---------------------------- MODULE ItemIndexSets ----------------------------
(***************************************************************************)
(* What all item indexes have in common: an index stands for an ascending  *)
(* sequence of ids; two indexes are built by push_back in two creators, of *)
(* which only the ids pushed so far are state here.  The encodings extend  *)
(* this module and compute their representations from those sequences; the *)
(* generic set operations and the generic search of ItemIndexPrivate work  *)
(* on any of them.                                                         *)
(***************************************************************************)
EXTENDS Integers, Sequences, FiniteSets, SequencesExt

CONSTANTS
    MaxId,      \* bound: ids are 0 .. MaxId
    Limits      \* the numItems and count arguments that are tried

ASSUME ItemIndexAssumption == MaxId \in Nat /\ Limits \subseteq Nat

VARIABLES first, second     \* the ids of the two indexes, ascending

indexes == <<first, second>>

InitIndexes == first = <<>> /\ second = <<>>
Ascends(s, id) == \A i \in DOMAIN s : s[i] < id
PushFirst(id) == Ascends(first, id) /\ first' = Append(first, id) /\ second' = second
PushSecond(id) == Ascends(second, id) /\ second' = Append(second, id) /\ first' = first
NextIndexes == \E id \in 0 .. MaxId : PushFirst(id) \/ PushSecond(id)

-----------------------------------------------------------------------------
(* IntersectOp, UniteOp, DifferenceOp, SymmetricDifferenceOp               *)

Op(fs, eq, ss, fr, sr) == [pushFirstSmaller |-> fs, pushEqual |-> eq, pushSecondSmaller |-> ss,
                           pushFirstRemainder |-> fr, pushSecondRemainder |-> sr]
IntersectOp == Op(FALSE, TRUE, FALSE, FALSE, FALSE)
UniteOp == Op(TRUE, TRUE, TRUE, TRUE, TRUE)
DifferenceOpLoose == Op(TRUE, FALSE, FALSE, FALSE, FALSE)   \* mutant: no remainder
DifferenceOp == Op(TRUE, FALSE, FALSE, TRUE, FALSE)
SymmetricDifferenceOp == Op(TRUE, FALSE, TRUE, TRUE, TRUE)
Ops == {IntersectOp, UniteOp, DifferenceOp, SymmetricDifferenceOp}

\* What an operation means: the ids it selects, and their ascending sequence.
Selected(op, X, Y) ==
    CASE op = IntersectOp -> X \cap Y
      [] op = UniteOp -> X \cup Y
      [] op = DifferenceOp -> X \ Y
      [] OTHER -> (X \ Y) \cup (Y \ X)
Meaning(op, x, y) == SetToSortSeq(Selected(op, ToSet(x), ToSet(y)), <)
Ascending(s) == \A i, j \in DOMAIN s : i < j => s[i] < s[j]
Enumerates(s, ids) == Ascending(s) /\ ToSet(s) = ids

When(flag, s) == IF flag THEN s ELSE <<>>
\* GenericSetOpExecuter::execute with f from i on and s from j on left; rest has the
\* results of the positions behind.
ExecuteAt(op, f, s, rest, i, j) ==
    IF i > Len(f) THEN When(op.pushSecondRemainder, SubSeq(s, j, Len(s)))
    ELSE IF j > Len(s) THEN When(op.pushFirstRemainder, SubSeq(f, i, Len(f)))
    ELSE IF f[i] < s[j] THEN When(op.pushFirstSmaller, <<f[i]>>) \o rest[<<i + 1, j>>]
    ELSE IF s[j] < f[i] THEN When(op.pushSecondSmaller, <<s[j]>>) \o rest[<<i, j + 1>>]
    ELSE When(op.pushEqual, <<f[i]>>) \o rest[<<i + 1, j + 1>>]
Positions(f, s) == (1 .. Len(f) + 1) \X (1 .. Len(s) + 1)
Execute(op, f, s) ==
    LET rest[p \in Positions(f, s)] == ExecuteAt(op, f, s, rest, p[1], p[2]) IN rest[<<1, 1>>]

Half(n) == IF n < 0 THEN -((-n) \div 2) ELSE n \div 2      \* C's division
NoPosition == -1                                            \* npos
\* ItemIndexPrivate::find: the position of id in s, counted from 0, when it can only
\* be in left .. right; found has the results of the smaller ranges.
SearchAt(s, id, found, left, right) ==
    LET mid == Half(right - left) + left
    IN IF left >= right \/ s[mid + 1] = id
       THEN IF s[mid + 1] = id THEN mid ELSE NoPosition
       ELSE IF s[mid + 1] < id THEN found[<<mid + 1, right>>]
       ELSE found[<<left, mid - 1>>]
Ranges(s) == (0 .. Len(s)) \X (-1 .. Len(s) - 1)
Find(s, id) ==
    LET found[p \in Ranges(s)] == SearchAt(s, id, found, p[1], p[2])
    IN IF s = <<>> THEN NoPosition ELSE found[<<0, Len(s) - 1>>]

\* The native set operation writes into memory for maxSize ids.
MaxSizeMax(op, x, y) == IF Len(x) < Len(y) THEN Len(y) ELSE Len(x)         \* mutant
MaxSize(op, x, y) ==
    CASE op = IntersectOp -> IF Len(x) < Len(y) THEN Len(x) ELSE Len(y)
      [] op = DifferenceOp -> Len(x)
      [] OTHER -> Len(x) + Len(y)

-----------------------------------------------------------------------------
(* ItemIndex: pairs and trees                                              *)

\* ItemIndex answers for an empty index, the privates never see one.
OnEmptyEmpty(op, x, y) == <<>>      \* mutant
OnEmpty(op, x, y) == IF x = <<>> THEN When(op.pushSecondRemainder, y) ELSE When(op.pushFirstRemainder, x)
Pair(op, x, y) == IF x = <<>> \/ y = <<>> THEN OnEmpty(op, x, y) ELSE Execute(op, x, y)

\* intersectWithTree, uniteWithTree: part has the results of the shorter ranges.
WithTreeAt(op, set, part, start, end) ==
    LET mid == start + (end - start) \div 2
    IN IF start = end THEN set[start] ELSE Pair(op, part[<<start, mid>>], part[<<mid + 1, end>>])
Parts(set) == {p \in (1 .. Len(set)) \X (1 .. Len(set)) : p[1] <= p[2]}
WithTree(op, set) ==
    LET part[p \in Parts(set)] == WithTreeAt(op, set, part, p[1], p[2]) IN part[<<1, Len(set)>>]
AllOf(op, set) == IF set = <<>> THEN <<>> ELSE WithTree(op, set)

Spec == InitIndexes /\ [][NextIndexes]_indexes

-----------------------------------------------------------------------------

\* The generic merge computes the operation its five flags stand for: the ids the
\* operation selects, each once and in ascending order.
ExecuteRight ==
    \A op \in Ops : Enumerates(Execute(op, first, second), Selected(op, ToSet(first), ToSet(second)))

\* find() ends with the position of the id, or npos, and never leaves the index.
FindRight ==
    \A id \in 0 .. MaxId :
        Find(first, id) = IF id \in ToSet(first) THEN (CHOOSE i \in DOMAIN first : first[i] = id) - 1
                          ELSE NoPosition

\* The operations every index without operations of its own inherits from
\* ItemIndexPrivate, merging and searching, are right.
GenericRight == ExecuteRight /\ FindRight

\* The memory of a native set operation is large enough for its result.
NativeFits == \A op \in Ops : Len(Execute(op, first, second)) <= MaxSize(op, first, second)

\* The tree over several indexes, with empty ones anywhere in it, is the
\* intersection or the union of all.
InAll(set) == {id \in ToSet(set[1]) : \A i \in DOMAIN set : id \in ToSet(set[i])}
InSome(set) == UNION {ToSet(set[i]) : i \in DOMAIN set}
TreesRight ==
    \A set \in {<<first, second, first>>, <<first, <<>>, second>>, <<second, first, second, <<>>, first>>} :
        /\ Enumerates(AllOf(IntersectOp, set), InAll(set))
        /\ Enumerates(AllOf(UniteOp, set), InSome(set))
=============================================================================
