----------------------------- MODULE ItemIndexWAH -----------------------------
(***************************************************************************)
(* ItemIndexPrivateWAH: the ids as a bit vector cut into words of WordBits *)
(* bits (31 in the code).  A word is a record: a literal has n = 0 and the *)
(* positions of its ones in bits; a run of n > 0 equal words has no bits   *)
(* or all of them.  The encoded word 0 is the literal without ones, which  *)
(* the code also uses for "no word".                                       *)
(***************************************************************************)
EXTENDS ItemIndexSets

CONSTANT WordBits
ASSUME WordBitsAssumption == WordBits \in Nat /\ WordBits > 1

AllBits == 0 .. WordBits - 1
Literal(bits) == [n |-> 0, bits |-> bits]
Rle(n, bits) == [n |-> n, bits |-> bits]
NoWord == Literal({})
RunIf(n, bits) == IF n > 0 THEN <<Rle(n, bits)>> ELSE <<>>
LiteralIf(bits) == IF bits # {} THEN <<Literal(bits)>> ELSE <<>>

-----------------------------------------------------------------------------
(* create(): st has the words put, the number of all-one words not put yet *)
(* (ones), the word being filled and the position after its last bit       *)

\* A word is full: count it if all ones, put it otherwise.
WordFull(st) ==
    IF st.pos < WordBits THEN st
    ELSE IF st.word = AllBits THEN [st EXCEPT !.ones = @ + 1, !.word = {}, !.pos = 0]
    ELSE [st EXCEPT !.out = @ \o RunIf(st.ones, AllBits) \o <<Literal(st.word)>>, !.ones = 0,
                    !.word = {}, !.pos = 0]
FirstId(id) ==
    LET st == [out |-> RunIf(id \div WordBits, {}), ones |-> 0, word |-> {id % WordBits},
               pos |-> (id % WordBits) + 1, prev |-> id]
    IN IF st.pos < WordBits THEN st
       ELSE [st EXCEPT !.out = @ \o <<Literal(st.word)>>, !.word = {}, !.pos = 0]
GapLoose(st, gap) == gap - 1 - (WordBits - st.pos)          \* mutant: also for an empty word
GapLeft(st, gap) == IF st.pos > 0 THEN gap - 1 - (WordBits - st.pos) ELSE gap - 1
NextId(st, id) ==
    LET gap == id - st.prev
        left == GapLeft(st, gap)
    IN WordFull(
         IF gap > WordBits - st.pos
         THEN [out |-> st.out \o RunIf(st.ones, AllBits) \o (IF st.pos > 0 THEN <<Literal(st.word)>> ELSE <<>>)
                              \o RunIf(left \div WordBits, {}),
               ones |-> 0, word |-> {left % WordBits}, pos |-> (left % WordBits) + 1, prev |-> id]
         ELSE [st EXCEPT !.word = @ \cup {st.pos + gap - 1}, !.pos = st.pos + gap, !.prev = id])
CreateWah(ids) ==
    IF ids = <<>> THEN [words |-> <<>>, size |-> 0]
    ELSE LET st == FoldLeft(NextId, FirstId(Head(ids)), Tail(ids))
             ones == IF st.word = AllBits THEN st.ones + 1 ELSE st.ones
         IN [words |-> st.out \o RunIf(ones, AllBits) \o (IF st.word = AllBits THEN <<>> ELSE LiteralIf(st.word)),
             size |-> Len(ids)]

-----------------------------------------------------------------------------
(* OutPutHandler: runs of one kind that meet are merged                    *)

NoOutput == [data |-> <<>>, word |-> NoWord, count |-> 0]
Pushed(o) == [o EXCEPT !.data = Append(@, o.word),
                       !.count = @ + Cardinality(o.word.bits) * (IF o.word.n = 0 THEN 1 ELSE o.word.n)]
AppendWord(o, w) ==
    IF w.n > 0 /\ o.word.n > 0 /\ w.bits = o.word.bits THEN [o EXCEPT !.word.n = @ + w.n]
    ELSE [(IF o.word = NoWord THEN o ELSE Pushed(o)) EXCEPT !.word = w]
FlushedWah(o) ==
    LET f == IF o.word = NoWord THEN o ELSE Pushed(o)
    IN [words |-> f.data, size |-> f.count]

\* What the switch appends for one word of each index: bits, and the run of one that
\* stands for a constant word where the case tests for it.
BitsOf(op, x, y) ==
    (IF op.pushEqual THEN x \cap y ELSE {}) \cup (IF op.pushFirstSmaller THEN x \ y ELSE {})
        \cup (IF op.pushSecondSmaller THEN y \ x ELSE {})
Tested(op) == CASE op = UniteOp -> {AllBits} [] op = SymmetricDifferenceOp -> {{}, AllBits} [] OTHER -> {{}}
RunDecides(op, x, y) ==
    IF x.n > 0 THEN BitsOf(op, x.bits, {}) = BitsOf(op, x.bits, AllBits)
    ELSE BitsOf(op, {}, y.bits) = BitsOf(op, AllBits, y.bits)
Combined(op, x, y, bits) ==
    IF (IF x.n = 0 /\ y.n = 0 THEN bits \in Tested(op) ELSE RunDecides(op, x, y))
    THEN Rle(1, bits) ELSE Literal(bits)

\* The current word of an index after n words of it were used; NoWord: load the next.
Used(w, n) == IF w.n > n THEN [w EXCEPT !.n = @ - n] ELSE NoWord
\* The first words with the current one put back.
Rest(cur, words) == IF cur = NoWord THEN words ELSE <<cur>> \o words
RECURSIVE WahLoop(_, _, _, _)
WahLoop(op, xs, ys, o) ==
    IF xs = <<>> \/ ys = <<>>
    THEN FlushedWah(FoldLeft(AppendWord, o, When(op.pushFirstRemainder, xs) \o When(op.pushSecondRemainder, ys)))
    ELSE LET x == Head(xs)
             y == Head(ys)
             n == IF x.n > 0 /\ y.n > 0 THEN (IF x.n < y.n THEN x.n ELSE y.n) ELSE 1
             bits == BitsOf(op, x.bits, y.bits)
         IN WahLoop(op, Rest(Used(x, n), Tail(xs)), Rest(Used(y, n), Tail(ys)),
                    AppendWord(o, IF x.n > 0 /\ y.n > 0 THEN Rle(n, bits) ELSE Combined(op, x, y, bits)))
WahOp(op, x, y) == WahLoop(op, x.words, y.words, NoOutput)

-----------------------------------------------------------------------------
(* Readers                                                                 *)

\* The words as single words, one after the other.
Words(idx) ==
    FoldLeft(LAMBDA s, w : s \o [i \in 1 .. (IF w.n = 0 THEN 1 ELSE w.n) |-> w.bits], <<>>, idx.words)
IdsOf(bits) == LET ids == {i \in 0 .. WordBits * (Len(bits) + 1) : i \div WordBits < Len(bits)
                                 /\ i % WordBits \in bits[(i \div WordBits) + 1]}
               IN SetToSortSeq(ids, <)
\* at() and putInto()
ReadWah(idx) == IdsOf(Words(idx))
\* fromBitSet(): as many words as the bytes of the set need; trailing zeros stay.
FromBitSet(ids, bytes) ==
    LET n == (8 * bytes + WordBits - 1) \div WordBits
        word(i) == {b \in AllBits : (i - 1) * WordBits + b \in ids}
        enc(i) == IF word(i) \in {{}, AllBits} THEN Rle(1, word(i)) ELSE Literal(word(i))
    IN FlushedWah(FoldLeft(LAMBDA o, i : AppendWord(o, enc(i)), NoOutput, [i \in 1 .. n |-> i]))

\* constrainedIntersect: word by word until an index ends or count ids are found.
Ends(x, y, k) == k = Len(x) \/ k = Len(y)
RECURSIVE WahConstrained(_, _, _, _)
WahConstrained(x, y, k, count) ==
    LET found == IdsOf([i \in 1 .. k |-> x[i] \cap y[i]])
    IN IF Len(found) >= count \/ Ends(x, y, k) THEN found ELSE WahConstrained(x, y, k + 1, count)

-----------------------------------------------------------------------------

\* Normal form: no literal is constant and no two runs of a kind meet; the set
\* operations rely on it, since the literal without ones means "no word".
Normal(idx) ==
    /\ \A i \in DOMAIN idx.words : idx.words[i].n = 0 => idx.words[i].bits \notin {{}, AllBits}
    /\ \A i \in 1 .. Len(idx.words) - 1 :
          ~(idx.words[i].n > 0 /\ idx.words[i + 1].n > 0 /\ idx.words[i].bits = idx.words[i + 1].bits)

\* create() and fromBitSet() encode the ids that were given, in normal form.
WahRoundTrip ==
    LET idx == CreateWah(first)
        bytes == (IF first = <<>> THEN 0 ELSE Last(first)) \div 8 + 1
        set == FromBitSet(ToSet(first), bytes)
    IN /\ ReadWah(idx) = first /\ idx.size = Len(first) /\ Normal(idx)
       /\ ReadWah(set) = first /\ set.size = Len(first) /\ Normal(set)

\* The word-wise operations compute the set operation, count its ids and keep the
\* normal form, so that results can be operands again.
WahOpsRight ==
    \A op \in Ops :
        LET res == WahOp(op, CreateWah(first), CreateWah(second))
        IN /\ ReadWah(res) = Meaning(op, first, second)
           /\ res.size = Len(Meaning(op, first, second))
           /\ Normal(res)

\* constrainedIntersect of two indexes that are not empty gives the smallest common
\* ids, at least count of them if there are so many.
WahConstrainedRight ==
    first # <<>> /\ second # <<>> =>
        \A count \in Limits \ {0} :
            LET both == Meaning(IntersectOp, first, second)
                res == WahConstrained(Words(CreateWah(first)), Words(CreateWah(second)), 1, count)
            IN /\ IsPrefix(res, both)
               /\ Len(res) >= (IF count < Len(both) THEN count ELSE Len(both))

\* A WAH index is read as it was written, and everything computed on its words is
\* what the ids themselves give.
WahRight == WahRoundTrip /\ WahOpsRight /\ WahConstrainedRight
=============================================================================
