---------------------------- MODULE ItemIndexRleDE ----------------------------
(***************************************************************************)
(* ItemIndexPrivateRleDE: the differences of the ids as variable length    *)
(* integers, diff * 2 for one id and run * 2 + 1, diff * 2 for a run of at *)
(* least two.  The data is a sequence of integers here, its bytes are the  *)
(* subject of PackUnpack.                                                  *)
(***************************************************************************)
EXTENDS ItemIndexSets

RleEmpty == [data |-> <<>>, rle |-> 0, lastDiff |-> 0, count |-> 0, prev |-> 0]

Run(rle, diff) ==
    IF rle = 0 THEN <<>> ELSE IF rle = 1 THEN <<diff * 2>> ELSE <<rle * 2 + 1, diff * 2>>
FlushRle(c) == [c EXCEPT !.data = @ \o Run(c.rle, c.lastDiff), !.rle = 0]
PushBackRle(c, id) ==
    LET diff == id - c.prev
    IN IF diff = c.lastDiff
       THEN [c EXCEPT !.rle = @ + 1, !.prev = id, !.count = @ + 1]
       ELSE [FlushRle(c) EXCEPT !.rle = 1, !.lastDiff = diff, !.prev = id, !.count = @ + 1]
PushRun(c, id, delta, length) ==
    IF length = 0 THEN PushBackRle(c, id)
    ELSE LET d == PushBackRle(PushBackRle(c, id), id + delta)
         IN [d EXCEPT !.rle = @ + length - 1, !.prev = @ + delta * (length - 1), !.count = @ + length - 1]
FlushWithData(c, data, count) ==
    [size |-> c.count + count, data |-> FlushRle(c).data \o data]
CreateRle(ids) == FlushWithData(FoldLeft(PushBackRle, RleEmpty, ids), <<>>, 0)

-----------------------------------------------------------------------------
(* A reader of one index: next value at pos, ids left in the run, the      *)
(* difference, the current id and its position                             *)

GetNext(r) ==
    LET v == IF r.pos <= Len(r.data) THEN r.data[r.pos] ELSE 0
    IN IF v % 2 = 1 THEN [r EXCEPT !.rle = v \div 2, !.val = r.data[r.pos + 1] \div 2, !.pos = @ + 2]
       ELSE [r EXCEPT !.val = v \div 2, !.pos = @ + 1]
Reader(idx) ==
    LET r == GetNext([data |-> idx.data, pos |-> 1, rle |-> 0, val |-> 0, id |-> 0, it |-> 0, size |-> idx.size])
    IN [r EXCEPT !.id = r.val]
InIndex(r) == r.it < r.size
Step(r) ==
    LET rle == IF r.rle > 0 THEN r.rle - 1 ELSE 0
        n == IF rle = 0 THEN GetNext([r EXCEPT !.rle = 0]) ELSE [r EXCEPT !.rle = rle]
    IN [n EXCEPT !.id = @ + n.val, !.it = @ + 1]
\* n ids of the run at once
Skip(r, n) ==
    LET s == [r EXCEPT !.rle = @ - n, !.it = @ + n, !.id = @ + r.val * (n - 1)]
        t == IF s.rle = 0 THEN GetNext(s) ELSE s
    IN [t EXCEPT !.id = @ + t.val]

Smaller(a, b) == IF a < b THEN a ELSE b
RunBelowLoose(r, id) == Smaller((id - r.id) \div r.val + 1, r.rle)   \* mutant: also takes id itself
RunBelow(r, id) ==          \* how many ids of r's run are smaller than id
    Smaller((id - r.id) \div r.val - (IF (id - r.id) % r.val > 0 THEN 0 ELSE 1) + 1, r.rle)
Fast(r, id) == r.rle > 1 /\ r.id + r.val < id

\* One side's smaller ids: a run at once or one id.
SmallerRead(r, id) == IF Fast(r, id) THEN Skip(r, RunBelow(r, id)) ELSE Step(r)
SmallerPushed(c, r, id, push) ==
    IF ~push THEN c
    ELSE IF Fast(r, id) THEN PushRun(c, r.id, r.val, RunBelow(r, id) - 1) ELSE PushBackRle(c, r.id)

Remainder(c, r) ==
    LET n == IF r.rle > 0 THEN r.rle ELSE 1
        d == IF r.rle > 0 THEN PushRun(c, r.id, r.val, r.rle - 1) ELSE PushBackRle(c, r.id)
    IN FlushWithData(d, SubSeq(r.data, r.pos, Len(r.data)), r.size - r.it - n)

\* genericOp
RECURSIVE GenericLoop(_, _, _, _)
GenericLoop(op, a, b, c) ==
    IF ~(InIndex(a) /\ InIndex(b))
    THEN IF op.pushFirstRemainder /\ InIndex(a) THEN Remainder(c, a)
         ELSE IF op.pushSecondRemainder /\ InIndex(b) THEN Remainder(c, b)
         ELSE FlushWithData(c, <<>>, 0)
    ELSE IF a.id < b.id
    THEN GenericLoop(op, SmallerRead(a, b.id), b, SmallerPushed(c, a, b.id, op.pushFirstSmaller))
    ELSE IF b.id < a.id
    THEN GenericLoop(op, a, SmallerRead(b, a.id), SmallerPushed(c, b, a.id, op.pushSecondSmaller))
    ELSE IF a.rle > 2 /\ b.rle > 2 /\ a.val = b.val
    THEN LET n == Smaller(a.rle, b.rle)
         IN GenericLoop(op, Skip(a, n), Skip(b, n),
                        IF op.pushEqual THEN PushRun(c, a.id, a.val, n - 1) ELSE c)
    ELSE GenericLoop(op, Step(a), Step(b), IF op.pushEqual THEN PushBackRle(c, a.id) ELSE c)
GenericOp(op, x, y) == GenericLoop(op, Reader(x), Reader(y), RleEmpty)

\* uniteK: no runs at once; after an equal id the difference of the second index
\* is halved again when a new one was read.
StepHalved(r) ==
    LET n == Step(r)
    IN IF r.rle <= 1 THEN [n EXCEPT !.val = n.val \div 2, !.id = r.id + n.val \div 2] ELSE n
RECURSIVE PushSome(_, _, _)
PushSome(c, r, k) ==        \* the rest of r's run, up to k ids in c
    IF r.rle = 0 \/ c.count >= k THEN <<c, r>>
    ELSE PushSome(PushBackRle(c, r.id), [r EXCEPT !.id = @ + r.val, !.it = @ + 1, !.rle = @ - 1], k)
RemainderK(c, r, k) ==
    LET one == <<PushBackRle(c, r.id), [r EXCEPT !.it = @ + 1]>>
        d == IF r.rle > 0 THEN PushSome(c, r, k) ELSE one
    IN IF d[1].count < k THEN FlushWithData(d[1], SubSeq(r.data, r.pos, Len(r.data)), r.size - d[2].it)
       ELSE FlushWithData(d[1], <<>>, 0)
RECURSIVE UniteKLoop(_, _, _, _)
UniteKLoop(a, b, c, k) ==
    IF ~(InIndex(a) /\ InIndex(b) /\ c.count < k)
    THEN IF InIndex(a) THEN RemainderK(c, a, k)
         ELSE IF InIndex(b) THEN RemainderK(c, b, k)
         ELSE FlushWithData(c, <<>>, 0)
    ELSE IF a.id = b.id THEN UniteKLoop(Step(a), StepHalved(b), PushBackRle(c, a.id), k)
    ELSE IF a.id < b.id THEN UniteKLoop(Step(a), b, PushBackRle(c, a.id), k)
    ELSE UniteKLoop(a, Step(b), PushBackRle(c, b.id), k)
UniteK(x, y, k) == UniteKLoop(Reader(x), Reader(y), RleEmpty, k)

-----------------------------------------------------------------------------
(* The other readers                                                       *)

\* at() and putInto(): a run is expanded as a whole, until size ids are there.
RECURSIVE Expand(_, _, _)
Expand(idx, pos, out) ==
    LET v == idx.data[pos]
        from == IF out = <<>> THEN 0 ELSE Last(out)
    IN IF Len(out) >= idx.size THEN out
       ELSE IF v % 2 = 1
       THEN Expand(idx, pos + 2, out \o [i \in 1 .. v \div 2 |-> from + i * (idx.data[pos + 1] \div 2)])
       ELSE Expand(idx, pos + 1, Append(out, from + v \div 2))
Expanded(idx) == Expand(idx, 1, <<>>)

\* MyIterator and SingleState: rle counts the ids that are left after the current one.
IterNext(it) ==
    IF it.rle > 0 THEN [it EXCEPT !.rle = @ - 1, !.id = @ + it.diff]
    ELSE IF it.pos > Len(it.data) THEN [it EXCEPT !.valid = FALSE]
    ELSE LET v == it.data[it.pos]
         IN IF v % 2 = 1
            THEN LET d == it.data[it.pos + 1] \div 2
                 IN [it EXCEPT !.rle = v \div 2 - 1, !.diff = d, !.id = @ + d, !.pos = @ + 2]
            ELSE [it EXCEPT !.diff = v \div 2, !.id = @ + v \div 2, !.pos = @ + 1]
Iter(idx) == IterNext([data |-> idx.data, pos |-> 1, rle |-> 0, diff |-> 0, id |-> 0, valid |-> TRUE])
RECURSIVE Walk(_)
Walk(it) == IF it.valid THEN <<it.id>> \o Walk(IterNext(it)) ELSE <<>>

\* constrainedIntersect: all readers move to the largest current id until they agree.
RECURSIVE MoveTo(_, _)
MoveTo(it, id) == IF it.valid /\ it.id < id THEN MoveTo(IterNext(it), id) ELSE it
AllValid(its) == \A i \in DOMAIN its : its[i].valid
AllEqual(its) == \A i, j \in DOMAIN its : its[i].id = its[j].id
MaxCurrent(its) == CHOOSE id \in {its[i].id : i \in DOMAIN its} : \A i \in DOMAIN its : its[i].id <= id
RECURSIVE MoveToNextEqual(_)
MoveToNextEqual(its) ==
    LET moved == [i \in DOMAIN its |-> MoveTo(its[i], MaxCurrent(its))]
    IN IF ~AllValid(its) THEN its
       ELSE IF AllEqual(moved) THEN moved ELSE MoveToNextEqual(moved)
Enough(out, count) == Len(out) >= count
RECURSIVE ConstrainedLoop(_, _, _)
ConstrainedLoop(its, out, count) ==
    LET at == MoveToNextEqual(its)
    IN IF ~AllValid(its) \/ Enough(out, count) \/ ~AllValid(at) THEN out
       ELSE ConstrainedLoop([i \in DOMAIN at |-> IterNext(at[i])], Append(out, at[1].id), count)
ConstrainedIntersect(idxs, count) == ConstrainedLoop([i \in DOMAIN idxs |-> Iter(idxs[i])], <<>>, count)

-----------------------------------------------------------------------------

\* Every way to read an index (at, putInto, iterators) gives the ids that were
\* pushed, whatever runs the creator made of them.
RleRoundTrip ==
    LET idx == CreateRle(first)
    IN idx.size = Len(first) /\ Expanded(idx) = first /\ Walk(Iter(idx)) = first

\* genericOp, which skips and pushes whole runs and copies the rest of an index
\* undecoded, computes the operation and counts its result correctly.
RleOpsRight ==
    \A op \in Ops :
        LET res == GenericOp(op, CreateRle(first), CreateRle(second))
        IN /\ Walk(Iter(res)) = Meaning(op, first, second)
           /\ res.size = Len(Meaning(op, first, second))

\* constrainedIntersect gives the first count common ids.
ConstrainedRight ==
    \A count \in Limits :
        LET both == Meaning(IntersectOp, first, second)
        IN ConstrainedIntersect(<<CreateRle(first), CreateRle(second)>>, count)
               = SubSeq(both, 1, Smaller(count, Len(both)))

\* uniteK, with room for all ids, unites two indexes that have no id in common.
UniteKDisjoint ==
    LET res == UniteK(CreateRle(first), CreateRle(second), 2 * MaxId + 2)
    IN Meaning(IntersectOp, first, second) = <<>> =>
           /\ Walk(Iter(res)) = Meaning(UniteOp, first, second)
           /\ res.size = Len(Meaning(UniteOp, first, second))

\* An RleDE index is read as it was written, and everything computed on its runs
\* is what the ids themselves give.
RleRight == RleRoundTrip /\ RleOpsRight /\ ConstrainedRight /\ UniteKDisjoint
=============================================================================
