--------------------------- MODULE ItemIndexPlain ---------------------------
(***************************************************************************)
(* The remaining encodings: delta (DE), Elias-Fano, simple and regression  *)
(* line.  Numbers that are stored with a fixed number of bits keep only    *)
(* these.                                                                  *)
(***************************************************************************)
EXTENDS ItemIndexSets, Packing, FiniteSetsExt

CONSTANT Lines      \* the slopes and intercepts the regression may have produced
ASSUME LinesAssumption == Lines \subseteq Nat \X Int

-----------------------------------------------------------------------------
(* ItemIndexPrivateDE                                                      *)

DeEmpty == [data |-> <<>>, prev |-> 0, count |-> 0]
PushBackDe(c, id) == [data |-> Append(c.data, id - c.prev), prev |-> id, count |-> c.count + 1]
FlushDe(c, data, count) == [size |-> c.count + count, data |-> c.data \o data]
CreateDe(ids) == FlushDe(FoldLeft(PushBackDe, DeEmpty, ids), <<>>, 0)

DeReader(idx) == [data |-> Tail(idx.data), id |-> Head(idx.data), it |-> 0, size |-> idx.size]
DeInIndex(r) == r.it < r.size
DeStep(r) ==
    IF r.it + 1 < r.size THEN [r EXCEPT !.it = @ + 1, !.id = @ + Head(r.data), !.data = Tail(@)]
    ELSE [r EXCEPT !.it = @ + 1]
DePush(c, r, push) == IF push THEN PushBackDe(c, r.id) ELSE c
\* the rest of an index is copied as differences
DeRemainder(c, r) == FlushDe(PushBackDe(c, r.id), r.data, r.size - (r.it + 1))
RECURSIVE DeLoop(_, _, _, _)
DeLoop(op, a, b, c) ==
    IF ~(DeInIndex(a) /\ DeInIndex(b))
    THEN IF op.pushFirstRemainder /\ DeInIndex(a) THEN DeRemainder(c, a)
         ELSE IF op.pushSecondRemainder /\ DeInIndex(b) THEN DeRemainder(c, b)
         ELSE FlushDe(c, <<>>, 0)
    ELSE IF a.id = b.id THEN DeLoop(op, DeStep(a), DeStep(b), DePush(c, a, op.pushEqual))
    ELSE IF a.id < b.id THEN DeLoop(op, DeStep(a), b, DePush(c, a, op.pushFirstSmaller))
    ELSE DeLoop(op, a, DeStep(b), DePush(c, b, op.pushSecondSmaller))
DeOp(op, x, y) == DeLoop(op, DeReader(CreateDe(x)), DeReader(CreateDe(y)), DeEmpty)
\* at() and putInto(): prefix sums of size differences
ReadDe(idx) == [i \in 1 .. idx.size |-> FoldLeft(+, 0, SubSeq(idx.data, 1, i))]

-----------------------------------------------------------------------------
(* ItemIndexPrivateEliasFano                                               *)

UpperBound(count, largest) ==
    LET rest == largest - (count - 1)
        l2 == 2^Msb(rest)
    IN IF l2 = rest THEN l2 ELSE 2 * l2
NumLowerBits(count, upperBound) ==
    IF count = 0 \/ upperBound < count THEN 0
    ELSE CHOOSE k \in 0 .. 31 : count * 2^k <= upperBound /\ count * 2^(k + 1) > upperBound
CreateEf(ids) ==
    IF ids = <<>> THEN [size |-> 0, bound |-> 0, lower |-> <<>>, gaps |-> <<>>]
    ELSE LET n == Len(ids)
             ub == UpperBound(n, Last(ids))
             bits == NumLowerBits(n, ub)
             rest(i) == ids[i] - (i - 1)
             upper(i) == IF i = 0 THEN 0 ELSE rest(i) \div 2^bits
         IN [size |-> n, bound |-> Msb(ub), lower |-> [i \in 1 .. n |-> Masked(rest(i), bits)],
             gaps |-> [i \in 1 .. n |-> upper(i) - upper(i - 1)]]
EfIter(idx) == [pos |-> 1, lastUb |-> 0, baseValue |-> 0]
EfGet(idx, it) ==
    (it.lastUb + idx.gaps[it.pos]) * 2^NumLowerBits(idx.size, 2^idx.bound) + idx.lower[it.pos] + it.baseValue
EfNext(idx, it) == [pos |-> it.pos + 1, lastUb |-> it.lastUb + idx.gaps[it.pos], baseValue |-> it.baseValue + 1]
EfCopy(it) == [it EXCEPT !.baseValue = 0]
RECURSIVE EfWalk(_, _)
EfWalk(idx, it) == IF it.pos > idx.size THEN <<>> ELSE <<EfGet(idx, it)>> \o EfWalk(idx, EfNext(idx, it))
RECURSIVE EfAdvance(_, _, _)
EfAdvance(idx, it, n) == IF n = 0 THEN it ELSE EfAdvance(idx, EfNext(idx, it), n - 1)
\* putInto(): the ids that at() has cached and the rest through a copy of the iterator
EfPutInto(idx, cached) ==
    SubSeq(EfWalk(idx, EfIter(idx)), 1, cached) \o EfWalk(idx, EfCopy(EfAdvance(idx, EfIter(idx), cached)))

-----------------------------------------------------------------------------
(* ItemIndexPrivateSimple, ItemIndexPrivateRegLine                         *)

Between(ids) == ids[Len(ids)] - ids[1]
CreateSimple(ids) ==
    LET bits == MinStorageBitsFullBytes(Between(ids) + 1)
    IN [size |-> Len(ids), lowest |-> ids[1], ids |-> [i \in DOMAIN ids |-> Masked(ids[i] - ids[1], bits)]]
ReadSimple(idx) == [i \in 1 .. idx.size |-> idx.ids[i] + idx.lowest]

\* The value of a line at a position: integer arithmetic, so that both sides round alike.
SlopeCorrection(slopenom, size, pos) ==
    (slopenom \div (size - 1)) * pos + ((slopenom % (size - 1)) * pos) \div (size - 1)
LineBitsTight(ids, corrected) == MinStorageBits(Max(corrected) - Min(corrected)) - 1     \* mutant
LineBits(ids, corrected) == MinStorageBits(Max(corrected) - Min(corrected) + 1)
CreateLine(ids, line) ==
    LET n == Len(ids)
        corrected(i) == ids[i] - SlopeCorrection(line[1], n, i - 1) - line[2]
        all == {corrected(i) : i \in 1 .. n}
    IN IF n = 1 THEN [size |-> 1, line |-> <<0, 0>>, offset |-> 0, ids |-> <<Masked(ids[1], MinStorageBits(ids[1]))>>]
       ELSE [size |-> n, line |-> line, offset |-> Min(all),
             ids |-> [i \in 1 .. n |-> Masked(corrected(i) - Min(all), LineBits(ids, all))]]
CreateNoLine(ids) ==
    LET bits == MinStorageBits(Between(ids))
    IN IF Len(ids) = 1 THEN CreateLine(ids, <<0, 0>>)
       ELSE [size |-> Len(ids), line |-> <<0, ids[1]>>, offset |-> 0,
             ids |-> [i \in DOMAIN ids |-> Masked(ids[i] - ids[1], bits)]]
ReadLine(idx) ==
    [i \in 1 .. idx.size |->
        IF idx.size = 1 THEN idx.ids[1]
        ELSE SlopeCorrection(idx.line[1], idx.size, i - 1) + idx.ids[i] + idx.line[2] + idx.offset]

-----------------------------------------------------------------------------

\* The ids come back from every encoding, whatever line was fitted through them.
PlainRoundTrip ==
    /\ ReadDe(CreateDe(first)) = first
    /\ LET ef == CreateEf(first) IN EfWalk(ef, EfIter(ef)) = first /\ EfPutInto(ef, 0) = first
    /\ first # <<>> => /\ ReadSimple(CreateSimple(first)) = first
                       /\ ReadLine(CreateNoLine(first)) = first
                       /\ \A line \in Lines : ReadLine(CreateLine(first, line)) = first

\* The delta index copies the rest of an index undecoded and still counts and
\* continues its result correctly.
DeOpsRight ==
    first # <<>> /\ second # <<>> =>
        \A op \in Ops : /\ DeOp(op, first, second).size = Len(Meaning(op, first, second))
                        /\ ReadDe(DeOp(op, first, second)) = Meaning(op, first, second)

\* The delta, Elias-Fano, plain and regression line indexes are read as they were
\* written, and the delta index computes on its differences what the ids give.
PlainRight == PlainRoundTrip /\ DeOpsRight

\* tests/containers_ItemIndexBaseTest.h:465, "vector from index unequal": putInto gives
\* all ids, however many of them at() has read before.
PutIntoRight == \A k \in 0 .. Len(first) : EfPutInto(CreateEf(first), k) = first
=============================================================================
