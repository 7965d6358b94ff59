----------------------- MODULE ItemIndexFactoryProofs -----------------------
(***************************************************************************)
(* Proofs about ItemIndexFactory, for any number of threads, any source    *)
(* store and any sizes.                                                    *)
(***************************************************************************)
EXTENDS ItemIndexFactory, TLAPS, WellFoundedInduction, SequenceTheorems

\* Threads that have fetched an index and not yet returned its id.
Active == {t \in Threads : pc[t] \in {"reserve", "enter"}} \cup InFlight

\* Ids that are reserved and not yet entered into the auxiliary arrays.
Pending == {id[t] : t \in InFlight}

End(i) == added[i].offset + Bytes[added[i].content]

\* The reserved ranges lie one after the other, the first one at 0, and m_dataOffset
\* is where the last one ends.
RangeInv ==
    /\ idCounter # 0 /\ Len(added) = idCounter
    /\ added[1] = [content |-> Empty, offset |-> 0]
    /\ \A i, j \in 1..idCounter : i < j => End(i) <= added[j].offset
    /\ \A i \in 1..idCounter : i + 1 <= idCounter => added[i + 1].offset = End(i)
    /\ dataOffset = End(idCounter)

\* Every index that is being added has an id and a range of its own.
FlightInv ==
    /\ \A t \in InFlight :
          /\ id[t] < idCounter
          /\ added[id[t] + 1] = [content |-> Content(t), offset |-> offset[t]]
    /\ \A t, u \in InFlight : t # u => id[t] # id[u]

\* Every thread works on an entry of the source of its own.
SourceInv ==
    /\ next # 0
    /\ \A t \in Active : pos[t] # 0 /\ pos[t] < next
    /\ \A t, u \in Active : t # u => pos[t] # pos[u]
    /\ \A t \in Threads : pc[t] = "done" => next > SourceSize

\* growStorage() excludes the writers; the storage it copies to is larger, large
\* enough, and as far as it goes equal to the storage in use.
GrowInv ==
    /\ \A t \in Threads : (grower = t) <=> (pc[t] = "growing")
    /\ grower # NoThread =>
          /\ Putting = {}
          /\ Size <= Len(copy) /\ Need(grower) <= Len(copy)
          /\ \A k \in 1..Size : copy[k] = store[k]

\* From the test of the size on the storage covers the range of the thread.
CoverInv == \A t \in Threads : pc[t] \in {"put", "putting", "aux"} => Need(t) <= Size

\* The auxiliary arrays hold the offsets of the ids whose threads are through.
AuxInv ==
    /\ \A i \in Ids \ Pending : i < Len(offsets) /\ offsets[i + 1] = added[i + 1].offset
    /\ flushed => /\ \A t \in Threads : pc[t] = "done"
                  /\ Len(offsets) = idCounter /\ Len(sizes) = idCounter

\* The hash only knows ids.
HashInv == \A b \in DOMAIN hash : hash[b] \in Ids

\* Nobody has replaced the hash behind the back of the threads that use it.
Undisturbed == dedup => recalcs = 0

\* The hash knows the ids, and each under the bytes of its index.
DedupInv ==
    dedup /\ recalcs = 0 =>
        /\ \A i \in Ids : Serialized(added[i + 1].content) \in DOMAIN hash
        /\ \A b \in DOMAIN hash : b = Serialized(added[hash[b] + 1].content)
        /\ IdsUnique

\* What insert() returns for the entries it is through with.
Handled(i) == i < next /\ \A t \in Active : pos[t] # i
ResultInv ==
    Undisturbed => \A i \in 1..SourceSize : Handled(i) =>
        newId[i] \in Ids /\ added[newId[i] + 1].content = source[i]

\* m_metaDataLock: one thread at a time is between its lookup and the entry of its id,
\* and its bytes are still unknown.
MetaInv ==
    /\ \A t, u \in Threads : pc[t] = "enter" /\ pc[u] = "enter" => t = u
    /\ \A t \in Threads : pc[t] = "enter" => ~Known(t)

IInv ==
    /\ TypeOK /\ RangeInv /\ FlightInv /\ SourceInv /\ GrowInv /\ CoverInv
    /\ DataIntact /\ AuxInv /\ HashInv /\ DedupInv /\ ResultInv

-----------------------------------------------------------------------------
(* Facts about the operators                                               *)

Cell == Contents \X Nat         \* a byte of the storage

\* A sequence is what a function on an interval from 1 is.
LEMMA MadeSeq == ASSUME NEW S, NEW n \in Nat, NEW f \in [1..n -> S]
                 PROVE  f \in Seq(S) /\ Len(f) = n /\ DOMAIN f = 1..n
  OBVIOUS

LEMMA WrittenSeq ==
    ASSUME NEW s \in Seq(Cell), NEW o \in Nat, NEW c \in Contents
    PROVE  /\ Written(s, o, c) \in Seq(Cell)
           /\ Len(Written(s, o, c)) = Len(s)
           /\ \A k \in 1..Len(s) : Written(s, o, c)[k] =
                 IF k \in (o + 1)..(o + Bytes[c]) THEN Byte(c, k - o) ELSE s[k]
<1>1. Bytes[c] \in Nat
  BY FactoryAssumption
<1>2. \A k \in 1..Len(s) :
          (IF k \in (o + 1)..(o + Bytes[c]) THEN Byte(c, k - o) ELSE s[k]) \in Cell
  BY <1>1 DEF Byte, Cell
<1>3. Written(s, o, c) \in [1..Len(s) -> Cell]
  BY <1>2 DEF Written
<1> QED
  BY <1>3, MadeSeq DEF Written

LEMMA GrownSeq ==
    ASSUME NEW s \in Seq(Cell), NEW n \in Nat
    PROVE  /\ GrownBy(s, n) \in Seq(Cell)
           /\ Len(GrownBy(s, n)) = Len(s) + n
           /\ \A k \in 1..Len(s) : GrownBy(s, n)[k] = s[k]
<1>1. Zero \in Cell
  BY FactoryAssumption DEF Zero, Cell
<1>2. Len(s) + n \in Nat
  OBVIOUS
<1>3. GrownBy(s, n) \in [1..(Len(s) + n) -> Cell]
  BY <1>1 DEF GrownBy
<1> QED
  BY <1>2, <1>3, MadeSeq DEF GrownBy

LEMMA ResizedSeq ==
    ASSUME NEW v \in Seq(Nat), NEW n \in Nat
    PROVE  /\ Resized(v, n) \in Seq(Nat)
           /\ Len(Resized(v, n)) = n
           /\ \A k \in 1..n : Resized(v, n)[k] = IF k <= Len(v) THEN v[k] ELSE 0
<1>1. Resized(v, n) \in [1..n -> Nat]
  BY DEF Resized
<1> QED
  BY <1>1, MadeSeq DEF Resized

\* Bytes tell what they are the bytes of: a hash without collisions.
LEMMA SerializedInjective ==
    ASSUME NEW c \in Contents, NEW d \in Contents, Serialized(c) = Serialized(d)
    PROVE  c = d
<1>1. 1 \in 1..Bytes[c] /\ 1 \in 1..Bytes[d]
  BY FactoryAssumption
<1>2. Serialized(c)[1] = <<c, 1>> /\ Serialized(d)[1] = <<d, 1>>
  BY <1>1 DEF Serialized, Byte
<1> QED
  BY <1>2

\* A set of numbers up to n has a largest one.
LEMMA LargestExists ==
    ASSUME NEW n \in Nat, NEW S \in SUBSET (0..n), S # {}
    PROVE  \E m \in S : \A k \in S : k <= m
<1> DEFINE T == {n - s : s \in S}
<1>1. T \subseteq Nat /\ T # {}
  OBVIOUS
<1>2. \E x \in T : \A y \in T : x <= y
  <2> DEFINE less == OpToRel(<, Nat)
  <2>1. IsWellFoundedOn(less, Nat)
    BY NatLessThanWellFounded
  <2>2. \A i, j \in Nat : ~(<<i, j>> \in less) => j <= i
    BY DEF OpToRel
  <2> HIDE DEF less, T
  <2>3. \E x \in T : \A y \in T : ~(<<y, x>> \in less)
    BY <1>1, <2>1, WFMin
  <2> QED
    BY <1>1, <2>2, <2>3
<1>3. PICK x \in T : \A y \in T : x <= y
  BY <1>2
<1>4. PICK m \in S : x = n - m
  OBVIOUS
<1>5. \A k \in S : n - m <= n - k
  BY <1>3, <1>4
<1> QED
  BY <1>5

-----------------------------------------------------------------------------
(* The initial states                                                      *)

LEMMA InitIInv == Init => IInv
<1> SUFFICES ASSUME Init PROVE IInv
  OBVIOUS
<1> USE FactoryAssumption
<1> DEFINE room == Longest(Bytes[Empty], GrowSize)
<1>1. room \in Nat /\ Bytes[Empty] <= room /\ Bytes[Empty] \in Nat \ {0}
  BY DEF Longest
<1>2. <<>> \in Seq(Cell) /\ <<>> \in Seq(Nat) /\ Len(<<>>) = 0
  OBVIOUS
<1> DEFINE grown == GrownBy(<<>>, room)
<1>3. store = Written(grown, 0, Empty)
  BY DEF Init
<1>4. /\ store \in Seq(Cell) /\ Len(store) = room
      /\ \A k \in 1..Bytes[Empty] : store[k] = Byte(Empty, k)
  <2> HIDE DEF room
  <2>1. grown \in Seq(Cell) /\ Len(grown) = 0 + room
    BY ONLY <1>1, <1>2, GrownSeq
  <2> HIDE DEF grown
  <2>2. /\ store \in Seq(Cell) /\ Len(store) = Len(grown)
        /\ \A k \in 1..Len(grown) : store[k] =
              IF k \in (0 + 1)..(0 + Bytes[Empty]) THEN Byte(Empty, k - 0) ELSE grown[k]
    <3>1. 0 \in Nat /\ Empty \in Contents
      OBVIOUS
    <3> DEFINE w == Written(grown, 0, Empty)
    <3>2. /\ w \in Seq(Cell) /\ Len(w) = Len(grown)
          /\ \A k \in 1..Len(grown) : w[k] =
                IF k \in (0 + 1)..(0 + Bytes[Empty]) THEN Byte(Empty, k - 0) ELSE grown[k]
      BY ONLY <2>1, <3>1, WrittenSeq
    <3> QED
      BY ONLY <1>3, <3>2
  <2>3. \A k \in 1..Bytes[Empty] : store[k] = Byte(Empty, k - 0) /\ k - 0 = k
    BY <1>1, <2>1, <2>2
  <2> QED
    BY <1>1, <2>1, <2>2, <2>3
<1>5. /\ offsets \in Seq(Nat) /\ Len(offsets) = AuxGrow /\ offsets[1] = 0
      /\ sizes \in Seq(Nat)
  <2> DEFINE zeros == Resized(<<>>, AuxGrow)
  <2>1. /\ zeros \in Seq(Nat) /\ Len(zeros) = AuxGrow
        /\ \A k \in 1..AuxGrow : zeros[k] = IF k <= 0 THEN <<>>[k] ELSE 0
    BY ONLY <1>2, ResizedSeq, AuxGrow \in Nat \ {0}
  <2>2. offsets = zeros /\ sizes = [zeros EXCEPT ![1] = Items[Empty]]
    BY DEF Init
  <2>3. Items[Empty] \in Nat /\ AuxGrow \in Nat \ {0}
    OBVIOUS
  <2> HIDE DEF zeros
  <2>4. sizes \in Seq(Nat)
    BY ONLY <2>1, <2>2, <2>3
  <2> QED
    BY ONLY <2>1, <2>2, <2>3, <2>4
<1>6. TypeOK
  <2>1. added \in Seq([content : Contents, offset : Nat])
    <3>1. [content |-> Empty, offset |-> 0] \in [content : Contents, offset : Nat]
      OBVIOUS
    <3> QED
      BY ONLY <3>1, added = <<[content |-> Empty, offset |-> 0]>> DEF Init
  <2>2. recalcs \in 0..MaxRecalcs[dedup] /\ dedup \in Dedup
    BY DEF Init
  <2>3. copy \in Seq(Cell)
    BY <1>2 DEF Init
  <2>4. store \in Seq(Contents \X Nat) /\ copy \in Seq(Contents \X Nat)
    BY <1>4, <2>3 DEF Cell
  <2>5. /\ newId \in [0..SourceSize -> Nat] /\ pos \in [Threads -> 0..SourceSize]
        /\ id \in [Threads -> Nat] /\ offset \in [Threads -> Nat]
    BY DEF Init
  <2>6. source \in [1..SourceSize -> Contents] /\ next \in Nat /\ idCounter \in Nat
        /\ dataOffset \in Nat
    BY DEF Init
  <2>7. grower \in Threads \cup {NoThread} /\ flushed \in BOOLEAN
    BY DEF Init
  <2>8. pc \in [Threads -> {"fetch", "reserve", "enter", "size", "grow", "growing", "put",
                           "putting", "aux", "done"}]
    BY DEF Init
  <2> QED
    BY <1>5, <2>1, <2>2, <2>4, <2>5, <2>6, <2>7, <2>8 DEF TypeOK
<1>7. InFlight = {} /\ Active = {} /\ Pending = {} /\ Unwritten = {} /\ Putting = {}
  BY DEF Init, InFlight, Active, Pending, Unwritten, Putting
<1>8. /\ Ids = {0} /\ idCounter = 1 /\ Len(added) = 1
      /\ added[1] = [content |-> Empty, offset |-> 0]
      /\ dataOffset = Bytes[Empty]
  BY DEF Init, Ids
<1>9. RangeInv
  BY <1>1, <1>8 DEF RangeInv, End
<1>10. FlightInv /\ SourceInv
  BY <1>7 DEF FlightInv, SourceInv, Init
<1>11. GrowInv /\ CoverInv
  BY DEF GrowInv, CoverInv, Init
<1>12. DataIntact
  BY <1>1, <1>4, <1>8 DEF DataIntact, Holds, Size
<1>13. AuxInv
  BY <1>5, <1>8 DEF AuxInv, Init
<1>14. HashInv /\ DedupInv
  <2>1. CASE dedup
    <3>1. hash = [b \in {Serialized(Empty)} |-> 0]
      BY <2>1 DEF Init
    <3> QED
      BY <3>1, <1>8 DEF HashInv, DedupInv, IdsUnique
  <2>2. CASE ~dedup
    <3>1. DOMAIN hash = {}
      BY <2>2 DEF Init
    <3> QED
      BY <3>1, <2>2 DEF HashInv, DedupInv
  <2> QED
    BY <2>1, <2>2
<1>15. ResultInv
  BY DEF ResultInv, Handled, Init
<1> QED
  BY <1>6, <1>9, <1>10, <1>11, <1>12, <1>13, <1>14, <1>15 DEF IInv

-----------------------------------------------------------------------------
(* One lemma per action                                                    *)

FlightPC == {"size", "grow", "growing", "put", "putting", "aux"}

\* A thread goes on with its addIndex() and touches nothing but the storage.
FlightStep(t) ==
    /\ pc[t] \in FlightPC
    /\ \E to \in FlightPC : pc' = [pc EXCEPT ![t] = to]
    /\ UNCHANGED <<dedup, source, next, newId, locals, metaData, auxData, ownerVars>>

StaticInv ==
    RangeInv /\ FlightInv /\ SourceInv /\ AuxInv /\ HashInv /\ DedupInv /\ ResultInv

LEMMA FlightStepKeeps ==
    ASSUME IInv, NEW t \in Threads, FlightStep(t)
    PROVE  StaticInv' /\ InFlight' = InFlight
<1>1. /\ InFlight' = InFlight /\ Active' = Active
      /\ \A u \in Threads : pc'[u] = "done" <=> pc[u] = "done"
  BY DEF FlightStep, FlightPC, InFlight, Active, IInv, TypeOK
<1>2. UNCHANGED <<dedup, source, next, newId, pos, id, offset, idCounter, dataOffset,
                  hash, added, offsets, sizes, flushed, recalcs>>
  BY DEF FlightStep, locals, metaData, auxData, ownerVars
<1>3. Pending' = Pending
  BY <1>1, <1>2 DEF Pending
<1>4. Ids' = Ids
  BY <1>2 DEF Ids
<1>5. RangeInv' /\ HashInv' /\ DedupInv'
  BY <1>2, <1>4 DEF IInv, RangeInv, End, HashInv, DedupInv, IdsUnique
<1>6. FlightInv' /\ SourceInv'
  BY <1>1, <1>2 DEF IInv, FlightInv, SourceInv, Content
<1>7. AuxInv'
  BY <1>1, <1>2, <1>3, <1>4 DEF IInv, AuxInv
<1>8. ResultInv'
  BY <1>1, <1>2, <1>4 DEF IInv, ResultInv, Undisturbed, Handled
<1> QED
  BY <1>1, <1>5, <1>6, <1>7, <1>8 DEF StaticInv

\* What FlightInv says of the numbers of a thread.
LEMMA FlightNumbers ==
    ASSUME IInv, NEW t \in InFlight
    PROVE  /\ t \in Threads /\ pos[t] \in 1..SourceSize
           /\ Content(t) \in Contents /\ Bytes[Content(t)] \in Nat \ {0}
           /\ offset[t] \in Nat /\ Need(t) \in Nat /\ id[t] \in Ids
           /\ added[id[t] + 1].content = Content(t)
           /\ added[id[t] + 1].offset = offset[t]
<1>1. t \in Threads /\ t \in Active
  BY DEF InFlight, Active
<1>2. pos[t] \in 1..SourceSize
  <2>1. pos[t] \in 0..SourceSize /\ pos[t] # 0
    BY <1>1 DEF IInv, TypeOK, SourceInv
  <2> QED
    BY <2>1, FactoryAssumption
<1>3. Content(t) \in Contents
  BY <1>2 DEF IInv, TypeOK, Content
<1>4. Bytes[Content(t)] \in Nat \ {0}
  BY <1>3, FactoryAssumption
<1>5. id[t] \in Nat /\ offset[t] \in Nat /\ idCounter \in Nat
  BY <1>1 DEF IInv, TypeOK
<1>6. id[t] < idCounter /\ added[id[t] + 1] = [content |-> Content(t), offset |-> offset[t]]
  BY DEF IInv, FlightInv
<1>7. id[t] \in Ids /\ Need(t) \in Nat
  BY <1>4, <1>5, <1>6 DEF Ids, Need
<1> QED
  BY <1>1, <1>2, <1>3, <1>4, <1>5, <1>6, <1>7

\* Every id has a content and a range.
LEMMA EntryNumbers ==
    ASSUME IInv, NEW i \in Ids
    PROVE  /\ i \in Nat /\ i + 1 \in 1..idCounter
           /\ added[i + 1] \in [content : Contents, offset : Nat]
           /\ added[i + 1].content \in Contents /\ added[i + 1].offset \in Nat
           /\ Bytes[added[i + 1].content] \in Nat \ {0}
<1>1. idCounter \in Nat
  BY DEF IInv, TypeOK
<1>2. i \in Nat /\ i + 1 \in 1..idCounter
  BY <1>1 DEF Ids
<1> DEFINE R == [content : Contents, offset : Nat]
<1>3. added \in Seq(R) /\ Len(added) = idCounter
  BY DEF IInv, TypeOK, RangeInv
<1> HIDE DEF R
<1>4. added[i + 1] \in R
  BY ONLY <1>1, <1>2, <1>3
<1> USE DEF R
<1>5. added[i + 1].content \in Contents /\ added[i + 1].offset \in Nat
  BY <1>4
<1> QED
  BY <1>2, <1>4, <1>5, FactoryAssumption

\* What a step of an addIndex() leaves alone.
LEMMA FlightStepFacts ==
    ASSUME IInv, NEW t \in Threads, FlightStep(t)
    PROVE  /\ Ids' = Ids /\ added' = added /\ id' = id /\ offset' = offset
           /\ \A u \in Threads : /\ Content(u)' = Content(u)
                                 /\ Need(u)' = Need(u)
                                 /\ u # t => pc'[u] = pc[u]
           /\ (pc[t] # "aux" /\ pc'[t] # "aux" => Unwritten' = Unwritten)
<1>1. UNCHANGED <<source, pos, id, offset, idCounter, added>>
  BY DEF FlightStep, locals, metaData
<1>2. Ids' = Ids
  BY <1>1 DEF Ids
<1>3. \A u \in Threads : Content(u)' = Content(u) /\ Need(u)' = Need(u)
  BY <1>1 DEF Content, Need
<1>4. \A u \in Threads : u # t => pc'[u] = pc[u]
  BY DEF FlightStep, IInv, TypeOK
<1>5. ASSUME pc[t] # "aux", pc'[t] # "aux" PROVE Unwritten' = Unwritten
  <2>1. {u \in InFlight : pc[u] # "aux"}' = {u \in InFlight : pc[u] # "aux"}
    <3>1. InFlight' = InFlight /\ \A u \in InFlight : u \in Threads
      BY FlightStepKeeps DEF InFlight
    <3>2. \A u \in Threads : (pc'[u] # "aux") <=> (pc[u] # "aux")
      BY <1>4, <1>5
    <3> QED
      BY <3>1, <3>2
  <2> QED
    BY <1>1, <2>1 DEF Unwritten
<1> QED
  BY <1>1, <1>2, <1>3, <1>4, <1>5

\* A step of an addIndex() keeps the types if it keeps those of the storage.
LEMMA FlightStepTypes ==
    ASSUME IInv, NEW t \in Threads, FlightStep(t),
           store' \in Seq(Cell), copy' \in Seq(Cell), grower' \in Threads \cup {NoThread}
    PROVE  TypeOK'
<1>1. UNCHANGED <<dedup, source, next, newId, pos, id, offset, idCounter, dataOffset,
                  added, offsets, sizes, flushed, recalcs>>
  BY DEF FlightStep, locals, metaData, auxData, ownerVars
<1>2. pc' \in [Threads -> {"fetch", "reserve", "enter", "size", "grow", "growing", "put",
                           "putting", "aux", "done"}]
  BY DEF FlightStep, FlightPC, IInv, TypeOK
<1>3. TypeOK
  BY DEF IInv
<1> QED
  BY ONLY <1>1, <1>2, <1>3, store' \in Seq(Cell), copy' \in Seq(Cell),
          grower' \in Threads \cup {NoThread} DEF TypeOK, Cell

LEMMA CheckSizeStep ==
    ASSUME IInv, NEW t \in Threads, CheckSize(t)
    PROVE  IInv'
<1>1. pc[t] = "size" /\ UNCHANGED <<store, copy, grower>>
  BY DEF CheckSize, Goes, storage
<1>2. /\ \/ pc' = [pc EXCEPT ![t] = "put"] /\ Need(t) < Size
         \/ pc' = [pc EXCEPT ![t] = "grow"]
  BY DEF CheckSize, Goes, Fits
<1>3. pc \in [Threads -> {"fetch", "reserve", "enter", "size", "grow", "growing", "put",
                           "putting", "aux", "done"}]
  BY DEF IInv, TypeOK
<1>4. pc'[t] \in {"put", "grow"} /\ (pc'[t] = "put" => Need(t) < Size)
  BY <1>2, <1>3
<1>5. FlightStep(t)
  BY <1>1, <1>2 DEF CheckSize, FlightStep, FlightPC, auxData, metaData
<1>6. TypeOK'
  <2>1. store \in Seq(Cell) /\ copy \in Seq(Cell) /\ grower \in Threads \cup {NoThread}
    BY DEF IInv, TypeOK, Cell
  <2> QED
    BY <1>1, <1>5, <2>1, FlightStepTypes
<1>7. Size' = Size /\ Size \in Nat
  BY <1>1 DEF Size, IInv, TypeOK
<1>8. Putting' = Putting
  BY <1>1, <1>4, <1>5, FlightStepFacts DEF Putting
<1>9. GrowInv'
  BY <1>1, <1>4, <1>5, <1>7, <1>8, FlightStepFacts DEF IInv, TypeOK, GrowInv
<1>10. CoverInv'
  <2>1. t \in InFlight
    BY <1>1 DEF InFlight
  <2>2. Need(t) \in Nat
    BY <2>1, FlightNumbers
  <2> QED
    BY <1>4, <1>5, <1>7, <2>2, FlightStepFacts DEF IInv, CoverInv
<1>11. DataIntact'
  BY <1>1, <1>4, <1>5, <1>7, FlightStepFacts DEF IInv, DataIntact, Holds
<1> QED
  BY <1>5, <1>6, <1>9, <1>10, <1>11, FlightStepKeeps DEF IInv, StaticInv

\* The types the lemmas on the storage need.
LEMMA StorageTypes ==
    ASSUME IInv
    PROVE  /\ store \in Seq(Cell) /\ copy \in Seq(Cell)
           /\ grower \in Threads \cup {NoThread} /\ Size \in Nat
           /\ pc \in [Threads -> {"fetch", "reserve", "enter", "size", "grow", "growing", "put",
                                  "putting", "aux", "done"}]
<1>1. store \in Seq(Cell) /\ copy \in Seq(Cell) /\ grower \in Threads \cup {NoThread}
  BY DEF IInv, TypeOK, Cell
<1>2. pc \in [Threads -> {"fetch", "reserve", "enter", "size", "grow", "growing", "put",
                          "putting", "aux", "done"}]
  BY DEF IInv, TypeOK
<1>3. Size \in Nat
  BY ONLY <1>1 DEF Size
<1> QED
  BY <1>1, <1>2, <1>3

LEMMA GrowBeginStep ==
    ASSUME IInv, NEW t \in Threads, GrowBegin(t)
    PROVE  IInv'
<1> USE StorageTypes
<1>1. /\ pc[t] = "grow" /\ store' = store /\ grower = NoThread /\ Putting = {}
      /\ \/ /\ pc' = [pc EXCEPT ![t] = "put"] /\ Need(t) < Size
            /\ copy' = copy /\ grower' = grower
         \/ /\ pc' = [pc EXCEPT ![t] = "growing"] /\ ~(Need(t) < Size) /\ grower' = t
            /\ copy' = GrownBy(store, Longest(Need(t) - Size, GrowSize))
  BY DEF GrowBegin, Goes, Fits
<1>2. FlightStep(t)
  BY <1>1 DEF GrowBegin, FlightStep, FlightPC, auxData, metaData
<1>3. Need(t) \in Nat
  <2>1. t \in InFlight
    BY <1>1 DEF InFlight
  <2> QED
    BY <2>1, FlightNumbers
<1>4. Size' = Size
  BY <1>1 DEF Size
<1>5. DataIntact'
  <2>1. pc'[t] # "aux"
    BY <1>1
  <2> QED
    BY <1>1, <1>2, <1>4, <2>1, FlightStepFacts DEF IInv, DataIntact, Holds
<1>6. Putting' = Putting
  BY <1>1, <1>2, FlightStepFacts DEF Putting
<1>7. CASE pc' = [pc EXCEPT ![t] = "put"] /\ Need(t) < Size
  <2>1. copy' = copy /\ grower' = grower /\ pc'[t] = "put"
    BY <1>1, <1>7
  <2>2. TypeOK'
    BY <1>1, <1>2, <2>1, FlightStepTypes
  <2>3. GrowInv'
    BY <1>1, <1>2, <2>1, FlightStepFacts, FactoryAssumption DEF IInv, GrowInv
  <2>4. CoverInv'
    BY <1>2, <1>3, <1>4, <1>7, <2>1, FlightStepFacts DEF IInv, CoverInv
  <2> QED
    BY <1>2, <1>5, <2>2, <2>3, <2>4, FlightStepKeeps DEF IInv, StaticInv
<1>8. CASE /\ pc' = [pc EXCEPT ![t] = "growing"] /\ ~(Need(t) < Size) /\ grower' = t
           /\ copy' = GrownBy(store, Longest(Need(t) - Size, GrowSize))
  <2> DEFINE n == Longest(Need(t) - Size, GrowSize)
  <2>1. n \in Nat /\ Need(t) - Size <= n
    BY <1>3, <1>8, FactoryAssumption DEF Longest
  <2> HIDE DEF n
  <2>2. /\ copy' \in Seq(Cell) /\ Len(copy') = Size + n
        /\ \A k \in 1..Size : copy'[k] = store[k]
    <3>1. copy' = GrownBy(store, n)
      BY <1>8 DEF n
    <3> QED
      BY <2>1, <3>1, GrownSeq DEF Size
  <2>3. pc'[t] = "growing"
    BY <1>8
  <2>4. TypeOK'
    BY <1>1, <1>2, <1>8, <2>2, FlightStepTypes
  <2>5. Size <= Len(copy') /\ Need(t) <= Len(copy')
    BY <1>3, <2>1, <2>2
  <2>6. GrowInv'
    <3>1. \A u \in Threads : (grower' = u) <=> (pc'[u] = "growing")
      <4>1. \A u \in Threads : pc[u] # "growing"
        BY <1>1, FactoryAssumption DEF IInv, GrowInv
      <4>2. \A u \in Threads : u # t => pc'[u] = pc[u]
        BY <1>2, FlightStepFacts
      <4> QED
        BY <1>8, <2>3, <4>1, <4>2
    <3>2. Need(grower)' <= Len(copy')
      BY <1>2, <1>8, <2>5, FlightStepFacts DEF Need, Content
    <3> QED
      BY <1>1, <1>4, <1>6, <2>2, <2>5, <3>1, <3>2 DEF GrowInv
  <2>7. CoverInv'
    BY <1>2, <1>4, <2>3, FlightStepFacts DEF IInv, CoverInv
  <2> QED
    BY <1>2, <1>5, <2>4, <2>6, <2>7, FlightStepKeeps DEF IInv, StaticInv
<1> QED
  BY <1>1, <1>7, <1>8

LEMMA GrowEndStep ==
    ASSUME IInv, NEW t \in Threads, GrowEnd(t)
    PROVE  IInv'
<1> USE StorageTypes
<1>1. /\ pc[t] = "growing" /\ pc' = [pc EXCEPT ![t] = "put"] /\ store' = copy
      /\ copy' = <<>> /\ grower' = NoThread
  BY DEF GrowEnd, Goes, Unlocked
<1>2. FlightStep(t)
  BY <1>1 DEF GrowEnd, FlightStep, FlightPC, auxData, metaData
<1>3. /\ grower = t /\ grower # NoThread /\ Putting = {} /\ Size <= Len(copy)
      /\ Need(t) <= Len(copy) /\ \A k \in 1..Size : copy[k] = store[k]
  BY <1>1, FactoryAssumption DEF IInv, GrowInv
<1>4. Size' = Len(copy) /\ Len(copy) \in Nat
  BY <1>1 DEF Size
<1>5. pc'[t] = "put" /\ \A u \in Threads : u # t => pc'[u] = pc[u] /\ pc[u] # "growing"
  BY <1>1, <1>3 DEF IInv, GrowInv
<1>6. TypeOK'
  BY <1>1, <1>2, FlightStepTypes
<1>7. GrowInv'
  BY <1>1, <1>5, FactoryAssumption DEF GrowInv
<1>8. CoverInv'
  <2>1. ASSUME NEW u \in Threads, pc'[u] \in {"put", "putting", "aux"}
        PROVE  Need(u) <= Len(copy)
    <3>1. CASE u = t
      BY <1>3, <3>1
    <3>2. CASE u # t
      <4>1. pc[u] \in {"put", "putting", "aux"}
        BY <1>5, <2>1, <3>2
      <4>2. u \in InFlight
        BY <4>1 DEF InFlight
      <4>3. Need(u) \in Nat /\ Need(u) <= Size
        BY <4>1, <4>2, FlightNumbers DEF IInv, CoverInv
      <4> QED
        BY <1>3, <1>4, <4>3
    <3> QED
      BY <3>1, <3>2
  <2> QED
    BY <1>2, <1>4, <2>1, FlightStepFacts DEF CoverInv
<1>9. DataIntact'
  <2>1. Ids' = Ids /\ added' = added /\ Unwritten' = Unwritten
    BY <1>1, <1>2, <1>5, FlightStepFacts
  <2>2. ASSUME NEW i \in Ids \ Unwritten
        PROVE  /\ added[i + 1].offset + Bytes[added[i + 1].content] <= Len(copy)
               /\ Holds(copy, added[i + 1].offset, added[i + 1].content)
    <3> DEFINE o == added[i + 1].offset
               b == Bytes[added[i + 1].content]
    <3>1. o \in Nat /\ b \in Nat
      BY EntryNumbers
    <3>2. o + b <= Size /\ Holds(store, o, added[i + 1].content)
      BY DEF IInv, DataIntact
    <3> HIDE DEF o
    <3>3. \A k \in 1..b : o + k \in 1..Size
      BY <3>1, <3>2
    <3>4. Holds(copy, o, added[i + 1].content)
      BY <1>3, <3>2, <3>3 DEF Holds
    <3> QED
      BY <1>3, <1>4, <3>1, <3>2, <3>4 DEF o
  <2> QED
    BY <1>1, <1>4, <2>1, <2>2 DEF DataIntact, Holds
<1> QED
  BY <1>2, <1>6, <1>7, <1>8, <1>9, FlightStepKeeps DEF IInv, StaticInv

LEMMA PutBeginStep ==
    ASSUME IInv, NEW t \in Threads, PutBegin(t)
    PROVE  IInv'
<1> USE StorageTypes
<1>1. /\ pc[t] = "put" /\ pc' = [pc EXCEPT ![t] = "putting"] /\ grower = NoThread
      /\ UNCHANGED <<store, copy, grower>>
  BY DEF PutBegin, Goes, MayPut, storage
<1>2. FlightStep(t)
  BY <1>1 DEF PutBegin, FlightStep, FlightPC, auxData, metaData
<1>3. Size' = Size /\ pc'[t] = "putting"
  BY <1>1 DEF Size
<1>4. TypeOK'
  BY <1>1, <1>2, FlightStepTypes
<1>5. GrowInv'
  BY <1>1, <1>2, <1>3, FlightStepFacts DEF IInv, GrowInv
<1>6. CoverInv'
  BY <1>1, <1>2, <1>3, FlightStepFacts DEF IInv, CoverInv
<1>7. DataIntact'
  BY <1>1, <1>2, <1>3, FlightStepFacts DEF IInv, DataIntact, Holds
<1> QED
  BY <1>2, <1>4, <1>5, <1>6, <1>7, FlightStepKeeps DEF IInv, StaticInv

\* Two reserved ranges have no byte in common.
LEMMA RangesDisjoint ==
    ASSUME IInv, NEW i \in Ids, NEW j \in Ids, i # j,
           NEW k \in 1..Bytes[added[i + 1].content]
    PROVE  added[i + 1].offset + k \notin
               (added[j + 1].offset + 1)
                   ..(added[j + 1].offset + Bytes[added[j + 1].content])
<1> DEFINE a == added[i + 1].offset
           b == added[j + 1].offset
           m == Bytes[added[i + 1].content]
           n == Bytes[added[j + 1].content]
<1>1. /\ i \in Nat /\ j \in Nat /\ a \in Nat /\ b \in Nat /\ m \in Nat /\ n \in Nat
      /\ i + 1 \in 1..idCounter /\ j + 1 \in 1..idCounter
  BY EntryNumbers
<1>2. a + m <= b \/ b + n <= a
  <2>1. i + 1 < j + 1 \/ j + 1 < i + 1
    BY <1>1
  <2>2. (i + 1 < j + 1 => End(i + 1) <= b) /\ (j + 1 < i + 1 => End(j + 1) <= a)
    BY <1>1 DEF IInv, RangeInv
  <2> QED
    BY <2>1, <2>2 DEF End
<1>3. k \in 1..m
  OBVIOUS
<1> HIDE DEF a, b, m, n
<1>4. a + k \notin (b + 1)..(b + n)
  BY ONLY <1>1, <1>2, <1>3
<1> QED
  BY <1>4 DEF a, b, m, n

LEMMA PutEndStep ==
    ASSUME IInv, NEW t \in Threads, PutEnd(t)
    PROVE  IInv'
<1> USE StorageTypes
<1>1. /\ pc[t] = "putting" /\ pc' = [pc EXCEPT ![t] = "aux"]
      /\ store' = Written(store, offset[t], Content(t))
      /\ UNCHANGED <<copy, grower>>
  BY DEF PutEnd, Goes
<1>2. FlightStep(t)
  BY <1>1 DEF PutEnd, FlightStep, FlightPC, auxData, metaData
<1>3. t \in InFlight
  BY <1>1 DEF InFlight
<1>4. /\ offset[t] \in Nat /\ Content(t) \in Contents /\ Bytes[Content(t)] \in Nat
      /\ id[t] \in Ids /\ added[id[t] + 1].content = Content(t)
      /\ added[id[t] + 1].offset = offset[t]
  BY <1>3, FlightNumbers
<1>5. /\ store' \in Seq(Cell) /\ Len(store') = Len(store)
      /\ \A k \in 1..Len(store) : store'[k] =
            IF k \in (offset[t] + 1)..(offset[t] + Bytes[Content(t)])
            THEN Byte(Content(t), k - offset[t]) ELSE store[k]
  <2> DEFINE w == Written(store, offset[t], Content(t))
  <2>1. /\ w \in Seq(Cell) /\ Len(w) = Len(store)
        /\ \A k \in 1..Len(store) : w[k] =
              IF k \in (offset[t] + 1)..(offset[t] + Bytes[Content(t)])
              THEN Byte(Content(t), k - offset[t]) ELSE store[k]
    BY <1>4, WrittenSeq
  <2> HIDE DEF w
  <2> QED
    BY <1>1, <2>1 DEF w
<1>6. Size' = Size
  BY <1>5 DEF Size
<1>7. pc'[t] = "aux" /\ \A u \in Threads : u # t => pc'[u] = pc[u]
  BY <1>1
<1>8. TypeOK'
  BY <1>1, <1>2, <1>5, FlightStepTypes
<1>9. GrowInv'
  <2>1. grower = NoThread
    BY <1>1 DEF IInv, GrowInv, Putting
  <2> QED
    BY <1>1, <1>7, <2>1, FactoryAssumption DEF IInv, GrowInv
<1>10. CoverInv'
  BY <1>1, <1>2, <1>6, <1>7, FlightStepFacts DEF IInv, CoverInv
<1>11. DataIntact'
  <2>1. Ids' = Ids /\ added' = added
    BY <1>2, FlightStepFacts
  <2>2. offset[t] + Bytes[Content(t)] <= Size
    BY <1>1 DEF IInv, CoverInv, Need
  <2>3. ASSUME NEW i \in Ids, i \notin Unwritten'
        PROVE  /\ added[i + 1].offset + Bytes[added[i + 1].content] <= Size
               /\ Holds(store', added[i + 1].offset, added[i + 1].content)
    <3>1. CASE i = id[t]
      <4>1. \A k \in 1..Bytes[Content(t)] : store'[offset[t] + k] = Byte(Content(t), k)
        <5> SUFFICES ASSUME NEW k \in 1..Bytes[Content(t)]
                     PROVE  store'[offset[t] + k] = Byte(Content(t), k)
          OBVIOUS
        <5>1. /\ offset[t] + k \in 1..Len(store)
              /\ offset[t] + k \in (offset[t] + 1)..(offset[t] + Bytes[Content(t)])
              /\ (offset[t] + k) - offset[t] = k
          BY <1>4, <2>2 DEF Size
        <5> QED
          BY <1>5, <5>1
      <4> QED
        BY <1>4, <2>2, <3>1, <4>1 DEF Holds
    <3>2. CASE i # id[t]
      <4>1. i \notin Unwritten
        <5>1. Unwritten \ {id[t]} \subseteq Unwritten'
          <6> SUFFICES ASSUME NEW x \in Unwritten, x # id[t] PROVE x \in Unwritten'
            OBVIOUS
          <6>1. PICK u \in InFlight : pc[u] # "aux" /\ x = id[u]
            BY DEF Unwritten
          <6>2. u \in Threads /\ u # t /\ u \in InFlight' /\ id' = id
            BY <1>2, <6>1, FlightStepKeeps, FlightStepFacts DEF InFlight
          <6>3. pc'[u] # "aux" /\ x = id'[u]
            BY <1>7, <6>1, <6>2
          <6> QED
            BY <6>2, <6>3 DEF Unwritten
        <5> QED
          BY <2>3, <3>2, <5>1
      <4> DEFINE o == added[i + 1].offset
                 b == Bytes[added[i + 1].content]
      <4>2. o + b <= Size /\ \A k \in 1..b : store[o + k] = Byte(added[i + 1].content, k)
        BY <4>1 DEF IInv, DataIntact, Holds
      <4>3. o \in Nat /\ b \in Nat
        BY EntryNumbers
      <4>4. \A k \in 1..b :
                o + k \notin (offset[t] + 1)..(offset[t] + Bytes[Content(t)])
        BY <1>4, <3>2, RangesDisjoint
      <4> HIDE DEF o, b
      <4>5. \A k \in 1..b : o + k \in 1..Len(store)
        BY <4>2, <4>3 DEF Size
      <4>6. \A k \in 1..b : store'[o + k] = store[o + k]
        BY <1>5, <4>4, <4>5
      <4> QED
        BY <4>2, <4>6 DEF Holds, o, b
    <3> QED
      BY <3>1, <3>2
  <2> QED
    BY <1>6, <2>1, <2>3 DEF DataIntact, Holds
<1> QED
  BY <1>2, <1>8, <1>9, <1>10, <1>11, FlightStepKeeps DEF IInv, StaticInv

\* A step that leaves the storage and the ids alone, and moves no thread into or out
\* of the parts that use the storage, except for one that is done with them.
LEMMA StorageKept ==
    ASSUME IInv, UNCHANGED <<source, offset, id, storage, idCounter, added>>,
           \A u \in Threads :
               \/ pc'[u] = pc[u] /\ pos'[u] = pos[u]
               \/ pc'[u] \in {"fetch", "reserve", "enter", "done"}
                  /\ pc[u] \in {"fetch", "reserve", "enter", "aux"}
    PROVE  GrowInv' /\ CoverInv' /\ DataIntact'
<1> USE StorageTypes
<1>1. UNCHANGED <<source, offset, id, store, copy, grower, idCounter, added>>
  BY DEF storage
<1>2. Size' = Size /\ Ids' = Ids
  BY <1>1 DEF Size, Ids
<1>3. \A u \in Threads : pos'[u] = pos[u] => Need(u)' = Need(u)
  BY <1>1 DEF Need, Content
<1>4. Putting' = Putting
  BY DEF Putting
<1>5. GrowInv'
  <2>1. \A u \in Threads : (grower' = u) <=> (pc'[u] = "growing")
    BY <1>1 DEF IInv, GrowInv
  <2>2. ASSUME grower # NoThread
        PROVE  Need(grower)' = Need(grower)
    <3>1. grower \in Threads /\ pc[grower] = "growing"
      BY <2>2 DEF IInv, GrowInv
    <3>2. pos'[grower] = pos[grower]
      BY <3>1
    <3> QED
      BY <1>1, <3>2 DEF Need, Content
  <2> QED
    BY <1>1, <1>2, <1>4, <2>1, <2>2 DEF IInv, GrowInv
<1>6. CoverInv'
  BY <1>2, <1>3 DEF IInv, CoverInv
<1>7. Unwritten' = Unwritten
  <2>1. {u \in InFlight : pc[u] # "aux"}' = {u \in InFlight : pc[u] # "aux"}
    BY DEF InFlight
  <2> QED
    BY <1>1, <2>1 DEF Unwritten
<1>8. DataIntact'
  BY <1>1, <1>2, <1>7 DEF IInv, DataIntact, Holds
<1> QED
  BY <1>5, <1>6, <1>8

LEMMA FetchNextStep ==
    ASSUME IInv, NEW t \in Threads, FetchNext(t)
    PROVE  IInv'
<1> USE StorageTypes
<1>1. /\ pc[t] = "fetch" /\ next' = next + 1
      /\ UNCHANGED <<dedup, source, newId, id, offset, idCounter, dataOffset, hash, added,
                     offsets, sizes, flushed, recalcs>>
      /\ UNCHANGED storage
  BY DEF FetchNext, Goes, metaData, auxData, ownerVars
<1>2. \/ next > SourceSize /\ pc' = [pc EXCEPT ![t] = "done"] /\ pos' = pos
      \/ /\ ~(next > SourceSize) /\ pc' = [pc EXCEPT ![t] = "reserve"]
         /\ pos' = [pos EXCEPT ![t] = next]
  BY DEF FetchNext, Goes, Exhausted
<1>3. next \in Nat /\ next # 0 /\ pos \in [Threads -> 0..SourceSize] /\ SourceSize \in Nat
  BY FactoryAssumption DEF IInv, TypeOK, SourceInv
<1>4. \A u \in Threads : u # t => pc'[u] = pc[u] /\ pos'[u] = pos[u]
  BY <1>2, <1>3
<1>5. \/ next > SourceSize /\ pc'[t] = "done"
      \/ next <= SourceSize /\ pc'[t] = "reserve" /\ pos'[t] = next
  BY <1>2, <1>3
<1>6. GrowInv' /\ CoverInv' /\ DataIntact'
  BY <1>1, <1>4, <1>5, StorageKept
<1>7. TypeOK'
  <2>1. pos' \in [Threads -> 0..SourceSize]
    <3>1. next <= SourceSize => next \in 0..SourceSize
      BY ONLY <1>3
    <3> QED
      BY ONLY <1>2, <1>3, <3>1
  <2>2. pc' \in [Threads -> {"fetch", "reserve", "enter", "size", "grow", "growing", "put",
                             "putting", "aux", "done"}]
    BY <1>2
  <2>3. next' \in Nat
    BY <1>1, <1>3
  <2>4. TypeOK /\ UNCHANGED <<store, copy, grower>>
    BY <1>1 DEF IInv, storage
  <2> QED
    BY ONLY <1>1, <2>1, <2>2, <2>3, <2>4 DEF TypeOK
<1>8. InFlight' = InFlight /\ t \notin InFlight /\ t \notin Active
  BY <1>1, <1>4, <1>5 DEF InFlight, Active
<1>9. /\ Active \subseteq Active' /\ Active' \subseteq Active \cup {t}
      /\ t \in Active' <=> pc'[t] = "reserve"
  BY <1>1, <1>4, <1>5, <1>8 DEF Active, InFlight
<1>10. Ids' = Ids /\ Pending' = Pending
  BY <1>1, <1>8 DEF Ids, Pending
<1>11. RangeInv' /\ HashInv' /\ DedupInv'
  BY <1>1, <1>10 DEF IInv, RangeInv, End, HashInv, DedupInv, IdsUnique
<1>12. FlightInv'
  <2>1. \A u \in InFlight : Content(u)' = Content(u)
    BY <1>1, <1>4, <1>8 DEF Content, InFlight
  <2> QED
    BY <1>1, <1>8, <2>1 DEF IInv, FlightInv
<1>13. SourceInv'
  <2>1. \A u \in Active : u \in Threads /\ pos[u] \in 0..SourceSize
    BY <1>3 DEF Active, InFlight
  <2>2. \A u \in Active : pos'[u] = pos[u] /\ pos[u] # 0 /\ pos[u] < next /\ pos[u] \in Nat
    <3>1. \A u \in Active : u # t /\ pos[u] # 0 /\ pos[u] < next
      BY <1>8 DEF IInv, SourceInv
    <3> QED
      BY <1>3, <1>4, <2>1, <3>1
  <2>3. \A u \in Active' : pos'[u] # 0 /\ pos'[u] < next'
    <3>1. \A u \in Active' : u = t \/ u \in Active
      BY <1>9
    <3>2. t \in Active' => pos'[t] = next
      BY <1>5, <1>9
    <3> QED
      BY <1>1, <1>3, <2>2, <3>1, <3>2, SMTT(30)
  <2>4. \A u, v \in Active' : u # v => pos'[u] # pos'[v]
    <3>1. \A u \in Active' : u = t => pos'[u] = next
      BY <1>5, <1>9
    <3>2. \A u \in Active' : u # t => u \in Active /\ pos'[u] # next
      BY <1>3, <1>9, <2>2
    <3> QED
      BY <2>2, <3>1, <3>2 DEF IInv, SourceInv
  <2>5. \A u \in Threads : pc'[u] = "done" => next' > SourceSize
    BY <1>1, <1>3, <1>4, <1>5 DEF IInv, SourceInv
  <2> QED
    BY <1>1, <1>3, <2>3, <2>4, <2>5 DEF SourceInv
<1>14. AuxInv'
  <2>1. ~flushed
    BY <1>1 DEF IInv, AuxInv
  <2> QED
    BY <1>1, <1>10, <2>1 DEF IInv, AuxInv
<1>15. ResultInv'
  <2>1. ASSUME NEW i \in 1..SourceSize, Handled(i)' PROVE Handled(i)
    <3>1. i \in Nat /\ i < next + 1 /\ \A u \in Active' : pos'[u] # i
      BY <1>1, <2>1 DEF Handled
    <3>2. i # next
      BY <1>3, <1>5, <1>9, <3>1
    <3>3. \A u \in Active : u \in Threads /\ u # t /\ u \in Active'
      BY <1>8, <1>9 DEF Active, InFlight
    <3>4. i < next
      BY ONLY <1>3, <3>1, <3>2
    <3>5. \A u \in Active : pos[u] # i
      BY <1>4, <3>1, <3>3
    <3> QED
      BY ONLY <3>4, <3>5 DEF Handled
  <2> QED
    BY <1>1, <1>10, <2>1 DEF IInv, ResultInv, Undisturbed
<1> QED
  BY <1>6, <1>7, <1>11, <1>12, <1>13, <1>14, <1>15 DEF IInv

\* addIndex() returns r for the entry a thread works on, and the thread goes back to
\* fetch the next one.
LEMMA ReturnStep ==
    ASSUME IInv, NEW t \in Active, NEW r \in Ids,
           pc' = [pc EXCEPT ![t] = "fetch"],
           newId' = [newId EXCEPT ![pos[t]] = r],
           UNCHANGED <<dedup, source, next, pos, idCounter, added, recalcs>>,
           Undisturbed => added[r + 1].content = Content(t)
    PROVE  /\ newId' \in [0..SourceSize -> Nat] /\ SourceInv' /\ ResultInv'
           /\ InFlight' = InFlight \ {t}
<1> USE StorageTypes
<1>1. t \in Threads
  BY DEF Active, InFlight
<1>2. Active' = Active \ {t} /\ InFlight' = InFlight \ {t}
  BY <1>1 DEF Active, InFlight
<1>3. r \in Nat /\ pos[t] \in 0..SourceSize /\ newId \in [0..SourceSize -> Nat]
  BY <1>1 DEF IInv, TypeOK, Ids
<1>4. newId' \in [0..SourceSize -> Nat]
  BY <1>3
<1>5. SourceInv'
  <2>1. \A u \in Threads : pc'[u] = "done" => pc[u] = "done"
    BY <1>1
  <2> QED
    BY <1>2, <2>1 DEF IInv, SourceInv
<1>6. ResultInv'
  <2> SUFFICES ASSUME Undisturbed', NEW i \in 1..SourceSize, Handled(i)'
               PROVE  newId'[i] \in Ids' /\ added'[newId'[i] + 1].content = source'[i]
    BY DEF ResultInv
  <2>1. Undisturbed /\ Ids' = Ids
    BY DEF Undisturbed, Ids
  <2>2. i \in 0..SourceSize
    BY FactoryAssumption
  <2>3. CASE i = pos[t]
    <3>1. newId'[i] = r
      BY <1>3, <2>2, <2>3
    <3> QED
      BY <2>1, <2>3, <3>1 DEF Content
  <2>4. CASE i # pos[t]
    <3>1. newId'[i] = newId[i]
      BY <1>3, <2>2, <2>4
    <3>2. Handled(i)
      BY <1>2, <2>4 DEF Handled
    <3> QED
      BY <2>1, <3>1, <3>2 DEF IInv, ResultInv
  <2> QED
    BY <2>3, <2>4
<1> QED
  BY <1>2, <1>4, <1>5, <1>6

LEMMA DuplicateStep ==
    ASSUME IInv, NEW t \in Threads, Duplicate(t)
    PROVE  IInv'
<1> USE StorageTypes
<1> DEFINE bytes == Serialized(Content(t))
           r == hash[bytes]
<1>1. /\ pc[t] = "reserve" /\ pc' = [pc EXCEPT ![t] = "fetch"]
      /\ dedup /\ bytes \in DOMAIN hash
      /\ newId' = [newId EXCEPT ![pos[t]] = r]
      /\ UNCHANGED <<dedup, source, next, pos, id, offset, idCounter, dataOffset, hash,
                     added, offsets, sizes, flushed, recalcs>>
      /\ UNCHANGED storage
  BY DEF Duplicate, Known, Goes, locals, metaData, auxData, ownerVars
<1>2. t \in Active /\ t \notin InFlight
  BY <1>1 DEF Active, InFlight
<1>3. r \in Ids
  BY <1>1 DEF IInv, HashInv
<1>4. Content(t) \in Contents
  <2>1. pos[t] \in 0..SourceSize /\ pos[t] # 0
    BY <1>2 DEF IInv, TypeOK, SourceInv
  <2>2. pos[t] \in 1..SourceSize
    BY <2>1, FactoryAssumption
  <2> QED
    BY <2>2 DEF IInv, TypeOK, Content
<1>5. Undisturbed => added[r + 1].content = Content(t)
  <2> SUFFICES ASSUME Undisturbed PROVE added[r + 1].content = Content(t)
    OBVIOUS
  <2>1. bytes = Serialized(added[r + 1].content)
    BY <1>1 DEF IInv, DedupInv, Undisturbed
  <2>2. added[r + 1].content \in Contents
    BY <1>3, EntryNumbers
  <2> HIDE DEF r
  <2> QED
    BY <1>4, <2>1, <2>2, SerializedInjective
<1> HIDE DEF r, bytes
<1>6. newId' \in [0..SourceSize -> Nat] /\ SourceInv' /\ ResultInv' /\ InFlight' = InFlight
  <2>1. newId' \in [0..SourceSize -> Nat] /\ SourceInv' /\ ResultInv'
        /\ InFlight' = InFlight \ {t}
    BY <1>1, <1>2, <1>3, <1>5, ReturnStep
  <2> QED
    BY <1>2, <2>1
<1>7. pc' \in [Threads -> {"fetch", "reserve", "enter", "size", "grow", "growing", "put",
                           "putting", "aux", "done"}]
      /\ pc'[t] = "fetch" /\ \A u \in Threads : u # t => pc'[u] = pc[u]
  BY <1>1
<1>8. TypeOK'
  <2>1. TypeOK /\ UNCHANGED <<store, copy, grower>>
    BY <1>1 DEF IInv, storage
  <2> QED
    BY ONLY <1>1, <1>6, <1>7, <2>1 DEF TypeOK
<1>9. GrowInv' /\ CoverInv' /\ DataIntact'
  BY <1>1, <1>7, StorageKept
<1>10. Ids' = Ids /\ Pending' = Pending
  BY <1>1, <1>6 DEF Ids, Pending
<1>11. RangeInv' /\ HashInv' /\ DedupInv'
  BY <1>1, <1>10 DEF IInv, RangeInv, End, HashInv, DedupInv, IdsUnique
<1>12. FlightInv'
  BY <1>1, <1>6 DEF IInv, FlightInv, Content
<1>13. AuxInv'
  <2>1. ~flushed
    BY <1>1 DEF IInv, AuxInv
  <2> QED
    BY <1>1, <1>10, <2>1 DEF IInv, AuxInv
<1> QED
  BY <1>6, <1>8, <1>9, <1>11, <1>12, <1>13 DEF IInv

\* An array that is enlarged where necessary and gets a new entry.
Entered(v, i, x) ==
    [(IF Len(v) <= i THEN Resized(v, i + AuxGrow) ELSE v) EXCEPT ![i + 1] = x]

LEMMA EnteredSeq ==
    ASSUME NEW v \in Seq(Nat), NEW i \in Nat, NEW x \in Nat, NEW w, w = Entered(v, i, x)
    PROVE  /\ w \in Seq(Nat) /\ i < Len(w) /\ Len(v) <= Len(w) /\ w[i + 1] = x
           /\ \A k \in 1..Len(v) : k # i + 1 => w[k] = v[k]
<1> DEFINE y == IF Len(v) <= i THEN Resized(v, i + AuxGrow) ELSE v
<1>1. AuxGrow \in Nat \ {0} /\ i + AuxGrow \in Nat /\ Len(v) \in Nat
  BY FactoryAssumption
<1>2. /\ y \in Seq(Nat) /\ i < Len(y) /\ Len(v) <= Len(y)
      /\ \A k \in 1..Len(v) : y[k] = v[k]
  <2>1. CASE Len(v) <= i
    <3>1. y = Resized(v, i + AuxGrow)
      BY <2>1
    <3> HIDE DEF y
    <3>2. /\ y \in Seq(Nat) /\ Len(y) = i + AuxGrow
          /\ \A k \in 1..(i + AuxGrow) : y[k] = IF k <= Len(v) THEN v[k] ELSE 0
      BY <1>1, <3>1, ResizedSeq
    <3> QED
      BY <1>1, <2>1, <3>2
  <2>2. CASE ~(Len(v) <= i)
    BY <1>1, <2>2
  <2> QED
    BY <2>1, <2>2
<1> HIDE DEF y
<1>3. w = [y EXCEPT ![i + 1] = x] /\ i + 1 \in 1..Len(y)
  BY <1>2 DEF y, Entered
<1>4. w \in Seq(Nat) /\ Len(w) = Len(y)
  BY ONLY <1>2, <1>3, x \in Nat
<1>5. w[i + 1] = x /\ \A k \in 1..Len(y) : k # i + 1 => w[k] = y[k]
  BY ONLY <1>2, <1>3
<1> QED
  BY <1>1, <1>2, <1>4, <1>5

LEMMA AdjustAuxStep ==
    ASSUME IInv, NEW t \in Threads, AdjustAux(t)
    PROVE  IInv'
<1> USE StorageTypes
<1>1. /\ pc[t] = "aux" /\ pc' = [pc EXCEPT ![t] = "fetch"]
      /\ newId' = [newId EXCEPT ![pos[t]] = id[t]]
      /\ UNCHANGED <<dedup, source, next, pos, id, offset, idCounter, dataOffset, hash,
                     added, flushed, recalcs>>
      /\ UNCHANGED storage
  BY DEF AdjustAux, Goes, ResultId, locals, metaData, ownerVars
<1>2. t \in Active /\ t \in InFlight
  BY <1>1 DEF Active, InFlight
<1>3. /\ id[t] \in Ids /\ offset[t] \in Nat /\ Content(t) \in Contents
      /\ added[id[t] + 1].content = Content(t) /\ added[id[t] + 1].offset = offset[t]
  BY <1>2, FlightNumbers
<1>4. id[t] \in Nat /\ Items[Content(t)] \in Nat
  BY <1>3, FactoryAssumption, EntryNumbers
<1>5. /\ offsets' \in Seq(Nat) /\ id[t] < Len(offsets') /\ Len(offsets) <= Len(offsets')
      /\ offsets'[id[t] + 1] = offset[t]
      /\ \A k \in 1..Len(offsets) : k # id[t] + 1 => offsets'[k] = offsets[k]
  <2>1. offsets' = Entered(offsets, id[t], offset[t])
    BY DEF AdjustAux, AuxResized, Entered
  <2>2. offsets \in Seq(Nat)
    BY DEF IInv, TypeOK
  <2> QED
    BY ONLY <1>3, <1>4, <2>1, <2>2, EnteredSeq, SMTT(40)
<1>6. sizes' \in Seq(Nat)
  <2>1. sizes' = Entered(sizes, id[t], Items[Content(t)])
    BY DEF AdjustAux, AuxResized, Entered
  <2>2. sizes \in Seq(Nat)
    BY DEF IInv, TypeOK
  <2> QED
    BY ONLY <1>4, <2>1, <2>2, EnteredSeq
<1>7. newId' \in [0..SourceSize -> Nat] /\ SourceInv' /\ ResultInv'
      /\ InFlight' = InFlight \ {t}
  BY <1>1, <1>2, <1>3, ReturnStep
<1>8. pc' \in [Threads -> {"fetch", "reserve", "enter", "size", "grow", "growing", "put",
                           "putting", "aux", "done"}]
      /\ pc'[t] = "fetch" /\ \A u \in Threads : u # t => pc'[u] = pc[u]
  BY <1>1
<1>9. TypeOK'
  <2>1. TypeOK /\ UNCHANGED <<store, copy, grower>>
    BY <1>1 DEF IInv, storage
  <2> QED
    BY ONLY <1>1, <1>5, <1>6, <1>7, <1>8, <2>1 DEF TypeOK
<1>10. GrowInv' /\ CoverInv' /\ DataIntact'
  BY <1>1, <1>8, StorageKept
<1>11. Ids' = Ids
  BY <1>1 DEF Ids
<1>12. RangeInv' /\ HashInv' /\ DedupInv'
  BY <1>1, <1>11 DEF IInv, RangeInv, End, HashInv, DedupInv, IdsUnique
<1>13. FlightInv'
  BY <1>1, <1>7 DEF IInv, FlightInv, Content
<1>14. AuxInv'
  <2>1. ~flushed
    BY <1>1 DEF IInv, AuxInv
  <2>2. ASSUME NEW i \in Ids, i \notin Pending', i # id[t] PROVE i \notin Pending
    BY <1>1, <1>7, <2>2 DEF Pending
  <2>3. ASSUME NEW i \in Ids, i \notin Pending'
        PROVE  i < Len(offsets') /\ offsets'[i + 1] = added[i + 1].offset
    <3>1. CASE i = id[t]
      BY <1>3, <1>5, <3>1
    <3>2. CASE i # id[t]
      <4>1. i < Len(offsets) /\ offsets[i + 1] = added[i + 1].offset
        BY <2>2, <2>3, <3>2 DEF IInv, AuxInv
      <4>2. Len(offsets) \in Nat /\ Len(offsets') \in Nat
        BY <1>5, SMTT(40) DEF IInv, TypeOK
      <4>3. i \in Nat /\ i + 1 \in 1..Len(offsets) /\ i + 1 # id[t] + 1
        BY <1>4, <3>2, <4>1, <4>2, EntryNumbers
      <4> QED
        BY <1>5, <4>1, <4>2, <4>3
    <3> QED
      BY <3>1, <3>2
  <2> QED
    BY <1>1, <1>11, <2>1, <2>3 DEF AuxInv
<1> QED
  BY <1>7, <1>9, <1>10, <1>12, <1>13, <1>14 DEF IInv

LEMMA RecalculateStep ==
    ASSUME IInv, Recalculate
    PROVE  IInv'
<1> DEFINE made == {IndexData(i) : i \in Ids}
           Last(b, i) == IndexData(i) = b /\ \A j \in Ids : IndexData(j) = b => j <= i
<1>1. /\ recalcs' = recalcs + 1 /\ recalcs < MaxRecalcs[dedup]
      /\ UNCHANGED <<dedup, source, next, newId, pc, pos, id, offset, idCounter, dataOffset,
                     added, offsets, sizes, flushed>>
      /\ UNCHANGED storage
  BY DEF Recalculate, locals, auxData
<1>2. hash' = [b \in made |-> CHOOSE i \in Ids : Last(b, i)]
  BY DEF Recalculate, Ids
<1>3. idCounter \in Nat /\ idCounter # 0
  BY DEF IInv, TypeOK, RangeInv
<1>4. \A b \in made : \E i \in Ids : Last(b, i)
  <2> SUFFICES ASSUME NEW b \in made PROVE \E i \in Ids : Last(b, i)
    OBVIOUS
  <2> DEFINE S == {i \in Ids : IndexData(i) = b}
  <2>1. S \in SUBSET (0..(idCounter - 1)) /\ S # {} /\ idCounter - 1 \in Nat
    BY <1>3 DEF Ids
  <2> HIDE DEF S
  <2>2. PICK m \in S : \A k \in S : k <= m
    BY <2>1, LargestExists
  <2> QED
    BY <2>2 DEF S
<1> HIDE DEF Last, made
<1>5. \A b \in DOMAIN hash' : hash'[b] \in Ids
  BY <1>2, <1>4
<1>6. Ids' = Ids /\ InFlight' = InFlight /\ Active' = Active /\ Pending' = Pending
  BY <1>1 DEF Ids, InFlight, Active, Pending
<1>7. HashInv'
  BY <1>5, <1>6 DEF HashInv
<1>8. recalcs \in 0..MaxRecalcs[dedup] /\ MaxRecalcs[dedup] \in Nat
  BY FactoryAssumption DEF IInv, TypeOK
<1>9. recalcs' \in 0..MaxRecalcs[dedup] /\ recalcs' # 0
  BY <1>1, <1>8
<1>10. TypeOK'
  <2>1. TypeOK /\ UNCHANGED <<store, copy, grower>>
    BY <1>1 DEF IInv, storage
  <2> QED
    BY ONLY <1>1, <1>9, <2>1 DEF TypeOK
<1>11. GrowInv' /\ CoverInv' /\ DataIntact'
  BY <1>1, StorageKept
<1>12. RangeInv' /\ FlightInv' /\ SourceInv'
  BY <1>1, <1>6 DEF IInv, RangeInv, End, FlightInv, Content, SourceInv
<1>13. AuxInv'
  BY <1>1, <1>6 DEF IInv, AuxInv
<1>14. DedupInv'
  BY <1>9 DEF DedupInv
<1>15. ResultInv'
  BY <1>1, <1>6, <1>9 DEF IInv, ResultInv, Undisturbed, Handled
<1> QED
  BY <1>7, <1>10, <1>11, <1>12, <1>13, <1>14, <1>15 DEF IInv

LEMMA FlushStep ==
    ASSUME IInv, Flush
    PROVE  IInv'
<1>1. /\ \A t \in Threads : pc[t] = "done"
      /\ offsets' = Resized(offsets, idCounter) /\ sizes' = Resized(sizes, idCounter)
      /\ flushed' = TRUE
      /\ UNCHANGED <<dedup, source, next, newId, pc, pos, id, offset, idCounter, dataOffset,
                     hash, added, recalcs>>
      /\ UNCHANGED storage
  BY DEF Flush, AuxCut, locals, metaData
<1>2. idCounter \in Nat /\ offsets \in Seq(Nat) /\ sizes \in Seq(Nat)
  BY DEF IInv, TypeOK
<1>3. /\ offsets' \in Seq(Nat) /\ Len(offsets') = idCounter
      /\ \A k \in 1..idCounter : offsets'[k] = IF k <= Len(offsets) THEN offsets[k] ELSE 0
  BY <1>1, <1>2, ResizedSeq
<1>4. sizes' \in Seq(Nat) /\ Len(sizes') = idCounter
  BY <1>1, <1>2, ResizedSeq
<1>5. Ids' = Ids /\ InFlight' = InFlight /\ Active' = Active /\ Pending' = Pending
  BY <1>1 DEF Ids, InFlight, Active, Pending
<1>6. TypeOK'
  <2>1. TypeOK /\ UNCHANGED <<store, copy, grower>>
    BY <1>1 DEF IInv, storage
  <2> QED
    BY ONLY <1>1, <1>3, <1>4, <2>1 DEF TypeOK
<1>7. GrowInv' /\ CoverInv' /\ DataIntact'
  BY <1>1, StorageKept
<1>8. RangeInv' /\ FlightInv' /\ SourceInv'
  BY <1>1, <1>5 DEF IInv, RangeInv, End, FlightInv, Content, SourceInv
<1>9. HashInv' /\ DedupInv' /\ ResultInv'
  BY <1>1, <1>5 DEF IInv, HashInv, DedupInv, IdsUnique, ResultInv, Undisturbed, Handled
<1>10. AuxInv'
  <2>1. ASSUME NEW i \in Ids, i \notin Pending
        PROVE  i < idCounter /\ offsets'[i + 1] = added[i + 1].offset
    <3>1. i < Len(offsets) /\ offsets[i + 1] = added[i + 1].offset
      BY <2>1 DEF IInv, AuxInv
    <3>2. i \in Nat /\ i + 1 \in 1..idCounter
      BY EntryNumbers
    <3>3. Len(offsets) \in Nat
      BY <1>2
    <3> QED
      BY <1>2, <1>3, <3>1, <3>2, <3>3
  <2> QED
    BY <1>1, <1>3, <1>4, <1>5, <2>1 DEF AuxInv
<1> QED
  BY <1>6, <1>7, <1>8, <1>9, <1>10 DEF IInv

\* The new id gets the range behind the last one.
LEMMA ReserveRange ==
    ASSUME IInv, NEW c \in Contents,
           added' = Append(added, [content |-> c, offset |-> dataOffset]),
           idCounter' = idCounter + 1, dataOffset' = dataOffset + Bytes[c]
    PROVE  /\ RangeInv'
           /\ added' \in Seq([content : Contents, offset : Nat])
           /\ idCounter \in Nat /\ Ids' = Ids \cup {idCounter} /\ idCounter \notin Ids
           /\ \A i \in Ids : added'[i + 1] = added[i + 1]
           /\ added'[idCounter + 1] = [content |-> c, offset |-> dataOffset]
           /\ dataOffset' \in Nat
<1> DEFINE e == [content |-> c, offset |-> dataOffset]
           R == [content : Contents, offset : Nat]
<1>0. PICK n : n = idCounter
  OBVIOUS
<1>1. /\ n \in Nat /\ n # 0 /\ dataOffset \in Nat /\ Len(added) = n
      /\ added \in Seq(R)
  BY <1>0 DEF IInv, TypeOK, RangeInv
<1>2. e \in R /\ Bytes[c] \in Nat
  BY <1>1, FactoryAssumption
<1> HIDE DEF e, R
<1>3. added' = Append(added, e)
  BY DEF e
<1>4. /\ added' \in Seq(R) /\ Len(added') = n + 1
      /\ \A k \in 1..n : added'[k] = added[k]
      /\ added'[n + 1] = e
  BY ONLY <1>1, <1>2, <1>3
<1>5. Ids' = Ids \cup {idCounter} /\ idCounter \notin Ids
  BY <1>0, <1>1 DEF Ids
<1>6. \A i \in Ids : added'[i + 1] = added[i + 1]
  BY <1>0, <1>4, EntryNumbers
<1>7. \A k \in 1..n : End(k) \in Nat /\ added[k].offset \in Nat /\ End(k)' = End(k)
  <2> SUFFICES ASSUME NEW k \in 1..n
               PROVE  End(k) \in Nat /\ added[k].offset \in Nat /\ End(k)' = End(k)
    OBVIOUS
  <2>1. k - 1 \in Ids /\ (k - 1) + 1 = k
    BY <1>0, <1>1 DEF Ids
  <2>2. added[(k - 1) + 1].offset \in Nat /\ Bytes[added[(k - 1) + 1].content] \in Nat
    BY <2>1, EntryNumbers
  <2>3. added[k].offset \in Nat /\ Bytes[added[k].content] \in Nat
    BY <2>1, <2>2
  <2>4. added'[k] = added[k]
    BY <1>4
  <2>5. /\ End(k) = added[k].offset + Bytes[added[k].content]
        /\ End(k)' = added'[k].offset + Bytes[added'[k].content]
    BY DEF End
  <2> QED
    BY <2>3, <2>4, <2>5
<1>8. End(n + 1)' = dataOffset' /\ added'[n + 1].offset = dataOffset
  <2>1. added'[n + 1].content = c /\ added'[n + 1].offset = dataOffset
    BY <1>4 DEF e
  <2> QED
    BY <2>1 DEF End
<1>9. /\ dataOffset = End(n) /\ n \in 1..n
      /\ \A i, j \in 1..n : i < j => End(i) <= added[j].offset
      /\ \A i \in 1..n : i + 1 <= n => added[i + 1].offset = End(i)
  BY <1>0, <1>1 DEF IInv, RangeInv
<1>10. \A i \in 1..n : End(i) <= dataOffset
  <2> SUFFICES ASSUME NEW i \in 1..n PROVE End(i) <= dataOffset
    OBVIOUS
  <2>1. CASE i = n
    BY <1>1, <1>9, <2>1
  <2>2. CASE i < n
    <3>1. End(i) <= added[n].offset
      BY <1>9, <2>2
    <3>2. End(n) = added[n].offset + Bytes[added[n].content]
      BY DEF End
    <3>3. n - 1 \in Ids /\ (n - 1) + 1 = n
      BY <1>0, <1>1 DEF Ids
    <3>4. Bytes[added[n].content] \in Nat
      <4>1. Bytes[added[(n - 1) + 1].content] \in Nat
        BY <3>3, EntryNumbers
      <4> QED
        BY <3>3, <4>1
    <3> QED
      BY <1>7, <1>9, <3>1, <3>2, <3>4, SMTT(30)
  <2> QED
    BY <1>1, <2>1, <2>2
<1>11. \A i, j \in 1..(n + 1) : i < j => End(i)' <= added'[j].offset
  <2> SUFFICES ASSUME NEW i \in 1..(n + 1), NEW j \in 1..(n + 1), i < j
               PROVE  End(i)' <= added'[j].offset
    OBVIOUS
  <2>1. i \in 1..n
    BY <1>1
  <2>2. CASE j = n + 1
    BY <1>7, <1>8, <1>10, <2>1, <2>2
  <2>3. CASE j # n + 1
    <3>1. j \in 1..n
      BY <1>1, <2>3
    <3> QED
      BY <1>4, <1>7, <1>9, <2>1, <3>1
  <2> QED
    BY <2>2, <2>3
<1>12. \A i \in 1..(n + 1) : i + 1 <= n + 1 => added'[i + 1].offset = End(i)'
  <2> SUFFICES ASSUME NEW i \in 1..(n + 1), i + 1 <= n + 1
               PROVE  added'[i + 1].offset = End(i)'
    OBVIOUS
  <2>1. i \in 1..n
    BY <1>1
  <2>2. CASE i = n
    BY <1>7, <1>8, <1>9, <2>1, <2>2
  <2>3. CASE i # n
    <3>1. i + 1 \in 1..n /\ i + 1 <= n
      BY <1>1, <2>1, <2>3
    <3> QED
      BY <1>4, <1>7, <1>9, <2>1, <3>1
  <2> QED
    BY <2>2, <2>3
<1>13. added'[1] = [content |-> Empty, offset |-> 0]
  <2>1. 1 \in 1..n /\ added[1] = [content |-> Empty, offset |-> 0]
    BY <1>1 DEF IInv, RangeInv
  <2> QED
    BY <1>4, <2>1
<1>14. idCounter' = n + 1 /\ n + 1 # 0
  BY <1>0, <1>1
<1>15. RangeInv'
  <2>1. Len(added') = idCounter' /\ dataOffset' = End(idCounter)'
    BY <1>4, <1>8, <1>14 DEF End
  <2> QED
    BY <1>11, <1>12, <1>13, <1>14, <2>1 DEF RangeInv
<1>16. dataOffset' \in Nat
  BY <1>1, <1>2
<1> QED
  BY <1>0, <1>1, <1>4, <1>5, <1>6, <1>15, <1>16 DEF e, R

\* The hash after a reservation knows the new id under the bytes of its index.
LEMMA ReserveHash ==
    ASSUME IInv, NEW c \in Contents,
           added' = Append(added, [content |-> c, offset |-> dataOffset]),
           idCounter' = idCounter + 1, dataOffset' = dataOffset + Bytes[c],
           ~(dedup /\ Serialized(c) \in DOMAIN hash),
           hash' = IF dedup
                   THEN [b \in DOMAIN hash \cup {Serialized(c)} |->
                             IF b = Serialized(c) THEN idCounter ELSE hash[b]]
                   ELSE hash,
           UNCHANGED <<dedup, recalcs>>
    PROVE  HashInv' /\ DedupInv'
<1>1. /\ Ids' = Ids \cup {idCounter} /\ idCounter \notin Ids
      /\ \A i \in Ids : added'[i + 1] = added[i + 1]
      /\ added'[idCounter + 1].content = c
  <2>1. /\ Ids' = Ids \cup {idCounter} /\ idCounter \notin Ids
        /\ \A i \in Ids : added'[i + 1] = added[i + 1]
        /\ added'[idCounter + 1] = [content |-> c, offset |-> dataOffset]
    BY ReserveRange
  <2> QED
    BY ONLY <2>1
<1>2. \A b \in DOMAIN hash : hash[b] \in Ids
  BY DEF IInv, HashInv
<1>3. CASE ~dedup
  BY <1>1, <1>2, <1>3 DEF HashInv, DedupInv
<1>4. CASE dedup
  <2>1. /\ DOMAIN hash' = DOMAIN hash \cup {Serialized(c)}
        /\ hash'[Serialized(c)] = idCounter
        /\ \A b \in DOMAIN hash : b # Serialized(c) /\ hash'[b] = hash[b]
    BY <1>4
  <2>2. HashInv'
    BY <1>1, <1>2, <2>1 DEF HashInv
  <2>3. ASSUME recalcs = 0 PROVE DedupInv'
    <3>1. /\ \A i \in Ids : Serialized(added[i + 1].content) \in DOMAIN hash
          /\ \A b \in DOMAIN hash : b = Serialized(added[hash[b] + 1].content)
          /\ \A i, j \in Ids : added[i + 1].content = added[j + 1].content => i = j
      BY <1>4, <2>3 DEF IInv, DedupInv, IdsUnique
    <3>2. \A i \in Ids' : Serialized(added'[i + 1].content) \in DOMAIN hash'
      BY <1>1, <2>1, <3>1
    <3>3. \A b \in DOMAIN hash' : b = Serialized(added'[hash'[b] + 1].content)
      BY <1>1, <1>2, <2>1, <3>1
    <3>4. \A i \in Ids : added[i + 1].content # c
      BY <2>1, <3>1
    <3>5. \A i, j \in Ids' : added'[i + 1].content = added'[j + 1].content => i = j
      <4>1. \A i \in Ids : added'[i + 1].content = added[i + 1].content
        BY <1>1
      <4>2. \A i, j \in Ids : added'[i + 1].content = added'[j + 1].content => i = j
        BY <3>1, <4>1
      <4>3. \A i \in Ids : added'[i + 1].content # added'[idCounter + 1].content
        BY <1>1, <3>4, <4>1
      <4> QED
        BY <1>1, <4>2, <4>3
    <3> QED
      BY <3>2, <3>3, <3>5 DEF DedupInv, IdsUnique
  <2>4. ASSUME recalcs # 0 PROVE DedupInv'
    BY <2>4 DEF DedupInv
  <2> QED
    BY <2>2, <2>3, <2>4
<1> QED
  BY <1>3, <1>4

LEMMA ReserveStep ==
    ASSUME IInv, MetaInv, NEW t \in Threads, Reserve(t)
    PROVE  IInv'
<1> USE StorageTypes
<1> DEFINE c == Content(t)
<1>1. /\ pc[t] = "enter" /\ pc' = [pc EXCEPT ![t] = "size"]
      /\ id' = [id EXCEPT ![t] = idCounter] /\ offset' = [offset EXCEPT ![t] = dataOffset]
      /\ UNCHANGED <<dedup, source, next, newId, pos, store, copy, grower, offsets, sizes,
                     flushed, recalcs>>
  BY DEF Reserve, Goes, storage, auxData, ownerVars
<1>2. /\ added' = Append(added, [content |-> c, offset |-> dataOffset])
      /\ idCounter' = idCounter + 1 /\ dataOffset' = dataOffset + Bytes[c]
      /\ ~(dedup /\ Serialized(c) \in DOMAIN hash)
      /\ hash' = IF dedup
                 THEN [b \in DOMAIN hash \cup {Serialized(c)} |->
                           IF b = Serialized(c) THEN idCounter ELSE hash[b]]
                 ELSE hash
  BY <1>1 DEF Reserve, OffsetAfter, HashWith, MetaInv, Known
<1>3. t \in Active /\ t \notin InFlight
  BY <1>1 DEF Active, InFlight
<1>4. c \in Contents
  <2>1. pos[t] \in 0..SourceSize /\ pos[t] # 0
    BY <1>3 DEF IInv, TypeOK, SourceInv
  <2>2. pos[t] \in 1..SourceSize
    BY <2>1, FactoryAssumption
  <2> QED
    BY <2>2 DEF IInv, TypeOK, Content
<1>5. id \in [Threads -> Nat] /\ offset \in [Threads -> Nat] /\ dataOffset \in Nat
  BY DEF IInv, TypeOK
<1> HIDE DEF c
<1>6. /\ RangeInv' /\ dataOffset' \in Nat
      /\ added' \in Seq([content : Contents, offset : Nat])
      /\ idCounter \in Nat /\ Ids' = Ids \cup {idCounter} /\ idCounter \notin Ids
      /\ \A i \in Ids : added'[i + 1] = added[i + 1]
      /\ added'[idCounter + 1] = [content |-> c, offset |-> dataOffset]
  BY <1>2, <1>4, ReserveRange
<1>7. HashInv' /\ DedupInv'
  BY <1>1, <1>2, <1>4, ReserveHash
<1>8. /\ pc' \in [Threads -> {"fetch", "reserve", "enter", "size", "grow", "growing", "put",
                              "putting", "aux", "done"}]
      /\ id' \in [Threads -> Nat] /\ offset' \in [Threads -> Nat]
      /\ pc'[t] = "size" /\ id'[t] = idCounter /\ offset'[t] = dataOffset
      /\ \A u \in Threads : u # t => pc'[u] = pc[u] /\ id'[u] = id[u]
                                     /\ offset'[u] = offset[u]
  BY <1>1, <1>5, <1>6
<1>9. TypeOK'
  <2>1. TypeOK /\ idCounter' \in Nat
    BY <1>2, <1>6 DEF IInv
  <2> QED
    BY ONLY <1>1, <1>6, <1>8, <2>1 DEF TypeOK
<1>10. InFlight' = InFlight \cup {t} /\ Active' = Active
  BY <1>1, <1>8 DEF InFlight, Active
<1>11. \A u \in Threads : Content(u)' = Content(u) /\ (u # t => Need(u)' = Need(u))
  BY <1>1, <1>8 DEF Content, Need
<1>12. FlightInv'
  <2>1. \A u \in InFlight :
            /\ u \in Threads /\ u # t /\ id[u] \in Ids
            /\ added[id[u] + 1] = [content |-> Content(u), offset |-> offset[u]]
    BY <1>3, FlightNumbers DEF IInv, FlightInv
  <2>2. \A u \in InFlight :
            /\ id'[u] = id[u] /\ id'[u] # idCounter /\ id'[u] \in Ids
            /\ added'[id'[u] + 1] = [content |-> Content(u)', offset |-> offset'[u]]
    BY <1>6, <1>8, <1>11, <2>1, ZenonT(40)
  <2>3. idCounter < idCounter' /\ \A i \in Ids : i < idCounter'
    BY <1>2, <1>6, EntryNumbers DEF Ids
  <2>4. added'[id'[t] + 1] = [content |-> Content(t)', offset |-> offset'[t]]
    BY <1>6, <1>8, <1>11 DEF c
  <2>5. \A u \in InFlight' :
            /\ id'[u] < idCounter'
            /\ added'[id'[u] + 1] = [content |-> Content(u)', offset |-> offset'[u]]
    BY <1>8, <1>10, <2>2, <2>3, <2>4
  <2>6. \A u, v \in InFlight' : u # v => id'[u] # id'[v]
    <3>1. \A u, v \in InFlight : u # v => id'[u] # id'[v]
      BY <2>2 DEF IInv, FlightInv
    <3>2. \A u \in InFlight : id'[u] # id'[t]
      BY <1>8, <2>2
    <3> QED
      BY <1>10, <3>1, <3>2
  <2> QED
    BY <2>5, <2>6 DEF FlightInv
<1>13. SourceInv'
  BY <1>1, <1>8, <1>10 DEF IInv, SourceInv
<1>14. Size' = Size /\ Putting' = Putting
  BY <1>1, <1>8 DEF Size, Putting
<1>15. GrowInv'
  <2>1. \A u \in Threads : (grower' = u) <=> (pc'[u] = "growing")
    BY <1>1, <1>8 DEF IInv, GrowInv
  <2>2. ASSUME grower # NoThread PROVE Need(grower)' = Need(grower)
    <3>1. grower \in Threads /\ grower # t
      BY <1>1, <2>2 DEF IInv, GrowInv
    <3> QED
      BY <1>1, <1>8, <3>1 DEF Need, Content
  <2> QED
    BY <1>1, <1>14, <2>1, <2>2 DEF IInv, GrowInv
<1>16. CoverInv'
  BY <1>8, <1>11, <1>14 DEF IInv, CoverInv
<1>17. DataIntact'
  <2>1. Unwritten' = Unwritten \cup {idCounter}
    <3>1. {u \in InFlight : pc[u] # "aux"}' = {u \in InFlight : pc[u] # "aux"} \cup {t}
      <4>1. \A u \in InFlight : pc'[u] = pc[u]
        BY <1>3, <1>8 DEF InFlight
      <4>2. pc'[t] # "aux"
        BY <1>8
      <4> QED
        BY <1>10, <4>1, <4>2
    <3>2. \A u \in InFlight : id'[u] = id[u]
      BY <1>3, <1>8 DEF InFlight
    <3> DEFINE X == {u \in InFlight : pc[u] # "aux"}
    <3>3. Unwritten = {id[u] : u \in X} /\ Unwritten' = {id'[u] : u \in X \cup {t}}
      BY <3>1 DEF Unwritten
    <3>4. \A u \in X : id'[u] = id[u]
      BY <3>2
    <3> HIDE DEF X
    <3> QED
      BY <1>8, <3>3, <3>4, ZenonT(60)
  <2> QED
    BY <1>1, <1>6, <1>14, <2>1 DEF IInv, DataIntact, Holds
<1>18. AuxInv'
  <2>1. Pending' = Pending \cup {idCounter}
    <3>1. \A u \in InFlight : id'[u] = id[u]
      BY <1>3, <1>8 DEF InFlight
    <3> QED
      BY <1>8, <1>10, <3>1, ZenonT(60) DEF Pending
  <2>2. ~flushed
    BY <1>1 DEF IInv, AuxInv
  <2> QED
    BY <1>1, <1>6, <2>1, <2>2 DEF IInv, AuxInv
<1>19. ResultInv'
  BY <1>1, <1>6, <1>10 DEF IInv, ResultInv, Undisturbed, Handled
<1> QED
  BY <1>6, <1>7, <1>9, <1>12, <1>13, <1>15, <1>16, <1>17, <1>18, <1>19 DEF IInv

LEMMA StutterStep ==
    ASSUME IInv, UNCHANGED vars
    PROVE  IInv'
<1>1. UNCHANGED <<dedup, source, next, newId, pc, pos, id, offset, idCounter, dataOffset,
                  hash, added, offsets, sizes, flushed, recalcs>>
      /\ UNCHANGED <<store, copy, grower>>
  BY DEF vars, locals, metaData, storage, auxData, ownerVars
<1>2. Ids' = Ids /\ InFlight' = InFlight /\ Active' = Active /\ Pending' = Pending
  BY <1>1 DEF Ids, InFlight, Active, Pending
<1>3. TypeOK'
  <2>1. TypeOK
    BY DEF IInv
  <2> QED
    BY ONLY <1>1, <2>1 DEF TypeOK
<1>4. GrowInv' /\ CoverInv' /\ DataIntact'
  BY <1>1, StorageKept DEF storage
<1>5. RangeInv' /\ FlightInv' /\ SourceInv'
  BY <1>1, <1>2 DEF IInv, RangeInv, End, FlightInv, Content, SourceInv
<1>6. AuxInv' /\ HashInv' /\ DedupInv' /\ ResultInv'
  BY <1>1, <1>2 DEF IInv, AuxInv, HashInv, DedupInv, IdsUnique, ResultInv, Undisturbed,
                    Handled
<1> QED
  BY <1>3, <1>4, <1>5, <1>6 DEF IInv

LEMMA LookupStep ==
    ASSUME IInv, NEW t \in Threads, Lookup(t)
    PROVE  IInv'
<1> USE StorageTypes
<1>1. /\ pc[t] = "reserve" /\ pc' = [pc EXCEPT ![t] = "enter"]
      /\ UNCHANGED <<dedup, source, next, newId, pos, id, offset, idCounter, dataOffset,
                     hash, added, offsets, sizes, flushed, recalcs>>
      /\ UNCHANGED <<store, copy, grower>>
  BY DEF Lookup, Goes, locals, metaData, storage, auxData, ownerVars
<1>2. /\ pc'[t] = "enter"
      /\ \A u \in Threads : u # t => pc'[u] = pc[u]
      /\ pc' \in [Threads -> {"fetch", "reserve", "enter", "size", "grow", "growing", "put",
                              "putting", "aux", "done"}]
  BY <1>1
<1>3. InFlight' = InFlight /\ Active' = Active /\ Ids' = Ids /\ Pending' = Pending
  <2>1. InFlight' = InFlight
    BY <1>1, <1>2 DEF InFlight
  <2> QED
    BY <1>1, <1>2, <2>1 DEF Active, Ids, Pending
<1>4. TypeOK'
  <2>1. TypeOK
    BY DEF IInv
  <2> QED
    BY ONLY <1>1, <1>2, <2>1 DEF TypeOK
<1>5. GrowInv' /\ CoverInv' /\ DataIntact'
  BY <1>1, <1>2, StorageKept DEF storage
<1>6. \A u \in Threads : pc'[u] = "done" <=> pc[u] = "done"
  BY <1>1, <1>2
<1>7. RangeInv' /\ FlightInv' /\ SourceInv'
  BY <1>1, <1>3, <1>6 DEF IInv, RangeInv, End, FlightInv, Content, SourceInv
<1>8. AuxInv' /\ HashInv' /\ DedupInv' /\ ResultInv'
  BY <1>1, <1>3, <1>6 DEF IInv, AuxInv, HashInv, DedupInv, IdsUnique, ResultInv,
                          Undisturbed, Handled
<1> QED
  BY <1>4, <1>5, <1>7, <1>8 DEF IInv

LEMMA InitMetaInv == Init => MetaInv
  BY DEF Init, MetaInv

\* While a thread is between lookup and entry nobody else changes the hash.
LEMMA StepMetaInv == IInv /\ MetaInv /\ [Next]_vars => MetaInv'
<1> SUFFICES ASSUME IInv, MetaInv, [Next]_vars PROVE MetaInv'
  OBVIOUS
<1> USE StorageTypes
<1>1. ASSUME NEW t \in Threads, Lookup(t) PROVE MetaInv'
  <2>1. /\ pc' = [pc EXCEPT ![t] = "enter"] /\ UNCHANGED <<dedup, source, pos, hash>>
        /\ ~Known(t) /\ \A u \in Threads : pc[u] # "enter"
    BY <1>1 DEF Lookup, Goes, MetaFree, locals, metaData
  <2>2. \A u \in Threads : pc'[u] = "enter" => u = t
    BY <2>1
  <2>3. ~Known(t)'
    BY <2>1 DEF Known, Content
  <2> QED
    BY <2>2, <2>3 DEF MetaInv
<1>2. ASSUME NEW t \in Threads, Reserve(t) PROVE MetaInv'
  <2>1. pc[t] = "enter" /\ pc' = [pc EXCEPT ![t] = "size"]
    BY <1>2 DEF Reserve, Goes
  <2>2. \A u \in Threads : pc'[u] # "enter"
    BY <2>1 DEF MetaInv
  <2> QED
    BY <2>2 DEF MetaInv
<1>3. CASE Recalculate
  <2>1. \A u \in Threads : pc'[u] # "enter"
    BY <1>3 DEF Recalculate, MetaFree
  <2> QED
    BY <2>1 DEF MetaInv
<1>4. ASSUME \A u \in Threads : pc'[u] = "enter" => pc[u] = "enter" /\ pos'[u] = pos[u],
             UNCHANGED <<dedup, source, hash>>
      PROVE  MetaInv'
  <2>1. \A u \in Threads : pc'[u] = "enter" => ~Known(u)'
    BY <1>4 DEF MetaInv, Known, Content
  <2> QED
    BY <1>4, <2>1 DEF MetaInv
<1>5. ASSUME NEW t \in Threads, FetchNext(t) PROVE MetaInv'
  <2>1. UNCHANGED <<dedup, source, hash>>
    BY <1>5 DEF FetchNext, metaData
  <2>2. \/ pc' = [pc EXCEPT ![t] = "done"] /\ pos' = pos
        \/ pc' = [pc EXCEPT ![t] = "reserve"] /\ pos' = [pos EXCEPT ![t] = next]
    BY <1>5 DEF FetchNext, Goes
  <2>3. pos \in [Threads -> 0..SourceSize]
    BY DEF IInv, TypeOK
  <2>4. \A u \in Threads : pc'[u] = "enter" => pc[u] = "enter" /\ pos'[u] = pos[u]
    BY <2>2, <2>3
  <2> QED
    BY <1>4, <2>1, <2>4
<1>6. ASSUME NEW t \in Threads, Duplicate(t) \/ CheckSize(t) \/ GrowBegin(t) \/ GrowEnd(t)
                                \/ PutBegin(t) \/ PutEnd(t) \/ AdjustAux(t)
      PROVE  MetaInv'
  <2>1. UNCHANGED <<dedup, source, pos, hash>>
    BY <1>6 DEF Duplicate, CheckSize, GrowBegin, GrowEnd, PutBegin, PutEnd, AdjustAux,
                locals, metaData
  <2>2. \E to \in FlightPC \cup {"fetch"} : pc' = [pc EXCEPT ![t] = to]
    BY <1>6 DEF Duplicate, CheckSize, GrowBegin, GrowEnd, PutBegin, PutEnd, AdjustAux,
                Goes, FlightPC
  <2>3. \A u \in Threads : pc'[u] = "enter" => pc[u] = "enter" /\ pos'[u] = pos[u]
    BY <2>1, <2>2 DEF FlightPC
  <2> QED
    BY <1>4, <2>1, <2>3
<1>7. CASE Flush \/ Terminated \/ UNCHANGED vars
  <2>1. UNCHANGED <<dedup, source, pos, hash, pc>>
    BY <1>7 DEF Flush, Terminated, vars, locals, metaData
  <2> QED
    BY <1>4, <2>1
<1> QED
  BY <1>1, <1>2, <1>3, <1>5, <1>6, <1>7 DEF Next, Thread

LEMMA StepIInv == IInv /\ MetaInv /\ [Next]_vars => IInv'
<1> SUFFICES ASSUME IInv, MetaInv, [Next]_vars PROVE IInv'
  OBVIOUS
<1>1. ASSUME NEW t \in Threads, Thread(t) PROVE IInv'
  BY <1>1, FetchNextStep, DuplicateStep, LookupStep, ReserveStep, CheckSizeStep, GrowBeginStep,
     GrowEndStep, PutBeginStep, PutEndStep, AdjustAuxStep DEF Thread
<1>2. CASE Recalculate
  BY <1>2, RecalculateStep
<1>3. CASE Flush
  BY <1>3, FlushStep
<1>4. CASE Terminated \/ UNCHANGED vars
  BY <1>4, StutterStep DEF Terminated
<1> QED
  BY <1>1, <1>2, <1>3, <1>4 DEF Next

-----------------------------------------------------------------------------
(* The theorems                                                            *)

\* The inductive invariant holds whatever the threads of insert() do, and however often
\* the deduplication data is recalculated while they do it.
THEOREM Invariance == Spec => [](IInv /\ MetaInv)
  BY InitIInv, InitMetaInv, StepIInv, StepMetaInv, PTL DEF Spec

\* Ids, offsets and both auxiliary arrays stay in their ranges.
THEOREM TypeCorrect == Spec => []TypeOK
<1>1. IInv => TypeOK
  BY DEF IInv
<1> QED
  BY <1>1, Invariance, PTL

\* Bytes that addIndex() has put are never damaged or lost, neither by the put of another
\* thread nor by a growStorage() that copies the storage meanwhile.
THEOREM BytesIntact == Spec => []DataIntact
<1>1. IInv => DataIntact
  BY DEF IInv
<1> QED
  BY <1>1, Invariance, PTL

\* putData() is always inside the storage, although the size was tested without a lock
\* or under one that was given back since.
THEOREM RangesCovered == Spec => []NoRangeError
<1>1. IInv => NoRangeError
  BY DEF IInv, CoverInv, NoRangeError
<1> QED
  BY <1>1, Invariance, PTL

\* Until recalculateDeduplicationData() replaces the hash no content gets two ids.
THEOREM ContentsUnique == Spec => [](recalcs = 0 => IdsUnique)
<1>1. IInv => (recalcs = 0 => IdsUnique)
  BY DEF IInv, DedupInv, IdsUnique
<1> QED
  BY <1>1, Invariance, PTL

\* The bytes of an index are a sequence of that many bytes.
LEMMA SerializedSeq ==
    ASSUME NEW c \in Contents
    PROVE  /\ Serialized(c) \in Seq(Cell) /\ Len(Serialized(c)) = Bytes[c]
           /\ \A k \in 1..Bytes[c] : Serialized(c)[k] = Byte(c, k)
<1>1. Bytes[c] \in Nat
  BY FactoryAssumption
<1>2. Serialized(c) \in [1..Bytes[c] -> Cell]
  BY <1>1 DEF Serialized, Byte, Cell
<1> QED
  BY <1>1, <1>2, MadeSeq DEF Serialized

\* The bytes of c in the storage, read as a part of it.
LEMMA HeldSubSeq ==
    ASSUME NEW s \in Seq(Cell), NEW o \in Nat, NEW c \in Contents,
           o + Bytes[c] <= Len(s), Holds(s, o, c)
    PROVE  SubSeq(s, o + 1, o + Bytes[c]) = Serialized(c)
<1> DEFINE b == Bytes[c]
           r == SubSeq(s, o + 1, o + b)
           x == Serialized(c)
<1>1. b \in Nat \ {0} /\ Len(s) \in Nat
  BY FactoryAssumption
<1>2. x \in Seq(Cell) /\ Len(x) = b /\ \A k \in 1..b : x[k] = Byte(c, k)
  BY SerializedSeq
<1>3. \A k \in 1..b : s[o + k] = Byte(c, k)
  BY DEF Holds
<1> HIDE DEF b, x
<1>4. /\ r \in Seq(Cell) /\ Len(r) = b
      /\ \A k \in 1..b : r[k] = s[o + k]
  <2>1. o + 1 \in 1..(Len(s) + 1) /\ o + b \in (o + 1) - 1..Len(s)
    BY <1>1 DEF b
  <2>2. /\ r \in Seq(Cell) /\ Len(r) = (o + b) - (o + 1) + 1
        /\ \A k \in 1..((o + b) - (o + 1) + 1) : r[k] = s[o + 1 + k - 1]
    BY <2>1, SubSeqProperties
  <2>3. (o + b) - (o + 1) + 1 = b /\ \A k \in 1..b : o + 1 + k - 1 = o + k
    BY <1>1
  <2> HIDE DEF r
  <2> QED
    BY <2>2, <2>3
<1> HIDE DEF r
<1>5. r = x
  BY <1>2, <1>3, <1>4, SeqEqual
<1> QED
  BY <1>5 DEF b, r, x

\* What flush() writes can be read back: every entry of the source is found, byte for
\* byte, between the offset of its id and the next one.  insert() runs at least one
\* thread; with deduplication nobody recalculates the hash meanwhile.
THEOREM FlushFaithful ==
    ASSUME Threads # {}
    PROVE  Spec => [](Undisturbed => FlushedFaithful)
<1>1. IInv => (Undisturbed => FlushedFaithful)
  <2> SUFFICES ASSUME IInv, Undisturbed, flushed
               PROVE  /\ Len(offsets) = idCounter /\ Len(sizes) = idCounter
                      /\ \A i \in 1..SourceSize :
                            LET k == newId[i] + 1
                                end == IF k < Len(offsets) THEN offsets[k + 1]
                                                           ELSE dataOffset
                            IN  SubSeq(store, offsets[k] + 1, end) = Serialized(source[i])
    BY DEF FlushedFaithful
  <2>1. /\ \A t \in Threads : pc[t] = "done"
        /\ Len(offsets) = idCounter /\ Len(sizes) = idCounter
    BY DEF IInv, AuxInv
  <2>2. Active = {} /\ Pending = {} /\ Unwritten = {}
    BY <2>1 DEF Active, InFlight, Pending, Unwritten
  <2>3. next > SourceSize /\ next \in Nat /\ SourceSize \in Nat
    BY <2>1, FactoryAssumption DEF IInv, SourceInv, TypeOK
  <2>4. ASSUME NEW i \in 1..SourceSize
        PROVE  LET k == newId[i] + 1
                   end == IF k < Len(offsets) THEN offsets[k + 1] ELSE dataOffset
               IN  SubSeq(store, offsets[k] + 1, end) = Serialized(source[i])
    <3> DEFINE j == newId[i]
               k == j + 1
               end == IF k < Len(offsets) THEN offsets[k + 1] ELSE dataOffset
               o == added[k].offset
               c == source[i]
    <3>1. Handled(i)
      BY <2>2, <2>3 DEF Handled
    <3>2. j \in Ids /\ added[k].content = c
      BY <3>1 DEF IInv, ResultInv
    <3>3. /\ j \in Nat /\ k \in 1..idCounter /\ o \in Nat /\ c \in Contents
          /\ Bytes[c] \in Nat \ {0}
      BY <3>2, EntryNumbers
    <3>4. offsets[k] = o
      BY <2>2, <3>2 DEF IInv, AuxInv
    <3>5. o + Bytes[c] <= Size /\ Holds(store, o, c)
      BY <2>2, <3>2 DEF IInv, DataIntact
    <3>6. idCounter \in Nat
      BY DEF IInv, TypeOK
    <3> HIDE DEF j
    <3>7. end = o + Bytes[c]
      <4>1. CASE k < Len(offsets)
        <5>1. k \in Ids /\ k + 1 <= idCounter
          BY <2>1, <3>3, <3>6, <4>1 DEF Ids
        <5>2. offsets[k + 1] = added[k + 1].offset
          BY <2>2, <5>1 DEF IInv, AuxInv
        <5>3. added[k + 1].offset = End(k)
          BY <3>3, <5>1 DEF IInv, RangeInv
        <5> QED
          BY <3>2, <4>1, <5>2, <5>3 DEF End
      <4>2. CASE ~(k < Len(offsets))
        <5>1. k = idCounter
          BY <2>1, <3>3, <3>6, <4>2
        <5>2. dataOffset = End(k)
          BY <5>1 DEF IInv, RangeInv
        <5> QED
          BY <3>2, <4>2, <5>2 DEF End
      <4> QED
        BY <4>1, <4>2
    <3>8. SubSeq(store, o + 1, o + Bytes[c]) = Serialized(c)
      BY <3>3, <3>5, StorageTypes, HeldSubSeq DEF Size
    <3> QED
      BY <3>4, <3>7, <3>8 DEF j
  <2> QED
    BY <2>1, <2>4
<1> QED
  BY <1>1, Invariance, PTL
=============================================================================
