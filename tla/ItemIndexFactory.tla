--------------------------- MODULE ItemIndexFactory ---------------------------
(***************************************************************************)
(* sserialize::ItemIndexFactory filled by the threads of insert(): every   *)
(* thread fetches the next index of the source store and adds it.  An      *)
(* addIndex reserves an id and a range of bytes under m_metaDataLock,      *)
(* grows the storage if the range does not fit (m_dataGrowLock, exclusive), *)
(* copies its bytes (m_dataGrowLock, shared) and enters offset and size    *)
(* into the auxiliary arrays (m_auxDataLock).  No lock is held from one    *)
(* of these parts to the next.  A serialized index is a member of          *)
(* Contents, of which only its length and the identity of its bytes        *)
(* matter; its SHA hash is taken to be injective.                          *)
(***************************************************************************)
EXTENDS Naturals, Sequences, FiniteSets

CONSTANTS
    Threads,        \* the threads of insert()
    Contents,       \* serialized indexes
    Bytes,          \* length of each
    Items,          \* number of items in each: idx.size()
    Empty,          \* the serialized empty index, always id 0
    SourceSize,     \* bound: entries of the source store, its empty one at 0
    GrowSize,       \* m_growSize
    AuxGrow,        \* m_auxDataGrow
    Dedup,          \* the values m_useDeduplication may have
    MaxRecalcs,     \* bound: calls of recalculateDeduplicationData(), with and without it
    NoThread        \* nobody holds m_dataGrowLock exclusively

ASSUME FactoryAssumption ==
    /\ Empty \in Contents
    /\ Bytes \in [Contents -> Nat \ {0}]
    /\ Items \in [Contents -> Nat]
    /\ SourceSize \in Nat
    /\ GrowSize \in Nat
    /\ AuxGrow \in Nat \ {0}
    /\ Dedup \subseteq BOOLEAN
    /\ MaxRecalcs \in [Dedup -> Nat]
    /\ NoThread \notin Threads

VARIABLES
    dedup,      \* m_useDeduplication
    source,     \* what the source store holds at 1..SourceSize
    next,       \* state->i
    newId,      \* state->oldToNewId
    pc,         \* where each thread is
    pos,        \* per thread: the i it fetched
    id,         \* per thread: indexId
    offset,     \* per thread: dataOffset
    idCounter,  \* m_idCounter
    dataOffset, \* m_dataOffset
    hash,       \* m_hash: from bytes to ids
    store,      \* m_indexStore: its bytes
    copy,       \* the storage a growStorage() in progress copies to
    grower,     \* who holds m_dataGrowLock exclusively
    offsets,    \* m_idToOffsets
    sizes,      \* m_idxSizes
    flushed,    \* flush() was called
    recalcs,    \* calls of recalculateDeduplicationData() so far
    added       \* history: content and range of each id

locals == <<pos, id, offset>>
metaData == <<idCounter, dataOffset, hash, added>>
storage == <<store, copy, grower>>
auxData == <<offsets, sizes>>
ownerVars == <<flushed, recalcs>>
vars == <<dedup, source, next, newId, pc, locals, metaData, storage, auxData, ownerVars>>

-----------------------------------------------------------------------------
(* Bytes                                                                   *)

Zero == <<Empty, 0>>
Byte(c, k) == <<c, k>>
Serialized(c) == [k \in 1..Bytes[c] |-> Byte(c, k)]
Size == Len(store)

\* The bytes of c at offset o of s.
Holds(s, o, c) == \A k \in 1..Bytes[c] : s[o + k] = Byte(c, k)

Written(s, o, c) ==
    [k \in 1..Len(s) |-> IF k \in (o + 1)..(o + Bytes[c]) THEN Byte(c, k - o)
                                                          ELSE s[k]]

GrownBy(s, n) == [k \in 1..(Len(s) + n) |-> IF k <= Len(s) THEN s[k] ELSE Zero]

Longest(a, b) == IF a >= b THEN a ELSE b

\* MMVector::resize with zeros.
Resized(v, n) == [k \in 1..n |-> IF k <= Len(v) THEN v[k] ELSE 0]

-----------------------------------------------------------------------------

\* The constructor adds the empty index; then insert() is called.
Init ==
    /\ dedup \in Dedup
    /\ source \in [1..SourceSize -> Contents]
    /\ next = 1
    /\ newId = [i \in 0..SourceSize |-> 0]
    /\ pc = [t \in Threads |-> "fetch"]
    /\ pos = [t \in Threads |-> 0]
    /\ id = [t \in Threads |-> 0]
    /\ offset = [t \in Threads |-> 0]
    /\ idCounter = 1
    /\ dataOffset = Bytes[Empty]
    /\ hash = IF dedup THEN [b \in {Serialized(Empty)} |-> 0] ELSE <<>>
    /\ store = Written(GrownBy(<<>>, Longest(Bytes[Empty], GrowSize)), 0, Empty)
    /\ copy = <<>>
    /\ grower = NoThread
    /\ offsets = Resized(<<>>, AuxGrow)
    /\ sizes = [Resized(<<>>, AuxGrow) EXCEPT ![1] = Items[Empty]]
    /\ flushed = FALSE
    /\ recalcs = 0
    /\ added = <<[content |-> Empty, offset |-> 0]>>

Goes(t, from, to) == pc[t] = from /\ pc' = [pc EXCEPT ![t] = to]

ExhaustedLate == next > SourceSize + 1   \* mutant: one too many
Exhausted == next > SourceSize

\* insert(): state->i.fetch_add(1), until the source is exhausted.
FetchNext(t) ==
    /\ next' = next + 1
    /\ IF Exhausted
       THEN Goes(t, "fetch", "done") /\ pos' = pos
       ELSE Goes(t, "fetch", "reserve") /\ pos' = [pos EXCEPT ![t] = next]
    /\ UNCHANGED <<dedup, source, newId, id, offset, metaData, storage, auxData,
                   ownerVars>>

Content(t) == source[pos[t]]

\* The thread at "enter" holds m_metaDataLock between its lookup in m_hash and the
\* entry of its id; the other sections of this mutex are one step each.
MetaFreeAlways == TRUE  \* mutant: the lookup does not wait for the mutex
MetaFree == \A t \in Threads : pc[t] # "enter"
Known(t) == dedup /\ Serialized(Content(t)) \in DOMAIN hash

\* addIndex(): deduplication found the bytes, their id is the result.
Duplicate(t) ==
    /\ Goes(t, "reserve", "fetch")
    /\ MetaFree /\ Known(t)
    /\ newId' = [newId EXCEPT ![pos[t]] = hash[Serialized(Content(t))]]
    /\ UNCHANGED <<dedup, source, next, locals, metaData, storage, auxData, ownerVars>>

\* The bytes are new, or nobody looks (without deduplication).
Lookup(t) ==
    /\ Goes(t, "reserve", "enter")
    /\ MetaFree /\ ~Known(t)
    /\ UNCHANGED <<dedup, source, next, newId, locals, metaData, storage, auxData,
                   ownerVars>>

HashWith(t) ==
    IF dedup
    THEN [b \in DOMAIN hash \cup {Serialized(Content(t))} |->
              IF b = Serialized(Content(t)) THEN idCounter ELSE hash[b]]
    ELSE hash

OffsetAfter(t) == dataOffset + Bytes[Content(t)]

Reserve(t) ==
    /\ Goes(t, "enter", "size")
    /\ id' = [id EXCEPT ![t] = idCounter]
    /\ offset' = [offset EXCEPT ![t] = dataOffset]
    /\ hash' = HashWith(t)
    /\ idCounter' = idCounter + 1
    /\ dataOffset' = OffsetAfter(t)
    /\ added' = Append(added, [content |-> Content(t), offset |-> dataOffset])
    /\ UNCHANGED <<dedup, source, next, newId, pos, storage, auxData, ownerVars>>

Need(t) == offset[t] + Bytes[Content(t)]

FitsLoosely(t) == offset[t] < Size   \* mutant: looks at the begin only
Fits(t) == Need(t) < Size

\* The unlocked test of the size.  It races with growStorage() and sees the
\* size before or after it.
CheckSize(t) ==
    /\ \/ Goes(t, "size", "put") /\ Fits(t)
       \/ Goes(t, "size", "grow") /\ ~Fits(t)
    /\ UNCHANGED <<dedup, source, next, newId, locals, metaData, storage, auxData,
                   ownerVars>>

Putting == {t \in Threads : pc[t] = "putting"}

\* Exclusive lock, second test, start of growStorage().
GrowBegin(t) ==
    /\ grower = NoThread /\ Putting = {}
    /\ \/ /\ Goes(t, "grow", "put")
          /\ Fits(t)
          /\ UNCHANGED <<copy, grower>>
       \/ /\ Goes(t, "grow", "growing")
          /\ ~Fits(t)
          /\ grower' = t
          /\ copy' = GrownBy(store, Longest(Need(t) - Size, GrowSize))
    /\ UNCHANGED <<dedup, source, next, newId, locals, metaData, store, auxData,
                   ownerVars>>

StillLocked == grower   \* mutant: the lock is kept
Unlocked == NoThread

GrowEnd(t) ==
    /\ Goes(t, "growing", "put")
    /\ store' = copy
    /\ copy' = <<>>
    /\ grower' = Unlocked
    /\ UNCHANGED <<dedup, source, next, newId, locals, metaData, auxData, ownerVars>>

MayPutAlways == TRUE    \* mutant: puts without the shared lock
MayPut == grower = NoThread

\* Shared lock.
PutBegin(t) ==
    /\ Goes(t, "put", "putting")
    /\ MayPut
    /\ UNCHANGED <<dedup, source, next, newId, locals, metaData, storage, auxData,
                   ownerVars>>

PutEnd(t) ==
    /\ Goes(t, "putting", "aux")
    /\ store' = Written(store, offset[t], Content(t))
    /\ UNCHANGED <<dedup, source, next, newId, locals, metaData, copy, grower, auxData,
                   ownerVars>>

AuxResized(v, t) == IF Len(v) <= id[t] THEN Resized(v, id[t] + AuxGrow) ELSE v

ResultId(t) == id[t]

\* Enter the index into the auxiliary arrays; addIndex() returns its id.
AdjustAux(t) ==
    /\ Goes(t, "aux", "fetch")
    /\ offsets' = [AuxResized(offsets, t) EXCEPT ![id[t] + 1] = offset[t]]
    /\ sizes' = [AuxResized(sizes, t) EXCEPT ![id[t] + 1] = Items[Content(t)]]
    /\ newId' = [newId EXCEPT ![pos[t]] = ResultId(t)]
    /\ UNCHANGED <<dedup, source, next, locals, metaData, storage, ownerVars>>

-----------------------------------------------------------------------------
(* recalculateDeduplicationData() and flush()                              *)

\* dataSizeById: the difference is a uint64_t; a negative one is larger than
\* any storage, and the adapter is cut at the end of the storage.
DataEnd(i) ==
    LET end == IF i + 1 < Len(offsets) THEN offsets[i + 2] ELSE Len(offsets)
    IN  IF end >= offsets[i + 1] /\ end <= Size THEN end ELSE Size

IndexData(i) == SubSeq(store, offsets[i + 1] + 1, DataEnd(i))

\* Holds m_metaDataLock and m_dataGrowLock (shared), not m_auxDataLock.  Of
\* equal hashes the last one stays.  One step here: the puts and the entries
\* into the auxiliary arrays that may fall between two rounds of the loop only
\* change which hashes it meets.  (Bound: the arrays are long enough; they
\* grow by 4096 entries in the code.)
Recalculate ==
    /\ ~flushed
    /\ recalcs < MaxRecalcs[dedup]
    /\ MetaFree /\ grower = NoThread
    /\ Len(offsets) >= idCounter
    /\ recalcs' = recalcs + 1
    /\ hash' = [b \in {IndexData(i) : i \in 0..(idCounter - 1)} |->
                    CHOOSE i \in 0..(idCounter - 1) :
                        /\ IndexData(i) = b
                        /\ \A j \in 0..(idCounter - 1) : IndexData(j) = b => j <= i]
    /\ UNCHANGED <<dedup, source, next, newId, pc, locals, idCounter, dataOffset,
                   added, storage, auxData, flushed>>

AuxCutShort(v) == Resized(v, idCounter - 1)   \* mutant: off by one
AuxCut(v) == Resized(v, idCounter)

\* flush() after insert() has joined its threads: the auxiliary arrays are cut
\* to the number of ids and written behind the data.
Flush ==
    /\ ~flushed
    /\ \A t \in Threads : pc[t] = "done"
    /\ flushed' = TRUE
    /\ offsets' = AuxCut(offsets)
    /\ sizes' = AuxCut(sizes)
    /\ UNCHANGED <<dedup, source, next, newId, pc, locals, metaData, storage, recalcs>>

Terminated == flushed /\ UNCHANGED vars

Thread(t) ==
    \/ FetchNext(t) \/ Duplicate(t) \/ Lookup(t) \/ Reserve(t) \/ CheckSize(t)
    \/ GrowBegin(t) \/ GrowEnd(t) \/ PutBegin(t) \/ PutEnd(t) \/ AdjustAux(t)

Next == (\E t \in Threads : Thread(t)) \/ Recalculate \/ Flush \/ Terminated

Spec == Init /\ [][Next]_vars

FairSpec == Spec /\ \A t \in Threads : WF_vars(Thread(t))

-----------------------------------------------------------------------------
(* Properties                                                              *)

Ids == 0..(idCounter - 1)
InFlight == {t \in Threads :
                 pc[t] \in {"size", "grow", "growing", "put", "putting", "aux"}}
Unwritten == {id[t] : t \in {u \in InFlight : pc[u] # "aux"}}

\* The type of every variable.
TypeOK ==
    /\ source \in [1..SourceSize -> Contents]
    /\ next \in Nat
    /\ newId \in [0..SourceSize -> Nat]
    /\ pc \in [Threads -> {"fetch", "reserve", "enter", "size", "grow", "growing",
                           "put", "putting", "aux", "done"}]
    /\ pos \in [Threads -> 0..SourceSize]
    /\ id \in [Threads -> Nat]
    /\ offset \in [Threads -> Nat]
    /\ idCounter \in Nat /\ dataOffset \in Nat
    /\ store \in Seq(Contents \X Nat) /\ copy \in Seq(Contents \X Nat)
    /\ grower \in Threads \cup {NoThread}
    /\ offsets \in Seq(Nat) /\ sizes \in Seq(Nat)
    /\ flushed \in BOOLEAN
    /\ dedup \in Dedup /\ recalcs \in 0..MaxRecalcs[dedup]
    /\ added \in Seq([content : Contents, offset : Nat])

\* Bytes that were put stay: neither a put of another thread nor a growth of
\* the storage that runs at the same time damages or loses them.
DataIntact == \A i \in Ids \ Unwritten :
    /\ added[i + 1].offset + Bytes[added[i + 1].content] <= Size
    /\ Holds(store, added[i + 1].offset, added[i + 1].content)

\* putData() never throws: when a thread writes, the storage covers its range,
\* although the size was tested before the lock was taken.
NoRangeError == \A t \in Threads : pc[t] = "putting" => Need(t) <= Size

\* With deduplication no two ids have the same content, although two threads may
\* add equal indexes at the same time and both look before either enters its id.
IdsUnique ==
    dedup => \A i, j \in Ids : added[i + 1].content = added[j + 1].content => i = j

\* What is flushed can be read back: the offsets ascend (SortedOffsetIndex
\* needs that), and the bytes from one to the next are the index of that id.
FlushedFaithful ==
    flushed =>
        /\ Len(offsets) = idCounter /\ Len(sizes) = idCounter
        /\ \A i \in 1..SourceSize :
              LET k == newId[i] + 1
                  end == IF k < Len(offsets) THEN offsets[k + 1] ELSE dataOffset
              IN  SubSeq(store, offsets[k] + 1, end) = Serialized(source[i])

\* insert() ends: no thread waits forever for the storage.
InsertEnds == <>(\A t \in Threads : pc[t] = "done")
=============================================================================
