--------------------------- MODULE OomSortProofs ---------------------------
(***************************************************************************)
(* Proofs about oom_sort, for any number of threads, any source and any    *)
(* chunk and queue size.  The first half is about the threads that sort    *)
(* the chunks and send each other to sleep: never all of them.  The second *)
(* half is about the whole algorithm, the merge and its flush queue        *)
(* included: every array keeps its type and its length, and no two threads *)
(* ever write the same place.                                              *)
(***************************************************************************)
EXTENDS OomSort, Induction, SequenceTheorems, FiniteSetTheorems, TLAPS

\* The merge has not begun.
NoMerge == main.pc = "group" /\ DOMAIN queues = {} /\ DOMAIN writer = {}

\* The source is an array, whatever it holds, and every worker has a record.
ShapeInv ==
    /\ cfg.threads \in Nat /\ offset \in Nat
    /\ \E n \in Nat : data = [i \in 1..n |-> data[i]]
    /\ \A w \in Workers : worker[w] = [pc |-> worker[w].pc, pos |-> worker[w].pos,
                                       buf |-> worker[w].buf]

\* A worker leaves only when the source is exhausted, and it wakes the sleepers; nobody
\* goes to sleep afterwards.
ExitInv ==
    (\E w \in Workers : worker[w].pc = "exit") => Exhausted /\ Sleepers(Workers) = {}

\* As long as anybody is paused two workers are not.
PauseInv == Paused = {} \/ Cardinality(Paused) + 2 <= cfg.threads

IInv == phase = "chunks" => NoMerge /\ ShapeInv /\ ExitInv /\ PauseInv

-----------------------------------------------------------------------------
(* Facts about the operators                                               *)

LEMMA ArrayLen == ASSUME NEW n \in Nat, NEW f, f = [i \in 1..n |-> f[i]]
                  PROVE  DOMAIN f = 1..n /\ Len(f) = n
<1> DEFINE V == {f[i] : i \in 1..n}
<1>1. f \in [1..n -> V]
  OBVIOUS
<1> HIDE DEF V
<1>2. f \in Seq(V)
  BY <1>1
<1> QED
  BY <1>1, <1>2

\* Writing into an array leaves its length alone.
LEMMA ReplacedLen ==
    ASSUME NEW s, NEW at, NEW new, \E n \in Nat : s = [i \in 1..n |-> s[i]],
           NEW r, r = Replaced(s, at, new)
    PROVE  (\E n \in Nat : r = [i \in 1..n |-> r[i]]) /\ Len(r) = Len(s) /\ Len(s) \in Nat
<1>1. PICK n \in Nat : s = [i \in 1..n |-> s[i]]
  OBVIOUS
<1>2. DOMAIN s = 1..n /\ Len(s) = n
  BY <1>1, ArrayLen
<1>3. r = [i \in 1..n |-> r[i]]
  BY <1>2 DEF Replaced
<1>4. Len(r) = n
  BY <1>3, ArrayLen
<1> QED
  BY <1>2, <1>3, <1>4

LEMMA PausedFinite ==
    ASSUME cfg.threads \in Nat
    PROVE  IsFiniteSet(Workers) /\ Cardinality(Workers) = cfg.threads
           /\ IsFiniteSet(Paused) /\ Cardinality(Paused) \in Nat
<1>1. IsFiniteSet(Workers) /\ Cardinality(Workers) = cfg.threads
  BY FS_Interval DEF Workers
<1>2. Paused \in SUBSET Workers
  BY DEF Paused
<1>3. IsFiniteSet(Paused)
  BY <1>1, <1>2, FS_Subset
<1> QED
  BY <1>1, <1>3, FS_CardinalityType

\* Where everybody is after one worker has moved and woken others.
LEMMA MovedTo ==
    ASSUME ShapeInv, UNCHANGED cfg, NEW w \in Workers, NEW rec, NEW wake, Moved(w, rec, wake),
           rec = [pc |-> rec.pc, pos |-> rec.pos, buf |-> rec.buf]
    PROVE  /\ Workers' = Workers
           /\ \A x \in Workers : worker'[x] = [pc |-> worker'[x].pc, pos |-> worker'[x].pos,
                                               buf |-> worker'[x].buf]
           /\ worker'[w].pc = rec.pc
           /\ \A x \in Workers : x # w => worker'[x].pc = IF x \in wake THEN "woken"
                                                                     ELSE worker[x].pc
<1>1. Workers' = Workers
  BY DEF Workers
<1>2. worker'[w] = rec
  BY DEF Moved
<1>3. ASSUME NEW x \in Workers, x # w
      PROVE  /\ worker'[x] = [pc |-> worker'[x].pc, pos |-> worker'[x].pos,
                              buf |-> worker'[x].buf]
             /\ worker'[x].pc = IF x \in wake THEN "woken" ELSE worker[x].pc
  <2>1. worker[x] = [pc |-> worker[x].pc, pos |-> worker[x].pos, buf |-> worker[x].buf]
    BY DEF ShapeInv
  <2>2. CASE x \in wake
    <3>1. worker'[x] = [worker[x] EXCEPT !.pc = "woken"]
      BY <1>3, <2>2 DEF Moved
    <3>2. worker'[x] = [pc |-> "woken", pos |-> worker[x].pos, buf |-> worker[x].buf]
      BY ONLY <2>1, <3>1
    <3> QED
      BY <2>2, <3>2
  <2>3. CASE x \notin wake
    BY <1>3, <2>1, <2>3 DEF Moved
  <2> QED
    BY <2>2, <2>3
<1> QED
  BY <1>1, <1>2, <1>3

\* The record of a worker that goes on with the same chunk.
LEMMA WentTo ==
    ASSUME ShapeInv, NEW w \in Workers, NEW p, NEW x,
           x = Went(w, p)
    PROVE  x.pc = p /\ x = [pc |-> x.pc, pos |-> x.pos, buf |-> x.buf]
<1>1. worker[w] = [pc |-> worker[w].pc, pos |-> worker[w].pos, buf |-> worker[w].buf]
  BY DEF ShapeInv
<1>2. x = [worker[w] EXCEPT !.pc = p]
  BY DEF Went
<1>3. x = [pc |-> p, pos |-> worker[w].pos, buf |-> worker[w].buf]
  BY ONLY <1>1, <1>2
<1> QED
  BY ONLY <1>3

\* The invariant without what is said of the main thread and the array.
WorkerInv ==
    /\ \A w \in Workers : worker[w] = [pc |-> worker[w].pc, pos |-> worker[w].pos,
                                       buf |-> worker[w].buf]
    /\ ExitInv /\ PauseInv

Resting == {"paused", "woken", "exit"}

\* A worker that is active before and after its step, and wakes sleepers at most.
LEMMA ActiveMove ==
    ASSUME ShapeInv, ExitInv, PauseInv, UNCHANGED cfg, Exhausted => Exhausted',
           NEW w \in Workers, worker[w].pc \notin Resting,
           NEW rec, rec = [pc |-> rec.pc, pos |-> rec.pos, buf |-> rec.buf],
           rec.pc \notin Resting,
           NEW wake \in SUBSET Sleepers(Workers), Moved(w, rec, wake)
    PROVE  WorkerInv'
<1>1. /\ Workers' = Workers
      /\ \A x \in Workers : worker'[x] = [pc |-> worker'[x].pc, pos |-> worker'[x].pos,
                                          buf |-> worker'[x].buf]
      /\ worker'[w].pc = rec.pc
      /\ \A x \in Workers : x # w => worker'[x].pc = IF x \in wake THEN "woken"
                                                                ELSE worker[x].pc
  BY MovedTo
<1>2. \A x \in wake : x \in Workers /\ worker[x].pc = "paused"
  BY DEF Sleepers
<1>3. Paused' = Paused
  BY <1>1, <1>2 DEF Paused, Resting
<1>4. PauseInv'
  BY <1>3 DEF PauseInv
<1>5. ExitInv'
  <2>1. ASSUME NEW v \in Workers, worker'[v].pc = "exit" PROVE worker[v].pc = "exit"
    BY <1>1, <2>1 DEF Resting
  <2>2. \A v \in Workers : worker'[v].pc = "paused" => worker[v].pc = "paused"
    BY <1>1 DEF Resting
  <2> QED
    BY <1>1, <2>1, <2>2 DEF ExitInv, Sleepers
<1> QED
  BY <1>1, <1>4, <1>5 DEF WorkerInv

\* The last part of every step: the array keeps its length, the merge does not begin.
LEMMA WorkerStepKeeps ==
    ASSUME IInv, phase = "chunks", UNCHANGED <<cfg, mergeVars>>, offset' \in Nat,
           data' = data \/ \E at, new : data' = Replaced(data, at, new),
           WorkerInv'
    PROVE  IInv'
<1>1. NoMerge' /\ cfg.threads' \in Nat
  BY DEF IInv, NoMerge, mergeVars, ShapeInv
<1>2. \E n \in Nat : data' = [i \in 1..n |-> data'[i]]
  <2>1. CASE data' = data
    BY <2>1 DEF IInv, ShapeInv
  <2>2. ASSUME NEW at, NEW new, data' = Replaced(data, at, new)
        PROVE  \E n \in Nat : data' = [i \in 1..n |-> data'[i]]
    BY <2>2, ReplacedLen DEF IInv, ShapeInv
  <2> QED
    BY <2>1, <2>2
<1> QED
  BY <1>1, <1>2 DEF IInv, ShapeInv, WorkerInv

LEMMA ExitStep ==
    ASSUME IInv, phase = "chunks", NEW w \in Workers, Exit(w)
    PROVE  IInv'
<1> DEFINE rec == Went(w, "exit")
<1>1. /\ worker[w].pc = "begin" /\ Exhausted /\ Moved(w, rec, Sleepers(Workers))
      /\ UNCHANGED <<cfg, data, offset>> /\ UNCHANGED mergeVars
  BY DEF Exit
<1>2. ShapeInv /\ ExitInv /\ PauseInv
  BY DEF IInv
<1>3. rec.pc = "exit" /\ rec = [pc |-> rec.pc, pos |-> rec.pos, buf |-> rec.buf]
  BY <1>2, WentTo
<1> HIDE DEF rec
<1>4. /\ Workers' = Workers
      /\ \A x \in Workers : worker'[x] = [pc |-> worker'[x].pc, pos |-> worker'[x].pos,
                                          buf |-> worker'[x].buf]
      /\ worker'[w].pc = "exit"
      /\ \A x \in Workers : x # w => worker'[x].pc = IF x \in Sleepers(Workers) THEN "woken"
                                                     ELSE worker[x].pc
  BY <1>1, <1>2, <1>3, MovedTo
<1>5. Paused' = Paused
  BY <1>1, <1>4 DEF Paused, Sleepers
<1>6. Sleepers(Workers)' = {} /\ Exhausted'
  BY <1>1, <1>4 DEF Sleepers, Exhausted
<1>7. WorkerInv'
  BY <1>1, <1>2, <1>4, <1>5, <1>6 DEF WorkerInv, ExitInv, PauseInv
<1>8. offset' \in Nat
  BY <1>1, <1>2 DEF ShapeInv
<1> QED
  BY <1>1, <1>7, <1>8, WorkerStepKeeps

LEMMA ClaimStep ==
    ASSUME IInv, phase = "chunks", NEW w \in Workers, Claim(w)
    PROVE  IInv'
<1> DEFINE n == NextChunk
           rec == IF cfg.fetchLock THEN Fetched(w, offset, n)
                  ELSE [Went(w, "fetch") EXCEPT !.pos = Len(chunks) + 1]
<1>1. /\ worker[w].pc = "begin" /\ ~Exhausted /\ Moved(w, rec, {}) /\ offset' = offset + n
      /\ UNCHANGED <<cfg, data>> /\ UNCHANGED mergeVars
  BY DEF Claim
<1>2. ShapeInv /\ ExitInv /\ PauseInv
  BY DEF IInv
<1>3. worker[w] = [pc |-> worker[w].pc, pos |-> worker[w].pos, buf |-> worker[w].buf]
  BY <1>2 DEF ShapeInv
<1>4. rec.pc \in {"fetch", "fetched"} /\ rec = [pc |-> rec.pc, pos |-> rec.pos, buf |-> rec.buf]
  <2>1. CASE cfg.fetchLock
    <3> DEFINE p == Len(chunks) + 1
               b == SubSeq(data, offset + 1, offset + n)
    <3>1. rec = [worker[w] EXCEPT !.pc = "fetched", !.pos = p, !.buf = b]
      BY <2>1 DEF Fetched
    <3> HIDE DEF rec, p, b
    <3>2. rec = [pc |-> "fetched", pos |-> p, buf |-> b]
      BY ONLY <1>3, <3>1
    <3> QED
      BY ONLY <3>2
  <2>2. CASE ~cfg.fetchLock
    <3> DEFINE p == Len(chunks) + 1
    <3>1. rec = [[worker[w] EXCEPT !.pc = "fetch"] EXCEPT !.pos = p]
      BY <2>2 DEF Went
    <3> HIDE DEF rec, p
    <3>2. rec = [pc |-> "fetch", pos |-> p, buf |-> worker[w].buf]
      BY ONLY <1>3, <3>1
    <3> QED
      BY ONLY <3>2
  <2> QED
    BY <2>1, <2>2
<1>5. n \in Nat
  <2>1. PICK m \in Nat : data = [i \in 1..m |-> data[i]]
    BY <1>2 DEF ShapeInv
  <2>2. Len(data) = m
    BY <2>1, ArrayLen
  <2> QED
    BY <1>1, <1>2, <2>2, OomAssumption DEF NextChunk, Exhausted, ShapeInv
<1> HIDE DEF rec, n
<1>6. WorkerInv'
  <2>1. {} \in SUBSET Sleepers(Workers) /\ rec.pc \notin Resting /\ worker[w].pc \notin Resting
    BY <1>1, <1>4 DEF Resting
  <2> QED
    BY <1>1, <1>2, <1>4, <2>1, ActiveMove
<1>7. offset' \in Nat
  BY <1>1, <1>2, <1>5 DEF ShapeInv
<1> QED
  BY <1>1, <1>6, <1>7, WorkerStepKeeps

\* A worker with a new buffer.
LEMMA WithBuffer ==
    ASSUME ShapeInv, NEW w \in Workers, NEW p, NEW b, NEW x,
           x = [Went(w, p) EXCEPT !.buf = b]
    PROVE  x.pc = p /\ x = [pc |-> x.pc, pos |-> x.pos, buf |-> x.buf]
<1>1. worker[w] = [pc |-> worker[w].pc, pos |-> worker[w].pos, buf |-> worker[w].buf]
  BY DEF ShapeInv
<1>2. x = [[worker[w] EXCEPT !.pc = p] EXCEPT !.buf = b]
  BY DEF Went
<1>3. x = [pc |-> p, pos |-> worker[w].pos, buf |-> b]
  BY ONLY <1>1, <1>2
<1> QED
  BY ONLY <1>3

LEMMA FetchStep ==
    ASSUME IInv, phase = "chunks", NEW w \in Workers, Fetch(w)
    PROVE  IInv'
<1> DEFINE c == chunks[worker[w].pos]
           b == SubSeq(data, c[1] + 1, c[2])
           rec == [Went(w, "fetched") EXCEPT !.buf = b]
<1>1. /\ worker[w].pc = "fetch" /\ Moved(w, rec, {})
      /\ UNCHANGED <<cfg, data, offset>> /\ UNCHANGED mergeVars
  BY DEF Fetch
<1>2. ShapeInv /\ ExitInv /\ PauseInv
  BY DEF IInv
<1> HIDE DEF b, c
<1>3. rec.pc = "fetched" /\ rec = [pc |-> rec.pc, pos |-> rec.pos, buf |-> rec.buf]
  <2>1. rec = [Went(w, "fetched") EXCEPT !.buf = b]
    OBVIOUS
  <2> HIDE DEF rec
  <2> QED
    BY ONLY <1>2, <2>1, WithBuffer, w \in Workers
<1> HIDE DEF rec
<1>4. {} \in SUBSET Sleepers(Workers) /\ rec.pc \notin Resting /\ worker[w].pc \notin Resting
  BY <1>1, <1>3 DEF Resting
<1>5. (Exhausted => Exhausted') /\ offset' \in Nat
  BY <1>1, <1>2 DEF Exhausted, ShapeInv
<1>6. WorkerInv'
  BY <1>1, <1>2, <1>3, <1>4, <1>5, ActiveMove
<1> QED
  BY <1>1, <1>5, <1>6, WorkerStepKeeps

LEMMA SortStep ==
    ASSUME IInv, phase = "chunks", NEW w \in Workers, Sort(w)
    PROVE  IInv'
<1> DEFINE b == Ordered(Went(w, "sorted").buf)
           rec == [Went(w, "sorted") EXCEPT !.buf = b]
<1>1. /\ worker[w].pc = "fetched"
      /\ UNCHANGED <<cfg, data, offset>> /\ UNCHANGED mergeVars
  BY DEF Sort
<1>2. PICK wake \in SUBSET Sleepers(Workers) :
          Moved(w, [Went(w, "sorted") EXCEPT !.buf = Ordered(@)], wake)
  BY DEF Sort
<1>3. Moved(w, rec, wake)
  BY <1>2
<1>4. ShapeInv /\ ExitInv /\ PauseInv
  BY DEF IInv
<1> HIDE DEF b
<1>5. rec.pc = "sorted" /\ rec = [pc |-> rec.pc, pos |-> rec.pos, buf |-> rec.buf]
  BY <1>4, WithBuffer
<1> HIDE DEF rec
<1>6. rec.pc \notin Resting /\ worker[w].pc \notin Resting
  BY <1>1, <1>5 DEF Resting
<1>7. (Exhausted => Exhausted') /\ offset' \in Nat
  BY <1>1, <1>4 DEF Exhausted, ShapeInv
<1>8. WorkerInv'
  BY <1>1, <1>3, <1>4, <1>5, <1>6, <1>7, ActiveMove
<1> QED
  BY <1>1, <1>7, <1>8, WorkerStepKeeps

\* Writing a chunk back leaves the end of the source where it is.
LEMMA WroteBackKeeps ==
    ASSUME ShapeInv, NEW w \in Workers, WroteBack(w), offset' = offset
    PROVE  /\ Exhausted => Exhausted'
           /\ \E at, new : data' = Replaced(data, at, new)
<1> DEFINE at == chunks[worker[w].pos][1]
           new == worker[w].buf
<1>1. data' = Replaced(data, at, new)
  BY DEF WroteBack
<1> HIDE DEF at, new
<1>2. Len(data') = Len(data)
  BY <1>1, ReplacedLen DEF ShapeInv
<1> QED
  BY <1>1, <1>2 DEF Exhausted

LEMMA FreshRecord ==
    ASSUME NEW p, NEW x, x = Fresh(p)
    PROVE  x.pc = p /\ x = [pc |-> x.pc, pos |-> x.pos, buf |-> x.buf]
  BY DEF Fresh

LEMMA FlushStep ==
    ASSUME IInv, phase = "chunks", NEW w \in Workers, Flush(w) \/ FlushUnlocked(w)
    PROVE  IInv'
<1>1. /\ worker[w].pc \in {"sorted", "flush"}
      /\ \/ WroteBack(w) /\ Moved(w, Fresh("flushed"), {})
         \/ data' = data /\ Moved(w, Went(w, "flush"), {})
      /\ UNCHANGED <<cfg, offset>> /\ UNCHANGED mergeVars
  BY DEF Flush, FlushUnlocked
<1>2. ShapeInv /\ ExitInv /\ PauseInv /\ offset' \in Nat
  BY <1>1 DEF IInv, ShapeInv
<1>3. {} \in SUBSET Sleepers(Workers) /\ worker[w].pc \notin Resting
  BY <1>1 DEF Resting
<1>4. CASE WroteBack(w) /\ Moved(w, Fresh("flushed"), {})
  <2>1. (Exhausted => Exhausted') /\ \E at, new : data' = Replaced(data, at, new)
    BY <1>1, <1>2, <1>4, WroteBackKeeps
  <2> DEFINE rec == Fresh("flushed")
  <2>2. rec.pc = "flushed" /\ rec = [pc |-> rec.pc, pos |-> rec.pos, buf |-> rec.buf]
    BY FreshRecord
  <2>3. Moved(w, rec, {})
    BY <1>4
  <2> HIDE DEF rec
  <2>4. rec.pc \notin Resting
    BY <2>2 DEF Resting
  <2>5. WorkerInv'
    BY <1>1, <1>2, <1>3, <2>1, <2>2, <2>3, <2>4, ActiveMove
  <2> QED
    BY <1>1, <1>2, <2>1, <2>5, WorkerStepKeeps
<1>5. CASE data' = data /\ Moved(w, Went(w, "flush"), {})
  <2>1. Exhausted => Exhausted'
    BY <1>1, <1>5 DEF Exhausted
  <2> DEFINE rec == Went(w, "flush")
  <2>2. rec.pc = "flush" /\ rec = [pc |-> rec.pc, pos |-> rec.pos, buf |-> rec.buf]
    BY <1>2, WentTo
  <2>3. Moved(w, rec, {})
    BY <1>5
  <2> HIDE DEF rec
  <2>4. rec.pc \notin Resting
    BY <2>2 DEF Resting
  <2>5. WorkerInv'
    BY <1>1, <1>2, <1>3, <2>1, <2>2, <2>3, <2>4, ActiveMove
  <2> QED
    BY <1>1, <1>2, <1>5, <2>5, WorkerStepKeeps
<1> QED
  BY <1>1, <1>4, <1>5

LEMMA PauseStep ==
    ASSUME IInv, phase = "chunks", NEW w \in Workers, Pause(w)
    PROVE  IInv'
<1>1. /\ worker[w].pc = "flushed"
      /\ \/ Moved(w, Went(w, "begin"), {})
         \/ MayPause(w) /\ Moved(w, Went(w, "paused"), {})
      /\ UNCHANGED <<cfg, data, offset>> /\ UNCHANGED mergeVars
  BY DEF Pause
<1>2. ShapeInv /\ ExitInv /\ PauseInv /\ offset' \in Nat
  BY <1>1 DEF IInv, ShapeInv
<1>3. Exhausted' = Exhausted
  BY <1>1 DEF Exhausted
<1>4. CASE Moved(w, Went(w, "begin"), {})
  <2> DEFINE rec == Went(w, "begin")
  <2>1. rec.pc = "begin" /\ rec = [pc |-> rec.pc, pos |-> rec.pos, buf |-> rec.buf]
    BY <1>2, WentTo
  <2>2. Moved(w, rec, {})
    BY <1>4
  <2> HIDE DEF rec
  <2>3. {} \in SUBSET Sleepers(Workers) /\ rec.pc \notin Resting /\ worker[w].pc \notin Resting
    BY <1>1, <2>1 DEF Resting
  <2>4. WorkerInv'
    BY <1>1, <1>2, <1>3, <2>1, <2>2, <2>3, ActiveMove
  <2> QED
    BY <1>1, <1>2, <2>4, WorkerStepKeeps
<1>5. CASE MayPause(w) /\ Moved(w, Went(w, "paused"), {})
  <2> DEFINE rec == Went(w, "paused")
  <2>1. rec.pc = "paused" /\ rec = [pc |-> rec.pc, pos |-> rec.pos, buf |-> rec.buf]
    BY <1>2, WentTo
  <2>2. Moved(w, rec, {})
    BY <1>5
  <2> HIDE DEF rec
  <2>3. /\ Workers' = Workers
        /\ \A x \in Workers : worker'[x] = [pc |-> worker'[x].pc, pos |-> worker'[x].pos,
                                            buf |-> worker'[x].buf]
        /\ worker'[w].pc = "paused"
        /\ \A x \in Workers : x # w => worker'[x].pc = worker[x].pc
    BY <1>1, <1>2, <2>1, <2>2, MovedTo
  <2>4. Paused' = Paused \cup {w} /\ w \notin Paused
    BY <1>1, <2>3 DEF Paused
  <2>5. cfg.threads \in Nat /\ IsFiniteSet(Paused) /\ Cardinality(Paused) \in Nat
    BY <1>2, PausedFinite DEF ShapeInv
  <2>6. Cardinality(Paused \cup {w}) = Cardinality(Paused) + 1
    BY <2>4, <2>5, FS_AddElement
  <2>7. ~Exhausted /\ cfg.threads - Cardinality(Paused) > 2
    BY <1>5 DEF MayPause
  <2>8. PauseInv'
    <3>1. Cardinality(Paused \cup {w}) + 2 <= cfg.threads
      BY <2>5, <2>6, <2>7
    <3> QED
      BY <1>1, <2>4, <3>1 DEF PauseInv
  <2>9. ExitInv'
    BY <1>2, <2>3, <2>7 DEF ExitInv
  <2>10. WorkerInv'
    BY <2>3, <2>8, <2>9 DEF WorkerInv
  <2> QED
    BY <1>1, <1>2, <2>10, WorkerStepKeeps
<1> QED
  BY <1>1, <1>4, <1>5

LEMMA WakeStep ==
    ASSUME IInv, phase = "chunks", NEW w \in Workers, Wake(w)
    PROVE  IInv'
<1> DEFINE to == IF want \/ Exhausted THEN "begin" ELSE "paused"
           rec == Went(w, to)
<1>1. /\ worker[w].pc = "woken" /\ Moved(w, rec, {})
      /\ UNCHANGED <<cfg, data, offset>> /\ UNCHANGED mergeVars
  BY DEF Wake
<1>2. ShapeInv /\ ExitInv /\ PauseInv /\ offset' \in Nat
  BY <1>1 DEF IInv, ShapeInv
<1>3. rec.pc = to /\ rec = [pc |-> rec.pc, pos |-> rec.pos, buf |-> rec.buf]
  BY <1>2, WentTo
<1> HIDE DEF rec
<1>4. /\ Workers' = Workers
      /\ \A x \in Workers : worker'[x] = [pc |-> worker'[x].pc, pos |-> worker'[x].pos,
                                          buf |-> worker'[x].buf]
      /\ worker'[w].pc = to
      /\ \A x \in Workers : x # w => worker'[x].pc = worker[x].pc
  BY <1>1, <1>2, <1>3, MovedTo
<1>5. to \in {"begin", "paused"} /\ (Exhausted => to = "begin")
  OBVIOUS
<1> HIDE DEF to
<1>6. Exhausted' = Exhausted
  BY <1>1 DEF Exhausted
<1>7. ExitInv'
  <2>1. \A x \in Workers : worker'[x].pc = "exit" => worker[x].pc = "exit"
    BY <1>4, <1>5
  <2>2. Exhausted => \A x \in Workers : worker'[x].pc = "paused" => worker[x].pc = "paused"
    BY <1>4, <1>5
  <2> QED
    BY <1>2, <1>4, <1>6, <2>1, <2>2 DEF ExitInv, Sleepers
<1>8. PauseInv'
  <2>1. Paused' = Paused \/ Paused' = Paused \ {w}
    <3>1. CASE to = "paused"
      BY <1>1, <1>4, <3>1 DEF Paused
    <3>2. CASE to = "begin"
      BY <1>1, <1>4, <3>2 DEF Paused
    <3> QED
      BY <1>5, <3>1, <3>2
  <2>2. cfg.threads \in Nat /\ IsFiniteSet(Paused) /\ Cardinality(Paused) \in Nat
    BY <1>2, PausedFinite DEF ShapeInv
  <2>3. Cardinality(Paused \ {w}) = Cardinality(Paused) - 1
    BY <1>1, <2>2, FS_RemoveElement DEF Paused
  <2>4. CASE Paused' = Paused
    BY <1>1, <1>2, <2>4 DEF PauseInv
  <2>5. CASE Paused' = Paused \ {w}
    <3>1. Paused \ {w} = {} \/ Cardinality(Paused \ {w}) + 2 <= cfg.threads
      BY <1>2, <2>2, <2>3 DEF PauseInv
    <3> QED
      BY <1>1, <2>5, <3>1 DEF PauseInv
  <2> QED
    BY <2>1, <2>4, <2>5
<1>9. WorkerInv'
  BY <1>4, <1>7, <1>8 DEF WorkerInv
<1> QED
  BY <1>1, <1>2, <1>9, WorkerStepKeeps

-----------------------------------------------------------------------------
(* The theorem                                                             *)

LEMMA InitIInv == Init => IInv
<1> SUFFICES ASSUME Init, phase = "chunks" PROVE NoMerge /\ ShapeInv /\ ExitInv /\ PauseInv
  BY DEF IInv
<1>1. data = cfg.src /\ cfg \in Configs
  BY DEF Init
<1>2. cfg.threads \in Nat /\ cfg.src \in Seq(Nat \ {0})
  BY <1>1, OomAssumption
<1>3. \A w \in Workers : worker[w] = [pc |-> "begin", pos |-> 0, buf |-> <<>>]
  BY DEF Init, Fresh
<1>4. \A w \in Workers : worker[w].pc = "begin"
  BY <1>3
<1>5. NoMerge
  BY DEF Init, NoMerge
<1>6. ShapeInv
  <2>1. Len(data) \in Nat /\ data = [i \in 1..Len(data) |-> data[i]]
    BY <1>1, <1>2
  <2>2. \A w \in Workers : worker[w] = [pc |-> worker[w].pc, pos |-> worker[w].pos,
                                        buf |-> worker[w].buf]
    BY <1>3
  <2>3. offset \in Nat
    BY DEF Init
  <2> QED
    BY <1>2, <2>1, <2>2, <2>3 DEF ShapeInv
<1>7. ExitInv /\ PauseInv
  BY <1>4 DEF ExitInv, PauseInv, Paused
<1> QED
  BY <1>5, <1>6, <1>7

\* Before the chunks are done nobody merges, and what is done stays done.
LEMMA OtherStep ==
    ASSUME IInv, MainStep \/ (\E i \in DOMAIN queues : Produce(i))
                 \/ (\E j \in DOMAIN writer : WriterStep(j))
    PROVE  phase' # "chunks"
<1>1. CASE phase = "chunks"
  <2>1. main.pc = "group" /\ DOMAIN queues = {} /\ DOMAIN writer = {}
    BY <1>1 DEF IInv, NoMerge
  <2>2. MainStep
    BY <2>1
  <2>3. JoinWorkers
    BY <1>1, <2>1, <2>2 DEF MainStep, MergeSingle, Setup, Prime, Select, Pop, FlushWait, Submit,
       CountPending, StopWriters, NotifyWriters, EndGroup, EndRound, Return, AtGroup
  <2> QED
    BY <2>3 DEF JoinWorkers
<1>2. CASE phase # "chunks"
  <2>1. ASSUME MainStep PROVE phase' # "chunks"
    BY <1>2, <2>1 DEF MainStep, JoinWorkers, MergeSingle, Setup, Prime, Select, Pop, FlushWait,
       Submit, CountPending, StopWriters, NotifyWriters, EndGroup, EndRound, Return
  <2>2. ASSUME NEW i \in DOMAIN queues, Produce(i) PROVE phase' # "chunks"
    BY <1>2, <2>2 DEF Produce
  <2>3. ASSUME NEW j \in DOMAIN writer, WriterStep(j) PROVE phase' # "chunks"
    BY <1>2, <2>3 DEF WriterStep, Look, Sleep, Write, ReadPending, WritePending
  <2> QED
    BY <2>1, <2>2, <2>3
<1> QED
  BY <1>1, <1>2

LEMMA StepIInv == IInv /\ [Next]_vars => IInv'
<1> SUFFICES ASSUME IInv, [Next]_vars PROVE IInv'
  OBVIOUS
<1>1. ASSUME phase = "chunks", NEW w \in Workers, ChunkStep(w) PROVE IInv'
  BY <1>1, ExitStep, ClaimStep, FetchStep, SortStep, FlushStep, PauseStep, WakeStep
     DEF ChunkStep
<1>2. ASSUME MainStep \/ (\E i \in DOMAIN queues : Produce(i))
             \/ (\E j \in DOMAIN writer : WriterStep(j))
      PROVE  IInv'
  BY <1>2, OtherStep DEF IInv
<1>3. CASE UNCHANGED vars
  BY <1>3 DEF vars, chunkVars, mergeVars, IInv, NoMerge, ShapeInv, ExitInv, PauseInv, Workers,
              Exhausted, Sleepers, Paused
<1> QED
  BY <1>1, <1>2, <1>3 DEF Next, Returned

\* The inductive invariant of the threads that sort the chunks.
THEOREM Invariance == Spec => []IInv
  BY InitIInv, StepIInv, PTL DEF Spec

\* While chunks are sorted never all workers that are left sleep: with n threads at
\* most n - 2 pause, and the first one to leave wakes every sleeper.
THEOREM NeverAllAsleep == Spec => []SomeoneAwake
<1>1. IInv => SomeoneAwake
  <2> SUFFICES ASSUME IInv, phase = "chunks",
                      ~(\E w \in Workers : worker[w].pc \notin {"exit", "paused"})
               PROVE  \A w \in Workers : worker[w].pc = "exit"
    BY DEF SomeoneAwake
  <2>1. \A w \in Workers : worker[w].pc \in {"exit", "paused"}
    OBVIOUS
  <2>2. CASE \E w \in Workers : worker[w].pc = "exit"
    BY <2>1, <2>2 DEF IInv, ExitInv, Sleepers
  <2>3. CASE \A w \in Workers : worker[w].pc = "paused"
    <3>1. Paused = Workers
      BY <2>3 DEF Paused
    <3>2. cfg.threads \in Nat /\ Cardinality(Workers) = cfg.threads
      BY PausedFinite DEF IInv, ShapeInv
    <3>3. Workers = {}
      BY <3>1, <3>2 DEF IInv, PauseInv
    <3> QED
      BY <3>3
  <2> QED
    BY <2>1, <2>2, <2>3
<1> QED
  BY <1>1, Invariance, PTL

-----------------------------------------------------------------------------
(* The merge: nothing is written outside its place.  The invariant counts  *)
(* entries: what has been put into tmp, what the queues hold and what is   *)
(* left of the chunks never exceed the number of entries that were sorted, *)
(* which is the length of tmp.                                             *)

Val == Nat \ {0}
SizeOf(cs) == [c \in DOMAIN cs |-> cs[c][2] - cs[c][1]]

\* Chunks of an array of n entries, none of them empty.
Proper(cs, n) ==
    cs \in Seq(Nat \X Nat) /\ \A c \in DOMAIN cs : cs[c][1] < cs[c][2] /\ cs[c][2] <= n

CoreInv ==
    /\ cfg \in Configs /\ phase \in {"chunks", "merge", "done", "threw"}
    /\ data \in Seq(Val) /\ Len(data) = Len(cfg.src)
    /\ offset \in 0 .. Len(data) /\ resultSize \in 0 .. Len(data)
    /\ Proper(chunks, Len(data))

\* Chunks that are claimed and not yet counted, and who works on them.
BusyPcs == {"fetch", "fetched", "sorted"}
Busy == {w \in Workers : worker[w].pc \in BusyPcs}
Open == {worker[w].pos : w \in Busy}

WorkerRec == [pc : {"begin", "fetch", "fetched", "sorted", "flush", "flushed", "paused", "woken",
                    "exit"},
              pos : Nat, buf : Seq(Val)]
WorkersInv ==
    /\ worker \in [Workers -> WorkerRec]
    /\ \A w \in Workers : w \in Busy \/ worker[w].pc = "flush" => worker[w].pos \in DOMAIN chunks
    /\ \A v, w \in Busy : v # w => worker[v].pos # worker[w].pos
    /\ \A w \in Busy : worker[w].pc # "fetch" =>
          /\ worker[w].buf # <<>>
          /\ Len(worker[w].buf) <= SizeOf(chunks)[worker[w].pos]

\* What is counted is the size of the chunks that are written back, and no chunk reaches
\* beyond what was claimed.
CountedInv ==
    /\ Total(DOMAIN chunks \ Open, SizeOf(chunks)) = resultSize
    /\ Total(DOMAIN chunks, SizeOf(chunks)) <= offset

ChunkInv == phase = "chunks" => WorkersInv /\ CountedInv

\* What is left of the round's chunks for the groups to come.
Unmerged == Total(round.cbi .. Len(chunks), SizeOf(chunks))
RoundInv ==
    /\ round = [cbi |-> round.cbi, next |-> round.next] /\ round.cbi \in 1 .. Len(chunks) + 1
    /\ main \in [pc : {"group", "prime", "select", "pop", "flush", "submit", "count", "stop",
                       "notify", "join"},
                 ret : {"pop", "stop"}, q : Nat]
    /\ main.pc # "group" => phase = "merge" /\ cfg.threads > 1

Flowing == main.pc \notin {"group", "prime"}
NoWriters == fq = NoFlush /\ writer = <<>> /\ lock = [m |-> 0, submit |-> 0]

\* Between the groups.
GroupInv ==
    main.pc = "group" =>
        /\ queues = <<>> /\ NoWriters
        /\ tmp \in Seq(Val) /\ Len(tmp) <= Len(data)
        /\ Proper(round.next, Len(tmp)) /\ Total(DOMAIN round.next, SizeOf(round.next)) = Len(tmp)
        /\ phase = "chunks" => round.cbi = 1 /\ round.next = <<>> /\ tmp = <<>>
        /\ phase # "chunks" => Len(tmp) + Unmerged <= resultSize

\* The chunk that the group becomes starts where the chunks of the groups before it end.
Base == round.next[Len(round.next)][1]
NextInv ==
    main.pc # "group" =>
        /\ round.next \in Seq(Nat \X Nat) /\ round.next # <<>>
        /\ \A c \in 1 .. Len(round.next) - 1 :
              round.next[c][1] < round.next[c][2] /\ round.next[c][2] <= Base
        /\ Total(1 .. Len(round.next) - 1, SizeOf(round.next)) = Base

IsHeads(h) ==
    /\ DOMAIN h \subseteq DOMAIN chunks /\ h = [c \in DOMAIN h |-> h[c]]
    /\ \A c \in DOMAIN h : h[c] \in Nat /\ h[c] <= SizeOf(chunks)[c]
RestOf(h) == [c \in DOMAIN h |-> SizeOf(chunks)[c] - h[c]]
IsQueue(q) ==
    /\ q = [heads |-> q.heads, front |-> q.front, back |-> q.back, eof |-> q.eof, value |-> q.value]
    /\ IsHeads(q.heads) /\ q.front \in Seq(Val) /\ q.back \in Seq(Val)
    /\ q.eof \in BOOLEAN /\ q.value \in Nat
\* The main thread has used the value of its queue and not yet popped the next one.
Taken == main.pc = "pop" \/ (main.pc \in {"flush", "submit", "count"} /\ main.ret = "pop")
Content(q) == Len(q.front) + Len(q.back) + Total(DOMAIN q.heads, RestOf(q.heads))
Held(i) == IF queues[i].value = 0 \/ (Taken /\ i = main.q) THEN 0 ELSE 1
Holdings == [i \in DOMAIN queues |-> Content(queues[i]) + Held(i)]
Placed == IF main.pc = "prime" THEN Base ELSE fq.offset + Len(fq.data)
QueueInv ==
    main.pc # "group" =>
        /\ Len(queues) \in Nat \ {0} /\ DOMAIN queues = 1 .. Len(queues)
        /\ queues = [i \in DOMAIN queues |-> queues[i]]
        /\ \A i \in DOMAIN queues : IsQueue(queues[i])
        /\ Placed + Total(DOMAIN queues, Holdings) + Unmerged <= resultSize

PrimeInv ==
    main.pc = "prime" =>
        /\ NoWriters /\ tmp \in Seq(Val) /\ Len(tmp) = Base
        /\ main.q \in DOMAIN queues
        /\ \A i \in DOMAIN queues : i >= main.q => queues[i].value = 0
        /\ main.q = 1 => queues[1].front # <<>>
        /\ main.q > 1 => queues[1].value # 0

Entry == Nat \X Seq(Val)
WriterRec == [pc : {"idle", "tested", "asleep", "write", "written", "read", "done"}, entry : Entry, read : Nat]
FlushRec == [data : Seq(Val), offset : Nat, entries : Seq(Entry), running : BOOLEAN,
             pending : 0 .. Wrap - 1, read : 0 .. Wrap - 1]
FlowInv ==
    Flowing =>
        /\ writer \in Seq(WriterRec) /\ writer # <<>> /\ fq \in FlushRec
        /\ tmp \in Seq(Nat) /\ Len(tmp) = resultSize
        /\ Taken => main.q \in DOMAIN queues
        /\ fq.data # <<>> \/ (main.pc = "select" /\ Live # {})
        /\ fq.running <=> main.pc \notin {"notify", "join"}
        /\ \A j \in DOMAIN writer : writer[j].pc = "done" => ~fq.running /\ fq.entries = <<>>

LockInv ==
    Flowing =>
        /\ lock \in [m : {-1, 0} \cup DOMAIN writer, submit : {0} \cup DOMAIN writer]
        /\ lock.m = -1 <=> main.pc = "count"
        /\ main.pc = "count" => fq.entries # <<>>
        /\ \A j \in DOMAIN writer : writer[j].pc = "tested" <=> lock.m = j
        /\ lock.submit # 0 => writer[lock.submit].pc = "read"

\* Entries are queued in the order of their places; who writes, writes before all of them.
From(e) == e[1]
To(e) == e[1] + Len(e[2])
Writing == {j \in DOMAIN writer : writer[j].pc = "write"}
RangeInv ==
    Flowing =>
        /\ \A k \in DOMAIN fq.entries : To(fq.entries[k]) <= fq.offset
        /\ \A k, l \in DOMAIN fq.entries : k < l => To(fq.entries[k]) <= From(fq.entries[l])
        /\ \A j \in Writing : To(writer[j].entry) <= fq.offset
        /\ \A j \in Writing, k \in DOMAIN fq.entries : To(writer[j].entry) <= From(fq.entries[k])
        /\ \A i, j \in Writing : i # j => \/ To(writer[i].entry) <= From(writer[j].entry)
                                          \/ To(writer[j].entry) <= From(writer[i].entry)

\* Below m_offset every place of tmp is written, or queued, or being written.
In(p, e) == From(e) < p /\ p <= To(e)
WrittenInv ==
    Flowing =>
        \A p \in 1 .. fq.offset :
            \/ tmp[p] # 0
            \/ \E k \in DOMAIN fq.entries : In(p, fq.entries[k])
            \/ \E j \in Writing : In(p, writer[j].entry)

\* What is submitted follows the groups before.
BaseInv == Flowing => Base <= fq.offset

MInv == /\ CoreInv /\ ChunkInv /\ RoundInv /\ GroupInv /\ NextInv /\ QueueInv /\ PrimeInv
        /\ FlowInv /\ LockInv /\ RangeInv /\ WrittenInv /\ BaseInv

-----------------------------------------------------------------------------
(* Sorting and writing arrays                                              *)

LEMMA SeqFacts ==
    ASSUME NEW V, NEW s \in Seq(V)
    PROVE  /\ Len(s) \in Nat /\ DOMAIN s = 1 .. Len(s) /\ IsFiniteSet(DOMAIN s)
           /\ Cardinality(DOMAIN s) = Len(s) /\ \A i \in 1 .. Len(s) : s[i] \in V
<1>1. Len(s) \in Nat /\ DOMAIN s = 1 .. Len(s) /\ \A i \in 1 .. Len(s) : s[i] \in V
  OBVIOUS
<1>2. IsFiniteSet(1 .. Len(s)) /\ Cardinality(1 .. Len(s)) = Len(s)
  <2>1. PICK n \in Nat : n = Len(s)
    BY <1>1
  <2>2. IsFiniteSet(1 .. n) /\ Cardinality(1 .. n) = n
    BY FS_Interval
  <2> QED
    BY <2>1, <2>2
<1> QED
  BY <1>1, <1>2

\* An array given by its entries.
LEMMA ArraySeq ==
    ASSUME NEW V, NEW n \in Nat, NEW f, f \in [1 .. n -> V]
    PROVE  f \in Seq(V) /\ Len(f) = n /\ DOMAIN f = 1 .. n
  OBVIOUS

LEMMA PartSeq ==
    ASSUME NEW V, NEW s \in Seq(V), NEW a \in Nat, NEW b \in Nat, a <= b, b <= Len(s),
           NEW t, t = SubSeq(s, a + 1, b)
    PROVE  /\ t \in Seq(V) /\ Len(t) = b - a /\ \A i \in 1 .. b - a : t[i] = s[a + i]
           /\ a < b => t # <<>>
<1>1. Len(s) \in Nat /\ \A i \in 1 .. Len(s) : s[i] \in V
  BY SeqFacts
<1>2. t \in Seq(V)
  BY <1>1
<1>3. Len(t) = b - a
  BY <1>1
<1>4. \A i \in 1 .. b - a : t[i] = s[a + i]
  BY <1>1
<1> QED
  BY <1>2, <1>3, <1>4

LEMMA ReplacedSeq ==
    ASSUME NEW V, NEW s \in Seq(V), NEW at \in Nat, NEW new \in Seq(V), NEW r, r = Replaced(s, at, new)
    PROVE  /\ r \in Seq(V) /\ Len(r) = Len(s)
           /\ \A i \in 1 .. Len(s) : r[i] = IF i > at /\ i <= at + Len(new) THEN new[i - at] ELSE s[i]
<1>1. Len(s) \in Nat /\ DOMAIN s = 1 .. Len(s) /\ \A i \in 1 .. Len(s) : s[i] \in V
  BY SeqFacts
<1>2. Len(new) \in Nat /\ \A i \in 1 .. Len(new) : new[i] \in V
  BY SeqFacts
<1>3. r = [i \in 1 .. Len(s) |-> IF i > at /\ i <= at + Len(new) THEN new[i - at] ELSE s[i]]
  BY <1>1 DEF Replaced
<1>4. ASSUME NEW i \in 1 .. Len(s) PROVE (IF i > at /\ i <= at + Len(new) THEN new[i - at] ELSE s[i]) \in V
  BY <1>1, <1>2
<1>5. r \in [1 .. Len(s) -> V]
  BY <1>3, <1>4
<1>6. r \in Seq(V) /\ Len(r) = Len(s)
  BY <1>1, <1>5, ArraySeq
<1> QED
  BY <1>3, <1>6

\* Ranks in a finite set that is totally ordered: every rank is taken.
LEMMA RanksExhaust ==
    ASSUME NEW S, IsFiniteSet(S), NEW B \in [S -> SUBSET S], \A x \in S : x \in B[x],
           \A x, y \in S : x # y => \/ B[x] \subseteq B[y] /\ y \notin B[x]
                                    \/ B[y] \subseteq B[x] /\ x \notin B[y],
           NEW k \in 1 .. Cardinality(S)
    PROVE  \E x \in S : Cardinality(B[x]) = k
<1> DEFINE n == Cardinality(S)
           r == [x \in S |-> Cardinality(B[x])]
<1>1. n \in Nat /\ IsFiniteSet(1 .. n) /\ Cardinality(1 .. n) = n
  BY FS_CardinalityType, FS_Interval
<1>2. ASSUME NEW x \in S PROVE IsFiniteSet(B[x]) /\ Cardinality(B[x]) \in 1 .. n
  <2>1. IsFiniteSet(B[x]) /\ Cardinality(B[x]) <= n
    BY FS_Subset
  <2>2. Cardinality(B[x]) \in Nat /\ Cardinality(B[x]) # 0
    BY <2>1, FS_CardinalityType, FS_EmptySet
  <2> QED
    BY <1>1, <2>1, <2>2
<1>3. r \in [S -> 1 .. n]
  BY <1>2
<1>4. ASSUME NEW x \in S, NEW y \in S, x # y, Cardinality(B[x]) = Cardinality(B[y]) PROVE FALSE
  <2>1. ASSUME NEW u \in S, NEW v \in S, Cardinality(B[u]) = Cardinality(B[v]),
               B[u] \subseteq B[v], v \notin B[u]
        PROVE  FALSE
    <3>1. B[u] = B[v]
      BY <1>2, <2>1, FS_Subset
    <3> QED
      BY <2>1, <3>1
  <2> QED
    BY <1>4, <2>1
<1>5. r \in Injection(S, 1 .. n)
  <2>1. \A x, y \in S : r[x] = r[y] => x = y
    BY <1>4
  <2> HIDE DEF r, n
  <2> QED
    BY <1>3, <2>1 DEF Injection, IsInjective
<1>6. r \in Surjection(S, 1 .. n)
  BY <1>1, <1>5, FS_Injection
<1>7. k \in 1 .. n
  OBVIOUS
<1> QED
  BY <1>6, <1>7 DEF Surjection

LEMMA SortedSeq ==
    ASSUME NEW s \in Seq(Val)
    PROVE  Sorted(s) \in Seq(Val) /\ Len(Sorted(s)) = Len(s)
<1> DEFINE D == DOMAIN s
           B == [i \in D |-> {j \in D : s[j] < s[i] \/ (s[j] = s[i] /\ j <= i)}]
<1>1. /\ Len(s) \in Nat /\ D = 1 .. Len(s) /\ IsFiniteSet(D) /\ Cardinality(D) = Len(s)
      /\ \A i \in D : s[i] \in Val
  BY SeqFacts
<1>2. \A i \in D : i \in Int /\ s[i] \in Int
  BY <1>1 DEF Val
<1>3. ASSUME NEW k \in D PROVE \E i \in D : Rank(s, i) = k
  <2>1. B \in [D -> SUBSET D] /\ \A x \in D : x \in B[x]
    BY <1>2
  <2>2. \A x, y \in D : x # y => \/ B[x] \subseteq B[y] /\ y \notin B[x]
                                 \/ B[y] \subseteq B[x] /\ x \notin B[y]
    <3>1. SUFFICES ASSUME NEW x \in D, NEW y \in D, x # y
                   PROVE  \/ B[x] \subseteq B[y] /\ y \notin B[x]
                          \/ B[y] \subseteq B[x] /\ x \notin B[y]
      OBVIOUS
    <3>2. CASE s[x] < s[y] \/ (s[x] = s[y] /\ x < y)
      <4>1. B[x] \subseteq B[y]
        BY <1>2, <3>2
      <4>2. y \notin B[x]
        BY <1>2, <3>2
      <4> QED
        BY <4>1, <4>2
    <3>3. CASE s[y] < s[x] \/ (s[x] = s[y] /\ y < x)
      <4>1. B[y] \subseteq B[x]
        BY <1>2, <3>3
      <4>2. x \notin B[y]
        BY <1>2, <3>3
      <4> QED
        BY <4>1, <4>2
    <3>4. (s[x] < s[y] \/ (s[x] = s[y] /\ x < y)) \/ (s[y] < s[x] \/ (s[x] = s[y] /\ y < x))
      BY <1>2, <3>1
    <3> QED
      BY <3>2, <3>3, <3>4
  <2>3. k \in 1 .. Cardinality(D)
    BY <1>1
  <2>4. \A i \in D : Rank(s, i) = Cardinality(B[i])
    BY DEF Rank
  <2> HIDE DEF B, D
  <2>5. \E i \in D : Cardinality(B[i]) = k
    BY <1>1, <2>1, <2>2, <2>3, RanksExhaust
  <2> QED
    BY <2>4, <2>5
<1>4. ASSUME NEW k \in D PROVE s[CHOOSE i \in D : Rank(s, i) = k] \in Val
  BY <1>1, <1>3
<1>5. Sorted(s) \in [1 .. Len(s) -> Val]
  BY <1>1, <1>4 DEF Sorted
<1> QED
  BY <1>1, <1>5, ArraySeq

LEMMA UniqueSeq ==
    ASSUME NEW s \in Seq(Val)
    PROVE  /\ Unique(s) \in Seq(Val) /\ Len(Unique(s)) <= Len(s)
           /\ s # <<>> => Unique(s) # <<>>
<1> DEFINE S == ToSet(s)
           B == [v \in S |-> {u \in S : u <= v}]
<1>1. /\ Len(s) \in Nat /\ DOMAIN s = 1 .. Len(s) /\ IsFiniteSet(DOMAIN s)
      /\ Cardinality(DOMAIN s) = Len(s) /\ \A i \in DOMAIN s : s[i] \in Val
  BY SeqFacts
<1>2. S \subseteq Val /\ S = {s[i] : i \in DOMAIN s}
  BY <1>1 DEF ToSet
<1>3. IsFiniteSet(S) /\ Cardinality(S) <= Len(s)
  <2> DEFINE f == [i \in DOMAIN s |-> s[i]]
  <2>1. f \in Surjection(DOMAIN s, S)
    BY <1>2 DEF Surjection
  <2> HIDE DEF S, f
  <2> QED
    BY <1>1, <2>1, FS_Surjection
<1>4. Cardinality(S) \in Nat
  BY <1>3, FS_CardinalityType
<1>5. ASSUME NEW k \in 1 .. Cardinality(S) PROVE \E v \in S : ValueRank(S, v) = k
  <2>1. \A v \in S : v \in Int
    BY <1>2 DEF Val
  <2>2. B \in [S -> SUBSET S] /\ \A v \in S : v \in B[v]
    <3> HIDE DEF S
    <3> QED
      BY <2>1
  <2>3. \A x, y \in S : x # y => \/ B[x] \subseteq B[y] /\ y \notin B[x]
                                 \/ B[y] \subseteq B[x] /\ x \notin B[y]
    <3> HIDE DEF S
    <3> QED
      BY <2>1
  <2>4. \A v \in S : ValueRank(S, v) = Cardinality(B[v])
    BY DEF ValueRank
  <2> HIDE DEF B, S
  <2>5. \E v \in S : Cardinality(B[v]) = k
    BY <1>3, <2>2, <2>3, RanksExhaust
  <2> QED
    BY <2>4, <2>5
<1>6. Unique(s) \in [1 .. Cardinality(S) -> Val]
  <2>1. Unique(s) = [k \in 1 .. Cardinality(S) |-> CHOOSE v \in S : ValueRank(S, v) = k]
    BY DEF Unique
  <2> HIDE DEF S
  <2> QED
    BY <1>2, <1>5, <2>1
<1>7. Unique(s) \in Seq(Val) /\ Len(Unique(s)) = Cardinality(S)
  <2> HIDE DEF S
  <2> QED
    BY <1>4, <1>6, ArraySeq
<1>8. ASSUME s # <<>> PROVE Unique(s) # <<>>
  <2>1. S # {}
    <3>1. Len(s) # 0
      BY <1>8, EmptySeq
    <3>2. 1 \in DOMAIN s
      BY <1>1, <3>1
    <3> QED
      BY <1>2, <3>2
  <2> HIDE DEF S
  <2>2. Cardinality(S) # 0
    BY <1>3, <2>1, FS_EmptySet
  <2> QED
    BY <1>7, <2>2
<1> QED
  BY <1>3, <1>7, <1>8

\* What a chunk is after it was sorted.
LEMMA OrderedSeq ==
    ASSUME NEW s \in Seq(Val)
    PROVE  /\ Ordered(s) \in Seq(Val) /\ Len(Ordered(s)) <= Len(s) /\ Len(Ordered(s)) \in Nat
           /\ s # <<>> => Ordered(s) # <<>>
<1>1. Len(s) \in Nat
  BY SeqFacts
<1>2. CASE cfg.unique
  <2>1. Ordered(s) = Unique(s)
    BY <1>2 DEF Ordered
  <2> QED
    BY <2>1, UniqueSeq, SeqFacts
<1>3. CASE ~cfg.unique
  <2>1. Ordered(s) = Sorted(s)
    BY <1>3 DEF Ordered
  <2>2. Sorted(s) \in Seq(Val) /\ Len(Sorted(s)) = Len(s)
    BY SortedSeq
  <2> QED
    BY <1>1, <2>1, <2>2
<1> QED
  BY <1>2, <1>3

-----------------------------------------------------------------------------
(* Filling a buffer from the chunks                                        *)

Readable == data \in Seq(Val) /\ Proper(chunks, Len(data))

LEMMA ChunkFacts ==
    ASSUME Readable
    PROVE  /\ Len(chunks) \in Nat /\ DOMAIN chunks = 1 .. Len(chunks) /\ Len(data) \in Nat
           /\ Summable(DOMAIN chunks, SizeOf(chunks))
           /\ \A c \in DOMAIN chunks :
                 /\ chunks[c][1] \in Nat /\ chunks[c][2] \in Nat /\ chunks[c][1] < chunks[c][2]
                 /\ chunks[c][2] <= Len(data)
                 /\ SizeOf(chunks)[c] = chunks[c][2] - chunks[c][1] /\ SizeOf(chunks)[c] \in Nat \ {0}
<1>1. chunks \in Seq(Nat \X Nat) /\ data \in Seq(Val)
  BY DEF Readable, Proper
<1>2. Len(chunks) \in Nat /\ DOMAIN chunks = 1 .. Len(chunks) /\ IsFiniteSet(DOMAIN chunks) /\ Len(data) \in Nat
  BY <1>1, SeqFacts
<1>3. ASSUME NEW c \in DOMAIN chunks
      PROVE  /\ chunks[c][1] \in Nat /\ chunks[c][2] \in Nat /\ chunks[c][1] < chunks[c][2]
             /\ chunks[c][2] <= Len(data)
             /\ SizeOf(chunks)[c] = chunks[c][2] - chunks[c][1] /\ SizeOf(chunks)[c] \in Nat \ {0}
  <2>1. chunks[c] \in Nat \X Nat
    BY <1>1
  <2>2. chunks[c][1] < chunks[c][2] /\ chunks[c][2] <= Len(data)
    BY DEF Readable, Proper
  <2> QED
    BY <2>1, <2>2 DEF SizeOf
<1> QED
  BY <1>2, <1>3 DEF Summable

\* The states of fillBackBuffer over the chunks in S.
Fills(S) == {st \in [heads : [S -> Nat], out : Seq(Val)] : \A c \in S : st.heads[c] <= SizeOf(chunks)[c]}

LEMMA HeadsSummable ==
    ASSUME Readable, NEW S \in SUBSET DOMAIN chunks, NEW h \in [S -> Nat],
           \A c \in S : h[c] <= SizeOf(chunks)[c]
    PROVE  /\ Summable(S, RestOf(h)) /\ IsHeads(h)
           /\ \A c \in S : RestOf(h)[c] = SizeOf(chunks)[c] - h[c]
<1>1. \A c \in S : SizeOf(chunks)[c] \in Nat /\ h[c] \in Nat
  BY ChunkFacts
<1>2. IsFiniteSet(S)
  BY ChunkFacts, FS_Subset DEF Summable
<1> QED
  BY <1>1, <1>2 DEF Summable, RestOf, IsHeads

LEMMA SmallestExists ==
    ASSUME Readable, NEW S \in SUBSET DOMAIN chunks, NEW h \in [S -> Nat], Left(h) # {}
    PROVE  /\ \A x \in Left(h) : x \in S /\ h[x] < SizeOf(chunks)[x] /\ Head0(h, x) \in Val
           /\ \E x \in Left(h) : \A y \in Left(h) : Head0(h, x) <= Head0(h, y)
<1>1. ASSUME NEW x \in Left(h) PROVE x \in S /\ h[x] < SizeOf(chunks)[x] /\ Head0(h, x) \in Val
  <2>1. x \in S /\ chunks[x][1] + h[x] < chunks[x][2] /\ h[x] \in Nat
    BY DEF Left
  <2>2. /\ chunks[x][1] \in Nat /\ chunks[x][2] \in Nat /\ chunks[x][2] <= Len(data) /\ Len(data) \in Nat
        /\ SizeOf(chunks)[x] = chunks[x][2] - chunks[x][1]
    BY <2>1, ChunkFacts
  <2>3. chunks[x][1] + h[x] + 1 \in 1 .. Len(data)
    BY <2>1, <2>2
  <2>4. data[chunks[x][1] + h[x] + 1] \in Val
    BY <2>3, SeqFacts DEF Readable
  <2> QED
    BY <2>1, <2>2, <2>4 DEF Head0
<1> DEFINE T == {Head0(h, x) : x \in Left(h)}
<1>2. T \in SUBSET Nat /\ T # {}
  BY <1>1 DEF Val
<1>3. \E t \in T : \A u \in T : t <= u
  <2> HIDE DEF T
  <2> QED
    BY <1>2, NatMin
<1> QED
  BY <1>1, <1>3

LEMMA TakeSmallestFills ==
    ASSUME Readable, NEW S \in SUBSET DOMAIN chunks, NEW st \in Fills(S), NEW t, t = TakeSmallest(st)
    PROVE  /\ t \in Fills(S) /\ Len(st.out) \in Nat /\ Len(t.out) \in Nat
           /\ Len(t.out) + Total(S, RestOf(t.heads)) = Len(st.out) + Total(S, RestOf(st.heads))
           /\ Len(t.out) >= Len(st.out) /\ (Left(st.heads) # {} => Len(t.out) = Len(st.out) + 1)
<1> DEFINE h == st.heads
<1>1. /\ st = [heads |-> st.heads, out |-> st.out] /\ h \in [S -> Nat] /\ st.out \in Seq(Val)
      /\ \A c \in S : h[c] <= SizeOf(chunks)[c]
  BY DEF Fills
<1>2. Summable(S, RestOf(h)) /\ \A c \in S : RestOf(h)[c] = SizeOf(chunks)[c] - h[c]
  BY <1>1, HeadsSummable
<1>3. Len(st.out) \in Nat /\ Total(S, RestOf(h)) \in Nat
  BY <1>1, <1>2, TotalType, SeqFacts
<1>4. CASE Left(h) = {}
  <2>1. t = st
    BY <1>4 DEF TakeSmallest
  <2> QED
    BY <1>3, <1>4, <2>1
<1>5. CASE Left(h) # {}
  <2>1. /\ \A x \in Left(h) : x \in S /\ h[x] < SizeOf(chunks)[x] /\ Head0(h, x) \in Val
        /\ \E x \in Left(h) : \A y \in Left(h) : Head0(h, x) <= Head0(h, y)
    BY <1>1, <1>5, SmallestExists
  <2> DEFINE c == CHOOSE x \in Left(h) : \A y \in Left(h) : Head0(h, x) <= Head0(h, y)
  <2>2. c \in Left(h)
    BY <2>1
  <2>3. t = [heads |-> [h EXCEPT ![c] = @ + 1], out |-> Append(st.out, Head0(h, c))]
    BY <1>5 DEF TakeSmallest
  <2> HIDE DEF c, h
  <2>4. c \in S /\ h[c] < SizeOf(chunks)[c] /\ Head0(h, c) \in Val
    BY <2>1, <2>2
  <2>5. PICK g : g = [h EXCEPT ![c] = @ + 1]
    OBVIOUS
  <2>6. g \in [S -> Nat] /\ g[c] = h[c] + 1 /\ \A x \in S : x # c => g[x] = h[x]
    BY <1>1, <2>4, <2>5
  <2>7. t.heads = g /\ t.out = Append(st.out, Head0(h, c)) /\ t = [heads |-> g, out |-> Append(st.out, Head0(h, c))]
    BY <2>3, <2>5
  <2>8. h[c] \in Nat /\ SizeOf(chunks)[c] \in Nat
    BY <1>1, <2>4, ChunkFacts
  <2>9. \A x \in S : g[x] <= SizeOf(chunks)[x]
    BY <1>1, <2>4, <2>6, <2>8
  <2>10. Summable(S, RestOf(g)) /\ \A x \in S : RestOf(g)[x] = SizeOf(chunks)[x] - g[x]
    BY <2>6, <2>9, HeadsSummable
  <2>11. Total(S, RestOf(g)) + 1 = Total(S, RestOf(h))
    <3>1. RestOf(g)[c] \in Nat /\ RestOf(g)[c] + 1 = RestOf(h)[c] /\ RestOf(h)[c] \in Nat
      BY <1>2, <2>4, <2>6, <2>8, <2>10 DEF Summable
    <3>2. \A x \in S : x # c => RestOf(g)[x] = RestOf(h)[x]
      BY <1>2, <2>6, <2>10
    <3>3. Total(S, RestOf(g)) + RestOf(h)[c] = Total(S, RestOf(h)) + RestOf(g)[c]
      BY <1>2, <2>4, <3>1, <3>2, TotalChange
    <3>4. Total(S, RestOf(g)) \in Nat
      BY <2>10, TotalType
    <3> QED
      BY <1>3, <3>1, <3>3, <3>4
  <2>12. t.out \in Seq(Val) /\ Len(t.out) = Len(st.out) + 1
    BY <1>1, <2>4, <2>7
  <2>13. t \in Fills(S)
    BY <2>6, <2>7, <2>9, <2>12 DEF Fills
  <2>14. Total(S, RestOf(t.heads)) + 1 = Total(S, RestOf(h)) /\ Total(S, RestOf(t.heads)) \in Nat
    BY <2>7, <2>10, <2>11, TotalType
  <2> QED
    BY <1>3, <2>12, <2>13, <2>14 DEF h
<1> QED
  BY <1>4, <1>5

FillAt(h, after, k) == IF k = 0 THEN [heads |-> h, out |-> <<>>] ELSE TakeSmallest(after[k - 1])

LEMMA FilledSolved ==
    ASSUME Readable, NEW S \in SUBSET DOMAIN chunks, NEW h \in [S -> Nat],
           \A c \in S : h[c] <= SizeOf(chunks)[c], NEW n \in Nat
    PROVE  \E after : /\ \A k \in 0 .. n : after[k] = FillAt(h, after, k)
                      /\ Filled(h, n) = after[n]
<1>0. [heads |-> h, out |-> <<>>] \in Fills(S)
  BY EmptySeq DEF Fills
<1>1. PICK D, V, r : D = 0 .. n /\ V = Fills(S) /\ r = [k \in 0 .. n |-> k]
  OBVIOUS
<1>2. PICK B : B = [q \in D \X [D -> V] |-> FillAt(h, q[2], q[1])]
  OBVIOUS
<1>3. r \in [D -> Nat] /\ V # {}
  BY <1>0, <1>1
<1>4. \A x \in D, g \in [D -> V] : B[<<x, g>>] = FillAt(h, g, x)
  BY <1>2
<1>5. B \in [D \X [D -> V] -> V]
  <2>1. ASSUME NEW x \in D, NEW g \in [D -> V] PROVE FillAt(h, g, x) \in V
    <3>1. CASE x = 0
      BY <1>0, <1>1, <3>1 DEF FillAt
    <3>2. CASE x # 0
      <4>1. x - 1 \in D
        BY <1>1, <3>2
      <4>2. g[x - 1] \in Fills(S)
        BY <1>1, <4>1
      <4>3. TakeSmallest(g[x - 1]) \in Fills(S)
        BY <4>2, TakeSmallestFills
      <4> QED
        BY <1>1, <3>2, <4>3 DEF FillAt
    <3> QED
      BY <3>1, <3>2
  <2> QED
    BY <1>2, <2>1
<1>6. Descends(D, V, r, B)
  <2>1. SUFFICES ASSUME NEW x \in D, NEW f \in [D -> V], NEW g \in [D -> V],
                        \A y \in D : r[y] < r[x] => f[y] = g[y]
                 PROVE  B[<<x, f>>] = B[<<x, g>>]
    BY DEF Descends
  <2>2. x # 0 => f[x - 1] = g[x - 1]
    BY <1>1, <2>1
  <2>3. FillAt(h, f, x) = FillAt(h, g, x)
    BY <2>2 DEF FillAt
  <2> QED
    BY <1>4, <2>3
<1>7. PICK f : Solves(D, V, B, f)
  <2>1. IsRecursion(D, V, r, B)
    BY <1>3, <1>5, <1>6 DEF IsRecursion
  <2> QED
    BY <2>1, RankedRecursion
<1>8. f = [k \in 0 .. n |-> FillAt(h, f, k)]
  BY <1>1, <1>4, <1>7 DEF Solves
<1>9. PICK after : after = [k \in 0 .. n |-> FillAt(h, after, k)] /\ Filled(h, n) = after[n]
  BY <1>8 DEF Filled, FillAt
<1> QED
  BY <1>9

\* What a fill of n entries takes from the chunks is what it puts into the buffer.
LEMMA FilledRight ==
    ASSUME Readable, NEW S \in SUBSET DOMAIN chunks, NEW h \in [S -> Nat],
           \A c \in S : h[c] <= SizeOf(chunks)[c], NEW n \in Nat, NEW f, f = Filled(h, n)
    PROVE  /\ f \in Fills(S)
           /\ Len(f.out) + Total(S, RestOf(f.heads)) = Total(S, RestOf(h))
           /\ n # 0 /\ Left(h) # {} => f.out # <<>>
<1>1. PICK after : (\A k \in 0 .. n : after[k] = FillAt(h, after, k)) /\ f = after[n]
  BY FilledSolved
<1> DEFINE Right(k) == /\ after[k] \in Fills(S)
                       /\ Len(after[k].out) + Total(S, RestOf(after[k].heads)) = Total(S, RestOf(h))
                       /\ k # 0 /\ Left(h) # {} => Len(after[k].out) # 0
           P == {k \in Nat : k <= n => Right(k)}
<1>2. after[0] = [heads |-> h, out |-> <<>>]
  BY <1>1 DEF FillAt
<1>3. Total(S, RestOf(h)) \in Nat
  BY HeadsSummable, TotalType
<1>4. 0 \in P
  <2>1. after[0] \in Fills(S)
    BY <1>2, EmptySeq DEF Fills
  <2>2. after[0].heads = h /\ after[0].out = <<>>
    BY <1>2
  <2>3. Len(after[0].out) = 0 /\ Total(S, RestOf(after[0].heads)) = Total(S, RestOf(h))
    BY <2>2
  <2> QED
    BY <1>3, <2>1, <2>3
<1>5. ASSUME NEW k \in Nat, k \in P PROVE k + 1 \in P
  <2>1. SUFFICES ASSUME k + 1 <= n PROVE Right(k + 1)
    OBVIOUS
  <2>2. Right(k)
    BY <1>5, <2>1
  <2>3. after[k + 1] = TakeSmallest(after[k])
    <3>1. k + 1 \in 0 .. n /\ k + 1 # 0 /\ (k + 1) - 1 = k
      BY <2>1
    <3> QED
      BY <1>1, <3>1 DEF FillAt
  <2>4. PICK a, b : a = after[k] /\ b = after[k + 1]
    OBVIOUS
  <2>5. a \in Fills(S) /\ b = TakeSmallest(a)
    BY <2>2, <2>3, <2>4
  <2>6. /\ b \in Fills(S) /\ Len(a.out) \in Nat /\ Len(b.out) \in Nat
        /\ Len(b.out) + Total(S, RestOf(b.heads)) = Len(a.out) + Total(S, RestOf(a.heads))
        /\ Len(b.out) >= Len(a.out) /\ (Left(a.heads) # {} => Len(b.out) = Len(a.out) + 1)
    BY <2>5, TakeSmallestFills
  <2>7. Left(h) # {} => Len(b.out) # 0
    <3>1. CASE k = 0
      <4>1. a.heads = h
        BY <1>2, <2>4, <3>1
      <4> QED
        BY <2>6, <4>1
    <3>2. CASE k # 0
      BY <2>2, <2>4, <2>6, <3>2
    <3> QED
      BY <3>1, <3>2
  <2> QED
    BY <2>2, <2>4, <2>6, <2>7
<1>6. Nat \subseteq P
  <2> HIDE DEF P
  <2> QED
    BY <1>4, <1>5, NatSteps
<1>7. Right(n)
  BY <1>6
<1> QED
  BY <1>1, <1>7

-----------------------------------------------------------------------------
(* The chunks are sorted: what is counted is what lies in the chunks       *)

LEMMA CoreReadable == CoreInv => Readable
  BY DEF CoreInv, Readable

LEMMA CfgFacts ==
    ASSUME CoreInv
    PROVE  /\ cfg.threads \in Nat /\ cfg.src \in Seq(Val) /\ cfg.src # <<>>
           /\ {ChunkSize, QueueDepth, PreSize, FlushSize, Wrap} \subseteq Nat \ {0}
  BY OomAssumption DEF CoreInv, Val

LEMMA ChunkKeeps ==
    ASSUME MInv, phase = "chunks", UNCHANGED <<phase, mergeVars>>, CoreInv', WorkersInv', CountedInv'
    PROVE  MInv'
<1>1. main.pc = "group"
  BY DEF MInv, RoundInv
<1>2. RoundInv'
  <2>1. Len(chunks') \in Nat
    <3>1. chunks' \in Seq(Nat \X Nat)
      BY DEF CoreInv, Proper
    <3> QED
      BY <3>1, SeqFacts
  <2>2. round.cbi = 1
    BY <1>1 DEF MInv, GroupInv
  <2> QED
    BY <1>1, <2>1, <2>2 DEF MInv, RoundInv, mergeVars
<1>3. GroupInv'
  <2>1. /\ queues = <<>> /\ NoWriters /\ tmp = <<>> /\ round.cbi = 1 /\ round.next = <<>>
        /\ Proper(round.next, Len(tmp)) /\ Total(DOMAIN round.next, SizeOf(round.next)) = Len(tmp)
    BY <1>1 DEF MInv, GroupInv
  <2>2. Len(data') \in Nat
    <3>1. data' \in Seq(Val)
      BY DEF CoreInv
    <3> QED
      BY <3>1, SeqFacts
  <2>3. tmp \in Seq(Val) /\ Len(tmp) = 0
    BY <2>1, EmptySeq
  <2>4. (queues' = <<>> /\ tmp' = tmp /\ round' = round) /\ NoWriters'
    BY <2>1 DEF mergeVars, NoWriters
  <2>5. Proper(round'.next, Len(tmp')) /\ Total(DOMAIN round'.next, SizeOf(round'.next)) = Len(tmp')
    BY <2>1, <2>4
  <2>6. Len(tmp') <= Len(data')
    BY <2>2, <2>3, <2>4
  <2> QED
    BY <2>1, <2>3, <2>4, <2>5, <2>6 DEF GroupInv
<1>4. main'.pc = "group"
  BY <1>1 DEF mergeVars
<1>5. NextInv' /\ QueueInv' /\ PrimeInv' /\ FlowInv' /\ LockInv' /\ RangeInv' /\ WrittenInv' /\ BaseInv'
  BY <1>4 DEF NextInv, QueueInv, PrimeInv, FlowInv, LockInv, RangeInv, WrittenInv, BaseInv, Flowing
<1>6. ChunkInv'
  BY DEF ChunkInv
<1> QED
  BY <1>2, <1>3, <1>5, <1>6 DEF MInv

\* Who is busy after one worker has moved.
LEMMA BusyMoved ==
    ASSUME WorkersInv, UNCHANGED cfg, NEW w \in Workers, NEW rec \in WorkerRec,
           NEW wake \in SUBSET Sleepers(Workers), Moved(w, rec, wake)
    PROVE  /\ Workers' = Workers /\ worker' \in [Workers -> WorkerRec] /\ worker'[w] = rec
           /\ \A x \in Workers : x # w =>
                 /\ worker'[x].pos = worker[x].pos /\ worker'[x].buf = worker[x].buf
                 /\ \/ worker'[x].pc = worker[x].pc
                    \/ worker[x].pc = "paused" /\ worker'[x].pc = "woken"
           /\ Busy' = IF rec.pc \in BusyPcs THEN Busy \cup {w} ELSE Busy \ {w}
<1>1. Workers' = Workers
  BY DEF Workers
<1>2. worker'[w] = rec
  BY DEF Moved
<1>3. ASSUME NEW x \in Workers, x # w
      PROVE  /\ worker'[x] \in WorkerRec
             /\ worker'[x].pos = worker[x].pos /\ worker'[x].buf = worker[x].buf
             /\ \/ worker'[x].pc = worker[x].pc
                \/ worker[x].pc = "paused" /\ worker'[x].pc = "woken"
  <2>1. worker[x] \in WorkerRec
    BY DEF WorkersInv
  <2>2. CASE x \in wake
    <3>1. worker'[x] = [worker[x] EXCEPT !.pc = "woken"] /\ worker[x].pc = "paused"
      BY <1>3, <2>2 DEF Moved, Sleepers
    <3> QED
      BY <2>1, <3>1 DEF WorkerRec
  <2>3. CASE x \notin wake
    <3>1. worker'[x] = worker[x]
      BY <1>3, <2>3 DEF Moved
    <3> QED
      BY <2>1, <3>1
  <2> QED
    BY <2>2, <2>3
<1>4. worker' \in [Workers -> WorkerRec]
  <2>1. \A x \in Workers : worker'[x] \in WorkerRec
    BY <1>2, <1>3
  <2>2. worker' = [x \in Workers |-> worker'[x]]
    BY DEF Moved
  <2> QED
    BY <2>1, <2>2
<1>5. \A x \in Workers : x # w => (worker'[x].pc \in BusyPcs <=> worker[x].pc \in BusyPcs)
  BY <1>3 DEF BusyPcs
<1>6. Busy' = IF rec.pc \in BusyPcs THEN Busy \cup {w} ELSE Busy \ {w}
  BY <1>1, <1>2, <1>5 DEF Busy
<1> QED
  BY <1>1, <1>2, <1>3, <1>4, <1>6

\* A worker that keeps its chunk, or has none before and after.
LEMMA SameChunk ==
    ASSUME CoreInv, WorkersInv, CountedInv, UNCHANGED <<cfg, chunks, resultSize, offset>>,
           NEW w \in Workers, NEW rec \in WorkerRec, NEW wake \in SUBSET Sleepers(Workers),
           Moved(w, rec, wake),
           rec.pc \in BusyPcs <=> worker[w].pc \in BusyPcs,
           rec.pc \in BusyPcs => rec.pos = worker[w].pos,
           rec.pc = "flush" => rec.pos \in DOMAIN chunks,
           rec.pc \in {"fetched", "sorted"} =>
              rec.buf # <<>> /\ Len(rec.buf) <= SizeOf(chunks)[rec.pos]
    PROVE  WorkersInv' /\ CountedInv'
<1>1. /\ Workers' = Workers /\ worker' \in [Workers -> WorkerRec] /\ worker'[w] = rec
      /\ \A x \in Workers : x # w =>
            /\ worker'[x].pos = worker[x].pos /\ worker'[x].buf = worker[x].buf
            /\ \/ worker'[x].pc = worker[x].pc
               \/ worker[x].pc = "paused" /\ worker'[x].pc = "woken"
      /\ Busy' = IF rec.pc \in BusyPcs THEN Busy \cup {w} ELSE Busy \ {w}
  BY BusyMoved
<1>2. Busy' = Busy
  BY <1>1 DEF Busy
<1>3. \A x \in Busy : x \in Workers /\ worker'[x].pos = worker[x].pos
  BY <1>1, <1>2 DEF Busy
<1>4. Open' = Open
  BY <1>2, <1>3 DEF Open
<1>5. ASSUME NEW x \in Workers, x \in Busy \/ worker'[x].pc = "flush"
      PROVE  worker'[x].pos \in DOMAIN chunks
  <2>1. CASE x \in Busy
    BY <1>3, <2>1 DEF WorkersInv
  <2>2. CASE x = w /\ rec.pc = "flush"
    BY <1>1, <2>2
  <2>3. CASE x # w /\ worker'[x].pc = "flush"
    BY <1>1, <2>3 DEF WorkersInv
  <2> QED
    BY <1>1, <1>5, <2>1, <2>2, <2>3
<1>6. ASSUME NEW x \in Busy, worker'[x].pc # "fetch"
      PROVE  worker'[x].buf # <<>> /\ Len(worker'[x].buf) <= SizeOf(chunks)[worker'[x].pos]
  <2>1. CASE x = w
    <3>1. rec.pc \in BusyPcs
      BY <1>1, <1>2, <2>1 DEF Busy
    <3> QED
      BY <1>1, <1>6, <2>1, <3>1 DEF BusyPcs
  <2>2. CASE x # w
    <3>1. worker[x].pc # "fetch" /\ worker'[x].buf = worker[x].buf
      BY <1>1, <1>3, <1>6, <2>2
    <3> QED
      BY <1>3, <3>1 DEF WorkersInv
  <2> QED
    BY <2>1, <2>2
<1>7. WorkersInv'
  <2>1. \A u, v \in Busy : u # v => worker'[u].pos # worker'[v].pos
    BY <1>3 DEF WorkersInv
  <2>2. chunks' = chunks
    OBVIOUS
  <2> QED
    BY <1>1, <1>2, <1>5, <1>6, <2>1, <2>2 DEF WorkersInv
<1>8. CountedInv'
  BY <1>4 DEF CountedInv
<1> QED
  BY <1>7, <1>8

\* Steps of a worker that leave chunks, counters and the array alone.
LEMMA QuietChunkStep ==
    ASSUME MInv, phase = "chunks", NEW w \in Workers,
           Exit(w) \/ Fetch(w) \/ Sort(w) \/ Pause(w) \/ Wake(w)
    PROVE  MInv'
<1>1. CoreInv /\ WorkersInv /\ CountedInv /\ worker[w] \in WorkerRec
  BY DEF MInv, ChunkInv, WorkersInv
<1>2. /\ UNCHANGED <<cfg, phase, data, offset, chunks, resultSize, mergeVars>>
  BY DEF Exit, Fetch, Sort, Pause, Wake
<1>3. CoreInv'
  BY <1>1, <1>2 DEF CoreInv
<1>4. {} \in SUBSET Sleepers(Workers) /\ Sleepers(Workers) \in SUBSET Sleepers(Workers)
  OBVIOUS
<1>5. ASSUME NEW p \in {"begin", "paused", "exit"} PROVE Went(w, p) \in WorkerRec /\ Went(w, p).pc = p
  BY <1>1 DEF Went, WorkerRec
<1>6. SUFFICES WorkersInv' /\ CountedInv'
  BY <1>2, <1>3, ChunkKeeps
<1>7. ASSUME NEW p \in {"begin", "paused", "exit"}, NEW wake \in SUBSET Sleepers(Workers),
             Moved(w, Went(w, p), wake), worker[w].pc \notin BusyPcs
      PROVE  WorkersInv' /\ CountedInv'
  <2>1. PICK rec \in WorkerRec : rec = Went(w, p) /\ rec.pc = p
    BY <1>5
  <2>2. Moved(w, rec, wake) /\ rec.pc \notin BusyPcs /\ rec.pc \notin {"flush", "fetched", "sorted"}
    BY <1>7, <2>1 DEF BusyPcs
  <2> QED
    BY <1>1, <1>2, <1>7, <2>1, <2>2, SameChunk
<1>8. CASE Exit(w)
  BY <1>4, <1>7, <1>8 DEF Exit, BusyPcs
<1>9. CASE Pause(w)
  BY <1>4, <1>7, <1>9 DEF Pause, BusyPcs
<1>10. CASE Wake(w)
  BY <1>4, <1>7, <1>10 DEF Wake, BusyPcs
<1>11. CASE Fetch(w)
  <2> DEFINE c == chunks[worker[w].pos]
             b == SubSeq(data, c[1] + 1, c[2])
  <2>1. worker[w].pc = "fetch" /\ Moved(w, [Went(w, "fetched") EXCEPT !.buf = b], {})
    BY <1>11 DEF Fetch
  <2>2. worker[w].pos \in DOMAIN chunks
    BY <1>1, <2>1 DEF WorkersInv, Busy, BusyPcs
  <2>3. /\ c[1] \in Nat /\ c[2] \in Nat /\ c[1] < c[2] /\ c[2] <= Len(data) /\ Len(data) \in Nat
        /\ SizeOf(chunks)[worker[w].pos] = c[2] - c[1]
    BY <1>1, <2>2, CoreReadable, ChunkFacts
  <2>4. b \in Seq(Val) /\ Len(b) = c[2] - c[1] /\ b # <<>>
    <3>1. data \in Seq(Val)
      BY <1>1 DEF CoreInv
    <3>2. PICK from \in Nat, to \in Nat : from = c[1] /\ to = c[2]
      BY <2>3
    <3>3. from <= to /\ to <= Len(data) /\ b = SubSeq(data, from + 1, to)
      BY <2>3, <3>2
    <3>4. from < to
      BY <2>3, <3>2
    <3> HIDE DEF b, c
    <3>5. b \in Seq(Val) /\ Len(b) = to - from /\ b # <<>>
      BY ONLY <3>1, <3>3, <3>4, from \in Nat, to \in Nat, PartSeq
    <3> QED
      BY <3>2, <3>5
  <2> HIDE DEF b
  <2>5. PICK rec : rec = [Went(w, "fetched") EXCEPT !.buf = b]
    OBVIOUS
  <2>6. rec \in WorkerRec /\ rec.pc = "fetched" /\ rec.pos = worker[w].pos /\ rec.buf = b
    BY <1>1, <2>4, <2>5 DEF Went, WorkerRec
  <2>7. Moved(w, rec, {})
    BY <2>1, <2>5
  <2>8. rec.buf # <<>> /\ Len(rec.buf) <= SizeOf(chunks)[rec.pos]
    BY <2>3, <2>4, <2>6
  <2>9. rec.pc \in BusyPcs /\ worker[w].pc \in BusyPcs /\ rec.pc # "flush"
    BY <2>1, <2>6 DEF BusyPcs
  <2> QED
    BY <1>1, <1>2, <1>4, <2>6, <2>7, <2>8, <2>9, SameChunk
<1>12. CASE Sort(w)
  <2>1. PICK wake \in SUBSET Sleepers(Workers) :
            Moved(w, [Went(w, "sorted") EXCEPT !.buf = Ordered(@)], wake)
    BY <1>12 DEF Sort
  <2>2. worker[w].pc = "fetched"
    BY <1>12 DEF Sort
  <2>3. w \in Busy
    BY <2>2 DEF Busy, BusyPcs
  <2>4. worker[w].buf # <<>> /\ Len(worker[w].buf) <= SizeOf(chunks)[worker[w].pos] /\ worker[w].pos \in DOMAIN chunks
    BY <1>1, <2>2, <2>3 DEF WorkersInv
  <2>5. PICK b : b = Ordered(worker[w].buf)
    OBVIOUS
  <2>6. worker[w].buf \in Seq(Val)
    BY <1>1 DEF WorkerRec
  <2>7. b \in Seq(Val) /\ b # <<>> /\ Len(b) <= Len(worker[w].buf) /\ Len(b) \in Nat
    BY <2>4, <2>5, <2>6, OrderedSeq
  <2>8. Len(b) <= SizeOf(chunks)[worker[w].pos]
    BY <1>1, <2>4, <2>6, <2>7, CoreReadable, ChunkFacts, SeqFacts
  <2>9. PICK rec : rec = [Went(w, "sorted") EXCEPT !.buf = Ordered(@)]
    OBVIOUS
  <2>10. Went(w, "sorted").buf = worker[w].buf
    BY <1>1 DEF Went, WorkerRec
  <2>11. rec = [Went(w, "sorted") EXCEPT !.buf = b]
    BY <2>5, <2>9, <2>10
  <2>12. rec \in WorkerRec /\ rec.pc = "sorted" /\ rec.pos = worker[w].pos /\ rec.buf = b
    BY <1>1, <2>7, <2>11 DEF Went, WorkerRec
  <2>13. Moved(w, rec, wake)
    BY <2>1, <2>9
  <2>14. rec.buf # <<>> /\ Len(rec.buf) <= SizeOf(chunks)[rec.pos]
    BY <2>7, <2>8, <2>12
  <2>15. rec.pc \in BusyPcs /\ worker[w].pc \in BusyPcs /\ rec.pc # "flush"
    BY <2>2, <2>12 DEF BusyPcs
  <2> QED
    BY <1>1, <1>2, <2>12, <2>13, <2>14, <2>15, SameChunk
<1> QED
  BY <1>8, <1>9, <1>10, <1>11, <1>12

LEMMA WroteBackCore ==
    ASSUME CoreInv, WorkersInv, NEW w \in Workers, worker[w].pos \in DOMAIN chunks, WroteBack(w)
    PROVE  data' \in Seq(Val) /\ Len(data') = Len(data)
<1>1. worker[w].buf \in Seq(Val) /\ data \in Seq(Val)
  BY DEF CoreInv, WorkersInv, WorkerRec
<1>2. chunks[worker[w].pos][1] \in Nat
  BY CoreReadable, ChunkFacts
<1> QED
  BY <1>1, <1>2, ReplacedSeq DEF WroteBack

LEMMA FlushUnlockedCounts ==
    ASSUME MInv, phase = "chunks", NEW w \in Workers, FlushUnlocked(w)
    PROVE  MInv'
<1>1. CoreInv /\ WorkersInv /\ CountedInv
  BY DEF MInv, ChunkInv
<1>2. /\ UNCHANGED <<cfg, phase, offset, chunks, resultSize, mergeVars>> /\ worker[w].pc = "flush"
      /\ WroteBack(w) /\ Moved(w, Fresh("flushed"), {})
  BY DEF FlushUnlocked
<1>3. data' \in Seq(Val) /\ Len(data') = Len(data)
  BY <1>1, <1>2, WroteBackCore DEF WorkersInv
<1>4. CoreInv'
  BY <1>1, <1>2, <1>3 DEF CoreInv
<1>5. PICK rec : rec = Fresh("flushed")
  OBVIOUS
<1>6. rec \in WorkerRec /\ rec.pc = "flushed"
  BY <1>5, EmptySeq DEF Fresh, WorkerRec
<1>7. Moved(w, rec, {}) /\ {} \in SUBSET Sleepers(Workers)
  BY <1>2, <1>5
<1>8. rec.pc \notin BusyPcs /\ worker[w].pc \notin BusyPcs /\ rec.pc \notin {"flush", "fetched", "sorted"}
  BY <1>2, <1>6 DEF BusyPcs
<1>9. WorkersInv' /\ CountedInv'
  BY <1>1, <1>2, <1>6, <1>7, <1>8, SameChunk
<1> QED
  BY <1>2, <1>4, <1>9, ChunkKeeps

\* One more chunk.
IsChunks(cs) == cs \in Seq(Nat \X Nat) /\ \A c \in DOMAIN cs : cs[c][1] <= cs[c][2]
Grown(cs, ds, a, b) ==
    /\ ds \in Seq(Nat \X Nat) /\ Len(ds) = Len(cs) + 1 /\ Len(cs) \in Nat
    /\ DOMAIN cs = 1 .. Len(cs) /\ DOMAIN ds = DOMAIN cs \cup {Len(cs) + 1}
    /\ ds[Len(cs) + 1] = <<a, b>> /\ \A c \in DOMAIN cs : ds[c] = cs[c]
    /\ SizeOf(ds)[Len(cs) + 1] = b - a /\ \A c \in DOMAIN cs : SizeOf(ds)[c] = SizeOf(cs)[c]
    /\ Summable(DOMAIN cs, SizeOf(cs))
    /\ Total(DOMAIN ds, SizeOf(ds)) = Total(DOMAIN cs, SizeOf(cs)) + (b - a)
LEMMA AppendSizes ==
    ASSUME NEW cs, IsChunks(cs), NEW a \in Nat, NEW b \in Nat, a <= b, NEW ds, ds = Append(cs, <<a, b>>)
    PROVE  Grown(cs, ds, a, b)
<1>0. cs \in Seq(Nat \X Nat) /\ \A c \in DOMAIN cs : cs[c][1] <= cs[c][2]
  BY DEF IsChunks
<1>1. Len(cs) \in Nat /\ DOMAIN cs = 1 .. Len(cs) /\ IsFiniteSet(DOMAIN cs)
  BY <1>0, SeqFacts
<1>2. <<a, b>> \in Nat \X Nat
  OBVIOUS
<1>3. ds \in Seq(Nat \X Nat) /\ Len(ds) = Len(cs) + 1
  BY <1>0, <1>2
<1>4. DOMAIN ds = 1 .. Len(cs) + 1
  BY <1>3
<1>5. DOMAIN ds = DOMAIN cs \cup {Len(cs) + 1} /\ Len(cs) + 1 \notin DOMAIN cs
  BY <1>1, <1>4
<1>6. ds[Len(cs) + 1] = <<a, b>> /\ \A c \in DOMAIN cs : ds[c] = cs[c]
  BY <1>0, <1>1, <1>2
<1>7. SizeOf(ds)[Len(cs) + 1] = b - a /\ \A c \in DOMAIN cs : SizeOf(ds)[c] = SizeOf(cs)[c]
  BY <1>5, <1>6 DEF SizeOf
<1>8. \A c \in DOMAIN cs : SizeOf(cs)[c] \in Nat
  <2>1. \A c \in DOMAIN cs : cs[c] \in Nat \X Nat
    BY <1>0, <1>1, SeqFacts
  <2> QED
    BY <1>0, <2>1 DEF SizeOf
<1>9. Summable(DOMAIN cs, SizeOf(cs)) /\ Summable(DOMAIN cs, SizeOf(ds))
  BY <1>1, <1>7, <1>8 DEF Summable
<1>10. Total(DOMAIN ds, SizeOf(ds)) = Total(DOMAIN cs, SizeOf(cs)) + (b - a)
  <2>1. PICK x, C, f, g : x = Len(cs) + 1 /\ C = DOMAIN cs /\ f = SizeOf(cs) /\ g = SizeOf(ds)
    OBVIOUS
  <2>2. Summable(C, g) /\ g[x] = b - a /\ g[x] \in Nat /\ x \notin C /\ DOMAIN ds = C \cup {x}
    BY <1>5, <1>7, <1>9, <2>1
  <2>3. Total(C, g) = Total(C, f)
    <3>1. \A c \in C : g[c] = f[c]
      BY <1>7, <2>1
    <3> QED
      BY <3>1, TotalSame
  <2>4. PICK E : E = DOMAIN ds
    OBVIOUS
  <2>5. x \in E /\ E \ {x} = C
    BY <2>2, <2>4
  <2>6. IsFiniteSet(E)
    BY <2>2, <2>4, FS_AddElement DEF Summable
  <2>7. Summable(E, g)
    BY <2>2, <2>4, <2>6 DEF Summable
  <2>8. Total(E, g) = Total(E \ {x}, g) + g[x]
    BY ONLY <2>5, <2>7, TotalSplit
  <2>9. Total(E, g) = Total(C, f) + (b - a)
    BY ONLY <2>2, <2>3, <2>5, <2>8
  <2> QED
    BY ONLY <2>1, <2>4, <2>9
<1> QED
  BY <1>1, <1>3, <1>5, <1>6, <1>7, <1>9, <1>10 DEF Grown

LEMMA ClaimCounts ==
    ASSUME MInv, phase = "chunks", NEW w \in Workers, Claim(w)
    PROVE  MInv'
<1>1. CoreInv /\ WorkersInv /\ CountedInv /\ worker[w] \in WorkerRec /\ data \in Seq(Val)
  BY DEF MInv, ChunkInv, WorkersInv, CoreInv
<1> DEFINE n == NextChunk
           last == Len(chunks) + 1
           D == DOMAIN chunks
<1>2. /\ UNCHANGED <<cfg, phase, data, resultSize, mergeVars>>
      /\ worker[w].pc = "begin" /\ ~Exhausted
      /\ chunks' = Append(chunks, <<offset, offset + n>>) /\ offset' = offset + n
      /\ Moved(w, IF cfg.fetchLock THEN Fetched(w, offset, n)
                  ELSE [Went(w, "fetch") EXCEPT !.pos = last], {})
  BY DEF Claim
<1>3. /\ offset \in Nat /\ Len(data) \in Nat /\ n \in Nat /\ n > 0 /\ offset + n <= Len(data)
      /\ offset + n \in Nat
  <2>1. offset \in Nat /\ Len(data) \in Nat /\ offset < Len(data) /\ ChunkSize \in Nat \ {0}
    BY <1>1, <1>2, SeqFacts, OomAssumption DEF CoreInv, Exhausted
  <2> QED
    BY <2>1 DEF NextChunk
<1>4. /\ chunks \in Seq(Nat \X Nat) /\ \A c \in D : chunks[c][1] <= chunks[c][2] /\ chunks[c][2] <= Len(data)
      /\ \A c \in D : chunks[c][1] < chunks[c][2]
  <2>1. chunks \in Seq(Nat \X Nat)
    BY <1>1 DEF CoreInv, Proper
  <2> QED
    BY <1>1, <2>1, CoreReadable, ChunkFacts
<1> HIDE DEF n
<1>5. PICK b \in Nat : b = offset + n /\ offset <= b
  BY <1>3
<1>6. /\ chunks' \in Seq(Nat \X Nat) /\ Len(chunks') = Len(chunks) + 1 /\ Len(chunks) \in Nat
      /\ D = 1 .. Len(chunks) /\ DOMAIN chunks' = D \cup {last}
      /\ chunks'[last] = <<offset, b>> /\ \A c \in D : chunks'[c] = chunks[c]
      /\ SizeOf(chunks')[last] = b - offset /\ \A c \in D : SizeOf(chunks')[c] = SizeOf(chunks)[c]
      /\ Summable(D, SizeOf(chunks))
      /\ Total(DOMAIN chunks', SizeOf(chunks')) = Total(D, SizeOf(chunks)) + (b - offset)
  <2>1. chunks' = Append(chunks, <<offset, b>>)
    BY <1>2, <1>5
  <2>2. IsChunks(chunks) /\ offset \in Nat /\ offset <= b
    BY <1>3, <1>4, <1>5 DEF IsChunks
  <2>3. Grown(chunks, chunks', offset, b)
    BY ONLY <2>1, <2>2, b \in Nat, AppendSizes
  <2> QED
    BY <2>3 DEF Grown
<1>7. last \in Nat /\ last \notin D
  BY <1>6
<1> HIDE DEF last
<1>8. Proper(chunks', Len(data'))
  <2>1. ASSUME NEW c \in DOMAIN chunks' PROVE chunks'[c][1] < chunks'[c][2] /\ chunks'[c][2] <= Len(data)
    <3>1. CASE c = last
      BY <1>3, <1>5, <1>6, <3>1
    <3>2. CASE c \in D
      BY <1>4, <1>6, <3>2
    <3> QED
      BY <1>6, <3>1, <3>2
  <2> QED
    BY <1>2, <1>6, <2>1 DEF Proper
<1>9. CoreInv'
  <2>1. offset' \in 0 .. Len(data')
    BY <1>2, <1>3
  <2> QED
    BY <1>1, <1>2, <1>8, <2>1 DEF CoreInv
<1>10. PICK rec \in WorkerRec : /\ Moved(w, rec, {}) /\ rec.pos = last /\ rec.pc \in {"fetch", "fetched"}
                                /\ rec.pc = "fetched" => rec.buf # <<>> /\ Len(rec.buf) = n
  <2>1. CASE cfg.fetchLock
    <3>1. PICK buf : buf = SubSeq(data, offset + 1, offset + n)
      OBVIOUS
    <3>2. buf \in Seq(Val) /\ buf # <<>> /\ Len(buf) = n
      <4>1. buf = SubSeq(data, offset + 1, b) /\ offset < b /\ b <= Len(data) /\ b - offset = n
        BY <1>3, <1>5, <3>1
      <4>2. buf \in Seq(Val) /\ buf # <<>> /\ Len(buf) = b - offset
        <5>1. data \in Seq(Val) /\ offset \in Nat /\ offset <= b
          BY <1>1, <1>3, <1>5
        <5> QED
          BY ONLY <4>1, <5>1, b \in Nat, PartSeq
      <4> QED
        BY <4>1, <4>2
    <3>3. Fetched(w, offset, n) = [worker[w] EXCEPT !.pc = "fetched", !.pos = last, !.buf = buf]
      BY <3>1 DEF Fetched, last
    <3>4. PICK rec : rec = [worker[w] EXCEPT !.pc = "fetched", !.pos = last, !.buf = buf]
      OBVIOUS
    <3>5. rec \in WorkerRec /\ rec.pos = last /\ rec.pc = "fetched" /\ rec.buf = buf
      BY <1>1, <1>7, <3>2, <3>4 DEF WorkerRec
    <3>6. Moved(w, rec, {})
      BY <1>2, <2>1, <3>3, <3>4
    <3> QED
      BY <3>2, <3>5, <3>6
  <2>2. CASE ~cfg.fetchLock
    <3>1. PICK rec : rec = [Went(w, "fetch") EXCEPT !.pos = last]
      OBVIOUS
    <3>2. rec \in WorkerRec /\ rec.pos = last /\ rec.pc = "fetch"
      BY <1>1, <1>7, <3>1 DEF WorkerRec, Went
    <3>3. Moved(w, rec, {})
      BY <1>2, <2>2, <3>1
    <3> QED
      BY <3>2, <3>3
  <2> QED
    BY <2>1, <2>2
<1>11. /\ Workers' = Workers /\ worker' \in [Workers -> WorkerRec] /\ worker'[w] = rec
       /\ \A x \in Workers : x # w =>
             /\ worker'[x].pos = worker[x].pos /\ worker'[x].buf = worker[x].buf
             /\ \/ worker'[x].pc = worker[x].pc
                \/ worker[x].pc = "paused" /\ worker'[x].pc = "woken"
       /\ Busy' = IF rec.pc \in BusyPcs THEN Busy \cup {w} ELSE Busy \ {w}
  BY <1>1, <1>2, <1>10, BusyMoved
<1>12. Busy' = Busy \cup {w} /\ w \notin Busy /\ \A x \in Busy : x \in Workers /\ x # w
  BY <1>2, <1>10, <1>11 DEF Busy, BusyPcs
<1>13. Open' = Open \cup {last} /\ Open \subseteq D
  <2>1. \A x \in Busy : worker'[x].pos = worker[x].pos /\ worker[x].pos \in D
    BY <1>1, <1>11, <1>12 DEF WorkersInv
  <2> QED
    BY <1>10, <1>11, <1>12, <2>1 DEF Open
<1>14. WorkersInv'
  <2>1. ASSUME NEW x \in Workers, x \in Busy' \/ worker'[x].pc = "flush" PROVE worker'[x].pos \in DOMAIN chunks'
    <3>1. CASE x = w
      BY <1>6, <1>10, <1>11, <3>1
    <3>2. CASE x # w
      <4>1. x \in Busy \/ worker[x].pc = "flush"
        BY <1>11, <1>12, <2>1, <3>2
      <4>2. worker[x].pos \in D /\ worker'[x].pos = worker[x].pos
        BY <1>1, <1>11, <3>2, <4>1 DEF WorkersInv
      <4> QED
        BY <1>6, <4>2
    <3> QED
      BY <3>1, <3>2
  <2>2. ASSUME NEW u \in Busy', NEW v \in Busy', u # v PROVE worker'[u].pos # worker'[v].pos
    <3>1. \A x \in Busy : worker'[x].pos = worker[x].pos /\ worker[x].pos \in D
      BY <1>1, <1>11, <1>12 DEF WorkersInv
    <3>2. worker'[w].pos \notin D
      BY <1>7, <1>10, <1>11
    <3> QED
      BY <1>1, <1>12, <2>2, <3>1, <3>2 DEF WorkersInv
  <2>3. ASSUME NEW x \in Busy', worker'[x].pc # "fetch"
        PROVE  worker'[x].buf # <<>> /\ Len(worker'[x].buf) <= SizeOf(chunks')[worker'[x].pos]
    <3>1. CASE x = w
      BY <1>3, <1>5, <1>6, <1>10, <1>11, <2>3, <3>1
    <3>2. CASE x # w
      <4>1. x \in Busy /\ worker[x].pc # "fetch" /\ worker'[x].pos = worker[x].pos /\ worker'[x].buf = worker[x].buf
        BY <1>11, <1>12, <2>3, <3>2
      <4>2. worker[x].pos \in D /\ worker[x].buf # <<>> /\ Len(worker[x].buf) <= SizeOf(chunks)[worker[x].pos]
        BY <1>1, <1>12, <4>1 DEF WorkersInv
      <4> QED
        BY <1>6, <4>1, <4>2
    <3> QED
      BY <3>1, <3>2
  <2> QED
    BY <1>11, <2>1, <2>2, <2>3 DEF WorkersInv
<1>15. CountedInv'
  <2>1. DOMAIN chunks' \ Open' = D \ Open
    BY <1>6, <1>7, <1>13
  <2>2. Total(D \ Open, SizeOf(chunks')) = Total(D \ Open, SizeOf(chunks))
    <3>1. \A c \in D \ Open : SizeOf(chunks')[c] = SizeOf(chunks)[c]
      BY <1>6
    <3> QED
      BY <3>1, TotalSame
  <2>3. Total(DOMAIN chunks' \ Open', SizeOf(chunks')) = resultSize'
    <3>1. Total(D \ Open, SizeOf(chunks)) = resultSize
      BY <1>1 DEF CountedInv
    <3> QED
      BY <1>2, <2>1, <2>2, <3>1
  <2>4. Total(DOMAIN chunks', SizeOf(chunks')) <= offset'
    <3>1. Total(D, SizeOf(chunks)) <= offset /\ Total(D, SizeOf(chunks)) \in Nat
      BY <1>1, <1>6, TotalType DEF CountedInv
    <3>2. PICK t \in Nat : t = Total(D, SizeOf(chunks))
      BY <3>1
    <3>3. Total(DOMAIN chunks', SizeOf(chunks')) = t + (b - offset) /\ t <= offset /\ offset' = b
      BY <1>2, <1>5, <1>6, <3>1, <3>2
    <3>4. t + (b - offset) <= b
      BY <1>3, <3>3
    <3> QED
      BY ONLY <3>3, <3>4
  <2> QED
    BY <2>3, <2>4 DEF CountedInv
<1> QED
  BY <1>2, <1>9, <1>14, <1>15, ChunkKeeps

LEMMA FlushCounts ==
    ASSUME MInv, phase = "chunks", NEW w \in Workers, Flush(w)
    PROVE  MInv'
<1>1. /\ CoreInv /\ WorkersInv /\ CountedInv /\ worker[w] \in WorkerRec /\ data \in Seq(Val)
      /\ chunks \in Seq(Nat \X Nat)
  BY DEF MInv, ChunkInv, WorkersInv, CoreInv, Proper
<1> DEFINE pos == worker[w].pos
           buf == worker[w].buf
           D == DOMAIN chunks
<1>2. /\ UNCHANGED <<cfg, phase, offset, mergeVars>> /\ worker[w].pc = "sorted"
      /\ chunks' = [chunks EXCEPT ![pos][2] = chunks[pos][1] + Len(buf)]
      /\ resultSize' = resultSize + Len(buf)
      /\ \/ WroteBack(w) /\ Moved(w, Fresh("flushed"), {})
         \/ data' = data /\ Moved(w, Went(w, "flush"), {})
  BY DEF Flush, Counted
<1>3. w \in Busy
  BY <1>2 DEF Busy, BusyPcs
<1>4. pos \in D /\ buf \in Seq(Val) /\ buf # <<>> /\ Len(buf) <= SizeOf(chunks)[pos]
  BY <1>1, <1>2, <1>3 DEF WorkersInv, WorkerRec
<1>5. Len(buf) \in Nat \ {0}
  BY <1>4, EmptySeq
<1>6. /\ Len(chunks) \in Nat /\ D = 1 .. Len(chunks) /\ Len(data) \in Nat /\ Summable(D, SizeOf(chunks))
      /\ \A c \in D :
            /\ chunks[c][1] \in Nat /\ chunks[c][2] \in Nat /\ chunks[c][1] < chunks[c][2]
            /\ chunks[c][2] <= Len(data)
            /\ SizeOf(chunks)[c] = chunks[c][2] - chunks[c][1] /\ SizeOf(chunks)[c] \in Nat \ {0}
  BY <1>1, CoreReadable, ChunkFacts
<1>7. data' \in Seq(Val) /\ Len(data') = Len(data)
  BY <1>1, <1>2, <1>4, WroteBackCore
<1> HIDE DEF pos, buf
<1>8. PICK a \in Nat, n \in Nat \ {0} : a = chunks[pos][1] /\ n = Len(buf)
  BY <1>4, <1>5, <1>6
<1>9. chunks'[pos] = <<a, a + n>> /\ DOMAIN chunks' = D /\ \A c \in D : c # pos => chunks'[c] = chunks[c]
  <2>1. chunks[pos] \in Nat \X Nat
    BY <1>1, <1>4
  <2>2. [chunks[pos] EXCEPT ![2] = a + n] = <<a, a + n>>
    BY <1>8, <2>1
  <2>3. chunks' = [chunks EXCEPT ![pos] = [chunks[pos] EXCEPT ![2] = a + n]]
    BY <1>2, <1>8
  <2> QED
    BY <1>4, <2>2, <2>3
<1>10. chunks' \in Seq(Nat \X Nat)
  <2>1. \A c \in D : chunks'[c] \in Nat \X Nat
    <3>1. \A c \in D : chunks[c] \in Nat \X Nat
      BY <1>1
    <3>2. <<a, a + n>> \in Nat \X Nat
      OBVIOUS
    <3> QED
      BY <1>9, <3>1, <3>2
  <2>2. chunks' = [c \in 1 .. Len(chunks) |-> chunks'[c]]
    BY <1>2, <1>6
  <2>3. chunks' \in [1 .. Len(chunks) -> Nat \X Nat]
    BY <1>6, <2>1, <2>2
  <2> QED
    BY <1>6, <2>3, ArraySeq
<1>11. a + n <= chunks[pos][2]
  BY <1>4, <1>6, <1>8
<1>12. Proper(chunks', Len(data'))
  <2>1. ASSUME NEW c \in D PROVE chunks'[c][1] < chunks'[c][2] /\ chunks'[c][2] <= Len(data)
    <3>1. CASE c = pos
      BY <1>4, <1>6, <1>8, <1>9, <1>11, <3>1
    <3>2. CASE c # pos
      BY <1>6, <1>9, <3>2
    <3> QED
      BY <3>1, <3>2
  <2> QED
    BY <1>7, <1>9, <1>10, <2>1 DEF Proper
<1>13. SizeOf(chunks')[pos] = n /\ \A c \in D : c # pos => SizeOf(chunks')[c] = SizeOf(chunks)[c]
  BY <1>4, <1>8, <1>9 DEF SizeOf
<1>14. PICK rec \in WorkerRec : /\ Moved(w, rec, {}) /\ rec.pc \in {"flush", "flushed"}
                                /\ rec.pc = "flush" => rec.pos = pos
  <2>1. CASE Moved(w, Fresh("flushed"), {})
    <3>1. PICK rec : rec = Fresh("flushed")
      OBVIOUS
    <3>2. rec \in WorkerRec /\ rec.pc = "flushed"
      BY <3>1, EmptySeq DEF Fresh, WorkerRec
    <3> QED
      BY <2>1, <3>1, <3>2
  <2>2. CASE Moved(w, Went(w, "flush"), {})
    <3>1. PICK rec : rec = Went(w, "flush")
      OBVIOUS
    <3>2. rec \in WorkerRec /\ rec.pc = "flush" /\ rec.pos = pos
      BY <1>1, <3>1 DEF Went, WorkerRec, pos
    <3> QED
      BY <2>2, <3>1, <3>2
  <2> QED
    BY <1>2, <2>1, <2>2
<1>15. /\ Workers' = Workers /\ worker' \in [Workers -> WorkerRec] /\ worker'[w] = rec
       /\ \A x \in Workers : x # w =>
             /\ worker'[x].pos = worker[x].pos /\ worker'[x].buf = worker[x].buf
             /\ \/ worker'[x].pc = worker[x].pc
                \/ worker[x].pc = "paused" /\ worker'[x].pc = "woken"
       /\ Busy' = IF rec.pc \in BusyPcs THEN Busy \cup {w} ELSE Busy \ {w}
  BY <1>1, <1>2, <1>14, BusyMoved
<1>16. Busy' = Busy \ {w} /\ \A x \in Busy : x \in Workers
  BY <1>14, <1>15 DEF BusyPcs, Busy
<1>17. \A x \in Busy : x # w => worker'[x].pos = worker[x].pos /\ worker[x].pos \in D /\ worker[x].pos # pos
  BY <1>1, <1>3, <1>15, <1>16 DEF WorkersInv, pos
<1>18. Open' = Open \ {pos} /\ pos \in Open
  BY <1>3, <1>16, <1>17 DEF Open, pos
<1>19. WorkersInv'
  <2>1. ASSUME NEW x \in Workers, x \in Busy' \/ worker'[x].pc = "flush" PROVE worker'[x].pos \in D
    <3>1. CASE x = w
      BY <1>4, <1>14, <1>15, <1>16, <2>1, <3>1
    <3>2. CASE x # w
      <4>1. x \in Busy \/ worker[x].pc = "flush"
        BY <1>15, <1>16, <2>1, <3>2
      <4> QED
        BY <1>1, <1>15, <3>2, <4>1 DEF WorkersInv
    <3> QED
      BY <3>1, <3>2
  <2>2. \A u, v \in Busy' : u # v => worker'[u].pos # worker'[v].pos
    BY <1>1, <1>16, <1>17 DEF WorkersInv
  <2>3. ASSUME NEW x \in Busy', worker'[x].pc # "fetch"
        PROVE  worker'[x].buf # <<>> /\ Len(worker'[x].buf) <= SizeOf(chunks')[worker'[x].pos]
    <3>1. x \in Busy /\ x # w /\ x \in Workers
      BY <1>16
    <3>2. worker[x].pc # "fetch" /\ worker'[x].buf = worker[x].buf
      BY <1>15, <2>3, <3>1
    <3>3. worker[x].buf # <<>> /\ Len(worker[x].buf) <= SizeOf(chunks)[worker[x].pos]
      BY <1>1, <3>1, <3>2 DEF WorkersInv
    <3>4. worker'[x].pos = worker[x].pos /\ SizeOf(chunks')[worker[x].pos] = SizeOf(chunks)[worker[x].pos]
      BY <1>13, <1>17, <3>1
    <3> QED
      BY <3>2, <3>3, <3>4
  <2> QED
    BY <1>9, <1>15, <2>1, <2>2, <2>3 DEF WorkersInv
<1>20. CountedInv' /\ resultSize' \in 0 .. Len(data')
  <2>1. PICK f, g, A, E : f = SizeOf(chunks) /\ g = SizeOf(chunks') /\ A = D \ Open /\ E = DOMAIN chunks' \ Open'
    OBVIOUS
  <2>2. E \ {pos} = A /\ pos \in E /\ E \subseteq D /\ A \subseteq D
    BY <1>4, <1>9, <1>18, <2>1
  <2>3. Summable(D, f) /\ pos \in D /\ g[pos] = n /\ n \in Nat /\ f[pos] \in Nat /\ n <= f[pos]
    BY <1>4, <1>6, <1>8, <1>13, <2>1
  <2>4. \A c \in D : c # pos => g[c] = f[c]
    BY <1>13, <2>1
  <2>5. Summable(D, g) /\ Total(D, g) + f[pos] = Total(D, f) + g[pos]
    BY ONLY <2>3, <2>4, TotalChange
  <2>6. Summable(E, g) /\ Total(E, g) <= Total(D, g)
    BY ONLY <2>2, <2>5, TotalSubset
  <2>7. Total(E, g) = Total(E \ {pos}, g) + g[pos]
    BY ONLY <2>2, <2>6, TotalSplit
  <2>8. Total(A, g) = Total(A, f)
    <3>1. \A c \in A : g[c] = f[c]
      BY <2>2, <2>4
    <3> QED
      BY ONLY <3>1, TotalSame
  <2>9. Total(E, g) = Total(A, f) + n
    BY ONLY <2>2, <2>3, <2>7, <2>8
  <2>10. Total(A, f) = resultSize /\ Total(D, f) <= offset
    BY <1>1, <2>1 DEF CountedInv
  <2>11. Total(D, f) \in Nat /\ Total(D, g) \in Nat
    BY <2>3, <2>5, TotalType
  <2>12. offset \in Nat /\ offset <= Len(data) /\ resultSize \in Nat
    BY <1>1, <1>6 DEF CoreInv
  <2>13. Total(D, g) <= offset
    BY ONLY <2>3, <2>5, <2>10, <2>11, <2>12
  <2>14. Total(E, g) = resultSize' /\ resultSize' \in Nat /\ resultSize' = resultSize + n
    BY <1>2, <1>8, <2>9, <2>10, <2>12
  <2>15. resultSize' <= Len(data')
    BY <1>6, <1>7, <2>6, <2>11, <2>12, <2>13, <2>14
  <2> QED
    BY <1>2, <1>7, <1>6, <1>9, <2>1, <2>13, <2>14, <2>15 DEF CountedInv
<1>21. CoreInv'
  BY <1>1, <1>2, <1>7, <1>12, <1>20 DEF CoreInv
<1> QED
  BY <1>2, <1>19, <1>20, <1>21, ChunkKeeps

\* All chunks are sorted and counted: the first round can begin.
LEMMA JoinWorkersKeeps ==
    ASSUME MInv, JoinWorkers
    PROVE  MInv'
<1>1. /\ phase = "chunks" /\ phase' = "merge" /\ \A w \in Workers : worker[w].pc = "exit"
      /\ UNCHANGED <<cfg, data, offset, chunks, resultSize, worker, mergeVars>>
  BY DEF JoinWorkers
<1>2. CoreInv /\ CountedInv /\ RoundInv /\ GroupInv
  BY <1>1 DEF MInv, ChunkInv
<1>3. main.pc = "group" /\ round.cbi = 1 /\ tmp = <<>>
  BY <1>1, <1>2 DEF RoundInv, GroupInv
<1>4. Open = {}
  BY <1>1 DEF Open, Busy, BusyPcs
<1>5. Total(DOMAIN chunks, SizeOf(chunks)) = resultSize
  <2>1. DOMAIN chunks \ Open = DOMAIN chunks
    BY <1>4
  <2> QED
    BY <1>2, <2>1 DEF CountedInv
<1>6. Len(tmp) + Unmerged <= resultSize
  <2>1. DOMAIN chunks = 1 .. Len(chunks)
    BY <1>2, CoreReadable, ChunkFacts
  <2>2. Unmerged = resultSize
    BY <1>3, <1>5, <2>1 DEF Unmerged
  <2>3. resultSize \in Nat
    <3>1. Len(data) \in Nat
      BY <1>2, CoreReadable, ChunkFacts
    <3> QED
      BY <1>2, <3>1 DEF CoreInv
  <2> QED
    BY <1>3, <2>2, <2>3, EmptySeq
<1>7. UNCHANGED <<round, main, tmp, queues, fq, writer, lock>>
  BY <1>1 DEF mergeVars
<1>8. CoreInv' /\ ChunkInv' /\ RoundInv'
  BY <1>1, <1>2, <1>3, <1>7 DEF CoreInv, ChunkInv, RoundInv
<1>9. GroupInv'
  <2>1. Unmerged' = Unmerged
    BY <1>1, <1>7 DEF Unmerged
  <2> QED
    BY <1>1, <1>2, <1>3, <1>6, <1>7, <2>1 DEF GroupInv, NoWriters
<1>10. NextInv' /\ QueueInv' /\ PrimeInv' /\ FlowInv' /\ LockInv' /\ RangeInv' /\ WrittenInv' /\ BaseInv'
  BY <1>3, <1>7 DEF NextInv, QueueInv, PrimeInv, FlowInv, LockInv, RangeInv, WrittenInv, BaseInv, Flowing
<1> QED
  BY <1>8, <1>9, <1>10 DEF MInv

-----------------------------------------------------------------------------
(* The groups of a round                                                   *)

LEMMA RoomFacts ==
    ASSUME CoreInv
    PROVE  Len(data) \in Nat /\ resultSize \in Nat /\ resultSize <= Len(data) /\ Len(chunks) \in Nat
  BY CoreReadable, ChunkFacts DEF CoreInv

\* The next group: it has the first chunk that is left, and leaves the ones from AfterGroup on.
LEMMA GroupFacts ==
    ASSUME CoreInv, RoundInv, MoreChunks
    PROVE  /\ Group \in SUBSET DOMAIN chunks /\ round.cbi \in Group /\ IsFiniteSet(Group)
           /\ AfterGroup \in 1 .. Len(chunks) + 1
           /\ Summable(Group, SizeOf(chunks))
           /\ Total(Group, SizeOf(chunks)) + Total(AfterGroup .. Len(chunks), SizeOf(chunks)) <= Unmerged
<1> DEFINE n == Len(chunks)
           b == round.cbi
           A == AfterGroup
           f == SizeOf(chunks)
<1>1. n \in Nat /\ DOMAIN chunks = 1 .. n /\ Summable(DOMAIN chunks, f)
  BY CoreReadable, ChunkFacts
<1>2. b \in 1 .. n /\ QueueDepth \in Nat \ {0}
  BY <1>1, OomAssumption DEF RoundInv, MoreChunks
<1>3. A \in b + 1 .. n + 1 /\ A = IF b + QueueDepth <= n THEN b + QueueDepth ELSE n + 1
  BY <1>1, <1>2 DEF AfterGroup
<1>4. b \in Group /\ \A c \in Group : c \in b .. n /\ c < A
  <2>1. Size(chunks[b]) > 0
    <3>1. chunks[b][1] < chunks[b][2] /\ chunks[b][1] \in Nat /\ chunks[b][2] \in Nat
      BY <1>1, <1>2, CoreReadable, ChunkFacts
    <3> QED
      BY <3>1 DEF Size
  <2> HIDE DEF A
  <2> QED
    BY <1>1, <1>2, <1>3, <2>1 DEF Group
<1> HIDE DEF n, b, A, f
<1>5. Group \in SUBSET (b .. n) /\ (A .. n) \in SUBSET (b .. n) /\ Group \cap (A .. n) = {}
  BY <1>1, <1>2, <1>3, <1>4
<1>6. (b .. n) \in SUBSET DOMAIN chunks
  BY <1>1, <1>2
<1>7. PICK G, R, U : G = Group /\ R = A .. n /\ U = b .. n
  OBVIOUS
<1>8. Summable(U, f)
  BY <1>1, <1>6, <1>7, TotalSubset
<1>9. Summable(G, f) /\ Summable(R, f)
  BY <1>5, <1>7, <1>8, TotalSubset
<1>10. Total(G \cup R, f) = Total(G, f) + Total(R, f)
  <2>1. G \cap R = {}
    BY <1>5, <1>7
  <2> QED
    BY ONLY <1>9, <2>1, TotalUnion
<1>11. Total(G \cup R, f) <= Total(U, f)
  <2>1. (G \cup R) \in SUBSET U
    BY <1>5, <1>7
  <2> QED
    BY ONLY <1>8, <2>1, TotalSubset
<1>12. Unmerged = Total(U, f)
  BY <1>7 DEF Unmerged, b, n, f
<1>13. Total(G, f) + Total(R, f) <= Unmerged
  BY ONLY <1>10, <1>11, <1>12
<1>14. Group \in SUBSET DOMAIN chunks /\ IsFiniteSet(Group) /\ A \in 1 .. n + 1
  BY <1>2, <1>3, <1>5, <1>6, <1>7, <1>9, <1>1 DEF Summable
<1> QED
  BY <1>4, <1>7, <1>9, <1>13, <1>14 DEF n, b, A, f

\* Chunks from their start.
LEMMA FromStart ==
    ASSUME Readable, NEW S \in SUBSET DOMAIN chunks, NEW h, h = [c \in S |-> 0]
    PROVE  /\ h \in [S -> Nat] /\ \A c \in S : h[c] <= SizeOf(chunks)[c]
           /\ Total(S, RestOf(h)) = Total(S, SizeOf(chunks))
           /\ S # {} => Left(h) # {}
<1>1. \A c \in S : /\ SizeOf(chunks)[c] \in Nat /\ chunks[c][1] \in Nat /\ chunks[c][2] \in Nat
                   /\ chunks[c][1] < chunks[c][2]
  BY ChunkFacts
<1>2. h \in [S -> Nat] /\ \A c \in S : h[c] = 0
  OBVIOUS
<1>3. \A c \in S : h[c] <= SizeOf(chunks)[c]
  BY <1>1, <1>2
<1>4. \A c \in S : RestOf(h)[c] = SizeOf(chunks)[c]
  BY <1>1, <1>2, <1>3, HeadsSummable
<1>5. Total(S, RestOf(h)) = Total(S, SizeOf(chunks))
  BY <1>4, TotalSame
<1>6. ASSUME NEW c \in S PROVE c \in Left(h)
  BY <1>1, <1>2 DEF Left
<1> QED
  BY <1>2, <1>3, <1>5, <1>6

PushAt(t, s, after, k) == IF k = 0 THEN t ELSE PushedBack(after[k - 1], s[k])

\* One entry: it is added, or dropped if duplicates are.
LEMMA PushedBackSeq ==
    ASSUME NEW t \in Seq(Val), NEW v \in Val
    PROVE  /\ PushedBack(t, v) \in Seq(Val)
           /\ Len(PushedBack(t, v)) \in {Len(t), Len(t) + 1}
           /\ ~cfg.unique => Len(PushedBack(t, v)) = Len(t) + 1
<1>1. Append(t, v) \in Seq(Val) /\ Len(Append(t, v)) = Len(t) + 1
  OBVIOUS
<1>2. PICK a : a = Append(t, v)
  OBVIOUS
<1>3. (PushedBack(t, v) = t /\ cfg.unique) \/ PushedBack(t, v) = a
  BY <1>2 DEF PushedBack
<1> QED
  BY <1>1, <1>2, <1>3

LEMMA PushedSolved ==
    ASSUME NEW t \in Seq(Val), NEW s \in Seq(Val)
    PROVE  \E after : /\ \A k \in 0 .. Len(s) : after[k] = PushAt(t, s, after, k)
                      /\ PushedAll(t, s) = after[Len(s)]
<1>1. PICK n, D, V, r : n = Len(s) /\ D = 0 .. n /\ V = Seq(Val) /\ r = [k \in 0 .. n |-> k]
  OBVIOUS
<1>2. PICK B : B = [q \in D \X [D -> V] |-> PushAt(t, s, q[2], q[1])]
  OBVIOUS
<1>3. r \in [D -> Nat] /\ V # {} /\ n \in Nat /\ \A k \in 1 .. n : s[k] \in Val
  BY <1>1, SeqFacts
<1>4. \A x \in D, g \in [D -> V] : B[<<x, g>>] = PushAt(t, s, g, x)
  BY <1>2
<1>5. B \in [D \X [D -> V] -> V]
  <2>1. ASSUME NEW x \in D, NEW g \in [D -> V] PROVE PushAt(t, s, g, x) \in V
    <3>1. CASE x = 0
      BY <1>1, <3>1 DEF PushAt
    <3>2. CASE x # 0
      <4>1. x - 1 \in D /\ s[x] \in Val
        BY <1>1, <1>3, <3>2
      <4>2. PushedBack(g[x - 1], s[x]) \in Seq(Val)
        BY <1>1, <4>1, PushedBackSeq
      <4> QED
        BY <1>1, <3>2, <4>2 DEF PushAt
    <3> QED
      BY <3>1, <3>2
  <2> QED
    BY <1>2, <2>1
<1>6. Descends(D, V, r, B)
  <2>1. SUFFICES ASSUME NEW x \in D, NEW f \in [D -> V], NEW g \in [D -> V],
                        \A y \in D : r[y] < r[x] => f[y] = g[y]
                 PROVE  B[<<x, f>>] = B[<<x, g>>]
    BY DEF Descends
  <2>2. x # 0 => f[x - 1] = g[x - 1]
    BY <1>1, <1>3, <2>1
  <2>3. PushAt(t, s, f, x) = PushAt(t, s, g, x)
    BY <2>2 DEF PushAt
  <2> QED
    BY <1>4, <2>3
<1>7. PICK f : Solves(D, V, B, f)
  <2>1. IsRecursion(D, V, r, B)
    BY <1>3, <1>5, <1>6 DEF IsRecursion
  <2> QED
    BY <2>1, RankedRecursion
<1>8. f = [k \in 0 .. Len(s) |-> PushAt(t, s, f, k)]
  BY <1>1, <1>4, <1>7 DEF Solves
<1>9. PICK after : /\ after = [k \in 0 .. Len(s) |-> PushAt(t, s, after, k)]
                   /\ PushedAll(t, s) = after[Len(s)]
  BY <1>8 DEF PushedAll, PushAt
<1> QED
  BY <1>9

\* A loop of them adds at most what it is given, and all of it if duplicates stay.
LEMMA PushedSeq ==
    ASSUME NEW t \in Seq(Val), NEW s \in Seq(Val), NEW p, p = PushedAll(t, s)
    PROVE  /\ p \in Seq(Val) /\ Len(t) <= Len(p) /\ Len(p) <= Len(t) + Len(s)
           /\ ~cfg.unique => Len(p) = Len(t) + Len(s)
<1>1. PICK n : n = Len(s) /\ n \in Nat /\ \A k \in 1 .. n : s[k] \in Val
  BY SeqFacts
<1>2. PICK after : (\A k \in 0 .. n : after[k] = PushAt(t, s, after, k)) /\ p = after[n]
  BY <1>1, PushedSolved
<1> DEFINE Right(k) == /\ after[k] \in Seq(Val)
                       /\ Len(t) <= Len(after[k]) /\ Len(after[k]) <= Len(t) + k
                       /\ ~cfg.unique => Len(after[k]) = Len(t) + k
           P == {k \in Nat : k <= n => Right(k)}
<1>3. Len(t) \in Nat
  BY SeqFacts
<1>4. 0 \in P
  <2>1. after[0] = t
    BY <1>1, <1>2 DEF PushAt
  <2> QED
    BY <1>3, <2>1
<1>5. ASSUME NEW k \in Nat, k \in P PROVE k + 1 \in P
  <2>1. SUFFICES ASSUME k + 1 <= n PROVE Right(k + 1)
    OBVIOUS
  <2>2. Right(k)
    BY <1>1, <1>5, <2>1
  <2>3. after[k + 1] = PushedBack(after[k], s[k + 1]) /\ s[k + 1] \in Val
    <3>1. k + 1 \in 0 .. n /\ k + 1 # 0 /\ (k + 1) - 1 = k /\ k + 1 \in 1 .. n
      BY <1>1, <2>1
    <3> QED
      BY <1>1, <1>2, <3>1 DEF PushAt
  <2>4. PICK a, b : a = after[k] /\ b = after[k + 1]
    OBVIOUS
  <2>5. a \in Seq(Val) /\ Len(a) \in Nat
    BY <2>2, <2>4, SeqFacts
  <2>6. b \in Seq(Val) /\ Len(b) \in {Len(a), Len(a) + 1} /\ (~cfg.unique => Len(b) = Len(a) + 1)
    BY <2>3, <2>4, <2>5, PushedBackSeq
  <2>7. PICK x, y, z : x = Len(t) /\ y = Len(a) /\ z = Len(b)
    OBVIOUS
  <2>8. /\ x \in Nat /\ y \in Nat /\ z \in {y, y + 1} /\ x <= y /\ y <= x + k
        /\ ~cfg.unique => y = x + k /\ z = y + 1
    BY <1>3, <2>2, <2>4, <2>5, <2>6, <2>7
  <2>9. x <= z /\ z <= x + (k + 1) /\ (~cfg.unique => z = x + (k + 1))
    BY ONLY <2>8, k \in Nat
  <2> QED
    BY <2>4, <2>6, <2>7, <2>9
<1>6. Nat \subseteq P
  <2> HIDE DEF P
  <2> QED
    BY <1>4, <1>5, NatSteps
<1>7. Right(n)
  BY <1>1, <1>6
<1> QED
  BY <1>1, <1>2, <1>7

\* One thread adds something to tmp unless duplicates are dropped, and not more than
\* the group holds.
LEMMA SingleMergedFits ==
    ASSUME CoreInv, RoundInv, MoreChunks, tmp \in Seq(Val)
    PROVE  /\ SingleMerged \in Seq(Val) /\ Len(SingleMerged) \in Nat /\ Len(tmp) <= Len(SingleMerged)
           /\ Len(SingleMerged) <= Len(tmp) + Total(Group, SizeOf(chunks))
           /\ ~cfg.unique => Len(SingleMerged) # Len(tmp)
<1>1. Group \in SUBSET DOMAIN chunks /\ Group # {} /\ Summable(Group, SizeOf(chunks))
  BY GroupFacts
<1>2. Readable
  BY CoreReadable
<1>3. PICK h : h = [c \in Group |-> 0]
  OBVIOUS
<1>4. /\ h \in [Group -> Nat] /\ \A c \in Group : h[c] <= SizeOf(chunks)[c]
      /\ Total(Group, RestOf(h)) = Total(Group, SizeOf(chunks)) /\ Left(h) # {}
  BY <1>1, <1>2, <1>3, FromStart
<1>5. Len(data) \in Nat /\ Len(data) # 0
  BY CfgFacts, EmptySeq DEF CoreInv
<1>6. PICK f : f = Filled(h, Len(data))
  OBVIOUS
<1>7. /\ f \in Fills(Group) /\ f.out # <<>>
      /\ Len(f.out) + Total(Group, RestOf(f.heads)) = Total(Group, RestOf(h))
  BY <1>1, <1>2, <1>4, <1>5, <1>6, FilledRight
<1>8. f.out \in Seq(Val) /\ f.heads \in [Group -> Nat] /\ \A c \in Group : f.heads[c] <= SizeOf(chunks)[c]
  BY <1>7 DEF Fills
<1>9. Total(Group, RestOf(f.heads)) \in Nat /\ Len(f.out) \in Nat
  BY <1>1, <1>2, <1>8, HeadsSummable, TotalType, SeqFacts
<1>10. Len(f.out) <= Total(Group, SizeOf(chunks)) /\ Total(Group, SizeOf(chunks)) \in Nat
  BY <1>4, <1>7, <1>9
<1>11. PICK out : out = f.out /\ out \in Seq(Val) /\ out # <<>>
  BY <1>7, <1>8
<1>12. Len(out) # 0
  BY <1>11, EmptySeq
<1>13. PICK p : p = SingleMerged /\ p = PushedAll(tmp, out)
  BY <1>3, <1>6, <1>11 DEF SingleMerged
<1>14. /\ p \in Seq(Val) /\ Len(tmp) <= Len(p) /\ Len(p) <= Len(tmp) + Len(out)
       /\ ~cfg.unique => Len(p) = Len(tmp) + Len(out)
  BY <1>11, <1>13, PushedSeq
<1>15. Len(p) \in Nat /\ Len(tmp) \in Nat /\ Len(out) \in Nat
  BY <1>11, <1>14, SeqFacts
<1>16. Len(out) <= Total(Group, SizeOf(chunks))
  BY <1>10, <1>11
<1>17. Len(p) <= Len(tmp) + Total(Group, SizeOf(chunks)) /\ (~cfg.unique => Len(p) # Len(tmp))
  BY <1>10, <1>12, <1>14, <1>15, <1>16
<1> QED
  BY <1>13, <1>14, <1>15, <1>17

LEMMA ProperMore ==
    ASSUME NEW cs, NEW m \in Nat, NEW n \in Nat, m <= n, Proper(cs, m)
    PROVE  Proper(cs, n) /\ IsChunks(cs)
<1>1. cs \in Seq(Nat \X Nat) /\ \A c \in DOMAIN cs : cs[c][1] < cs[c][2] /\ cs[c][2] <= m
  BY DEF Proper
<1>2. \A c \in DOMAIN cs : cs[c] \in Nat \X Nat
  BY <1>1
<1>3. \A c \in DOMAIN cs : cs[c][1] \in Nat /\ cs[c][2] \in Nat
  BY <1>2
<1>4. \A c \in DOMAIN cs : cs[c][2] <= n /\ cs[c][1] <= cs[c][2]
  BY <1>1, <1>3
<1> QED
  BY <1>1, <1>4 DEF Proper, IsChunks

\* From between the groups to between the groups.
LEMMA GroupKeeps ==
    ASSUME MInv, main.pc = "group", phase = "merge", UNCHANGED <<main, queues, fq, writer, lock>>,
           phase' = "merge", CoreInv', RoundInv', tmp' \in Seq(Val), Proper(round'.next, Len(tmp')),
           Total(DOMAIN round'.next, SizeOf(round'.next)) = Len(tmp'), Len(tmp') + Unmerged' <= resultSize',
           Len(tmp') <= Len(data')
    PROVE  MInv'
<1>1. GroupInv' /\ ChunkInv'
  BY DEF MInv, GroupInv, ChunkInv, NoWriters
<1>2. NextInv' /\ QueueInv' /\ PrimeInv' /\ FlowInv' /\ LockInv' /\ RangeInv' /\ WrittenInv' /\ BaseInv'
  BY DEF NextInv, QueueInv, PrimeInv, FlowInv, LockInv, RangeInv, WrittenInv, BaseInv, Flowing
<1> QED
  BY <1>1, <1>2 DEF MInv

LEMMA MergeSingleKeeps ==
    ASSUME MInv, MergeSingle
    PROVE  MInv'
<1>1. /\ main.pc = "group" /\ phase = "merge" /\ MoreChunks
      /\ tmp' = SingleMerged
      /\ round' = [cbi |-> AfterGroup,
                   next |-> IF cfg.unique /\ Len(SingleMerged) = Len(tmp) THEN round.next
                            ELSE Append(round.next, <<Len(tmp), Len(SingleMerged)>>)]
      /\ UNCHANGED <<cfg, phase, data, chunks, resultSize, chunkVars, main, queues, fq, writer, lock>>
  BY DEF MergeSingle, AtGroup
<1>2. CoreInv /\ RoundInv
  BY DEF MInv
<1>3. /\ tmp \in Seq(Val) /\ Proper(round.next, Len(tmp))
      /\ Total(DOMAIN round.next, SizeOf(round.next)) = Len(tmp) /\ Len(tmp) + Unmerged <= resultSize
  BY <1>1 DEF MInv, GroupInv
<1>4. /\ SingleMerged \in Seq(Val) /\ Len(SingleMerged) \in Nat /\ Len(tmp) <= Len(SingleMerged)
      /\ Len(SingleMerged) <= Len(tmp) + Total(Group, SizeOf(chunks))
      /\ ~cfg.unique => Len(SingleMerged) # Len(tmp)
  BY <1>1, <1>2, <1>3, SingleMergedFits
<1>5. PICK l, m : l = Len(tmp) /\ m = Len(SingleMerged) - l /\ l \in Nat /\ m \in Nat
  BY <1>3, <1>4, SeqFacts
<1>6. tmp' \in Seq(Val) /\ Len(tmp') = l + m /\ Len(SingleMerged) = l + m
  BY <1>1, <1>4, <1>5
<1>7. CoreInv'
  BY <1>1, <1>2 DEF CoreInv, chunkVars
<1>8. AfterGroup \in 1 .. Len(chunks) + 1
  BY <1>1, <1>2, GroupFacts
<1>9. RoundInv'
  <2>1. round'.cbi = AfterGroup /\ round' = [cbi |-> round'.cbi, next |-> round'.next]
    BY <1>1
  <2> QED
    BY <1>1, <1>2, <1>8, <2>1 DEF RoundInv
<1>10. Proper(round'.next, Len(tmp')) /\ Total(DOMAIN round'.next, SizeOf(round'.next)) = Len(tmp')
  <2>1. CASE cfg.unique /\ m = 0
    <3>1. round'.next = round.next
      BY <1>1, <1>5, <1>6, <2>1
    <3> QED
      BY <1>3, <1>5, <1>6, <2>1, <3>1
  <2>2. CASE ~(cfg.unique /\ m = 0)
    <3>1. round'.next = Append(round.next, <<l, l + m>>)
      BY <1>1, <1>5, <1>6, <2>2
    <3>2. m > 0
      BY <1>4, <1>5, <1>6, <2>2
    <3>3. IsChunks(round.next)
      BY <1>3, <1>5, ProperMore
    <3>4. PICK cs, ds, e : cs = round.next /\ ds = round'.next /\ e = l + m /\ e \in Nat
      BY <1>5
    <3>5. ds = Append(cs, <<l, e>>) /\ l <= e /\ IsChunks(cs)
      BY <1>5, <3>1, <3>2, <3>3, <3>4
    <3>6. Grown(cs, ds, l, e)
      BY ONLY <1>5, <3>4, <3>5, AppendSizes
    <3>7. Total(DOMAIN ds, SizeOf(ds)) = Total(DOMAIN cs, SizeOf(cs)) + (e - l)
      BY <3>6 DEF Grown
    <3>8. Total(DOMAIN ds, SizeOf(ds)) = e
      BY <1>3, <1>5, <3>4, <3>7
    <3>9. Proper(cs, e)
      BY <1>3, <1>5, <3>4, <3>5, ProperMore
    <3>10. ASSUME NEW c \in DOMAIN ds PROVE ds[c][1] < ds[c][2] /\ ds[c][2] <= e
      <4>1. CASE c \in DOMAIN cs
        BY <3>6, <3>9, <4>1 DEF Grown, Proper
      <4>2. CASE c \notin DOMAIN cs
        <5>1. ds[c] = <<l, e>>
          BY <3>6, <4>2 DEF Grown
        <5> QED
          BY <1>5, <3>2, <3>4, <5>1
      <4> QED
        BY <4>1, <4>2
    <3>11. Proper(ds, e)
      BY <3>6, <3>10 DEF Proper, Grown
    <3> QED
      BY <1>6, <3>4, <3>8, <3>11
  <2> QED
    BY <2>1, <2>2
<1>11. Len(tmp') + Unmerged' <= resultSize' /\ Len(tmp') <= Len(data')
  <2>1. PICK R : R = AfterGroup .. Len(chunks)
    OBVIOUS
  <2>2. Unmerged' = Total(R, SizeOf(chunks))
    BY <1>1, <2>1 DEF Unmerged
  <2>3. /\ Total(Group, SizeOf(chunks)) + Total(R, SizeOf(chunks)) <= Unmerged
        /\ Summable(Group, SizeOf(chunks))
    BY <1>1, <1>2, <2>1, GroupFacts
  <2>4. Summable(R, SizeOf(chunks))
    <3>1. R \in SUBSET DOMAIN chunks
      BY <1>2, <1>8, <2>1, CoreReadable, ChunkFacts
    <3> QED
      BY <1>2, <3>1, CoreReadable, ChunkFacts, TotalSubset
  <2>5. PICK t, u : t = Total(Group, SizeOf(chunks)) /\ u = Total(R, SizeOf(chunks))
    OBVIOUS
  <2>6. t \in Nat /\ u \in Nat
    BY <2>3, <2>4, <2>5, TotalType
  <2>7. Unmerged \in Nat
    <3>1. (round.cbi .. Len(chunks)) \in SUBSET DOMAIN chunks
      BY <1>2, CoreReadable, ChunkFacts DEF RoundInv
    <3>2. Summable(round.cbi .. Len(chunks), SizeOf(chunks))
      BY <1>2, <3>1, CoreReadable, ChunkFacts, TotalSubset
    <3> QED
      BY <3>2, TotalType DEF Unmerged
  <2>8. resultSize \in Nat /\ Len(data) \in Nat /\ resultSize <= Len(data)
    BY <1>2, RoomFacts
  <2>9. m <= t /\ t + u <= Unmerged /\ l + Unmerged <= resultSize
    <3>1. l + m <= l + t
      BY <1>4, <1>5, <1>6, <2>5
    <3>2. m <= t
      BY ONLY <1>5, <2>6, <3>1
    <3> QED
      BY <1>3, <1>5, <2>3, <2>5, <3>2
  <2>10. l + m + u <= resultSize /\ l + m <= Len(data)
    BY ONLY <1>5, <2>6, <2>7, <2>8, <2>9
  <2> QED
    BY <1>1, <1>6, <2>2, <2>5, <2>10
<1> QED
  BY <1>1, <1>6, <1>7, <1>9, <1>10, <1>11, GroupKeeps

-----------------------------------------------------------------------------
(* The queues of a group                                                   *)

LEMMA DivAtLeast ==
    ASSUME NEW a \in Nat, NEW b \in Nat, b > 0, a >= b
    PROVE  a \div b \in Nat /\ a \div b >= 1
<1>1. a \div b \in Int
  OBVIOUS
<1>2. a = b * (a \div b) + (a % b) /\ a % b \in 0 .. b - 1
  OBVIOUS
<1> QED
  BY <1>1, <1>2

LEMMA NewQueueRight ==
    ASSUME Readable, NEW S \in SUBSET DOMAIN chunks, PreSize \in Nat \ {0}, NEW q, q = NewQueue(S)
    PROVE  /\ IsQueue(q) /\ q.value = 0 /\ Content(q) = Total(S, SizeOf(chunks))
           /\ S # {} => q.front # <<>>
<1>1. PICK h : h = [c \in S |-> 0]
  OBVIOUS
<1>2. /\ h \in [S -> Nat] /\ \A c \in S : h[c] <= SizeOf(chunks)[c]
      /\ Total(S, RestOf(h)) = Total(S, SizeOf(chunks)) /\ (S # {} => Left(h) # {})
  BY <1>1, FromStart
<1>3. PICK one : one = Filled(h, PreSize)
  OBVIOUS
<1>4. /\ one \in Fills(S) /\ Len(one.out) + Total(S, RestOf(one.heads)) = Total(S, RestOf(h))
      /\ S # {} => one.out # <<>>
  BY <1>2, <1>3, FilledRight
<1>5. one.out \in Seq(Val) /\ one.heads \in [S -> Nat] /\ \A c \in S : one.heads[c] <= SizeOf(chunks)[c]
  BY <1>4 DEF Fills
<1>6. PICK two : two = Filled(one.heads, PreSize)
  OBVIOUS
<1>7. two \in Fills(S) /\ Len(two.out) + Total(S, RestOf(two.heads)) = Total(S, RestOf(one.heads))
  BY <1>5, <1>6, FilledRight
<1>8. two.out \in Seq(Val) /\ two.heads \in [S -> Nat] /\ \A c \in S : two.heads[c] <= SizeOf(chunks)[c]
  BY <1>7 DEF Fills
<1>9. q = [heads |-> two.heads, front |-> one.out, back |-> two.out, eof |-> FALSE, value |-> 0]
  BY <1>1, <1>3, <1>6 DEF NewQueue
<1>10. IsHeads(two.heads) /\ Summable(S, RestOf(two.heads)) /\ DOMAIN two.heads = S
  BY <1>8, HeadsSummable
<1>11. IsQueue(q)
  BY <1>5, <1>8, <1>9, <1>10 DEF IsQueue
<1>12. Content(q) = Len(one.out) + Len(two.out) + Total(S, RestOf(two.heads))
  <2>1. q.front = one.out /\ q.back = two.out /\ q.heads = two.heads
    BY <1>9
  <2>2. DOMAIN q.heads = S /\ RestOf(q.heads) = RestOf(two.heads)
    BY <1>10, <2>1
  <2> QED
    BY <2>1, <2>2 DEF Content
<1>13. Len(one.out) \in Nat /\ Len(two.out) \in Nat /\ Total(S, RestOf(two.heads)) \in Nat
  BY <1>5, <1>8, <1>10, TotalType, SeqFacts
<1>14. Content(q) = Total(S, SizeOf(chunks))
  <2>1. PICK a, b, x, y, z : /\ a = Len(one.out) /\ b = Len(two.out) /\ x = Total(S, RestOf(two.heads))
                             /\ y = Total(S, RestOf(one.heads)) /\ z = Total(S, RestOf(h))
    OBVIOUS
  <2>2. b + x = y /\ a + y = z /\ Content(q) = a + b + x /\ a \in Nat /\ b \in Nat /\ x \in Nat
    BY ONLY <1>4, <1>7, <1>12, <1>13, <2>1
  <2>3. Content(q) = z
    BY ONLY <2>2
  <2> QED
    BY ONLY <1>2, <2>1, <2>3
<1> QED
  BY <1>4, <1>9, <1>11, <1>14

LEMMA ContentType ==
    ASSUME Readable, NEW q, IsQueue(q)
    PROVE  Content(q) \in Nat /\ Len(q.front) \in Nat /\ Len(q.back) \in Nat
           /\ Total(DOMAIN q.heads, RestOf(q.heads)) \in Nat
<1>1. IsHeads(q.heads) /\ q.front \in Seq(Val) /\ q.back \in Seq(Val)
  BY DEF IsQueue
<1>2. PICK h, S : h = q.heads /\ S = DOMAIN q.heads
  OBVIOUS
<1>3. S \in SUBSET DOMAIN chunks /\ h \in [S -> Nat] /\ \A c \in S : h[c] <= SizeOf(chunks)[c]
  BY <1>1, <1>2 DEF IsHeads
<1>4. Total(S, RestOf(h)) \in Nat
  BY <1>3, HeadsSummable, TotalType
<1>5. Len(q.front) \in Nat /\ Len(q.back) \in Nat
  BY <1>1, SeqFacts
<1> QED
  <2>1. Total(DOMAIN q.heads, RestOf(q.heads)) \in Nat
    <3>1. S = DOMAIN q.heads /\ RestOf(h) = RestOf(q.heads)
      BY <1>2
    <3> QED
      BY <1>4, <3>1
  <2>2. PICK x : x = Total(DOMAIN q.heads, RestOf(q.heads))
    OBVIOUS
  <2>3. Content(q) = Len(q.front) + Len(q.back) + x
    BY <2>2 DEF Content
  <2>4. PICK a, b, s : a = Len(q.front) /\ b = Len(q.back) /\ s = Content(q)
    OBVIOUS
  <2>5. s = a + b + x /\ a \in Nat /\ b \in Nat /\ x \in Nat
    BY ONLY <1>5, <2>1, <2>2, <2>3, <2>4
  <2>6. s \in Nat
    BY ONLY <2>5
  <2> QED
    BY ONLY <1>5, <2>1, <2>4, <2>6

\* What the queues hold after a step that leaves the chunks alone.
HoldBy(q, held) == Content(q) + held

LEMMA QueuePrimed ==
    ASSUME chunks' = chunks, NEW i \in DOMAIN queues', NEW q, q = queues'[i]
    PROVE  /\ IsQueue(q) => IsQueue(queues[i])'
           /\ Holdings'[i] = HoldBy(q, Held(i)')
<1>1. SizeOf(chunks)' = SizeOf(chunks)
  OBVIOUS
<1>2. IsHeads(queues[i].heads)' <=> IsHeads(q.heads)
  BY <1>1 DEF IsHeads
<1>3. IsQueue(q) => IsQueue(queues[i])'
  BY <1>2 DEF IsQueue
<1>4. RestOf(queues[i].heads)' = RestOf(q.heads)
  BY <1>1 DEF RestOf
<1>5. Content(queues[i])' = Content(q)
  BY <1>4 DEF Content
<1>6. Holdings'[i] = Content(queues[i])' + Held(i)'
  BY DEF Holdings
<1> QED
  BY <1>3, <1>5, <1>6 DEF HoldBy

LEMMA HeldType == \A i : Held(i) \in {0, 1}
  BY DEF Held

LEMMA HoldType ==
    ASSUME Readable, NEW q, IsQueue(q), NEW h \in {0, 1}
    PROVE  HoldBy(q, h) \in Nat
  BY ContentType DEF HoldBy

LEMMA HoldingsType ==
    ASSUME CoreInv, QueueInv, main.pc # "group"
    PROVE  /\ Summable(DOMAIN queues, Holdings) /\ Total(DOMAIN queues, Holdings) \in Nat
           /\ \A i \in DOMAIN queues : Holdings[i] = HoldBy(queues[i], Held(i))
<1>1. \A i \in DOMAIN queues : Holdings[i] = HoldBy(queues[i], Held(i))
  BY DEF Holdings, HoldBy
<1>2. Readable /\ \A i \in DOMAIN queues : IsQueue(queues[i])
  BY CoreReadable DEF QueueInv
<1>3. \A i \in DOMAIN queues : Holdings[i] \in Nat
  BY <1>1, <1>2, HoldType, HeldType
<1>4. IsFiniteSet(DOMAIN queues)
  BY FS_Interval DEF QueueInv
<1>5. Summable(DOMAIN queues, Holdings)
  BY <1>3, <1>4 DEF Summable
<1> QED
  BY <1>1, <1>5, TotalType

\* The room in tmp, as numbers.
LEMMA QueueRoom ==
    ASSUME CoreInv, RoundInv
    PROVE  Unmerged \in Nat /\ resultSize \in Nat
<1>1. (round.cbi .. Len(chunks)) \in SUBSET DOMAIN chunks
  BY CoreReadable, ChunkFacts DEF RoundInv
<1>2. Summable(round.cbi .. Len(chunks), SizeOf(chunks))
  BY <1>1, CoreReadable, ChunkFacts, TotalSubset
<1> QED
  BY <1>2, TotalType, RoomFacts DEF Unmerged

LEMMA UnmergedStays ==
    ASSUME UNCHANGED <<chunks, round>>
    PROVE  Unmerged' = Unmerged
  BY DEF Unmerged

\* The queues stay as they are.
LEMMA QueuesStay ==
    ASSUME CoreInv, QueueInv, main.pc # "group", UNCHANGED <<chunks, resultSize, round, queues>>,
           Placed' = Placed, \A i \in DOMAIN queues : Held(i)' = Held(i)
    PROVE  QueueInv'
<1>1. \A i \in DOMAIN queues : IsQueue(queues[i])'
  BY QueuePrimed DEF QueueInv
<1>2. \A i \in DOMAIN queues : Holdings'[i] = Holdings[i]
  BY QueuePrimed, HoldingsType
<1>3. PICK f, g, D : f = Holdings /\ g = Holdings' /\ D = DOMAIN queues
  OBVIOUS
<1>4. Total(D, g) = Total(D, f)
  BY <1>2, <1>3, TotalSame
<1>5. Total(DOMAIN queues, Holdings)' = Total(DOMAIN queues, Holdings)
  BY <1>3, <1>4
<1>6. (Placed + Total(DOMAIN queues, Holdings) + Unmerged <= resultSize)'
  BY <1>5, UnmergedStays DEF QueueInv
<1> QED
  BY <1>1, <1>6 DEF QueueInv

\* One queue becomes q.
LEMMA OneQueue ==
    ASSUME CoreInv, QueueInv, main.pc # "group", UNCHANGED <<chunks, resultSize, round>>,
           NEW i \in DOMAIN queues, NEW q, IsQueue(q), queues' = [queues EXCEPT ![i] = q],
           \A k \in DOMAIN queues : k # i => Held(k)' = Held(k),
           HoldBy(q, Held(i)') = HoldBy(queues[i], Held(i)), Placed' = Placed
    PROVE  QueueInv' /\ Len(queues') = Len(queues) /\ DOMAIN queues' = DOMAIN queues
<1>1. /\ DOMAIN queues' = DOMAIN queues /\ queues'[i] = q
      /\ \A k \in DOMAIN queues : k # i => queues'[k] = queues[k]
  OBVIOUS
<1>2. Len(queues') = Len(queues) /\ Len(queues) \in Nat \ {0} /\ DOMAIN queues = 1 .. Len(queues)
  <2>1. Len(queues) \in Nat \ {0} /\ DOMAIN queues = 1 .. Len(queues)
    BY DEF QueueInv
  <2> QED
    BY <1>1, <2>1
<1>3. \A k \in DOMAIN queues : IsQueue(queues'[k])
  BY <1>1 DEF QueueInv
<1>4. \A k \in DOMAIN queues : IsQueue(queues[k])'
  BY <1>1, <1>3, QueuePrimed
<1>5. ASSUME NEW k \in DOMAIN queues PROVE Holdings'[k] = Holdings[k]
  <2>1. Holdings'[k] = HoldBy(queues'[k], Held(k)')
    BY <1>1, QueuePrimed
  <2>2. Holdings[k] = HoldBy(queues[k], Held(k))
    BY HoldingsType
  <2> QED
    BY <1>1, <2>1, <2>2
<1>6. PICK f, g, D : f = Holdings /\ g = Holdings' /\ D = DOMAIN queues
  OBVIOUS
<1>7. Total(D, g) = Total(D, f)
  BY <1>5, <1>6, TotalSame
<1>8. Total(DOMAIN queues, Holdings)' = Total(DOMAIN queues, Holdings)
  BY <1>1, <1>6, <1>7
<1>9. (Placed + Total(DOMAIN queues, Holdings) + Unmerged <= resultSize)'
  BY <1>8, UnmergedStays DEF QueueInv
<1>10. queues' = [k \in DOMAIN queues' |-> queues'[k]]
  BY DEF QueueInv
<1> QED
  BY <1>1, <1>2, <1>4, <1>9, <1>10 DEF QueueInv

\* The chunks of a group are dealt to its queues.
LEMMA SetupParts ==
    ASSUME CoreInv, RoundInv, MoreChunks, cfg.threads > 1
    PROVE  /\ QueueCount \in Nat \ {0}
           /\ \A i \in 1 .. QueueCount : ChunksOf(i) \in SUBSET Group
           /\ \A i, j \in 1 .. QueueCount : i # j => ChunksOf(i) \cap ChunksOf(j) = {}
           /\ ChunksOf(1) # {}
<1>1. Group \in SUBSET DOMAIN chunks /\ round.cbi \in Group /\ IsFiniteSet(Group)
  BY GroupFacts
<1>2. Cardinality(Group) \in Nat /\ Cardinality(Group) # 0
  BY <1>1, FS_CardinalityType, FS_EmptySet
<1>3. PICK g, t : g = Cardinality(Group) /\ t = cfg.threads
  OBVIOUS
<1>4. g \in Nat /\ g >= 1 /\ t \in Nat /\ t >= 2
  BY <1>2, <1>3, CfgFacts
<1>5. PICK p : p = (g + t - 2) \div (t - 1)
  OBVIOUS
<1>6. p \in Nat /\ p >= 1
  <2>1. PICK a, b : a = g + t - 2 /\ b = t - 1
    OBVIOUS
  <2>2. a \in Nat /\ b \in Nat /\ b > 0 /\ a >= b
    BY <1>4, <2>1
  <2> QED
    BY <1>5, <2>1, <2>2, DivAtLeast
<1>7. PerQueue = p
  BY <1>3, <1>5 DEF PerQueue
<1>8. QueueCount \in Nat \ {0}
  <2>1. PICK a : a = g + p - 1
    OBVIOUS
  <2>2. a \in Nat /\ p > 0 /\ a >= p
    BY <1>4, <1>6, <2>1
  <2>3. a \div p \in Nat /\ a \div p >= 1
    BY ONLY <1>6, <2>2, DivAtLeast
  <2> QED
    BY <1>3, <1>7, <2>1, <2>3 DEF QueueCount
<1>9. \A i : ChunksOf(i) = {c \in Group : (c - round.cbi) \div p = i - 1}
  BY <1>7 DEF ChunksOf
<1>10. round.cbi \in ChunksOf(1)
  <2>1. round.cbi \in Nat
    BY DEF RoundInv
  <2>2. PICK b \in Nat : b = round.cbi
    BY <2>1
  <2>3. (b - b) \div p = 1 - 1
    BY <1>6
  <2> QED
    BY <1>1, <1>9, <2>2, <2>3
<1>11. ASSUME NEW i \in 1 .. QueueCount, NEW j \in 1 .. QueueCount, i # j
       PROVE  ChunksOf(i) \cap ChunksOf(j) = {}
  BY <1>8, <1>9, <1>11
<1> QED
  BY <1>8, <1>9, <1>10, <1>11

\* The chunk the group becomes is still empty.
LEMMA SetupNext ==
    ASSUME MInv, Setup
    PROVE  NextInv' /\ Base' = Len(tmp) /\ Len(tmp) \in Nat
<1>1. /\ main.pc = "group" /\ phase = "merge" /\ main'.pc = "prime"
      /\ round' = [cbi |-> AfterGroup, next |-> Append(round.next, <<Len(tmp), Len(tmp)>>)]
  BY DEF Setup, AtGroup, MInv, RoundInv
<1>2. /\ tmp \in Seq(Val) /\ Proper(round.next, Len(tmp))
      /\ Total(DOMAIN round.next, SizeOf(round.next)) = Len(tmp)
  BY <1>1 DEF MInv, GroupInv
<1>3. PICK cs, ds, l : cs = round.next /\ ds = round'.next /\ l = Len(tmp)
  OBVIOUS
<1>4. l \in Nat /\ Proper(cs, l) /\ Total(DOMAIN cs, SizeOf(cs)) = l
  BY <1>2, <1>3, SeqFacts
<1>5. IsChunks(cs) /\ ds = Append(cs, <<l, l>>)
  BY <1>1, <1>3, <1>4, ProperMore
<1>6. Grown(cs, ds, l, l)
  <2>1. PICK e : e = l
    OBVIOUS
  <2>2. e \in Nat /\ l <= e /\ ds = Append(cs, <<l, e>>)
    BY <1>4, <1>5, <2>1
  <2>3. Grown(cs, ds, l, e)
    BY ONLY <1>4, <1>5, <2>2, AppendSizes
  <2> QED
    BY <2>1, <2>3
<1>7. /\ ds \in Seq(Nat \X Nat) /\ Len(ds) = Len(cs) + 1 /\ Len(cs) \in Nat /\ DOMAIN cs = 1 .. Len(cs)
      /\ ds[Len(cs) + 1] = <<l, l>> /\ \A c \in DOMAIN cs : ds[c] = cs[c]
      /\ \A c \in DOMAIN cs : SizeOf(ds)[c] = SizeOf(cs)[c]
  BY <1>6 DEF Grown
<1>8. Total(DOMAIN cs, SizeOf(ds)) = l
  BY <1>4, <1>7, TotalSame
<1>9. ds # <<>> /\ 1 .. Len(ds) - 1 = DOMAIN cs /\ ds[Len(ds)][1] = l
  BY <1>7, EmptySeq
<1>10. \A c \in DOMAIN cs : ds[c][1] < ds[c][2] /\ ds[c][2] <= l
  BY <1>4, <1>7 DEF Proper
<1>11. Total(1 .. Len(ds) - 1, SizeOf(ds)) = l
  BY <1>8, <1>9
<1>12. Base' = l
  BY <1>3, <1>9 DEF Base
<1>13. round'.next = ds
  BY <1>3
<1>14. NextInv'
  <2>1. /\ ds \in Seq(Nat \X Nat) /\ ds # <<>>
        /\ \A c \in 1 .. Len(ds) - 1 : ds[c][1] < ds[c][2] /\ ds[c][2] <= Base'
        /\ Total(1 .. Len(ds) - 1, SizeOf(ds)) = Base'
    BY <1>7, <1>9, <1>10, <1>11, <1>12
  <2> QED
    BY <1>13, <2>1 DEF NextInv
<1> QED
  BY <1>3, <1>4, <1>12, <1>14

LEMMA SetupKeeps ==
    ASSUME MInv, Setup
    PROVE  MInv'
<1>1. /\ main.pc = "group" /\ phase = "merge" /\ MoreChunks /\ cfg.threads > 1
      /\ queues' = [i \in 1 .. QueueCount |-> NewQueue(ChunksOf(i))]
      /\ round' = [cbi |-> AfterGroup, next |-> Append(round.next, <<Len(tmp), Len(tmp)>>)]
      /\ main' = [main EXCEPT !.pc = "prime", !.q = 1]
      /\ UNCHANGED <<cfg, phase, data, chunks, resultSize, chunkVars, tmp, fq, writer, lock>>
  BY DEF Setup, AtGroup
<1>2. CoreInv /\ RoundInv /\ Readable /\ PreSize \in Nat \ {0}
  BY CoreReadable, CfgFacts DEF MInv
<1>3. /\ NoWriters /\ tmp \in Seq(Val) /\ Len(tmp) + Unmerged <= resultSize
  BY <1>1 DEF MInv, GroupInv
<1>4. CoreInv' /\ ChunkInv'
  BY <1>1, <1>2 DEF CoreInv, chunkVars, ChunkInv
<1>5. main'.pc = "prime" /\ main'.q = 1 /\ main' \in [pc : {"prime"}, ret : {"pop", "stop"}, q : Nat]
  BY <1>1, <1>2 DEF RoundInv
<1>6. AfterGroup \in 1 .. Len(chunks) + 1
  BY <1>1, <1>2, GroupFacts
<1>7. RoundInv'
  <2>1. round'.cbi = AfterGroup /\ round' = [cbi |-> round'.cbi, next |-> round'.next]
    BY <1>1
  <2> QED
    BY <1>1, <1>5, <1>6, <2>1 DEF RoundInv
<1>8. GroupInv' /\ FlowInv' /\ LockInv' /\ RangeInv' /\ WrittenInv' /\ BaseInv'
  BY <1>5 DEF GroupInv, FlowInv, LockInv, RangeInv, WrittenInv, BaseInv, Flowing
<1>9. NextInv' /\ Base' = Len(tmp) /\ Len(tmp) \in Nat
  BY SetupNext
<1>10. /\ QueueCount \in Nat \ {0}
       /\ \A i \in 1 .. QueueCount : ChunksOf(i) \in SUBSET Group
       /\ \A i, j \in 1 .. QueueCount : i # j => ChunksOf(i) \cap ChunksOf(j) = {}
       /\ ChunksOf(1) # {}
  BY <1>1, <1>2, SetupParts
<1>11. PICK n, D : n = QueueCount /\ D = 1 .. n
  OBVIOUS
<1>12. DOMAIN queues' = D /\ Len(queues') = n /\ n \in Nat \ {0}
  BY <1>1, <1>10, <1>11
<1>13. /\ Group \in SUBSET DOMAIN chunks /\ Summable(Group, SizeOf(chunks))
       /\ Total(Group, SizeOf(chunks)) + Total(AfterGroup .. Len(chunks), SizeOf(chunks)) <= Unmerged
  BY <1>1, <1>2, GroupFacts
<1>14. ASSUME NEW i \in D
       PROVE  /\ IsQueue(queues'[i]) /\ queues'[i].value = 0
              /\ Content(queues'[i]) = Total(ChunksOf(i), SizeOf(chunks))
              /\ ChunksOf(i) # {} => queues'[i].front # <<>>
  <2>1. PICK q, S : q = queues'[i] /\ S = ChunksOf(i)
    OBVIOUS
  <2>2. q = NewQueue(S) /\ S \in SUBSET DOMAIN chunks
    BY <1>1, <1>10, <1>11, <1>13, <2>1
  <2>3. /\ IsQueue(q) /\ q.value = 0 /\ Content(q) = Total(S, SizeOf(chunks)) /\ (S # {} => q.front # <<>>)
    BY <1>2, <2>2, NewQueueRight
  <2> QED
    BY <2>1, <2>3
<1>15. ASSUME NEW i \in D PROVE IsQueue(queues[i])' /\ Holdings'[i] = Total(ChunksOf(i), SizeOf(chunks))
  <2>1. queues'[i].value = 0
    BY <1>14
  <2>2. Held(i)' = 0
    BY <2>1 DEF Held
  <2>3. Holdings'[i] = HoldBy(queues'[i], 0) /\ IsQueue(queues[i])'
    BY <1>1, <1>12, <1>14, <2>2, QueuePrimed
  <2>4. Content(queues'[i]) \in Nat
    BY <1>2, <1>14, ContentType
  <2> QED
    BY <1>14, <2>3, <2>4 DEF HoldBy
<1>16. PICK part : part = [i \in D |-> ChunksOf(i)]
  OBVIOUS
<1>17. PICK f, S, h, tot : f = SizeOf(chunks) /\ S = Group /\ h = Holdings' /\ tot = PartTotal(part, f)
  OBVIOUS
<1>18. Summable(D, tot) /\ Total(D, tot) <= Total(S, f)
  <2>1. part \in [D -> SUBSET S] /\ \A i, j \in D : i # j => part[i] \cap part[j] = {}
    BY <1>10, <1>11, <1>16, <1>17
  <2>2. Summable(S, f)
    BY <1>13, <1>17
  <2> QED
    BY <1>11, <1>12, <1>17, <2>1, <2>2, TotalParts
<1>19. \A i \in D : h[i] = tot[i]
  BY <1>15, <1>16, <1>17 DEF PartTotal
<1>20. Total(D, h) = Total(D, tot)
  BY ONLY <1>19, TotalSame
<1>21. QueueInv'
  <2>1. PICK R : R = AfterGroup .. Len(chunks)
    OBVIOUS
  <2>2. Unmerged' = Total(R, f)
    BY <1>1, <1>17, <2>1 DEF Unmerged
  <2>3. Summable(R, f)
    <3>1. R \in SUBSET DOMAIN chunks
      BY <1>2, <1>6, <2>1, ChunkFacts
    <3> QED
      BY <1>2, <1>17, <3>1, ChunkFacts, TotalSubset
  <2>4. PICK a, b, c, d, l : /\ a = Total(D, tot) /\ b = Total(S, f) /\ c = Total(R, f) /\ d = Unmerged
                             /\ l = Len(tmp)
    OBVIOUS
  <2>5. a \in Nat /\ b \in Nat /\ c \in Nat
    BY <1>13, <1>17, <1>18, <2>3, <2>4, TotalType
  <2>6. d \in Nat /\ resultSize \in Nat /\ l \in Nat
    BY <1>2, <1>9, <2>4, QueueRoom
  <2>7. a <= b /\ b + c <= d /\ l + d <= resultSize
    BY <1>3, <1>13, <1>17, <1>18, <2>1, <2>4
  <2>8. l + a + c <= resultSize
    BY ONLY <2>5, <2>6, <2>7
  <2>9. Placed' = l /\ Total(DOMAIN queues, Holdings)' = a /\ Unmerged' = c
    BY <1>5, <1>9, <1>12, <1>17, <1>20, <2>2, <2>4 DEF Placed
  <2>10. (Placed + Total(DOMAIN queues, Holdings) + Unmerged <= resultSize)'
    BY <1>1, <2>8, <2>9
  <2>11. queues' = [i \in DOMAIN queues' |-> queues'[i]]
    BY <1>1
  <2>12. \A i \in DOMAIN queues' : IsQueue(queues[i])'
    BY <1>12, <1>15
  <2> QED
    BY <1>11, <1>12, <2>10, <2>11, <2>12 DEF QueueInv
<1>22. PrimeInv'
  <2>1. 1 \in D /\ queues'[1].front # <<>>
    BY <1>10, <1>11, <1>12, <1>14
  <2>2. NoWriters'
    BY <1>1, <1>3 DEF NoWriters
  <2>3. \A i \in DOMAIN queues' : queues'[i].value = 0
    BY <1>12, <1>14
  <2>4. tmp' \in Seq(Val) /\ Len(tmp') = Base' /\ main'.q \in DOMAIN queues'
    BY <1>1, <1>3, <1>5, <1>9, <1>12, <2>1
  <2> QED
    BY <1>5, <2>1, <2>2, <2>3, <2>4 DEF PrimeInv
<1> QED
  BY <1>4, <1>7, <1>8, <1>9, <1>21, <1>22 DEF MInv

\* The next value of a queue, or none.
LEMMA PoppedRight ==
    ASSUME CoreInv, QueueInv, main.pc # "group", NEW i \in DOMAIN queues, NEW q, q = Popped(i)
    PROVE  /\ IsQueue(q) /\ HoldBy(q, IF q.value = 0 THEN 0 ELSE 1) = HoldBy(queues[i], 0)
           /\ queues[i].front # <<>> => q.value # 0
<1>1. PICK o : o = queues[i]
  OBVIOUS
<1>2. IsQueue(o) /\ Readable
  BY <1>1, CoreReadable DEF QueueInv
<1>3. /\ o = [heads |-> o.heads, front |-> o.front, back |-> o.back, eof |-> o.eof, value |-> o.value]
      /\ IsHeads(o.heads) /\ o.front \in Seq(Val) /\ o.back \in Seq(Val) /\ o.eof \in BOOLEAN
  BY <1>2 DEF IsQueue
<1>4. PICK a, b, x : a = Len(o.front) /\ b = Len(o.back) /\ x = Total(DOMAIN o.heads, RestOf(o.heads))
  OBVIOUS
<1>5. a \in Nat /\ b \in Nat /\ x \in Nat /\ Content(o) = a + b + x
  BY <1>2, <1>4, ContentType DEF Content
<1>6. HoldBy(o, 0) = a + b + x
  BY <1>5 DEF HoldBy
<1>7. \A c, d, n : q = [heads |-> o.heads, front |-> c, back |-> d, eof |-> o.eof, value |-> n]
                   => Content(q) = Len(c) + Len(d) + x
  BY <1>4 DEF Content
<1>8. CASE o.front # <<>>
  <2>1. q = [heads |-> o.heads, front |-> Tail(o.front), back |-> o.back, eof |-> o.eof, value |-> Head(o.front)]
    BY <1>1, <1>3, <1>8 DEF Popped
  <2>2. Head(o.front) \in Val /\ Tail(o.front) \in Seq(Val) /\ Len(Tail(o.front)) = a - 1
    BY <1>3, <1>4, <1>8, HeadTailProperties
  <2>3. IsQueue(q) /\ q.value # 0
    BY <1>3, <2>1, <2>2 DEF IsQueue, Val
  <2>4. Content(q) = Len(Tail(o.front)) + Len(o.back) + x
    BY <1>7, <2>1
  <2>5. Content(q) = (a - 1) + b + x
    BY ONLY <1>4, <2>2, <2>4
  <2>6. HoldBy(q, 1) = a + b + x
    BY <1>5, <2>5 DEF HoldBy
  <2> QED
    BY <1>1, <1>6, <2>3, <2>6
<1>9. CASE o.front = <<>> /\ o.back # <<>>
  <2>1. q = [heads |-> o.heads, front |-> Tail(o.back), back |-> <<>>, eof |-> o.eof, value |-> Head(o.back)]
    BY <1>1, <1>3, <1>9 DEF Popped
  <2>2. Head(o.back) \in Val /\ Tail(o.back) \in Seq(Val) /\ Len(Tail(o.back)) = b - 1
    BY <1>3, <1>4, <1>9, HeadTailProperties
  <2>3. IsQueue(q) /\ q.value # 0
    BY <1>3, <2>1, <2>2 DEF IsQueue, Val
  <2>4. Content(q) = Len(Tail(o.back)) + Len(<<>>) + x
    BY <1>7, <2>1
  <2>5. Content(q) = (b - 1) + 0 + x /\ a = 0
    BY <1>4, <1>9, <2>2, <2>4
  <2>6. HoldBy(q, 1) = a + b + x
    BY <1>5, <2>5 DEF HoldBy
  <2> QED
    BY <1>1, <1>6, <1>9, <2>3, <2>6
<1>10. CASE o.front = <<>> /\ o.back = <<>>
  <2>1. q = [heads |-> o.heads, front |-> o.front, back |-> o.back, eof |-> o.eof, value |-> 0]
    BY <1>1, <1>3, <1>10 DEF Popped
  <2>2. IsQueue(q) /\ q.value = 0
    BY <1>3, <2>1 DEF IsQueue
  <2>3. Content(q) = a + b + x
    BY <1>4, <1>7, <2>1
  <2>4. HoldBy(q, 0) = a + b + x
    BY <1>5, <2>3 DEF HoldBy
  <2> QED
    BY <1>1, <1>6, <1>10, <2>2, <2>4
<1> QED
  BY <1>8, <1>9, <1>10

\* A queue is popped, and its value not yet used.
LEMMA PopQueue ==
    ASSUME CoreInv, QueueInv, main.pc # "group", UNCHANGED <<chunks, resultSize, round>>,
           main.q \in DOMAIN queues, queues' = [queues EXCEPT ![main.q] = Popped(main.q)],
           Held(main.q) = 0, ~Taken', Placed' = Placed,
           \A k \in DOMAIN queues : k # main.q => Held(k) = IF queues[k].value = 0 THEN 0 ELSE 1
    PROVE  QueueInv' /\ Len(queues') = Len(queues) /\ DOMAIN queues' = DOMAIN queues
<1>1. PICK i, q : i = main.q /\ q = Popped(i)
  OBVIOUS
<1>2. i \in DOMAIN queues /\ queues' = [queues EXCEPT ![i] = q]
  BY <1>1
<1>3. IsQueue(q) /\ HoldBy(q, IF q.value = 0 THEN 0 ELSE 1) = HoldBy(queues[i], 0)
  BY <1>1, <1>2, PoppedRight
<1>4. queues'[i] = q /\ \A k \in DOMAIN queues : k # i => queues'[k] = queues[k]
  BY <1>2
<1>5. Held(i)' = IF q.value = 0 THEN 0 ELSE 1
  BY <1>4 DEF Held
<1>6. ASSUME NEW k \in DOMAIN queues, k # i PROVE Held(k)' = Held(k)
  <2>1. queues'[k] = queues[k]
    BY <1>4, <1>6
  <2> QED
    BY <1>1, <1>6, <2>1 DEF Held
<1>7. HoldBy(q, Held(i)') = HoldBy(queues[i], Held(i))
  BY <1>1, <1>3, <1>5
<1> QED
  BY <1>2, <1>3, <1>6, <1>7, OneQueue

LEMMA NextStays ==
    ASSUME NextInv, round' = round, main.pc # "group"
    PROVE  NextInv' /\ Base' = Base
  BY DEF NextInv, Base

LEMMA BaseStays ==
    ASSUME BaseInv, Flowing, round' = round, fq'.offset = fq.offset
    PROVE  BaseInv'
  BY DEF BaseInv, Base

LEMMA PopKeeps ==
    ASSUME MInv, Pop
    PROVE  MInv'
<1>1. /\ main.pc = "pop" /\ queues' = [queues EXCEPT ![main.q] = Popped(main.q)]
      /\ main' = [main EXCEPT !.pc = "select"]
      /\ UNCHANGED <<cfg, phase, data, chunks, resultSize, chunkVars, round, tmp, fq, writer, lock>>
  BY DEF Pop
<1>2. CoreInv /\ RoundInv /\ QueueInv /\ NextInv /\ FlowInv /\ LockInv /\ RangeInv /\ WrittenInv
  BY DEF MInv
<1>3. Taken /\ main.q \in DOMAIN queues /\ fq.data # <<>>
  BY <1>1, <1>2 DEF FlowInv, Flowing, Taken
<1>4. main'.pc = "select" /\ main' \in [pc : {"select"}, ret : {"pop", "stop"}, q : Nat]
  BY <1>1, <1>2 DEF RoundInv
<1>5. CoreInv' /\ ChunkInv' /\ RoundInv'
  BY <1>1, <1>2, <1>4 DEF CoreInv, chunkVars, ChunkInv, RoundInv
<1>6. ~Taken' /\ Placed' = Placed
  BY <1>1, <1>4 DEF Taken, Placed
<1>7. Held(main.q) = 0 /\ \A k \in DOMAIN queues : k # main.q => Held(k) = IF queues[k].value = 0 THEN 0 ELSE 1
  BY <1>3 DEF Held
<1>8. QueueInv'
  BY <1>1, <1>2, <1>3, <1>6, <1>7, PopQueue
<1>9. NextInv'
  BY <1>1, <1>2, NextStays
<1>10. GroupInv' /\ PrimeInv'
  BY <1>4 DEF GroupInv, PrimeInv
<1>11. Flowing /\ Flowing'
  BY <1>1, <1>4 DEF Flowing
<1>12. FlowInv'
  BY <1>1, <1>2, <1>3, <1>4, <1>6, <1>11 DEF FlowInv
<1>13. BaseInv'
  BY <1>1, <1>11, BaseStays DEF MInv
<1>14. LockInv' /\ RangeInv' /\ WrittenInv'
  BY <1>1, <1>2, <1>4, <1>11 DEF LockInv, RangeInv, WrittenInv, Writing
<1> QED
  BY <1>5, <1>8, <1>9, <1>10, <1>12, <1>13, <1>14 DEF MInv

\* A producer fills the back buffer.
LEMMA ProduceQueue ==
    ASSUME MInv, NEW i \in DOMAIN queues, Produce(i)
    PROVE  /\ main.pc # "group" /\ QueueInv' /\ Len(queues') = Len(queues) /\ DOMAIN queues' = DOMAIN queues
           /\ \A k \in DOMAIN queues : queues'[k].value = queues[k].value /\ queues'[k].front = queues[k].front
<1>1. main.pc # "group"
  BY DEF MInv, GroupInv
<1>2. CoreInv /\ QueueInv /\ Readable /\ PreSize \in Nat
  BY CoreReadable, CfgFacts DEF MInv
<1>3. PICK o, f : o = queues[i] /\ f = Filled(o.heads, PreSize)
  OBVIOUS
<1>4. IsQueue(o)
  BY <1>1, <1>2, <1>3 DEF QueueInv
<1>5. /\ o = [heads |-> o.heads, front |-> o.front, back |-> o.back, eof |-> o.eof, value |-> o.value]
      /\ IsHeads(o.heads) /\ o.front \in Seq(Val) /\ o.back \in Seq(Val) /\ o.value \in Nat
  BY <1>4 DEF IsQueue
<1>6. o.back = <<>> /\ UNCHANGED <<cfg, phase, data, chunks, resultSize, main, round, fq>>
      /\ queues' = [queues EXCEPT ![i].heads = f.heads, ![i].back = f.out, ![i].eof = Eof(f)]
  BY <1>3 DEF Produce
<1>7. PICK q : q = [heads |-> f.heads, front |-> o.front, back |-> f.out, eof |-> Eof(f), value |-> o.value]
  OBVIOUS
<1>8. queues' = [queues EXCEPT ![i] = q]
  <2>1. queues = [k \in DOMAIN queues |-> queues[k]]
    BY <1>1, <1>2 DEF QueueInv
  <2>2. PICK h, w, e, a, b, c, d, v :
          /\ h = f.heads /\ w = f.out /\ e = Eof(f)
          /\ a = o.heads /\ b = o.front /\ c = o.back /\ d = o.eof /\ v = o.value
    OBVIOUS
  <2>3. o = [heads |-> a, front |-> b, back |-> c, eof |-> d, value |-> v]
    BY <1>5, <2>2
  <2>4. [[[o EXCEPT !.heads = h] EXCEPT !.back = w] EXCEPT !.eof = e]
          = [heads |-> h, front |-> b, back |-> w, eof |-> e, value |-> v]
    <3>1. PICK x : x = [o EXCEPT !.heads = h]
      OBVIOUS
    <3>2. x = [heads |-> h, front |-> b, back |-> c, eof |-> d, value |-> v]
      BY ONLY <2>3, <3>1
    <3>3. PICK y : y = [x EXCEPT !.back = w]
      OBVIOUS
    <3>4. y = [heads |-> h, front |-> b, back |-> w, eof |-> d, value |-> v]
      BY ONLY <3>2, <3>3
    <3>5. [y EXCEPT !.eof = e] = [heads |-> h, front |-> b, back |-> w, eof |-> e, value |-> v]
      BY ONLY <3>4
    <3> QED
      BY ONLY <3>1, <3>3, <3>5
  <2>5. [[[o EXCEPT !.heads = f.heads] EXCEPT !.back = f.out] EXCEPT !.eof = Eof(f)] = q
    BY <1>7, <2>2, <2>4
  <2> QED
    BY <1>3, <1>6, <2>1, <2>5
<1>9. PICK S : S = DOMAIN o.heads
  OBVIOUS
<1>10. S \in SUBSET DOMAIN chunks /\ o.heads \in [S -> Nat] /\ \A c \in S : o.heads[c] <= SizeOf(chunks)[c]
  BY <1>5, <1>9 DEF IsHeads
<1>11. f \in Fills(S) /\ Len(f.out) + Total(S, RestOf(f.heads)) = Total(S, RestOf(o.heads))
  BY <1>2, <1>3, <1>10, FilledRight
<1>12. f.out \in Seq(Val) /\ f.heads \in [S -> Nat] /\ \A c \in S : f.heads[c] <= SizeOf(chunks)[c]
  BY <1>11 DEF Fills
<1>13. IsHeads(f.heads) /\ DOMAIN f.heads = S
  BY <1>2, <1>10, <1>12, HeadsSummable
<1>14. IsQueue(q)
  BY <1>5, <1>7, <1>12, <1>13 DEF IsQueue, Eof
<1>15. Content(q) = Content(o)
  <2>1. q.front = o.front /\ q.back = f.out /\ q.heads = f.heads
    BY <1>7
  <2>2. PICK a, b, x, y : /\ a = Len(o.front) /\ b = Len(f.out) /\ x = Total(S, RestOf(f.heads))
                          /\ y = Total(S, RestOf(o.heads))
    OBVIOUS
  <2>3. Content(o) = Len(o.front) + Len(o.back) + y
    BY <1>9, <2>2 DEF Content
  <2>4. Content(q) = Len(q.front) + Len(q.back) + x
    <3>1. DOMAIN q.heads = S /\ RestOf(q.heads) = RestOf(f.heads)
      BY <1>13, <2>1
    <3> QED
      BY <2>2, <3>1 DEF Content
  <2>5. Content(q) = a + b + x
    BY <2>1, <2>2, <2>4
  <2>6. Len(o.back) = 0
    BY <1>6
  <2>7. Content(o) = a + 0 + y
    BY ONLY <2>2, <2>3, <2>6
  <2>8. a \in Nat /\ b \in Nat
    BY <1>5, <1>12, <2>2, SeqFacts
  <2>9. x \in Nat /\ b + x = y
    BY <1>2, <1>10, <1>11, <1>12, <2>2, HeadsSummable, TotalType
  <2> QED
    BY ONLY <2>5, <2>7, <2>8, <2>9
<1>16. queues'[i] = q /\ \A k \in DOMAIN queues : k # i => queues'[k] = queues[k]
  BY <1>8
<1>17. \A k \in DOMAIN queues : queues'[k].value = queues[k].value /\ queues'[k].front = queues[k].front
  BY <1>3, <1>7, <1>16
<1>18. \A k \in DOMAIN queues : Held(k)' = Held(k)
  BY <1>6, <1>17 DEF Held, Taken
<1>19. HoldBy(q, Held(i)') = HoldBy(queues[i], Held(i))
  BY <1>3, <1>15, <1>18 DEF HoldBy
<1>20. Placed' = Placed
  BY <1>6 DEF Placed, Base
<1>21. QueueInv' /\ Len(queues') = Len(queues) /\ DOMAIN queues' = DOMAIN queues
  BY <1>1, <1>2, <1>6, <1>8, <1>14, <1>18, <1>19, <1>20, OneQueue
<1> QED
  BY <1>1, <1>17, <1>21

LEMMA ProduceKeeps ==
    ASSUME MInv, NEW i \in DOMAIN queues, Produce(i)
    PROVE  MInv'
<1>1. /\ main.pc # "group" /\ QueueInv' /\ Len(queues') = Len(queues) /\ DOMAIN queues' = DOMAIN queues
      /\ \A k \in DOMAIN queues : queues'[k].value = queues[k].value /\ queues'[k].front = queues[k].front
  BY ProduceQueue
<1>2. UNCHANGED <<cfg, phase, data, chunks, resultSize, chunkVars, main, round, tmp, fq, writer, lock>>
  BY DEF Produce
<1>3. CoreInv' /\ ChunkInv' /\ RoundInv'
  <2>1. phase = "merge"
    BY DEF Produce
  <2> QED
    BY <1>2, <2>1 DEF MInv, CoreInv, chunkVars, ChunkInv, RoundInv
<1>4. NextInv'
  BY <1>1, <1>2, NextStays DEF MInv
<1>5. GroupInv'
  BY <1>1, <1>2 DEF GroupInv
<1>6. PrimeInv'
  <2>1. CASE main.pc = "prime"
    <3>1. 1 \in DOMAIN queues
      BY <1>1, <2>1 DEF MInv, QueueInv
    <3>2. Base' = Base /\ (NoWriters' <=> NoWriters)
      BY <1>2 DEF Base, NoWriters
    <3> QED
      BY <1>1, <1>2, <2>1, <3>1, <3>2 DEF MInv, PrimeInv
  <2>2. CASE main.pc # "prime"
    BY <1>2, <2>2 DEF PrimeInv
  <2> QED
    BY <2>1, <2>2
<1>7. Live' = Live /\ (Taken' <=> Taken) /\ (Flowing' <=> Flowing) /\ Writing' = Writing
  BY <1>1, <1>2 DEF Live, Taken, Flowing, Writing
<1>8. FlowInv'
  BY <1>1, <1>2, <1>7 DEF MInv, FlowInv
<1>9. LockInv' /\ RangeInv' /\ WrittenInv'
  BY <1>1, <1>2, <1>7 DEF MInv, LockInv, RangeInv, WrittenInv
<1>10. BaseInv'
  <2>1. CASE Flowing
    BY <1>2, <2>1, BaseStays DEF MInv
  <2>2. CASE ~Flowing
    BY <1>7, <2>2 DEF BaseInv
  <2> QED
    BY <2>1, <2>2
<1> QED
  BY <1>1, <1>3, <1>4, <1>5, <1>6, <1>8, <1>9, <1>10 DEF MInv

LEMMA SelectKeeps ==
    ASSUME MInv, Select
    PROVE  MInv'
<1>1. /\ main.pc = "select"
      /\ UNCHANGED <<cfg, phase, data, chunks, resultSize, chunkVars, round, tmp, queues, writer, lock>>
  BY DEF Select
<1>2. CoreInv /\ RoundInv /\ QueueInv /\ NextInv /\ FlowInv /\ LockInv /\ RangeInv /\ WrittenInv
  BY DEF MInv
<1>3. Flowing /\ ~Taken
  BY <1>1 DEF Flowing, Taken
<1>4. /\ fq \in FlushRec
      /\ fq.data # <<>> \/ Live # {}
  BY <1>2, <1>3 DEF FlowInv
<1>5. CoreInv' /\ NextInv'
  BY <1>1, <1>2, NextStays DEF CoreInv, chunkVars
<1>6. CASE Live = {}
  <2>1. main' = [main EXCEPT !.pc = "flush", !.ret = "stop"] /\ fq' = fq
    BY <1>6 DEF Select
  <2>2. main'.pc = "flush" /\ main'.ret = "stop" /\ main' \in [pc : {"flush"}, ret : {"stop"}, q : Nat]
    BY <1>2, <2>1 DEF RoundInv
  <2>3. ~Taken' /\ Flowing' /\ Placed' = Placed
    BY <1>1, <2>1, <2>2 DEF Taken, Flowing, Placed
  <2>4. \A i \in DOMAIN queues : Held(i)' = Held(i)
    BY <1>1, <1>3, <2>3 DEF Held
  <2>5. QueueInv'
    BY <1>1, <1>2, <2>3, <2>4, QueuesStay
  <2>6. ChunkInv' /\ RoundInv' /\ GroupInv' /\ PrimeInv'
    BY <1>1, <1>2, <2>2 DEF ChunkInv, RoundInv, GroupInv, PrimeInv
  <2>7. FlowInv'
    BY <1>1, <1>2, <1>3, <1>4, <1>6, <2>1, <2>2, <2>3 DEF FlowInv
  <2>8. LockInv' /\ RangeInv' /\ WrittenInv'
    BY <1>1, <1>2, <1>3, <2>1, <2>2, <2>3 DEF LockInv, RangeInv, WrittenInv, Writing
  <2>9. BaseInv'
    BY <1>1, <1>3, <2>1, BaseStays DEF MInv
  <2> QED
    BY <1>5, <2>5, <2>6, <2>7, <2>8, <2>9 DEF MInv
<1>7. CASE Live # {}
  <2>1. PICK i \in Live :
          /\ fq' = [fq EXCEPT !.data = IF cfg.unique /\ Duplicate(queues[i].value) THEN @
                                       ELSE Append(@, queues[i].value)]
          /\ main' = [pc |-> IF fq'.data # fq.data /\ Len(fq'.data) >= FlushSize THEN "flush" ELSE "pop",
                      ret |-> "pop", q |-> i]
    BY <1>7 DEF Select
  <2>2. i \in DOMAIN queues /\ queues[i].value # 0 /\ i \in Nat /\ queues[i].value \in Nat
    BY <1>1, <1>2, <2>1 DEF Live, QueueInv, IsQueue
  <2>3. main'.pc \in {"flush", "pop"} /\ main'.ret = "pop" /\ main'.q = i
        /\ main' \in [pc : {"flush", "pop"}, ret : {"pop"}, q : Nat]
    BY <2>1, <2>2
  <2>4. Taken' /\ Flowing'
    BY <2>3 DEF Taken, Flowing
  <2>5. /\ fq'.data \in Seq(Val) /\ fq'.data # <<>>
        /\ Len(fq.data) \in Nat /\ Len(fq'.data) \in Nat /\ Len(fq'.data) <= Len(fq.data) + 1
        /\ fq' = [fq EXCEPT !.data = fq'.data]
    <3>1. CASE cfg.unique /\ Duplicate(queues[i].value)
      <4>1. fq' = fq /\ fq.data # <<>>
        BY <1>4, <2>1, <3>1 DEF Duplicate, FlushRec
      <4> QED
        BY <1>4, <4>1, SeqFacts DEF FlushRec
    <3>2. CASE ~(cfg.unique /\ Duplicate(queues[i].value))
      <4>1. PICK d, v : d = fq.data /\ v = queues[i].value
        OBVIOUS
      <4>2. d \in Seq(Val) /\ v \in Val
        BY <1>4, <2>2, <4>1 DEF Val, FlushRec
      <4>3. Append(d, v) \in Seq(Val) /\ Len(Append(d, v)) = Len(d) + 1 /\ Len(d) \in Nat
        BY <4>2
      <4>4. fq' = [fq EXCEPT !.data = Append(d, v)]
        BY <2>1, <3>2, <4>1
      <4>5. fq'.data = Append(d, v)
        BY <1>4, <4>4 DEF FlushRec
      <4>6. Append(d, v) # <<>>
        BY <4>3, EmptySeq
      <4> QED
        BY <4>1, <4>3, <4>4, <4>5, <4>6
    <3> QED
      BY <3>1, <3>2
  <2>6. /\ fq'.offset = fq.offset /\ fq'.entries = fq.entries /\ fq'.running = fq.running
        /\ fq' \in FlushRec
    BY <1>4, <2>5 DEF FlushRec
  <2>7. QueueInv'
    <3>1. \A k \in DOMAIN queues : IsQueue(queues[k])'
      BY <1>1, <1>2, QueuePrimed DEF QueueInv
    <3>2. Held(i) = 1 /\ Held(i)' = 0 /\ \A k \in DOMAIN queues : k # i => Held(k)' = Held(k)
      BY <1>1, <1>3, <2>2, <2>3, <2>4 DEF Held
    <3>3. Holdings[i] = HoldBy(queues[i], 1) /\ Holdings'[i] = HoldBy(queues[i], 0)
      BY <1>1, <1>2, <2>2, <3>2, QueuePrimed, HoldingsType
    <3>4. Content(queues[i]) \in Nat
      BY <1>1, <1>2, <2>2, CoreReadable, ContentType DEF QueueInv
    <3>5. Holdings[i] = Holdings'[i] + 1 /\ Holdings'[i] \in Nat
      BY <3>3, <3>4 DEF HoldBy
    <3>6. \A k \in DOMAIN queues : k # i => Holdings'[k] = Holdings[k]
      BY <1>1, <1>2, <3>2, QueuePrimed, HoldingsType
    <3>7. PICK f, g, D : f = Holdings /\ g = Holdings' /\ D = DOMAIN queues
      OBVIOUS
    <3>8. Summable(D, f) /\ Total(D, f) \in Nat
      BY <1>1, <1>2, <3>7, HoldingsType
    <3>9. i \in D /\ g[i] \in Nat /\ f[i] = g[i] + 1 /\ \A k \in D : k # i => g[k] = f[k]
      BY <2>2, <3>5, <3>6, <3>7
    <3>10. Summable(D, g) /\ Total(D, g) + f[i] = Total(D, f) + g[i]
      BY ONLY <3>8, <3>9, TotalChange
    <3>11. Total(D, g) \in Nat
      BY <3>10, TotalType
    <3>12. PICK s, t, x : s = Total(D, f) /\ t = Total(D, g) /\ x = g[i]
      OBVIOUS
    <3>13. s \in Nat /\ t \in Nat /\ x \in Nat /\ t + (x + 1) = s + x
      BY <3>8, <3>9, <3>10, <3>11, <3>12
    <3>14. t + 1 = s
      BY ONLY <3>13
    <3>15. PICK a, b, u, o : a = Len(fq.data) /\ b = Len(fq'.data) /\ u = Unmerged /\ o = fq.offset
      OBVIOUS
    <3>16. a \in Nat /\ b \in Nat /\ b <= a + 1 /\ u \in Nat /\ o \in Nat /\ resultSize \in Nat
      BY <1>2, <1>4, <2>5, <3>15, QueueRoom DEF FlushRec
    <3>17. o + a + s + u <= resultSize
      BY <1>1, <1>2, <3>7, <3>12, <3>15 DEF QueueInv, Placed
    <3>18. o + b + t + u <= resultSize
      BY ONLY <3>13, <3>14, <3>16, <3>17
    <3>19. Placed' = o + b /\ Total(DOMAIN queues, Holdings)' = t /\ Unmerged' = u
      BY <1>1, <2>3, <2>6, <3>7, <3>12, <3>15, UnmergedStays DEF Placed
    <3>20. (Placed + Total(DOMAIN queues, Holdings) + Unmerged <= resultSize)'
      BY <1>1, <3>18, <3>19
    <3> QED
      BY <1>1, <1>2, <3>1, <3>20 DEF QueueInv
  <2>8. ChunkInv' /\ RoundInv' /\ GroupInv' /\ PrimeInv'
    BY <1>1, <1>2, <2>3 DEF ChunkInv, RoundInv, GroupInv, PrimeInv
  <2>9. FlowInv'
    BY <1>1, <1>2, <1>3, <2>2, <2>3, <2>4, <2>5, <2>6 DEF FlowInv
  <2>10. LockInv' /\ RangeInv' /\ WrittenInv'
    BY <1>1, <1>2, <1>3, <2>3, <2>4, <2>6 DEF LockInv, RangeInv, WrittenInv, Writing
  <2>11. BaseInv'
    BY <1>1, <1>3, <2>6, BaseStays DEF MInv
  <2> QED
    BY <1>5, <2>7, <2>8, <2>9, <2>10, <2>11 DEF MInv
<1> QED
  BY <1>6, <1>7

LEMMA WriterCountNat == ASSUME CoreInv PROVE WriterCount \in Nat \ {0}
<1>1. PICK t : t = cfg.threads /\ t \in Nat
  BY CfgFacts
<1>2. CASE t > 6
  <2>1. PICK a : a = t - 2
    OBVIOUS
  <2>2. a \in Nat /\ a >= 2
    BY <1>1, <1>2, <2>1
  <2>3. a \div 2 \in Nat /\ a \div 2 >= 1
    BY ONLY <2>2, DivAtLeast
  <2> QED
    BY <1>1, <1>2, <2>1, <2>3 DEF WriterCount
<1>3. CASE ~(t > 6)
  BY <1>1, <1>3 DEF WriterCount
<1> QED
  BY <1>2, <1>3

\* The FlushQueue is there and has nothing to write.
LEMMA FlowStart ==
    ASSUME CoreInv, RoundInv, PrimeInv, QueueInv, main.pc = "prime", main'.pc = "select",
           tmp' = tmp \o [i \in 1 .. resultSize - Len(tmp) |-> 0],
           fq' = [NoFlush EXCEPT !.offset = Len(tmp), !.running = TRUE],
           writer' = [j \in 1 .. WriterCount |-> [pc |-> "idle", entry |-> <<0, <<>>>>, read |-> 0]],
           UNCHANGED <<resultSize, lock>>, Live' # {}
    PROVE  /\ FlowInv' /\ LockInv' /\ RangeInv' /\ WrittenInv' /\ ~Taken'
           /\ fq'.offset = Len(tmp) /\ fq'.data = <<>>
<1>1. lock = [m |-> 0, submit |-> 0] /\ tmp \in Seq(Val) /\ Len(tmp) = Base
  BY DEF PrimeInv, NoWriters
<1>2. PICK l, r, n : l = Len(tmp) /\ r = resultSize /\ n = WriterCount
  OBVIOUS
<1>3. l \in Nat /\ r \in Nat /\ n \in Nat \ {0}
  BY <1>1, <1>2, SeqFacts, RoomFacts, WriterCountNat
<1>4. l <= r
  <2>1. PICK t, u : t = Total(DOMAIN queues, Holdings) /\ u = Unmerged
    OBVIOUS
  <2>2. t \in Nat /\ u \in Nat
    BY <2>1, HoldingsType, QueueRoom
  <2>3. l + t + u <= r
    BY <1>1, <1>2, <2>1 DEF QueueInv, Placed
  <2> QED
    BY ONLY <1>3, <2>2, <2>3
<1>5. PICK z : z = [i \in 1 .. r - l |-> 0]
  OBVIOUS
<1>6. z \in Seq(Nat) /\ Len(z) = r - l
  <2>1. r - l \in Nat /\ z \in [1 .. r - l -> Nat]
    BY ONLY <1>3, <1>4, <1>5
  <2> QED
    BY ONLY <2>1, ArraySeq
<1>7. tmp \in Seq(Nat)
  <2>1. Val \in SUBSET Nat
    BY DEF Val
  <2> QED
    BY <1>1, <2>1
<1>8. tmp' = tmp \o z
  BY <1>2, <1>5
<1>9. tmp' \in Seq(Nat) /\ Len(tmp') = r /\ \A p \in 1 .. l : tmp'[p] = tmp[p]
  BY ONLY <1>2, <1>3, <1>4, <1>6, <1>7, <1>8
<1>10. fq' = [data |-> <<>>, offset |-> l, entries |-> <<>>, running |-> TRUE, pending |-> 0, read |-> 0]
  BY <1>2 DEF NoFlush
<1>11. DOMAIN writer' = 1 .. n /\ \A j \in 1 .. n : writer'[j].pc = "idle"
  BY <1>2
<1>12. writer' \in Seq(WriterRec) /\ writer' # <<>>
  <2>1. PICK W : W = WriterRec
    OBVIOUS
  <2>2. <<0, <<>>>> \in Entry
    <3>1. PICK s : s = <<>> /\ s \in Seq(Val)
      BY EmptySeq
    <3>2. <<0, s>> \in Nat \X Seq(Val)
      BY ONLY <3>1
    <3> QED
      BY ONLY <3>1, <3>2 DEF Entry
  <2>3. PICK e, w : e = <<0, <<>>>> /\ w = [pc |-> "idle", entry |-> e, read |-> 0]
    OBVIOUS
  <2>4. writer' \in [1 .. n -> W]
    <3>1. e \in Entry
      BY ONLY <2>2, <2>3
    <3>2. w \in W
      BY ONLY <2>1, <2>3, <3>1 DEF WriterRec
    <3>3. writer' = [j \in 1 .. n |-> w]
      BY <1>2, <2>3
    <3> QED
      BY ONLY <3>2, <3>3
  <2>5. writer' \in Seq(W) /\ Len(writer') = n
    BY <1>3, <2>4, ArraySeq
  <2> QED
    BY <1>3, <2>1, <2>5, EmptySeq
<1>13. Wrap \in Nat \ {0}
  BY OomAssumption
<1>14. fq' \in FlushRec
  <2>1. <<>> \in Seq(Val) /\ <<>> \in Seq(Entry) /\ 0 \in 0 .. Wrap - 1
    BY <1>13, EmptySeq
  <2> QED
    BY ONLY <1>3, <1>10, <2>1 DEF FlushRec
<1>15. Flowing' /\ ~Taken'
  BY DEF Flowing, Taken
<1>16. FlowInv'
  <2>1. fq'.running = TRUE
    BY <1>10
  <2> QED
    BY <1>2, <1>9, <1>11, <1>12, <1>14, <1>15, <2>1 DEF FlowInv
<1>17. LockInv'
  <2>1. \A j \in DOMAIN writer' : j # 0
    BY <1>3, <1>11
  <2> QED
    BY <1>1, <1>11, <2>1 DEF LockInv
<1>18. Writing' = {} /\ DOMAIN fq'.entries = {}
  <2>1. DOMAIN fq'.entries = {}
    BY ONLY <1>10
  <2>2. Writing' = {}
    BY ONLY <1>11 DEF Writing
  <2> QED
    BY ONLY <2>1, <2>2
<1>19. RangeInv'
  BY <1>18 DEF RangeInv
<1>20. WrittenInv'
  <2>1. \A p \in 1 .. l : tmp'[p] # 0
    BY <1>1, <1>2, <1>9 DEF Val
  <2>2. fq'.offset = l
    BY ONLY <1>10
  <2> QED
    BY <2>1, <2>2 DEF WrittenInv
<1>21. fq'.offset = Len(tmp) /\ fq'.data = <<>>
  BY ONLY <1>2, <1>10
<1> QED
  BY ONLY <1>15, <1>16, <1>17, <1>19, <1>20, <1>21

LEMMA PrimeKeeps ==
    ASSUME MInv, Prime
    PROVE  MInv'
<1>1. /\ main.pc = "prime" /\ queues' = [queues EXCEPT ![main.q] = Popped(main.q)]
      /\ UNCHANGED <<cfg, phase, data, chunks, resultSize, chunkVars, round, lock>>
  BY DEF Prime
<1>2. CoreInv /\ RoundInv /\ QueueInv /\ NextInv /\ PrimeInv
  BY DEF MInv
<1>3. PICK i, q : i = main.q /\ q = Popped(i)
  OBVIOUS
<1>4. /\ i \in DOMAIN queues /\ i \in Nat /\ i >= 1 /\ 1 \in DOMAIN queues
      /\ DOMAIN queues = 1 .. Len(queues) /\ Len(queues) \in Nat
  BY <1>1, <1>2, <1>3 DEF PrimeInv, QueueInv
<1>5. /\ DOMAIN queues' = DOMAIN queues /\ queues'[i] = q
      /\ \A k \in DOMAIN queues : k # i => queues'[k] = queues[k]
  BY <1>1, <1>3, <1>4
<1>6. queues[i].front # <<>> => q.value # 0
  BY <1>1, <1>2, <1>3, <1>4, PoppedRight
<1>7. queues'[1].value # 0
  BY <1>1, <1>2, <1>3, <1>4, <1>5, <1>6 DEF PrimeInv
<1>8. Held(i) = 0 /\ \A k \in DOMAIN queues : k # i => Held(k) = IF queues[k].value = 0 THEN 0 ELSE 1
  <2>1. ~Taken /\ queues[i].value = 0
    BY <1>1, <1>2, <1>3, <1>4 DEF Taken, PrimeInv
  <2> QED
    BY <2>1 DEF Held
<1>9. CoreInv' /\ ChunkInv' /\ NextInv' /\ Base' = Base
  BY <1>1, <1>2, NextStays DEF CoreInv, chunkVars, ChunkInv, RoundInv
<1>10. CASE main.q < Len(queues)
  <2>1. main' = [main EXCEPT !.q = @ + 1] /\ UNCHANGED <<tmp, fq, writer>>
    BY <1>10 DEF Prime
  <2>2. main'.pc = "prime" /\ main'.q = i + 1 /\ main' \in [pc : {"prime"}, ret : {"pop", "stop"}, q : Nat]
    BY <1>1, <1>2, <1>3, <1>4, <2>1 DEF RoundInv
  <2>3. ~Taken' /\ Placed' = Placed
    BY <1>1, <1>9, <2>2 DEF Taken, Placed
  <2>4. QueueInv'
    BY <1>1, <1>2, <1>3, <1>4, <1>8, <2>3, PopQueue
  <2>5. RoundInv' /\ GroupInv' /\ FlowInv' /\ LockInv' /\ RangeInv' /\ WrittenInv' /\ BaseInv'
    BY <1>1, <1>2, <2>2 DEF RoundInv, GroupInv, FlowInv, LockInv, RangeInv, WrittenInv, BaseInv, Flowing
  <2>6. PrimeInv'
    <3>1. i + 1 \in DOMAIN queues'
      BY <1>3, <1>4, <1>5, <1>10
    <3>2. ASSUME NEW k \in DOMAIN queues', k >= i + 1 PROVE queues'[k].value = 0
      <4>1. k \in DOMAIN queues /\ k # i /\ k >= i
        BY <1>4, <1>5, <3>2
      <4> QED
        BY <1>1, <1>2, <1>3, <1>5, <4>1 DEF PrimeInv
    <3>3. i + 1 # 1
      BY <1>4
    <3>4. NoWriters' /\ tmp' \in Seq(Val) /\ Len(tmp') = Base'
      BY <1>1, <1>2, <1>9, <2>1 DEF PrimeInv, NoWriters
    <3> QED
      BY <1>7, <2>2, <3>1, <3>2, <3>3, <3>4 DEF PrimeInv
  <2> QED
    BY <1>9, <2>4, <2>5, <2>6 DEF MInv
<1>11. CASE ~(main.q < Len(queues))
  <2>1. /\ main' = [main EXCEPT !.pc = "select"]
        /\ tmp' = tmp \o [k \in 1 .. resultSize - Len(tmp) |-> 0]
        /\ fq' = [NoFlush EXCEPT !.offset = Len(tmp), !.running = TRUE]
        /\ writer' = [j \in 1 .. WriterCount |-> [pc |-> "idle", entry |-> <<0, <<>>>>, read |-> 0]]
    BY <1>11 DEF Prime
  <2>2. main'.pc = "select" /\ main' \in [pc : {"select"}, ret : {"pop", "stop"}, q : Nat]
    BY <1>2, <2>1 DEF RoundInv
  <2>3. Live' # {}
    BY <1>4, <1>5, <1>7 DEF Live
  <2>4. /\ FlowInv' /\ LockInv' /\ RangeInv' /\ WrittenInv' /\ ~Taken'
        /\ fq'.offset = Len(tmp) /\ fq'.data = <<>>
    BY <1>1, <1>2, <2>1, <2>2, <2>3, FlowStart
  <2>5. Placed' = Placed
    <3>1. Len(tmp) = Base /\ Len(tmp) \in Nat
      BY <1>1, <1>2, SeqFacts DEF PrimeInv
    <3>2. Placed' = Len(tmp) + 0 /\ Placed = Base
      BY <1>1, <2>2, <2>4 DEF Placed
    <3> QED
      BY <3>1, <3>2
  <2>6. QueueInv'
    BY <1>1, <1>2, <1>3, <1>4, <1>8, <2>4, <2>5, PopQueue
  <2>7. RoundInv' /\ GroupInv' /\ PrimeInv'
    BY <1>1, <1>2, <2>2 DEF RoundInv, GroupInv, PrimeInv
  <2>8. BaseInv'
    <3>1. Len(tmp) = Base /\ Len(tmp) \in Nat
      BY <1>1, <1>2, SeqFacts DEF PrimeInv
    <3> QED
      BY <1>9, <2>4, <3>1 DEF BaseInv
  <2> QED
    BY <1>9, <2>4, <2>6, <2>7, <2>8 DEF MInv
<1> QED
  BY <1>10, <1>11

-----------------------------------------------------------------------------
(* The FlushQueue                                                          *)

\* What the merging thread remembers while the FlushQueue is there.
FlowMain == [pc : {"select", "pop", "flush", "submit", "count", "stop", "notify", "join"},
             ret : {"pop", "stop"}, q : Nat]
USE DEF FlowMain

\* A step that leaves the queues alone and uses no value.
LEMMA FlowStep ==
    ASSUME MInv, Flowing, Flowing', UNCHANGED <<cfg, phase, data, chunks, resultSize, chunkVars, round, queues>>,
           main' \in FlowMain,
           main'.q = main.q, Taken' <=> Taken, Placed' = Placed,
           FlowInv', LockInv', RangeInv', WrittenInv', BaseInv'
    PROVE  MInv'
<1>1. main.pc # "group" /\ main'.pc # "group" /\ main'.pc # "prime"
  BY DEF Flowing
<1>2. CoreInv /\ RoundInv /\ QueueInv /\ NextInv /\ phase = "merge" /\ cfg.threads > 1
  BY <1>1 DEF MInv, RoundInv
<1>3. \A i \in DOMAIN queues : Held(i)' = Held(i)
  BY DEF Held
<1>4. QueueInv' /\ NextInv'
  BY <1>1, <1>2, <1>3, QueuesStay, NextStays
<1>5. CoreInv' /\ ChunkInv'
  BY <1>2 DEF CoreInv, chunkVars, ChunkInv
<1>6. RoundInv'
  BY <1>2 DEF RoundInv
<1>7. GroupInv' /\ PrimeInv'
  BY <1>1 DEF GroupInv, PrimeInv
<1> QED
  BY <1>4, <1>5, <1>6, <1>7 DEF MInv

\* What the steps of the FlushQueue start from.
LEMMA FlowFacts ==
    ASSUME MInv, Flowing
    PROVE  /\ FlowInv /\ LockInv /\ RangeInv /\ WrittenInv /\ CoreInv
           /\ writer \in Seq(WriterRec) /\ fq \in FlushRec
           /\ main \in FlowMain
           /\ DOMAIN writer = 1 .. Len(writer) /\ Len(writer) \in Nat
           /\ \A j \in DOMAIN writer : writer[j] \in WriterRec /\ j \in Nat /\ j # 0 /\ j # -1
           /\ lock \in [m : {-1, 0} \cup DOMAIN writer, submit : {0} \cup DOMAIN writer]
<1>1. FlowInv /\ LockInv /\ RangeInv /\ WrittenInv /\ RoundInv /\ CoreInv
  BY DEF MInv
<1>2. /\ writer \in Seq(WriterRec) /\ fq \in FlushRec
      /\ lock \in [m : {-1, 0} \cup DOMAIN writer, submit : {0} \cup DOMAIN writer]
  BY <1>1 DEF FlowInv, LockInv
<1>3. DOMAIN writer = 1 .. Len(writer) /\ Len(writer) \in Nat /\ \A j \in DOMAIN writer : writer[j] \in WriterRec
  BY <1>2, SeqFacts
<1>4. \A j \in DOMAIN writer : j \in Nat /\ j # 0 /\ j # -1
  BY <1>3
<1>5. main \in FlowMain
  BY <1>1 DEF RoundInv, Flowing
<1> QED
  BY <1>1, <1>2, <1>3, <1>4, <1>5

LEMMA FlushWaitKeeps ==
    ASSUME MInv, FlushWait
    PROVE  MInv'
<1>1. /\ main.pc = "flush" /\ main' = [main EXCEPT !.pc = "submit"]
      /\ UNCHANGED <<cfg, phase, data, chunks, resultSize, chunkVars, round, tmp, queues, fq, writer, lock>>
  BY DEF FlushWait
<1>2. Flowing
  BY <1>1 DEF Flowing
<1>3. FlowInv /\ LockInv /\ RangeInv /\ WrittenInv
      /\ main \in FlowMain
  BY <1>2, FlowFacts
<1>4. /\ main'.pc = "submit" /\ main'.ret = main.ret /\ main'.q = main.q
      /\ main' \in FlowMain
  BY <1>1, <1>3
<1>5. Flowing' /\ (Taken' <=> Taken) /\ Placed' = Placed
  BY <1>1, <1>4 DEF Flowing, Taken, Placed
<1>6. FlowInv'
  BY <1>1, <1>2, <1>3, <1>4, <1>5 DEF FlowInv
<1>7. LockInv' /\ RangeInv' /\ WrittenInv'
  BY <1>1, <1>2, <1>3, <1>4 DEF LockInv, RangeInv, WrittenInv, Writing
<1>8. BaseInv'
  BY <1>1, <1>2, BaseStays DEF MInv
<1> QED
  BY <1>1, <1>2, <1>4, <1>5, <1>6, <1>7, <1>8, FlowStep

LEMMA StopWritersKeeps ==
    ASSUME MInv, StopWriters
    PROVE  MInv'
<1>1. /\ main.pc = "stop" /\ fq' = [fq EXCEPT !.running = FALSE] /\ main' = [main EXCEPT !.pc = "notify"]
      /\ UNCHANGED <<cfg, phase, data, chunks, resultSize, chunkVars, round, tmp, queues, writer, lock>>
  BY DEF StopWriters
<1>2. Flowing
  BY <1>1 DEF Flowing
<1>3. FlowInv /\ LockInv /\ RangeInv /\ WrittenInv /\ fq \in FlushRec
      /\ main \in FlowMain
  BY <1>2, FlowFacts
<1>4. /\ main'.pc = "notify" /\ main'.ret = main.ret /\ main'.q = main.q
      /\ main' \in FlowMain
  BY <1>1, <1>3
<1>5. /\ fq' \in FlushRec /\ fq'.running = FALSE /\ fq'.data = fq.data /\ fq'.offset = fq.offset
      /\ fq'.entries = fq.entries
  BY <1>1, <1>3 DEF FlushRec
<1>6. Flowing' /\ (Taken' <=> Taken) /\ Placed' = Placed
  BY <1>1, <1>4, <1>5 DEF Flowing, Taken, Placed
<1>7. FlowInv'
  <2>1. fq.running = TRUE
    BY <1>1, <1>2, <1>3 DEF FlowInv, FlushRec
  <2>2. \A j \in DOMAIN writer : writer[j].pc # "done"
    BY <1>2, <1>3, <2>1 DEF FlowInv
  <2> QED
    BY <1>1, <1>2, <1>3, <1>4, <1>5, <1>6, <2>2 DEF FlowInv
<1>8. LockInv' /\ RangeInv' /\ WrittenInv'
  BY <1>1, <1>2, <1>3, <1>4, <1>5 DEF LockInv, RangeInv, WrittenInv, Writing
<1>9. BaseInv'
  BY <1>1, <1>2, <1>5, BaseStays DEF MInv
<1> QED
  BY <1>1, <1>2, <1>4, <1>6, <1>7, <1>8, <1>9, FlowStep

\* Sleeping writers are woken: nobody starts or ends to write.
LEMMA WokenWriters ==
    ASSUME MInv, Flowing, NEW wake, wake \in SUBSET {j \in DOMAIN writer : writer[j].pc = "asleep"},
           writer' = [j \in DOMAIN writer |-> IF j \in wake THEN [writer[j] EXCEPT !.pc = "idle"] ELSE writer[j]]
    PROVE  /\ DOMAIN writer' = DOMAIN writer /\ writer' \in Seq(WriterRec) /\ writer' # <<>>
           /\ Writing' = Writing /\ \A j \in DOMAIN writer : writer'[j].entry = writer[j].entry
           /\ \A j \in DOMAIN writer : \A p \in {"tested", "write", "written", "read", "done"} :
                 writer'[j].pc = p <=> writer[j].pc = p
<1>1. /\ writer \in Seq(WriterRec) /\ DOMAIN writer = 1 .. Len(writer) /\ Len(writer) \in Nat
      /\ \A j \in DOMAIN writer : writer[j] \in WriterRec
  BY FlowFacts
<1>2. writer # <<>>
  BY FlowFacts DEF FlowInv
<1>3. ASSUME NEW j \in DOMAIN writer
      PROVE  /\ writer'[j] \in WriterRec /\ writer'[j].entry = writer[j].entry
             /\ \A p \in {"tested", "write", "written", "read", "done"} : writer'[j].pc = p <=> writer[j].pc = p
  <2>1. CASE j \in wake
    <3>1. writer'[j] = [writer[j] EXCEPT !.pc = "idle"] /\ writer[j].pc = "asleep"
      BY <2>1
    <3> QED
      BY <1>1, <3>1 DEF WriterRec
  <2>2. CASE j \notin wake
    BY <1>1, <2>2
  <2> QED
    BY <2>1, <2>2
<1>4. DOMAIN writer' = DOMAIN writer
  OBVIOUS
<1>5. PICK n, W : n = Len(writer) /\ W = WriterRec
  OBVIOUS
<1>6. writer' \in [1 .. n -> W]
  <2>1. writer' = [j \in 1 .. n |-> writer'[j]]
    BY <1>1, <1>5
  <2> QED
    BY ONLY <1>1, <1>3, <1>5, <2>1
<1>7. writer' \in Seq(W) /\ Len(writer') = n
  BY <1>1, <1>5, <1>6, ArraySeq
<1>8. writer' # <<>>
  BY <1>1, <1>2, <1>5, <1>7, EmptySeq
<1>9. Writing' = Writing
  BY <1>3, <1>4 DEF Writing
<1> QED
  BY <1>3, <1>4, <1>5, <1>7, <1>8, <1>9

LEMMA NotifyWritersKeeps ==
    ASSUME MInv, NotifyWriters
    PROVE  MInv'
<1>1. /\ main.pc = "notify" /\ main' = [main EXCEPT !.pc = "join"]
      /\ writer' = [j \in DOMAIN writer |->
                       IF writer[j].pc = "asleep" THEN [writer[j] EXCEPT !.pc = "idle"] ELSE writer[j]]
      /\ UNCHANGED <<cfg, phase, data, chunks, resultSize, chunkVars, round, tmp, queues, fq, lock>>
  BY DEF NotifyWriters
<1>2. Flowing
  BY <1>1 DEF Flowing
<1>3. FlowInv /\ LockInv /\ RangeInv /\ WrittenInv
      /\ main \in FlowMain
  BY <1>2, FlowFacts
<1>4. /\ main'.pc = "join" /\ main'.ret = main.ret /\ main'.q = main.q
      /\ main' \in FlowMain
  BY <1>1, <1>3
<1>5. Flowing' /\ (Taken' <=> Taken) /\ Placed' = Placed
  BY <1>1, <1>4 DEF Flowing, Taken, Placed
<1>6. PICK wake : wake = {j \in DOMAIN writer : writer[j].pc = "asleep"}
  OBVIOUS
<1>7. writer' = [j \in DOMAIN writer |-> IF j \in wake THEN [writer[j] EXCEPT !.pc = "idle"] ELSE writer[j]]
  BY <1>1, <1>6
<1>8. /\ DOMAIN writer' = DOMAIN writer /\ writer' \in Seq(WriterRec) /\ writer' # <<>>
      /\ Writing' = Writing /\ \A j \in DOMAIN writer : writer'[j].entry = writer[j].entry
      /\ \A j \in DOMAIN writer : \A p \in {"tested", "write", "written", "read", "done"} :
            writer'[j].pc = p <=> writer[j].pc = p
  BY <1>2, <1>6, <1>7, WokenWriters
<1>9. FlowInv'
  BY ONLY <1>1, <1>2, <1>3, <1>4, <1>5, <1>8 DEF FlowInv
<1>10. LockInv'
  BY ONLY <1>1, <1>2, <1>3, <1>4, <1>8 DEF LockInv
<1>11. RangeInv' /\ WrittenInv'
  <2>1. \A j \in Writing : j \in DOMAIN writer
    BY DEF Writing
  <2>2. \A j \in Writing' : writer'[j].entry = writer[j].entry
    BY <1>8, <2>1
  <2> QED
    BY ONLY <1>1, <1>2, <1>3, <1>8, <2>1, <2>2 DEF RangeInv, WrittenInv
<1>12. BaseInv'
  BY <1>1, <1>2, BaseStays DEF MInv
<1> QED
  BY <1>1, <1>2, <1>4, <1>5, <1>9, <1>10, <1>11, <1>12, FlowStep

LEMMA CountPendingKeeps ==
    ASSUME MInv, CountPending
    PROVE  MInv'
<1>1. /\ main.pc = "count" /\ main' = [main EXCEPT !.pc = main.ret] /\ lock' = [lock EXCEPT !.m = 0]
      /\ fq' = [fq EXCEPT !.pending = (fq.read + Len(Last(fq.entries)[2])) % Wrap]
      /\ UNCHANGED <<cfg, phase, data, chunks, resultSize, chunkVars, round, tmp, queues>>
  BY DEF CountPending
<1>2. Flowing
  BY <1>1 DEF Flowing
<1>3. /\ FlowInv /\ LockInv /\ RangeInv /\ WrittenInv /\ fq \in FlushRec
      /\ main \in FlowMain
      /\ lock \in [m : {-1, 0} \cup DOMAIN writer, submit : {0} \cup DOMAIN writer]
      /\ \A j \in DOMAIN writer : j \in Nat /\ j # 0 /\ j # -1
  BY <1>2, FlowFacts
<1>4. /\ main'.pc = main.ret /\ main'.ret = main.ret /\ main'.q = main.q /\ main.ret \in {"pop", "stop"}
      /\ main' \in FlowMain
  BY <1>1, <1>3
<1>5. (fq.read + Len(Last(fq.entries)[2])) % Wrap \in 0 .. Wrap - 1
  <2>1. fq.entries \in Seq(Entry) /\ fq.read \in Nat /\ fq.entries # <<>>
    BY <1>1, <1>2, <1>3 DEF FlushRec, LockInv
  <2>2. Last(fq.entries) \in Entry
    BY <2>1, EmptySeq DEF Last
  <2>3. PICK l : l = Len(Last(fq.entries)[2]) /\ l \in Nat
    <3>1. Last(fq.entries)[2] \in Seq(Val)
      BY <2>2 DEF Entry
    <3> QED
      BY <3>1, SeqFacts
  <2>4. Wrap \in Nat \ {0}
    BY OomAssumption
  <2>5. PICK a : a = fq.read + l /\ a \in Nat
    BY <2>1, <2>3
  <2>6. a % Wrap \in 0 .. Wrap - 1
    BY ONLY <2>4, <2>5
  <2> QED
    BY <2>3, <2>5, <2>6
<1>6. /\ fq' \in FlushRec /\ fq'.running = fq.running /\ fq'.data = fq.data /\ fq'.offset = fq.offset
      /\ fq'.entries = fq.entries
  BY <1>1, <1>3, <1>5 DEF FlushRec
<1>7. lock'.m = 0 /\ lock'.submit = lock.submit /\ lock' \in [m : {0}, submit : {0} \cup DOMAIN writer]
      /\ lock.m = -1
  BY <1>1, <1>2, <1>3 DEF LockInv
<1>8. Flowing' /\ (Taken' <=> Taken) /\ Placed' = Placed
  BY <1>1, <1>4, <1>6 DEF Flowing, Taken, Placed
<1>9. PICK wake \in SUBSET {j \in DOMAIN writer : writer[j].pc = "asleep"} :
        writer' = [j \in DOMAIN writer |-> IF j \in wake THEN [writer[j] EXCEPT !.pc = "idle"] ELSE writer[j]]
  BY DEF CountPending
<1>10. /\ DOMAIN writer' = DOMAIN writer /\ writer' \in Seq(WriterRec) /\ writer' # <<>>
       /\ Writing' = Writing /\ \A j \in DOMAIN writer : writer'[j].entry = writer[j].entry
       /\ \A j \in DOMAIN writer : \A p \in {"tested", "write", "written", "read", "done"} :
            writer'[j].pc = p <=> writer[j].pc = p
  BY <1>2, <1>9, WokenWriters
<1>11. FlowInv'
  BY ONLY <1>1, <1>2, <1>3, <1>4, <1>6, <1>8, <1>10 DEF FlowInv
<1>12. LockInv'
  BY ONLY <1>1, <1>2, <1>3, <1>4, <1>7, <1>10 DEF LockInv
<1>13. RangeInv' /\ WrittenInv'
  <2>1. \A j \in Writing : j \in DOMAIN writer
    BY DEF Writing
  <2>2. \A j \in Writing' : writer'[j].entry = writer[j].entry
    BY <1>10, <2>1
  <2> QED
    BY ONLY <1>1, <1>2, <1>3, <1>6, <1>10, <2>1, <2>2 DEF RangeInv, WrittenInv
<1>14. BaseInv'
  BY <1>1, <1>2, <1>6, BaseStays DEF MInv
<1> QED
  BY <1>1, <1>2, <1>4, <1>8, <1>11, <1>12, <1>13, <1>14, FlowStep

LEMMA EntryPlaces == \A x \in Entry : From(x) \in Nat /\ To(x) \in Nat
<1>1. ASSUME NEW x \in Entry PROVE From(x) \in Nat /\ To(x) \in Nat
  <2>1. x[1] \in Nat /\ x[2] \in Seq(Val)
    BY DEF Entry
  <2> QED
    BY <2>1, SeqFacts DEF From, To
<1> QED
  BY <1>1

LEMMA BaseNat ==
    ASSUME NextInv, main.pc # "group"
    PROVE  Base \in Nat /\ Len(round.next) \in Nat \ {0}
<1>1. PICK cs, n : cs = round.next /\ n = Len(cs)
  OBVIOUS
<1>2. cs \in Seq(Nat \X Nat) /\ cs # <<>>
  BY <1>1 DEF NextInv
<1>3. n \in Nat \ {0}
  BY <1>1, <1>2, EmptySeq
<1>4. cs[n] \in Nat \X Nat
  BY <1>1, <1>2, <1>3, SeqFacts
<1>5. cs[n][1] \in Nat
  BY ONLY <1>4
<1> QED
  BY <1>1, <1>3, <1>5 DEF Base

LEMMA SubmitKeeps ==
    ASSUME MInv, Submit
    PROVE  MInv'
<1>1. /\ main.pc = "submit" /\ lock.m = 0 /\ lock' = [lock EXCEPT !.m = -1] /\ fq' = Submitted
      /\ main' = [main EXCEPT !.pc = "count"]
      /\ UNCHANGED <<cfg, phase, data, chunks, resultSize, chunkVars, round, tmp, queues, writer>>
  BY DEF Submit
<1>2. Flowing
  BY <1>1 DEF Flowing
<1>3. /\ FlowInv /\ LockInv /\ RangeInv /\ WrittenInv /\ fq \in FlushRec
      /\ main \in FlowMain
      /\ lock \in [m : {-1, 0} \cup DOMAIN writer, submit : {0} \cup DOMAIN writer]
      /\ \A j \in DOMAIN writer : j \in Nat /\ j # 0 /\ j # -1
  BY <1>2, FlowFacts
<1>4. /\ main'.pc = "count" /\ main'.ret = main.ret /\ main'.q = main.q
      /\ main' \in FlowMain
  BY <1>1, <1>3
<1>5. PICK d, o, es : d = fq.data /\ o = fq.offset /\ es = fq.entries
  OBVIOUS
<1>6. d \in Seq(Val) /\ d # <<>> /\ o \in Nat /\ es \in Seq(Entry)
  BY <1>1, <1>2, <1>3, <1>5 DEF FlowInv, FlushRec
<1>7. PICK n : n = Len(d) /\ n \in Nat \ {0}
  BY <1>6, EmptySeq
<1>8. PICK ft, lt, e : ft = Front(d) /\ lt = Last(d) /\ e = <<o, ft>>
  OBVIOUS
<1>9. ft \in Seq(Val) /\ Len(ft) = n - 1
  <2>1. n - 1 \in Nat /\ n - 1 <= Len(d) /\ ft = SubSeq(d, 0 + 1, n - 1)
    BY <1>7, <1>8 DEF Front
  <2>2. ft \in Seq(Val) /\ Len(ft) = (n - 1) - 0
    <3>1. PICK m, z : m = n - 1 /\ z = 0 /\ m \in Nat /\ z \in Nat /\ z <= m
      BY <2>1
    <3>2. m <= Len(d) /\ ft = SubSeq(d, z + 1, m)
      BY <2>1, <3>1
    <3>3. ft \in Seq(Val) /\ Len(ft) = m - z
      BY ONLY <1>6, <3>1, <3>2, PartSeq
    <3> QED
      BY <3>1, <3>3
  <2> QED
    BY <1>7, <2>2
<1>10. lt \in Val /\ <<lt>> \in Seq(Val) /\ Len(<<lt>>) = 1 /\ <<lt>> # <<>>
  <2>1. lt \in Val
    BY <1>6, <1>7, <1>8 DEF Last
  <2>2. <<lt>> \in Seq(Val) /\ Len(<<lt>>) = 1 /\ <<lt>> # <<>>
    BY ONLY <2>1
  <2> QED
    BY <2>1, <2>2
<1>11. e \in Entry /\ From(e) = o /\ To(e) = o + (n - 1)
  BY ONLY <1>6, <1>8, <1>9 DEF Entry, From, To
<1>12. PICK E, N, O : E = Append(es, e) /\ N = <<lt>> /\ O = o + n - 1
  OBVIOUS
<1>13. /\ E \in Seq(Entry) /\ Len(E) = Len(es) + 1 /\ E # <<>> /\ Len(es) \in Nat
       /\ DOMAIN es = 1 .. Len(es) /\ DOMAIN E = 1 .. Len(es) + 1
       /\ E[Len(es) + 1] = e /\ \A k \in 1 .. Len(es) : E[k] = es[k]
  BY ONLY <1>6, <1>11, <1>12
<1>14. O \in Nat /\ o <= O /\ O = o + (n - 1) /\ N \in Seq(Val) /\ N # <<>> /\ Len(N) = 1
  BY ONLY <1>6, <1>7, <1>10, <1>12
<1>15. /\ fq'.data = N /\ fq'.offset = O /\ fq'.entries = E /\ fq'.running = fq.running
       /\ fq' \in FlushRec
  <2>1. fq' = [fq EXCEPT !.entries = E, !.data = N, !.offset = O, !.read = fq.pending]
    BY <1>1, <1>3, <1>5, <1>7, <1>8, <1>12 DEF Submitted, FlushRec
  <2> QED
    BY ONLY <1>3, <1>13, <1>14, <2>1 DEF FlushRec
<1>16. lock'.m = -1 /\ lock'.submit = lock.submit /\ lock' \in [m : {-1}, submit : {0} \cup DOMAIN writer]
  BY <1>1, <1>3
<1>17. Flowing' /\ (Taken' <=> Taken)
  BY <1>1, <1>4 DEF Flowing, Taken
<1>18. Placed' = Placed
  <2>1. Placed = o + n /\ Placed' = O + 1
    BY <1>1, <1>4, <1>5, <1>7, <1>14, <1>15 DEF Placed
  <2> QED
    BY ONLY <1>6, <1>7, <1>14, <2>1
<1>19. FlowInv'
  <2>1. fq.running = TRUE
    BY <1>1, <1>2, <1>3 DEF FlowInv, FlushRec
  <2>2. \A j \in DOMAIN writer : writer[j].pc # "done"
    BY <1>2, <1>3, <2>1 DEF FlowInv
  <2> QED
    BY ONLY <1>1, <1>2, <1>3, <1>4, <1>14, <1>15, <1>17, <2>2 DEF FlowInv
<1>20. LockInv'
  BY ONLY <1>1, <1>2, <1>3, <1>4, <1>13, <1>15, <1>16 DEF LockInv
<1>21. Writing' = Writing /\ \A j \in Writing : writer[j].entry \in Entry
  BY <1>1, <1>2, FlowFacts DEF Writing, WriterRec
<1>22. \A x \in Entry : From(x) \in Nat /\ To(x) \in Nat
  BY EntryPlaces
<1>23. \A k \in 1 .. Len(es) : es[k] \in Entry
  BY <1>6, SeqFacts
<1>24. /\ \A k \in 1 .. Len(es) : To(es[k]) <= o
       /\ \A k, l \in 1 .. Len(es) : k < l => To(es[k]) <= From(es[l])
       /\ \A j \in Writing : To(writer[j].entry) <= o
       /\ \A j \in Writing, k \in 1 .. Len(es) : To(writer[j].entry) <= From(es[k])
       /\ \A i, j \in Writing : i # j => \/ To(writer[i].entry) <= From(writer[j].entry)
                                         \/ To(writer[j].entry) <= From(writer[i].entry)
  BY <1>2, <1>3, <1>5, <1>13 DEF RangeInv
<1>25. RangeInv'
  <2>1. ASSUME NEW k \in DOMAIN E PROVE To(E[k]) <= O
    <3>1. CASE k \in 1 .. Len(es)
      <4>1. E[k] = es[k] /\ To(es[k]) <= o /\ To(es[k]) \in Nat
        BY ONLY <1>13, <1>22, <1>23, <1>24, <3>1
      <4> QED
        BY ONLY <1>6, <1>14, <4>1
    <3>2. CASE k = Len(es) + 1
      BY ONLY <1>6, <1>11, <1>13, <1>14, <3>2
    <3> QED
      BY ONLY <1>13, <3>1, <3>2, k \in DOMAIN E
  <2>2. ASSUME NEW k \in DOMAIN E, NEW l \in DOMAIN E, k < l PROVE To(E[k]) <= From(E[l])
    <3>1. k \in 1 .. Len(es)
      BY ONLY <1>13, <2>2
    <3>2. CASE l \in 1 .. Len(es)
      BY ONLY <1>13, <1>24, <2>2, <3>1, <3>2
    <3>3. CASE l = Len(es) + 1
      BY ONLY <1>11, <1>13, <1>24, <3>1, <3>3
    <3> QED
      BY ONLY <1>13, <3>2, <3>3, l \in DOMAIN E
  <2>3. ASSUME NEW j \in Writing PROVE To(writer[j].entry) <= O
    <3>1. To(writer[j].entry) <= o /\ To(writer[j].entry) \in Nat
      BY <1>21, <1>22, <1>24
    <3> QED
      BY ONLY <1>6, <1>14, <3>1
  <2>4. ASSUME NEW j \in Writing, NEW k \in DOMAIN E PROVE To(writer[j].entry) <= From(E[k])
    <3>1. CASE k \in 1 .. Len(es)
      BY ONLY <1>13, <1>24, <3>1, j \in Writing
    <3>2. CASE k = Len(es) + 1
      BY ONLY <1>11, <1>13, <1>24, <3>2, j \in Writing
    <3> QED
      BY ONLY <1>13, <3>1, <3>2, k \in DOMAIN E
  <2> QED
    BY ONLY <1>1, <1>15, <1>21, <1>24, <2>1, <2>2, <2>3, <2>4 DEF RangeInv
<1>26. WrittenInv'
  <2>1. ASSUME NEW p \in 1 .. O
        PROVE  \/ tmp[p] # 0
               \/ \E k \in DOMAIN E : In(p, E[k])
               \/ \E j \in Writing : In(p, writer[j].entry)
    <3>1. CASE p <= o
      <4>1. \/ tmp[p] # 0
            \/ \E k \in 1 .. Len(es) : In(p, es[k])
            \/ \E j \in Writing : In(p, writer[j].entry)
        <5>1. p \in 1 .. fq.offset
          BY ONLY <1>5, <1>6, <1>14, <3>1, p \in 1 .. O
        <5> QED
          BY ONLY <1>2, <1>3, <1>5, <1>13, <5>1 DEF WrittenInv
      <4> QED
        BY ONLY <1>13, <4>1
    <3>2. CASE p > o
      <4>1. In(p, e)
        BY ONLY <1>6, <1>11, <1>14, <3>2, p \in 1 .. O DEF In
      <4> QED
        BY ONLY <1>13, <4>1
    <3> QED
      BY <1>6, <1>14, <3>1, <3>2
  <2> QED
    BY ONLY <1>1, <1>15, <1>21, <2>1 DEF WrittenInv
<1>27. BaseInv'
  <2>1. Base <= o /\ Base \in Nat /\ Base' = Base
    <3>1. NextInv /\ main.pc # "group" /\ BaseInv
      BY <1>1 DEF MInv
    <3>2. Base' = Base /\ Base <= o
      BY <1>1, <1>2, <1>5, <3>1 DEF Base, BaseInv
    <3>3. Base \in Nat
      BY <3>1, BaseNat
    <3> QED
      BY <3>2, <3>3
  <2>2. Base <= O
    BY ONLY <1>6, <1>14, <2>1
  <2> QED
    BY <1>15, <2>1, <2>2 DEF BaseInv
<1> QED
  BY <1>1, <1>2, <1>4, <1>17, <1>18, <1>19, <1>20, <1>25, <1>26, <1>27, FlowStep

LEMMA WriterMoves ==
    ASSUME MInv, Flowing, NEW j \in DOMAIN writer, NEW w \in WriterRec, writer' = [writer EXCEPT ![j] = w]
    PROVE  /\ DOMAIN writer' = DOMAIN writer /\ writer' \in Seq(WriterRec) /\ writer' # <<>>
           /\ writer'[j] = w /\ \A i \in DOMAIN writer : i # j => writer'[i] = writer[i]
<1>1. /\ writer \in Seq(WriterRec) /\ writer # <<>> /\ DOMAIN writer = 1 .. Len(writer)
      /\ Len(writer) \in Nat /\ \A i \in DOMAIN writer : writer[i] \in WriterRec
  BY FlowFacts DEF FlowInv
<1>2. /\ DOMAIN writer' = DOMAIN writer /\ writer'[j] = w
      /\ \A i \in DOMAIN writer : i # j => writer'[i] = writer[i]
  OBVIOUS
<1>3. PICK n, W : n = Len(writer) /\ W = WriterRec
  OBVIOUS
<1>4. writer' \in [1 .. n -> W]
  <2>1. \A i \in 1 .. n : writer'[i] \in W
    BY <1>1, <1>2, <1>3
  <2>2. writer' = [i \in 1 .. n |-> writer'[i]]
    BY <1>1, <1>3
  <2> QED
    BY ONLY <2>1, <2>2
<1>5. writer' \in Seq(W) /\ Len(writer') = n
  BY <1>1, <1>3, <1>4, ArraySeq
<1>6. writer' # <<>>
  BY <1>1, <1>3, <1>5, EmptySeq
<1> QED
  BY <1>2, <1>3, <1>5, <1>6

\* A step of writer j: the main thread, the queues and what is placed stay.
LEMMA WriterKeeps ==
    ASSUME MInv, Flowing,
           UNCHANGED <<cfg, phase, data, chunks, resultSize, chunkVars, main, round, queues>>,
           fq'.data = fq.data, fq'.offset = fq.offset,
           FlowInv', LockInv', RangeInv', WrittenInv'
    PROVE  MInv'
<1>1. Flowing' /\ (Taken' <=> Taken) /\ Placed' = Placed /\ main'.q = main.q
  BY DEF Flowing, Taken, Placed, Base
<1>2. main' \in FlowMain
  BY FlowFacts
<1>3. BaseInv'
  BY BaseStays DEF MInv
<1> QED
  BY <1>1, <1>2, <1>3, FlowStep

LEMMA SleepKeeps ==
    ASSUME MInv, Flowing, NEW j \in DOMAIN writer, Sleep(j)
    PROVE  MInv'
<1>1. /\ writer[j].pc = "tested" /\ writer' = [writer EXCEPT ![j].pc = "asleep"]
      /\ lock' = [lock EXCEPT !.m = 0]
      /\ UNCHANGED <<cfg, phase, data, chunks, resultSize, chunkVars, main, round, tmp, queues, fq>>
  BY DEF Sleep
<1>2. /\ FlowInv /\ LockInv /\ RangeInv /\ WrittenInv /\ writer[j] \in WriterRec
      /\ \A i \in DOMAIN writer : i \in Nat /\ i # 0 /\ i # -1
      /\ lock \in [m : {-1, 0} \cup DOMAIN writer, submit : {0} \cup DOMAIN writer]
  BY FlowFacts
<1>3. PICK w : w = [writer[j] EXCEPT !.pc = "asleep"]
  OBVIOUS
<1>4. w \in WriterRec /\ w.pc = "asleep" /\ w.entry = writer[j].entry
  BY <1>2, <1>3 DEF WriterRec
<1>5. writer' = [writer EXCEPT ![j] = w]
  BY <1>1, <1>3
<1>6. /\ DOMAIN writer' = DOMAIN writer /\ writer' \in Seq(WriterRec) /\ writer' # <<>>
      /\ writer'[j] = w /\ \A i \in DOMAIN writer : i # j => writer'[i] = writer[i]
  BY <1>4, <1>5, WriterMoves
<1>7. lock'.m = 0 /\ lock'.submit = lock.submit /\ lock' \in [m : {0}, submit : {0} \cup DOMAIN writer]
  BY <1>1, <1>2
<1>8. Flowing' /\ (Taken' <=> Taken) /\ Live' = Live
  BY <1>1 DEF Flowing, Taken, Live
<1>9. Writing' = Writing /\ \A i \in Writing : writer'[i] = writer[i]
  BY <1>1, <1>4, <1>6 DEF Writing
<1>10. FlowInv'
  BY ONLY <1>1, <1>2, <1>4, <1>6, <1>8, Flowing DEF FlowInv
<1>11. LockInv'
  <2>1. lock.m = j /\ main.pc # "count"
    BY <1>1, <1>2 DEF LockInv
  <2> QED
    BY ONLY <1>1, <1>2, <1>4, <1>6, <1>7, <2>1, Flowing DEF LockInv
<1>12. RangeInv' /\ WrittenInv'
  BY ONLY <1>1, <1>2, <1>9, Flowing DEF RangeInv, WrittenInv
<1> QED
  BY <1>1, <1>10, <1>11, <1>12, WriterKeeps

LEMMA ReadPendingKeeps ==
    ASSUME MInv, Flowing, NEW j \in DOMAIN writer, ReadPending(j)
    PROVE  MInv'
<1>1. /\ writer[j].pc = "written" /\ writer' = [writer EXCEPT ![j].pc = "read", ![j].read = fq.pending]
      /\ lock' = [lock EXCEPT !.submit = j]
      /\ UNCHANGED <<cfg, phase, data, chunks, resultSize, chunkVars, main, round, tmp, queues, fq>>
  BY DEF ReadPending
<1>2. /\ FlowInv /\ LockInv /\ RangeInv /\ WrittenInv /\ writer[j] \in WriterRec /\ fq \in FlushRec
      /\ lock \in [m : {-1, 0} \cup DOMAIN writer, submit : {0} \cup DOMAIN writer]
  BY FlowFacts
<1>3. PICK w : w = [writer[j] EXCEPT !.pc = "read", !.read = fq.pending]
  OBVIOUS
<1>4. w \in WriterRec /\ w.pc = "read" /\ w.entry = writer[j].entry
  <2>1. fq.pending \in Nat
    BY <1>2, OomAssumption DEF FlushRec
  <2> QED
    BY <1>2, <1>3, <2>1 DEF WriterRec
<1>5. writer' = [writer EXCEPT ![j] = w]
  BY <1>1, <1>3
<1>6. /\ DOMAIN writer' = DOMAIN writer /\ writer' \in Seq(WriterRec) /\ writer' # <<>>
      /\ writer'[j] = w /\ \A i \in DOMAIN writer : i # j => writer'[i] = writer[i]
  BY <1>4, <1>5, WriterMoves
<1>7. /\ lock'.m = lock.m /\ lock'.submit = j
      /\ lock' \in [m : {-1, 0} \cup DOMAIN writer, submit : {0} \cup DOMAIN writer]
  BY <1>1, <1>2
<1>8. Flowing' /\ (Taken' <=> Taken) /\ Live' = Live
  BY <1>1 DEF Flowing, Taken, Live
<1>9. Writing' = Writing /\ \A i \in Writing : writer'[i] = writer[i]
  BY <1>1, <1>4, <1>6 DEF Writing
<1>10. FlowInv'
  BY ONLY <1>1, <1>2, <1>4, <1>6, <1>8, Flowing DEF FlowInv
<1>11. LockInv'
  BY ONLY <1>1, <1>2, <1>4, <1>6, <1>7, Flowing DEF LockInv
<1>12. RangeInv' /\ WrittenInv'
  BY ONLY <1>1, <1>2, <1>9, Flowing DEF RangeInv, WrittenInv
<1> QED
  BY <1>1, <1>10, <1>11, <1>12, WriterKeeps

LEMMA WritePendingKeeps ==
    ASSUME MInv, Flowing, NEW j \in DOMAIN writer, WritePending(j)
    PROVE  MInv'
<1>1. /\ writer[j].pc = "read" /\ writer' = [writer EXCEPT ![j].pc = "idle"]
      /\ fq' = [fq EXCEPT !.pending = (writer[j].read - Len(writer[j].entry[2])) % Wrap]
      /\ lock' = [lock EXCEPT !.submit = 0]
      /\ UNCHANGED <<cfg, phase, data, chunks, resultSize, chunkVars, main, round, tmp, queues>>
  BY DEF WritePending
<1>2. /\ FlowInv /\ LockInv /\ RangeInv /\ WrittenInv /\ writer[j] \in WriterRec /\ fq \in FlushRec
      /\ lock \in [m : {-1, 0} \cup DOMAIN writer, submit : {0} \cup DOMAIN writer]
  BY FlowFacts
<1>3. PICK w : w = [writer[j] EXCEPT !.pc = "idle"]
  OBVIOUS
<1>4. w \in WriterRec /\ w.pc = "idle" /\ w.entry = writer[j].entry
  BY <1>2, <1>3 DEF WriterRec
<1>5. writer' = [writer EXCEPT ![j] = w]
  BY <1>1, <1>3
<1>6. /\ DOMAIN writer' = DOMAIN writer /\ writer' \in Seq(WriterRec) /\ writer' # <<>>
      /\ writer'[j] = w /\ \A i \in DOMAIN writer : i # j => writer'[i] = writer[i]
  BY <1>4, <1>5, WriterMoves
<1>7. /\ lock'.m = lock.m /\ lock'.submit = 0
      /\ lock' \in [m : {-1, 0} \cup DOMAIN writer, submit : {0} \cup DOMAIN writer]
  BY <1>1, <1>2
<1>8. (writer[j].read - Len(writer[j].entry[2])) % Wrap \in 0 .. Wrap - 1
  <2>1. writer[j].entry \in Entry /\ writer[j].read \in Nat
    BY <1>2 DEF WriterRec
  <2>2. PICK l : l = Len(writer[j].entry[2]) /\ l \in Nat
    <3>1. writer[j].entry[2] \in Seq(Val)
      BY <2>1 DEF Entry
    <3> QED
      BY <3>1, SeqFacts
  <2>3. Wrap \in Nat \ {0}
    BY OomAssumption
  <2>4. PICK a : a = writer[j].read - l /\ a \in Int
    BY <2>1, <2>2
  <2>5. a % Wrap \in 0 .. Wrap - 1
    BY ONLY <2>3, <2>4
  <2> QED
    BY <2>2, <2>4, <2>5
<1>9. /\ fq' \in FlushRec /\ fq'.running = fq.running /\ fq'.data = fq.data /\ fq'.offset = fq.offset
      /\ fq'.entries = fq.entries
  BY <1>1, <1>2, <1>8 DEF FlushRec
<1>10. Flowing' /\ (Taken' <=> Taken) /\ Live' = Live
  BY <1>1 DEF Flowing, Taken, Live
<1>11. Writing' = Writing /\ \A i \in Writing : writer'[i] = writer[i]
  BY <1>1, <1>4, <1>6 DEF Writing
<1>12. FlowInv'
  BY ONLY <1>1, <1>2, <1>4, <1>6, <1>9, <1>10, Flowing DEF FlowInv
<1>13. LockInv'
  BY ONLY <1>1, <1>2, <1>4, <1>6, <1>7, <1>9, Flowing DEF LockInv
<1>14. RangeInv' /\ WrittenInv'
  BY ONLY <1>1, <1>2, <1>9, <1>11, Flowing DEF RangeInv, WrittenInv
<1> QED
  BY <1>1, <1>9, <1>12, <1>13, <1>14, WriterKeeps

\* tmp has room for all that was submitted.
LEMMA OffsetFits ==
    ASSUME MInv, Flowing
    PROVE  fq.offset \in Nat /\ Len(tmp) \in Nat /\ fq.offset + Len(fq.data) <= Len(tmp) /\ Len(fq.data) \in Nat
<1>1. /\ FlowInv /\ QueueInv /\ CoreInv /\ RoundInv /\ main.pc \notin {"group", "prime"}
  BY DEF MInv, Flowing
<1>2. fq \in FlushRec /\ Len(tmp) = resultSize
  BY <1>1 DEF FlowInv
<1>3. fq.offset \in Nat /\ fq.data \in Seq(Val)
  BY <1>2 DEF FlushRec
<1>4. PICK o, d, t, u : o = fq.offset /\ d = Len(fq.data) /\ t = Total(DOMAIN queues, Holdings) /\ u = Unmerged
  OBVIOUS
<1>5. o \in Nat /\ d \in Nat /\ t \in Nat /\ u \in Nat /\ resultSize \in Nat
  BY <1>1, <1>3, <1>4, SeqFacts, HoldingsType, QueueRoom
<1>6. o + d + t + u <= resultSize
  BY <1>1, <1>4 DEF QueueInv, Placed
<1>7. o + d <= resultSize
  BY ONLY <1>5, <1>6
<1> QED
  BY <1>2, <1>4, <1>5, <1>7

LEMMA WriteKeeps ==
    ASSUME MInv, Flowing, NEW j \in DOMAIN writer, Write(j)
    PROVE  MInv'
<1>1. /\ writer[j].pc = "write" /\ writer' = [writer EXCEPT ![j].pc = "written"]
      /\ tmp' = Replaced(tmp, writer[j].entry[1], writer[j].entry[2])
      /\ UNCHANGED <<cfg, phase, data, chunks, resultSize, chunkVars, main, round, queues, fq, lock>>
  BY DEF Write
<1>2. /\ FlowInv /\ LockInv /\ RangeInv /\ WrittenInv /\ writer[j] \in WriterRec
      /\ tmp \in Seq(Nat) /\ Len(tmp) = resultSize
  BY FlowFacts DEF FlowInv
<1>3. PICK w : w = [writer[j] EXCEPT !.pc = "written"]
  OBVIOUS
<1>4. w \in WriterRec /\ w.pc = "written" /\ w.entry = writer[j].entry
  BY <1>2, <1>3 DEF WriterRec
<1>5. writer' = [writer EXCEPT ![j] = w]
  BY <1>1, <1>3
<1>6. /\ DOMAIN writer' = DOMAIN writer /\ writer' \in Seq(WriterRec) /\ writer' # <<>>
      /\ writer'[j] = w /\ \A i \in DOMAIN writer : i # j => writer'[i] = writer[i]
  BY <1>4, <1>5, WriterMoves
<1>7. PICK e, a, new, l : e = writer[j].entry /\ a = e[1] /\ new = e[2] /\ l = Len(tmp)
  OBVIOUS
<1>8. e \in Entry /\ a \in Nat /\ new \in Seq(Val) /\ l \in Nat
  <2>1. e \in Entry
    BY <1>2, <1>7 DEF WriterRec
  <2> QED
    BY <1>2, <1>7, <2>1, SeqFacts DEF Entry
<1>9. new \in Seq(Nat) /\ Len(new) \in Nat /\ \A i \in 1 .. Len(new) : new[i] \in Val
  <2>1. Val \in SUBSET Nat
    BY DEF Val
  <2>2. new \in Seq(Nat)
    <3>1. PICK n : n = Len(new) /\ n \in Nat
      BY <1>8, SeqFacts
    <3>2. \A i \in 1 .. n : new[i] \in Nat
      BY <1>8, <2>1, <3>1, SeqFacts
    <3>3. new = [i \in 1 .. n |-> new[i]]
      BY ONLY <1>8, <3>1
    <3>4. new \in [1 .. n -> Nat]
      BY ONLY <3>2, <3>3
    <3> QED
      BY ONLY <3>1, <3>4, ArraySeq
  <2> QED
    BY <1>8, <2>2, SeqFacts
<1>10. /\ tmp' \in Seq(Nat) /\ Len(tmp') = l
       /\ \A i \in 1 .. l : tmp'[i] = IF i > a /\ i <= a + Len(new) THEN new[i - a] ELSE tmp[i]
  <2>1. PICK r : r = tmp' /\ r = Replaced(tmp, a, new)
    BY <1>1, <1>7
  <2>2. /\ r \in Seq(Nat) /\ Len(r) = Len(tmp)
        /\ \A i \in 1 .. Len(tmp) : r[i] = IF i > a /\ i <= a + Len(new) THEN new[i - a] ELSE tmp[i]
    BY <1>2, <1>8, <1>9, <2>1, ReplacedSeq
  <2> QED
    BY ONLY <1>7, <2>1, <2>2
<1>11. Flowing' /\ (Taken' <=> Taken) /\ Live' = Live
  BY <1>1 DEF Flowing, Taken, Live
<1>12. Writing' = Writing \ {j} /\ j \in Writing /\ \A i \in Writing' : writer'[i] = writer[i]
  BY <1>1, <1>4, <1>6 DEF Writing
<1>13. FlowInv'
  BY ONLY <1>1, <1>2, <1>4, <1>6, <1>7, <1>10, <1>11, Flowing DEF FlowInv
<1>14. LockInv'
  BY ONLY <1>1, <1>2, <1>4, <1>6, Flowing DEF LockInv
<1>15. RangeInv'
  BY ONLY <1>1, <1>2, <1>12, Flowing DEF RangeInv
<1>16. WrittenInv'
  <2>1. ASSUME NEW p \in 1 .. fq.offset
        PROVE  \/ tmp'[p] # 0
               \/ \E k \in DOMAIN fq.entries : In(p, fq.entries[k])
               \/ \E i \in Writing' : In(p, writer'[i].entry)
    <3>1. p \in 1 .. l
      <4>1. PICK o, d : o = fq.offset /\ d = Len(fq.data)
        OBVIOUS
      <4>2. o \in Nat /\ d \in Nat /\ o + d <= l
        BY <1>7, <4>1, OffsetFits
      <4>3. p \in 1 .. o
        BY <4>1
      <4> QED
        BY ONLY <1>8, <4>2, <4>3
    <3>2. \/ tmp[p] # 0
          \/ \E k \in DOMAIN fq.entries : In(p, fq.entries[k])
          \/ \E i \in Writing : In(p, writer[i].entry)
      BY <1>2 DEF WrittenInv
    <3>3. CASE p > a /\ p <= a + Len(new)
      <4>1. tmp'[p] = new[p - a]
        BY ONLY <1>10, <3>1, <3>3
      <4>2. p - a \in 1 .. Len(new)
        BY ONLY <1>8, <1>9, <3>1, <3>3
      <4>3. new[p - a] \in Val
        BY ONLY <1>9, <4>2
      <4> QED
        BY <4>1, <4>3 DEF Val
    <3>4. CASE ~(p > a /\ p <= a + Len(new))
      <4>1. tmp'[p] = tmp[p]
        BY ONLY <1>10, <3>1, <3>4
      <4>2. ~In(p, writer[j].entry)
        BY ONLY <1>7, <1>8, <1>9, <3>1, <3>4 DEF In, From, To
      <4> QED
        BY ONLY <1>12, <3>2, <4>1, <4>2
    <3> QED
      BY <3>3, <3>4
  <2> QED
    BY ONLY <1>1, <2>1 DEF WrittenInv
<1> QED
  BY <1>1, <1>13, <1>14, <1>15, <1>16, WriterKeeps

\* A writer takes the first entry: it lies before the others and after what is being written.
LEMMA LookTakes ==
    ASSUME MInv, Flowing, NEW j \in DOMAIN writer, Look(j), fq.entries # <<>>
    PROVE  MInv'
<1>1. /\ writer[j].pc = "idle" /\ lock.m = 0
      /\ writer' = [writer EXCEPT ![j].pc = "write", ![j].entry = Head(fq.entries)]
      /\ fq' = [fq EXCEPT !.entries = Tail(@)] /\ lock' = lock
      /\ UNCHANGED <<cfg, phase, data, chunks, resultSize, chunkVars, main, round, tmp, queues>>
  BY DEF Look
<1>2. /\ FlowInv /\ LockInv /\ RangeInv /\ WrittenInv /\ writer[j] \in WriterRec /\ fq \in FlushRec
      /\ \A i \in DOMAIN writer : i \in Nat /\ i # 0 /\ i # -1
  BY FlowFacts
<1>3. PICK es, n : es = fq.entries /\ n = Len(es)
  OBVIOUS
<1>4. es \in Seq(Entry) /\ es # <<>> /\ n \in Nat \ {0} /\ DOMAIN es = 1 .. n
  BY <1>2, <1>3, EmptySeq, SeqFacts DEF FlushRec
<1>5. PICK E, e, w : E = Tail(es) /\ e = Head(es) /\ w = [writer[j] EXCEPT !.pc = "write", !.entry = e]
  OBVIOUS
<1>6. /\ e = es[1] /\ e \in Entry /\ E \in Seq(Entry) /\ DOMAIN E = 1 .. n - 1
      /\ \A k \in 1 .. n - 1 : E[k] = es[k + 1]
  BY ONLY <1>3, <1>4, <1>5
<1>7. w \in WriterRec /\ w.pc = "write" /\ w.entry = e
  BY <1>2, <1>5, <1>6 DEF WriterRec
<1>8. writer' = [writer EXCEPT ![j] = w]
  BY <1>1, <1>3, <1>5
<1>9. /\ DOMAIN writer' = DOMAIN writer /\ writer' \in Seq(WriterRec) /\ writer' # <<>>
      /\ writer'[j] = w /\ \A i \in DOMAIN writer : i # j => writer'[i] = writer[i]
  BY <1>7, <1>8, WriterMoves
<1>10. /\ fq' \in FlushRec /\ fq'.running = fq.running /\ fq'.data = fq.data /\ fq'.offset = fq.offset
       /\ fq'.entries = E
  <2>1. fq' = [fq EXCEPT !.entries = E]
    BY <1>1, <1>3, <1>5
  <2> QED
    BY ONLY <1>2, <1>6, <2>1 DEF FlushRec
<1>11. Flowing' /\ (Taken' <=> Taken) /\ Live' = Live
  BY <1>1 DEF Flowing, Taken, Live
<1>12. \A i \in DOMAIN writer : writer[i].pc # "done"
  BY <1>2, <1>3, <1>4 DEF FlowInv
<1>13. FlowInv'
  <2>1. \A i \in DOMAIN writer' : writer'[i].pc # "done"
    BY <1>7, <1>9, <1>12
  <2> QED
    BY ONLY <1>1, <1>2, <1>9, <1>10, <1>11, <2>1, Flowing DEF FlowInv
<1>14. LockInv'
  <2>1. main.pc # "count"
    BY <1>1, <1>2 DEF LockInv
  <2> QED
    BY ONLY <1>1, <1>2, <1>7, <1>9, <2>1, Flowing DEF LockInv
<1>15. Writing' = Writing \cup {j} /\ j \notin Writing /\ (\A i \in Writing : writer'[i] = writer[i])
       /\ writer'[j].entry = e
  BY <1>1, <1>7, <1>9 DEF Writing
<1>16. /\ \A k \in 1 .. n : To(es[k]) <= fq.offset
       /\ \A k, l \in 1 .. n : k < l => To(es[k]) <= From(es[l])
       /\ \A i \in Writing : To(writer[i].entry) <= fq.offset
       /\ \A i \in Writing, k \in 1 .. n : To(writer[i].entry) <= From(es[k])
       /\ \A h, i \in Writing : h # i => \/ To(writer[h].entry) <= From(writer[i].entry)
                                         \/ To(writer[i].entry) <= From(writer[h].entry)
  BY <1>2, <1>3, <1>4 DEF RangeInv
<1>17. 1 \in 1 .. n /\ \A k \in 1 .. n - 1 : k + 1 \in 1 .. n /\ 1 < k + 1
  BY ONLY <1>4
<1>18. RangeInv'
  <2>1. \A k \in DOMAIN E : To(E[k]) <= fq.offset
    BY ONLY <1>6, <1>16, <1>17
  <2>2. ASSUME NEW k \in DOMAIN E, NEW l \in DOMAIN E, k < l PROVE To(E[k]) <= From(E[l])
    <3>1. k + 1 \in 1 .. n /\ l + 1 \in 1 .. n /\ k + 1 < l + 1 /\ E[k] = es[k + 1] /\ E[l] = es[l + 1]
      BY ONLY <1>4, <1>6, <1>17, <2>2, k \in DOMAIN E, l \in DOMAIN E
    <3> QED
      BY ONLY <1>16, <3>1
  <2>3. \A i \in Writing' : To(writer'[i].entry) <= fq.offset
    BY ONLY <1>6, <1>15, <1>16, <1>17
  <2>4. ASSUME NEW i \in Writing', NEW k \in DOMAIN E PROVE To(writer'[i].entry) <= From(E[k])
    <3>1. k + 1 \in 1 .. n /\ 1 < k + 1 /\ E[k] = es[k + 1]
      BY ONLY <1>6, <1>17, k \in DOMAIN E
    <3>2. CASE i = j
      BY ONLY <1>6, <1>15, <1>16, <1>17, <3>1, <3>2
    <3>3. CASE i # j
      BY ONLY <1>15, <1>16, <3>1, <3>3, i \in Writing'
    <3> QED
      BY ONLY <3>2, <3>3
  <2>5. ASSUME NEW h \in Writing', NEW i \in Writing', h # i
        PROVE  \/ To(writer'[h].entry) <= From(writer'[i].entry)
               \/ To(writer'[i].entry) <= From(writer'[h].entry)
    <3>1. CASE h = j
      <4>1. i \in Writing
        BY ONLY <1>15, <2>5, <3>1, i \in Writing'
      <4> QED
        BY ONLY <1>6, <1>15, <1>16, <1>17, <3>1, <4>1
    <3>2. CASE i = j
      <4>1. h \in Writing
        BY ONLY <1>15, <2>5, <3>2, h \in Writing'
      <4> QED
        BY ONLY <1>6, <1>15, <1>16, <1>17, <3>2, <4>1
    <3>3. CASE h # j /\ i # j
      BY ONLY <1>15, <1>16, <2>5, <3>3, h \in Writing', i \in Writing'
    <3> QED
      BY ONLY <3>1, <3>2, <3>3
  <2> QED
    BY ONLY <1>10, <2>1, <2>2, <2>3, <2>4, <2>5 DEF RangeInv
<1>19. WrittenInv'
  <2>1. ASSUME NEW p \in 1 .. fq.offset
        PROVE  \/ tmp[p] # 0
               \/ \E k \in DOMAIN E : In(p, E[k])
               \/ \E i \in Writing' : In(p, writer'[i].entry)
    <3>1. \/ tmp[p] # 0
          \/ \E k \in 1 .. n : In(p, es[k])
          \/ \E i \in Writing : In(p, writer[i].entry)
      BY <1>2, <1>3, <1>4 DEF WrittenInv
    <3>2. ASSUME NEW k \in 1 .. n, In(p, es[k])
          PROVE  (\E l \in DOMAIN E : In(p, E[l])) \/ \E i \in Writing' : In(p, writer'[i].entry)
      <4>1. CASE k = 1
        BY ONLY <1>6, <1>15, <3>2, <4>1
      <4>2. CASE k # 1
        <5>1. k - 1 \in DOMAIN E /\ (k - 1) + 1 = k /\ k - 1 \in 1 .. n - 1
          BY ONLY <1>4, <1>6, <4>2, k \in 1 .. n
        <5>2. E[k - 1] = es[k]
          BY ONLY <1>6, <5>1
        <5> QED
          BY ONLY <3>2, <5>1, <5>2
      <4> QED
        BY ONLY <4>1, <4>2
    <3>3. ASSUME NEW i \in Writing, In(p, writer[i].entry) PROVE \E h \in Writing' : In(p, writer'[h].entry)
      BY ONLY <1>15, <3>3, i \in Writing
    <3> QED
      BY ONLY <3>1, <3>2, <3>3
  <2> QED
    BY ONLY <1>1, <1>10, <2>1 DEF WrittenInv
<1> QED
  BY <1>1, <1>10, <1>13, <1>14, <1>18, <1>19, WriterKeeps

LEMMA LookKeeps ==
    ASSUME MInv, Flowing, NEW j \in DOMAIN writer, Look(j)
    PROVE  MInv'
<1>1. CASE fq.entries # <<>>
  BY <1>1, LookTakes
<1>2. CASE fq.entries = <<>>
  <2>1. /\ writer[j].pc = "idle" /\ lock.m = 0 /\ fq' = fq
        /\ writer' = [writer EXCEPT ![j].pc = IF fq.running THEN "tested" ELSE "done"]
        /\ lock' = [lock EXCEPT !.m = IF fq.running THEN j ELSE 0]
        /\ UNCHANGED <<cfg, phase, data, chunks, resultSize, chunkVars, main, round, tmp, queues>>
    BY <1>2 DEF Look
  <2>2. /\ FlowInv /\ LockInv /\ RangeInv /\ WrittenInv /\ writer[j] \in WriterRec /\ fq \in FlushRec
        /\ \A i \in DOMAIN writer : i \in Nat /\ i # 0 /\ i # -1
        /\ lock \in [m : {-1, 0} \cup DOMAIN writer, submit : {0} \cup DOMAIN writer]
    BY FlowFacts
  <2>3. PICK pc, h : /\ pc = (IF fq.running THEN "tested" ELSE "done")
                     /\ h = (IF fq.running THEN j ELSE 0)
    OBVIOUS
  <2>4. \/ fq.running /\ pc = "tested" /\ h = j
        \/ ~fq.running /\ pc = "done" /\ h = 0
    BY <2>3
  <2>5. PICK w : w = [writer[j] EXCEPT !.pc = pc]
    OBVIOUS
  <2>6. w \in WriterRec /\ w.pc = pc /\ w.entry = writer[j].entry
    BY <2>2, <2>4, <2>5 DEF WriterRec
  <2>7. writer' = [writer EXCEPT ![j] = w]
    BY <2>1, <2>3, <2>5
  <2>8. /\ DOMAIN writer' = DOMAIN writer /\ writer' \in Seq(WriterRec) /\ writer' # <<>>
        /\ writer'[j] = w /\ \A i \in DOMAIN writer : i # j => writer'[i] = writer[i]
    BY <2>6, <2>7, WriterMoves
  <2>9. /\ lock'.m = h /\ lock'.submit = lock.submit
        /\ lock' \in [m : {-1, 0} \cup DOMAIN writer, submit : {0} \cup DOMAIN writer]
    BY <2>1, <2>2, <2>3, <2>4
  <2>10. Flowing' /\ (Taken' <=> Taken) /\ Live' = Live
    BY <2>1 DEF Flowing, Taken, Live
  <2>11. Writing' = Writing /\ \A i \in Writing : writer'[i] = writer[i]
    BY <2>1, <2>4, <2>6, <2>8 DEF Writing
  <2>12. FlowInv'
    BY ONLY <1>2, <2>1, <2>2, <2>4, <2>6, <2>8, <2>10, Flowing DEF FlowInv
  <2>13. LockInv'
    <3>1. main.pc # "count"
      BY <2>1, <2>2 DEF LockInv
    <3>2. \A i \in DOMAIN writer : writer'[i].pc = "tested" <=> lock'.m = i
      <4>1. \A i \in DOMAIN writer : i # j => writer'[i].pc # "tested" /\ lock'.m # i
        BY ONLY <2>1, <2>2, <2>4, <2>8, <2>9, Flowing DEF LockInv
      <4>2. writer'[j].pc = "tested" <=> lock'.m = j
        BY ONLY <2>2, <2>4, <2>6, <2>8, <2>9, j \in DOMAIN writer
      <4> QED
        BY ONLY <4>1, <4>2
    <3>3. lock'.m # -1
      BY ONLY <2>2, <2>4, <2>9, j \in DOMAIN writer
    <3>4. lock'.submit # 0 => writer'[lock'.submit].pc = "read"
      BY ONLY <2>1, <2>2, <2>8, <2>9, Flowing DEF LockInv
    <3> QED
      BY ONLY <2>1, <2>8, <2>9, <3>1, <3>2, <3>3, <3>4 DEF LockInv
  <2>14. RangeInv' /\ WrittenInv'
    BY ONLY <2>1, <2>2, <2>11, Flowing DEF RangeInv, WrittenInv
  <2> QED
    BY <2>1, <2>12, <2>13, <2>14, WriterKeeps
<1> QED
  BY <1>1, <1>2

-----------------------------------------------------------------------------
(* The end of a group, of a round and of the sort                          *)

\* The writers are joined: every place below m_offset is written.
LEMMA JoinedFacts ==
    ASSUME MInv, main.pc = "join", Joined
    PROVE  /\ lock = [m |-> 0, submit |-> 0]
           /\ \A p \in 1 .. fq.offset : tmp[p] # 0
<1>1. Flowing
  BY DEF Flowing
<1>2. /\ FlowInv /\ LockInv /\ WrittenInv /\ DOMAIN writer = 1 .. Len(writer) /\ Len(writer) \in Nat
      /\ lock \in [m : {-1, 0} \cup DOMAIN writer, submit : {0} \cup DOMAIN writer]
  BY <1>1, FlowFacts
<1>3. 1 \in DOMAIN writer
  <2>1. writer \in Seq(WriterRec) /\ writer # <<>>
    BY <1>1, <1>2 DEF FlowInv
  <2>2. Len(writer) \in Nat \ {0}
    BY <2>1, EmptySeq
  <2> QED
    BY <1>2, <2>2
<1>4. fq.entries = <<>>
  BY <1>1, <1>2, <1>3 DEF FlowInv, Joined
<1>5. Writing = {} /\ DOMAIN fq.entries = {}
  BY <1>4 DEF Writing, Joined
<1>6. \A p \in 1 .. fq.offset : tmp[p] # 0
  BY <1>1, <1>2, <1>5 DEF WrittenInv
<1>7. lock.m = 0 /\ lock.submit = 0
  BY <1>1, <1>2 DEF LockInv, Joined
<1>8. lock = [m |-> 0, submit |-> 0]
  BY ONLY <1>2, <1>7
<1> QED
  BY <1>6, <1>8

\* What the group leaves in tmp.
LEMMA GroupTmp ==
    ASSUME MInv, main.pc = "join", Joined, NEW size, size = fq.offset + Len(fq.data),
           NEW t, t = SubSeq(Replaced(tmp, fq.offset, fq.data), 1, size)
    PROVE  /\ t \in Seq(Val) /\ Len(t) = size /\ size \in Nat /\ Base < size /\ Base \in Nat
<1>1. Flowing
  BY DEF Flowing
<1>2. PICK o, d, l : o = fq.offset /\ d = fq.data /\ l = Len(tmp)
  OBVIOUS
<1>3. o \in Nat /\ Len(d) \in Nat /\ o + Len(d) <= l /\ l \in Nat
  BY <1>1, <1>2, OffsetFits
<1>4. tmp \in Seq(Nat) /\ d \in Seq(Val) /\ d # <<>>
  BY <1>1, <1>2, FlowFacts DEF FlowInv, FlushRec
<1>5. size \in Nat /\ size <= l /\ size = o + Len(d)
  BY <1>2, <1>3
<1>6. Len(d) \in Nat \ {0}
  BY <1>4, EmptySeq
<1>7. Base <= o /\ Base \in Nat
  BY <1>1, <1>2, BaseNat DEF MInv, BaseInv
<1>8. \A i \in 1 .. Len(d) : d[i] \in Val
  BY <1>4, SeqFacts
<1>9. d \in Seq(Nat)
  <2>1. PICK n : n = Len(d) /\ n \in Nat
    BY <1>6
  <2>2. \A i \in 1 .. n : d[i] \in Nat
    BY <1>8, <2>1 DEF Val
  <2>3. d = [i \in 1 .. n |-> d[i]]
    BY ONLY <1>4, <2>1
  <2>4. d \in [1 .. n -> Nat]
    BY ONLY <2>2, <2>3
  <2> QED
    BY ONLY <2>1, <2>4, ArraySeq
<1>10. PICK R : R = Replaced(tmp, o, d)
  OBVIOUS
<1>11. /\ R \in Seq(Nat) /\ Len(R) = l
       /\ \A i \in 1 .. l : R[i] = IF i > o /\ i <= o + Len(d) THEN d[i - o] ELSE tmp[i]
  <2>1. /\ R \in Seq(Nat) /\ Len(R) = Len(tmp)
        /\ \A i \in 1 .. Len(tmp) : R[i] = IF i > o /\ i <= o + Len(d) THEN d[i - o] ELSE tmp[i]
    BY ONLY <1>3, <1>4, <1>9, <1>10, ReplacedSeq
  <2> QED
    BY ONLY <1>2, <2>1
<1>12. ASSUME NEW i \in 1 .. size PROVE R[i] \in Val
  <2>1. i \in 1 .. l
    BY ONLY <1>3, <1>5, i \in 1 .. size
  <2>2. CASE i > o
    <3>1. R[i] = d[i - o]
      BY ONLY <1>3, <1>5, <1>11, <2>1, <2>2, i \in 1 .. size
    <3>2. i - o \in 1 .. Len(d)
      BY ONLY <1>3, <1>5, <2>2, i \in 1 .. size
    <3> QED
      BY ONLY <1>8, <3>1, <3>2
  <2>3. CASE ~(i > o)
    <3>1. R[i] = tmp[i] /\ i \in 1 .. o
      BY ONLY <1>3, <1>5, <1>11, <2>1, <2>3, i \in 1 .. size
    <3>2. tmp[i] # 0
      BY <1>2, <3>1, JoinedFacts
    <3>3. tmp[i] \in Nat
      BY <1>2, <1>4, <2>1, SeqFacts
    <3> QED
      BY <3>1, <3>2, <3>3 DEF Val
  <2> QED
    BY ONLY <2>2, <2>3
<1>13. PICK z : z = 0 /\ z \in Nat /\ z <= size
  BY <1>5
<1>14. t = SubSeq(R, z + 1, size) /\ size <= Len(R)
  BY <1>2, <1>5, <1>10, <1>11, <1>13
<1>15. Len(t) = size - z /\ \A i \in 1 .. size - z : t[i] = R[z + i]
  BY ONLY <1>5, <1>11, <1>13, <1>14, PartSeq
<1>16. t \in Seq(Nat)
  BY ONLY <1>5, <1>11, <1>13, <1>14, PartSeq
<1>17. Len(t) = size /\ \A i \in 1 .. size : t[i] \in Val
  BY ONLY <1>5, <1>12, <1>13, <1>15
<1>18. t \in Seq(Val)
  <2>1. t = [i \in 1 .. size |-> t[i]]
    BY ONLY <1>16, <1>17
  <2>2. t \in [1 .. size -> Val]
    BY ONLY <1>17, <2>1
  <2> QED
    BY ONLY <1>5, <2>2, ArraySeq
<1>19. Base < size
  BY ONLY <1>3, <1>5, <1>6, <1>7
<1> QED
  BY <1>5, <1>7, <1>17, <1>18, <1>19

\* The chunk the group became.
LEMMA GroupNext ==
    ASSUME NextInv, main.pc # "group", NEW size \in Nat, Base < size, Base \in Nat,
           NEW ds, ds = [round.next EXCEPT ![Len(round.next)][2] = size]
    PROVE  Proper(ds, size) /\ Total(DOMAIN ds, SizeOf(ds)) = size
<1>1. PICK cs, n, b : cs = round.next /\ n = Len(cs) /\ b = Base
  OBVIOUS
<1>2. /\ cs \in Seq(Nat \X Nat) /\ cs # <<>> /\ b = cs[n][1] /\ b \in Nat /\ b < size
      /\ \A c \in 1 .. n - 1 : cs[c][1] < cs[c][2] /\ cs[c][2] <= b
      /\ Total(1 .. n - 1, SizeOf(cs)) = b
  BY <1>1 DEF NextInv, Base
<1>3. n \in Nat \ {0} /\ DOMAIN cs = 1 .. n /\ (\A c \in 1 .. n : cs[c] \in Nat \X Nat)
  BY <1>1, <1>2, EmptySeq, SeqFacts
<1>4. ds = [cs EXCEPT ![n] = [cs[n] EXCEPT ![2] = size]]
  BY <1>1
<1>5. PICK x, y : cs[n] = <<x, y>> /\ x \in Nat
  BY ONLY <1>3
<1>6. [cs[n] EXCEPT ![2] = size] = <<b, size>>
  BY ONLY <1>2, <1>5
<1>7. /\ DOMAIN ds = 1 .. n /\ ds[n] = <<b, size>> /\ \A c \in 1 .. n - 1 : ds[c] = cs[c]
  BY ONLY <1>3, <1>4, <1>6
<1>8. ds \in Seq(Nat \X Nat)
  <2>1. <<b, size>> \in Nat \X Nat
    BY ONLY <1>2, size \in Nat
  <2>2. \A c \in 1 .. n : ds[c] \in Nat \X Nat
    <3>1. ASSUME NEW c \in 1 .. n PROVE ds[c] \in Nat \X Nat
      <4>1. CASE c = n
        BY ONLY <1>7, <2>1, <4>1
      <4>2. CASE c # n
        <5>1. c \in 1 .. n - 1
          BY ONLY <1>3, <4>2, c \in 1 .. n
        <5>2. ds[c] = cs[c] /\ cs[c] \in Nat \X Nat
          BY <1>3, <1>7, <5>1
        <5> QED
          BY ONLY <5>2
      <4> QED
        BY ONLY <4>1, <4>2
    <3> QED
      BY ONLY <3>1
  <2>3. ds = [c \in 1 .. n |-> ds[c]]
    BY ONLY <1>3, <1>4
  <2>4. PICK V : V = Nat \X Nat
    OBVIOUS
  <2>5. ds \in [1 .. n -> V]
    BY ONLY <2>2, <2>3, <2>4
  <2>6. ds \in Seq(V)
    BY ONLY <1>3, <2>5, ArraySeq
  <2> QED
    BY ONLY <2>4, <2>6
<1>9. \A c \in 1 .. n : c # n => c \in 1 .. n - 1
  BY ONLY <1>3
<1>10. \A c \in 1 .. n - 1 : c \in 1 .. n /\ cs[c][1] \in Nat /\ cs[c][2] \in Nat
  BY ONLY <1>3
<1>11. ASSUME NEW c \in DOMAIN ds PROVE ds[c][1] < ds[c][2] /\ ds[c][2] <= size
  <2>1. CASE c = n
    BY ONLY <1>2, <1>7, <2>1, size \in Nat
  <2>2. CASE c # n
    <3>1. c \in 1 .. n - 1
      BY ONLY <1>7, <1>9, <2>2, c \in DOMAIN ds
    <3> QED
      <4>1. PICK u, v : u = cs[c][1] /\ v = cs[c][2]
        OBVIOUS
      <4>2. u < v /\ v <= b /\ u \in Nat /\ v \in Nat
        BY ONLY <1>2, <1>10, <3>1, <4>1
      <4>3. ds[c][1] = u /\ ds[c][2] = v
        BY ONLY <1>7, <3>1, <4>1
      <4>4. v <= size
        BY ONLY <1>2, <4>2, size \in Nat
      <4> QED
        BY ONLY <4>2, <4>3, <4>4
  <2> QED
    BY <2>1, <2>2
<1>12. Proper(ds, size)
  BY <1>8, <1>11 DEF Proper
<1>13. PICK f, g, P : f = SizeOf(cs) /\ g = SizeOf(ds) /\ P = 1 .. n - 1
  OBVIOUS
<1>14. g[n] = size - b /\ g[n] \in Nat
  <2>1. n \in DOMAIN ds
    BY ONLY <1>3, <1>7
  <2>2. g[n] = ds[n][2] - ds[n][1]
    BY <1>13, <2>1 DEF SizeOf
  <2>3. g[n] = size - b
    BY ONLY <1>7, <2>2
  <2> QED
    BY ONLY <1>2, <2>3, size \in Nat
<1>15. \A c \in P : f[c] = g[c] /\ g[c] \in Nat
  <2>1. \A c \in P : f[c] = cs[c][2] - cs[c][1] /\ g[c] = ds[c][2] - ds[c][1]
    BY <1>3, <1>7, <1>10, <1>13 DEF SizeOf
  <2>2. ASSUME NEW c \in P PROVE f[c] = g[c] /\ g[c] \in Nat
    <3>1. PICK u, v : u = cs[c][1] /\ v = cs[c][2]
      OBVIOUS
    <3>2. u < v /\ u \in Nat /\ v \in Nat /\ ds[c] = cs[c]
      BY ONLY <1>2, <1>7, <1>10, <1>13, <3>1, c \in P
    <3>3. f[c] = v - u /\ g[c] = v - u
      BY <2>1, <3>1, <3>2
    <3> QED
      BY ONLY <3>2, <3>3
  <2> QED
    BY ONLY <2>2
<1>16. Summable(P, g)
  <2>1. n - 1 \in Nat
    BY <1>3
  <2>2. IsFiniteSet(P)
    BY <1>13, <2>1, FS_Interval
  <2> QED
    BY <1>15, <2>2 DEF Summable
<1>17. Total(P, g) = b
  <2>1. Total(P, f) = Total(P, g)
    BY ONLY <1>15, TotalSame
  <2> QED
    BY <1>2, <1>13, <2>1
<1>18. Summable({n}, g) /\ Total({n}, g) = size - b
  BY <1>14, TotalOne
<1>19. P \cap {n} = {} /\ P \cup {n} = DOMAIN ds
  BY ONLY <1>3, <1>7, <1>13
<1>20. Total(P \cup {n}, g) = Total(P, g) + Total({n}, g)
  BY ONLY <1>16, <1>18, <1>19, TotalUnion
<1>21. Total(DOMAIN ds, g) = size
  <2>1. Total(DOMAIN ds, g) = b + (size - b)
    BY ONLY <1>17, <1>18, <1>19, <1>20
  <2> QED
    BY ONLY <1>2, <2>1, size \in Nat
<1> QED
  BY <1>12, <1>13, <1>21

LEMMA EndGroupKeeps ==
    ASSUME MInv, EndGroup
    PROVE  MInv'
<1>1. PICK size : size = fq.offset + Len(fq.data)
  OBVIOUS
<1>2. /\ main.pc = "join" /\ Joined
      /\ tmp' = SubSeq(Replaced(tmp, fq.offset, fq.data), 1, size)
      /\ round' = [round EXCEPT !.next[Len(round.next)][2] = size]
      /\ main' = [main EXCEPT !.pc = "group"]
      /\ queues' = <<>> /\ fq' = NoFlush /\ writer' = <<>>
      /\ UNCHANGED <<cfg, phase, data, chunks, resultSize, chunkVars, lock>>
  BY <1>1 DEF EndGroup
<1>3. Flowing /\ main.pc # "group"
  BY <1>2 DEF Flowing
<1>4. CoreInv /\ RoundInv /\ QueueInv /\ NextInv /\ phase = "merge"
  BY <1>3 DEF MInv, RoundInv
<1>5. tmp' \in Seq(Val) /\ Len(tmp') = size /\ size \in Nat /\ Base < size /\ Base \in Nat
  <2>1. PICK t : t = tmp'
    OBVIOUS
  <2>2. t \in Seq(Val) /\ Len(t) = size /\ size \in Nat /\ Base < size /\ Base \in Nat
    BY <1>1, <1>2, <2>1, GroupTmp
  <2> QED
    BY ONLY <2>1, <2>2
<1>6. PICK ds : ds = [round.next EXCEPT ![Len(round.next)][2] = size]
  OBVIOUS
<1>7. Proper(ds, size) /\ Total(DOMAIN ds, SizeOf(ds)) = size
  BY <1>3, <1>4, <1>5, <1>6, GroupNext
<1>8. round' = [cbi |-> round.cbi, next |-> ds]
  <2>1. round = [cbi |-> round.cbi, next |-> round.next]
    BY <1>4 DEF RoundInv
  <2>2. round' = [round EXCEPT !.next = ds]
    BY <1>2, <1>6, <2>1
  <2>3. PICK a, b : a = round.cbi /\ b = round.next
    OBVIOUS
  <2>4. round = [cbi |-> a, next |-> b]
    BY ONLY <2>1, <2>3
  <2>5. [round EXCEPT !.next = ds] = [cbi |-> a, next |-> ds]
    BY ONLY <2>4
  <2> QED
    BY ONLY <2>2, <2>3, <2>5
<1>9. round'.cbi = round.cbi /\ round'.next = ds /\ round' = [cbi |-> round'.cbi, next |-> round'.next]
  BY ONLY <1>8
<1>10. main'.pc = "group" /\ main' \in [pc : {"group"}, ret : {"pop", "stop"}, q : Nat]
  BY <1>2, <1>4 DEF RoundInv
<1>11. CoreInv' /\ ChunkInv'
  BY <1>2, <1>4 DEF CoreInv, chunkVars, ChunkInv
<1>12. RoundInv'
  BY <1>2, <1>4, <1>9, <1>10 DEF RoundInv
<1>13. Len(tmp') + Unmerged' <= resultSize' /\ Len(tmp') <= Len(data')
  <2>1. Unmerged' = Unmerged
    BY <1>2, <1>9 DEF Unmerged
  <2>2. PICK t, u, r, l : t = Total(DOMAIN queues, Holdings) /\ u = Unmerged /\ r = resultSize /\ l = Len(data)
    OBVIOUS
  <2>3. t \in Nat /\ u \in Nat /\ r \in Nat /\ l \in Nat /\ r <= l
    BY <1>3, <1>4, <2>2, HoldingsType, QueueRoom, RoomFacts
  <2>4. size + t + u <= r
    BY <1>1, <1>2, <1>3, <1>4, <2>2 DEF QueueInv, Placed
  <2>5. size + u <= r /\ size <= l
    BY ONLY <1>5, <2>3, <2>4
  <2> QED
    BY <1>2, <1>5, <2>1, <2>2, <2>5
<1>14. NoWriters'
  BY <1>2, JoinedFacts DEF NoWriters
<1>15. GroupInv'
  <2>1. Proper(round'.next, Len(tmp')) /\ Total(DOMAIN round'.next, SizeOf(round'.next)) = Len(tmp')
    BY ONLY <1>5, <1>7, <1>9
  <2> QED
    BY ONLY <1>2, <1>4, <1>5, <1>13, <1>14, <2>1 DEF GroupInv
<1>16. NextInv' /\ QueueInv' /\ PrimeInv' /\ FlowInv' /\ LockInv' /\ RangeInv' /\ WrittenInv' /\ BaseInv'
  BY <1>10 DEF NextInv, QueueInv, PrimeInv, FlowInv, LockInv, RangeInv, WrittenInv, BaseInv, Flowing
<1> QED
  BY <1>11, <1>12, <1>15, <1>16 DEF MInv

LEMMA EmptyChunks ==
    ASSUME NEW n
    PROVE  Proper(<<>>, n) /\ Total(DOMAIN <<>>, SizeOf(<<>>)) = 0
<1>1. <<>> \in Seq(Nat \X Nat) /\ DOMAIN <<>> = {}
  OBVIOUS
<1>2. Proper(<<>>, n)
  BY <1>1 DEF Proper
<1>3. PICK D, f : D = DOMAIN <<>> /\ f = SizeOf(<<>>)
  OBVIOUS
<1>4. Total({}, f) = 0
  BY ONLY TotalEmpty
<1> QED
  BY ONLY <1>1, <1>2, <1>3, <1>4

LEMMA NatSeq == ASSUME NEW s \in Seq(Val) PROVE s \in Seq(Nat)
<1>1. PICK n : n = Len(s) /\ n \in Nat
  BY SeqFacts
<1>2. \A i \in 1 .. n : s[i] \in Nat
  BY <1>1, SeqFacts DEF Val
<1>3. s = [i \in 1 .. n |-> s[i]]
  BY <1>1
<1>4. s \in [1 .. n -> Nat]
  BY ONLY <1>2, <1>3
<1> QED
  BY ONLY <1>1, <1>4, ArraySeq

LEMMA EndRoundKeeps ==
    ASSUME MInv, EndRound
    PROVE  MInv'
<1>1. /\ main.pc = "group" /\ phase = "merge" /\ data' = Replaced(data, 0, tmp) /\ resultSize' = Len(tmp)
      /\ chunks' = round.next /\ tmp' = <<>> /\ round' = [cbi |-> 1, next |-> <<>>]
      /\ UNCHANGED <<cfg, phase, chunkVars, main, queues, fq, writer, lock>>
  BY DEF EndRound, AtGroup, RoundSize
<1>2. CoreInv /\ RoundInv
  BY DEF MInv
<1>3. /\ tmp \in Seq(Val) /\ Len(tmp) <= Len(data) /\ Proper(round.next, Len(tmp))
      /\ Total(DOMAIN round.next, SizeOf(round.next)) = Len(tmp)
  BY <1>1 DEF MInv, GroupInv
<1>4. PICK l, n : l = Len(tmp) /\ n = Len(data) /\ l \in Nat /\ n \in Nat /\ l <= n
  BY <1>2, <1>3, RoomFacts, SeqFacts
<1>5. data' \in Seq(Val) /\ Len(data') = n
  <2>1. PICK r, z : r = data' /\ z = 0 /\ z \in Nat
    OBVIOUS
  <2>2. r = Replaced(data, z, tmp) /\ data \in Seq(Val)
    BY <1>1, <1>2, <2>1 DEF CoreInv
  <2>3. r \in Seq(Val) /\ Len(r) = Len(data)
    BY ONLY <1>3, <2>1, <2>2, ReplacedSeq
  <2> QED
    BY ONLY <1>4, <2>1, <2>3
<1>6. PICK cs : cs = round.next
  OBVIOUS
<1>7. Proper(cs, n) /\ IsChunks(cs) /\ Total(DOMAIN cs, SizeOf(cs)) = l
  <2>1. Proper(cs, l) /\ Total(DOMAIN cs, SizeOf(cs)) = l
    BY <1>3, <1>4, <1>6
  <2> QED
    BY ONLY <1>4, <2>1, ProperMore
<1>8. Len(cs) \in Nat /\ DOMAIN cs = 1 .. Len(cs)
  <2>1. cs \in Seq(Nat \X Nat)
    BY <1>7 DEF IsChunks
  <2> QED
    BY ONLY <2>1
<1>9. offset' = offset /\ chunks' = cs /\ resultSize' = l
  BY <1>1, <1>4, <1>6 DEF chunkVars
<1>10. CoreInv'
  <2>1. Len(data) = Len(cfg.src) /\ offset \in 0 .. Len(data) /\ cfg \in Configs
    BY <1>2 DEF CoreInv
  <2>2. Len(data') = Len(cfg'.src) /\ offset' \in 0 .. Len(data') /\ resultSize' \in 0 .. Len(data')
    BY ONLY <1>1, <1>4, <1>5, <1>9, <2>1
  <2>3. Proper(chunks', Len(data'))
    BY ONLY <1>5, <1>7, <1>9
  <2> QED
    BY ONLY <1>1, <1>5, <2>1, <2>2, <2>3 DEF CoreInv
<1>11. round'.cbi = 1 /\ round'.next = <<>> /\ round' = [cbi |-> round'.cbi, next |-> round'.next]
  BY ONLY <1>1
<1>12. RoundInv'
  BY ONLY <1>1, <1>2, <1>8, <1>9, <1>11 DEF RoundInv
<1>13. Unmerged' = l
  <2>1. Unmerged' = Total(1 .. Len(cs), SizeOf(cs))
    BY ONLY <1>9, <1>11 DEF Unmerged
  <2> QED
    BY ONLY <1>7, <1>8, <2>1
<1>14. tmp' \in Seq(Val) /\ Len(tmp') = 0
  BY <1>1, EmptySeq
<1>15. Proper(round'.next, Len(tmp')) /\ Total(DOMAIN round'.next, SizeOf(round'.next)) = Len(tmp')
  BY <1>11, <1>14, EmptyChunks
<1>16. Len(tmp') + Unmerged' <= resultSize' /\ Len(tmp') <= Len(data')
  BY ONLY <1>4, <1>5, <1>9, <1>13, <1>14
<1> QED
  BY <1>1, <1>10, <1>12, <1>14, <1>15, <1>16, GroupKeeps

LEMMA ReturnKeeps ==
    ASSUME MInv, Return
    PROVE  MInv'
<1>1. /\ main.pc = "group" /\ phase = "merge" /\ phase' = "done"
      /\ UNCHANGED <<cfg, data, chunks, resultSize, chunkVars, main, round, tmp, queues, fq, writer, lock>>
  BY DEF Return, AtGroup, mergeVars
<1>2. CoreInv' /\ ChunkInv' /\ RoundInv'
  BY <1>1 DEF MInv, CoreInv, ChunkInv, RoundInv, chunkVars
<1>3. GroupInv'
  <2>1. Unmerged' = Unmerged
    BY <1>1, UnmergedStays
  <2> QED
    BY <1>1, <2>1 DEF MInv, GroupInv, NoWriters
<1>4. NextInv' /\ QueueInv' /\ PrimeInv' /\ FlowInv' /\ LockInv' /\ RangeInv' /\ WrittenInv' /\ BaseInv'
  BY <1>1 DEF NextInv, QueueInv, PrimeInv, FlowInv, LockInv, RangeInv, WrittenInv, BaseInv, Flowing
<1> QED
  BY <1>2, <1>3, <1>4 DEF MInv

-----------------------------------------------------------------------------
(* The invariant of the merge                                              *)

LEMMA InitMInv == Init => MInv
<1> SUFFICES ASSUME Init PROVE MInv
  OBVIOUS
<1>1. /\ cfg \in Configs /\ offset = 0 /\ chunks = <<>>
      /\ worker = [w \in Workers |-> Fresh("begin")]
      /\ main = [pc |-> "group", ret |-> "pop", q |-> 1] /\ round = [cbi |-> 1, next |-> <<>>]
      /\ tmp = <<>> /\ queues = <<>> /\ fq = NoFlush /\ writer = <<>> /\ lock = [m |-> 0, submit |-> 0]
  BY DEF Init
<1>2. PICK src : src = cfg.src /\ src \in Seq(Val) /\ cfg.threads \in Nat
  BY <1>1, OomAssumption DEF Val
<1>3. Len(src) \in Nat
  BY <1>2, SeqFacts
<1>4. /\ phase \in {"chunks", "done", "threw"} /\ data \in Seq(Val) /\ Len(data) = Len(src)
      /\ resultSize \in 0 .. Len(src) /\ (phase = "chunks" => resultSize = 0)
  <2>1. CASE cfg.threads = 0
    BY <1>2, <1>3, <2>1 DEF Init
  <2>2. CASE cfg.threads # 0 /\ cfg.inMemory
    <3>1. PICK o, z : o = Ordered(src) /\ z = 0 /\ z \in Nat
      OBVIOUS
    <3>2. o \in Seq(Val) /\ Len(o) <= Len(src) /\ Len(o) \in Nat
      BY <1>2, <3>1, OrderedSeq
    <3>3. phase = "done" /\ resultSize = Len(o) /\ data = Replaced(src, z, o)
      BY <1>2, <2>2, <3>1 DEF Init
    <3>4. data \in Seq(Val) /\ Len(data) = Len(src)
      BY ONLY <1>2, <3>1, <3>2, <3>3, ReplacedSeq
    <3> QED
      BY ONLY <1>3, <3>2, <3>3, <3>4
  <2>3. CASE cfg.threads # 0 /\ ~cfg.inMemory
    BY <1>2, <1>3, <2>3 DEF Init
  <2> QED
    BY <2>1, <2>2, <2>3
<1>5. Proper(chunks, Len(data)) /\ DOMAIN chunks = {} /\ Len(chunks) = 0
  <2>1. Proper(chunks, Len(data))
    BY <1>1, EmptyChunks
  <2> QED
    BY <1>1, <2>1
<1>6. CoreInv
  BY <1>1, <1>2, <1>3, <1>4, <1>5 DEF CoreInv
<1>7. ChunkInv
  <2>1. Fresh("begin") \in WorkerRec /\ Fresh("begin").pc = "begin"
    BY EmptySeq DEF Fresh, WorkerRec
  <2>2. worker \in [Workers -> WorkerRec] /\ \A w \in Workers : worker[w].pc = "begin"
    BY <1>1, <2>1
  <2>3. Busy = {}
    BY <2>2 DEF Busy, BusyPcs
  <2>4. WorkersInv
    BY <2>2, <2>3 DEF WorkersInv
  <2>5. DOMAIN chunks \ Open = {}
    BY <1>5
  <2>6. CountedInv \/ phase # "chunks"
    BY <1>1, <1>4, <1>5, <2>5, TotalEmpty DEF CountedInv
  <2> QED
    BY <2>4, <2>6 DEF ChunkInv
<1>8. RoundInv
  BY <1>1, <1>5 DEF RoundInv
<1>9. Unmerged = 0
  <2>1. round.cbi .. Len(chunks) = {}
    BY <1>1, <1>5
  <2> QED
    BY <2>1, TotalEmpty DEF Unmerged
<1>10. GroupInv
  <2>1. tmp \in Seq(Val) /\ Len(tmp) = 0
    BY <1>1, EmptySeq
  <2>2. Proper(round.next, Len(tmp)) /\ Total(DOMAIN round.next, SizeOf(round.next)) = Len(tmp)
    BY <1>1, <2>1, EmptyChunks
  <2>3. Len(tmp) + Unmerged <= resultSize /\ Len(tmp) <= Len(data)
    BY <1>3, <1>4, <1>9, <2>1
  <2> QED
    BY <1>1, <2>1, <2>2, <2>3 DEF GroupInv, NoWriters
<1>11. NextInv /\ QueueInv /\ PrimeInv /\ FlowInv /\ LockInv /\ RangeInv /\ WrittenInv /\ BaseInv
  BY <1>1 DEF NextInv, QueueInv, PrimeInv, FlowInv, LockInv, RangeInv, WrittenInv, BaseInv, Flowing
<1> QED
  BY <1>6, <1>7, <1>8, <1>10, <1>11 DEF MInv

LEMMA IdleKeeps == ASSUME MInv, UNCHANGED vars PROVE MInv'
<1>1. /\ UNCHANGED <<cfg, phase, data, chunks, resultSize, offset, worker, want>>
      /\ UNCHANGED <<main, round, tmp, queues, fq, writer, lock>>
  BY DEF vars, chunkVars, mergeVars
<1>2. CoreInv' /\ RoundInv'
  BY <1>1 DEF MInv, CoreInv, RoundInv
<1>3. ChunkInv'
  <2>1. Workers' = Workers /\ Busy' = Busy
    BY <1>1 DEF Workers, Busy
  <2>2. Open' = Open
    BY <1>1, <2>1 DEF Open
  <2>3. WorkersInv => WorkersInv'
    BY <1>1, <2>1 DEF WorkersInv
  <2>4. CountedInv => CountedInv'
    BY <1>1, <2>2 DEF CountedInv
  <2> QED
    BY <1>1, <2>3, <2>4 DEF MInv, ChunkInv
<1>4. GroupInv'
  <2>1. Unmerged' = Unmerged
    BY <1>1, UnmergedStays
  <2> QED
    BY <1>1, <2>1 DEF MInv, GroupInv, NoWriters
<1>5. (Taken' <=> Taken) /\ (Flowing' <=> Flowing) /\ Base' = Base /\ Placed' = Placed
      /\ Live' = Live /\ Writing' = Writing
  BY <1>1 DEF Taken, Flowing, Base, Placed, Live, Writing
<1>6. NextInv' /\ QueueInv' /\ PrimeInv'
  <2>1. CASE main.pc = "group"
    BY <1>1, <2>1 DEF NextInv, QueueInv, PrimeInv
  <2>2. CASE main.pc # "group"
    <3>1. \A i \in DOMAIN queues : Held(i)' = Held(i)
      BY <1>1, <1>5 DEF Held
    <3>2. QueueInv' /\ NextInv'
      BY <1>1, <1>5, <2>2, <3>1, QueuesStay, NextStays DEF MInv
    <3>3. PrimeInv'
      BY <1>1, <1>5 DEF MInv, PrimeInv, NoWriters
    <3> QED
      BY <3>2, <3>3
  <2> QED
    BY <2>1, <2>2
<1>7. FlowInv' /\ LockInv'
  BY <1>1, <1>5 DEF MInv, FlowInv, LockInv
<1>8. RangeInv' /\ WrittenInv' /\ BaseInv'
  BY <1>1, <1>5 DEF MInv, RangeInv, WrittenInv, BaseInv
<1> QED
  BY <1>2, <1>3, <1>4, <1>6, <1>7, <1>8 DEF MInv

LEMMA StepMInv == MInv /\ [Next]_vars => MInv'
<1> SUFFICES ASSUME MInv, [Next]_vars PROVE MInv'
  OBVIOUS
<1>1. ASSUME phase = "chunks", NEW w \in Workers, ChunkStep(w) PROVE MInv'
  BY <1>1, QuietChunkStep, ClaimCounts, FlushCounts, FlushUnlockedCounts DEF ChunkStep
<1>2. ASSUME MainStep PROVE MInv'
  BY <1>2, JoinWorkersKeeps, MergeSingleKeeps, SetupKeeps, PrimeKeeps, SelectKeeps, PopKeeps,
     FlushWaitKeeps, SubmitKeeps, CountPendingKeeps, StopWritersKeeps, NotifyWritersKeeps,
     EndGroupKeeps, EndRoundKeeps, ReturnKeeps DEF MainStep
<1>3. ASSUME NEW i \in DOMAIN queues, Produce(i) PROVE MInv'
  BY <1>3, ProduceKeeps
<1>4. ASSUME NEW j \in DOMAIN writer, WriterStep(j) PROVE MInv'
  <2>1. Flowing
    <3>1. writer # <<>>
      OBVIOUS
    <3> QED
      BY <3>1 DEF MInv, GroupInv, PrimeInv, NoWriters, Flowing
  <2> QED
    BY <1>4, <2>1, LookKeeps, SleepKeeps, WriteKeeps, ReadPendingKeeps, WritePendingKeeps DEF WriterStep
<1>5. CASE UNCHANGED vars
  BY <1>5, IdleKeeps
<1> QED
  BY <1>1, <1>2, <1>3, <1>4, <1>5 DEF Next, Returned

\* The inductive invariant of the merge: what is placed, held and left never exceeds what
\* was counted.
THEOREM MergeInvariance == Spec => []MInv
  BY InitMInv, StepMInv, PTL DEF Spec

\* The arrays keep their lengths and the offsets stay inside them, m_pendingFlushSize
\* stays a 64 bit number and a lock is held by a thread there is, in every state of every sort.
THEOREM TypeCorrect == Spec => []TypeOK
<1>1. MInv => TypeOK
  <2> SUFFICES ASSUME MInv PROVE TypeOK
    OBVIOUS
  <2>1. CoreInv
    BY DEF MInv
  <2>2. data \in Seq(Nat) /\ Len(data) = Len(cfg.src) /\ Len(data) \in Nat
    <3>1. data \in Seq(Val) /\ Len(data) = Len(cfg.src)
      BY <2>1 DEF CoreInv
    <3> QED
      BY <3>1, SeqFacts, NatSeq
  <2>3. ASSUME NEW c \in DOMAIN chunks PROVE chunks[c] \in (0 .. Len(data)) \X (0 .. Len(data))
    <3>1. chunks[c] \in Nat \X Nat
      <4>1. chunks \in Seq(Nat \X Nat)
        BY <2>1 DEF CoreInv, Proper
      <4> QED
        BY <4>1, SeqFacts
    <3>2. /\ chunks[c][1] \in Nat /\ chunks[c][2] \in Nat
          /\ chunks[c][1] < chunks[c][2] /\ chunks[c][2] <= Len(data)
      BY <2>1, CoreReadable, ChunkFacts
    <3> QED
      BY ONLY <2>2, <3>1, <3>2
  <2>4. CASE Flowing
    <3>1. /\ FlowInv /\ fq \in FlushRec
          /\ lock \in [m : {-1, 0} \cup DOMAIN writer, submit : {0} \cup DOMAIN writer]
      BY <2>4, FlowFacts
    <3>2. Len(tmp) = resultSize
      BY <2>4, <3>1 DEF FlowInv
    <3>3. Len(tmp) <= Len(data)
      BY <2>1, <3>2, RoomFacts
    <3> QED
      BY <2>1, <2>2, <2>3, <3>1, <3>3 DEF TypeOK, CoreInv, FlushRec
  <2>5. CASE ~Flowing
    <3>1. NoWriters
      BY <2>5 DEF Flowing, MInv, GroupInv, PrimeInv
    <3>2. Len(tmp) <= Len(data)
      <4>1. CASE main.pc = "group"
        BY <4>1 DEF MInv, GroupInv
      <4>2. CASE main.pc = "prime"
        <5>1. QueueInv /\ RoundInv /\ Len(tmp) = Base /\ tmp \in Seq(Val)
          BY <4>2 DEF MInv, PrimeInv
        <5>2. PICK b, t, u, r, l : /\ b = Base /\ t = Total(DOMAIN queues, Holdings) /\ u = Unmerged
                                   /\ r = resultSize /\ l = Len(data)
          OBVIOUS
        <5>3. b \in Nat /\ t \in Nat /\ u \in Nat /\ r \in Nat /\ l \in Nat /\ r <= l
          BY <2>1, <4>2, <5>1, <5>2, SeqFacts, HoldingsType, QueueRoom, RoomFacts
        <5>4. b + t + u <= r
          BY <4>2, <5>1, <5>2 DEF QueueInv, Placed
        <5>5. b <= l
          BY ONLY <5>3, <5>4
        <5> QED
          BY <5>1, <5>2, <5>5
      <4> QED
        BY <2>5, <4>1, <4>2 DEF Flowing
    <3>3. fq.pending = 0 /\ 0 \in 0 .. Wrap - 1 /\ lock.m = 0 /\ lock.submit = 0
      BY <3>1, OomAssumption DEF NoWriters, NoFlush
    <3> QED
      BY <2>1, <2>2, <2>3, <3>2, <3>3 DEF TypeOK, CoreInv
  <2> QED
    BY <2>4, <2>5
<1> QED
  BY <1>1, MergeInvariance, PTL

\* No two writers of the FlushQueue, and no writer and an entry that waits, ever have a
\* place of tmp in common, and none reaches beyond m_offset or the end of tmp: for any
\* number of threads, any source and any sizes of the buffers.
THEOREM WritersApart == Spec => []WritesDisjoint
<1>1. MInv => WritesDisjoint
  <2> SUFFICES ASSUME MInv PROVE WritesDisjoint
    OBVIOUS
  <2>1. CASE ~Flowing
    <3>1. fq.entries = <<>> /\ writer = <<>>
      BY <2>1 DEF Flowing, MInv, GroupInv, PrimeInv, NoWriters, NoFlush
    <3>2. Ranges = {}
      BY <3>1 DEF Ranges
    <3> QED
      BY <3>2 DEF WritesDisjoint
  <2>2. CASE Flowing
    <3>1. /\ RangeInv /\ fq \in FlushRec
          /\ \A j \in DOMAIN writer : writer[j] \in WriterRec /\ j \in Nat /\ j # 0
      BY <2>2, FlowFacts
    <3>2. fq.entries \in Seq(Entry) /\ fq.offset \in Nat
      BY <3>1 DEF FlushRec
    <3>3. PICK n : n = Len(fq.entries) /\ n \in Nat /\ DOMAIN fq.entries = 1 .. n
                   /\ \A k \in 1 .. n : fq.entries[k] \in Entry
      BY <3>2, SeqFacts
    <3>4. \A j \in Writing : writer[j].entry \in Entry /\ j \in Nat /\ j # 0
      BY <3>1 DEF Writing, WriterRec
    <3>5. Len(tmp) \in Nat /\ fq.offset <= Len(tmp)
      <4>1. PICK o, d, l : o = fq.offset /\ d = Len(fq.data) /\ l = Len(tmp)
        OBVIOUS
      <4>2. o \in Nat /\ d \in Nat /\ l \in Nat /\ o + d <= l
        BY <2>2, <4>1, OffsetFits
      <4>3. o <= l
        BY ONLY <4>2
      <4> QED
        BY ONLY <4>1, <4>2, <4>3
    <3>6. ASSUME NEW r \in Ranges
          PROVE  \/ \E k \in 1 .. n : r = <<fq.entries[k], k>>
                 \/ \E j \in Writing : r = <<writer[j].entry, -j>>
      BY <3>3 DEF Ranges, Writing
    <3>7. ASSUME NEW r \in Ranges
          PROVE  r[1] \in Entry /\ To(r[1]) <= fq.offset
      BY <2>2, <3>1, <3>3, <3>4, <3>6 DEF RangeInv
    <3>8. ASSUME NEW r \in Ranges, NEW s \in Ranges, r # s
          PROVE  To(r[1]) <= From(s[1]) \/ To(s[1]) <= From(r[1])
      <4>1. ASSUME NEW k \in 1 .. n, r = <<fq.entries[k], k>>, NEW l \in 1 .. n, s = <<fq.entries[l], l>>
            PROVE  To(r[1]) <= From(s[1]) \/ To(s[1]) <= From(r[1])
        <5>1. k # l
          BY <3>8, <4>1
        <5>2. k < l \/ l < k
          BY ONLY <3>3, <5>1, k \in 1 .. n, l \in 1 .. n
        <5> QED
          BY <2>2, <3>1, <3>3, <4>1, <5>2 DEF RangeInv
      <4>2. ASSUME NEW k \in 1 .. n, r = <<fq.entries[k], k>>, NEW j \in Writing, s = <<writer[j].entry, -j>>
            PROVE  To(s[1]) <= From(r[1])
        BY <2>2, <3>1, <3>3, <4>2 DEF RangeInv
      <4>3. ASSUME NEW k \in 1 .. n, s = <<fq.entries[k], k>>, NEW j \in Writing, r = <<writer[j].entry, -j>>
            PROVE  To(r[1]) <= From(s[1])
        BY <2>2, <3>1, <3>3, <4>3 DEF RangeInv
      <4>4. ASSUME NEW i \in Writing, r = <<writer[i].entry, -i>>, NEW j \in Writing, s = <<writer[j].entry, -j>>
            PROVE  To(r[1]) <= From(s[1]) \/ To(s[1]) <= From(r[1])
        <5>1. i # j
          BY <3>8, <4>4
        <5> QED
          BY <2>2, <3>1, <4>4, <5>1 DEF RangeInv
      <4> QED
        BY <3>6, <4>1, <4>2, <4>3, <4>4
    <3>9. ASSUME NEW r \in Ranges, NEW s \in Ranges
          PROVE  /\ To(r[1]) <= fq.offset /\ To(r[1]) <= Len(tmp)
                 /\ r # s => To(r[1]) <= From(s[1]) \/ To(s[1]) <= From(r[1])
      <4>1. To(r[1]) \in Nat /\ To(r[1]) <= fq.offset
        BY <3>7, EntryPlaces
      <4>2. To(r[1]) <= Len(tmp)
        BY ONLY <3>2, <3>5, <4>1
      <4> QED
        BY <3>8, <4>1, <4>2
    <3> QED
      BY <3>9 DEF WritesDisjoint, From, To
  <2> QED
    BY <2>1, <2>2
<1> QED
  BY <1>1, MergeInvariance, PTL

=============================================================================
