------------------------------- MODULE OomSort -------------------------------
(***************************************************************************)
(* sserialize::oom_sort: worker threads sort chunks of the source in       *)
(* memory and write them back; then rounds of merges, each of groups of up *)
(* to QueueDepth chunks, go through a temporary array that is copied back  *)
(* at the end of the round.  A merge with more than one thread has one     *)
(* producer per PreQueue, the main thread, which pops the smallest head,   *)
(* and the writers of the FlushQueue.                                      *)
(*                                                                         *)
(* Critical sections of wbi.mtx and of PreQueue::m_lock are single steps:  *)
(* every change of what a wait tests is made under the lock and notified.  *)
(* FlushQueue is finer, because it is not so disciplined: m_running is     *)
(* cleared without m_lock, and m_pendingFlushSize is increased under       *)
(* m_lock but decreased under m_submitLock.                                *)
(***************************************************************************)
EXTENDS Integers, Sequences, FiniteSets, SequencesExt

CONSTANTS
    Configs,      \* records [src, threads, unique, fetchLock, flushLock, inMemory]
    ChunkSize,    \* cfg.initialChunkSize, in entries
    QueueDepth,   \* traits.queueDepth()
    PreSize,      \* PreQueue::m_bufferSize
    FlushSize,    \* FlushQueue::m_bufferSize
    Wrap          \* 2^64, the modulus of m_pendingFlushSize

ASSUME OomAssumption ==
    /\ {ChunkSize, QueueDepth, PreSize, FlushSize, Wrap} \subseteq Nat \ {0}
    /\ \A c \in Configs : c.threads \in Nat /\ c.src \in Seq(Nat \ {0}) \ {<<>>}

VARIABLES
    cfg,        \* the traits of the call
    phase,      \* chunks, merge, done or threw
    data,       \* [begin, end)
    offset,     \* state.srcOffset
    chunks,     \* state.pendingChunks, as <<first, second>>
    resultSize, \* state.resultSize
    worker,     \* chunk workers: [pc, pos, buf]
    want,       \* wbi.wantExtraWorker
    main,       \* main thread while merging: [pc, ret, q]
    round,      \* [cbi, next]: next chunk of this round, nextRoundPendingChunks
    tmp,        \* the temporary array
    queues,     \* PreQueues: [heads, front, back, eof, value]
    fq,         \* FlushQueue: [data, offset, entries, running, pending, read]
    writer,     \* FlushQueue workers: [pc, entry, read]
    lock        \* holders of m_lock and m_submitLock; 0 is nobody, -1 the main thread

chunkVars == <<offset, worker, want>>
mergeVars == <<main, round, tmp, queues, fq, writer, lock>>
vars == <<cfg, phase, data, chunks, resultSize, chunkVars, mergeVars>>

\* std::sort and std::unique, by rank: the k-th entry of the sorted array is the one that
\* k entries precede or are, the k-th different value the one that k values do not exceed.
Rank(s, i) == Cardinality({j \in DOMAIN s : s[j] < s[i] \/ (s[j] = s[i] /\ j <= i)})
Sorted(s) == [k \in DOMAIN s |-> s[CHOOSE i \in DOMAIN s : Rank(s, i) = k]]
ValueRank(S, v) == Cardinality({u \in S : u <= v})
Unique(s) == [k \in 1 .. Cardinality(ToSet(s)) |-> CHOOSE v \in ToSet(s) : ValueRank(ToSet(s), v) = k]
Ordered(s) == IF cfg.unique THEN Unique(s) ELSE Sorted(s)
Replaced(s, at, new) ==                            \* new over s from offset at
    [i \in DOMAIN s |-> IF i > at /\ i <= at + Len(new) THEN new[i - at] ELSE s[i]]

-----------------------------------------------------------------------------
(* Sorting the chunks                                                      *)

Workers == 1 .. cfg.threads
Paused == {w \in Workers : worker[w].pc \in {"paused", "woken"}}
Exhausted == offset >= Len(data)
Sleepers(ws) == {w \in ws : worker[w].pc = "paused"}
\* workers after w goes to pc with rec's other fields and the sleepers in wake are woken
Moved(w, rec, wake) ==
    worker' = [x \in Workers |-> IF x = w THEN rec
                                 ELSE IF x \in wake THEN [worker[x] EXCEPT !.pc = "woken"]
                                 ELSE worker[x]]
Went(w, pc) == [worker[w] EXCEPT !.pc = pc]
Fresh(pc) == [pc |-> pc, pos |-> 0, buf |-> <<>>]   \* the chunk is done with

Fetched(w, from, n) == [worker[w] EXCEPT !.pc = "fetched", !.pos = Len(chunks) + 1,
                                         !.buf = SubSeq(data, from + 1, from + n)]
\* The loop's head, under ioLock: nothing left, or take the next chunk; it is
\* read under the lock or after it.
Exit(w) ==
    /\ worker[w].pc = "begin" /\ Exhausted
    /\ Moved(w, Went(w, "exit"), Sleepers(Workers))
    /\ UNCHANGED <<cfg, phase, data, offset, chunks, resultSize, want, mergeVars>>
NextChunk == IF ChunkSize < Len(data) - offset THEN ChunkSize ELSE Len(data) - offset
Claim(w) ==
    LET n == NextChunk
    IN /\ worker[w].pc = "begin" /\ ~Exhausted
       /\ chunks' = Append(chunks, <<offset, offset + n>>)  \* the end is set in Flush
       /\ offset' = offset + n
       /\ Moved(w, IF cfg.fetchLock THEN Fetched(w, offset, n)
                   ELSE [Went(w, "fetch") EXCEPT !.pos = Len(chunks) + 1], {})
       /\ UNCHANGED <<cfg, phase, data, resultSize, want, mergeVars>>
Fetch(w) ==
    LET c == chunks[worker[w].pos]
    IN /\ worker[w].pc = "fetch"
       /\ Moved(w, [Went(w, "fetched") EXCEPT !.buf = SubSeq(data, c[1] + 1, c[2])], {})
       /\ UNCHANGED <<cfg, phase, data, offset, chunks, resultSize, want, mergeVars>>

\* Sort the buffer; a worker that did not wait for ioLock asks for help first.
Sort(w) ==
    /\ worker[w].pc = "fetched"
    /\ \E fast \in BOOLEAN, wake \in SUBSET Sleepers(Workers) :
          LET asks == fast /\ Paused # {}
          IN /\ Cardinality(wake) = (IF asks /\ Sleepers(Workers) # {} THEN 1 ELSE 0)
             /\ want' = (want \/ asks)
             /\ Moved(w, [Went(w, "sorted") EXCEPT !.buf = Ordered(@)], wake)
    /\ UNCHANGED <<cfg, phase, data, offset, chunks, resultSize, mergeVars>>

\* Under ioLock: correct the chunk's description, count, and write back, under the
\* lock or after it.
CountedFull(w) == resultSize + ChunkSize                     \* mutant: every chunk is full
Counted(w) == resultSize + Len(worker[w].buf)
WroteBack(w) == data' = Replaced(data, chunks[worker[w].pos][1], worker[w].buf)
Flush(w) ==
    LET pos == worker[w].pos
    IN /\ worker[w].pc = "sorted"
       /\ chunks' = [chunks EXCEPT ![pos][2] = chunks[pos][1] + Len(worker[w].buf)]
       /\ resultSize' = Counted(w)
       /\ IF cfg.flushLock THEN WroteBack(w) /\ Moved(w, Fresh("flushed"), {})
          ELSE data' = data /\ Moved(w, Went(w, "flush"), {})
       /\ UNCHANGED <<cfg, phase, offset, want, mergeVars>>
FlushUnlocked(w) ==
    /\ worker[w].pc = "flush"
    /\ WroteBack(w)
    /\ Moved(w, Fresh("flushed"), {})
    /\ UNCHANGED <<cfg, phase, offset, chunks, resultSize, want, mergeVars>>

\* A worker that waited too long for ioLock pauses, unless two or fewer are left.
PauseAlways(w) == ~Exhausted                                \* mutant: all may sleep
MayPause(w) == ~Exhausted /\ cfg.threads - Cardinality(Paused) > 2
Pause(w) ==
    /\ worker[w].pc = "flushed"
    /\ \/ Moved(w, Went(w, "begin"), {})
       \/ MayPause(w) /\ Moved(w, Went(w, "paused"), {})
    /\ UNCHANGED <<cfg, phase, data, offset, chunks, resultSize, want, mergeVars>>
Wake(w) ==
    /\ worker[w].pc = "woken"
    /\ Moved(w, Went(w, IF want \/ Exhausted THEN "begin" ELSE "paused"), {})
    /\ UNCHANGED <<cfg, phase, data, offset, chunks, resultSize, want, mergeVars>>

ChunkStep(w) ==
    \/ Exit(w) \/ Claim(w) \/ Fetch(w) \/ Sort(w) \/ Flush(w) \/ FlushUnlocked(w)
    \/ Pause(w) \/ Wake(w)

\* All threads are joined.
JoinWorkers ==
    /\ phase = "chunks"
    /\ \A w \in Workers : worker[w].pc = "exit"
    /\ phase' = "merge"
    /\ want' = FALSE                                \* not read again
    /\ UNCHANGED <<cfg, data, offset, chunks, resultSize, worker, mergeVars>>

-----------------------------------------------------------------------------
(* PreQueue: the chunks of one producer, in heads from chunk to the number *)
(* of entries taken                                                        *)

Left(heads) == {c \in DOMAIN heads : chunks[c][1] + heads[c] < chunks[c][2]}
Head0(heads, c) == data[chunks[c][1] + heads[c] + 1]
\* One round of fillBackBuffer: the smallest head moves to the end of out.
TakeSmallest(st) ==
    IF Left(st.heads) = {} THEN st
    ELSE LET c == CHOOSE x \in Left(st.heads) :
                      \A y \in Left(st.heads) : Head0(st.heads, x) <= Head0(st.heads, y)
         IN [heads |-> [st.heads EXCEPT ![c] = @ + 1], out |-> Append(st.out, Head0(st.heads, c))]
Filled(heads, n) ==
    LET after[k \in 0 .. n] == IF k = 0 THEN [heads |-> heads, out |-> <<>>]
                               ELSE TakeSmallest(after[k - 1])
    IN after[n]

NewQueue(cs) ==                                    \* constructor and init()
    LET one == Filled([c \in cs |-> 0], PreSize)
        two == Filled(one.heads, PreSize)
    IN [heads |-> two.heads, front |-> one.out, back |-> two.out, eof |-> FALSE, value |-> 0]

EofAlways(f) == TRUE                                        \* mutant: after one fill
Eof(f) == Left(f.heads) = {}
\* run(): waits for an empty back buffer.
Produce(i) ==
    LET f == Filled(queues[i].heads, PreSize)
    IN /\ phase = "merge"
       /\ i \in DOMAIN queues
       /\ ~queues[i].eof /\ queues[i].back = <<>>
       /\ queues' = [queues EXCEPT ![i].heads = f.heads, ![i].back = f.out, ![i].eof = Eof(f)]
       /\ UNCHANGED <<cfg, phase, data, chunks, resultSize, chunkVars, main, round, tmp, fq, writer, lock>>

\* pop(): the consumer waits for a full back buffer or the end; value 0 is no value.
CanPop(i) == queues[i].front # <<>> \/ queues[i].back # <<>> \/ queues[i].eof
Popped(i) ==
    LET q == queues[i]
    IN IF q.front # <<>> THEN [q EXCEPT !.value = Head(q.front), !.front = Tail(q.front)]
       ELSE IF q.back # <<>> THEN [q EXCEPT !.value = Head(q.back), !.front = Tail(q.back), !.back = <<>>]
       ELSE [q EXCEPT !.value = 0]

-----------------------------------------------------------------------------
(* The merge rounds                                                        *)

Size(c) == c[2] - c[1]
Group == LET last == round.cbi + QueueDepth - 1
         IN {c \in round.cbi .. (IF last < Len(chunks) THEN last ELSE Len(chunks)) :
                ~cfg.unique \/ Size(chunks[c]) > 0}
AfterGroup == IF round.cbi + QueueDepth <= Len(chunks) THEN round.cbi + QueueDepth ELSE Len(chunks) + 1
PerQueue == (Cardinality(Group) + cfg.threads - 2) \div (cfg.threads - 1)
ChunksOf(i) == {c \in Group : (c - round.cbi) \div PerQueue = i - 1}
QueueCount == (Cardinality(Group) + PerQueue - 1) \div PerQueue
WriterCount == IF cfg.flushLock THEN 1
               ELSE IF cfg.threads > 6 THEN (cfg.threads - 2) \div 2 ELSE 2
NoFlush == [data |-> <<>>, offset |-> 0, entries |-> <<>>, running |-> FALSE, pending |-> 0, read |-> 0]

AtGroup == phase = "merge" /\ main.pc = "group"
MoreChunks == Len(chunks) > 1 /\ round.cbi <= Len(chunks)
\* One thread merges the group's chunks straight into tmp; with unique, an entry
\* equal to the last one of tmp, even of the group before, is dropped.
PushedBack(t, v) == IF cfg.unique /\ t # <<>> /\ Last(t) = v THEN t ELSE Append(t, v)
PushedAll(t, s) ==
    LET after[k \in 0 .. Len(s)] == IF k = 0 THEN t ELSE PushedBack(after[k - 1], s[k])
    IN after[Len(s)]
SingleMerged == PushedAll(tmp, Filled([c \in Group |-> 0], Len(data)).out)
MergeSingle ==
    /\ AtGroup /\ MoreChunks /\ cfg.threads = 1
    /\ tmp' = SingleMerged
    /\ round' = [cbi |-> AfterGroup,
                 next |-> IF cfg.unique /\ Len(SingleMerged) = Len(tmp) THEN round.next
                          ELSE Append(round.next, <<Len(tmp), Len(SingleMerged)>>)]
    /\ UNCHANGED <<cfg, phase, data, chunks, resultSize, chunkVars, main, queues, fq, writer, lock>>

\* Several threads: the PreQueues are built and initialised, their producers started.
Setup ==
    /\ AtGroup /\ MoreChunks /\ cfg.threads > 1
    /\ queues' = [i \in 1 .. QueueCount |-> NewQueue(ChunksOf(i))]
    /\ round' = [cbi |-> AfterGroup, next |-> Append(round.next, <<Len(tmp), Len(tmp)>>)]
    /\ main' = [main EXCEPT !.pc = "prime", !.q = 1]
    /\ UNCHANGED <<cfg, phase, data, chunks, resultSize, chunkVars, tmp, fq, writer, lock>>

\* Every queue is popped once; then the FlushQueue extends tmp and starts its writers.
Prime ==
    /\ main.pc = "prime" /\ CanPop(main.q)
    /\ queues' = [queues EXCEPT ![main.q] = Popped(main.q)]
    /\ IF main.q < Len(queues)
       THEN main' = [main EXCEPT !.q = @ + 1] /\ UNCHANGED <<tmp, fq, writer>>
       ELSE /\ main' = [main EXCEPT !.pc = "select"]
            /\ tmp' = tmp \o [i \in 1 .. resultSize - Len(tmp) |-> 0]
            /\ fq' = [NoFlush EXCEPT !.offset = Len(tmp), !.running = TRUE]
            /\ writer' = [j \in 1 .. WriterCount |-> [pc |-> "idle", entry |-> <<0, <<>>>>, read |-> 0]]
    /\ UNCHANGED <<cfg, phase, data, chunks, resultSize, chunkVars, round, lock>>

Live == {i \in DOMAIN queues : queues[i].value # 0}
Duplicate(v) == fq.data # <<>> /\ Last(fq.data) = v
\* The smallest value goes to the FlushQueue unless it is a duplicate; when no
\* queue has a value the producers are joined.
Select ==
    /\ main.pc = "select"
    /\ IF Live = {}
       THEN /\ \A i \in DOMAIN queues : queues[i].eof
            /\ main' = [main EXCEPT !.pc = "flush", !.ret = "stop"]
            /\ fq' = fq
       ELSE \E i \in Live :
            /\ \A k \in Live : queues[i].value <= queues[k].value
            /\ fq' = [fq EXCEPT !.data = IF cfg.unique /\ Duplicate(queues[i].value) THEN @
                                         ELSE Append(@, queues[i].value)]
            /\ main' = [pc |-> IF fq'.data # fq.data /\ Len(fq'.data) >= FlushSize THEN "flush" ELSE "pop",
                        ret |-> "pop", q |-> i]
    /\ UNCHANGED <<cfg, phase, data, chunks, resultSize, chunkVars, round, tmp, queues, writer, lock>>
Pop ==
    /\ main.pc = "pop" /\ CanPop(main.q)
    /\ queues' = [queues EXCEPT ![main.q] = Popped(main.q)]
    /\ main' = [main EXCEPT !.pc = "select"]
    /\ UNCHANGED <<cfg, phase, data, chunks, resultSize, chunkVars, round, tmp, fq, writer, lock>>

\* The destructor of the FlushQueue: flush(), clear m_running, notify_all, join the
\* writers, write the last entry and cut tmp to its size.
StopWriters ==
    /\ main.pc = "stop"
    /\ fq' = [fq EXCEPT !.running = FALSE]
    /\ main' = [main EXCEPT !.pc = "notify"]
    /\ UNCHANGED <<cfg, phase, data, chunks, resultSize, chunkVars, round, tmp, queues, writer, lock>>
NotifyWriters ==
    /\ main.pc = "notify"
    /\ writer' = [j \in DOMAIN writer |->
                     IF writer[j].pc = "asleep" THEN [writer[j] EXCEPT !.pc = "idle"] ELSE writer[j]]
    /\ main' = [main EXCEPT !.pc = "join"]
    /\ UNCHANGED <<cfg, phase, data, chunks, resultSize, chunkVars, round, tmp, queues, fq, lock>>
Joined == \A j \in DOMAIN writer : writer[j].pc = "done"
EndGroup ==
    LET size == fq.offset + Len(fq.data)
    IN /\ main.pc = "join" /\ Joined
       /\ tmp' = SubSeq(Replaced(tmp, fq.offset, fq.data), 1, size)
       /\ round' = [round EXCEPT !.next[Len(round.next)][2] = size]
       /\ main' = [main EXCEPT !.pc = "group"]
       /\ queues' = <<>> /\ fq' = NoFlush /\ writer' = <<>>
       /\ UNCHANGED <<cfg, phase, data, chunks, resultSize, chunkVars, lock>>

\* The end of a round: move the entries back (the general IteratorRangeDataSwaper)
\* and make the results the next round's chunks.
StaleSize == resultSize                                     \* mutant: duplicates still counted
RoundSize == Len(tmp)
EndRound ==
    /\ AtGroup /\ Len(chunks) > 1 /\ round.cbi > Len(chunks)
    /\ data' = Replaced(data, 0, tmp)
    /\ resultSize' = RoundSize
    /\ chunks' = round.next
    /\ tmp' = <<>> /\ round' = [cbi |-> 1, next |-> <<>>]
    /\ UNCHANGED <<cfg, phase, chunkVars, main, queues, fq, writer, lock>>
Return ==
    /\ AtGroup /\ Len(chunks) <= 1
    /\ phase' = "done"
    /\ UNCHANGED <<cfg, data, chunks, resultSize, chunkVars, mergeVars>>

-----------------------------------------------------------------------------
(* FlushQueue                                                              *)

\* flush(): wait under m_submitLock until there is room ...
Capacity == FlushSize * Len(writer)
MayFlush == lock.submit = 0 /\ fq.pending < Capacity
FlushWait ==
    /\ main.pc = "flush" /\ MayFlush
    /\ main' = [main EXCEPT !.pc = "submit"]
    /\ UNCHANGED <<cfg, phase, data, chunks, resultSize, chunkVars, round, tmp, queues, fq, writer, lock>>
\* ... then, under m_lock, submit all but the last entry ...
SubmittedAll == [fq EXCEPT !.entries = Append(@, <<fq.offset, fq.data>>),   \* mutant: no pop_back()
                           !.data = <<Last(fq.data)>>, !.offset = @ + Len(fq.data) - 1, !.read = fq.pending]
Submitted == [fq EXCEPT !.entries = Append(@, <<fq.offset, Front(fq.data)>>),
                        !.data = <<Last(fq.data)>>, !.offset = @ + Len(fq.data) - 1,
                        !.read = fq.pending]
Submit ==
    /\ main.pc = "submit" /\ lock.m = 0
    /\ lock' = [lock EXCEPT !.m = -1]
    /\ fq' = Submitted
    /\ main' = [main EXCEPT !.pc = "count"]
    /\ UNCHANGED <<cfg, phase, data, chunks, resultSize, chunkVars, round, tmp, queues, writer>>
\* ... and add to m_pendingFlushSize, which a writer may be decreasing.
CountPending ==
    /\ main.pc = "count"
    /\ fq' = [fq EXCEPT !.pending = (fq.read + Len(Last(fq.entries)[2])) % Wrap]
    /\ \E wake \in SUBSET {j \in DOMAIN writer : writer[j].pc = "asleep"} :
          /\ Cardinality(wake) = (IF \E j \in DOMAIN writer : writer[j].pc = "asleep" THEN 1 ELSE 0)
          /\ writer' = [j \in DOMAIN writer |-> IF j \in wake THEN [writer[j] EXCEPT !.pc = "idle"] ELSE writer[j]]
    /\ lock' = [lock EXCEPT !.m = 0]
    /\ main' = [main EXCEPT !.pc = main.ret]
    /\ UNCHANGED <<cfg, phase, data, chunks, resultSize, chunkVars, round, tmp, queues>>

\* run(), under m_lock: take an entry, or wait, or end.
Look(j) ==
    /\ writer[j].pc = "idle" /\ lock.m = 0
    /\ IF fq.entries # <<>>
       THEN /\ writer' = [writer EXCEPT ![j].pc = "write", ![j].entry = Head(fq.entries)]
            /\ fq' = [fq EXCEPT !.entries = Tail(@)]
            /\ lock' = lock
       ELSE /\ writer' = [writer EXCEPT ![j].pc = IF fq.running THEN "tested" ELSE "done"]
            /\ lock' = [lock EXCEPT !.m = IF fq.running THEN j ELSE 0]
            /\ fq' = fq
    /\ UNCHANGED <<cfg, phase, data, chunks, resultSize, chunkVars, main, round, tmp, queues>>
\* m_cv.wait() releases m_lock some time after its predicate was false.
Sleep(j) ==
    /\ writer[j].pc = "tested"
    /\ writer' = [writer EXCEPT ![j].pc = "asleep"]
    /\ lock' = [lock EXCEPT !.m = 0]
    /\ UNCHANGED <<cfg, phase, data, chunks, resultSize, chunkVars, main, round, tmp, queues, fq>>
Write(j) ==
    /\ writer[j].pc = "write"
    /\ tmp' = Replaced(tmp, writer[j].entry[1], writer[j].entry[2])
    /\ writer' = [writer EXCEPT ![j].pc = "written"]
    /\ UNCHANGED <<cfg, phase, data, chunks, resultSize, chunkVars, main, round, queues, fq, lock>>
\* m_pendingFlushSize -= size under m_submitLock: a read and a write.
ReadPending(j) ==
    /\ writer[j].pc = "written" /\ lock.submit = 0
    /\ lock' = [lock EXCEPT !.submit = j]
    /\ writer' = [writer EXCEPT ![j].pc = "read", ![j].read = fq.pending]
    /\ UNCHANGED <<cfg, phase, data, chunks, resultSize, chunkVars, main, round, tmp, queues, fq>>
WritePending(j) ==
    /\ writer[j].pc = "read"
    /\ fq' = [fq EXCEPT !.pending = (writer[j].read - Len(writer[j].entry[2])) % Wrap]
    /\ lock' = [lock EXCEPT !.submit = 0]
    /\ writer' = [writer EXCEPT ![j].pc = "idle"]
    /\ UNCHANGED <<cfg, phase, data, chunks, resultSize, chunkVars, main, round, tmp, queues>>

-----------------------------------------------------------------------------

\* A call: no threads is an error, small sources are sorted in memory.
Init ==
    /\ cfg \in Configs
    /\ IF cfg.threads = 0 THEN phase = "threw" /\ data = cfg.src /\ resultSize = 0
       ELSE IF cfg.inMemory
       THEN /\ phase = "done" /\ resultSize = Len(Ordered(cfg.src))
            /\ data = Replaced(cfg.src, 0, Ordered(cfg.src))
       ELSE phase = "chunks" /\ data = cfg.src /\ resultSize = 0
    /\ offset = 0 /\ chunks = <<>> /\ want = FALSE
    /\ worker = [w \in Workers |-> Fresh("begin")]
    /\ main = [pc |-> "group", ret |-> "pop", q |-> 1]
    /\ round = [cbi |-> 1, next |-> <<>>]
    /\ tmp = <<>> /\ queues = <<>> /\ fq = NoFlush /\ writer = <<>>
    /\ lock = [m |-> 0, submit |-> 0]

WriterStep(j) == Look(j) \/ Sleep(j) \/ Write(j) \/ ReadPending(j) \/ WritePending(j)
MainStep ==
    \/ JoinWorkers \/ MergeSingle \/ Setup \/ Prime \/ Select \/ Pop \/ FlushWait \/ Submit
    \/ CountPending \/ StopWriters \/ NotifyWriters \/ EndGroup \/ EndRound \/ Return
Returned == phase \in {"done", "threw"} /\ UNCHANGED vars
Next ==
    \/ phase = "chunks" /\ \E w \in Workers : ChunkStep(w)
    \/ MainStep
    \/ \E i \in DOMAIN queues : Produce(i)
    \/ \E j \in DOMAIN writer : WriterStep(j)
    \/ Returned

\* Every thread that can run does.
MaxThreads == 4
Fairness ==
    /\ WF_vars(MainStep)
    /\ \A w \in 1 .. MaxThreads : WF_vars(phase = "chunks" /\ w \in Workers /\ ChunkStep(w))
    /\ \A i \in 1 .. MaxThreads : WF_vars(i \in DOMAIN queues /\ Produce(i))
    /\ \A j \in 1 .. MaxThreads : WF_vars(j \in DOMAIN writer /\ WriterStep(j))
Spec == Init /\ [][Next]_vars /\ Fairness

-----------------------------------------------------------------------------

TypeOK ==
    /\ phase \in {"chunks", "merge", "done", "threw"}
    /\ data \in Seq(Nat) /\ Len(data) = Len(cfg.src)
    /\ offset \in 0 .. Len(data) /\ resultSize \in 0 .. Len(data)
    /\ \A c \in DOMAIN chunks : chunks[c] \in (0 .. Len(data)) \X (0 .. Len(data))
    /\ Len(tmp) <= Len(data)
    /\ fq.pending \in 0 .. Wrap - 1
    /\ lock.m \in {-1, 0} \cup DOMAIN writer /\ lock.submit \in {0} \cup DOMAIN writer

\* What oom_sort() leaves in [begin, result) is the source in order, each value as
\* often as it was there or, with makeUnique, once: whatever the workers, the
\* producers and the writers do, nothing is lost, doubled or misplaced.
ResultSorted == phase = "done" => SubSeq(data, 1, resultSize) = Ordered(cfg.src)

\* Between the rounds (oom_algorithm.h:303, "NOT necessarily contiguous, BUT they are
\* always sorted in ascending order") the pending chunks lie one after the other,
\* none is empty, each is sorted, and together they hold what the source holds.
Contents(c) == SubSeq(data, chunks[c][1] + 1, chunks[c][2])
ChunksHoldSource ==
    phase = "merge" /\ main.pc = "group" /\ round.cbi = 1 =>
        /\ \A c \in DOMAIN chunks : chunks[c][1] < chunks[c][2]
        /\ \A c, d \in DOMAIN chunks : c < d => chunks[c][2] <= chunks[d][1]
        /\ \A c \in DOMAIN chunks : Contents(c) = Ordered(Contents(c))
        /\ LET all == FoldLeft(LAMBDA s, c : s \o Contents(c), <<>>, [c \in DOMAIN chunks |-> c])
           IN IF cfg.unique THEN ToSet(all) = ToSet(cfg.src) ELSE Sorted(all) = Sorted(cfg.src)

\* The writers never write the same place twice nor beyond what was submitted: the
\* ranges that are queued or being written are disjoint and below m_offset.
Ranges == {<<fq.entries[k], k>> : k \in DOMAIN fq.entries}
          \cup {<<writer[j].entry, -j>> : j \in {k \in DOMAIN writer : writer[k].pc = "write"}}
WritesDisjoint ==
    \A r, s \in Ranges :
        LET from(x) == x[1][1]
            to(x) == x[1][1] + Len(x[1][2])
        IN /\ to(r) <= fq.offset /\ to(r) <= Len(tmp)
           /\ r # s => to(r) <= from(s) \/ to(s) <= from(r)

\* While chunks are sorted not everybody sleeps: a paused worker is woken again and
\* the last active ones neither pause nor leave without waking the others.
SomeoneAwake ==
    phase = "chunks" =>
        \/ \A w \in Workers : worker[w].pc = "exit"
        \/ \E w \in Workers : worker[w].pc \notin {"exit", "paused"}

\* oom_algorithm.h:760, "notify submit thread that it can continue issuing new data":
\* a submit thread that waits for room continues.
SubmitContinues == (main.pc = "flush") ~> (main.pc # "flush")
=============================================================================
