-------------------------- MODULE ThreadPoolProofs --------------------------
(***************************************************************************)
(* Proofs about ThreadPool, for any number of workers, clients and tasks.  *)
(***************************************************************************)
EXTENDS ThreadPool, TLAPS, FiniteSetTheorems

\* The workers that are counted by m_qi.runningTasks and by m_runningThreads.
Running == {w \in Workers : wpc[w] \in {"run", "done"}}
NotAlive == {"none", "begin", "exitNotify", "finished", "joined"}
Alive == {w \in Workers : wpc[w] \notin NotAlive}

\* The mutex of m_qi belongs to the one worker between lock and unlock.
LockInv == \A w \in Workers :
    (wpc[w] \in {"check", "block", "recheck"}) <=> (qiLock = w)

\* Threads beyond m_threads.size() do not exist.
SpawnInv == \A w \in Workers : (w > threads) <=> (wpc[w] = "none")

\* The two counters say what they are meant to say.
CountInv ==
    /\ runningTasks = Cardinality(Running)
    /\ runningThreads = Cardinality(Alive)

\* A worker has a task in its hands exactly while it is about to run it.
HoldInv == \A w \in Workers :
    /\ wpc[w] = "run" => \E t \in Tasks : holding[w] = {t}
    /\ wpc[w] # "run" => holding[w] = {}

FlushInv == \A c \in Clients :
    /\ flushing[c] \subseteq scheduled
    /\ cpc[c] \in {"idle", "notify"} => flushing[c] = {}

\* The part of the invariant that is about control, and the whole.
ControlInv == TypeOK /\ LockInv /\ SpawnInv /\ CountInv
IInv == ControlInv /\ HoldInv /\ FlushInv /\ ExactlyOnce

LEMMA WorkersFinite == IsFiniteSet(Workers)
  BY PoolAssumption, FS_Interval DEF Workers

LEMMA InitControl == Init => ControlInv
<1> SUFFICES ASSUME Init PROVE ControlInv
  OBVIOUS
<1>1. TypeOK
  <2>1. q \in Seq(Tasks) /\ runningTasks \in Nat /\ runningThreads \in Nat
    BY DEF Init
  <2>2. online \in BOOLEAN /\ rtLock \in BOOLEAN /\ qiLock \in Workers \cup {Free}
    BY DEF Init
  <2>3. TypeThreads
    BY PoolAssumption DEF Init, TypeThreads, Workers, WorkerPC, ClientPC, OwnerPC
  <2>4. TypeHistory
    BY DEF Init, TypeHistory
  <2> QED
    BY <2>1, <2>2, <2>3, <2>4 DEF TypeOK, TypeShared
<1>2. Running = {} /\ Alive = {}
  BY DEF Init, Running, Alive, NotAlive
<1>3. CountInv
  BY <1>2, FS_EmptySet DEF Init, CountInv
<1>4. LockInv /\ SpawnInv
  BY PoolAssumption DEF Init, LockInv, SpawnInv, Workers, Free
<1> QED
  BY <1>1, <1>3, <1>4 DEF ControlInv

\* A worker that is counted makes the counter positive.
LEMMA CountedPositive == ASSUME IInv, NEW w \in Workers
                         PROVE  /\ w \in Running => runningTasks - 1 \in Nat
                                /\ w \in Alive => runningThreads - 1 \in Nat
<1>1. IsFiniteSet(Running) /\ IsFiniteSet(Alive)
  BY WorkersFinite, FS_Subset DEF Running, Alive
<1>2. w \in Running => Cardinality(Running) \in Nat \ {0}
  BY <1>1, FS_EmptySet, FS_CardinalityType
<1>3. w \in Alive => Cardinality(Alive) \in Nat \ {0}
  BY <1>1, FS_EmptySet, FS_CardinalityType
<1> QED
  BY <1>2, <1>3 DEF IInv, ControlInv, CountInv

\* Every action keeps the types, the ownership of the mutex of m_qi and the
\* numbering of the threads.
LEMMA ControlStep == ASSUME IInv, [Next]_vars PROVE (TypeOK /\ LockInv /\ SpawnInv)'
<1> USE PoolAssumption DEF IInv, ControlInv, TypeOK, TypeShared, TypeThreads,
    TypeHistory, LockInv, SpawnInv, WorkerPC, ClientPC, OwnerPC, Workers,
    Free, shared, ownerVars, bounds, history,
    WorkerGoes, ClientGoes, OwnerGoes
<1>1. ASSUME NEW w \in Workers, WBegin(w) PROVE (TypeOK /\ LockInv /\ SpawnInv)'
  BY <1>1 DEF WBegin
<1>2. ASSUME NEW w \in Workers, WBeginNotify(w) PROVE (TypeOK /\ LockInv /\ SpawnInv)'
  BY <1>2 DEF WBeginNotify, WokenOwner
<1>3. ASSUME NEW w \in Workers, WLoop(w) PROVE (TypeOK /\ LockInv /\ SpawnInv)'
  BY <1>3 DEF WLoop
<1>4. ASSUME NEW w \in Workers, WLock(w) PROVE (TypeOK /\ LockInv /\ SpawnInv)'
  BY <1>4 DEF WLock
<1>5. ASSUME NEW w \in Workers, WCheck(w) PROVE (TypeOK /\ LockInv /\ SpawnInv)'
  BY <1>5 DEF WCheck, NothingToDo
<1>6. ASSUME NEW w \in Workers, WBlock(w) PROVE (TypeOK /\ LockInv /\ SpawnInv)'
  BY <1>6 DEF WBlock
<1>7. ASSUME NEW w \in Workers, WRelock(w) PROVE (TypeOK /\ LockInv /\ SpawnInv)'
  BY <1>7 DEF WRelock
<1>8. ASSUME NEW w \in Workers, WSkip(w) PROVE (TypeOK /\ LockInv /\ SpawnInv)'
  BY <1>8 DEF WSkip
<1>9. ASSUME NEW w \in Workers, WTake(w) PROVE (TypeOK /\ LockInv /\ SpawnInv)'
  BY <1>9 DEF WTake, OneMoreRunning, Popped
<1>10. ASSUME NEW w \in Workers, WRun(w) PROVE (TypeOK /\ LockInv /\ SpawnInv)'
  BY <1>10 DEF WRun
<1>11. ASSUME NEW w \in Workers, WDone(w) PROVE (TypeOK /\ LockInv /\ SpawnInv)'
  <2>1. runningTasks - 1 \in Nat
    BY <1>11, CountedPositive DEF WDone, Running
  <2> QED
    BY <2>1, <1>11 DEF WDone
<1>12. ASSUME NEW w \in Workers, WDoneNotify(w) PROVE (TypeOK /\ LockInv /\ SpawnInv)'
  BY <1>12 DEF WDoneNotify, WokenWorkers, WokenClients
<1>13. ASSUME NEW w \in Workers, WExit(w) PROVE (TypeOK /\ LockInv /\ SpawnInv)'
  <2>1. runningThreads - 1 \in Nat
    BY <1>13, CountedPositive DEF WExit, Alive, NotAlive
  <2> QED
    BY <2>1, <1>13 DEF WExit
<1>14. ASSUME NEW w \in Workers, WExitNotify(w) PROVE (TypeOK /\ LockInv /\ SpawnInv)'
  BY <1>14 DEF WExitNotify, WokenOwner
<1>15. ASSUME NEW c \in Clients, SheduleNotify(c) PROVE (TypeOK /\ LockInv /\ SpawnInv)'
  BY <1>15, ZenonT(60) DEF SheduleNotify, NotifyOneQi
<1>16. ASSUME NEW c \in Clients, FlushWait(c) PROVE (TypeOK /\ LockInv /\ SpawnInv)'
  BY <1>16 DEF FlushWait, QueueDrained
<1>17. ASSUME NEW c \in Clients, FlushReturn(c) PROVE (TypeOK /\ LockInv /\ SpawnInv)'
  BY <1>17 DEF FlushReturn, QueueDrained
<1>18. ASSUME NEW c \in Clients, FlushQueue(c) PROVE (TypeOK /\ LockInv /\ SpawnInv)'
  BY <1>18 DEF FlushQueue
<1>19. ASSUME NEW c \in Clients, NEW t \in Tasks, SheduleTask(c, t) PROVE (TypeOK /\ LockInv /\ SpawnInv)'
  BY <1>19 DEF SheduleTask, Pushed
<1>20. ASSUME Start PROVE (TypeOK /\ LockInv /\ SpawnInv)'
  BY <1>20 DEF Start
<1>21. ASSUME Spawn PROVE (TypeOK /\ LockInv /\ SpawnInv)'
  BY <1>21 DEF Spawn
<1>22. ASSUME Spawned PROVE (TypeOK /\ LockInv /\ SpawnInv)'
  BY <1>22 DEF Spawned
<1>23. ASSUME StartWait PROVE (TypeOK /\ LockInv /\ SpawnInv)'
  BY <1>23 DEF StartWait
<1>24. ASSUME StartReturn PROVE (TypeOK /\ LockInv /\ SpawnInv)'
  BY <1>24 DEF StartReturn
<1>25. ASSUME Stop PROVE (TypeOK /\ LockInv /\ SpawnInv)'
  BY <1>25 DEF Stop
<1>26. ASSUME StopLock PROVE (TypeOK /\ LockInv /\ SpawnInv)'
  BY <1>26 DEF StopLock
<1>27. ASSUME StopSync PROVE (TypeOK /\ LockInv /\ SpawnInv)'
  BY <1>27 DEF StopSync
<1>28. ASSUME StopNotify PROVE (TypeOK /\ LockInv /\ SpawnInv)'
  BY <1>28 DEF StopNotify, WokenWorkers, WokenClients
<1>29. ASSUME StopBlock PROVE (TypeOK /\ LockInv /\ SpawnInv)'
  BY <1>29 DEF StopBlock
<1>30. ASSUME StopReturn PROVE (TypeOK /\ LockInv /\ SpawnInv)'
  BY <1>30 DEF StopReturn, AllEnded
<1>31. ASSUME Destroy PROVE (TypeOK /\ LockInv /\ SpawnInv)'
  BY <1>31 DEF Destroy
<1>32. ASSUME NEW num \in ResizeTo, NumThreads(num) PROVE (TypeOK /\ LockInv /\ SpawnInv)'
  BY <1>32 DEF NumThreads
<1>33. ASSUME SpuriousWakeup PROVE (TypeOK /\ LockInv /\ SpawnInv)'
  <2>1. ASSUME NEW w \in Workers, wpc[w] = "wait", UNCHANGED <<cpc, opc>>,
               wpc' = [wpc EXCEPT ![w] = "relock"]
        PROVE  (TypeOK /\ LockInv /\ SpawnInv)'
    BY <2>1, <1>33 DEF SpuriousWakeup
  <2>2. ASSUME NEW c \in Clients, cpc[c] = "wait", UNCHANGED <<wpc, opc>>,
               cpc' = [cpc EXCEPT ![c] = "flush"]
        PROVE  (TypeOK /\ LockInv /\ SpawnInv)'
    BY <2>2, <1>33 DEF SpuriousWakeup
  <2>3. ASSUME opc' = WokenOwner, UNCHANGED <<wpc, cpc>>
        PROVE  (TypeOK /\ LockInv /\ SpawnInv)'
    BY <2>3, <1>33, SMTT(30) DEF SpuriousWakeup, WokenOwner
  <2> QED
    BY <2>1, <2>2, <2>3, <1>33 DEF SpuriousWakeup
<1>34. ASSUME UNCHANGED vars PROVE (TypeOK /\ LockInv /\ SpawnInv)'
  BY <1>34 DEF vars
<1> QED
  BY <1>1, <1>2, <1>3, <1>4, <1>5, <1>6, <1>7, <1>8, <1>9, <1>10, <1>11,
     <1>12, <1>13, <1>14, <1>15, <1>16, <1>17, <1>18, <1>19, <1>20,
     <1>21, <1>22, <1>23, <1>24, <1>25, <1>26, <1>27, <1>28, <1>29,
     <1>30, <1>31, <1>32, <1>33, <1>34
     DEF Next, Worker, Client, ClientCall, Owner, OwnerCall, Terminated

\* The counted sets and the counters move together or not at all.
CounterFrame ==
    /\ Running' = Running /\ Alive' = Alive
    /\ UNCHANGED <<runningTasks, runningThreads>>

CounterAction ==
    \E v \in Workers : WBegin(v) \/ WTake(v) \/ WDone(v) \/ WExit(v)

\* All other actions leave them alone.
LEMMA CounterFrameStep == ASSUME IInv, [Next]_vars PROVE CounterFrame \/ CounterAction
<1> USE DEF IInv, ControlInv, TypeOK, TypeThreads, CounterFrame,
    Running, Alive, NotAlive, Workers, shared, ownerVars, bounds, history,
    WorkerGoes, ClientGoes, OwnerGoes
<1>1. ASSUME NEW w \in Workers, WBegin(w) PROVE CounterFrame \/ CounterAction
  BY <1>1 DEF CounterAction
<1>2. ASSUME NEW w \in Workers, WBeginNotify(w) PROVE CounterFrame \/ CounterAction
  BY <1>2 DEF WBeginNotify, WokenOwner
<1>3. ASSUME NEW w \in Workers, WLoop(w) PROVE CounterFrame \/ CounterAction
  BY <1>3 DEF WLoop
<1>4. ASSUME NEW w \in Workers, WLock(w) PROVE CounterFrame \/ CounterAction
  BY <1>4 DEF WLock
<1>5. ASSUME NEW w \in Workers, WCheck(w) PROVE CounterFrame \/ CounterAction
  BY <1>5 DEF WCheck, NothingToDo
<1>6. ASSUME NEW w \in Workers, WBlock(w) PROVE CounterFrame \/ CounterAction
  BY <1>6 DEF WBlock
<1>7. ASSUME NEW w \in Workers, WRelock(w) PROVE CounterFrame \/ CounterAction
  BY <1>7 DEF WRelock
<1>8. ASSUME NEW w \in Workers, WSkip(w) PROVE CounterFrame \/ CounterAction
  BY <1>8 DEF WSkip
<1>9. ASSUME NEW w \in Workers, WTake(w) PROVE CounterFrame \/ CounterAction
  BY <1>9 DEF CounterAction
<1>10. ASSUME NEW w \in Workers, WRun(w) PROVE CounterFrame \/ CounterAction
  BY <1>10 DEF WRun
<1>11. ASSUME NEW w \in Workers, WDone(w) PROVE CounterFrame \/ CounterAction
  BY <1>11 DEF CounterAction
<1>12. ASSUME NEW w \in Workers, WDoneNotify(w) PROVE CounterFrame \/ CounterAction
  BY <1>12 DEF WDoneNotify, WokenWorkers, WokenClients
<1>13. ASSUME NEW w \in Workers, WExit(w) PROVE CounterFrame \/ CounterAction
  BY <1>13 DEF CounterAction
<1>14. ASSUME NEW w \in Workers, WExitNotify(w) PROVE CounterFrame \/ CounterAction
  BY <1>14 DEF WExitNotify, WokenOwner
<1>15. ASSUME NEW c \in Clients, SheduleNotify(c) PROVE CounterFrame \/ CounterAction
  BY <1>15 DEF SheduleNotify, NotifyOneQi
<1>16. ASSUME NEW c \in Clients, FlushWait(c) PROVE CounterFrame \/ CounterAction
  BY <1>16 DEF FlushWait, QueueDrained
<1>17. ASSUME NEW c \in Clients, FlushReturn(c) PROVE CounterFrame \/ CounterAction
  BY <1>17 DEF FlushReturn, QueueDrained
<1>18. ASSUME NEW c \in Clients, FlushQueue(c) PROVE CounterFrame \/ CounterAction
  BY <1>18 DEF FlushQueue
<1>19. ASSUME NEW c \in Clients, NEW t \in Tasks, SheduleTask(c, t) PROVE CounterFrame \/ CounterAction
  BY <1>19 DEF SheduleTask, Pushed
<1>20. ASSUME Start PROVE CounterFrame \/ CounterAction
  BY <1>20 DEF Start
<1>21. ASSUME Spawn PROVE CounterFrame \/ CounterAction
  BY <1>21, PoolAssumption DEF Spawn, SpawnInv
<1>22. ASSUME Spawned PROVE CounterFrame \/ CounterAction
  BY <1>22 DEF Spawned
<1>23. ASSUME StartWait PROVE CounterFrame \/ CounterAction
  BY <1>23 DEF StartWait
<1>24. ASSUME StartReturn PROVE CounterFrame \/ CounterAction
  BY <1>24 DEF StartReturn
<1>25. ASSUME Stop PROVE CounterFrame \/ CounterAction
  BY <1>25 DEF Stop
<1>26. ASSUME StopLock PROVE CounterFrame \/ CounterAction
  BY <1>26 DEF StopLock
<1>27. ASSUME StopSync PROVE CounterFrame \/ CounterAction
  BY <1>27 DEF StopSync
<1>28. ASSUME StopNotify PROVE CounterFrame \/ CounterAction
  BY <1>28 DEF StopNotify, WokenWorkers, WokenClients
<1>29. ASSUME StopBlock PROVE CounterFrame \/ CounterAction
  BY <1>29 DEF StopBlock
<1>30. ASSUME StopReturn PROVE CounterFrame \/ CounterAction
  BY <1>30 DEF StopReturn, AllEnded
<1>31. ASSUME Destroy PROVE CounterFrame \/ CounterAction
  BY <1>31 DEF Destroy
<1>32. ASSUME NEW num \in ResizeTo, NumThreads(num) PROVE CounterFrame \/ CounterAction
  BY <1>32 DEF NumThreads
<1>33. ASSUME SpuriousWakeup PROVE CounterFrame \/ CounterAction
  BY <1>33 DEF SpuriousWakeup, WokenOwner
<1>34. ASSUME UNCHANGED vars PROVE CounterFrame \/ CounterAction
  BY <1>34 DEF vars
<1> QED
  BY <1>1, <1>2, <1>3, <1>4, <1>5, <1>6, <1>7, <1>8, <1>9, <1>10, <1>11,
     <1>12, <1>13, <1>14, <1>15, <1>16, <1>17, <1>18, <1>19, <1>20,
     <1>21, <1>22, <1>23, <1>24, <1>25, <1>26, <1>27, <1>28, <1>29,
     <1>30, <1>31, <1>32, <1>33, <1>34
     DEF Next, Worker, Client, ClientCall, Owner, OwnerCall, Terminated

\* Every action keeps HoldInv and FlushInv.
LEMMA HoldFlushStep == ASSUME IInv, [Next]_vars PROVE (HoldInv /\ FlushInv)'
<1> USE DEF IInv, ControlInv, TypeOK, TypeThreads, TypeShared, TypeHistory,
    HoldInv, FlushInv, shared, ownerVars, bounds, history,
    WorkerGoes, ClientGoes, OwnerGoes
<1>1. ASSUME NEW w \in Workers, WBegin(w) PROVE (HoldInv /\ FlushInv)'
  BY <1>1 DEF WBegin
<1>2. ASSUME NEW w \in Workers, WBeginNotify(w) PROVE (HoldInv /\ FlushInv)'
  BY <1>2 DEF WBeginNotify, WokenOwner
<1>3. ASSUME NEW w \in Workers, WLoop(w) PROVE (HoldInv /\ FlushInv)'
  BY <1>3 DEF WLoop
<1>4. ASSUME NEW w \in Workers, WLock(w) PROVE (HoldInv /\ FlushInv)'
  BY <1>4 DEF WLock
<1>5. ASSUME NEW w \in Workers, WCheck(w) PROVE (HoldInv /\ FlushInv)'
  BY <1>5 DEF WCheck, NothingToDo
<1>6. ASSUME NEW w \in Workers, WBlock(w) PROVE (HoldInv /\ FlushInv)'
  BY <1>6 DEF WBlock
<1>7. ASSUME NEW w \in Workers, WRelock(w) PROVE (HoldInv /\ FlushInv)'
  BY <1>7 DEF WRelock
<1>8. ASSUME NEW w \in Workers, WSkip(w) PROVE (HoldInv /\ FlushInv)'
  BY <1>8 DEF WSkip
<1>9. ASSUME NEW w \in Workers, WTake(w) PROVE (HoldInv /\ FlushInv)'
  <2>1. Head(q) \in Tasks
    BY <1>9 DEF WTake
  <2> QED
    BY <2>1, <1>9 DEF WTake, OneMoreRunning, Popped
<1>10. ASSUME NEW w \in Workers, WRun(w) PROVE (HoldInv /\ FlushInv)'
  BY <1>10 DEF WRun
<1>11. ASSUME NEW w \in Workers, WDone(w) PROVE (HoldInv /\ FlushInv)'
  BY <1>11 DEF WDone
<1>12. ASSUME NEW w \in Workers, WDoneNotify(w) PROVE (HoldInv /\ FlushInv)'
  BY <1>12 DEF WDoneNotify, WokenWorkers, WokenClients
<1>13. ASSUME NEW w \in Workers, WExit(w) PROVE (HoldInv /\ FlushInv)'
  BY <1>13 DEF WExit
<1>14. ASSUME NEW w \in Workers, WExitNotify(w) PROVE (HoldInv /\ FlushInv)'
  BY <1>14 DEF WExitNotify, WokenOwner
<1>15. ASSUME NEW c \in Clients, SheduleNotify(c) PROVE (HoldInv /\ FlushInv)'
  BY <1>15 DEF SheduleNotify, NotifyOneQi
<1>16. ASSUME NEW c \in Clients, FlushWait(c) PROVE (HoldInv /\ FlushInv)'
  BY <1>16 DEF FlushWait, QueueDrained
<1>17. ASSUME NEW c \in Clients, FlushReturn(c) PROVE (HoldInv /\ FlushInv)'
  BY <1>17 DEF FlushReturn, QueueDrained
<1>18. ASSUME NEW c \in Clients, FlushQueue(c) PROVE (HoldInv /\ FlushInv)'
  BY <1>18 DEF FlushQueue
<1>19. ASSUME NEW c \in Clients, NEW t \in Tasks, SheduleTask(c, t) PROVE (HoldInv /\ FlushInv)'
  BY <1>19 DEF SheduleTask, Pushed
<1>20. ASSUME Start PROVE (HoldInv /\ FlushInv)'
  BY <1>20 DEF Start
<1>21. ASSUME Spawn PROVE (HoldInv /\ FlushInv)'
  BY <1>21, PoolAssumption DEF Spawn, SpawnInv, Workers
<1>22. ASSUME Spawned PROVE (HoldInv /\ FlushInv)'
  BY <1>22 DEF Spawned
<1>23. ASSUME StartWait PROVE (HoldInv /\ FlushInv)'
  BY <1>23 DEF StartWait
<1>24. ASSUME StartReturn PROVE (HoldInv /\ FlushInv)'
  BY <1>24 DEF StartReturn
<1>25. ASSUME Stop PROVE (HoldInv /\ FlushInv)'
  BY <1>25 DEF Stop
<1>26. ASSUME StopLock PROVE (HoldInv /\ FlushInv)'
  BY <1>26 DEF StopLock
<1>27. ASSUME StopSync PROVE (HoldInv /\ FlushInv)'
  BY <1>27 DEF StopSync
<1>28. ASSUME StopNotify PROVE (HoldInv /\ FlushInv)'
  BY <1>28 DEF StopNotify, WokenWorkers, WokenClients
<1>29. ASSUME StopBlock PROVE (HoldInv /\ FlushInv)'
  BY <1>29 DEF StopBlock
<1>30. ASSUME StopReturn PROVE (HoldInv /\ FlushInv)'
  BY <1>30 DEF StopReturn, AllEnded
<1>31. ASSUME Destroy PROVE (HoldInv /\ FlushInv)'
  BY <1>31 DEF Destroy
<1>32. ASSUME NEW num \in ResizeTo, NumThreads(num) PROVE (HoldInv /\ FlushInv)'
  BY <1>32 DEF NumThreads
<1>33. ASSUME SpuriousWakeup PROVE (HoldInv /\ FlushInv)'
  BY <1>33 DEF SpuriousWakeup, WokenOwner
<1>34. ASSUME UNCHANGED vars PROVE (HoldInv /\ FlushInv)'
  BY <1>34 DEF vars
<1> QED
  BY <1>1, <1>2, <1>3, <1>4, <1>5, <1>6, <1>7, <1>8, <1>9, <1>10, <1>11,
     <1>12, <1>13, <1>14, <1>15, <1>16, <1>17, <1>18, <1>19, <1>20,
     <1>21, <1>22, <1>23, <1>24, <1>25, <1>26, <1>27, <1>28, <1>29,
     <1>30, <1>31, <1>32, <1>33, <1>34
     DEF Next, Worker, Client, ClientCall, Owner, OwnerCall, Terminated

\* The four actions that move a worker in or out of a counted set change the
\* counter by one.
LEMMA CountStep == ASSUME IInv, [Next]_vars PROVE CountInv'
<1>0. /\ IsFiniteSet(Running) /\ IsFiniteSet(Alive)
      /\ Cardinality(Running) \in Nat /\ Cardinality(Alive) \in Nat
  BY WorkersFinite, FS_Subset, FS_CardinalityType DEF Running, Alive
<1> USE DEF IInv, ControlInv, CountInv, TypeOK, TypeThreads, WorkerPC,
    shared, ownerVars, bounds, history, WorkerGoes
<1>1. CASE CounterFrame
  BY <1>1 DEF CounterFrame
<1>2. ASSUME NEW w \in Workers, WBegin(w) PROVE CountInv'
  <2>1. Running' = Running /\ Alive' = Alive \cup {w} /\ w \notin Alive
    BY <1>2 DEF WBegin, Running, Alive, NotAlive
  <2>2. Cardinality(Alive \cup {w}) = Cardinality(Alive) + 1
    BY <2>1, <1>0, FS_AddElement
  <2> QED
    BY <2>1, <2>2, <1>2 DEF WBegin
<1>3. ASSUME NEW w \in Workers, WTake(w) PROVE CountInv'
  <2>1. Alive' = Alive /\ Running' = Running \cup {w} /\ w \notin Running
    BY <1>3 DEF WTake, Running, Alive, NotAlive
  <2>2. Cardinality(Running \cup {w}) = Cardinality(Running) + 1
    BY <2>1, <1>0, FS_AddElement
  <2> QED
    BY <2>1, <2>2, <1>3 DEF WTake, OneMoreRunning
<1>4. ASSUME NEW w \in Workers, WDone(w) PROVE CountInv'
  <2>1. Alive' = Alive /\ Running' = Running \ {w} /\ w \in Running
    BY <1>4 DEF WDone, Running, Alive, NotAlive
  <2>2. Cardinality(Running \ {w}) = Cardinality(Running) - 1
    BY <2>1, <1>0, FS_RemoveElement
  <2> QED
    BY <2>1, <2>2, <1>4 DEF WDone
<1>5. ASSUME NEW w \in Workers, WExit(w) PROVE CountInv'
  <2>1. Running' = Running /\ Alive' = Alive \ {w} /\ w \in Alive
    BY <1>5 DEF WExit, Running, Alive, NotAlive
  <2>2. Cardinality(Alive \ {w}) = Cardinality(Alive) - 1
    BY <2>1, <1>0, FS_RemoveElement
  <2> QED
    BY <2>1, <2>2, <1>5 DEF WExit
<1> QED
  BY <1>1, <1>2, <1>3, <1>4, <1>5, CounterFrameStep DEF CounterAction

\* The only actions that touch what a client can observe of its tasks.
dataVars == <<q, holding, executed, scheduled, flushing>>

DataAction ==
    \/ \E w \in Workers : WTake(w) \/ WRun(w)
    \/ \E c \in Clients : FlushQueue(c) \/ FlushReturn(c)
    \/ \E c \in Clients, t \in Tasks : SheduleTask(c, t)

\* All other actions leave them alone.
LEMMA DataFrameStep == ASSUME [Next]_vars PROVE UNCHANGED dataVars \/ DataAction
<1> USE DEF dataVars, shared, ownerVars, bounds, history,
    WorkerGoes, ClientGoes, OwnerGoes
<1>1. ASSUME NEW w \in Workers, WBegin(w) PROVE UNCHANGED dataVars \/ DataAction
  BY <1>1 DEF WBegin
<1>2. ASSUME NEW w \in Workers, WBeginNotify(w) PROVE UNCHANGED dataVars \/ DataAction
  BY <1>2 DEF WBeginNotify, WokenOwner
<1>3. ASSUME NEW w \in Workers, WLoop(w) PROVE UNCHANGED dataVars \/ DataAction
  BY <1>3 DEF WLoop
<1>4. ASSUME NEW w \in Workers, WLock(w) PROVE UNCHANGED dataVars \/ DataAction
  BY <1>4 DEF WLock
<1>5. ASSUME NEW w \in Workers, WCheck(w) PROVE UNCHANGED dataVars \/ DataAction
  BY <1>5 DEF WCheck, NothingToDo
<1>6. ASSUME NEW w \in Workers, WBlock(w) PROVE UNCHANGED dataVars \/ DataAction
  BY <1>6 DEF WBlock
<1>7. ASSUME NEW w \in Workers, WRelock(w) PROVE UNCHANGED dataVars \/ DataAction
  BY <1>7 DEF WRelock
<1>8. ASSUME NEW w \in Workers, WSkip(w) PROVE UNCHANGED dataVars \/ DataAction
  BY <1>8 DEF WSkip
<1>9. ASSUME NEW w \in Workers, WTake(w) PROVE UNCHANGED dataVars \/ DataAction
  BY <1>9 DEF DataAction
<1>10. ASSUME NEW w \in Workers, WRun(w) PROVE UNCHANGED dataVars \/ DataAction
  BY <1>10 DEF DataAction
<1>11. ASSUME NEW w \in Workers, WDone(w) PROVE UNCHANGED dataVars \/ DataAction
  BY <1>11 DEF WDone
<1>12. ASSUME NEW w \in Workers, WDoneNotify(w) PROVE UNCHANGED dataVars \/ DataAction
  BY <1>12 DEF WDoneNotify, WokenWorkers, WokenClients
<1>13. ASSUME NEW w \in Workers, WExit(w) PROVE UNCHANGED dataVars \/ DataAction
  BY <1>13 DEF WExit
<1>14. ASSUME NEW w \in Workers, WExitNotify(w) PROVE UNCHANGED dataVars \/ DataAction
  BY <1>14 DEF WExitNotify, WokenOwner
<1>15. ASSUME NEW c \in Clients, SheduleNotify(c) PROVE UNCHANGED dataVars \/ DataAction
  BY <1>15 DEF SheduleNotify, NotifyOneQi
<1>16. ASSUME NEW c \in Clients, FlushWait(c) PROVE UNCHANGED dataVars \/ DataAction
  BY <1>16 DEF FlushWait, QueueDrained
<1>17. ASSUME NEW c \in Clients, FlushReturn(c) PROVE UNCHANGED dataVars \/ DataAction
  BY <1>17 DEF DataAction
<1>18. ASSUME NEW c \in Clients, FlushQueue(c) PROVE UNCHANGED dataVars \/ DataAction
  BY <1>18 DEF DataAction
<1>19. ASSUME NEW c \in Clients, NEW t \in Tasks, SheduleTask(c, t) PROVE UNCHANGED dataVars \/ DataAction
  BY <1>19 DEF DataAction
<1>20. ASSUME Start PROVE UNCHANGED dataVars \/ DataAction
  BY <1>20 DEF Start
<1>21. ASSUME Spawn PROVE UNCHANGED dataVars \/ DataAction
  BY <1>21 DEF Spawn
<1>22. ASSUME Spawned PROVE UNCHANGED dataVars \/ DataAction
  BY <1>22 DEF Spawned
<1>23. ASSUME StartWait PROVE UNCHANGED dataVars \/ DataAction
  BY <1>23 DEF StartWait
<1>24. ASSUME StartReturn PROVE UNCHANGED dataVars \/ DataAction
  BY <1>24 DEF StartReturn
<1>25. ASSUME Stop PROVE UNCHANGED dataVars \/ DataAction
  BY <1>25 DEF Stop
<1>26. ASSUME StopLock PROVE UNCHANGED dataVars \/ DataAction
  BY <1>26 DEF StopLock
<1>27. ASSUME StopSync PROVE UNCHANGED dataVars \/ DataAction
  BY <1>27 DEF StopSync
<1>28. ASSUME StopNotify PROVE UNCHANGED dataVars \/ DataAction
  BY <1>28 DEF StopNotify, WokenWorkers, WokenClients
<1>29. ASSUME StopBlock PROVE UNCHANGED dataVars \/ DataAction
  BY <1>29 DEF StopBlock
<1>30. ASSUME StopReturn PROVE UNCHANGED dataVars \/ DataAction
  BY <1>30 DEF StopReturn, AllEnded
<1>31. ASSUME Destroy PROVE UNCHANGED dataVars \/ DataAction
  BY <1>31 DEF Destroy
<1>32. ASSUME NEW num \in ResizeTo, NumThreads(num) PROVE UNCHANGED dataVars \/ DataAction
  BY <1>32 DEF NumThreads
<1>33. ASSUME SpuriousWakeup PROVE UNCHANGED dataVars \/ DataAction
  BY <1>33 DEF SpuriousWakeup, WokenOwner
<1>34. ASSUME UNCHANGED vars PROVE UNCHANGED dataVars \/ DataAction
  BY <1>34 DEF vars
<1> QED
  BY <1>1, <1>2, <1>3, <1>4, <1>5, <1>6, <1>7, <1>8, <1>9, <1>10, <1>11,
     <1>12, <1>13, <1>14, <1>15, <1>16, <1>17, <1>18, <1>19, <1>20,
     <1>21, <1>22, <1>23, <1>24, <1>25, <1>26, <1>27, <1>28, <1>29,
     <1>30, <1>31, <1>32, <1>33, <1>34
     DEF Next, Worker, Client, ClientCall, Owner, OwnerCall, Terminated

\* Scheduling, taking and running move a task from one place to the next.
LEMMA OnceStep == ASSUME IInv, [Next]_vars PROVE ExactlyOnce'
<1> USE DEF IInv, ControlInv, TypeOK, TypeShared, TypeThreads, TypeHistory,
    WorkerGoes, ClientGoes
<1>1. CASE UNCHANGED dataVars
  <2>1. Queued' = Queued /\ Held' = Held /\ Executed' = Executed
    BY <1>1 DEF dataVars, Queued, Held, Executed
  <2> QED
    BY <2>1, <1>1 DEF dataVars, ExactlyOnce
<1>2. ASSUME NEW c \in Clients, NEW t \in Tasks, SheduleTask(c, t)
      PROVE  ExactlyOnce'
  <2>1. Len(q') = Len(q) + 1 /\ q'[Len(q) + 1] = t /\ Len(q) \in Nat
        /\ \A i \in 1..Len(q) : q'[i] = q[i]
    BY <1>2 DEF SheduleTask, Pushed
  <2>2. Queued' = Queued \cup {t}
    <3>1. \A x \in Queued' : x \in Queued \cup {t}
      <4> TAKE x \in Queued'
      <4>1. PICK i \in 1..Len(q') : x = q'[i]
        BY DEF Queued
      <4>2. CASE i = Len(q) + 1
        BY <4>1, <4>2, <2>1
      <4>3. CASE i \in 1..Len(q)
        BY <4>1, <4>3, <2>1 DEF Queued
      <4> QED
        BY <4>1, <4>2, <4>3, <2>1
    <3>2. \A x \in Queued : x \in Queued'
      <4> TAKE x \in Queued
      <4>1. PICK i \in 1..Len(q) : x = q[i]
        BY DEF Queued
      <4>2. i \in 1..Len(q') /\ q'[i] = x
        BY <4>1, <2>1
      <4> QED
        BY <4>2 DEF Queued
    <3>3. t \in Queued'
      BY <2>1 DEF Queued
    <3> QED
      BY <3>1, <3>2, <3>3
  <2>3. Held' = Held /\ Executed' = Executed
    BY <1>2 DEF SheduleTask, Held, Executed
  <2>4. t \notin Queued \cup Held \cup Executed
    BY <1>2 DEF SheduleTask, ExactlyOnce
  <2>5. \A i, j \in 1..Len(q') : q'[i] = q'[j] => i = j
    <3>1. \A i \in 1..Len(q) : q'[i] # t
      BY <2>1, <2>4 DEF Queued
    <3> TAKE i, j \in 1..Len(q')
    <3>2. CASE i = Len(q) + 1 \/ j = Len(q) + 1
      BY <2>1, <3>1, <3>2
    <3>3. CASE i \in 1..Len(q) /\ j \in 1..Len(q)
      BY <2>1, <3>3 DEF ExactlyOnce
    <3> QED
      BY <2>1, <3>2, <3>3
  <2> QED
    BY <2>2, <2>3, <2>4, <2>5, <1>2 DEF SheduleTask, ExactlyOnce
<1>3. ASSUME NEW w \in Workers, WTake(w) PROVE ExactlyOnce'
  <2> DEFINE t == Head(q)
  <2>1. /\ t \in Tasks /\ t = q[1] /\ Len(q) \in Nat /\ Len(q) > 0
        /\ Len(q') = Len(q) - 1
        /\ \A i \in 1..Len(q') : q'[i] = q[i + 1]
    BY <1>3 DEF WTake, Popped
  <2> HIDE DEF t
  <2>2. Queued' = Queued \ {t} /\ t \in Queued
    <3>1. \A x \in Queued' : x \in Queued \ {t}
      <4> TAKE x \in Queued'
      <4>1. PICK i \in 1..Len(q') : x = q'[i]
        BY DEF Queued
      <4>2. i + 1 \in 1..Len(q) /\ x = q[i + 1] /\ 1 \in 1..Len(q)
        BY <4>1, <2>1
      <4>3. q[i + 1] # q[1]
        BY <4>2, <2>1 DEF ExactlyOnce
      <4> QED
        BY <4>2, <4>3, <2>1 DEF Queued
    <3>2. \A x \in Queued \ {t} : x \in Queued'
      <4> TAKE x \in Queued \ {t}
      <4>1. PICK i \in 1..Len(q) : x = q[i]
        BY DEF Queued
      <4>2. i - 1 \in 1..Len(q') /\ q'[i - 1] = x
        BY <4>1, <2>1
      <4> QED
        BY <4>2 DEF Queued
    <3>3. t \in Queued
      BY <2>1 DEF Queued
    <3> QED
      BY <3>1, <3>2, <3>3
  <2>3. holding[w] = {} /\ holding' = [holding EXCEPT ![w] = {t}]
    BY <1>3 DEF WTake, HoldInv, t
  <2>4. Held' = Held \cup {t} /\ Executed' = Executed
    BY <2>3, <1>3 DEF WTake, history, Held, Executed
  <2>5. \A i, j \in 1..Len(q') : q'[i] = q'[j] => i = j
    <3> TAKE i, j \in 1..Len(q')
    <3>1. i + 1 \in 1..Len(q) /\ j + 1 \in 1..Len(q)
      BY <2>1
    <3>2. q'[i] = q'[j] => i + 1 = j + 1
      BY <3>1, <2>1 DEF ExactlyOnce
    <3> QED
      BY <3>1, <3>2
  <2>6. \A v, x \in Workers : v # x => holding'[v] \cap holding'[x] = {}
    BY <2>2, <2>3 DEF ExactlyOnce, Held
  <2>7. executed' = executed /\ scheduled' = scheduled
    BY <1>3 DEF WTake, history
  <2> QED
    BY <2>2, <2>4, <2>5, <2>6, <2>7 DEF ExactlyOnce
<1>4. ASSUME NEW w \in Workers, WRun(w) PROVE ExactlyOnce'
  <2>1. PICK t \in Tasks : holding[w] = {t}
    BY <1>4 DEF WRun, HoldInv
  <2>2. t \in Held
    BY <2>1 DEF Held
  <2>3. executed[t] = 0
    BY <2>2 DEF Executed, ExactlyOnce
  <2>4. /\ holding' = [holding EXCEPT ![w] = {}]
        /\ executed' = [executed EXCEPT ![t] = @ + 1]
    BY <1>4, <2>1 DEF WRun
  <2>5. Held' = Held \ {t}
    BY <2>1, <2>4 DEF Held, ExactlyOnce
  <2>6. Executed' = Executed \cup {t}
    BY <2>3, <2>4 DEF Executed
  <2>7. Queued' = Queued
    BY <1>4 DEF WRun, shared, Queued
  <2>8. \A v, x \in Workers : v # x => holding'[v] \cap holding'[x] = {}
    BY <2>4 DEF ExactlyOnce
  <2>9. \A x \in Tasks : executed'[x] <= 1
    BY <2>3, <2>4 DEF ExactlyOnce
  <2>10. q' = q /\ scheduled' = scheduled
    BY <1>4 DEF WRun, shared
  <2> QED
    BY <2>2, <2>5, <2>6, <2>7, <2>8, <2>9, <2>10 DEF ExactlyOnce
<1>5. ASSUME NEW c \in Clients, FlushQueue(c) \/ FlushReturn(c)
      PROVE  ExactlyOnce'
  <2>1. UNCHANGED <<q, holding, executed, scheduled>>
    BY <1>5 DEF FlushQueue, FlushReturn, shared
  <2>2. Queued' = Queued /\ Held' = Held /\ Executed' = Executed
    BY <2>1 DEF Queued, Held, Executed
  <2> QED
    BY <2>1, <2>2 DEF ExactlyOnce
<1> QED
  BY <1>1, <1>2, <1>3, <1>4, <1>5, DataFrameStep DEF DataAction

LEMMA InitIInv == Init => IInv
<1> SUFFICES ASSUME Init PROVE IInv
  OBVIOUS
<1>1. HoldInv /\ FlushInv
  BY DEF Init, HoldInv, FlushInv
<1>2. Queued = {} /\ Held = {} /\ Executed = {}
  BY DEF Init, Queued, Held, Executed
<1>3. ExactlyOnce
  BY <1>2 DEF Init, ExactlyOnce
<1> QED
  BY InitControl, <1>1, <1>3 DEF IInv

\* The invariant is inductive.
THEOREM Invariance == Spec => []IInv
<1>1. Init => IInv
  BY InitIInv
<1>2. IInv /\ [Next]_vars => IInv'
  BY ControlStep, CountStep, HoldFlushStep, OnceStep DEF IInv, ControlInv
<1> QED
  BY <1>1, <1>2, PTL DEF Spec

\* The variables keep their types; in particular no counter underflows.
THEOREM TypeCorrect == Spec => []TypeOK
<1>1. IInv => TypeOK
  BY DEF IInv, ControlInv
<1> QED
  BY <1>1, Invariance, PTL

\* No task is lost and none is run twice, for any number of threads.
THEOREM TasksExactlyOnce == Spec => []ExactlyOnce
<1>1. IInv => ExactlyOnce
  BY DEF IInv
<1> QED
  BY <1>1, Invariance, PTL

\* An empty queue and a zero counter mean that everything was executed.
LEMMA EmptyMeansExecuted == ASSUME IInv, q = <<>>, runningTasks = 0
                            PROVE  scheduled = Executed
<1>1. Running = {}
  BY WorkersFinite, FS_Subset, FS_EmptySet DEF IInv, ControlInv, CountInv, Running
<1>2. Held = {}
  BY <1>1 DEF IInv, HoldInv, Held, Running
<1>3. Queued = {}
  BY DEF Queued
<1> QED
  BY <1>2, <1>3 DEF IInv, ExactlyOnce

\* A step that lets a flusher return finds its tasks executed.
LEMMA FlushStep == ASSUME IInv, [Next]_vars PROVE FlushOK
<1> USE DEF FlushOK, IInv, ControlInv, TypeOK, TypeThreads, shared, ownerVars, bounds, history,
    WorkerGoes, ClientGoes, OwnerGoes
<1>1. ASSUME NEW w \in Workers, WBegin(w) PROVE FlushOK
  BY <1>1 DEF WBegin
<1>2. ASSUME NEW w \in Workers, WBeginNotify(w) PROVE FlushOK
  BY <1>2 DEF WBeginNotify, WokenOwner
<1>3. ASSUME NEW w \in Workers, WLoop(w) PROVE FlushOK
  BY <1>3 DEF WLoop
<1>4. ASSUME NEW w \in Workers, WLock(w) PROVE FlushOK
  BY <1>4 DEF WLock
<1>5. ASSUME NEW w \in Workers, WCheck(w) PROVE FlushOK
  BY <1>5 DEF WCheck, NothingToDo
<1>6. ASSUME NEW w \in Workers, WBlock(w) PROVE FlushOK
  BY <1>6 DEF WBlock
<1>7. ASSUME NEW w \in Workers, WRelock(w) PROVE FlushOK
  BY <1>7 DEF WRelock
<1>8. ASSUME NEW w \in Workers, WSkip(w) PROVE FlushOK
  BY <1>8 DEF WSkip
<1>9. ASSUME NEW w \in Workers, WTake(w) PROVE FlushOK
  BY <1>9 DEF WTake, OneMoreRunning, Popped
<1>10. ASSUME NEW w \in Workers, WRun(w) PROVE FlushOK
  BY <1>10 DEF WRun
<1>11. ASSUME NEW w \in Workers, WDone(w) PROVE FlushOK
  BY <1>11 DEF WDone
<1>12. ASSUME NEW w \in Workers, WDoneNotify(w) PROVE FlushOK
  BY <1>12 DEF WDoneNotify, WokenWorkers, WokenClients
<1>13. ASSUME NEW w \in Workers, WExit(w) PROVE FlushOK
  BY <1>13 DEF WExit
<1>14. ASSUME NEW w \in Workers, WExitNotify(w) PROVE FlushOK
  BY <1>14 DEF WExitNotify, WokenOwner
<1>15. ASSUME NEW c \in Clients, SheduleNotify(c) PROVE FlushOK
  BY <1>15 DEF SheduleNotify, NotifyOneQi
<1>16. ASSUME NEW c \in Clients, FlushWait(c) PROVE FlushOK
  BY <1>16 DEF FlushWait, QueueDrained
<1>17. ASSUME NEW c \in Clients, FlushReturn(c) PROVE FlushOK
  <2>1. scheduled = Executed
    BY <1>17, EmptyMeansExecuted DEF FlushReturn, QueueDrained
  <2>2. \A d \in Clients : flushing[d] \subseteq Executed
    BY <2>1 DEF FlushInv
  <2>3. \A t \in Executed : executed[t] = 1
    BY DEF Executed, ExactlyOnce, TypeHistory
  <2> QED
    BY <2>2, <2>3
<1>18. ASSUME NEW c \in Clients, FlushQueue(c) PROVE FlushOK
  BY <1>18 DEF FlushQueue
<1>19. ASSUME NEW c \in Clients, NEW t \in Tasks, SheduleTask(c, t) PROVE FlushOK
  BY <1>19 DEF SheduleTask, Pushed
<1>20. ASSUME Start PROVE FlushOK
  BY <1>20 DEF Start
<1>21. ASSUME Spawn PROVE FlushOK
  BY <1>21 DEF Spawn
<1>22. ASSUME Spawned PROVE FlushOK
  BY <1>22 DEF Spawned
<1>23. ASSUME StartWait PROVE FlushOK
  BY <1>23 DEF StartWait
<1>24. ASSUME StartReturn PROVE FlushOK
  BY <1>24 DEF StartReturn
<1>25. ASSUME Stop PROVE FlushOK
  BY <1>25 DEF Stop
<1>26. ASSUME StopLock PROVE FlushOK
  BY <1>26 DEF StopLock
<1>27. ASSUME StopSync PROVE FlushOK
  BY <1>27 DEF StopSync
<1>28. ASSUME StopNotify PROVE FlushOK
  BY <1>28 DEF StopNotify, WokenWorkers, WokenClients
<1>29. ASSUME StopBlock PROVE FlushOK
  BY <1>29 DEF StopBlock
<1>30. ASSUME StopReturn PROVE FlushOK
  BY <1>30 DEF StopReturn, AllEnded
<1>31. ASSUME Destroy PROVE FlushOK
  BY <1>31 DEF Destroy
<1>32. ASSUME NEW num \in ResizeTo, NumThreads(num) PROVE FlushOK
  BY <1>32 DEF NumThreads
<1>33. ASSUME SpuriousWakeup PROVE FlushOK
  BY <1>33 DEF SpuriousWakeup, WokenOwner
<1>34. ASSUME UNCHANGED vars PROVE FlushOK
  BY <1>34 DEF vars
<1> QED
  BY <1>1, <1>2, <1>3, <1>4, <1>5, <1>6, <1>7, <1>8, <1>9, <1>10, <1>11,
     <1>12, <1>13, <1>14, <1>15, <1>16, <1>17, <1>18, <1>19, <1>20,
     <1>21, <1>22, <1>23, <1>24, <1>25, <1>26, <1>27, <1>28, <1>29,
     <1>30, <1>31, <1>32, <1>33, <1>34
     DEF Next, Worker, Client, ClientCall, Owner, OwnerCall, Terminated

\* flushQueue() returns only after the tasks scheduled before it were run.
THEOREM FlushCorrect == Spec => FlushMeansExecuted
<1>1. IInv /\ [Next]_vars => [FlushOK]_vars
  BY FlushStep
<1> QED
  BY <1>1, Invariance, PTL DEF Spec, FlushMeansExecuted

\* Every step of the pool is a step of the queue of tasks, or none.
LEMMA PromiseStep == ASSUME IInv, IInv', [Next]_vars PROVE [Promise!Next]_(Promise!vars)
<1> USE DEF IInv, ControlInv, TypeOK, TypeShared, TypeThreads, TypeHistory,
    WorkerGoes, ClientGoes
<1>0. scheduled = Promise!Submitted
  BY DEF ExactlyOnce, Promise!Submitted, Queued
<1>1. CASE UNCHANGED dataVars
  BY <1>1 DEF dataVars, Promise!vars, Held, Executed
<1>2. ASSUME NEW c \in Clients, NEW t \in Tasks, SheduleTask(c, t)
      PROVE  Promise!Next
  <2>1. Held' = Held /\ Executed' = Executed
    BY <1>2 DEF SheduleTask, Held, Executed
  <2>2. Promise!Submit(t)
    BY <1>0, <1>2, <2>1 DEF SheduleTask, Pushed, Promise!Submit
  <2> QED
    BY <2>2 DEF Promise!Next
<1>3. ASSUME NEW w \in Workers, WTake(w) PROVE Promise!Next
  <2> DEFINE t == Head(q)
  <2>1. q # <<>> /\ q' = Tail(q) /\ t \in Queued
    BY <1>3 DEF WTake, Popped, Queued
  <2>2. holding[w] = {} /\ holding' = [holding EXCEPT ![w] = {t}]
    BY <1>3 DEF WTake, HoldInv
  <2>3. Held' = Held \cup {t} /\ Executed' = Executed /\ flushing' = flushing
    BY <2>2, <1>3 DEF WTake, history, Held, Executed
  <2>4. t \notin Held \cup Executed
    BY <2>1 DEF ExactlyOnce
  <2>5. Promise!Start
    BY <2>1, <2>3, <2>4 DEF Promise!Start
  <2> QED
    BY <2>5 DEF Promise!Next
<1>4. ASSUME NEW w \in Workers, WRun(w) PROVE Promise!Next
  <2>1. PICK t \in Tasks : holding[w] = {t}
    BY <1>4 DEF WRun, HoldInv
  <2>2. t \in Held
    BY <2>1 DEF Held
  <2>3. /\ holding' = [holding EXCEPT ![w] = {}]
        /\ executed' = [executed EXCEPT ![t] = @ + 1]
        /\ q' = q /\ flushing' = flushing
    BY <1>4, <2>1 DEF WRun, shared
  <2>4. Held' = Held \ {t}
    BY <2>1, <2>3 DEF Held, ExactlyOnce
  <2>5. Executed' = Executed \cup {t}
    BY <2>3, SMTT(30) DEF Executed
  <2>6. Promise!Finish(t)
    BY <2>2, <2>3, <2>4, <2>5 DEF Promise!Finish
  <2> QED
    BY <2>6 DEF Promise!Next
<1>5. ASSUME NEW c \in Clients, FlushQueue(c) PROVE Promise!Next
  <2>1. Held' = Held /\ Executed' = Executed /\ q' = q
    BY <1>5 DEF FlushQueue, shared, Held, Executed
  <2>2. Promise!AwaitBegin(c)
    BY <1>0, <1>5, <2>1 DEF FlushQueue, FlushInv, Promise!AwaitBegin
  <2> QED
    BY <2>2 DEF Promise!Next
<1>6. ASSUME NEW c \in Clients, FlushReturn(c) PROVE Promise!Next
  <2>1. Held' = Held /\ Executed' = Executed /\ q' = q
    BY <1>6 DEF FlushReturn, shared, Held, Executed
  <2>2. flushing[c] \subseteq Executed
    BY <1>6, EmptyMeansExecuted DEF FlushReturn, FlushInv, QueueDrained
  <2>3. Promise!AwaitEnd(c)
    BY <1>6, <2>1, <2>2 DEF FlushReturn, Promise!AwaitEnd
  <2> QED
    BY <2>3 DEF Promise!Next
<1> QED
  BY <1>1, <1>2, <1>3, <1>4, <1>5, <1>6, DataFrameStep DEF DataAction

LEMMA PromiseInit == Init => Promise!Init
  BY DEF Init, Promise!Init, Held, Executed

\* Clients may reason with WorkQueue instead of threads, mutexes and condition
\* variables: the pool implements it.
THEOREM Refinement == Spec => ImplementsWorkQueue
<1>1. Init => Promise!Init
  BY PromiseInit
<1>2. IInv /\ IInv' /\ [Next]_vars => [Promise!Next]_(Promise!vars)
  BY PromiseStep
<1> QED
  BY <1>1, <1>2, Invariance, PTL DEF Spec, ImplementsWorkQueue, Promise!Spec

-----------------------------------------------------------------------------
(* The end of the pool                                                     *)

\* When ~ThreadPool has returned its threads have been joined and the mutex of
\* m_runningThreads is free.
QuietInv ==
    opc = "destroyed" =>
        (\A w \in Workers : wpc[w] \in {"none", "joined"}) /\ ~rtLock

\* A worker that takes a step was not joined, so it is not the end yet.
LEMMA WorkerQuiet ==
    ASSUME IInv, QuietInv, NEW w \in Workers, Worker(w)
    PROVE  QuietInv'
<1>1. wpc[w] \notin {"none", "joined"}
  BY DEF Worker, WBegin, WBeginNotify, WLoop, WLock, WCheck, WBlock, WRelock, WSkip, WTake,
         WRun, WDone, WDoneNotify, WExit, WExitNotify, WorkerGoes
<1>2. opc # "destroyed"
  BY <1>1 DEF QuietInv
<1>3. opc' = opc \/ opc' = WokenOwner
  BY DEF Worker, WBegin, WBeginNotify, WLoop, WLock, WCheck, WBlock, WRelock, WSkip, WTake,
         WRun, WDone, WDoneNotify, WExit, WExitNotify, ownerVars
<1>4. opc' # "destroyed"
  BY <1>2, <1>3 DEF WokenOwner
<1> QED
  BY <1>4 DEF QuietInv

\* A client wakes at most workers that wait, and there are none at the end.
LEMMA ClientQuiet ==
    ASSUME IInv, QuietInv, NEW c \in Clients, Client(c) \/ ClientCall(c)
    PROVE  QuietInv'
<1>1. opc' = opc /\ rtLock' = rtLock
  BY DEF Client, ClientCall, SheduleNotify, FlushWait, FlushReturn, FlushQueue, SheduleTask,
         ownerVars
<1>2. \/ wpc' = wpc
      \/ \E w \in Workers : wpc[w] = "wait" /\ wpc' = [wpc EXCEPT ![w] = "relock"]
  BY DEF Client, ClientCall, SheduleNotify, FlushWait, FlushReturn, FlushQueue, SheduleTask,
         NotifyOneQi, WorkerGoes
<1> QED
  BY <1>1, <1>2 DEF QuietInv

\* The owner gets to the end only through the join of every thread it has spawned.
LEMMA OwnerQuiet ==
    ASSUME IInv, QuietInv, Owner \/ OwnerCall
    PROVE  QuietInv'
<1>1. CASE StopReturn
  <2>1. threads \in 0..MaxWorkers /\ wpc \in [Workers -> WorkerPC]
    BY DEF IInv, ControlInv, TypeOK, TypeThreads
  <2>2. \A w \in Workers : wpc[w] = "none" \/ wpc[w] = "finished"
    BY <1>1, <2>1, PoolAssumption
       DEF StopReturn, AllEnded, IInv, ControlInv, SpawnInv, Workers
  <2>3. wpc' = [w \in Workers |-> IF wpc[w] = "finished" THEN "joined" ELSE wpc[w]]
        /\ rtLock' = FALSE
    BY <1>1 DEF StopReturn
  <2> QED
    BY <2>2, <2>3 DEF QuietInv
<1>2. CASE ~StopReturn
  <2>1. opc' # "destroyed"
    BY <1>2 DEF Owner, OwnerCall, Start, Spawn, Spawned, StartWait, StartReturn, Stop,
       StopLock, StopSync, StopNotify, StopBlock, Destroy, NumThreads, OwnerGoes
  <2> QED
    BY <2>1 DEF QuietInv
<1> QED
  BY <1>1, <1>2

LEMMA QuietStep == ASSUME IInv, QuietInv, [Next]_vars PROVE QuietInv'
<1>1. CASE SpuriousWakeup
  <2>1. \/ /\ \E w \in Workers : wpc[w] = "wait" /\ wpc' = [wpc EXCEPT ![w] = "relock"]
           /\ opc' = opc
        \/ wpc' = wpc /\ (opc' = opc \/ opc' = WokenOwner)
    BY <1>1 DEF SpuriousWakeup, WorkerGoes
  <2>2. opc' = "destroyed" => opc = "destroyed"
    BY <2>1 DEF WokenOwner
  <2>3. rtLock' = rtLock
    BY <1>1 DEF SpuriousWakeup
  <2> QED
    BY <2>1, <2>2, <2>3 DEF QuietInv
<1>2. CASE UNCHANGED vars
  BY <1>2 DEF QuietInv, vars, ownerVars
<1> QED
  BY <1>1, <1>2, WorkerQuiet, ClientQuiet, OwnerQuiet DEF Next, Terminated

\* When ~ThreadPool returns no thread of the pool is alive, no task is half done and no
\* mutex is locked, so the members may be destroyed.
THEOREM DestroyedIsQuiescent == Spec => []DestroyedQuiescent
<1>1. Init => QuietInv
  BY DEF Init, QuietInv
<1>2. IInv /\ QuietInv => DestroyedQuiescent
  <2> SUFFICES ASSUME IInv, QuietInv, opc = "destroyed" PROVE DestroyedQuiescent
    BY DEF DestroyedQuiescent
  <2>1. (\A w \in Workers : wpc[w] \in {"none", "joined"}) /\ ~rtLock
    BY DEF QuietInv
  <2>2. Alive = {} /\ Running = {}
    BY <2>1 DEF Alive, NotAlive, Running
  <2>3. runningThreads = 0 /\ runningTasks = 0
    BY <2>2, FS_EmptySet DEF IInv, ControlInv, CountInv
  <2>4. qiLock = Free
    BY <2>1 DEF IInv, ControlInv, LockInv, TypeOK, TypeShared
  <2>5. Held = {}
    BY <2>1 DEF IInv, HoldInv, Held
  <2> QED
    BY <2>1, <2>3, <2>4, <2>5 DEF DestroyedQuiescent
<1> QED
  BY <1>1, <1>2, QuietStep, Invariance, PTL DEF Spec
=============================================================================
