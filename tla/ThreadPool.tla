----------------------------- MODULE ThreadPool -----------------------------
(***************************************************************************)
(* sserialize::ThreadPool: a queue of tasks guarded by the mutex and the   *)
(* condition variable of m_qi, a counter of live workers guarded by those  *)
(* of m_runningThreads, an atomic flag m_online, and three kinds of        *)
(* threads:                                                                *)
(*   - workers, that run taskWorkerFunc; worker i is m_threads[i-1];       *)
(*   - clients, that call sheduleTask and flushQueue;                      *)
(*   - the owner, that constructs, resizes and destroys the pool.          *)
(* A critical section whose data is all guarded by its mutex is one step;  *)
(* every load or store of m_online, every notification and every wait is a *)
(* step of its own.  A notification happens after the mutex is released    *)
(* (syncedWithNotifyOne and syncedWithNotifyAll of GuardedVariable).       *)
(***************************************************************************)
EXTENDS Naturals, Sequences, FiniteSets

CONSTANTS
    Clients,        \* threads that schedule tasks and flush
    Tasks,          \* the tasks they schedule
    MaxWorkers,     \* bound: worker threads ever spawned
    InitialThreads, \* the constructor's argument
    ResizeTo,       \* arguments of numThreads(num)
    MaxResizes,     \* bound: calls of numThreads(num)
    MaxSpurious     \* bound: spurious wake-ups of waiting threads

ASSUME PoolAssumption ==
    /\ MaxWorkers \in Nat
    /\ InitialThreads \in 0..MaxWorkers
    /\ ResizeTo \subseteq 0..MaxWorkers
    /\ MaxResizes \in Nat
    /\ MaxSpurious \in Nat
    /\ IsFiniteSet(Tasks)

Workers == 1..MaxWorkers
Free == 0       \* the mutex of m_qi is not held across a step

VARIABLES
    online,         \* m_online
    q,              \* m_qi.q
    runningTasks,   \* m_qi.runningTasks
    qiLock,         \* the worker that holds the mutex of m_qi, or Free
    runningThreads, \* m_runningThreads
    rtLock,         \* the owner holds the mutex of m_runningThreads
    threads,        \* m_threads.size()
    wpc,            \* where each worker is; "wait": in the wait set of m_qi
    holding,        \* the task a worker took and has not run yet, as a set
    cpc,            \* where each client is; "wait": in the wait set of m_qi
    opc,            \* where the owner is; "startWait"/"stopWait": in the wait
                    \* set of m_runningThreads
    count,          \* argument of the current start(count)
    life,           \* "constructing", "open" or "closing"
    resizes,        \* calls of numThreads(num) so far
    spurious,       \* spurious wake-ups so far
    scheduled,      \* history: tasks pushed so far
    executed,       \* history: how often each task was run
    flushing        \* history: what was scheduled when a flush began

bounds == <<resizes, spurious>>
shared == <<online, q, runningTasks, runningThreads>>
ownerVars == <<threads, opc, count, life>>
history == <<scheduled, executed, flushing>>
vars == <<shared, qiLock, rtLock, wpc, holding, cpc, ownerVars, bounds, history>>

WorkerPC == {"none", "begin", "beginNotify", "loop", "lock", "check", "block",
             "wait", "relock", "recheck", "run", "done", "doneNotify",
             "exit", "exitNotify", "finished", "joined"}
ClientPC == {"idle", "notify", "flush", "wait"}
OwnerPC == {"start", "spawn", "startLock", "startWait", "up", "stop",
            "stopLock", "stopSync", "stopNotify", "stopBlock", "stopWait",
            "join", "destroyed"}

TypeShared ==
    /\ online \in BOOLEAN
    /\ q \in Seq(Tasks)
    /\ runningTasks \in Nat
    /\ runningThreads \in Nat
    /\ qiLock \in Workers \cup {Free}
    /\ rtLock \in BOOLEAN

TypeThreads ==
    /\ wpc \in [Workers -> WorkerPC]
    /\ holding \in [Workers -> SUBSET Tasks]
    /\ cpc \in [Clients -> ClientPC]
    /\ threads \in 0..MaxWorkers
    /\ opc \in OwnerPC
    /\ count \in 0..MaxWorkers
    /\ life \in {"constructing", "open", "closing"}
    /\ resizes \in 0..MaxResizes
    /\ spurious \in 0..MaxSpurious

TypeHistory ==
    /\ scheduled \subseteq Tasks
    /\ executed \in [Tasks -> Nat]
    /\ flushing \in [Clients -> SUBSET Tasks]

\* The type of every variable; that the counters stay in Nat says that no
\* decrement of runningTasks or m_runningThreads (both uint32_t) wraps around.
TypeOK == TypeShared /\ TypeThreads /\ TypeHistory

Init ==
    /\ online = FALSE
    /\ q = <<>>
    /\ runningTasks = 0
    /\ runningThreads = 0
    /\ qiLock = Free
    /\ rtLock = FALSE
    /\ wpc = [w \in Workers |-> "none"]
    /\ holding = [w \in Workers |-> {}]
    /\ cpc = [c \in Clients |-> "idle"]
    /\ threads = 0
    /\ opc = "start"
    /\ count = InitialThreads
    /\ life = "constructing"
    /\ resizes = 0
    /\ spurious = 0
    /\ scheduled = {}
    /\ executed = [t \in Tasks |-> 0]
    /\ flushing = [c \in Clients |-> {}]

-----------------------------------------------------------------------------
(* Control flow and condition variables.  A woken thread has to get the    *)
(* mutex back before it goes on.                                           *)

WorkerGoes(w, from, to) == wpc[w] = from /\ wpc' = [wpc EXCEPT ![w] = to]
ClientGoes(c, from, to) == cpc[c] = from /\ cpc' = [cpc EXCEPT ![c] = to]
OwnerGoes(from, to) == opc = from /\ opc' = to

WokenWorkers ==
    [w \in Workers |-> IF wpc[w] = "wait" THEN "relock" ELSE wpc[w]]

WokenClientsNone == cpc   \* mutant: flushers are not notified
WokenClients ==
    [c \in Clients |-> IF cpc[c] = "wait" THEN "flush" ELSE cpc[c]]

WokenOwnerNot == opc      \* mutant: the owner is not notified
WokenOwner ==
    CASE opc = "startWait" -> "startLock"
      [] opc = "stopWait"  -> "stopLock"
      [] OTHER             -> opc

\* notify_one on m_qi: any one of the waiters, if there is one.
NotifyOneQi(pcs) ==
    \/ \E w \in Workers : WorkerGoes(w, "wait", "relock") /\ cpc' = pcs
    \/ \E c \in Clients :
        cpc[c] = "wait" /\ cpc' = [pcs EXCEPT ![c] = "flush"] /\ wpc' = wpc
    \/ /\ \A w \in Workers : wpc[w] # "wait"
       /\ \A c \in Clients : cpc[c] # "wait"
       /\ cpc' = pcs /\ wpc' = wpc

-----------------------------------------------------------------------------
(* taskWorkerFunc                                                          *)

WBegin(w) ==
    /\ WorkerGoes(w, "begin", "beginNotify")
    /\ ~rtLock
    /\ runningThreads' = runningThreads + 1
    /\ UNCHANGED <<online, q, runningTasks, qiLock, rtLock, holding, cpc,
                   ownerVars, bounds, history>>

WBeginNotify(w) ==
    /\ WorkerGoes(w, "beginNotify", "loop")
    /\ opc' = WokenOwner
    /\ UNCHANGED <<shared, qiLock, rtLock, holding, cpc, threads, count, life,
                   bounds, history>>

WLoop(w) ==
    /\ WorkerGoes(w, "loop", IF online THEN "lock" ELSE "exit")
    /\ UNCHANGED <<shared, qiLock, rtLock, holding, cpc, ownerVars, bounds,
                   history>>

WLock(w) ==
    /\ WorkerGoes(w, "lock", "check")
    /\ qiLock = Free /\ qiLock' = w
    /\ UNCHANGED <<shared, rtLock, holding, cpc, ownerVars, bounds, history>>

NothingToDoOnline == online   \* mutant: waits without looking at the queue
NothingToDo == online /\ q = <<>>

WCheck(w) ==
    /\ WorkerGoes(w, "check", IF NothingToDo THEN "block" ELSE "recheck")
    /\ UNCHANGED <<shared, qiLock, rtLock, holding, cpc, ownerVars, bounds,
                   history>>

\* m_qi.wait(qlck): release the mutex and join the wait set in one step.
WBlock(w) ==
    /\ WorkerGoes(w, "block", "wait")
    /\ qiLock' = Free
    /\ UNCHANGED <<shared, rtLock, holding, cpc, ownerVars, bounds, history>>

WRelock(w) ==
    /\ WorkerGoes(w, "relock", "recheck")
    /\ qiLock = Free /\ qiLock' = w
    /\ UNCHANGED <<shared, rtLock, holding, cpc, ownerVars, bounds, history>>

\* `continue` after the second test.
WSkip(w) ==
    /\ WorkerGoes(w, "recheck", "loop")
    /\ ~online \/ q = <<>>
    /\ qiLock' = Free
    /\ UNCHANGED <<shared, rtLock, holding, cpc, ownerVars, bounds, history>>

OneMoreRunningNot == runningTasks   \* mutant: the task is not counted
OneMoreRunning == runningTasks + 1

PoppedNot == q                      \* mutant: the task stays in the queue
Popped == Tail(q)

WTake(w) ==
    /\ WorkerGoes(w, "recheck", "run")
    /\ online /\ q # <<>>
    /\ runningTasks' = OneMoreRunning
    /\ holding' = [holding EXCEPT ![w] = {Head(q)}]
    /\ q' = Popped
    /\ qiLock' = Free
    /\ UNCHANGED <<online, runningThreads, rtLock, cpc, ownerVars, bounds,
                   history>>

WRun(w) ==
    /\ WorkerGoes(w, "run", "done")
    /\ executed' = [t \in Tasks |->
                        IF t \in holding[w] THEN executed[t] + 1 ELSE executed[t]]
    /\ holding' = [holding EXCEPT ![w] = {}]
    /\ UNCHANGED <<shared, qiLock, rtLock, cpc, ownerVars, bounds, scheduled,
                   flushing>>

WDone(w) ==
    /\ WorkerGoes(w, "done", "doneNotify")
    /\ qiLock = Free
    /\ runningTasks' = runningTasks - 1
    /\ UNCHANGED <<online, q, runningThreads, qiLock, rtLock, holding, cpc,
                   ownerVars, bounds, history>>

WDoneNotify(w) ==
    /\ wpc[w] = "doneNotify"
    /\ wpc' = [WokenWorkers EXCEPT ![w] = "loop"]
    /\ cpc' = WokenClients
    /\ UNCHANGED <<shared, qiLock, rtLock, holding, ownerVars, bounds, history>>

WExit(w) ==
    /\ WorkerGoes(w, "exit", "exitNotify")
    /\ ~rtLock
    /\ runningThreads' = runningThreads - 1
    /\ UNCHANGED <<online, q, runningTasks, qiLock, rtLock, holding, cpc,
                   ownerVars, bounds, history>>

WExitNotify(w) ==
    /\ WorkerGoes(w, "exitNotify", "finished")
    /\ opc' = WokenOwner
    /\ UNCHANGED <<shared, qiLock, rtLock, holding, cpc, threads, count, life,
                   bounds, history>>

-----------------------------------------------------------------------------
(* sheduleTask and flushQueue, called while the pool exists                *)

PushedFront(t) == <<t>> \o q        \* mutant: last in, first out
Pushed(t) == Append(q, t)

SheduleTask(c, t) ==
    /\ ClientGoes(c, "idle", "notify")
    /\ life = "open"
    /\ t \in Tasks \ scheduled
    /\ qiLock = Free
    /\ q' = Pushed(t)
    /\ scheduled' = scheduled \cup {t}
    /\ UNCHANGED <<online, runningTasks, runningThreads, qiLock, rtLock, wpc,
                   holding, ownerVars, bounds, executed, flushing>>

SheduleNotify(c) ==
    /\ cpc[c] = "notify"
    /\ NotifyOneQi([cpc EXCEPT ![c] = "idle"])
    /\ UNCHANGED <<shared, qiLock, rtLock, holding, ownerVars, bounds, history>>

FlushQueue(c) ==
    /\ ClientGoes(c, "idle", "flush")
    /\ life = "open"
    /\ flushing' = [flushing EXCEPT ![c] = scheduled]
    /\ UNCHANGED <<shared, qiLock, rtLock, wpc, holding, ownerVars, bounds,
                   scheduled, executed>>

QueueDrainedEmpty == q = <<>>       \* mutant: running tasks are forgotten
QueueDrained == q = <<>> /\ runningTasks = 0

\* One evaluation of the while condition, with the mutex held, and the wait
\* that follows it.
FlushWait(c) ==
    /\ ClientGoes(c, "flush", "wait")
    /\ qiLock = Free
    /\ ~QueueDrained
    /\ UNCHANGED <<shared, qiLock, rtLock, wpc, holding, ownerVars, bounds,
                   history>>

FlushReturn(c) ==
    /\ ClientGoes(c, "flush", "idle")
    /\ qiLock = Free
    /\ QueueDrained
    /\ flushing' = [flushing EXCEPT ![c] = {}]
    /\ UNCHANGED <<shared, qiLock, rtLock, wpc, holding, ownerVars, bounds,
                   scheduled, executed>>

-----------------------------------------------------------------------------
(* start                                                                   *)

Start ==
    /\ OwnerGoes("start", "spawn")
    /\ online' = TRUE
    /\ UNCHANGED <<q, runningTasks, runningThreads, qiLock, rtLock, wpc,
                   holding, cpc, threads, count, life, bounds, history>>

Spawn ==
    /\ opc = "spawn"
    /\ threads < count
    /\ threads' = threads + 1
    /\ wpc' = [wpc EXCEPT ![threads + 1] = "begin"]
    /\ UNCHANGED <<shared, qiLock, rtLock, holding, cpc, opc, count, life,
                   bounds, history>>

Spawned ==
    /\ OwnerGoes("spawn", "startLock")
    /\ threads >= count
    /\ UNCHANGED <<shared, qiLock, rtLock, wpc, holding, cpc, threads, count,
                   life, bounds, history>>

AllUp == runningThreads >= threads

StartWait ==
    /\ OwnerGoes("startLock", "startWait")
    /\ ~rtLock
    /\ ~AllUp
    /\ UNCHANGED <<shared, qiLock, rtLock, wpc, holding, cpc, threads, count,
                   life, bounds, history>>

StartReturn ==
    /\ OwnerGoes("startLock", "up")
    /\ ~rtLock
    /\ AllUp
    /\ life' = "open"
    /\ UNCHANGED <<shared, qiLock, rtLock, wpc, holding, cpc, threads, count,
                   bounds, history>>

-----------------------------------------------------------------------------
(* numThreads(num), ~ThreadPool, and the stop() both call                  *)

NumThreads(num) ==
    /\ OwnerGoes("up", "stop")
    /\ resizes < MaxResizes
    /\ resizes' = resizes + 1
    /\ count' = num
    /\ UNCHANGED <<shared, qiLock, rtLock, wpc, holding, cpc, threads, life,
                   spurious, history>>

\* Nobody may use the pool any more when its destructor runs.
Destroy ==
    /\ OwnerGoes("up", "stop")
    /\ \A c \in Clients : cpc[c] = "idle"
    /\ life' = "closing"
    /\ UNCHANGED <<shared, qiLock, rtLock, wpc, holding, cpc, threads, count,
                   bounds, history>>

Stop ==
    /\ OwnerGoes("stop", "stopLock")
    /\ online' = FALSE
    /\ UNCHANGED <<q, runningTasks, runningThreads, qiLock, rtLock, wpc,
                   holding, cpc, threads, count, life, bounds, history>>

\* Takes the mutex of m_runningThreads and evaluates the while condition; the
\* mutex stays locked until the wait or the end of the function.
StopLock ==
    /\ OwnerGoes("stopLock", IF runningThreads > 0 THEN "stopSync" ELSE "join")
    /\ ~rtLock
    /\ rtLock' = TRUE
    /\ UNCHANGED <<shared, qiLock, wpc, holding, cpc, threads, count, life,
                   bounds, history>>

QiUnlockedUnchecked == TRUE         \* mutant: notifies without the mutex
QiUnlocked == qiLock = Free

\* Lock and unlock the mutex of m_qi: no worker is between its first test of
\* m_online and its wait.
StopSync ==
    /\ OwnerGoes("stopSync", "stopNotify")
    /\ QiUnlocked
    /\ UNCHANGED <<shared, qiLock, rtLock, wpc, holding, cpc, threads, count,
                   life, bounds, history>>

StopNotify ==
    /\ OwnerGoes("stopNotify", "stopBlock")
    /\ wpc' = WokenWorkers
    /\ cpc' = WokenClients
    /\ UNCHANGED <<shared, qiLock, rtLock, holding, threads, count, life,
                   bounds, history>>

StopBlock ==
    /\ OwnerGoes("stopBlock", "stopWait")
    /\ rtLock' = FALSE
    /\ UNCHANGED <<shared, qiLock, wpc, holding, cpc, threads, count, life,
                   bounds, history>>

AllEndedUnchecked == TRUE           \* mutant: does not join
AllEnded == \A w \in 1..threads : wpc[w] = "finished"

\* The join loop has seen the end of every thread and stop() returns: into the
\* end of the destructor, or into the start() of numThreads.  m_threads keeps
\* its elements.  (A second join of one of them would throw; it is never
\* reached, since no start() returns after a stop() that joined threads.)
StopReturn ==
    /\ OwnerGoes("join", IF life = "closing" THEN "destroyed" ELSE "start")
    /\ AllEnded
    /\ rtLock' = FALSE
    /\ wpc' = [w \in Workers |-> IF wpc[w] = "finished" THEN "joined" ELSE wpc[w]]
    /\ UNCHANGED <<shared, qiLock, holding, cpc, threads, count, life, bounds,
                   history>>

-----------------------------------------------------------------------------
\* A wait that returns without a notification.
SpuriousWakeup ==
    /\ spurious < MaxSpurious
    /\ spurious' = spurious + 1
    /\ \/ /\ \E w \in Workers : WorkerGoes(w, "wait", "relock")
          /\ UNCHANGED <<cpc, opc>>
       \/ /\ \E c \in Clients : ClientGoes(c, "wait", "flush")
          /\ UNCHANGED <<wpc, opc>>
       \/ /\ opc \in {"startWait", "stopWait"}
          /\ opc' = WokenOwner
          /\ UNCHANGED <<wpc, cpc>>
    /\ UNCHANGED <<shared, qiLock, rtLock, holding, threads, count, life,
                   resizes, history>>

\* The pool is gone and its threads with it.
Terminated ==
    /\ opc = "destroyed"
    /\ UNCHANGED vars

Worker(w) ==
    \/ WBegin(w) \/ WBeginNotify(w) \/ WLoop(w) \/ WLock(w) \/ WCheck(w)
    \/ WBlock(w) \/ WRelock(w) \/ WSkip(w) \/ WTake(w) \/ WRun(w) \/ WDone(w)
    \/ WDoneNotify(w) \/ WExit(w) \/ WExitNotify(w)

Client(c) == SheduleNotify(c) \/ FlushWait(c) \/ FlushReturn(c)

ClientCall(c) == FlushQueue(c) \/ \E t \in Tasks : SheduleTask(c, t)

Owner ==
    \/ Start \/ Spawn \/ Spawned \/ StartWait \/ StartReturn
    \/ Stop \/ StopLock \/ StopSync \/ StopNotify \/ StopBlock \/ StopReturn

OwnerCall == Destroy \/ \E num \in ResizeTo : NumThreads(num)

Next ==
    \/ \E w \in Workers : Worker(w)
    \/ \E c \in Clients : Client(c) \/ ClientCall(c)
    \/ Owner
    \/ OwnerCall
    \/ SpuriousWakeup
    \/ Terminated

Spec == Init /\ [][Next]_vars

\* Every thread that is inside a function of the pool is scheduled again and
\* again; nobody has to call anything, and wake-ups are not owed to anybody.
Fairness ==
    /\ \A w \in Workers : WF_vars(Worker(w))
    /\ \A c \in Clients : WF_vars(Client(c))
    /\ WF_vars(Owner)

FairSpec == Spec /\ Fairness

-----------------------------------------------------------------------------
(* Properties                                                              *)

Queued == {q[i] : i \in 1..Len(q)}
Held == UNION {holding[w] : w \in Workers}
Executed == {t \in Tasks : executed[t] > 0}

\* A scheduled task is never lost and never run twice: it sits in exactly one
\* slot of the queue, or in exactly one worker that will run it, or it was run
\* exactly once (taskWorkerFunc pops under the lock and runs without it).
ExactlyOnce ==
    /\ \A i, j \in 1..Len(q) : q[i] = q[j] => i = j
    /\ \A v, w \in Workers : v # w => holding[v] \cap holding[w] = {}
    /\ \A t \in Tasks : executed[t] <= 1
    /\ Queued \cap Held = {}
    /\ Queued \cap Executed = {}
    /\ Held \cap Executed = {}
    /\ scheduled = Queued \cup Held \cup Executed

\* flushQueue() returns only when every task that was scheduled before the
\* call has run to its end, also the ones popped from the queue long before
\* (the counter runningTasks is what covers those).
FlushOK ==
    \A c \in Clients :
        (cpc[c] = "flush" /\ cpc'[c] = "idle")
            => \A t \in flushing[c] : executed[t] = 1
FlushMeansExecuted == [][FlushOK]_vars

\* What is left when ~ThreadPool returns: no thread of the pool is alive, so
\* none can touch the members that are destroyed next, no task is half done,
\* no mutex is locked.
DestroyedQuiescent ==
    opc = "destroyed" =>
        /\ \A w \in Workers : wpc[w] \in {"none", "joined"}
        /\ runningThreads = 0 /\ runningTasks = 0
        /\ qiLock = Free /\ ~rtLock
        /\ Held = {}

\* flushQueue() returns ("Wait for empty queue", ThreadPool.h).  Exempt is a
\* pool that is still without threads: it runs nothing until numThreads(num)
\* gives it some; the flush that began before that must return as well.
FlushReturns == \A c \in Clients :
    cpc[c] \in {"flush", "wait"} ~> (cpc[c] = "idle" \/ threads = 0)

\* Every task gets its turn unless the pool is stopped first, or has no
\* threads: the tasks scheduled before numThreads(num) started the first
\* thread have to be run as well.
TasksRun == \A t \in Tasks :
    t \in scheduled ~> (executed[t] = 1 \/ ~online \/ threads = 0)

\* stop() ends, whatever its workers were doing when it was called: the empty
\* critical section on m_qi is what makes the notification reach them.
StopReturns == opc = "stop" ~> opc \in {"destroyed", "start"}

\* start() ends ("wait until all threads are up and running").
StartReturns == opc = "start" ~> opc = "up"

Promise == INSTANCE WorkQueue WITH
    pending <- q,
    running <- Held,
    finished <- Executed,
    awaiting <- flushing

\* The pool implements the queue of tasks its clients may think of.
ImplementsWorkQueue == Promise!Spec
=============================================================================
