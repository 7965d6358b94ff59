----------------------------- MODULE ParallelMap -----------------------------
(***************************************************************************)
(* ThreadPool::map on top of ThreadPool::execute: the caller spawns the    *)
(* threads and joins them; they share the iterators b and e, which live on *)
(* the caller's stack, and take one element after the other under          *)
(* state.lck.  With one thread execute() runs the task itself.             *)
(***************************************************************************)
EXTENDS Naturals

CONSTANTS
    Length,                 \* bound: elements of the range, 1..Length
    ThreadCounts,           \* values of the argument, 0 if left out
    HardwareConcurrency,    \* what std::thread::hardware_concurrency() says
    MaxThreads              \* bound: threads

ASSUME MapAssumption ==
    /\ Length \in Nat
    /\ MaxThreads \in Nat
    /\ ThreadCounts \subseteq 0..MaxThreads
    /\ HardwareConcurrency \in 0..MaxThreads

Workers == 1..MaxThreads
Elements == 1..Length
End == Length + 1       \* state.e
Nobody == 0

VARIABLES
    count,      \* threadCount, 0 replaced
    main,       \* where the caller is
    spawned,    \* threads.size()
    joined,     \* threads joined so far
    pc,         \* where each thread is
    b,          \* state.b
    lock,       \* who holds state.lck
    mine,       \* per thread: m
    calls       \* history: calls of t for each element

vars == <<count, main, spawned, joined, pc, b, lock, mine, calls>>

\* if (!threadCount) threadCount = hardware_concurrency()
Resolved(n) == IF n = 0 THEN HardwareConcurrency ELSE n

Init ==
    /\ count \in {Resolved(n) : n \in ThreadCounts}
    /\ main = "called"
    /\ spawned = 0
    /\ joined = 0
    /\ pc = [w \in Workers |-> "none"]
    /\ b = 1
    /\ lock = Nobody
    /\ mine = [w \in Workers |-> End]
    /\ calls = [x \in Elements |-> 0]

-----------------------------------------------------------------------------
(* execute(), in the caller                                                *)

\* With one thread the caller is worker 1.
Execute ==
    /\ main = "called"
    /\ IF count = 1
       THEN main' = "inline" /\ pc' = [pc EXCEPT ![1] = "enter"]
       ELSE main' = "spawning" /\ pc' = pc
    /\ UNCHANGED <<count, spawned, joined, b, lock, mine, calls>>

InlineReturn ==
    /\ main = "inline"
    /\ pc[1] = "ended"
    /\ main' = "returned"
    /\ UNCHANGED <<count, spawned, joined, pc, b, lock, mine, calls>>

Spawn ==
    /\ main = "spawning"
    /\ spawned < count
    /\ spawned' = spawned + 1
    /\ pc' = [pc EXCEPT ![spawned + 1] = "enter"]
    /\ UNCHANGED <<count, main, joined, b, lock, mine, calls>>

SpawnEnd ==
    /\ main = "spawning"
    /\ spawned = count
    /\ main' = "joining"
    /\ UNCHANGED <<count, spawned, joined, pc, b, lock, mine, calls>>

HasEndedUnchecked(w) == TRUE    \* mutant: detached, not joined
HasEnded(w) == pc[w] = "ended"

Join ==
    /\ main = "joining"
    /\ joined < count
    /\ HasEnded(joined + 1)
    /\ joined' = joined + 1
    /\ UNCHANGED <<count, main, spawned, pc, b, lock, mine, calls>>

Return ==
    /\ main = "joining"
    /\ joined = count
    /\ main' = "returned"
    /\ UNCHANGED <<count, spawned, joined, pc, b, lock, mine, calls>>

-----------------------------------------------------------------------------
(* The task, in each thread                                                *)

Goes(w, from, to) == pc[w] = from /\ pc' = [pc EXCEPT ![w] = to]

MayLockAlways == TRUE           \* mutant: goes on without the lock
MayLock == lock = Nobody

\* The unique_lock is constructed locked and unlocked before the loop.
Enter(w) ==
    /\ Goes(w, "enter", "entered")
    /\ MayLock
    /\ lock' = w
    /\ UNCHANGED <<count, main, spawned, joined, b, mine, calls>>

Entered(w) ==
    /\ Goes(w, "entered", "loop")
    /\ lock' = Nobody
    /\ UNCHANGED <<count, main, spawned, joined, b, mine, calls>>

Lock(w) ==
    /\ Goes(w, "loop", "look")
    /\ MayLock
    /\ lock' = w
    /\ UNCHANGED <<count, main, spawned, joined, b, mine, calls>>

\* m = state.b ...
Take(w) ==
    /\ Goes(w, "look", "advance")
    /\ b # End
    /\ mine' = [mine EXCEPT ![w] = b]
    /\ UNCHANGED <<count, main, spawned, joined, b, lock, calls>>

\* ... ++state.b, unlock
Advance(w) ==
    /\ Goes(w, "advance", "run")
    /\ b' = b + 1
    /\ lock' = Nobody
    /\ UNCHANGED <<count, main, spawned, joined, mine, calls>>

\* t(*m)
Run(w) ==
    /\ Goes(w, "run", "loop")
    /\ calls' = [calls EXCEPT ![mine[w]] = @ + 1]
    /\ UNCHANGED <<count, main, spawned, joined, b, lock, mine>>

StillLocked == lock             \* mutant: leaves with the lock
Unlocked == Nobody

\* The destructor of the unique_lock unlocks.
Leave(w) ==
    /\ Goes(w, "look", "ended")
    /\ b = End
    /\ lock' = Unlocked
    /\ UNCHANGED <<count, main, spawned, joined, b, mine, calls>>

Worker(w) ==
    \/ Enter(w) \/ Entered(w) \/ Lock(w) \/ Take(w) \/ Advance(w) \/ Run(w)
    \/ Leave(w)

Caller == Execute \/ InlineReturn \/ Spawn \/ SpawnEnd \/ Join \/ Return

Terminated == main = "returned" /\ UNCHANGED vars

Next == Caller \/ (\E w \in Workers : Worker(w)) \/ Terminated

Spec == Init /\ [][Next]_vars

\* Every thread runs.  The mutex need not be fair: a thread can overtake
\* another one only as often as there are elements.
FairSpec == Spec /\ WF_vars(Caller) /\ \A w \in Workers : WF_vars(Worker(w))

-----------------------------------------------------------------------------
(* Properties                                                              *)

\* The type of every variable.
TypeOK ==
    /\ main \in {"called", "inline", "spawning", "joining", "returned"}
    /\ count \in 0..MaxThreads
    /\ spawned \in 0..count /\ joined \in 0..count
    /\ pc \in [Workers -> {"none", "enter", "entered", "loop", "look", "advance",
                           "run", "ended"}]
    /\ b \in 1..End
    /\ lock \in Workers \cup {Nobody}
    /\ mine \in [Workers -> 1..End]
    /\ calls \in [Elements -> {0, 1}]

\* "Calls t for each element in the range exactly once": when map() returns
\* every element had its call, and none had two (TypeOK), whichever threads
\* took them.
ExactlyOnce == main = "returned" => \A x \in Elements : calls[x] = 1

\* The iterators and the mutex are on the stack of map(): no thread is left
\* that could touch them when it has returned.
NoneLeft == main = "returned" => \A w \in Workers : pc[w] \in {"none", "ended"}

\* map() returns.
MapReturns == <>(main = "returned")
=============================================================================
