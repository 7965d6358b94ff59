------------------------------ MODULE WorkQueue ------------------------------
(***************************************************************************)
(* What a thread pool promises to its clients, without threads, mutexes or *)
(* condition variables: tasks are started in the order in which they were  *)
(* submitted, each one is executed once, and a client that awaits the      *)
(* queue gets control back only after everything that had been submitted   *)
(* when it began to wait has been executed.                                *)
(***************************************************************************)
EXTENDS Naturals, Sequences

CONSTANTS Clients, Tasks

VARIABLES
    pending,    \* submitted tasks nobody has started, oldest first
    running,    \* tasks being executed
    finished,   \* tasks that were executed
    awaiting    \* per client: the tasks its current wait covers

vars == <<pending, running, finished, awaiting>>

\* The tasks that were ever submitted.
Submitted == {pending[i] : i \in 1..Len(pending)} \cup running \cup finished

Init ==
    /\ pending = <<>>
    /\ running = {}
    /\ finished = {}
    /\ awaiting = [c \in Clients |-> {}]

Submit(t) ==
    /\ t \in Tasks \ Submitted
    /\ pending' = Append(pending, t)
    /\ UNCHANGED <<running, finished, awaiting>>

Start ==
    /\ pending # <<>>
    /\ Head(pending) \notin running \cup finished
    /\ pending' = Tail(pending)
    /\ running' = running \cup {Head(pending)}
    /\ UNCHANGED <<finished, awaiting>>

Finish(t) ==
    /\ t \in running
    /\ running' = running \ {t}
    /\ finished' = finished \cup {t}
    /\ UNCHANGED <<pending, awaiting>>

AwaitBegin(c) ==
    /\ awaiting[c] = {}
    /\ awaiting' = [awaiting EXCEPT ![c] = Submitted]
    /\ UNCHANGED <<pending, running, finished>>

AwaitEnd(c) ==
    /\ awaiting[c] \subseteq finished
    /\ awaiting' = [awaiting EXCEPT ![c] = {}]
    /\ UNCHANGED <<pending, running, finished>>

Next ==
    \/ \E t \in Tasks : Submit(t) \/ Finish(t)
    \/ Start
    \/ \E c \in Clients : AwaitBegin(c) \/ AwaitEnd(c)

Spec == Init /\ [][Next]_vars
=============================================================================
