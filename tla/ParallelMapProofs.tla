-------------------------- MODULE ParallelMapProofs --------------------------
(***************************************************************************)
(* ThreadPool::map calls its task exactly once for every element, for any  *)
(* number of elements and any number of threads but zero.                  *)
(*                                                                         *)
(* The invariant says whom the mutex belongs to, that a thread that holds  *)
(* it has an up to date copy of the iterator, and splits the range at the  *)
(* iterator: what is behind it was called, or is in the hands of exactly   *)
(* one thread; what is in front of it is untouched.                        *)
(***************************************************************************)
EXTENDS ParallelMap, TLAPS

Locked == {"entered", "look", "advance"}
Begun == {"enter", "entered", "loop", "look", "advance", "run", "ended"}

\* The mutex excludes.
LockInv == \A w \in Workers : pc[w] \in Locked <=> lock = w

\* Between m = state.b and ++state.b the copy is the iterator.
CopyInv == \A w \in Workers : pc[w] = "advance" => mine[w] = b /\ b # End

\* Elements in front of the iterator are untouched.
AheadInv == \A x \in Elements : x >= b => calls[x] = 0

\* Elements behind it were called, or somebody is about to.
BehindInv ==
    \A x \in Elements : x < b =>
        calls[x] = 1 \/ (\E w \in Workers : pc[w] = "run" /\ mine[w] = x)

\* Who is about to call is the only one and the first.
RunInv ==
    \A w \in Workers : pc[w] = "run" =>
        /\ mine[w] \in Elements /\ mine[w] < b
        /\ calls[mine[w]] = 0
        /\ \A v \in Workers : pc[v] = "run" /\ mine[v] = mine[w] => v = w

\* A thread ends only when the range is exhausted.
EndInv == \A w \in Workers : pc[w] = "ended" => b = End

\* Which threads exist, and which of them have ended.
PhaseInv ==
    /\ main = "called" => /\ spawned = 0 /\ joined = 0
                           /\ \A w \in Workers : pc[w] = "none"
    /\ main = "inline" => count = 1 /\ \A w \in Workers : pc[w] \in Begun <=> w = 1
    /\ main = "spawning" => joined = 0 /\ \A w \in Workers : pc[w] \in Begun <=> w <= spawned
    /\ main = "joining" =>
          \A w \in Workers : /\ pc[w] \in Begun <=> w <= count
                             /\ w <= joined => pc[w] = "ended"
    /\ main = "returned" =>
          \A w \in Workers : pc[w] = IF w <= count THEN "ended" ELSE "none"

\* There is a thread if the hardware has one.
CountInv == HardwareConcurrency > 0 => count > 0

IInv ==
    /\ TypeOK /\ CountInv
    /\ LockInv /\ CopyInv /\ AheadInv /\ BehindInv /\ RunInv /\ EndInv /\ PhaseInv

\* The invariant holds before execute() does anything.
LEMMA InitInv == Init => IInv
<1> SUFFICES ASSUME Init PROVE IInv
  OBVIOUS
<1>1. TypeOK /\ CountInv
  BY MapAssumption DEF Init, TypeOK, CountInv, Resolved, Workers, Elements, End, Nobody
<1>2. LockInv /\ CopyInv /\ RunInv /\ EndInv /\ PhaseInv
  BY MapAssumption DEF Init, LockInv, CopyInv, RunInv, EndInv, PhaseInv, Locked, Workers, Nobody
<1>3. AheadInv /\ BehindInv
  BY MapAssumption DEF Init, AheadInv, BehindInv, Elements
<1> QED
  BY <1>1, <1>2, <1>3 DEF IInv

\* One lemma for each step: execute() in the caller, then the task in a thread.
LEMMA ExecuteKeeps == ASSUME IInv, Execute PROVE IInv'
<1>1. TypeOK'
  BY MapAssumption DEF IInv, Execute, TypeOK, RunInv, CopyInv, Workers, Elements, End, Nobody
<1>2. CountInv'
  BY MapAssumption DEF IInv, Execute, CountInv
<1>3. LockInv'
  BY MapAssumption DEF IInv, Execute, TypeOK, LockInv, PhaseInv, Workers, Elements, End, Nobody, Locked, Begun
<1>4. CopyInv'
  BY MapAssumption DEF IInv, Execute, TypeOK, CopyInv, LockInv, Workers, Elements, End, Nobody, Locked
<1>5. AheadInv'
  BY MapAssumption DEF IInv, Execute, TypeOK, AheadInv, RunInv, Workers, Elements, End, Nobody
<1>6. BehindInv'
  BY MapAssumption DEF IInv, Execute, TypeOK, BehindInv, CopyInv, RunInv, PhaseInv, Workers, Elements, End, Nobody, Begun
<1>7. RunInv'
  BY MapAssumption DEF IInv, Execute, TypeOK, RunInv, CopyInv, AheadInv, Workers, Elements, End, Nobody
<1>8. EndInv'
  BY MapAssumption DEF IInv, Execute, TypeOK, EndInv, CopyInv, Workers, Elements, End, Nobody
<1>9. PhaseInv'
  BY MapAssumption DEF IInv, Execute, TypeOK, PhaseInv, Workers, Elements, End, Nobody, Begun
<1> QED
  BY <1>1, <1>2, <1>3, <1>4, <1>5, <1>6, <1>7, <1>8, <1>9 DEF IInv

LEMMA InlineReturnKeeps == ASSUME IInv, InlineReturn PROVE IInv'
<1>1. TypeOK' /\ CountInv'
  BY MapAssumption DEF IInv, InlineReturn, TypeOK, CountInv
<1>2. LockInv' /\ CopyInv' /\ AheadInv' /\ BehindInv' /\ RunInv' /\ EndInv'
  BY DEF IInv, InlineReturn, LockInv, CopyInv, AheadInv, BehindInv, RunInv, EndInv
<1>3. PhaseInv'
  BY MapAssumption DEF IInv, InlineReturn, TypeOK, PhaseInv, Begun, Workers
<1> QED
  BY <1>1, <1>2, <1>3 DEF IInv

LEMMA SpawnKeeps == ASSUME IInv, Spawn PROVE IInv'
<1>1. TypeOK'
  BY MapAssumption DEF IInv, Spawn, TypeOK, RunInv, CopyInv, Workers, Elements, End, Nobody
<1>2. CountInv'
  BY MapAssumption DEF IInv, Spawn, CountInv
<1>3. LockInv'
  BY MapAssumption DEF IInv, Spawn, TypeOK, LockInv, PhaseInv, Workers, Elements, End, Nobody, Locked, Begun
<1>4. CopyInv'
  BY MapAssumption DEF IInv, Spawn, TypeOK, CopyInv, LockInv, Workers, Elements, End, Nobody, Locked
<1>5. AheadInv'
  BY MapAssumption DEF IInv, Spawn, TypeOK, AheadInv, RunInv, Workers, Elements, End, Nobody
<1>6. BehindInv'
  BY MapAssumption DEF IInv, Spawn, TypeOK, BehindInv, CopyInv, RunInv, PhaseInv, Workers, Elements, End, Nobody, Begun
<1>7. RunInv'
  BY MapAssumption DEF IInv, Spawn, TypeOK, RunInv, CopyInv, AheadInv, Workers, Elements, End, Nobody
<1>8. EndInv'
  BY MapAssumption DEF IInv, Spawn, TypeOK, EndInv, CopyInv, Workers, Elements, End, Nobody
<1>9. PhaseInv'
  BY MapAssumption DEF IInv, Spawn, TypeOK, PhaseInv, Workers, Elements, End, Nobody, Begun
<1> QED
  BY <1>1, <1>2, <1>3, <1>4, <1>5, <1>6, <1>7, <1>8, <1>9 DEF IInv

LEMMA SpawnEndKeeps == ASSUME IInv, SpawnEnd PROVE IInv'
<1>1. TypeOK' /\ CountInv'
  BY MapAssumption DEF IInv, SpawnEnd, TypeOK, CountInv
<1>2. LockInv' /\ CopyInv' /\ AheadInv' /\ BehindInv' /\ RunInv' /\ EndInv'
  BY DEF IInv, SpawnEnd, LockInv, CopyInv, AheadInv, BehindInv, RunInv, EndInv
<1>3. PhaseInv'
  BY MapAssumption DEF IInv, SpawnEnd, TypeOK, PhaseInv, Begun, Workers
<1> QED
  BY <1>1, <1>2, <1>3 DEF IInv

LEMMA JoinKeeps == ASSUME IInv, Join PROVE IInv'
<1>1. TypeOK' /\ CountInv'
  BY MapAssumption DEF IInv, Join, TypeOK, CountInv
<1>2. LockInv' /\ CopyInv' /\ AheadInv' /\ BehindInv' /\ RunInv' /\ EndInv'
  BY DEF IInv, Join, LockInv, CopyInv, AheadInv, BehindInv, RunInv, EndInv
<1>3. PhaseInv'
  BY MapAssumption DEF IInv, Join, HasEnded, TypeOK, PhaseInv, Begun, Workers
<1> QED
  BY <1>1, <1>2, <1>3 DEF IInv

LEMMA ReturnKeeps == ASSUME IInv, Return PROVE IInv'
<1>1. TypeOK' /\ CountInv'
  BY MapAssumption DEF IInv, Return, TypeOK, CountInv
<1>2. LockInv' /\ CopyInv' /\ AheadInv' /\ BehindInv' /\ RunInv' /\ EndInv'
  BY DEF IInv, Return, LockInv, CopyInv, AheadInv, BehindInv, RunInv, EndInv
<1>3. PhaseInv'
  BY MapAssumption DEF IInv, Return, TypeOK, PhaseInv, Begun, Workers
<1> QED
  BY <1>1, <1>2, <1>3 DEF IInv

LEMMA EnterKeeps == ASSUME IInv, NEW w \in Workers, Enter(w) PROVE IInv'
<1>1. TypeOK'
  BY MapAssumption DEF IInv, Enter, Goes, MayLock, TypeOK, RunInv, CopyInv, Workers, Elements, End, Nobody
<1>2. CountInv'
  BY MapAssumption DEF IInv, Enter, Goes, MayLock, CountInv
<1>3. LockInv'
  BY MapAssumption DEF IInv, Enter, Goes, MayLock, TypeOK, LockInv, Workers, Elements, End, Nobody, Locked
<1>4. CopyInv'
  BY MapAssumption DEF IInv, Enter, Goes, MayLock, TypeOK, CopyInv, LockInv, Workers, Elements, End, Nobody, Locked
<1>5. AheadInv'
  BY MapAssumption DEF IInv, Enter, Goes, MayLock, TypeOK, AheadInv, RunInv, Workers, Elements, End, Nobody
<1>6. BehindInv'
  BY MapAssumption DEF IInv, Enter, Goes, MayLock, TypeOK, BehindInv, CopyInv, RunInv, Workers, Elements, End, Nobody
<1>7. RunInv'
  BY MapAssumption DEF IInv, Enter, Goes, MayLock, TypeOK, RunInv, CopyInv, AheadInv, Workers, Elements, End, Nobody
<1>8. EndInv'
  BY MapAssumption DEF IInv, Enter, Goes, MayLock, TypeOK, EndInv, CopyInv, Workers, Elements, End, Nobody
<1>9. PhaseInv'
  BY MapAssumption DEF IInv, Enter, Goes, MayLock, TypeOK, PhaseInv, Workers, Elements, End, Nobody, Begun
<1> QED
  BY <1>1, <1>2, <1>3, <1>4, <1>5, <1>6, <1>7, <1>8, <1>9 DEF IInv

LEMMA EnteredKeeps == ASSUME IInv, NEW w \in Workers, Entered(w) PROVE IInv'
<1>1. TypeOK'
  BY MapAssumption DEF IInv, Entered, Goes, TypeOK, RunInv, CopyInv, Workers, Elements, End, Nobody
<1>2. CountInv'
  BY MapAssumption DEF IInv, Entered, Goes, CountInv
<1>3. LockInv'
  BY MapAssumption DEF IInv, Entered, Goes, TypeOK, LockInv, Workers, Elements, End, Nobody, Locked
<1>4. CopyInv'
  BY MapAssumption DEF IInv, Entered, Goes, TypeOK, CopyInv, LockInv, Workers, Elements, End, Nobody, Locked
<1>5. AheadInv'
  BY MapAssumption DEF IInv, Entered, Goes, TypeOK, AheadInv, RunInv, Workers, Elements, End, Nobody
<1>6. BehindInv'
  BY MapAssumption DEF IInv, Entered, Goes, TypeOK, BehindInv, CopyInv, RunInv, Workers, Elements, End, Nobody
<1>7. RunInv'
  BY MapAssumption DEF IInv, Entered, Goes, TypeOK, RunInv, CopyInv, AheadInv, Workers, Elements, End, Nobody
<1>8. EndInv'
  BY MapAssumption DEF IInv, Entered, Goes, TypeOK, EndInv, CopyInv, Workers, Elements, End, Nobody
<1>9. PhaseInv'
  BY MapAssumption DEF IInv, Entered, Goes, TypeOK, PhaseInv, Workers, Elements, End, Nobody, Begun
<1> QED
  BY <1>1, <1>2, <1>3, <1>4, <1>5, <1>6, <1>7, <1>8, <1>9 DEF IInv

LEMMA LockKeeps == ASSUME IInv, NEW w \in Workers, Lock(w) PROVE IInv'
<1>1. TypeOK'
  BY MapAssumption DEF IInv, Lock, Goes, MayLock, TypeOK, RunInv, CopyInv, Workers, Elements, End, Nobody
<1>2. CountInv'
  BY MapAssumption DEF IInv, Lock, Goes, MayLock, CountInv
<1>3. LockInv'
  BY MapAssumption DEF IInv, Lock, Goes, MayLock, TypeOK, LockInv, Workers, Elements, End, Nobody, Locked
<1>4. CopyInv'
  BY MapAssumption DEF IInv, Lock, Goes, MayLock, TypeOK, CopyInv, LockInv, Workers, Elements, End, Nobody, Locked
<1>5. AheadInv'
  BY MapAssumption DEF IInv, Lock, Goes, MayLock, TypeOK, AheadInv, RunInv, Workers, Elements, End, Nobody
<1>6. BehindInv'
  BY MapAssumption DEF IInv, Lock, Goes, MayLock, TypeOK, BehindInv, CopyInv, RunInv, Workers, Elements, End, Nobody
<1>7. RunInv'
  BY MapAssumption DEF IInv, Lock, Goes, MayLock, TypeOK, RunInv, CopyInv, AheadInv, Workers, Elements, End, Nobody
<1>8. EndInv'
  BY MapAssumption DEF IInv, Lock, Goes, MayLock, TypeOK, EndInv, CopyInv, Workers, Elements, End, Nobody
<1>9. PhaseInv'
  BY MapAssumption DEF IInv, Lock, Goes, MayLock, TypeOK, PhaseInv, Workers, Elements, End, Nobody, Begun
<1> QED
  BY <1>1, <1>2, <1>3, <1>4, <1>5, <1>6, <1>7, <1>8, <1>9 DEF IInv

LEMMA TakeKeeps == ASSUME IInv, NEW w \in Workers, Take(w) PROVE IInv'
<1>1. TypeOK'
  BY MapAssumption DEF IInv, Take, Goes, TypeOK, RunInv, CopyInv, Workers, Elements, End, Nobody
<1>2. CountInv'
  BY MapAssumption DEF IInv, Take, Goes, CountInv
<1>3. LockInv'
  BY MapAssumption DEF IInv, Take, Goes, TypeOK, LockInv, Workers, Elements, End, Nobody, Locked
<1>4. CopyInv'
  BY MapAssumption DEF IInv, Take, Goes, TypeOK, CopyInv, LockInv, Workers, Elements, End, Nobody, Locked
<1>5. AheadInv'
  BY MapAssumption DEF IInv, Take, Goes, TypeOK, AheadInv, RunInv, Workers, Elements, End, Nobody
<1>6. BehindInv'
  BY MapAssumption DEF IInv, Take, Goes, TypeOK, BehindInv, CopyInv, RunInv, Workers, Elements, End, Nobody
<1>7. RunInv'
  BY MapAssumption DEF IInv, Take, Goes, TypeOK, RunInv, CopyInv, AheadInv, Workers, Elements, End, Nobody
<1>8. EndInv'
  BY MapAssumption DEF IInv, Take, Goes, TypeOK, EndInv, CopyInv, Workers, Elements, End, Nobody
<1>9. PhaseInv'
  BY MapAssumption DEF IInv, Take, Goes, TypeOK, PhaseInv, Workers, Elements, End, Nobody, Begun
<1> QED
  BY <1>1, <1>2, <1>3, <1>4, <1>5, <1>6, <1>7, <1>8, <1>9 DEF IInv

LEMMA AdvanceKeeps == ASSUME IInv, NEW w \in Workers, Advance(w) PROVE IInv'
<1>1. TypeOK'
  BY MapAssumption DEF IInv, Advance, Goes, TypeOK, RunInv, CopyInv, Workers, Elements, End, Nobody
<1>2. CountInv'
  BY MapAssumption DEF IInv, Advance, Goes, CountInv
<1>3. LockInv'
  BY MapAssumption DEF IInv, Advance, Goes, TypeOK, LockInv, Workers, Elements, End, Nobody, Locked
<1>4. CopyInv'
  BY MapAssumption DEF IInv, Advance, Goes, TypeOK, CopyInv, LockInv, Workers, Elements, End, Nobody, Locked
<1>5. AheadInv'
  BY MapAssumption DEF IInv, Advance, Goes, TypeOK, AheadInv, RunInv, Workers, Elements, End, Nobody
<1>6. BehindInv'
  BY MapAssumption DEF IInv, Advance, Goes, TypeOK, BehindInv, CopyInv, RunInv, Workers, Elements, End, Nobody
<1>7. RunInv'
  BY MapAssumption DEF IInv, Advance, Goes, TypeOK, RunInv, CopyInv, AheadInv, Workers, Elements, End, Nobody
<1>8. EndInv'
  BY MapAssumption DEF IInv, Advance, Goes, TypeOK, EndInv, CopyInv, Workers, Elements, End, Nobody
<1>9. PhaseInv'
  BY MapAssumption DEF IInv, Advance, Goes, TypeOK, PhaseInv, Workers, Elements, End, Nobody, Begun
<1> QED
  BY <1>1, <1>2, <1>3, <1>4, <1>5, <1>6, <1>7, <1>8, <1>9 DEF IInv

LEMMA RunKeeps == ASSUME IInv, NEW w \in Workers, Run(w) PROVE IInv'
<1>1. TypeOK'
  BY MapAssumption DEF IInv, Run, Goes, TypeOK, RunInv, CopyInv, Workers, Elements, End, Nobody
<1>2. CountInv'
  BY MapAssumption DEF IInv, Run, Goes, CountInv
<1>3. LockInv'
  BY MapAssumption DEF IInv, Run, Goes, TypeOK, LockInv, Workers, Elements, End, Nobody, Locked
<1>4. CopyInv'
  BY MapAssumption DEF IInv, Run, Goes, TypeOK, CopyInv, LockInv, Workers, Elements, End, Nobody, Locked
<1>5. AheadInv'
  BY MapAssumption DEF IInv, Run, Goes, TypeOK, AheadInv, RunInv, Workers, Elements, End, Nobody
<1>6. BehindInv'
  BY MapAssumption DEF IInv, Run, Goes, TypeOK, BehindInv, CopyInv, RunInv, Workers, Elements, End, Nobody
<1>7. RunInv'
  BY MapAssumption DEF IInv, Run, Goes, TypeOK, RunInv, CopyInv, AheadInv, Workers, Elements, End, Nobody
<1>8. EndInv'
  BY MapAssumption DEF IInv, Run, Goes, TypeOK, EndInv, CopyInv, Workers, Elements, End, Nobody
<1>9. PhaseInv'
  BY MapAssumption DEF IInv, Run, Goes, TypeOK, PhaseInv, Workers, Elements, End, Nobody, Begun
<1> QED
  BY <1>1, <1>2, <1>3, <1>4, <1>5, <1>6, <1>7, <1>8, <1>9 DEF IInv

LEMMA LeaveKeeps == ASSUME IInv, NEW w \in Workers, Leave(w) PROVE IInv'
<1>1. TypeOK'
  BY MapAssumption DEF IInv, Leave, Goes, Unlocked, TypeOK, RunInv, CopyInv, Workers, Elements, End, Nobody
<1>2. CountInv'
  BY MapAssumption DEF IInv, Leave, Goes, Unlocked, CountInv
<1>3. LockInv'
  BY MapAssumption DEF IInv, Leave, Goes, Unlocked, TypeOK, LockInv, Workers, Elements, End, Nobody, Locked
<1>4. CopyInv'
  BY MapAssumption DEF IInv, Leave, Goes, Unlocked, TypeOK, CopyInv, LockInv, Workers, Elements, End, Nobody, Locked
<1>5. AheadInv'
  BY MapAssumption DEF IInv, Leave, Goes, Unlocked, TypeOK, AheadInv, RunInv, Workers, Elements, End, Nobody
<1>6. BehindInv'
  BY MapAssumption DEF IInv, Leave, Goes, Unlocked, TypeOK, BehindInv, CopyInv, RunInv, Workers, Elements, End, Nobody
<1>7. RunInv'
  BY MapAssumption DEF IInv, Leave, Goes, Unlocked, TypeOK, RunInv, CopyInv, AheadInv, Workers, Elements, End, Nobody
<1>8. EndInv'
  BY MapAssumption DEF IInv, Leave, Goes, Unlocked, TypeOK, EndInv, CopyInv, Workers, Elements, End, Nobody
<1>9. PhaseInv'
  BY MapAssumption DEF IInv, Leave, Goes, Unlocked, TypeOK, PhaseInv, Workers, Elements, End, Nobody, Begun
<1> QED
  BY <1>1, <1>2, <1>3, <1>4, <1>5, <1>6, <1>7, <1>8, <1>9 DEF IInv

\* No step of the caller or of a thread breaks the invariant.
LEMMA StepInv == IInv /\ [Next]_vars => IInv'
<1> SUFFICES ASSUME IInv, [Next]_vars PROVE IInv'
  OBVIOUS
<1>1. CASE Caller
  BY <1>1, ExecuteKeeps, InlineReturnKeeps, SpawnKeeps, SpawnEndKeeps, JoinKeeps, ReturnKeeps DEF Caller
<1>2. ASSUME NEW w \in Workers, Worker(w) PROVE IInv'
  BY <1>2, EnterKeeps, EnteredKeeps, LockKeeps, TakeKeeps, AdvanceKeeps, RunKeeps, LeaveKeeps DEF Worker
<1>3. CASE UNCHANGED vars
  BY <1>3 DEF IInv, vars, TypeOK, CountInv, LockInv, CopyInv, AheadInv, BehindInv, RunInv,
              EndInv, PhaseInv
<1> QED
  BY <1>1, <1>2, <1>3 DEF Next, Terminated

\* The invariant holds in every state of every run of map().
THEOREM Invariance == Spec => []IInv
  BY InitInv, StepInv, PTL DEF Spec

\* No element is called twice and the variables keep their types, for every
\* range, thread count and machine.
THEOREM TypeCorrect == Spec => []TypeOK
<1>1. IInv => TypeOK
  BY DEF IInv
<1> QED
  BY Invariance, <1>1, PTL

\* When map() has returned no thread of it runs any more.
THEOREM NoThreadLeft == Spec => []NoneLeft
<1>1. IInv => NoneLeft
  BY MapAssumption DEF IInv, TypeOK, PhaseInv, NoneLeft, Workers
<1> QED
  BY Invariance, <1>1, PTL

\* "Calls t for each element in the range exactly once", provided the machine
\* reports at least one hardware thread (or the caller asks for one).
THEOREM MapExactlyOnce == ASSUME HardwareConcurrency > 0 PROVE Spec => []ExactlyOnce
<1>1. IInv => ExactlyOnce
  <2> SUFFICES ASSUME IInv, main = "returned", NEW x \in Elements PROVE calls[x] = 1
    BY DEF ExactlyOnce
  <2>1. 1 \in Workers /\ 1 <= count
    BY MapAssumption DEF IInv, CountInv, TypeOK, Workers
  <2>2. b = End /\ x < b
    BY <2>1, MapAssumption DEF IInv, PhaseInv, EndInv, End, Elements
  <2>3. \A w \in Workers : pc[w] # "run"
    BY DEF IInv, PhaseInv
  <2> QED
    BY <2>2, <2>3 DEF IInv, BehindInv
<1> QED
  BY Invariance, <1>1, PTL
=============================================================================
