---------------------- MODULE HCQRIndexWithCacheProofs ----------------------
(***************************************************************************)
(* Proofs about HCQRIndexWithCache, for any number of threads, queries,    *)
(* sizes and calls.                                                        *)
(***************************************************************************)
EXTENDS HCQRIndexWithCache, TLAPS, FiniteSetTheorems

\* The threads that wait for the mutex or look into the cache: each of them may
\* still count one access.
Asking == {t \in Threads : pc[t] \in {"query", "look"}}

\* m_cacheLock belongs to the thread that is inside the critical section.
LockInv == \A t \in Threads : (lock = t) <=> (pc[t] \in {"look", "insert", "resize"})

\* The cache is a finite map; what it holds for a key is the answer to that key.
CacheInv ==
    /\ cache \in [DOMAIN cache -> [usage : Nat, value : Queries]]
    /\ \A k \in DOMAIN cache : cache[k].value = k
    /\ IsFiniteSet(DOMAIN cache)

\* A thread that is about to insert, or returned from its last query, has its
\* own answer.
AnswerInv ==
    \A t \in Threads : pc[t] \in {"idle", "insert", "resize"} => answer[t] = query[t]

\* Accesses are counted once per call.
UsageInv ==
    /\ IsFiniteSet(Asking)
    /\ Cardinality(Asking) <= calls
    /\ \A k \in DOMAIN cache : cache[k].usage + Cardinality(Asking) <= calls

\* Only a resize in progress may leave the cache too large.
BoundInv == Resizing \/ Within

Types ==
    /\ maxSize \in Nat \ {0}
    /\ lock \in Threads \cup {NoThread}
    /\ pc \in [Threads -> {"idle", "query", "look", "insert", "resize"}]
    /\ query \in [Threads -> Queries] /\ answer \in [Threads -> Queries]
    /\ calls \in 0..MaxCalls
    /\ undefined \in BOOLEAN

IInv == Types /\ LockInv /\ CacheInv /\ AnswerInv /\ UsageInv /\ BoundInv

LEMMA InitIInv == Init => IInv
<1> SUFFICES ASSUME Init PROVE IInv
  OBVIOUS
<1>1. Types
  <2>1. (CHOOSE q \in Queries : TRUE) \in Queries
    BY CacheAssumption
  <2>2. query \in [Threads -> Queries] /\ answer \in [Threads -> Queries]
    BY <2>1 DEF Init
  <2>3. maxSize \in Nat \ {0} /\ calls \in 0..MaxCalls
    BY CacheAssumption DEF Init, AtLeastOne
  <2>4. pc \in [Threads -> {"idle", "query", "look", "insert", "resize"}]
    BY DEF Init
  <2> QED
    BY <2>2, <2>3, <2>4 DEF Init, Types
<1>2. LockInv /\ AnswerInv
  BY CacheAssumption DEF Init, LockInv, AnswerInv
<1>3. DOMAIN cache = {}
  BY DEF Init
<1>4. CacheInv
  BY <1>3, FS_EmptySet DEF Init, CacheInv
<1>5. Asking = {}
  BY DEF Init, Asking
<1>6. UsageInv
  BY <1>3, <1>5, FS_EmptySet DEF Init, UsageInv
<1>7. BoundInv
  BY <1>1, <1>3, FS_EmptySet DEF BoundInv, Within, Count, Types
<1> QED
  BY <1>1, <1>2, <1>4, <1>6, <1>7 DEF IInv

-----------------------------------------------------------------------------
(* Facts about the operators of LFUCache                                   *)

\* Inserted() adds at most the key, with the value it is given.
LEMMA InsertedMap ==
    ASSUME NEW f, NEW q \in Queries, NEW g, g = Inserted(f, q, q),
           f \in [DOMAIN f -> [usage : Nat, value : Queries]],
           \A k \in DOMAIN f : f[k].value = k,
           IsFiniteSet(DOMAIN f)
    PROVE  /\ g \in [DOMAIN g -> [usage : Nat, value : Queries]]
           /\ \A k \in DOMAIN g : g[k].value = k
           /\ \A k \in DOMAIN g : g[k].usage = 0 \/ (k \in DOMAIN f /\ g[k] = f[k])
           /\ IsFiniteSet(DOMAIN g)
           /\ Cardinality(DOMAIN g) <= Cardinality(DOMAIN f) + 1
<1>1. CASE q \in DOMAIN f
  <2>1. g = f /\ DOMAIN f \cup {q} = DOMAIN f
    BY <1>1 DEF Inserted
  <2>2. Cardinality(DOMAIN f) \in Nat
    BY FS_CardinalityType
  <2> QED
    BY <2>1, <2>2
<1>2. CASE q \notin DOMAIN f
  <2>1. g = [k \in DOMAIN f \cup {q} |-> IF k = q THEN [usage |-> 0, value |-> q] ELSE f[k]]
    BY <1>2 DEF Inserted
  <2>2. /\ IsFiniteSet(DOMAIN f \cup {q})
        /\ Cardinality(DOMAIN f \cup {q}) = Cardinality(DOMAIN f) + 1
        /\ Cardinality(DOMAIN f) \in Nat
    BY <1>2, FS_AddElement, FS_CardinalityType
  <2>3. DOMAIN g = DOMAIN f \cup {q}
    BY <2>1
  <2>4. g \in [DOMAIN f \cup {q} -> [usage : Nat, value : Queries]]
    BY <2>1
  <2>5. \A k \in DOMAIN g : g[k].value = k /\ (g[k].usage = 0 \/ (k \in DOMAIN f /\ g[k] = f[k]))
    BY <2>1, <2>3
  <2> QED
    BY <2>2, <2>3, <2>4, <2>5
<1> QED
  BY <1>1, <1>2

\* What is left after an eviction is part of what was there.
LEMMA RestrictedMap ==
    ASSUME CacheInv, NEW gone, NEW g, g = Restrict(cache, DOMAIN cache \ gone)
    PROVE  /\ DOMAIN g = DOMAIN cache \ gone
           /\ g \in [DOMAIN g -> [usage : Nat, value : Queries]]
           /\ \A k \in DOMAIN g : g[k].value = k /\ g[k] = cache[k]
           /\ IsFiniteSet(DOMAIN g)
<1>1. IsFiniteSet(DOMAIN cache \ gone)
  BY FS_Subset DEF CacheInv
<1> QED
  BY <1>1 DEF CacheInv, Restrict

-----------------------------------------------------------------------------
(* One lemma per action                                                    *)

\* The set of asking threads when one joins or leaves it.
LEMMA AskingSteps ==
    ASSUME IInv, NEW t \in Threads
    PROVE  /\ Cardinality(Asking) \in Nat
           /\ IsFiniteSet(Asking \cup {t}) /\ IsFiniteSet(Asking \ {t})
           /\ t \notin Asking => Cardinality(Asking \cup {t}) = Cardinality(Asking) + 1
           /\ t \in Asking => Cardinality(Asking \ {t}) = Cardinality(Asking) - 1
  BY FS_AddElement, FS_RemoveElement, FS_CardinalityType DEF IInv, UsageInv

\* A call begins and makes room for one more access; one ends and takes it away.
LEMMA UsageSteps ==
    ASSUME IInv, NEW t \in Threads, UNCHANGED cache,
           \/ Asking' = Asking \cup {t} /\ t \notin Asking /\ calls' = calls + 1
           \/ Asking' = Asking \ {t} /\ t \in Asking /\ calls' = calls
    PROVE  UsageInv'
<1>1. calls \in Nat /\ \A k \in DOMAIN cache : cache[k].usage \in Nat
  BY CacheAssumption DEF IInv, Types, CacheInv
<1>2. /\ IsFiniteSet(Asking')
      /\ Cardinality(Asking) \in Nat /\ Cardinality(Asking') \in Nat
      /\ Cardinality(Asking') <= Cardinality(Asking) + (calls' - calls)
  <2>1. CASE Asking' = Asking \cup {t} /\ t \notin Asking /\ calls' = calls + 1
    <3>1. /\ IsFiniteSet(Asking \cup {t}) /\ Cardinality(Asking) \in Nat
          /\ Cardinality(Asking \cup {t}) = Cardinality(Asking) + 1
      BY <2>1, AskingSteps
    <3> QED
      BY <1>1, <2>1, <3>1
  <2>2. CASE Asking' = Asking \ {t} /\ t \in Asking /\ calls' = calls
    <3>1. /\ IsFiniteSet(Asking \ {t}) /\ Cardinality(Asking) \in Nat
          /\ Cardinality(Asking \ {t}) \in Nat
          /\ Cardinality(Asking \ {t}) = Cardinality(Asking) - 1
      BY <2>2, AskingSteps, FS_CardinalityType
    <3> QED
      BY <1>1, <2>2, <3>1
  <2> QED
    BY <2>1, <2>2
<1>3. /\ Cardinality(Asking) <= calls
      /\ \A k \in DOMAIN cache : cache[k].usage + Cardinality(Asking) <= calls
  BY DEF IInv, UsageInv
<1>4. calls' \in Nat
  BY <1>1
<1>5. \A k \in DOMAIN cache : cache[k].usage + Cardinality(Asking') <= calls'
  BY <1>1, <1>2, <1>3, <1>4
<1>6. Cardinality(Asking') <= calls'
  BY <1>1, <1>2, <1>3, <1>4
<1> QED
  BY <1>2, <1>5, <1>6 DEF UsageInv

\* New entries start at zero and old ones keep their count.
LEMMA UsageKept ==
    ASSUME IInv, Asking' = Asking, calls' \in Nat, calls <= calls',
           \A k \in DOMAIN cache' : cache'[k].usage = 0 \/ (k \in DOMAIN cache /\ cache'[k] = cache[k])
    PROVE  UsageInv'
<1>1. calls \in Nat /\ \A k \in DOMAIN cache : cache[k].usage \in Nat
  BY CacheAssumption DEF IInv, Types, CacheInv
<1>2. /\ IsFiniteSet(Asking) /\ Cardinality(Asking) \in Nat /\ Cardinality(Asking) <= calls
      /\ \A k \in DOMAIN cache : cache[k].usage + Cardinality(Asking) <= calls
  BY FS_CardinalityType DEF IInv, UsageInv
<1>3. \A k \in DOMAIN cache' : cache'[k].usage + Cardinality(Asking) <= calls'
  BY <1>1, <1>2
<1>4. Cardinality(Asking) <= calls'
  BY <1>1, <1>2
<1> QED
  BY <1>2, <1>3, <1>4 DEF UsageInv

LEMMA QueryKeeps == ASSUME IInv, NEW t \in Threads, NEW q \in Queries, Query(t, q) PROVE IInv'
<1> USE DEF IInv, Query, Goes, Called
<1>1. (Types /\ LockInv /\ AnswerInv)'
  BY CacheAssumption DEF Types, LockInv, AnswerInv
<1>2. CacheInv'
  BY DEF CacheInv
<1>3. Asking' = Asking \cup {t} /\ t \notin Asking
  BY DEF Asking, Types
<1>4. UsageInv'
  BY <1>3, UsageSteps
<1>5. BoundInv'
  BY DEF BoundInv, Within, Count, Resizing, Types
<1> QED
  BY <1>1, <1>2, <1>4, <1>5

LEMMA LockKeeps == ASSUME IInv, NEW t \in Threads, Lock(t) PROVE IInv'
<1> USE DEF IInv, Lock, Goes, Acquire
<1>1. (Types /\ LockInv /\ AnswerInv)'
  BY CacheAssumption DEF Types, LockInv, AnswerInv
<1>2. CacheInv'
  BY DEF CacheInv
<1>3. Asking' = Asking
  BY DEF Asking, Types
<1>4. UsageInv'
  BY <1>3 DEF UsageInv
<1>5. BoundInv'
  BY DEF BoundInv, Within, Count, Resizing, Types
<1> QED
  BY <1>1, <1>2, <1>4, <1>5

LEMMA HitKeeps == ASSUME IInv, NEW t \in Threads, Hit(t) PROVE IInv'
<1> DEFINE key == query[t]
<1> USE DEF IInv, Goes, Release
<1>1. /\ key \in DOMAIN cache /\ key \in Queries
      /\ cache' = [cache EXCEPT ![key].usage = cache[key].usage + 1]
      /\ answer' = [answer EXCEPT ![t] = cache[key].value]
      /\ pc[t] = "look" /\ pc' = [pc EXCEPT ![t] = "idle"] /\ lock' = NoThread
      /\ UNCHANGED <<maxSize, query, calls, undefined>>
  BY DEF Hit, CacheKey, Found, Types
<1>2. cache[key].value = key /\ cache[key] \in [usage : Nat, value : Queries]
  BY <1>1 DEF CacheInv
<1>3. (Types /\ LockInv /\ AnswerInv)'
  BY <1>1, <1>2, CacheAssumption DEF Types, LockInv, AnswerInv
<1>4. /\ DOMAIN cache' = DOMAIN cache
      /\ \A k \in DOMAIN cache : k # key => cache'[k] = cache[k]
      /\ cache'[key].usage = cache[key].usage + 1 /\ cache'[key].value = cache[key].value
      /\ cache' \in [DOMAIN cache -> [usage : Nat, value : Queries]]
  BY <1>1, <1>2 DEF CacheInv
<1>5. CacheInv'
  BY <1>4 DEF CacheInv
<1>6. Asking' = Asking \ {t} /\ t \in Asking
  BY <1>1 DEF Asking, Types
<1>7. UsageInv'
  <2>1. \A k \in DOMAIN cache : cache[k].usage \in Nat
    BY DEF CacheInv
  <2>2. calls \in Nat /\ calls' = calls
    BY <1>1, CacheAssumption DEF Types
  <2>3. /\ IsFiniteSet(Asking \ {t}) /\ Cardinality(Asking) \in Nat
        /\ Cardinality(Asking \ {t}) = Cardinality(Asking) - 1
    BY <1>6, AskingSteps
  <2>4. \A k \in DOMAIN cache : cache'[k].usage <= cache[k].usage + 1 /\ cache'[k].usage \in Nat
    BY <1>4, <2>1
  <2>5. \A k \in DOMAIN cache : cache[k].usage + Cardinality(Asking) <= calls
    BY DEF UsageInv
  <2>6. \A k \in DOMAIN cache' : cache'[k].usage + Cardinality(Asking \ {t}) <= calls'
    BY <1>4, <2>1, <2>2, <2>3, <2>4, <2>5
  <2>7. Cardinality(Asking \ {t}) <= calls'
    BY <2>2, <2>3 DEF UsageInv
  <2> QED
    BY <1>6, <2>3, <2>6, <2>7 DEF UsageInv
<1>8. BoundInv'
  BY <1>1, <1>4 DEF BoundInv, Within, Count, Resizing, Types
<1> QED
  BY <1>3, <1>5, <1>7, <1>8

LEMMA MissKeeps == ASSUME IInv, NEW t \in Threads, Miss(t) PROVE IInv'
<1> USE DEF IInv, Miss, Goes
<1>1. (Types /\ LockInv /\ AnswerInv)'
  BY CacheAssumption DEF Types, LockInv, AnswerInv
<1>2. CacheInv'
  BY DEF CacheInv
<1>3. Asking' = Asking \ {t} /\ t \in Asking
  BY DEF Asking, Types
<1>4. UsageInv'
  BY <1>3, UsageSteps
<1>5. BoundInv'
  BY DEF BoundInv, Within, Count, Resizing, Types
<1> QED
  BY <1>1, <1>2, <1>4, <1>5

LEMMA BaseThrowsKeeps == ASSUME IInv, NEW t \in Threads, BaseThrows(t) PROVE IInv'
<1> USE DEF IInv, BaseThrows, Goes, Release
<1>1. (Types /\ LockInv /\ AnswerInv)'
  BY CacheAssumption DEF Types, LockInv, AnswerInv
<1>2. CacheInv'
  BY DEF CacheInv
<1>3. Asking' = Asking \ {t} /\ t \in Asking
  BY DEF Asking, Types
<1>4. UsageInv'
  BY <1>3, UsageSteps
<1>5. BoundInv'
  BY DEF BoundInv, Within, Count, Resizing, Types
<1> QED
  BY <1>1, <1>2, <1>4, <1>5

LEMMA InsertFreeKeeps == ASSUME IInv, NEW t \in Threads, InsertFree(t) PROVE IInv'
<1> USE DEF IInv, Goes, Release
<1>1. /\ query[t] \in Queries /\ answer[t] = query[t]
      /\ pc[t] = "insert" /\ pc' = [pc EXCEPT ![t] = "idle"] /\ lock' = NoThread
      /\ cache' = Inserted(cache, query[t], query[t])
      /\ ~(Cardinality(DOMAIN cache) + 1 >= maxSize)
      /\ UNCHANGED <<maxSize, query, answer, calls, undefined>>
  BY DEF InsertFree, CacheKey, NeedsEviction, Count, Types, AnswerInv
<1>2. (Types /\ LockInv /\ AnswerInv)'
  BY <1>1, CacheAssumption DEF Types, LockInv, AnswerInv
<1>3. /\ CacheInv'
      /\ \A k \in DOMAIN cache' : cache'[k].usage = 0 \/ (k \in DOMAIN cache /\ cache'[k] = cache[k])
      /\ Cardinality(DOMAIN cache') <= Cardinality(DOMAIN cache) + 1
  BY <1>1, InsertedMap DEF CacheInv
<1>4. Asking' = Asking
  BY <1>1 DEF Asking, Types
<1>5. UsageInv'
  BY <1>1, <1>3, <1>4, UsageKept, CacheAssumption DEF Types
<1>6. Within'
  BY <1>1, <1>3, FS_CardinalityType DEF Within, Count, CacheInv, Types
<1> QED
  BY <1>2, <1>3, <1>5, <1>6 DEF BoundInv

LEMMA InsertEvictingKeeps == ASSUME IInv, NEW t \in Threads, InsertEvicting(t) PROVE IInv'
<1> USE DEF IInv, Goes, Release
<1>1. /\ query[t] \in Queries /\ answer[t] = query[t]
      /\ pc[t] = "insert" /\ pc' = [pc EXCEPT ![t] = "idle"] /\ lock' = NoThread
      /\ undefined' \in BOOLEAN
      /\ UNCHANGED <<maxSize, query, answer, calls>>
  BY DEF InsertEvicting, Types, AnswerInv
<1>2. (Types /\ LockInv /\ AnswerInv)'
  BY <1>1, CacheAssumption DEF Types, LockInv, AnswerInv
<1>3. PICK gone \in IF Count = 0 THEN {{}} ELSE {{k} : k \in Victims} :
          cache' = Inserted(Restrict(cache, DOMAIN cache \ gone), query[t], query[t])
  BY <1>1 DEF InsertEvicting, CacheKey
<1> DEFINE left == Restrict(cache, DOMAIN cache \ gone)
<1>4. /\ DOMAIN left = DOMAIN cache \ gone
      /\ left \in [DOMAIN left -> [usage : Nat, value : Queries]]
      /\ \A k \in DOMAIN left : left[k].value = k /\ left[k] = cache[k]
      /\ IsFiniteSet(DOMAIN left)
  BY RestrictedMap
<1>5. Cardinality(DOMAIN left) + 1 <= maxSize
  <2>1. CASE Count = 0
    <3>1. DOMAIN left = {}
      BY <1>3, <1>4, <2>1, FS_EmptySet DEF Count, CacheInv
    <3> QED
      BY <3>1, FS_EmptySet DEF Types
  <2>2. CASE Count # 0
    <3>1. PICK k \in DOMAIN cache : gone = {k}
      BY <1>3, <2>2 DEF Victims
    <3>2. Cardinality(DOMAIN left) = Cardinality(DOMAIN cache) - 1 /\ Cardinality(DOMAIN cache) \in Nat
      BY <1>4, <3>1, FS_RemoveElement, FS_CardinalityType DEF CacheInv
    <3>3. Cardinality(DOMAIN cache) <= maxSize
      BY <1>1 DEF BoundInv, Within, Count, Resizing, LockInv, Types
    <3> QED
      BY <3>2, <3>3
  <2> QED
    BY <2>1, <2>2
<1> HIDE DEF left
<1>6. /\ CacheInv'
      /\ \A k \in DOMAIN cache' : cache'[k].usage = 0 \/ (k \in DOMAIN cache /\ cache'[k] = cache[k])
      /\ Cardinality(DOMAIN cache') <= Cardinality(DOMAIN left) + 1
  <2>1. cache' = Inserted(left, query[t], query[t])
    BY <1>3 DEF left
  <2> QED
    BY <1>1, <1>4, <2>1, InsertedMap DEF CacheInv
<1>7. Asking' = Asking
  BY <1>1 DEF Asking, Types
<1>8. UsageInv'
  BY <1>1, <1>6, <1>7, UsageKept, CacheAssumption DEF Types
<1>9. Within'
  BY <1>1, <1>4, <1>5, <1>6, FS_CardinalityType DEF Within, Count, CacheInv, Types
<1> QED
  BY <1>2, <1>6, <1>8, <1>9 DEF BoundInv

LEMMA SetCacheSizeKeeps ==
    ASSUME IInv, NEW t \in Threads, NEW n \in Sizes, SetCacheSize(t, n) PROVE IInv'
<1> USE DEF IInv, SetCacheSize, Goes, Called, Acquire
<1>1. (Types /\ LockInv /\ AnswerInv)'
  BY CacheAssumption DEF Types, LockInv, AnswerInv, AtLeastOne
<1>2. CacheInv'
  BY DEF CacheInv
<1>3. Asking' = Asking
  BY DEF Asking, Types
<1>4. UsageInv'
  BY <1>3, UsageKept, CacheAssumption DEF Types
<1>5. Resizing'
  BY DEF Resizing, Types
<1> QED
  BY <1>1, <1>2, <1>4, <1>5 DEF BoundInv

LEMMA SetCacheSizeReturnKeeps == ASSUME IInv, NEW t \in Threads, SetCacheSizeReturn(t) PROVE IInv'
<1> USE DEF IInv, SetCacheSizeReturn, Goes, Release
<1>1. (Types /\ LockInv /\ AnswerInv)'
  BY CacheAssumption DEF Types, LockInv, AnswerInv
<1>2. CacheInv'
  BY DEF CacheInv
<1>3. Asking' = Asking
  BY DEF Asking, Types
<1>4. UsageInv'
  BY <1>3 DEF UsageInv
<1>5. Within'
  BY DEF Within, Count
<1> QED
  BY <1>1, <1>2, <1>4, <1>5 DEF BoundInv

LEMMA StepIInv == IInv /\ [Next]_vars => IInv'
<1> SUFFICES ASSUME IInv, [Next]_vars PROVE IInv'
  OBVIOUS
<1>1. ASSUME NEW t \in Threads, Thread(t) PROVE IInv'
  BY <1>1, LockKeeps, HitKeeps, MissKeeps, BaseThrowsKeeps, InsertFreeKeeps,
     InsertEvictingKeeps, SetCacheSizeReturnKeeps DEF Thread
<1>2. ASSUME NEW t \in Threads, Call(t) PROVE IInv'
  BY <1>2, QueryKeeps, SetCacheSizeKeeps DEF Call
<1>3. ASSUME UNCHANGED vars PROVE IInv'
  BY <1>3 DEF vars, IInv, Types, LockInv, CacheInv, AnswerInv, UsageInv, Asking,
     BoundInv, Within, Count, Resizing
<1> QED
  BY <1>1, <1>2, <1>3 DEF Next

-----------------------------------------------------------------------------

\* The inductive invariant of the cache and its mutex.
THEOREM Invariance == Spec => []IInv
  BY InitIInv, StepIInv, PTL DEF Spec

\* The variables keep their types; no entry is counted more often than there
\* were calls (a usage counter wraps only after 2^32 calls).
THEOREM TypeCorrect == Spec => []TypeOK
<1>1. IInv => TypeOK
  <2> SUFFICES ASSUME IInv PROVE TypeOK
    OBVIOUS
  <2>1. ASSUME NEW k \in DOMAIN cache PROVE cache[k].usage \in 0..MaxCalls
    <3>1. cache[k].usage \in Nat /\ Cardinality(Asking) \in Nat
      BY FS_CardinalityType DEF IInv, CacheInv, UsageInv
    <3> QED
      BY <3>1, CacheAssumption DEF IInv, UsageInv, Types
  <2> QED
    BY <2>1 DEF TypeOK, IInv, Types
<1> QED
  BY <1>1, Invariance, PTL

\* Every query is answered as the base index answers it, whatever other threads
\* ask, evict, insert or resize.
THEOREM AnswersCorrect == Spec => []AnswersRight
<1>1. IInv => AnswersRight
  BY DEF IInv, AnswerInv, AnswersRight
<1> QED
  BY <1>1, Invariance, PTL

\* The cache is within its size, except while setCacheSize(), with the mutex
\* held, has not found it small enough yet.
THEOREM CacheBounded == Spec => []Bounded
<1>1. IInv => Bounded
  BY DEF IInv, BoundInv, Bounded
<1> QED
  BY <1>1, Invariance, PTL

\* "There defenitly is one there as m_maxSize > 0" (LFUCache.h:60): insert() erases
\* only entries that exist.
EvictHasVictim == ~undefined

\* A size above 0 is not enough for that comment: a size of 1, which is also what
\* setSize(0) sets, makes the first insert() erase end().  With sizes above 1 insert()
\* has a victim whenever it evicts.
THEOREM VictimExists ==
    ASSUME AtLeastOne(InitialSize) > 1, \A n \in Sizes : AtLeastOne(n) > 1
    PROVE  Spec => []EvictHasVictim
<1> DEFINE SizeInv == maxSize > 1 /\ EvictHasVictim
<1>1. Init => SizeInv
  BY DEF Init, EvictHasVictim
<1>2. IInv /\ SizeInv /\ [Next]_vars => SizeInv'
  <2> SUFFICES ASSUME IInv, SizeInv, [Next]_vars PROVE SizeInv'
    OBVIOUS
  <2>1. ASSUME NEW t \in Threads, InsertEvicting(t) PROVE SizeInv'
    BY <2>1 DEF InsertEvicting, NeedsEviction, EvictHasVictim, IInv, Types
  <2>2. ASSUME NEW t \in Threads, NEW n \in Sizes, SetCacheSize(t, n) PROVE SizeInv'
    BY <2>2 DEF SetCacheSize, EvictHasVictim
  <2> QED
    BY <2>1, <2>2 DEF Next, Thread, Call, Query, Lock, Hit, Miss, BaseThrows, InsertFree,
       SetCacheSizeReturn, EvictHasVictim, vars
<1> QED
  BY <1>1, <1>2, Invariance, PTL DEF Spec
=============================================================================
