-------------------------- MODULE HCQRIndexWithCache --------------------------
(***************************************************************************)
(* sserialize::spatial::dgg::HCQRIndexWithCache: threads that query an     *)
(* index through one LFUCache and change its size, all under m_cacheLock,  *)
(* which is held while the base index computes.  complete, items, regions, *)
(* cell and region have the same body and differ in the cache key and in   *)
(* the function of the base index they call: a query is the record of the  *)
(* function (kind), the query type (0 for cell and region) and the string. *)
(***************************************************************************)
EXTENDS Naturals, FiniteSets, Functions

CONSTANTS
    Threads,
    Queries,        \* records [kind, qt, qstr]
    InitialSize,    \* the constructor's argument
    Sizes,          \* arguments of setCacheSize
    MaxCalls,       \* bound: calls of all threads together
    NoThread        \* m_cacheLock is not held

ASSUME CacheAssumption ==
    /\ Queries # {}
    /\ InitialSize \in Nat
    /\ Sizes \subseteq Nat
    /\ MaxCalls \in Nat
    /\ NoThread \notin Threads

VARIABLES
    maxSize,    \* m_cache.m_maxSize
    cache,      \* m_cache.m_cache: from keys to usage and value
    lock,       \* who holds m_cacheLock
    pc,
    query,      \* per thread: the query of its call
    answer,     \* per thread: the result of its last query
    calls,      \* calls so far
    undefined   \* m_cache.erase(end()) was called

vars == <<maxSize, cache, lock, pc, query, answer, calls, undefined>>

-----------------------------------------------------------------------------
(* LFUCache                                                                *)

KeyWithoutKind(q) == [qt |-> q.qt, qstr |-> q.qstr]  \* mutant: one cache for all
CacheKey(q) == q

Count == Cardinality(DOMAIN cache)
NeedsEvictionLate == Count > maxSize                 \* mutant: off by two
NeedsEviction == Count + 1 >= maxSize

\* evict(): some entry with the smallest usage; which one of several depends on
\* the order of the hash table.
Victims == {k \in DOMAIN cache : \A l \in DOMAIN cache : cache[k].usage <= cache[l].usage}

\* insert(): std::unordered_map::insert keeps an entry that is there already.
Inserted(f, key, value) ==
    IF key \in DOMAIN f THEN f
    ELSE [k \in DOMAIN f \cup {key} |->
              IF k = key THEN [usage |-> 0, value |-> value] ELSE f[k]]

FoundTwice(key) == [cache EXCEPT ![key].usage = @ + 2]  \* mutant: counts twice
\* find(): counts the access.
Found(key) == [cache EXCEPT ![key].usage = @ + 1]

\* setSize(): 0 means 1.
AtLeastOne(n) == IF n = 0 THEN 1 ELSE n

-----------------------------------------------------------------------------

Init ==
    /\ maxSize = AtLeastOne(InitialSize)
    /\ cache = [k \in {} |-> 0]
    /\ lock = NoThread
    /\ pc = [t \in Threads |-> "idle"]
    /\ query = [t \in Threads |-> CHOOSE q \in Queries : TRUE]
    /\ answer = query
    /\ calls = 0
    /\ undefined = FALSE

Goes(t, from, to) == pc[t] = from /\ pc' = [pc EXCEPT ![t] = to]
Acquire(t) == lock = NoThread /\ lock' = t
Keep(t) == lock' = lock              \* mutant: the lock is never released
Release(t) == lock' = NoThread
Called == calls < MaxCalls /\ calls' = calls + 1

\* complete(), items(), regions(), cell(), region()
Query(t, q) ==
    /\ Goes(t, "idle", "query")
    /\ Called
    /\ query' = [query EXCEPT ![t] = q]
    /\ UNCHANGED <<maxSize, cache, lock, answer, undefined>>

Lock(t) ==
    /\ Goes(t, "query", "look")
    /\ Acquire(t)
    /\ UNCHANGED <<maxSize, cache, query, answer, calls, undefined>>

Hit(t) ==
    /\ Goes(t, "look", "idle")
    /\ CacheKey(query[t]) \in DOMAIN cache
    /\ answer' = [answer EXCEPT ![t] = cache[CacheKey(query[t])].value]
    /\ cache' = Found(CacheKey(query[t]))
    /\ Release(t)
    /\ UNCHANGED <<maxSize, query, calls, undefined>>

\* The base index answers ...
Miss(t) ==
    /\ Goes(t, "look", "insert")
    /\ CacheKey(query[t]) \notin DOMAIN cache
    /\ answer' = [answer EXCEPT ![t] = query[t]]
    /\ UNCHANGED <<maxSize, cache, lock, query, calls, undefined>>

\* ... or throws, which is its answer then; the lock guard releases the mutex.
BaseThrows(t) ==
    /\ Goes(t, "look", "idle")
    /\ CacheKey(query[t]) \notin DOMAIN cache
    /\ answer' = [answer EXCEPT ![t] = query[t]]
    /\ Release(t)
    /\ UNCHANGED <<maxSize, cache, query, calls, undefined>>

InsertFree(t) ==
    /\ Goes(t, "insert", "idle")
    /\ ~NeedsEviction
    /\ cache' = Inserted(cache, CacheKey(query[t]), answer[t])
    /\ Release(t)
    /\ UNCHANGED <<maxSize, query, answer, calls, undefined>>

\* m_cache.erase(evict()).  Of an empty cache that erases end(), which is
\* undefined; here the insertion then goes through.
InsertEvicting(t) ==
    /\ Goes(t, "insert", "idle")
    /\ NeedsEviction
    /\ \E gone \in IF Count = 0 THEN {{}} ELSE {{k} : k \in Victims} :
          cache' = Inserted(Restrict(cache, DOMAIN cache \ gone),
                            CacheKey(query[t]), answer[t])
    /\ undefined' = (undefined \/ Count = 0)
    /\ Release(t)
    /\ UNCHANGED <<maxSize, query, answer, calls>>

\* setCacheSize()
SetCacheSize(t, n) ==
    /\ Goes(t, "idle", "resize")
    /\ Called
    /\ Acquire(t)
    /\ maxSize' = AtLeastOne(n)
    /\ UNCHANGED <<cache, query, answer, undefined>>

\* The loop ends; its body, evict(), changes nothing.
SetCacheSizeReturn(t) ==
    /\ Goes(t, "resize", "idle")
    /\ Count <= maxSize
    /\ Release(t)
    /\ UNCHANGED <<maxSize, cache, query, answer, calls, undefined>>

Thread(t) ==
    \/ Lock(t) \/ Hit(t) \/ Miss(t) \/ BaseThrows(t)
    \/ InsertFree(t) \/ InsertEvicting(t) \/ SetCacheSizeReturn(t)

Call(t) ==
    \/ \E q \in Queries : Query(t, q)
    \/ \E n \in Sizes : SetCacheSize(t, n)

Next == \E t \in Threads : Thread(t) \/ Call(t)

Spec == Init /\ [][Next]_vars

\* A thread inside a call goes on.
FairSpec == Spec /\ \A t \in Threads : WF_vars(Thread(t))

-----------------------------------------------------------------------------
(* Properties                                                              *)

\* The type of every variable.
TypeOK ==
    /\ maxSize \in Nat \ {0}
    /\ \A k \in DOMAIN cache : cache[k].usage \in 0..MaxCalls
    /\ lock \in Threads \cup {NoThread}
    /\ pc \in [Threads -> {"idle", "query", "look", "insert", "resize"}]
    /\ query \in [Threads -> Queries] /\ answer \in [Threads -> Queries]
    /\ calls \in 0..MaxCalls
    /\ undefined \in BOOLEAN

\* Whoever asks gets the answer of the base index to that very question, no
\* matter what other threads asked, evicted or resized meanwhile.
AnswersRight == \A t \in Threads : pc[t] = "idle" => answer[t] = query[t]

\* The cache never holds more than it was told to, however calls interleave, but
\* for the time setCacheSize() is in its loop with the mutex held.
Within == Count <= maxSize
Resizing == \E t \in Threads : pc[t] = "resize"
Bounded == Resizing \/ Within

\* Every call returns, also one that meets an exception of the base index or a
\* resize, unless a setCacheSize() has been told a size below the number of entries:
\* the loop of LFUCache.h:45 never ends then and the mutex is never released.
ShrinkStuck == Resizing /\ ~Within
CallsReturn == \A t \in Threads : pc[t] # "idle" ~> (pc[t] = "idle" \/ ShrinkStuck)
=============================================================================
