# TLA+ models of sserialize

sserialize is a C++ library of serialized data structures: big indexes are
built once, usually by many threads, written through `UByteArrayAdapter`, and
afterwards read in place. Most readers are immutable. What can go wrong is in
the code that builds: threads that share a queue, a storage that grows under
them, counters, caches. This directory models that code, checks the models with
TLC and proves what matters most with TLAPS.

`PROJECT.json` lists components, runs, mutants, findings, hazards and theorems,
and maps every definition to source lines.

## Inventory

| Component | State | Operations | What is hard | What makes it correct |
|---|---|---|---|---|
| `ThreadPool` (`mt/`) | task queue and number of running tasks (`m_qi`), number of running threads, online flag, thread vector | `sheduleTask`, `flushQueue`, `numThreads`, constructor, destructor, worker loop | two condition variables shared by waiters with different conditions, notifications after unlock, `stop`/`start` on one object | each task runs once; a flush that returns found its tasks executed; nobody sleeps forever; the destructor leaves no thread |
| `ThreadPool::execute`, `map` | iterators and mutex on the caller's stack | spawn, take an element, join | iterators shared without copies, stack lifetime, thread count 0 | each element is called once; no thread outlives the call |
| `ItemIndexFactory` | next id and offset, hash table, byte storage, auxiliary arrays, three locks | `insert`, `addIndex`, `recalculateDeduplicationData`, `flush` | no lock spans the parts of `addIndex`; growing moves the bytes; arrays are reached out of order | bytes stay, ids are unique per content, what is flushed is what was added |
| `HCQRIndexWithCache`, `LFUCache` | cached results with usage, maximal size, one mutex | five query functions, `setCacheSize` | one key space for five functions, size limits of 1, shrinking, base index that throws | answers are the base index's, the bound holds, calls return |
| `oom_sort`, `oom_unique` | chunk list, worker balance, double buffers, flush queue | sort chunks, pause and resume workers, merge rounds, flush | three kinds of threads, four condition variables, counters under different locks | result sorted and complete, every thread ends |
| Reference counting | counter with flag bit per object, cached flag per handle | inc, dec, enable, disable | stale cached flag, last release | deleted exactly once, after the last use |
| Chunked/compressed mapped files, direct caches | chunk to memory map, free slots, access times | `data`, `read`, `resize`, `setCacheCount` | eviction at the limit, slots in use when the cache is resized | a pointer shows the chunk asked for |
| Hash tables, tries, union-find | tables, nodes, ranks | insert, rehash, append, unite | rehash while inserting, block tasks that outlive their barrier | the map/set/partition they stand for |
| `ItemIndex` encodings, `SortedOffsetIndex`, packing, bit arrays | immutable after creation | create, decode, set operations | boundaries of word and block sizes | decoding inverts encoding; set operations are those of sets |
| Cell query results, dilator, completers, hierarchies, grids, geometry | immutable inputs, result trees | set operations, flatten, search | algebra of full/partial/fetched cells; floating point | results equal the plain set semantics |

How they interact: `ItemIndexFactory::insert`, the cell query results, the
dilator and the index statistics run their worker objects through
`ThreadPool::execute`; `HashBasedFlatTrie::append` puts its block tasks into a
`ThreadPool` object; `OOMCTCValueStore` uses
`oom_sort`; all of them write through `UByteArrayAdapter`, whose storage may be
a mapped, chunked or compressed file; `HCQRIndexWithCache` wraps any
`HCQRIndex` and is called by concurrent queries.

## Modules

| Module | Models | Remarks |
|---|---|---|
| `WorkQueue` | what clients of a pool rely on | abstract; refined by `ThreadPool` |
| `ThreadPool` | `src/mt/ThreadPool.cpp`, `GuardedVariable.h` | workers, clients, one owner |
| `ThreadPoolProofs` | | invariance and refinement proofs |
| `MCThreadPool` | | symmetry for TLC |
| `ParallelMap` | `ThreadPool::execute`, `ThreadPool::map` | checked as it is |
| `ParallelMapProofs` | | invariance proof |
| `ItemIndexFactory` | `src/containers/ItemIndexFactory.cpp` | threads of `insert`, owner |
| `ItemIndexFactoryProofs` | | invariance proof |
| `MCItemIndexFactory` | | three serialized indexes, symmetry |
| `HCQRIndexWithCache` | `src/spatial/dgg/HCQRIndexWithCache.cpp`, `LFUCache.h` | |
| `HCQRIndexWithCacheProofs` | | invariance proof |
| `MCHCQRIndexWithCache` | | five questions |
| `OomSort` | `algorithm/oom_algorithm.h` | chunk workers, producers, main thread, writers |
| `OomSortProofs` | | invariance proofs: the workers of the chunk phase, the whole sort |
| `MCOomSort` | | the calls of `oom_sort` that are checked |
| `ItemIndexSets` | `ItemIndexPrivate.h/.cpp`, the reduction trees of `ItemIndex.cpp`, `maxSize` of `ItemIndexPrivateNative` | generic set operations, `find`; the two index variables the encodings share |
| `ItemIndexSetsProofs` | | merging, searching, trees |
| `Induction` | | induction, recursion and sums over data, for the proofs |
| `ItemIndexRleDE`, `ItemIndexWAH` | `ItemIndexPrivateRleDE`, `ItemIndexPrivateWAH` | run length encodings, set operations on runs and words |
| `ItemIndexFoR` | `ItemIndexPrivateFoR`, `ItemIndexPrivatePFoR` | blocks, outliers, the optimizers |
| `ItemIndexPlain` | `ItemIndexPrivateDE`, `EliasFano`, `Simple`, `RegLine`, `Native` | |
| `Packing` | bit and byte widths of numbers | used by the encodings |
| `MCItemIndex` | | all pairs of sets of ids |
| `CellQueryResult` | `spatial/CellQueryResult{,Private}.cpp` | operators |
| `TreedCQR` | `spatial/TreedCQR{,Imp}.cpp` | operators |
| `CellQueryEvaluation` | `toCQR`, `flaten` and their callers | composes the two; threads |
| `CellQueryEvaluationProofs` | | the threads of `toCQR` and `flaten` |
| `MCCellQuery` | | four cells, six results of the index |

Mutants used to show that a property has teeth stand next to the definition
they replace and are marked `mutant`.

### ThreadPool

The variables follow the members: `q` and `runningTasks` are the guarded value
`m_qi`, `runningThreads` is `m_runningThreads`, `online` is `m_online`,
`threads` the size of `m_threads`; `qiLock` and `rtLock` are the mutexes of the
two guarded variables as far as somebody keeps them over more than one step.
`wpc`, `cpc` and `opc` are the program counters of workers, clients and the
owner. A worker's loop is cut where it takes or gives up a mutex: lock, test,
wait, wake up, take a task, run it, decrement, notify. `notify_one` picks any
thread in the wait set of the condition variable, worker or client, because
`m_qi` has one condition variable for both; `notify_all` wakes them all. Waits may return spuriously (`MaxSpurious` times). `scheduled`,
`executed`, `flushing` are history. The owner constructs the pool, may call
`numThreads` (`MaxResizes` times) and destroys it; clients do not call into the
pool once it is being destroyed, as the language demands of them.

### ParallelMap

The caller resolves a thread count of 0, runs the task itself when the count is
1, otherwise spawns and joins. The task copies the iterator and advances it in
two steps under the mutex, so that the mutex is what keeps elements from being
called twice. A task that throws, and a `std::thread` that cannot be created,
end the program (`std::terminate`) and are left out.

### ItemIndexFactory

Each thread of `insert` fetches a position of the source and goes through
`addIndex`: look up the hash (`m_metaDataLock`; a thread that finds nothing, `Lookup`, owns the
lock until it has entered its id in a second step, `Reserve`, so that a missing lock
would give one content two ids), unlocked size test, second test and
growth (`m_dataGrowLock` exclusive), put (shared), auxiliary arrays
(`m_auxDataLock`). Growth is two steps, begin and end: what is put into the old
storage between them is lost, so the model would show a missing lock. The store
is a sequence of bytes, a byte is the pair of an index and a position in it; so
overlaps and misplaced ranges are visible. `recalculateDeduplicationData` hashes the range each id has
according to the auxiliary arrays, with the wrap-around of `dataSizeById`; it is one
step, because it has no caller while threads add, and the run takes it only without
deduplication (finding 11).
`flush` cuts the arrays to the number of ids. The hit counter, the types array
of mixed encodings (treated like sizes) and the text output are left out. SHA is
taken to be free of collisions.

### HCQRIndexWithCache

A question is the function called, the query type and the string; the five
query functions have the same body. The base index answers a question with the question itself,
or throws. `std::unordered_map` decides which of several least used entries
goes: any. Erasing `end()` is undefined; the model records it (`undefined`) and
lets the insertion go through. `setSize` evicts without erasing: a shrink below the
number of entries never ends (`ShrinkStuck`), and the model stays in it, with the mutex.

### OomSort

One behaviour is one call of `oom_sort`. The chunk phase has the worker loop:
claim a chunk under `wbi.mtx`, fetch and sort it, write it back, pause if nobody
needs it. The merge phase is the main thread's loop over rounds and groups, one
producer per `PreQueue`, and the `FlushQueue`. Critical sections are single
steps where every change of a waiting condition is made under the lock and
notified; `FlushQueue` is cut finer, since `m_running` is cleared without
`m_lock` and `m_pendingFlushSize` is changed under two different locks (read and
write of the decrement are two steps). Sizes are counted in entries and are
constants; the memory budget that yields them is not modelled. `m_pendingFlushSize`
wraps at `Wrap`. What `std::sort` and `std::unique` return is stated by the rank of
an entry, and the fill of a `PreQueue` is a recursive function of the number of
entries still wanted, both so that they can be reasoned about. A group of one thread is
merged by the code's loop: the least value is taken and pushed back unless it equals
the last one (`PushedBack`); that the heap yields the values in ascending order is
taken from the fill. After a round the entries are moved back to the source; the
specialization of that for two `OOMArray`s of the same memory type, which
exchanges the whole containers, is not modelled.

### Item indexes

Encoders and decoders are operators over sequences of ids; bytes and words are
records and small sets. `ItemIndexSets` has the two variables `first` and
`second`, ascending sequences that grow by `PushFirst` and `PushSecond` up to
`MaxId`; the properties of all encodings are invariants of that machine, so that TLC
visits every pair of sets. Each decoder is translated from the code that reads,
independently of the encoder. Widths are small: `WordBits` bits in a WAH word,
`ByteBits` in a byte of the packed numbers, blocks of 1, 2 or 4 ids, so that
every kind of boundary lies below `MaxId`. `RegLine`'s fitted line is
floating point; the line is any of `Lines`, because the encoding has to be right for
every line.

### Cell query results

An entry of a `CellQueryResult` has a slot that is an id or, if the entry is
fetched, an index; for a full match it is memory that nobody wrote (`Mem`). Where
`diff` and `symDiff` compare such a slot with another (`UnwrittenCells`), the
comparison may come out either way: `Apply` chooses the set of cells in which the
two are found equal.
`TreedCQR` keeps the trees in one sequence in prefix order with the offsets of
the code. `CellQueryEvaluation` is a caller with an operand stack: it pushes
results of the index, applies operators to both representations, fetches,
removes empty cells, converts between global and local ids; next to both it
carries what the expression means, computed on plain sets. Then the threads of
`toCQR` evaluate the treed result and the threads of `flaten` collect the items. The limit of
1000 cells and 10 blocks per thread are the constants `ParallelCells` and
`BlocksPerThread`. The caller may keep the empty cells of
`toCQR` (`keepEmpty`), and a progress function may end the sequential one after any
cell. Two faults of the code make a cell's value arbitrary: the comparison above, and
the mark of a fetched full match that `removeEmpty` and the conversions copy
without its index. `lost` and `tlost` name the cells that one of them has struck in the
direct and in the treed result; the properties speak of all other cells of the same
results. An operator with an empty right operand is modelled as it behaves without
assertions (`flagCheck` refuses it in debug builds).

## Runs

| Run | Expectation | What it shows |
|---|---|---|
| `pool_safety` | pass | two clients, three tasks, a pool that starts empty and is given two threads: tasks run once, flushes are honest, destruction is complete |
| `pool_live` | pass | one client, a pool that starts empty and is given two threads by `numThreads` (`stop`, then `start`): every stop and start returns, with threads also every flush, and every task gets its turn; no deadlock, and the pool implements `WorkQueue` |
| `pool_flush_hangs` | violation | with two clients a flusher can take the notification meant for a worker; both sleep forever |
| `map_calls` | pass | thread counts 3, 1 and 0 (two hardware threads), three elements: exactly one call each, nobody left, `map` returns |
| `factory` | pass | two threads, all sources of three indexes out of three contents, with and without deduplication; storage grows by two bytes, arrays by one entry; `insert` ends |
| `cache_queries` | pass | two threads, five questions, six calls, sizes 2 to 4: right answers, bound kept, calls return unless a shrink hangs |
| `oom_sort` | pass | eleven calls with up to three threads: two merge rounds, duplicates everywhere, io locks on and off; the result is the sorted source, writers never overlap, never do all workers pause |
| `oom_submit_hangs` | violation | the pending size loses an update, wraps, and `flush` waits forever |
| `item_indexes` | pass | all pairs of sets of ids below 6: each encoding is read as written, operations on encoded data are those of sets |
| `pfor_low` | violation | a PFoR index with first id 0 made with `CL_LOW` cannot be read |
| `results` | pass | expressions over up to three results and two further calls; direct, treed, parallel and flattened results agree with the meaning in every cell not in `lost` or `tlost` |
| `treed_stale_index` | violation | the sequential `toCQR` gives an empty cell the items of the cell before it |

Bounds. Two workers and two clients bring about every race between two threads
of the pool, the third task makes the queue hold work while both workers run;
the proofs cover every number of them. Two threads in the factory give a grower and
a putter at once, in either order of ids; lengths 1, 2, 3 against a growth step of 2
give growth by exactly the need, by less and by more, and ranges that
end at the end of the storage. In the cache, sizes 2 to 4 and five
questions, for each of the three parts of the key two that differ in it alone, fill the
cache, evict, shrink it to exactly its contents and below them; a size of 1 is left out
because there the behaviour is undefined (finding 7). The auxiliary
arrays grow by 4096 in the code, by 1 here, so that growing happens. In `OomSort` chunks of two entries, two chunks per
group and buffers of one entry make every buffer run full and empty and need two
rounds for six entries. Ids below 6 with words of two bits give runs of words,
gaps over several words and indexes that end on a boundary. Three results per
expression make a tree of a tree; trees are moved behind trees; two threads
share three cells.

`pool_safety` and `cache_queries` do not check deadlock: clients need not call
anything, a client may flush a pool that nobody ever gives a thread, and a shrink of
the cache may hang.
`item_indexes` and `results` end at their bounds. `oom_sort` may really stop:
`flush` can wait for room forever and `~FlushQueue` can notify before a writer
waits (findings 2 and 8).
Everywhere else a state without successor would be reported.

Fairness. Weak fairness of each thread's steps inside a function: the scheduler
runs every runnable thread. Nobody is obliged to call a function, to wake
spuriously or to get a mutex that others keep taking: in `ParallelMap` and the
factory a thread can be overtaken only finitely often.

## What is proved

`ThreadPoolProofs` holds for any number of workers, clients and tasks, under
`PoolAssumption`. The invariant `IInv` adds to the types: the queue mutex
belongs to exactly the worker between lock and unlock (`LockInv`); threads
beyond the vector do not exist (`SpawnInv`); the two counters equal the numbers
of workers they are meant to count (`CountInv`, with cardinalities); a worker
holds a task exactly when it is about to run it (`HoldInv`); what a flush waits
for was scheduled (`FlushInv`). `ExactlyOnce` alone is not inductive, since it
does not say that a worker about to run has a task; the flush needs `CountInv`, since the code
concludes from a zero counter that nobody runs anything.

- `TypeCorrect`: `TypeOK`; no counter underflows.
- `TasksExactlyOnce`: `ExactlyOnce`.
- `FlushCorrect`: the action property `FlushMeansExecuted`.
- `DestroyedIsQuiescent`: `DestroyedQuiescent`. Besides
  `IInv` it needs that a worker that was joined takes no step and that the mutex
  of `m_runningThreads` is free once the destructor has returned (`QuietInv`).
- `Refinement`: the pool implements `WorkQueue` (`ImplementsWorkQueue`).

`ParallelMapProofs` holds for any range, thread count and machine under
`MapAssumption`. The invariant splits the range at the iterator: behind it
every element was called or is in the hands of exactly one thread, in front of
it none was touched; it needs that the holder of the mutex has an up to date
copy, and that a thread ends only at the end of the range.

- `TypeCorrect`: `TypeOK`, so no element is ever called twice.
- `NoThreadLeft`: `NoneLeft`.
- `MapExactlyOnce`: `ExactlyOnce`, assuming `HardwareConcurrency > 0`; finding 6
  shows that the assumption is needed.

`ItemIndexFactoryProofs` holds for any number of threads, any contents and
lengths, and any growth steps under `FactoryAssumption`, also with
recalculations at any time. The properties are not inductive; `IInv` says how the factory
keeps them: reserved ranges lie one after the other and end at `m_dataOffset`
(`RangeInv`); whoever is between reserving and the auxiliary arrays has an id
and a range of its own (`FlightInv`) and an entry of the source of its own
(`SourceInv`); the thread that grows excludes those that put, and what it copies
to is large enough and equal as far as the old storage goes (`GrowInv`); from
the size test on the storage covers the range (`CoverInv`), since it never
shrinks; the arrays hold the offsets of all ids whose threads are through
(`AuxInv`); hash and ids agree until the hash is replaced (`HashInv`,
`DedupInv`); what `insert` returns is the id of an equal content (`ResultInv`). `MetaInv`:
only one thread is between look-up and entry, which is why what it read still holds.

- `TypeCorrect`: `TypeOK`. `BytesIntact`: `DataIntact`. `RangesCovered`: `NoRangeError`.
- `ContentsUnique`: `IdsUnique` as long as nobody has recalculated; finding 11 is
  why.
- `FlushFaithful`: `FlushedFaithful` if at least one thread inserts and, with
  deduplication on, nobody recalculated: the same exception.

`HCQRIndexWithCacheProofs` holds for any number of threads, questions, calls and
sizes under `CacheAssumption`. `IInv`: the mutex belongs to the thread in the
critical section; what the cache holds under a key is that key's answer; a thread
about to insert has the answer to its own question; an access is counted at
most once per call that has not got past its look-up; the bound.

- `TypeCorrect`: `TypeOK`. `AnswersCorrect`: `AnswersRight`.
- `CacheBounded`: `Bounded`, the size is exceeded only while `setCacheSize` holds the
  mutex and is still shrinking (where, by finding 7, it may stay).
- `VictimExists`: if no size is 1, no insertion erases `end()` (`EvictHasVictim`, defined
  with the proof: with the run's sizes it would say nothing); finding 7 shows that the
  hypothesis is needed.

`OomSortProofs` holds for any source, any number of threads and any size of chunks,
queues and buffers, under `OomAssumption` (none of the sizes is 0).

- `NeverAllAsleep`: `SomeoneAwake`. A worker pauses only if three are not paused, so
  two always remain (`PauseInv`); these two may leave, but the first one to
  leave wakes all sleepers, and nobody pauses once the source is exhausted
  (`ExitInv`). `PauseInv` alone does not suffice, `ExitInv` alone neither.
- `MergeInvariance`: the inductive invariant `MInv` of the whole sort. That an array
  is large enough, and that nothing is written twice, is a matter of counting, so
  `MInv` counts entries, with sums over chunks and over queues. In the chunk phase what is
  counted in `state.resultSize` is the size of the chunks written back, and all chunks
  together are no larger than what was claimed (`CountedInv`). In the merge what is placed
  in the temporary array, what the `PreQueue`s hold in their two buffers, their value and the
  rest of their chunks, and what is left for the groups to come never exceed
  `resultSize`, the length of the array (`GroupInv`, `QueueInv`; with `makeUnique`
  they shrink, hence no equality). A flush never submits an empty buffer: the first queue
  has a value before the loop starts, and the loop flushes only after it has put a value
  into the buffer (`PrimeInv`, `FlowInv`). Entries are queued in the order
  of their places and whoever writes, writes in front of all of them (`RangeInv`); every place
  below `m_offset` is written, queued or being written (`WrittenInv`), so that the
  array holds values only when the writers have been joined, and the chunk of the next round is
  not empty (`BaseInv`).
- `TypeCorrect`: `TypeOK`; in particular no chunk reaches beyond the source, and
  the temporary array is never longer than it.
- `WritersApart`: `WritesDisjoint`.

`CellQueryEvaluationProofs` holds for any number of threads, cells and blocks under
`EvaluationAssumption`. Its theorems have the hypothesis `[]ArraySource`: the
number of cells of the result that is evaluated is a natural number. That result is built by folds,
about which the prover knows nothing; TLC evaluates the number in every run. `IInv` follows the
phases. In `toCQR`: blocks that are worked on are pairwise disjoint and below the
counter (`ClaimInv`), a claimed cell that nobody works on has its entry (`DoneInv`),
and the empty cells are divided among the common counter and the counters of the threads
that have not gone (`CountInv`, which asserts the existence of the division). In
`flaten`: every item of a cell fetched so far is in the set of a thread or
in the one set that waits, and as long as none waits somebody has not gone (`FlatInv`).

- `ParallelEvaluation`: `EvaluatedOnce`, every cell is evaluated once with an index
  of its own and the empty ones are counted exactly.
- `BufferFits`: `CountFits`, the first half of `ParallelRight`.
- `FlattenCorrect`: `FlattenRight`.

`ItemIndexSetsProofs` holds for ids and indexes of any size. The only invariant of the machine
is that its two indexes ascend (`IndexesInv`); the theorems are about the algorithms. A
merge that has read up to two positions yields, ascending, exactly the ids
from there on that the flags of the operation select, and not more of them than are left to
be read: induction over the number of ids left. The binary search keeps the id, if it is
there, between its two bounds, and the bounds approach each other. A tree of
indexes is split in the middle until one index is left; the two halves are right by induction, and the
operations are those of sets on what they enumerate.

- `MergeAndFindCorrect`: `GenericRight`.
- `NativeMemoryFits`: `NativeFits`.
- `AllTreesCorrect`: `intersect` and `unite` of any number of indexes, empty ones among
  them; `TreesCorrect`: `TreesRight`, its instances that the run checks.

`Induction` is what these two rest on. The library's induction theorems take an operator as
a parameter, which the provers cannot instantiate; here a property is the set of
the numbers that have it (`NatStrong`), and a recursive definition is the function from a
point and a candidate to the value it demands (`RankedRecursion`). A sum over a finite
set is the number of pairs of an element and a unit of it (`Total`), so that sums
are added, split and compared with the theorems about cardinalities.

Each inductive invariant was checked by TLC on the instance of the component's run before it was
proved (`CountInv` and the like are evaluated by enumeration).

Only model-checked, and why:

- all liveness: outside this prover;
- `DirectRight`, `TreedRight` and the second half of `ParallelRight` say what
  folds over cells and over trees in prefix order compute;
- `ResultSorted` and `ChunksHoldSource` of `OomSort`: they need, beyond `MInv`, the
  multiset of the entries and the order of every buffer, of the values and of the parts
  that are queued, and equality where `MInv` has a bound;
- `PlainRight`, `RleRight`, `WahRight` and `BlocksRoundTrip`: the encodings are written with
  recursive operators, which take the prover its SMT solver.

## Findings

Shown by a run:

1. `sheduleTask` wakes one waiter of `m_qi`, which may be a flusher: a task stays in the queue,
   worker and flusher sleep. It takes two clients (`pool_flush_hangs`).
2. `FlushQueue` changes `m_pendingFlushSize` under two locks; a lost update lets
   `flush` wait forever (`oom_submit_hangs`).
3. PFoR with `OO_FOR` (`CL_LOW`) writes a first id 0 as the mark of an outlier
   (`pfor_low`); `OO_NONE` takes the same branch and is not in the run.
4. `flattenCell` reports a fetched index without setting it for `allToFull` of
   an empty union; the sequential `toCQR` takes the previous cell's
   (`treed_stale_index`).

Met in the models, reproduced by other constants or properties:

5. `numThreads(n)` on a pool that has threads hangs: `stop` leaves the joined
   threads in `m_threads`, and `start` waits until as many threads run as the
   vector has elements (`ThreadPool`, `InitialThreads = 1`, `ResizeTo = {1, 2}`:
   `StartReturns` fails).
6. `map` without thread count calls nothing if `hardware_concurrency()` is 0
   (`ParallelMap`, `Length = 2`, `ThreadCounts = {0}`, `HardwareConcurrency = 0`,
   `MaxThreads = 1`: `ExactlyOnce` fails).
7. `LFUCache::insert` erases `end()` when the maximal size is 1, which is also what
   `setSize(0)` sets (`InitialSize = 1`: `undefined` becomes true at the first
   insertion), and `setSize` does not erase what it evicts and never ends: `cache_queries`
   reaches it, and without `ShrinkStuck` on its right-hand side `CallsReturn` fails.
8. `~FlushQueue` clears `m_running` and notifies without `m_lock`: a writer
   between test and wait is never woken (a writer `asleep` while the main thread is
   at `join` is reachable; with deadlock checked, `oom_sort` stops at finding 2 first).
9. The copy of an Elias-Fano iterator forgets its base value, so `putInto` after
   `at` gives wrong ids (`PutIntoRight` in `ItemIndexPlain`).
10. `diff` and `symDiff` of cell query results compare the uninitialised slot of a
    full match and may drop the cell; `removeEmpty` and the conversions copy the mark
    of a fetched full match without its index. Both happen in `results`; if the
    cells they strike are left in `DirectRight` (`lost` empty), it fails. `hasHits`
    is true for the union of two empty cells.
11. `recalculateDeduplicationData` during `addIndex` can meet a hash twice,
    against its own assertion; it is called by nobody while threads add.

## Not modelled

Components with status `not_modelled` in `PROJECT.json`, with reasons there:
readers of immutable data and output have no state to check; geometry is
floating point; parsers are generated. Weak memory is not modelled: the code's
relaxed atomics are counters whose value alone matters, and everything else is
under mutexes. Unlocked reads (the size test of the factory, the arrays in the
recalculation) are single steps that see any interleaving of the writes.

Left out of modelled components: the threads of the conversions between global
and local ids (one shared counter, a slot per cell, as in `flaten`), `topK` and
the reduction of `flaten` for few cells, `oom_unique`, the exchange of `OOMArray`s after a
round of `oom_sort`, `fusedIntersectDifference`
of WAH (no caller), the text output of all of them. Further places that deserve a
look but no model: a cache count of 0 in `ChunkedMmappedFile`, the random victim
of `RandomCache` modulo an empty cache, `normalizeTime` of `DirectLRUCache`, the
usage counter of `LFUCache` after 2^32 hits, `queueSize()` without the mutex.

## Plan

1. Proofs: that the merge of `OomSort` loses nothing (`ResultSorted`), from `MInv` and
   the multiset of the entries; the encodings with recursive functions instead of
   recursive operators; the cell by cell algebra of `CellQueryResult` (each operation on one
   cell is the operation on its items).
2. `RefCount`: handles in several threads, enabling and disabling; deleted
   exactly once.
3. `ChunkCache`: chunked and compressed mapped files over the direct caches; a
   pointer shows the chunk asked for, slots are never shared.
4. `OADHashTable`, `UnionFind`, parallel `append` of `HashBasedFlatTrie`.
5. Operators with reference definitions: `SortedOffsetIndex`, the variable length
   integers of `pack_unpack_functions`.
