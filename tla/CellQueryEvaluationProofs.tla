----------------------- MODULE CellQueryEvaluationProofs -----------------------
(***************************************************************************)
(* Proofs about the threads of toCQR() and flaten(): every cell is         *)
(* evaluated exactly once, the empty cells are counted exactly, and the    *)
(* pairwise merging of the bit sets ends with one set that has all items.  *)
(* They hold for any number of threads, cells and blocks.                  *)
(***************************************************************************)
EXTENDS CellQueryEvaluation, TLAPS, FiniteSetTheorems

-----------------------------------------------------------------------------
(* The inductive invariant                                                 *)

\* The cells of the result that is evaluated form an array, m_desc.
ArraySource == phase = "toCQR" => Count \in Nat

\* Before toCQR() is called none of its threads has done anything.
RestInv == pos = 0 /\ empties = 0 /\ merged = <<>> /\ th = [w \in Threads |-> Idle]

ThreadRecords(pcs, items) ==
    [pc : pcs, at : Nat, end : Nat, block : Nat, empties : Nat, set : SUBSET items]

\* The cells a thread of toCQR() has claimed and not evaluated yet
Busy(w) == {i \in 1 .. Count : th[w].pc = "cells" /\ th[w].at < i /\ i <= th[w].end}
Past == {i \in 1 .. Count : i <= pos /\ \A w \in Threads : i \notin Busy(w)}
Outcome(i) == Evaluated(Source, Source.desc[i], {}, Mem)
EmptyPast == {i \in Past : Outcome(i).empty}

EvalTypes ==
    /\ Count \in Nat /\ pos \in Nat /\ empties \in Nat /\ merged = <<>>
    /\ th \in [Threads -> ThreadRecords({"claim", "add", "cells", "end", "gone"}, {})]
    /\ dest = [flags |-> Source.flags, cells |-> [i \in 1 .. Count |-> dest.cells[i]]]

\* Claimed blocks are below the counter and no two threads have a cell in common;
\* nobody leaves before all cells are claimed.
ClaimInv ==
    /\ \A w \in Threads : th[w].pc = "add" => th[w].block # 0
    /\ \A w \in Threads : th[w].pc = "cells" =>
          th[w].at < th[w].end /\ th[w].end <= Count /\ th[w].end <= pos
    /\ \A v, w \in Threads : v # w => Busy(v) \cap Busy(w) = {}
    /\ \A w \in Threads : th[w].pc \in {"end", "gone"} => Count <= pos

\* Every cell that is claimed and that nobody works on any more has been evaluated.
DoneInv == \A i \in Past : dest.cells[i] = Outcome(i).entry

\* The empty cells evaluated so far are shared out: some are in the common counter,
\* the others in the counter of one thread each.
Shares(counted, by) ==
    /\ empties = Cardinality(counted)
    /\ \A w \in Threads : IF th[w].pc = "gone" THEN by[w] = {}
                          ELSE th[w].empties = Cardinality(by[w])
    /\ \A w \in Threads : by[w] \cap counted = {}
    /\ \A v, w \in Threads : v # w => by[v] \cap by[w] = {}
    /\ \A i \in EmptyPast : i \in counted \/ \E w \in Threads : i \in by[w]
CountInv == \E counted \in SUBSET EmptyPast, by \in [Threads -> SUBSET EmptyPast] : Shares(counted, by)

EvalInv == EvalTypes /\ ClaimInv /\ DoneInv /\ CountInv

\* flaten(): the items of the cells fetched so far are in the set of a thread or in the
\* one that waits to be merged; until such a set is left behind somebody is there.
Items(i) == ItemsOf(dest.flags, dest.cells[i])
All == UNION {Items(i) : i \in DOMAIN dest.cells}
FlatInv ==
    /\ pos \in Nat /\ Len(dest.cells) \in Nat
    /\ dest.cells = [i \in 1 .. Len(dest.cells) |-> dest.cells[i]]
    /\ th \in [Threads -> ThreadRecords({"claim", "merge", "gone"}, All)]
    /\ merged = <<>> \/ \E s \in SUBSET All : merged = <<s>>
    /\ merged = <<>> => \E w \in Threads : th[w].pc # "gone"
    /\ \A w \in Threads : th[w].pc # "claim" => Len(dest.cells) <= pos
    /\ \A w \in Threads : th[w].pc = "gone" => th[w].set = {}
    /\ \A i \in DOMAIN dest.cells : i <= pos =>
          \A x \in Items(i) : (\E w \in Threads : x \in th[w].set) \/ (merged # <<>> /\ x \in merged[1])

IInv ==
    /\ phase \in {"build", "toCQR", "flaten", "done"}
    /\ phase = "build" => RestInv
    /\ phase = "toCQR" => EvalInv
    /\ phase = "flaten" => FlatInv

-----------------------------------------------------------------------------
(* Facts about the operators                                               *)

LEMMA ArrayLen == ASSUME NEW n \in Nat, NEW f, f = [i \in 1 .. n |-> f[i]]
                  PROVE  DOMAIN f = 1 .. n /\ Len(f) = n
<1> DEFINE V == {f[i] : i \in 1 .. n}
<1>1. f \in [1 .. n -> V]
  OBVIOUS
<1> HIDE DEF V
<1>2. f \in Seq(V)
  BY <1>1
<1> QED
  BY <1>1, <1>2

LEMMA BlockSizeNat == ASSUME NEW left \in Nat PROVE BlockSize(left) \in Nat \ {0}
<1>1. Cardinality(Threads) \in Nat \ {0}
  BY EvaluationAssumption, FS_CardinalityType, FS_EmptySet
<1> DEFINE d == Cardinality(Threads) * BlocksPerThread
<1>2. d \in Nat \ {0}
  BY <1>1, EvaluationAssumption
<1> HIDE DEF d
<1>3. left \div d \in Int
  BY <1>2
<1> DEFINE per == left \div d
<1>4. BlockSize(left) = IF per > 1 THEN per ELSE 1
  BY DEF BlockSize, d
<1>5. per \in Int
  BY <1>3
<1> HIDE DEF per
<1> QED
  BY <1>4, <1>5

\* toCQR() works on the same result all the time.
LEMMA SameSource == ASSUME UNCHANGED stack
                    PROVE  Count' = Count /\ \A i : Outcome(i)' = Outcome(i)
  BY DEF Count, Source, Outcome

-----------------------------------------------------------------------------
(* flaten()                                                                *)

LEMMA CollectStep ==
    ASSUME FlatInv, NEW w \in Threads, Collect(w)
    PROVE  FlatInv'
<1> DEFINE L == Len(dest.cells)
<1>1. /\ UNCHANGED <<dest, merged>> /\ pos' = pos + 1 /\ pos \in Nat /\ L \in Nat
      /\ DOMAIN dest.cells = 1 .. L
  BY DEF Collect, FlatInv
<1>2. All' = All /\ \A i : Items(i)' = Items(i)
  BY <1>1 DEF All, Items
<1>3. th[w] \in ThreadRecords({"claim", "merge", "gone"}, All) /\ DOMAIN th = Threads
      /\ th[w].pc = "claim"
  BY DEF FlatInv, Collect
<1>4. CASE pos >= L
  <2>1. th' = [th EXCEPT ![w] = [@ EXCEPT !.pc = "merge"]]
    BY <1>4 DEF Collect
  <2>2. /\ th'[w] \in ThreadRecords({"claim", "merge", "gone"}, All)
        /\ th'[w].pc = "merge" /\ th'[w].set = th[w].set
    BY <2>1, <1>3 DEF ThreadRecords
  <2>3. \A u \in Threads : u # w => th'[u] = th[u]
    BY <2>1, <1>3
  <2>4. th' \in [Threads -> ThreadRecords({"claim", "merge", "gone"}, All)]
    BY <2>1, <2>2, <1>3 DEF FlatInv
  <2>5. \A u \in Threads : th'[u].set = th[u].set /\ (th'[u].pc = "gone" <=> th[u].pc = "gone")
    BY <2>2, <2>3, <1>3
  <2>6. \A i \in DOMAIN dest.cells : i <= pos
    BY <1>1, <1>4
  <2>7. \A i \in DOMAIN dest.cells : \A x \in Items(i) :
            (\E u \in Threads : x \in th'[u].set) \/ (merged # <<>> /\ x \in merged[1])
    BY <2>5, <2>6 DEF FlatInv
  <2>8. \A u \in Threads : Len(dest.cells) <= pos + 1
    BY <1>4, <1>1
  <2>9. merged = <<>> => \E u \in Threads : th'[u].pc # "gone"
    BY <2>5 DEF FlatInv
  <2>10. \A u \in Threads : th'[u].pc = "gone" => th'[u].set = {}
    BY <2>5 DEF FlatInv
  <2> QED
    BY <1>1, <1>2, <2>4, <2>7, <2>8, <2>9, <2>10 DEF FlatInv
<1>5. CASE ~(pos >= L)
  <2>1. th' = [th EXCEPT ![w] = [th[w] EXCEPT !.set = th[w].set \cup Items(pos + 1)]]
    BY <1>5 DEF Collect, Items
  <2>2. pos + 1 \in DOMAIN dest.cells
    BY <1>5, <1>1
  <2>3. Items(pos + 1) \subseteq All
    BY <2>2 DEF All
  <2>4. /\ th'[w] \in ThreadRecords({"claim", "merge", "gone"}, All)
        /\ th'[w].pc = "claim" /\ th'[w].set = th[w].set \cup Items(pos + 1)
    <3>1. th'[w] = [th[w] EXCEPT !.set = @ \cup Items(pos + 1)]
      BY <2>1, <1>3
    <3> HIDE DEF Items, All
    <3> QED
      BY <3>1, <2>3, <1>3 DEF ThreadRecords
  <2>5. \A u \in Threads : u # w => th'[u] = th[u]
    BY <2>1, <1>3
  <2>6. th' \in [Threads -> ThreadRecords({"claim", "merge", "gone"}, All)]
    BY <2>1, <2>4, <1>3 DEF FlatInv
  <2>7. \A u \in Threads : th[u].set \subseteq th'[u].set /\ th'[u].pc = th[u].pc
    BY <2>4, <2>5, <1>3
  <2>8. \A u \in Threads : th[u].pc = "claim"
    BY <1>5, <1>1 DEF FlatInv
  <2>9. \A i \in DOMAIN dest.cells : i <= pos + 1 => i <= pos \/ i = pos + 1
    BY <1>1
  <2>10. \A i \in DOMAIN dest.cells : i <= pos + 1 => \A x \in Items(i) :
            (\E u \in Threads : x \in th'[u].set) \/ (merged # <<>> /\ x \in merged[1])
    BY <2>4, <2>7, <2>9 DEF FlatInv
  <2>11. \A u \in Threads : th'[u].pc = "claim"
    BY <2>7, <2>8
  <2> QED
    BY <1>1, <1>2, <2>6, <2>10, <2>11 DEF FlatInv
<1> QED
  BY <1>4, <1>5

\* A set is left behind, or taken to be merged by the thread that takes it.
LEMMA MergeStep ==
    ASSUME FlatInv, NEW w \in Threads, Merge(w)
    PROVE  FlatInv'
<1>1. UNCHANGED <<dest, pos>>
  BY DEF Merge
<1>2. All' = All /\ \A i : Items(i)' = Items(i)
  BY <1>1 DEF All, Items
<1>3. th[w] \in ThreadRecords({"claim", "merge", "gone"}, All) /\ DOMAIN th = Threads
      /\ th[w].pc = "merge" /\ th[w].set \in SUBSET All
  BY DEF FlatInv, Merge, ThreadRecords
<1>4. CASE merged = <<>>
  <2>1. merged' = <<th[w].set>> /\ th' = [th EXCEPT ![w].pc = "gone", ![w].set = {}]
    BY <1>4 DEF Merge, MayPut
  <2>2. /\ th'[w] \in ThreadRecords({"claim", "merge", "gone"}, All)
        /\ th'[w].pc = "gone" /\ th'[w].set = {}
    BY <2>1, <1>3 DEF ThreadRecords
  <2>3. \A u \in Threads : u # w => th'[u] = th[u]
    BY <2>1, <1>3
  <2>4. th' \in [Threads -> ThreadRecords({"claim", "merge", "gone"}, All)]
    BY <2>1, <2>2, <1>3 DEF FlatInv
  <2>5. merged' # <<>> /\ merged'[1] = th[w].set
    BY <2>1
  <2>6. \A i \in DOMAIN dest.cells : i <= pos => \A x \in Items(i) :
            (\E u \in Threads : x \in th'[u].set) \/ x \in merged'[1]
    BY <1>4, <2>3, <2>5 DEF FlatInv
  <2>7. \A u \in Threads : th'[u].pc # "claim" => Len(dest.cells) <= pos
    BY <2>2, <2>3, <1>3 DEF FlatInv
  <2>8. \A u \in Threads : th'[u].pc = "gone" => th'[u].set = {}
    BY <2>2, <2>3 DEF FlatInv
  <2>9. \E s \in SUBSET All : merged' = <<s>>
    BY <2>1, <1>3
  <2> QED
    BY <1>1, <1>2, <2>4, <2>5, <2>6, <2>7, <2>8, <2>9 DEF FlatInv
<1>5. CASE merged # <<>>
  <2>1. PICK s \in SUBSET All : merged = <<s>>
    BY <1>5 DEF FlatInv
  <2>2. Front(merged) = <<>> /\ Last(merged) = s /\ merged[1] = s
    BY <2>1 DEF Front, Last
  <2>3. merged' = <<>> /\ th' = [th EXCEPT ![w].set = @ \cup s]
    BY <1>5, <2>2 DEF Merge, MayPut
  <2>4. /\ th'[w] \in ThreadRecords({"claim", "merge", "gone"}, All)
        /\ th'[w].pc = "merge" /\ th'[w].set = th[w].set \cup s
    <3>1. th'[w] = [th[w] EXCEPT !.set = @ \cup s]
      BY <2>3, <1>3
    <3> HIDE DEF All
    <3> QED
      BY <3>1, <2>1, <1>3 DEF ThreadRecords
  <2>5. \A u \in Threads : u # w => th'[u] = th[u]
    BY <2>3, <1>3
  <2>6. th' \in [Threads -> ThreadRecords({"claim", "merge", "gone"}, All)]
    BY <2>3, <2>4, <1>3 DEF FlatInv
  <2>7. \A u \in Threads : th[u].set \subseteq th'[u].set /\ th'[u].pc = th[u].pc
    BY <2>4, <2>5, <1>3
  <2>8. \A i \in DOMAIN dest.cells : i <= pos => \A x \in Items(i) :
            (\E u \in Threads : x \in th'[u].set)
    BY <2>2, <2>4, <2>7 DEF FlatInv
  <2>9. \A u \in Threads : th'[u].pc = "gone" => th'[u].set = {}
    BY <2>4, <2>5 DEF FlatInv
  <2>10. \A u \in Threads : th'[u].pc # "claim" => Len(dest.cells) <= pos
    BY <2>7 DEF FlatInv
  <2>11. \E u \in Threads : th'[u].pc # "gone"
    BY <2>4
  <2> QED
    BY <1>1, <1>2, <2>3, <2>6, <2>8, <2>9, <2>10, <2>11 DEF FlatInv
<1> QED
  BY <1>4, <1>5

-----------------------------------------------------------------------------
(* toCQR(): claiming and evaluating                                        *)

EvalRecords == ThreadRecords({"claim", "add", "cells", "end", "gone"}, {})

\* Who is not between two cells of a block is busy with no cell.
LEMMA IdleNotBusy == ASSUME NEW w \in Threads, th[w].pc # "cells" PROVE Busy(w) = {}
  BY DEF Busy

\* A thread changes its own record, and not what it is busy with nor what it counts.
LEMMA QuietMove ==
    ASSUME EvalInv, NEW w \in Threads, UNCHANGED <<stack, dest, empties, merged>>,
           pos' \in Nat, pos <= pos', pos' = pos \/ Count <= pos,
           th[w].pc \notin {"cells", "gone"},
           NEW rec \in EvalRecords, rec.pc \notin {"cells", "gone"},
           th' = [th EXCEPT ![w] = rec], rec.empties = th[w].empties,
           rec.pc = "add" => rec.block # 0,
           rec.pc = "end" => Count <= pos'
    PROVE  EvalInv'
<1>1. Count' = Count /\ \A i : Outcome(i)' = Outcome(i)
  BY SameSource
<1>2. th'[w] = rec /\ \A u \in Threads : u # w => th'[u] = th[u]
  BY DEF EvalInv, EvalTypes
<1>3. \A u \in Threads : Busy(u)' = Busy(u)
  BY <1>1, <1>2 DEF Busy
<1>4. Past' = Past
  <2>1. \A i \in 1 .. Count : i <= pos' <=> i <= pos
    BY DEF EvalInv, EvalTypes
  <2> QED
    BY <1>1, <1>3, <2>1 DEF Past
<1>5. EmptyPast' = EmptyPast
  BY <1>1, <1>4 DEF EmptyPast
<1>6. EvalTypes'
  <2>1. th' \in [Threads -> EvalRecords]
    BY DEF EvalInv, EvalTypes, EvalRecords
  <2>2. Source' = Source
    BY DEF Source
  <2> QED
    BY <1>1, <2>1, <2>2 DEF EvalInv, EvalTypes, EvalRecords
<1>7. ClaimInv'
  <2>1. \A u \in Threads : th'[u].pc = "add" => th'[u].block # 0
    BY <1>2 DEF EvalInv, ClaimInv
  <2>2. \A u \in Threads : th'[u].pc = "cells" =>
            th'[u].at < th'[u].end /\ th'[u].end <= Count /\ th'[u].end <= pos'
    <3> SUFFICES ASSUME NEW u \in Threads, th'[u].pc = "cells"
                 PROVE  th'[u].at < th'[u].end /\ th'[u].end <= Count /\ th'[u].end <= pos'
      OBVIOUS
    <3>1. th'[u] = th[u]
      BY <1>2
    <3>2. th[u].end \in Nat /\ th[u].end <= pos /\ th[u].at < th[u].end /\ th[u].end <= Count
      BY <3>1 DEF EvalInv, EvalTypes, ClaimInv, ThreadRecords
    <3>3. pos \in Nat
      BY DEF EvalInv, EvalTypes
    <3> QED
      BY <3>1, <3>2, <3>3
  <2>3. \A v, u \in Threads : v # u => Busy(v)' \cap Busy(u)' = {}
    BY <1>3 DEF EvalInv, ClaimInv
  <2>4. \A u \in Threads : th'[u].pc \in {"end", "gone"} => Count <= pos'
    <3>1. \A u \in Threads : u # w /\ th'[u].pc \in {"end", "gone"} => Count <= pos
      BY <1>2 DEF EvalInv, ClaimInv
    <3>2. Count \in Nat /\ pos \in Nat
      BY DEF EvalInv, EvalTypes
    <3>3. Count <= pos => Count <= pos'
      BY <3>2
    <3> QED
      BY <1>2, <3>1, <3>3
  <2> QED
    BY <1>1, <2>1, <2>2, <2>3, <2>4 DEF ClaimInv
<1>8. DoneInv'
  BY <1>1, <1>4 DEF EvalInv, DoneInv
<1>9. CountInv'
  <2>1. PICK counted \in SUBSET EmptyPast, by \in [Threads -> SUBSET EmptyPast] : Shares(counted, by)
    BY DEF EvalInv, CountInv
  <2>2. \A u \in Threads : IF th'[u].pc = "gone" THEN by[u] = {}
                           ELSE th'[u].empties = Cardinality(by[u])
    BY <1>2, <2>1 DEF Shares
  <2>3. Shares(counted, by)'
    BY <1>5, <2>1, <2>2 DEF Shares
  <2> QED
    BY <1>5, <2>1, <2>3 DEF CountInv
<1> QED
  BY <1>6, <1>7, <1>8, <1>9 DEF EvalInv

LEMMA LookStep ==
    ASSUME EvalInv, NEW w \in Threads, Look(w)
    PROVE  EvalInv'
<1>1. /\ th[w] \in EvalRecords /\ th[w].pc = "claim" /\ Count \in Nat /\ pos \in Nat
      /\ UNCHANGED <<stack, pos, dest, empties, merged>>
  BY DEF EvalInv, EvalTypes, EvalRecords, Look, Working
<1>2. CASE pos > Count
  <2> DEFINE rec == [th[w] EXCEPT !.pc = "end"]
  <2>1. th' = [th EXCEPT ![w] = rec]
    BY <1>2 DEF Look
  <2>2. rec \in EvalRecords /\ rec.pc = "end" /\ rec.empties = th[w].empties
    BY <1>1 DEF EvalRecords, ThreadRecords
  <2> HIDE DEF rec
  <2>3. Count <= pos' /\ pos' \in Nat /\ pos <= pos' /\ pos' = pos
    BY <1>1, <1>2
  <2> QED
    BY <1>1, <2>1, <2>2, <2>3, QuietMove
<1>3. CASE ~(pos > Count)
  <2> DEFINE block == BlockSize(Count - pos)
             rec == [th[w] EXCEPT !.pc = "add", !.block = block]
  <2>1. th' = [th EXCEPT ![w] = rec]
    BY <1>3 DEF Look
  <2>2. block \in Nat \ {0}
    BY <1>1, <1>3, BlockSizeNat
  <2> HIDE DEF block
  <2>3. rec \in EvalRecords /\ rec.pc = "add" /\ rec.empties = th[w].empties /\ rec.block = block
    BY <1>1, <2>2 DEF EvalRecords, ThreadRecords
  <2> HIDE DEF rec
  <2>4. pos' \in Nat /\ pos <= pos' /\ pos' = pos /\ rec.block # 0
    BY <1>1, <2>2, <2>3
  <2> QED
    BY <1>1, <2>1, <2>3, <2>4, QuietMove
<1> QED
  BY <1>2, <1>3

\* srcPos moves past the claimed block: nobody else has a cell of it.
LEMMA ClaimStep ==
    ASSUME EvalInv, NEW w \in Threads, Claim(w)
    PROVE  EvalInv'
<1> DEFINE b == th[w].block
<1>1. /\ th[w] \in EvalRecords /\ th[w].pc = "add" /\ Count \in Nat /\ pos \in Nat
      /\ UNCHANGED <<stack, dest, empties, merged>>
      /\ b \in Nat /\ b # 0 /\ pos' = pos + b
  BY DEF EvalInv, EvalTypes, EvalRecords, ThreadRecords, Claim, Working, ClaimInv
<1> HIDE DEF b
<1>2. CASE pos >= Count
  <2> DEFINE rec == [th[w] EXCEPT !.pc = "end"]
  <2>1. th' = [th EXCEPT ![w] = rec]
    BY <1>2 DEF Claim
  <2>2. rec \in EvalRecords /\ rec.pc = "end" /\ rec.empties = th[w].empties
    BY <1>1 DEF EvalRecords, ThreadRecords
  <2> HIDE DEF rec
  <2>3. Count <= pos' /\ pos' \in Nat /\ pos <= pos' /\ Count <= pos
    BY <1>1, <1>2
  <2> QED
    BY <1>1, <2>1, <2>2, <2>3, QuietMove
<1>3. CASE ~(pos >= Count)
  <2> DEFINE end == ClaimEnd(pos, b)
             rec == [th[w] EXCEPT !.pc = "cells", !.at = pos, !.end = end]
  <2>1. th' = [th EXCEPT ![w] = rec]
    BY <1>3 DEF Claim, b
  <2>2. /\ end \in Nat /\ pos < end /\ end <= Count /\ end <= pos' /\ pos' \in Nat /\ pos <= pos'
        /\ \A i \in 1 .. Count : i <= pos' => i <= end
    BY <1>1, <1>3 DEF ClaimEnd
  <2> HIDE DEF end
  <2>3. rec \in EvalRecords /\ rec.pc = "cells" /\ rec.empties = th[w].empties /\ rec.at = pos
        /\ rec.end = end
    BY <1>1, <2>2 DEF EvalRecords, ThreadRecords
  <2> HIDE DEF rec
  <2>4. Count' = Count /\ \A i : Outcome(i)' = Outcome(i)
    BY <1>1, SameSource
  <2>5. th'[w] = rec /\ \A u \in Threads : u # w => th'[u] = th[u]
    BY <2>1 DEF EvalInv, EvalTypes
  <2>6. \A u \in Threads : u # w => Busy(u)' = Busy(u)
    BY <2>4, <2>5 DEF Busy
  <2>7. Busy(w) = {} /\ Busy(w)' = {i \in 1 .. Count : pos < i /\ i <= end}
    BY <1>1, <2>3, <2>4, <2>5 DEF Busy
  <2>8. \A u \in Threads : \A i \in Busy(u) : i <= pos
    <3> SUFFICES ASSUME NEW u \in Threads, NEW i \in Busy(u) PROVE i <= pos
      OBVIOUS
    <3>1. th[u].pc = "cells" /\ i <= th[u].end /\ i \in 1 .. Count
      BY DEF Busy
    <3>2. th[u].end \in Nat /\ th[u].end <= pos
      BY <3>1 DEF EvalInv, EvalTypes, ThreadRecords, ClaimInv
    <3> QED
      BY <3>1, <3>2, <1>1
  <2>9. Past' = Past
    <3>1. \A i \in 1 .. Count : i \in Past' <=> i \in Past
      <4> SUFFICES ASSUME NEW i \in 1 .. Count PROVE i \in Past' <=> i \in Past
        OBVIOUS
      <4>1. CASE i <= pos
        <5>1. i <= pos' /\ i \notin Busy(w)' /\ i \notin Busy(w)
          BY <4>1, <1>1, <2>2, <2>7
        <5> QED
          BY <4>1, <5>1, <2>4, <2>6 DEF Past
      <4>2. CASE ~(i <= pos)
        <5>1. i <= pos' => i \in Busy(w)'
          BY <4>2, <1>1, <2>2, <2>7
        <5> QED
          BY <4>2, <5>1 DEF Past
      <4> QED
        BY <4>1, <4>2
    <3>2. Past \subseteq 1 .. Count /\ Past' \subseteq 1 .. Count
      BY <2>4 DEF Past
    <3> QED
      BY <3>1, <3>2
  <2>10. EmptyPast' = EmptyPast
    BY <2>4, <2>9 DEF EmptyPast
  <2>11. EvalTypes'
    <3>1. th' \in [Threads -> EvalRecords]
      BY <2>1, <2>3 DEF EvalInv, EvalTypes, EvalRecords
    <3>2. Source' = Source
      BY <1>1 DEF Source
    <3> QED
      BY <1>1, <2>2, <2>4, <3>1, <3>2 DEF EvalInv, EvalTypes, EvalRecords
  <2>12. ClaimInv'
    <3>1. \A u \in Threads : th'[u].pc = "add" => th'[u].block # 0
      BY <2>3, <2>5 DEF EvalInv, ClaimInv
    <3>2. ASSUME NEW u \in Threads, th'[u].pc = "cells"
          PROVE  th'[u].at < th'[u].end /\ th'[u].end <= Count /\ th'[u].end <= pos'
      <4>1. CASE u = w
        BY <4>1, <2>2, <2>3, <2>5
      <4>2. CASE u # w
        <5>1. th'[u] = th[u]
          BY <4>2, <2>5
        <5>2. th[u].end \in Nat /\ th[u].end <= pos /\ th[u].at < th[u].end /\ th[u].end <= Count
          BY <3>2, <5>1 DEF EvalInv, EvalTypes, ThreadRecords, ClaimInv
        <5> QED
          BY <1>1, <2>2, <5>1, <5>2
      <4> QED
        BY <4>1, <4>2
    <3>3. \A u \in Threads : u # w => Busy(w)' \cap Busy(u) = {}
      BY <1>1, <2>7, <2>8 DEF Busy
    <3>4. \A v, u \in Threads : v # u => Busy(v)' \cap Busy(u)' = {}
      BY <2>6, <3>3 DEF EvalInv, ClaimInv
    <3>5. \A u \in Threads : th'[u].pc \notin {"end", "gone"}
      BY <1>1, <1>3, <2>3, <2>5 DEF EvalInv, ClaimInv
    <3> QED
      BY <2>4, <3>1, <3>2, <3>4, <3>5 DEF ClaimInv
  <2>13. DoneInv'
    BY <1>1, <2>4, <2>9 DEF EvalInv, DoneInv
  <2>14. CountInv'
    <3>1. PICK counted \in SUBSET EmptyPast, by \in [Threads -> SUBSET EmptyPast] : Shares(counted, by)
      BY DEF EvalInv, CountInv
    <3>2. \A u \in Threads : IF th'[u].pc = "gone" THEN by[u] = {}
                             ELSE th'[u].empties = Cardinality(by[u])
      BY <1>1, <2>3, <2>5, <3>1 DEF Shares
    <3>3. Shares(counted, by)'
      BY <1>1, <2>10, <3>1, <3>2 DEF Shares
    <3> QED
      BY <2>10, <3>1, <3>3 DEF CountInv
  <2> QED
    BY <2>11, <2>12, <2>13, <2>14 DEF EvalInv
<1> QED
  BY <1>2, <1>3

LEMMA PastFinite == ASSUME EvalInv, NEW S \in SUBSET EmptyPast
                    PROVE  IsFiniteSet(S) /\ Cardinality(S) \in Nat
<1>1. S \subseteq 1 .. Count /\ Count \in Nat
  BY DEF EmptyPast, Past, EvalInv, EvalTypes
<1>2. IsFiniteSet(1 .. Count)
  BY <1>1, FS_Interval
<1> QED
  BY <1>1, <1>2, FS_Subset, FS_CardinalityType

\* Exactly one more cell is evaluated, and counted if it is empty.
LEMMA ProcessStep ==
    ASSUME EvalInv, NEW w \in Threads, Process(w)
    PROVE  EvalInv'
<1> DEFINE i == th[w].at + 1
           n == IF Outcome(i).empty THEN 1 ELSE 0
           to == IF i = th[w].end THEN "claim" ELSE "cells"
<1>1. /\ th[w] \in EvalRecords /\ th[w].pc = "cells" /\ Count \in Nat /\ pos \in Nat
      /\ UNCHANGED <<stack, pos, empties, merged>>
      /\ dest' = [dest EXCEPT !.cells[i] = Outcome(i).entry]
      /\ th' = [th EXCEPT ![w].at = i, ![w].empties = @ + n, ![w].pc = to]
  BY DEF EvalInv, EvalTypes, EvalRecords, Process, Working, Outcome, IdxBefore
<1>2. /\ th[w].at \in Nat /\ th[w].end \in Nat /\ th[w].empties \in Nat
      /\ i \in 1 .. Count /\ i <= th[w].end /\ th[w].end <= pos /\ n \in Nat
  BY <1>1 DEF EvalRecords, ThreadRecords, EvalInv, ClaimInv
<1>3. /\ th'[w] \in EvalRecords
      /\ th'[w].at = i /\ th'[w].end = th[w].end /\ th'[w].pc = to
      /\ th'[w].empties = th[w].empties + n
  <2>0. to \in {"claim", "cells"}
    OBVIOUS
  <2> DEFINE m == th[w].empties + n
  <2> HIDE DEF n, i, to
  <2>1. th'[w] = [th[w] EXCEPT !.at = i, !.empties = m, !.pc = to]
    BY <1>1 DEF EvalInv, EvalTypes
  <2>2. i \in Nat /\ m \in Nat /\ m = th[w].empties + n
    BY <1>2
  <2> HIDE DEF m
  <2>3. th[w] \in EvalRecords
    BY <1>1
  <2> QED
    BY ONLY <2>0, <2>1, <2>2, <2>3 DEF EvalRecords, ThreadRecords
<1>4. DOMAIN th' = Threads /\ \A u \in Threads : u # w => th'[u] = th[u]
  BY <1>1 DEF EvalInv, EvalTypes
<1>5. Count' = Count /\ \A k : Outcome(k)' = Outcome(k)
  BY <1>1, SameSource
<1>6. \A u \in Threads : u # w => Busy(u)' = Busy(u)
  BY <1>4, <1>5 DEF Busy
<1>7. i \in Busy(w) /\ Busy(w)' = Busy(w) \ {i}
  <2>1. i \in Busy(w)
    BY <1>1, <1>2 DEF Busy
  <2>2. ASSUME NEW k \in 1 .. Count PROVE k \in Busy(w)' <=> k \in Busy(w) /\ k # i
    BY <1>1, <1>2, <1>3, <1>5 DEF Busy
  <2> QED
    BY <1>5, <2>1, <2>2 DEF Busy
<1>8. i \notin Past /\ \A u \in Threads : u # w => i \notin Busy(u)
  BY <1>7 DEF Past, EvalInv, ClaimInv
<1>9. Past' = Past \cup {i}
  <2>1. ASSUME NEW k \in 1 .. Count PROVE k \in Past' <=> k \in Past \/ k = i
    <3>1. CASE k = i
      BY <3>1, <1>1, <1>2, <1>5, <1>6, <1>7, <1>8 DEF Past
    <3>2. CASE k # i
      BY <3>2, <1>1, <1>5, <1>6, <1>7 DEF Past
    <3> QED
      BY <3>1, <3>2
  <2>2. Past' \subseteq 1 .. Count /\ Past \cup {i} \subseteq 1 .. Count
    BY <1>2, <1>5 DEF Past
  <2> QED
    BY <2>1, <2>2
<1>10. /\ Outcome(i).empty => EmptyPast' = EmptyPast \cup {i}
       /\ ~Outcome(i).empty => EmptyPast' = EmptyPast
       /\ i \notin EmptyPast
  BY <1>5, <1>8, <1>9 DEF EmptyPast
<1> HIDE DEF i
<1>11. dest.cells = [k \in 1 .. Count |-> dest.cells[k]] /\ DOMAIN dest = {"flags", "cells"}
       /\ dest.flags = Source.flags
  BY DEF EvalInv, EvalTypes
<1>12. dest' = [flags |-> Source.flags,
                cells |-> [k \in 1 .. Count |-> IF k = i THEN Outcome(i).entry ELSE dest.cells[k]]]
  BY <1>1, <1>2, <1>11 DEF EvalInv, EvalTypes
<1>13. EvalTypes'
  <2>1. th' \in [Threads -> EvalRecords]
    BY <1>1, <1>3 DEF EvalInv, EvalTypes, EvalRecords
  <2>2. Source' = Source
    BY <1>1 DEF Source
  <2>3. dest' = [flags |-> Source.flags, cells |-> [k \in 1 .. Count |-> dest'.cells[k]]]
    BY <1>12
  <2> QED
    BY <1>1, <1>5, <2>1, <2>2, <2>3 DEF EvalInv, EvalTypes, EvalRecords
<1>14. ClaimInv'
  <2>1. \A u \in Threads : th'[u].pc = "add" => th'[u].block # 0
    BY <1>3, <1>4 DEF EvalInv, ClaimInv
  <2>2. ASSUME NEW u \in Threads, th'[u].pc = "cells"
        PROVE  th'[u].at < th'[u].end /\ th'[u].end <= Count /\ th'[u].end <= pos
    <3>1. CASE u = w
      <4>1. i # th[w].end
        BY <3>1, <2>2, <1>3
      <4>2. i < th[w].end
        BY <4>1, <1>2
      <4>3. th[w].end <= Count
        BY <1>1 DEF EvalInv, ClaimInv
      <4> QED
        BY <3>1, <4>2, <4>3, <1>2, <1>3
    <3>2. CASE u # w
      BY <3>2, <2>2, <1>4 DEF EvalInv, ClaimInv
    <3> QED
      BY <3>1, <3>2
  <2>3. \A v, u \in Threads : v # u => Busy(v)' \cap Busy(u)' = {}
    BY <1>6, <1>7 DEF EvalInv, ClaimInv
  <2>4. \A u \in Threads : th'[u].pc \in {"end", "gone"} => Count <= pos
    BY <1>3, <1>4 DEF EvalInv, ClaimInv
  <2> QED
    BY <1>1, <1>5, <2>1, <2>2, <2>3, <2>4 DEF ClaimInv
<1>15. DoneInv'
  <2>1. ASSUME NEW k \in Past' PROVE dest'.cells[k] = Outcome(k).entry
    <3>1. k \in 1 .. Count
      BY <2>1, <1>5 DEF Past
    <3>2. dest'.cells[k] = IF k = i THEN Outcome(i).entry ELSE dest.cells[k]
      BY <3>1, <1>12
    <3>3. k # i => k \in Past
      BY <2>1, <1>9
    <3> QED
      BY <3>2, <3>3 DEF EvalInv, DoneInv
  <2> QED
    BY <1>5, <2>1 DEF DoneInv
<1>16. CountInv'
  <2>1. PICK counted \in SUBSET EmptyPast, by \in [Threads -> SUBSET EmptyPast] : Shares(counted, by)
    BY DEF EvalInv, CountInv
  <2>2. th[w].pc # "gone" /\ th'[w].pc # "gone"
    BY <1>1, <1>3
  <2>3. CASE ~Outcome(i).empty
    <3>1. EmptyPast' = EmptyPast /\ n = 0
      BY <2>3, <1>10
    <3>2. \A u \in Threads : IF th'[u].pc = "gone" THEN by[u] = {}
                             ELSE th'[u].empties = Cardinality(by[u])
      BY <1>2, <1>3, <1>4, <2>1, <2>2, <3>1 DEF Shares
    <3>3. Shares(counted, by)'
      BY <1>1, <2>1, <3>1, <3>2 DEF Shares
    <3> QED
      BY <2>1, <3>1, <3>3 DEF CountInv
  <2>4. CASE Outcome(i).empty
    <3>0. PICK byNew : byNew = [by EXCEPT ![w] = @ \cup {i}]
      OBVIOUS
    <3>1. EmptyPast' = EmptyPast \cup {i} /\ n = 1 /\ i \notin EmptyPast
      BY <2>4, <1>10
    <3>2. /\ byNew \in [Threads -> SUBSET EmptyPast'] /\ byNew[w] = by[w] \cup {i}
          /\ \A u \in Threads : u # w => byNew[u] = by[u]
      BY <3>0, <3>1
    <3>3. Cardinality(byNew[w]) = Cardinality(by[w]) + 1
      <4>1. by[w] \in SUBSET EmptyPast
        BY <2>1
      <4>2. IsFiniteSet(by[w]) /\ i \notin by[w]
        BY <3>1, <4>1, PastFinite
      <4>3. Cardinality(by[w] \cup {i}) = Cardinality(by[w]) + 1
        BY ONLY <4>2, FS_AddElement
      <4> QED
        BY <3>2, <4>3
    <3>4. \A u \in Threads : IF th'[u].pc = "gone" THEN byNew[u] = {}
                             ELSE th'[u].empties = Cardinality(byNew[u])
      <4>1. th[w].empties = Cardinality(by[w])
        BY <2>1, <2>2 DEF Shares
      <4>2. th'[w].empties = Cardinality(byNew[w])
        BY <1>3, <3>1, <3>3, <4>1
      <4>3. ASSUME NEW u \in Threads, u # w
            PROVE  IF th'[u].pc = "gone" THEN byNew[u] = {}
                   ELSE th'[u].empties = Cardinality(byNew[u])
        BY <1>4, <2>1, <3>2, <4>3 DEF Shares
      <4> QED
        BY <2>2, <4>2, <4>3
    <3>5. \A u \in Threads : byNew[u] \cap counted = {}
      BY <2>1, <3>1, <3>2 DEF Shares
    <3>6. \A v, u \in Threads : v # u => byNew[v] \cap byNew[u] = {}
      BY <2>1, <3>1, <3>2 DEF Shares
    <3>7. \A k \in EmptyPast' : k \in counted \/ \E u \in Threads : k \in byNew[u]
      BY <2>1, <3>1, <3>2 DEF Shares
    <3>8. Shares(counted, byNew)'
      BY <1>1, <2>1, <3>4, <3>5, <3>6, <3>7 DEF Shares
    <3> QED
      BY <2>1, <3>1, <3>2, <3>8 DEF CountInv
  <2> QED
    BY <2>3, <2>4
<1> QED
  BY <1>13, <1>14, <1>15, <1>16 DEF EvalInv

\* ~Proc(): the share of the thread moves to the common counter.
LEMMA DestroyStep ==
    ASSUME EvalInv, NEW w \in Threads, Destroy(w)
    PROVE  EvalInv'
<1>1. /\ th[w] \in EvalRecords /\ th[w].pc = "end" /\ Count \in Nat /\ pos \in Nat
      /\ empties \in Nat /\ th[w].empties \in Nat
      /\ UNCHANGED <<stack, pos, dest, merged>>
      /\ empties' = empties + th[w].empties
      /\ th' = [th EXCEPT ![w].pc = "gone"]
  BY DEF EvalInv, EvalTypes, EvalRecords, ThreadRecords, Destroy, Destroyed, Working
<1>2. th'[w] \in EvalRecords /\ th'[w].pc = "gone"
  BY <1>1 DEF EvalInv, EvalTypes, EvalRecords, ThreadRecords
<1>3. \A u \in Threads : u # w => th'[u] = th[u]
  BY <1>1 DEF EvalInv, EvalTypes
<1>4. Count' = Count /\ \A k : Outcome(k)' = Outcome(k)
  BY <1>1, SameSource
<1>5. \A u \in Threads : Busy(u)' = Busy(u)
  BY <1>1, <1>2, <1>3, <1>4 DEF Busy
<1>6. Past' = Past
  BY <1>1, <1>4, <1>5 DEF Past
<1>7. EmptyPast' = EmptyPast
  BY <1>4, <1>6 DEF EmptyPast
<1>8. EvalTypes'
  <2>1. th' \in [Threads -> EvalRecords]
    BY <1>1, <1>2 DEF EvalInv, EvalTypes, EvalRecords
  <2>2. Source' = Source
    BY <1>1 DEF Source
  <2>3. empties' \in Nat
    BY ONLY <1>1
  <2>4. UNCHANGED <<pos, dest, merged>> /\ Count' = Count
    BY <1>1, <1>4
  <2> QED
    BY <2>1, <2>2, <2>3, <2>4 DEF EvalInv, EvalTypes, EvalRecords
<1>9. ClaimInv'
  BY <1>1, <1>2, <1>3, <1>4, <1>5 DEF EvalInv, ClaimInv
<1>10. DoneInv'
  BY <1>1, <1>4, <1>6 DEF EvalInv, DoneInv
<1>11. CountInv'
  <2>1. PICK counted \in SUBSET EmptyPast, by \in [Threads -> SUBSET EmptyPast] : Shares(counted, by)
    BY DEF EvalInv, CountInv
  <2> DEFINE more == counted \cup by[w]
             byNew == [by EXCEPT ![w] = {}]
  <2>2. /\ more \in SUBSET EmptyPast /\ byNew \in [Threads -> SUBSET EmptyPast] /\ byNew[w] = {}
        /\ \A u \in Threads : u # w => byNew[u] = by[u]
    BY <2>1
  <2>3. Cardinality(more) = Cardinality(counted) + Cardinality(by[w])
    <3>1. /\ IsFiniteSet(counted) /\ Cardinality(counted) \in Nat
          /\ IsFiniteSet(by[w]) /\ Cardinality(by[w]) \in Nat
      BY <2>1, PastFinite
    <3>2. counted \cap by[w] = {}
      BY <2>1 DEF Shares
    <3> QED
      BY <3>1, <3>2, FS_Union, FS_EmptySet
  <2>4. empties = Cardinality(counted) /\ th[w].empties = Cardinality(by[w])
    BY <1>1, <2>1 DEF Shares
  <2> HIDE DEF byNew
  <2>5. \A u \in Threads : IF th'[u].pc = "gone" THEN byNew[u] = {}
                           ELSE th'[u].empties = Cardinality(byNew[u])
    BY <1>2, <1>3, <2>1, <2>2 DEF Shares
  <2>6. \A u \in Threads : byNew[u] \cap more = {}
    BY <2>1, <2>2 DEF Shares
  <2>7. \A v, u \in Threads : v # u => byNew[v] \cap byNew[u] = {}
    BY <2>1, <2>2 DEF Shares
  <2>8. \A k \in EmptyPast : k \in more \/ \E u \in Threads : k \in byNew[u]
    BY <2>1, <2>2 DEF Shares
  <2> HIDE DEF more
  <2>9. Shares(more, byNew)'
    BY <1>1, <1>7, <2>3, <2>4, <2>5, <2>6, <2>7, <2>8 DEF Shares
  <2> QED
    BY <1>7, <2>2, <2>9 DEF CountInv
<1> QED
  BY <1>8, <1>9, <1>10, <1>11 DEF EvalInv

\* The call of toCQR() with more than one thread
LEMMA ToCQRStep ==
    ASSUME RestInv, ToCQR, ArraySource'
    PROVE  EvalInv'
<1>1. /\ UNCHANGED <<stack, th, empties, merged>> /\ pos' = 0 /\ phase' = "toCQR"
      /\ dest' = [flags |-> Source.flags, cells |-> [i \in 1 .. Count |-> NoEntry]]
  BY DEF ToCQR
<1>2. Count' = Count /\ Source' = Source /\ Count \in Nat
  BY <1>1 DEF Count, Source, ArraySource
<1>3. /\ th' = [w \in Threads |-> Idle] /\ empties' = 0 /\ merged' = <<>>
      /\ \A w \in Threads : th'[w].pc = "claim" /\ th'[w].empties = 0
  BY <1>1 DEF RestInv, Idle
<1>4. EvalTypes'
  <2>1. Idle \in EvalRecords
    BY DEF Idle, EvalRecords, ThreadRecords
  <2> QED
    BY <1>1, <1>2, <1>3, <2>1 DEF EvalTypes, EvalRecords
<1>5. Past' = {}
  BY <1>1, <1>2 DEF Past
<1>6. EmptyPast' = {}
  BY <1>5 DEF EmptyPast
<1>7. \A w \in Threads : Busy(w)' = {}
  BY <1>3 DEF Busy
<1>8. ClaimInv'
  BY <1>3, <1>7 DEF ClaimInv
<1>9. DoneInv'
  BY <1>5 DEF DoneInv
<1>10. CountInv'
  <2> DEFINE by == [w \in Threads |-> {}]
  <2>1. Shares({}, by)'
    BY <1>3, <1>6, FS_EmptySet DEF Shares
  <2>2. {} \in SUBSET EmptyPast' /\ by \in [Threads -> SUBSET EmptyPast']
    OBVIOUS
  <2> HIDE DEF by
  <2> QED
    BY <2>1, <2>2 DEF CountInv
<1> QED
  BY <1>4, <1>8, <1>9, <1>10 DEF EvalInv

\* When all threads have gone every cell is past.
LEMMA AllPast == ASSUME EvalInv, AllGone PROVE Past = 1 .. Count
<1>1. \A w \in Threads : Busy(w) = {}
  BY DEF AllGone, Busy
<1>2. Count <= pos /\ Count \in Nat /\ pos \in Nat
  BY EvaluationAssumption DEF AllGone, EvalInv, ClaimInv, EvalTypes
<1>3. \A i \in 1 .. Count : i <= pos
  BY <1>2
<1> QED
  BY <1>1, <1>3 DEF Past

LEMMA DestArray ==
    ASSUME EvalInv
    PROVE  /\ DOMAIN dest.cells = 1 .. Count /\ Len(dest.cells) = Count /\ Count \in Nat
           /\ dest.cells = [i \in 1 .. Count |-> dest.cells[i]]
           /\ DOMAIN dest = {"flags", "cells"} /\ dest.flags = Source.flags
<1>1. Count \in Nat /\ dest = [flags |-> Source.flags, cells |-> [i \in 1 .. Count |-> dest.cells[i]]]
  BY DEF EvalInv, EvalTypes
<1> DEFINE c == dest.cells
<1>2. c = [i \in 1 .. Count |-> c[i]] /\ DOMAIN dest = {"flags", "cells"} /\ dest.flags = Source.flags
  BY <1>1
<1>3. DOMAIN c = 1 .. Count /\ Len(c) = Count
  <2> HIDE DEF c
  <2> QED
    BY <1>1, <1>2, ArrayLen
<1> QED
  BY <1>1, <1>2, <1>3

LEMMA KeptFinite ==
    ASSUME EvalInv
    PROVE  /\ IsFiniteSet(Kept(dest.cells)) /\ Cardinality(Kept(dest.cells)) \in Nat
           /\ Kept(dest.cells) \subseteq 1 .. Count
<1>1. Kept(dest.cells) \subseteq 1 .. Count /\ Count \in Nat
  BY DestArray DEF Kept
<1>2. IsFiniteSet(1 .. Count)
  BY <1>1, FS_Interval
<1> QED
  BY <1>1, <1>2, FS_Subset, FS_CardinalityType

LEMMA EvaluateStep ==
    ASSUME EvalInv, Evaluate, phase' = "flaten"
    PROVE  FlatInv'
<1>1. /\ UNCHANGED merged /\ pos' = 0 /\ th' = [w \in Threads |-> Idle] /\ merged = <<>>
      /\ dest' = dest \/ dest' = WithoutEmpty(dest, Mem)
  BY DEF Evaluate, EvalInv, EvalTypes
<1>2. \E n \in Nat : dest'.cells = [i \in 1 .. n |-> dest'.cells[i]]
  <2>1. CASE dest' = dest
    BY <2>1, <1>1, DestArray
  <2>2. CASE dest' = WithoutEmpty(dest, Mem)
    <3> DEFINE k == Cardinality(Kept(dest.cells))
               moved(n) == LET e == dest.cells[NthKept(dest.cells, n)]
                           IN IF e.full THEN [e EXCEPT !.slot = Ptr(Mem)] ELSE e
               cells == [n \in 1 .. k |-> moved(n)]
    <3>1. k \in Nat
      BY KeptFinite
    <3>2. dest' = [dest EXCEPT !.cells = cells]
      BY <2>2 DEF WithoutEmpty
    <3> HIDE DEF k, moved
    <3>3. cells = [i \in 1 .. k |-> cells[i]]
      OBVIOUS
    <3> HIDE DEF cells
    <3>4. dest'.cells = cells
      BY <3>2, DestArray
    <3> QED
      BY <3>1, <3>3, <3>4
  <2> QED
    BY <1>1, <2>1, <2>2
<1>3. /\ Len(dest'.cells) \in Nat /\ DOMAIN dest'.cells = 1 .. Len(dest'.cells)
      /\ dest'.cells = [i \in 1 .. Len(dest'.cells) |-> dest'.cells[i]]
  <2> DEFINE c == dest'.cells
  <2> SUFFICES Len(c) \in Nat /\ DOMAIN c = 1 .. Len(c) /\ c = [i \in 1 .. Len(c) |-> c[i]]
    OBVIOUS
  <2>1. PICK n \in Nat : c = [i \in 1 .. n |-> c[i]]
    BY <1>2
  <2> HIDE DEF c
  <2>2. DOMAIN c = 1 .. n /\ Len(c) = n
    BY <2>1, ArrayLen
  <2> QED
    BY <2>1, <2>2
<1>4. th' \in [Threads -> ThreadRecords({"claim", "merge", "gone"}, All')]
  <2>1. Idle \in ThreadRecords({"claim", "merge", "gone"}, All')
    BY DEF Idle, ThreadRecords
  <2> QED
    BY <1>1, <2>1
<1>5. \A w \in Threads : th'[w].pc = "claim"
  BY <1>1 DEF Idle
<1>6. \E w \in Threads : th'[w].pc # "gone"
  BY <1>5, EvaluationAssumption
<1>7. \A i \in DOMAIN dest'.cells : ~(i <= pos')
  BY <1>1, <1>3
<1> QED
  BY <1>1, <1>3, <1>4, <1>5, <1>6, <1>7 DEF FlatInv

-----------------------------------------------------------------------------
(* The theorems                                                            *)

LEMMA InitIInv == Init => IInv
  BY DEF Init, IInv, RestInv

\* The caller leaves the threads alone.
LEMMA CallerStep ==
    ASSUME IInv, phase = "build", Calling
    PROVE  IInv'
  BY DEF IInv, RestInv, Calling

LEMMA WorkerStep ==
    ASSUME IInv, NEW w \in Threads, Worker(w)
    PROVE  IInv'
<1>1. CASE phase = "toCQR" /\ (Look(w) \/ Claim(w) \/ Process(w) \/ Destroy(w))
  <2>1. EvalInv' /\ phase' = phase
    BY <1>1, LookStep, ClaimStep, ProcessStep, DestroyStep
       DEF IInv, Look, Claim, Process, Destroy, Working
  <2> QED
    BY <1>1, <2>1 DEF IInv
<1>2. CASE phase = "flaten" /\ (Collect(w) \/ Merge(w))
  <2>1. FlatInv' /\ phase' = phase
    BY <1>2, CollectStep, MergeStep DEF IInv, Collect, Merge, Working
  <2> QED
    BY <1>2, <2>1 DEF IInv
<1> QED
  BY <1>1, <1>2 DEF Worker, Look, Claim, Process, Destroy, Collect, Merge

LEMMA StepIInv == IInv /\ ArraySource' /\ [Next]_vars => IInv'
<1> SUFFICES ASSUME IInv, ArraySource', [Next]_vars PROVE IInv'
  OBVIOUS
<1>1. CASE Push \/ Apply \/ AllToFull \/ Fetch \/ RemoveEmpty \/ Convert
  <2>1. phase = "build" /\ Calling
    BY <1>1 DEF Push, Apply, AllToFull, Fetch, RemoveEmpty, Convert, Unary
  <2> QED
    BY <2>1, CallerStep
<1>2. CASE ToCQR
  <2>1. phase = "build" /\ phase' = "toCQR"
    BY <1>2 DEF ToCQR
  <2>2. EvalInv'
    BY <1>2, <2>1, ToCQRStep DEF IInv
  <2> QED
    BY <2>1, <2>2 DEF IInv
<1>3. CASE Evaluate
  <2>1. phase = "toCQR" /\ phase' \in {"flaten", "done"}
    BY <1>3 DEF Evaluate
  <2>2. phase' = "flaten" => FlatInv'
    BY <1>3, <2>1, EvaluateStep DEF IInv
  <2> QED
    BY <2>1, <2>2 DEF IInv
<1>4. CASE Flattened
  BY <1>4 DEF Flattened, IInv
<1>5. CASE UNCHANGED vars
  <2>1. /\ UNCHANGED <<stack, phase, pos, th, dest, empties, merged>>
        /\ Count' = Count /\ Source' = Source /\ \A i : Outcome(i)' = Outcome(i)
    BY <1>5, SameSource DEF vars, Source
  <2>2. \A w \in Threads : Busy(w)' = Busy(w)
    BY <2>1 DEF Busy
  <2>3. Past' = Past
    BY <2>1, <2>2 DEF Past
  <2>4. EmptyPast' = EmptyPast
    BY <2>1, <2>3 DEF EmptyPast
  <2>5. EvalInv => EvalInv'
    <3>1. EvalTypes => EvalTypes'
      BY <2>1 DEF EvalTypes
    <3>2. ClaimInv => ClaimInv'
      BY <2>1, <2>2 DEF ClaimInv
    <3>3. DoneInv => DoneInv'
      BY <2>1, <2>3 DEF DoneInv
    <3>4. CountInv => CountInv'
      BY <2>1, <2>4 DEF CountInv, Shares
    <3> QED
      BY <3>1, <3>2, <3>3, <3>4 DEF EvalInv
  <2>6. FlatInv => FlatInv'
    BY <2>1 DEF FlatInv, All, Items
  <2> QED
    BY <2>1, <2>5, <2>6 DEF IInv, RestInv
<1> QED
  BY <1>1, <1>2, <1>3, <1>4, <1>5, WorkerStep DEF Next

\* The inductive invariant of the threads of toCQR() and flaten().
THEOREM Invariance == Spec /\ []ArraySource => []IInv
  BY InitIInv, StepIInv, PTL DEF Spec

\* When the threads of toCQR() have gone, the entry of every cell is what the
\* evaluation of its own tree, with an index of its own, gives, and the empty cells
\* have been counted exactly, however the blocks were claimed.
EvaluatedOnce ==
    phase = "toCQR" /\ AllGone =>
        /\ \A i \in 1 .. Count : dest.cells[i] = Outcome(i).entry
        /\ empties = Cardinality({i \in 1 .. Count : Outcome(i).empty})

LEMMA GoneCounts == ASSUME IInv PROVE EvaluatedOnce
<1> SUFFICES ASSUME phase = "toCQR", AllGone
             PROVE  /\ \A i \in 1 .. Count : dest.cells[i] = Outcome(i).entry
                    /\ empties = Cardinality({i \in 1 .. Count : Outcome(i).empty})
  BY DEF EvaluatedOnce
<1>1. EvalInv
  BY DEF IInv
<1>2. Past = 1 .. Count
  BY <1>1, AllPast
<1>3. EmptyPast = {i \in 1 .. Count : Outcome(i).empty}
  BY <1>2 DEF EmptyPast
<1>4. PICK counted \in SUBSET EmptyPast, by \in [Threads -> SUBSET EmptyPast] : Shares(counted, by)
  BY <1>1 DEF EvalInv, CountInv
<1>5. counted = EmptyPast
  BY <1>4 DEF Shares, AllGone
<1>6. empties = Cardinality(EmptyPast)
  BY <1>4, <1>5 DEF Shares
<1> QED
  BY <1>1, <1>2, <1>3, <1>6 DEF EvalInv, DoneInv

\* toCQR() with any number of threads evaluates every cell exactly once.
THEOREM ParallelEvaluation == Spec /\ []ArraySource => []EvaluatedOnce
<1>1. IInv => EvaluatedOnce
  BY GoneCounts
<1> QED
  BY <1>1, Invariance, PTL

\* An entry made by the evaluation that counts as empty is one that removeEmpty() drops.
LEMMA EmptyDropped ==
    ASSUME NEW i, NEW e, e = Outcome(i).entry
    PROVE  /\ Outcome(i).empty => ~e.full /\ ~e.fetched /\ e.slot.id = 0
           /\ CountsEmpty(dest.flags, e) => ~e.full /\ ~e.fetched /\ e.slot.id = 0
<1> DEFINE cd == Source.desc[i]
           f == FlattenCell(Source, cd.treeBegin, cd.cell)
           ids == IF f.ids = NotSet THEN {} ELSE f.ids
<1>1. /\ \A c, m : FullEntry(c, m).full /\ ~FullEntry(c, m).fetched
      /\ \A c, p : /\ ~PtrEntry(c, p).full /\ ~PtrEntry(c, p).fetched
                   /\ PtrEntry(c, p).slot.id = p
      /\ \A c, x : /\ IdxEntry(c, x).fetched /\ ~IdxEntry(c, x).full
                   /\ IdxEntry(c, x).slot.what = "idx" /\ IdxEntry(c, x).slot.ids = x
  BY DEF FullEntry, PtrEntry, IdxEntry, Entry, Ptr, Idx
<1>2. CASE ~HasTree(cd)
  <2>1. ~Outcome(i).empty /\ e = IF cd.full THEN FullEntry(cd.cell, Mem) ELSE PtrEntry(cd.cell, cd.pm)
    BY <1>2 DEF Outcome, Evaluated
  <2> QED
    BY <1>1, <2>1 DEF CountsEmpty
<1>3. CASE HasTree(cd)
  <2>1. Outcome(i).empty <=> f.frt = "EMPTY" \/ (f.frt = "FETCHED" /\ ids = {})
    BY <1>3 DEF Outcome, Evaluated
  <2>2. e = CASE f.frt = "FM" -> FullEntry(cd.cell, Mem)
              [] f.frt = "PM" -> PtrEntry(cd.cell, f.pm)
              [] f.frt = "FETCHED" /\ ids # {} -> IdxEntry(cd.cell, ids)
              [] OTHER -> PtrEntry(cd.cell, 0)
    BY <1>3 DEF Outcome, Evaluated
  <2> HIDE DEF f, ids, cd
  <2>3. \/ f.frt = "FM" /\ e = FullEntry(cd.cell, Mem)
        \/ f.frt = "PM" /\ e = PtrEntry(cd.cell, f.pm)
        \/ f.frt = "FETCHED" /\ ids # {} /\ e = IdxEntry(cd.cell, ids)
        \/ e = PtrEntry(cd.cell, 0)
    BY <2>2
  <2> QED
    BY <1>1, <2>1, <2>3 DEF CountsEmpty, IdxOf
<1> QED
  BY <1>2, <1>3

\* The smaller buffer that removeEmpty() allocates from the count of the threads has
\* room for every entry that it keeps.
THEOREM BufferFits == Spec /\ []ArraySource => []CountFits
<1>1. IInv => CountFits
  <2> SUFFICES ASSUME IInv, phase = "toCQR", AllGone PROVE RemoveEmptyFits(dest, empties)
    BY DEF CountFits
  <2>1. EvalInv
    BY DEF IInv
  <2>2. /\ \A i \in 1 .. Count : dest.cells[i] = Outcome(i).entry
        /\ empties = Cardinality({i \in 1 .. Count : Outcome(i).empty})
    BY GoneCounts DEF EvaluatedOnce
  <2> DEFINE dropped == (1 .. Count) \ Kept(dest.cells)
             counted == {i \in 1 .. Count : CountsEmpty(dest.flags, dest.cells[i])}
             empty == {i \in 1 .. Count : Outcome(i).empty}
  <2>3. counted \subseteq dropped /\ empty \subseteq dropped
    BY <2>2, EmptyDropped DEF Kept
  <2>4. IsFiniteSet(1 .. Count) /\ Cardinality(1 .. Count) = Count /\ Count \in Nat
    BY <2>1, DestArray, FS_Interval
  <2>5. /\ IsFiniteSet(dropped) /\ Cardinality(dropped) \in Nat
        /\ Cardinality(dropped) = Count - Cardinality(Kept(dest.cells))
    <3>1. (1 .. Count) \cap Kept(dest.cells) = Kept(dest.cells)
      BY <2>1, KeptFinite
    <3>2. /\ IsFiniteSet(dropped)
          /\ Cardinality(dropped) = Cardinality(1 .. Count) - Cardinality((1 .. Count) \cap Kept(dest.cells))
      BY <2>4, FS_Difference
    <3>3. Cardinality(dropped) \in Nat
      BY <3>2, FS_CardinalityType
    <3> QED
      BY <2>4, <3>1, <3>2, <3>3
  <2>6. /\ Cardinality(counted) \in Nat /\ Cardinality(counted) <= Cardinality(dropped)
        /\ Cardinality(empty) \in Nat /\ Cardinality(empty) <= Cardinality(dropped)
    <3>1. IsFiniteSet(counted) /\ IsFiniteSet(empty)
      BY <2>3, <2>5, FS_Subset
    <3> QED
      BY <2>3, <2>5, <3>1, FS_Subset, FS_CardinalityType
  <2>7. NumEmpty(dest, empties) \in {Cardinality(empty), Cardinality(counted)}
    BY <2>1, <2>2, DestArray DEF NumEmpty
  <2>8. Len(WithoutEmpty(dest, 0).cells) = Cardinality(Kept(dest.cells))
    <3> DEFINE k == Cardinality(Kept(dest.cells))
               moved(n) == LET e == dest.cells[NthKept(dest.cells, n)]
                           IN IF e.full THEN [e EXCEPT !.slot = Ptr(0)] ELSE e
               cells == [n \in 1 .. k |-> moved(n)]
    <3>1. k \in Nat
      BY <2>1, KeptFinite
    <3>2. WithoutEmpty(dest, 0) = [dest EXCEPT !.cells = cells]
      BY DEF WithoutEmpty
    <3> HIDE DEF k, moved
    <3>3. cells = [i \in 1 .. k |-> cells[i]]
      OBVIOUS
    <3> HIDE DEF cells
    <3>4. WithoutEmpty(dest, 0).cells = cells
      BY <2>1, <3>2, DestArray
    <3>5. Len(cells) = k
      BY <3>1, <3>3, ArrayLen
    <3> QED
      BY <3>4, <3>5 DEF k
  <2>9. Len(dest.cells) = Count
    BY <2>1, DestArray
  <2>10. Cardinality(Kept(dest.cells)) \in Nat
    BY <2>1, KeptFinite
  <2> HIDE DEF dropped, counted, empty
  <2> QED
    BY <2>4, <2>5, <2>6, <2>7, <2>8, <2>9, <2>10 DEF RemoveEmptyFits
<1> QED
  BY <1>1, Invariance, PTL

\* However the threads of flaten() meet, one set remains and it has the items of all cells.
THEOREM FlattenCorrect == Spec /\ []ArraySource => []FlattenRight
<1>1. IInv => FlattenRight
  <2> SUFFICES ASSUME IInv, phase = "flaten", AllGone
               PROVE  merged = <<UNION {ItemsOf(dest.flags, dest.cells[i]) : i \in DOMAIN dest.cells}>>
    BY DEF FlattenRight
  <2>1. FlatInv
    BY DEF IInv
  <2>2. PICK s \in SUBSET All : merged = <<s>>
    BY <2>1 DEF FlatInv, AllGone
  <2>3. merged[1] = s
    BY <2>2
  <2>4. Len(dest.cells) <= pos /\ \A w \in Threads : th[w].set = {}
    BY <2>1, EvaluationAssumption DEF FlatInv, AllGone
  <2>5. \A i \in DOMAIN dest.cells : i <= pos
    BY <2>1, <2>4 DEF FlatInv
  <2>6. \A i \in DOMAIN dest.cells : Items(i) \subseteq s
    BY <2>1, <2>3, <2>4, <2>5 DEF FlatInv
  <2>7. s = All
    BY <2>6 DEF All
  <2> QED
    BY <2>2, <2>7 DEF All, Items
<1> QED
  BY <1>1, Invariance, PTL
=============================================================================
