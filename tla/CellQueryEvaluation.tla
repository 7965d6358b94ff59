------------------------- MODULE CellQueryEvaluation -------------------------
(***************************************************************************)
(* The evaluation of a query on cells.  A caller builds an expression over *)
(* results of the index with the operators of CellQueryResult and, next to *)
(* it, with those of TreedCellQueryResult; then one of its results is      *)
(* evaluated by the threads of toCQR() and the items of the outcome are    *)
(* collected by the threads of flaten().  An operand stack holds the       *)
(* expression: c the direct result, t the treed one, m what the expression *)
(* means (the matching items of every cell), lost and tlost the cells of c *)
(* and t that the two known faults have met: a slot that was never written *)
(* happened to equal the id it was compared with, or the fetched mark of a *)
(* full match was copied without its index.                                *)
(***************************************************************************)
EXTENDS TreedCQR

CONSTANTS
    Bases,              \* results of the index: flags, full and partial matches
    Ops,                \* set operations the caller uses
    Mem,                \* what allocated memory holds before it is written
    Threads,            \* threads of toCQR() and flaten()
    BlocksPerThread,    \* 10 in the code
    ParallelCells,      \* 1000 in the code
    MaxLeaves, MaxUnary, MaxThreadedLeaves      \* bounds

ASSUME EvaluationAssumption ==
    /\ IsFiniteSet(Threads) /\ Threads # {}
    /\ BlocksPerThread \in Nat \ {0}
    /\ Mem \notin DOMAIN Store     \* what equality it may have is chosen, see UnwrittenCells

VARIABLES stack, leaves, unary, phase, pos, th, dest, empties, merged
vars == <<stack, leaves, unary, phase, pos, th, dest, empties, merged>>

Leaf(c) == [c |-> c, t |-> Treed(c), m |-> Matching(c), lost |-> {}, tlost |-> {}]
Idle == [pc |-> "claim", at |-> 0, end |-> 0, block |-> 0, empties |-> 0, set |-> {}]

Init ==
    /\ stack = <<>> /\ leaves = 0 /\ unary = 0
    /\ phase = "build" /\ pos = 0 /\ empties = 0
    /\ th = [w \in Threads |-> Idle]
    /\ dest = NoResult /\ merged = <<>>

-----------------------------------------------------------------------------
(* The caller                                                              *)

Calling == UNCHANGED <<phase, pos, th, dest, empties, merged>>
Top == stack[Len(stack)]
Push ==
    /\ phase = "build" /\ leaves < MaxLeaves
    /\ \E b \in Bases : stack' = Append(stack, Leaf(Made(b.flags, b.fm, b.pm, Mem)))
    /\ leaves' = leaves + 1
    /\ UNCHANGED unary /\ Calling

\* flagCheck(): operands have the same kind of ids
Applied(op, x, y, same) ==
    [c |-> CqrOp(op, x.c, y.c, same), t |-> TreedOp(op, x.t, y.t),
     m |-> [cell \in Cells |-> OnIds(op, x.m[cell], y.m[cell])],
     lost |-> x.lost \cup y.lost \cup same, tlost |-> x.tlost \cup y.tlost]
Apply ==
    /\ phase = "build" /\ Len(stack) >= 2
    /\ LET x == stack[Len(stack) - 1]
       IN /\ x.c.flags = Top.c.flags \/ "empty" \in {x.c.flags, Top.c.flags}
          /\ \E op \in Ops : \E same \in SUBSET UnwrittenCells(op, x.c, Top.c, Mem) :
                stack' = Append(SubSeq(stack, 1, Len(stack) - 2), Applied(op, x, Top, same))
    /\ UNCHANGED <<leaves, unary>> /\ Calling

Unary(r) ==
    /\ phase = "build" /\ stack # <<>> /\ unary < MaxUnary
    /\ stack' = [stack EXCEPT ![Len(stack)] = r]
    /\ unary' = unary + 1
    /\ UNCHANGED leaves /\ Calling

\* removeEmpty() and the conversions copy the mark of these without the index.
FetchedFull(q) == {q.cells[i].cell : i \in {j \in DOMAIN q.cells : q.cells[j].full /\ q.cells[j].fetched}}
AllToFull ==
    Unary([Top EXCEPT !.c = FullCqr(@, Mem), !.t = FullTreed(@),
                      !.m = [cell \in Cells |-> IF @[cell] = {} THEN {} ELSE CellItems[cell]]])
\* idx(i) leaves the index in the result.
Fetch ==
    /\ stack # <<>>
    /\ \E i \in DOMAIN Top.c.cells : Unary([Top EXCEPT !.c.cells[i] = FetchedEntry(Top.c.flags, @)])
RemoveEmpty == Unary([Top EXCEPT !.c = WithoutEmpty(@, Mem), !.lost = @ \cup FetchedFull(Top.c)])
\* There is no conversion of a treed result: it is made of the converted one.
Convert ==
    /\ stack # <<>> /\ Top.c.flags # "empty"
    /\ LET q == Converted(Top.c, Mem)
           lost == Top.lost \cup FetchedFull(Top.c)
       IN Unary([c |-> q, t |-> Treed(q), m |-> Top.m, lost |-> lost, tlost |-> lost])

-----------------------------------------------------------------------------
(* toCQR() with several threads                                            *)

NoEntry == PtrEntry(0, Mem)
Source == stack[1].t
Count == Len(Source.desc)
ToCQR ==
    /\ phase = "build" /\ Len(stack) = 1 /\ leaves <= MaxThreadedLeaves
    /\ Count > ParallelCells
    /\ phase' = "toCQR" /\ pos' = 0
    /\ dest' = [flags |-> Source.flags, cells |-> [i \in 1 .. Count |-> NoEntry]]
    /\ UNCHANGED <<stack, leaves, unary, th, empties, merged>>

Working == UNCHANGED <<stack, leaves, unary, phase>>
BlockSize(left) ==
    LET per == left \div (Cardinality(Threads) * BlocksPerThread) IN IF per > 1 THEN per ELSE 1
\* srcPos is read, and moved by what the value read leaves for this thread.
Look(w) ==
    /\ phase = "toCQR" /\ th[w].pc = "claim"
    /\ th' = [th EXCEPT ![w] = IF pos > Count THEN [@ EXCEPT !.pc = "end"]
                               ELSE [@ EXCEPT !.pc = "add", !.block = BlockSize(Count - pos)]]
    /\ UNCHANGED <<pos, dest, empties, merged>> /\ Working
ClaimEnd(at, block) == IF at + block < Count THEN at + block ELSE Count
Claim(w) ==
    /\ phase = "toCQR" /\ th[w].pc = "add"
    /\ pos' = pos + th[w].block
    /\ th' = [th EXCEPT ![w] = IF pos >= Count THEN [@ EXCEPT !.pc = "end"]
                               ELSE [@ EXCEPT !.pc = "cells", !.at = pos, !.end = ClaimEnd(pos, th[w].block)]]
    /\ UNCHANGED <<dest, empties, merged>> /\ Working

\* process(): the index of the thread is reset for every cell.
IdxBefore(w) == {}
Process(w) ==
    /\ phase = "toCQR" /\ th[w].pc = "cells"
    /\ LET i == th[w].at + 1
           e == Evaluated(Source, Source.desc[i], IdxBefore(w), Mem)
       IN /\ dest' = [dest EXCEPT !.cells[i] = e.entry]
          /\ th' = [th EXCEPT ![w].at = i, ![w].empties = @ + (IF e.empty THEN 1 ELSE 0),
                              ![w].pc = IF i = th[w].end THEN "claim" ELSE "cells"]
    /\ UNCHANGED <<pos, empties, merged>> /\ Working
\* ~Proc(): copies of the task start with no empty cells.
DestroyedTwice(w) == empties + 2 * th[w].empties                \* mutant: a copy has the count too
Destroyed(w) == empties + th[w].empties
Destroy(w) ==
    /\ phase = "toCQR" /\ th[w].pc = "end"
    /\ empties' = Destroyed(w)
    /\ th' = [th EXCEPT ![w].pc = "gone"]
    /\ UNCHANGED <<pos, dest, merged>> /\ Working
AllGone == \A w \in Threads : th[w].pc = "gone"
\* ThreadPool::execute() has returned; the caller goes on with flaten().
Evaluate ==
    /\ phase = "toCQR" /\ AllGone
    /\ \E keepEmpty \in BOOLEAN :
           dest' = IF keepEmpty \/ empties = 0 THEN dest ELSE WithoutEmpty(dest, Mem)
    /\ phase' = IF dest'.cells = <<>> THEN "done" ELSE "flaten"
    /\ pos' = 0 /\ th' = [w \in Threads |-> Idle]
    /\ UNCHANGED <<stack, leaves, unary, empties, merged>>

-----------------------------------------------------------------------------
(* flaten() with several threads: merged is state.intermediates            *)

Collect(w) ==
    /\ phase = "flaten" /\ th[w].pc = "claim"
    /\ pos' = pos + 1
    /\ th' = [th EXCEPT ![w] = IF pos >= Len(dest.cells) THEN [@ EXCEPT !.pc = "merge"]
                               ELSE [@ EXCEPT !.set = th[w].set \cup ItemsOf(dest.flags, dest.cells[pos + 1])]]
    /\ UNCHANGED <<dest, empties, merged>> /\ Working
MayPutAlways == TRUE                                            \* mutant: nobody merges
MayPut == merged = <<>>
Merge(w) ==
    /\ phase = "flaten" /\ th[w].pc = "merge"
    /\ IF MayPut THEN merged' = Append(merged, th[w].set) /\ th' = [th EXCEPT ![w].pc = "gone", ![w].set = {}]
       ELSE merged' = Front(merged) /\ th' = [th EXCEPT ![w].set = @ \cup Last(merged)]
    /\ UNCHANGED <<pos, dest, empties>> /\ Working
Flattened ==
    /\ phase = "flaten" /\ AllGone
    /\ phase' = "done"
    /\ UNCHANGED <<stack, leaves, unary, pos, th, dest, empties, merged>>

-----------------------------------------------------------------------------

Worker(w) == Look(w) \/ Claim(w) \/ Process(w) \/ Destroy(w) \/ Collect(w) \/ Merge(w)
Next ==
    \/ Push \/ Apply \/ AllToFull \/ Fetch \/ RemoveEmpty \/ Convert
    \/ ToCQR \/ Evaluate \/ Flattened
    \/ \E w \in Threads : Worker(w)
Spec == Init /\ [][Next]_vars

-----------------------------------------------------------------------------
\* In every cell but the lost ones a CellQueryResult stands for the items the expression
\* means, whatever sequence of set operations, fetches, removals and conversions led to
\* it, and the mark fetched tells what the slot holds (~CellQueryResult() relies on it);
\* its cells ascend.  Exempt is exactly a cell where diff() or symDiff() compared the
\* unwritten slot of a full match and found it equal (CellQueryResultPrivate.cpp:474,
\* 542), or whose fetched full match removeEmpty() or a conversion copied without the
\* index (621-623, 665-667, 739-741), and that cell in the results made of this one.
DirectRight ==
    \A i \in DOMAIN stack :
        LET intact == Cells \ stack[i].lost
        IN /\ WellFormed(stack[i].c, intact)
           /\ \A cell \in intact : Matching(stack[i].c)[cell] = stack[i].m[cell]

\* The trees of a TreedCellQueryResult, copied and moved from result to result, stay
\* in step with the direct result: without an allToFull() in the tree toCQR() gives the
\* same items for the cells the progress function let pass and none for the others,
\* and hasHits() misses no item.  Exempt are the cells that a conversion has taken over
\* from a direct result that had lost them.
Lazy(t) == \A k \in DOMAIN t.trees : t.trees[k].type # "toFm"
SequentialRight(i) ==
    LET t == stack[i].t
        after(n) == {t.desc[k].cell : k \in n + 1 .. Len(t.desc)}
    IN \A n \in 0 .. Len(t.desc) :
           LET found == Matching(ToCqr(t, n, Mem))
           IN \A cell \in Cells \ stack[i].tlost :
                  found[cell] = IF cell \in after(n) THEN {} ELSE stack[i].m[cell]
TreedRight ==
    \A i \in DOMAIN stack :
        /\ Lazy(stack[i].t) => SequentialRight(i)
        /\ (\E cell \in Cells \ stack[i].tlost : stack[i].m[cell] # {}) => HasHits(stack[i].t)

\* flattenCell() sets idx if it reports FT_FETCHED, so that the sequential toCQR()
\* is right for every tree.
SequentialAlwaysRight == \A i \in DOMAIN stack : SequentialRight(i)

\* The threads of toCQR() evaluate every cell once, the cells they count as empty are
\* those removeEmpty() leaves out of its smaller buffer, and the result means what
\* the expression means, with keepEmpty and without (exempt as in TreedRight).
CountFits == phase = "toCQR" /\ AllGone => RemoveEmptyFits(dest, empties)
ParallelRight ==
    /\ CountFits
    /\ phase \in {"flaten", "done"} =>
           LET intact == Cells \ stack[1].tlost
           IN /\ WellFormed(dest, intact)
              /\ \A cell \in intact : Matching(dest)[cell] = stack[1].m[cell]

\* The threads of flaten() merge their bit sets pairwise in any order; exactly one set
\* remains, and it holds the items of all cells.
FlattenRight ==
    phase = "flaten" /\ AllGone =>
        merged = <<UNION {ItemsOf(dest.flags, dest.cells[i]) : i \in DOMAIN dest.cells}>>
=============================================================================
