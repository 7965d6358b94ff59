--------------------------- MODULE CellQueryResult ---------------------------
(***************************************************************************)
(* detail::CellQueryResult: the cells that match a query, each of them     *)
(* fully or with the items of an index.  An entry has one slot, which      *)
(* holds the id of an index in the store, or, once fetched, the index      *)
(* itself; the slot of a full match is left as the allocator returned it.  *)
(* Item ids are global, or positions in the cell (local).  An operation    *)
(* that calls idx() fetches the index in its operand too; nobody looks at  *)
(* an operand again here.                                                  *)
(***************************************************************************)
EXTENDS Integers, Sequences, SequencesExt, FiniteSetsExt

CONSTANTS
    CellItems,      \* the items of each cell: ItemIndexStore::at(cellItemsPtr(cell))
    Store,          \* ItemIndexStore: index id to numbers; 0 is the empty index
    CellItemsPtr    \* the index id of each cell's items

Cells == DOMAIN CellItems
ASSUME CellsAssumption ==
    /\ \A c \in Cells : CellItems[c] = Store[CellItemsPtr[c]] /\ CellItems[c] # {}
    /\ Store[0] = {}

Ptr(id) == [what |-> "ptr", id |-> id]
Idx(ids) == [what |-> "idx", ids |-> ids]
Wild == {-1}            \* what is read from a slot that holds no index
Entry(cell, full, fetched, slot) == [cell |-> cell, full |-> full, fetched |-> fetched, slot |-> slot]
FullEntry(cell, mem) == Entry(cell, TRUE, FALSE, Ptr(mem))
PtrEntry(cell, id) == Entry(cell, FALSE, FALSE, Ptr(id))
IdxEntry(cell, ids) == Entry(cell, FALSE, TRUE, Idx(ids))
NoResult == [flags |-> "empty", cells |-> <<>>]
\* The constructors: full matches fm, and for the partial matches either an index id
\* each or a fetched index each; a cell of both is a full match.
Made(flags, fm, pm, mem) ==
    LET ids == SetToSortSeq(fm \cup DOMAIN pm, <)
    IN [flags |-> flags,
        cells |-> [i \in DOMAIN ids |-> IF ids[i] \in fm THEN FullEntry(ids[i], mem)
                                        ELSE Entry(ids[i], FALSE, pm[ids[i]].what = "idx", pm[ids[i]])]]

\* fmIdx in idx(): all items of a cell, in the ids of the result
AllItems(flags, cell) == IF flags = "local" THEN 0 .. Cardinality(CellItems[cell]) - 1 ELSE CellItems[cell]
IdxOf(flags, e) ==
    IF e.fetched THEN (IF e.slot.what = "idx" THEN e.slot.ids ELSE Wild)
    ELSE IF e.full THEN AllItems(flags, e.cell) ELSE Store[e.slot.id]
FetchedEntry(flags, e) == [e EXCEPT !.fetched = TRUE, !.slot = Idx(IdxOf(flags, e))]

-----------------------------------------------------------------------------
(* Set operations                                                          *)

OnIds(op, x, y) ==
    CASE op = "intersect" -> x \cap y
      [] op = "unite" -> x \cup y
      [] op = "diff" -> x \ y
      [] op = "symDiff" -> (x \ y) \cup (y \ x)

SamePtr(a, b) == ~a.fetched /\ ~b.fetched /\ a.slot.id = b.slot.id
\* diff and symDiff compare the slots of a full and a partial match too.  The slot of
\* the full match may never have been written; then it equals the other id or not.
ReadsUnwritten(op, a, b, mem) ==
    /\ ~a.fetched /\ ~b.fetched /\ mem \in {a.slot.id, b.slot.id}
    /\ (op = "diff" /\ ~b.full) \/ (op = "symDiff" /\ ~(a.full /\ b.full))
Result(cell, ids) == IF ids = {} THEN <<>> ELSE <<IdxEntry(cell, ids)>>
BothFullUnset(a, b, slot) ==                                    \* mutant: the mark without the index
    <<Entry(a.cell, TRUE, a.fetched \/ b.fetched, slot)>>
BothFull(a, b, slot) ==
    <<Entry(a.cell, TRUE, a.fetched \/ b.fetched,
            IF b.fetched THEN b.slot ELSE IF a.fetched THEN a.slot ELSE slot)>>

\* The entries of the result for a cell of both
IntersectCell(a, b, ids) ==
    IF a.full /\ b.full THEN BothFull(a, b, b.slot)
    ELSE IF a.full THEN <<b>> ELSE IF b.full THEN <<a>>
    ELSE IF SamePtr(a, b) THEN <<a>> ELSE Result(a.cell, ids)
UniteCell(a, b, ids) ==
    IF a.full /\ b.full THEN BothFull(a, b, a.slot)
    ELSE IF a.full THEN <<a>> ELSE IF b.full THEN <<b>>
    ELSE IF SamePtr(a, b) THEN <<a>>
    ELSE IF Cardinality(ids) = Cardinality(CellItems[a.cell]) THEN <<FullEntry(a.cell, CellItemsPtr[a.cell])>>
    ELSE <<IdxEntry(a.cell, ids)>>
DiffCell(a, b, ids, same) == IF b.full \/ SamePtr(a, b) \/ a.cell \in same THEN <<>> ELSE Result(a.cell, ids)
SymDiffCell(a, b, ids, same) ==
    IF (a.full /\ b.full) \/ SamePtr(a, b) \/ a.cell \in same THEN <<>> ELSE Result(a.cell, ids)
OfBoth(op, flags, a, b, same) ==
    LET ids == OnIds(op, IdxOf(flags, a), IdxOf(flags, b))
    IN CASE op = "intersect" -> IntersectCell(a, b, ids)
         [] op = "unite" -> UniteCell(a, b, ids)
         [] op = "diff" -> DiffCell(a, b, ids, same)
         [] op = "symDiff" -> SymDiffCell(a, b, ids, same)

KeepsFirst(op) == op # "intersect"
KeepsSecond(op) == op \in {"unite", "symDiff"}
If(c, s) == IF c THEN s ELSE <<>>

Merged(op, flags, x, y, same) ==
    LET from[i \in 1 .. Len(x) + 1, j \in 1 .. Len(y) + 1] ==
            IF i > Len(x) THEN If(KeepsSecond(op), SubSeq(y, j, Len(y)))
            ELSE IF j > Len(y) THEN If(KeepsFirst(op), SubSeq(x, i, Len(x)))
            ELSE IF x[i].cell < y[j].cell THEN If(KeepsFirst(op), <<x[i]>>) \o from[i + 1, j]
            ELSE IF y[j].cell < x[i].cell THEN If(KeepsSecond(op), <<y[j]>>) \o from[i, j + 1]
            ELSE OfBoth(op, flags, x[i], y[j], same) \o from[i + 1, j + 1]
    IN from[1, 1]

\* sserialize::CellQueryResult: the empty result has no cells and no store.
OnNoResult(op, x, y) ==
    CASE op = "intersect" -> NoResult
      [] op = "unite" -> IF x = NoResult THEN y ELSE x
      [] op = "diff" -> x
      [] op = "symDiff" -> IF x = NoResult THEN y ELSE x
CqrOp(op, x, y, same) ==
    IF NoResult \in {x, y} THEN OnNoResult(op, x, y)
    ELSE [x EXCEPT !.cells = Merged(op, x.flags, x.cells, y.cells, same)]
\* The cells whose outcome depends on a slot that was never written
UnwrittenCells(op, x, y, mem) ==
    {c \in Cells : \E i \in DOMAIN x.cells, j \in DOMAIN y.cells :
        x.cells[i].cell = c /\ y.cells[j].cell = c /\ ReadsUnwritten(op, x.cells[i], y.cells[j], mem)}

-----------------------------------------------------------------------------
(* Other operations; mem is what the allocated memory holds                *)

FullCqr(q, mem) == [q EXCEPT !.cells = [i \in DOMAIN @ |-> FullEntry(@[i].cell, mem)]]

CountsEmpty(flags, e) ==
    \/ ~e.full /\ ~e.fetched /\ e.slot.id = 0
    \/ e.fetched /\ IdxOf(flags, e) = {}
NumEmpty(q, given) ==
    IF given \in 1 .. Len(q.cells) THEN given
    ELSE Cardinality({i \in DOMAIN q.cells : CountsEmpty(q.flags, q.cells[i])})
\* The entries that removeEmpty() keeps move together in their order.
Kept(cells) == {i \in DOMAIN cells : cells[i].full \/ cells[i].fetched \/ cells[i].slot.id # 0}
NthKept(cells, n) == CHOOSE i \in Kept(cells) : Cardinality({j \in Kept(cells) : j <= i}) = n
WithoutEmpty(q, mem) ==
    [q EXCEPT !.cells = [n \in 1 .. Cardinality(Kept(q.cells)) |->
                            LET e == q.cells[NthKept(q.cells, n)]
                            IN IF e.full THEN [e EXCEPT !.slot = Ptr(mem)] ELSE e]]
\* removeEmpty() allocates room for as many entries as it has counted.
RemoveEmptyFits(q, given) == Len(WithoutEmpty(q, 0).cells) <= Len(q.cells) - NumEmpty(q, given)

Nth(s, l) == IF l \in 0 .. Cardinality(s) - 1 THEN SetToSortSeq(s, <)[l + 1] ELSE -1
PosIn(s, x) == Cardinality({y \in s : y < x})
ConvertedIds(flags, cell, ids) ==
    IF flags = "local" THEN {Nth(CellItems[cell], l) : l \in ids} ELSE {PosIn(CellItems[cell], x) : x \in ids}
\* toGlobalItemIds() and toCellLocalItemIds()
Converted(q, mem) ==
    [flags |-> IF q.flags = "local" THEN "global" ELSE "local",
     cells |-> [i \in DOMAIN q.cells |->
                   LET e == q.cells[i]
                   IN IF e.full THEN [e EXCEPT !.slot = Ptr(mem)]
                      ELSE IdxEntry(e.cell, ConvertedIds(q.flags, e.cell, IdxOf(q.flags, e)))]]

\* items(): the matching items of an entry as global ids
ItemsOf(flags, e) ==
    IF flags = "global" THEN IdxOf(flags, e)
    ELSE IF e.full THEN CellItems[e.cell]
    ELSE ConvertedIds("local", e.cell, IdxOf(flags, e))

-----------------------------------------------------------------------------

\* What a result stands for: the matching items of every cell
Matching(q) ==
    [c \in Cells |-> UNION {ItemsOf(q.flags, q.cells[i]) : i \in {j \in DOMAIN q.cells : q.cells[j].cell = c}}]
\* selfCheck(), and in the cells in question every slot is what its flag says
Ascending(q) == \A i, j \in DOMAIN q.cells : i < j => q.cells[i].cell < q.cells[j].cell
WellFormed(q, cells) ==
    /\ Ascending(q)
    /\ \A i \in DOMAIN q.cells :
           LET e == q.cells[i]
           IN e.cell \in cells =>
                /\ e.fetched <=> e.slot.what = "idx"
                /\ IdxOf(q.flags, e) \subseteq AllItems(q.flags, e.cell)
=============================================================================
