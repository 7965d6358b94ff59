------------------------------- MODULE TreedCQR -------------------------------
(***************************************************************************)
(* detail::TreedCellQueryResult::TreedCQRImp: the set operations of a cell *)
(* are kept as a tree until toCQR() evaluates them.  All trees of a result *)
(* lie in one array in prefix order, the second operand of a node at the   *)
(* distance childB; leaves refer to an index of the store or to the array  *)
(* of fetched indexes of the same result.  Positions count from 0.         *)
(***************************************************************************)
EXTENDS CellQueryResult

Desc(full, hasFetched, cell, pm, treeBegin, treeEnd) ==
    [full |-> full, hasFetched |-> hasFetched, cell |-> cell, pm |-> pm, treeBegin |-> treeBegin, treeEnd |-> treeEnd]
PlainDesc(full, cell, pm) == Desc(full, FALSE, cell, pm, 0, 0)
TreeSize(cd) == cd.treeEnd - cd.treeBegin
HasTree(cd) == TreeSize(cd) # 0
Node(type, ref) == [type |-> type, ref |-> ref]
NoTreed == [flags |-> "empty", desc |-> <<>>, trees |-> <<>>, fetched |-> <<>>]
NewTreed(flags) == [NoTreed EXCEPT !.flags = flags]

\* TreedCQRImp(const CellQueryResult &)
AddEntry(flags, r, e) ==
    IF ~e.fetched THEN [r EXCEPT !.desc = Append(@, PlainDesc(e.full, e.cell, IF e.full THEN 0 ELSE e.slot.id))]
    ELSE [r EXCEPT !.desc = Append(@, Desc(FALSE, TRUE, e.cell, 0, Len(r.trees), Len(r.trees) + 1)),
                   !.trees = Append(@, Node("fetched", Len(r.fetched))),
                   !.fetched = Append(@, IdxOf(flags, e))]
Treed(q) == FoldLeft(LAMBDA r, e : AddEntry(q.flags, r, e), NewTreed(q.flags), q.cells)

-----------------------------------------------------------------------------
(* Copying trees                                                           *)

\* A fetched leaf takes its index along.
AddNode(r, src, hasFetched, n) ==
    IF hasFetched /\ n.type = "fetched"
    THEN [r EXCEPT !.trees = Append(@, Node("fetched", Len(r.fetched))),
                   !.fetched = Append(@, src.fetched[n.ref + 1])]
    ELSE [r EXCEPT !.trees = Append(@, n)]
CopyTree(r, src, cd) ==
    FoldLeft(LAMBDA s, n : AddNode(s, src, cd.hasFetched, n), r, SubSeq(src.trees, cd.treeBegin + 1, cd.treeEnd))
CopyCell(r, src, cd) ==
    LET s == CopyTree(r, src, cd)
    IN [s EXCEPT !.desc = Append(@, IF HasTree(cd) THEN [cd EXCEPT !.treeBegin = Len(r.trees), !.treeEnd = Len(s.trees)]
                                                   ELSE cd)]

Operand(r, src, cd) ==
    IF HasTree(cd) THEN CopyTree(r, src, cd)
    ELSE [r EXCEPT !.trees = Append(@, IF cd.full THEN Node("fm", 0) ELSE Node("pm", cd.pm))]
ChildBShort(cd) == IF HasTree(cd) THEN TreeSize(cd) ELSE 2      \* mutant: without the node itself
ChildB(cd) == IF HasTree(cd) THEN 1 + TreeSize(cd) ELSE 2
OpTree(r, op, x, a, y, b) ==
    LET s == Operand([r EXCEPT !.trees = Append(@, Node(op, ChildB(a)))], x, a)
        u == Operand(s, y, b)
    IN [u EXCEPT !.desc = Append(@, Desc(FALSE, a.hasFetched \/ b.hasFetched, a.cell, 0, Len(r.trees), Len(u.trees)))]

\* The rest of one operand: all its trees at once, moved by a fixed distance, then
\* the fetched indexes of every cell.
TreeShift(r, cd) == Len(r.trees) - cd.treeBegin
CopyRest(r, src, rest) ==
    LET first == SelectInSeq(rest, HasTree)
        shift == TreeShift(r, rest[first])
        moved == [i \in DOMAIN rest |->
                     IF HasTree(rest[i]) THEN [rest[i] EXCEPT !.treeBegin = @ + shift, !.treeEnd = @ + shift]
                     ELSE rest[i]]
        inFetched(k) == \E i \in DOMAIN rest : rest[i].hasFetched /\ k \in rest[i].treeBegin + 1 .. rest[i].treeEnd
        copied == FoldLeft(LAMBDA s, k : AddNode(s, src, inFetched(k), src.trees[k]), r,
                           [i \in 1 .. Len(src.trees) - rest[first].treeBegin |-> rest[first].treeBegin + i])
    IN IF first = 0 THEN [r EXCEPT !.desc = @ \o rest] ELSE [copied EXCEPT !.desc = @ \o moved]

-----------------------------------------------------------------------------
(* Set operations                                                          *)

AddFull(r, cell) == [r EXCEPT !.desc = Append(@, PlainDesc(TRUE, cell, 0))]
IntersectTrees(r, x, a, y, b) ==
    IF a.full /\ b.full THEN AddFull(r, a.cell)
    ELSE IF a.full THEN CopyCell(r, y, b) ELSE IF b.full THEN CopyCell(r, x, a)
    ELSE OpTree(r, "intersect", x, a, y, b)
UniteTrees(r, x, a, y, b) == IF a.full \/ b.full THEN AddFull(r, a.cell) ELSE OpTree(r, "unite", x, a, y, b)
DiffTrees(r, x, a, y, b) == IF b.full THEN r ELSE OpTree(r, "diff", x, a, y, b)
SymDiffTrees(r, x, a, y, b) == IF a.full /\ b.full THEN r ELSE OpTree(r, "symDiff", x, a, y, b)
TreeOfBoth(r, op, x, a, y, b) ==
    CASE op = "intersect" -> IntersectTrees(r, x, a, y, b)
      [] op = "unite" -> UniteTrees(r, x, a, y, b)
      [] op = "diff" -> DiffTrees(r, x, a, y, b)
      [] op = "symDiff" -> SymDiffTrees(r, x, a, y, b)

\* One round of the loop over both, at the cells i of x and j of y
MergeRound(op, x, y, s) ==
    LET a == x.desc[s.i]
        b == y.desc[s.j]
    IN IF s.i > Len(x.desc) \/ s.j > Len(y.desc) THEN s
       ELSE IF a.cell < b.cell THEN [s EXCEPT !.i = @ + 1, !.r = IF KeepsFirst(op) THEN CopyCell(@, x, a) ELSE @]
       ELSE IF b.cell < a.cell THEN [s EXCEPT !.j = @ + 1, !.r = IF KeepsSecond(op) THEN CopyCell(@, y, b) ELSE @]
       ELSE [r |-> TreeOfBoth(s.r, op, x, a, y, b), i |-> s.i + 1, j |-> s.j + 1]
TreedMerged(op, x, y) ==
    LET s == FoldLeft(LAMBDA z, k : MergeRound(op, x, y, z), [r |-> NewTreed(x.flags), i |-> 1, j |-> 1], x.desc \o y.desc)
    IN IF s.i <= Len(x.desc) /\ KeepsFirst(op) THEN CopyRest(s.r, x, SubSeq(x.desc, s.i, Len(x.desc)))
       ELSE IF s.j <= Len(y.desc) /\ KeepsSecond(op) THEN CopyRest(s.r, y, SubSeq(y.desc, s.j, Len(y.desc)))
       ELSE s.r
TreedOp(op, x, y) ==
    IF x = NoTreed \/ y = NoTreed
    THEN CASE op = "intersect" -> NoTreed
           [] op = "diff" -> x
           [] OTHER -> IF x = NoTreed THEN y ELSE x
    ELSE TreedMerged(op, x, y)

FullTreed(t) ==
    LET add(r, cd) ==
            LET s == CopyTree([r EXCEPT !.trees = Append(@, Node("toFm", 1))], t, cd)
            IN IF HasTree(cd)
               THEN [s EXCEPT !.desc = Append(@, Desc(FALSE, cd.hasFetched, cd.cell, 0, Len(r.trees), Len(s.trees)))]
               ELSE AddFull(r, cd.cell)
    IN FoldLeft(add, NewTreed(t.flags), t.desc)

-----------------------------------------------------------------------------
(* Evaluation                                                              *)

NotSet == {-2}      \* flattenCell() left the caller's index as it was
Flat(frt, ids, pm) == [frt |-> frt, ids |-> ids, pm |-> pm]
NonEmptyFlat(ids) == Flat(IF ids = {} THEN "EMPTY" ELSE "FETCHED", ids, 0)
\* the ids of an operand, which was called with an empty index of its own
OwnIds(f) == IF f.ids = NotSet THEN {} ELSE f.ids
FlatIds(t, cell, f) ==
    CASE f.frt = "PM" -> Store[f.pm]
      [] f.frt = "FM" -> AllItems(t.flags, cell)
      [] OTHER -> OwnIds(f)

\* A node from the results of its operands a and b
FlattenNode(t, cell, n, a, b) ==
    LET ids == OnIds(n.type, FlatIds(t, cell, a), FlatIds(t, cell, b))
    IN CASE n.type = "pm" -> Flat("PM", NotSet, n.ref)
         [] n.type = "fetched" -> Flat("FETCHED", t.fetched[n.ref + 1], 0)
         [] n.type = "fm" -> Flat("FM", NotSet, 0)
         [] n.type = "toFm" ->
               Flat(IF a.frt = "PM" \/ (a.frt = "FETCHED" /\ a.ids \notin {{}, NotSet}) THEN "FM" ELSE a.frt, NotSet, 0)
         [] n.type = "intersect" ->
               IF a.frt = "FM" /\ b.frt = "FM" THEN Flat("FM", NotSet, 0)
               ELSE IF a.frt = "FM" THEN Flat(b.frt, OwnIds(b), b.pm)
               ELSE IF b.frt = "FM" THEN Flat(a.frt, OwnIds(a), a.pm)
               ELSE NonEmptyFlat(ids)
         [] n.type = "unite" ->
               IF "FM" \in {a.frt, b.frt} THEN Flat("FM", NotSet, 0) ELSE Flat("FETCHED", ids, 0)
         [] n.type = "diff" ->
               IF b.frt = "FM" \/ a.frt = "EMPTY" THEN Flat("EMPTY", NotSet, 0) ELSE NonEmptyFlat(ids)
         [] n.type = "symDiff" ->
               IF a.frt = "FM" /\ b.frt = "FM" THEN Flat("EMPTY", NotSet, 0) ELSE NonEmptyFlat(ids)
FlattenCell(t, pos, cell) ==
    LET at[p \in 0 .. Len(t.trees) - 1] ==
            LET n == t.trees[p + 1] IN FlattenNode(t, cell, n, at[p + 1], at[p + n.ref])
    IN at[pos]

\* An entry of toCQR(); idx is what the index of the caller held before.
Evaluated(t, cd, idx, mem) ==
    LET f == FlattenCell(t, cd.treeBegin, cd.cell)
        ids == IF f.ids = NotSet THEN idx ELSE f.ids
    IN IF ~HasTree(cd)
       THEN [entry |-> IF cd.full THEN FullEntry(cd.cell, mem) ELSE PtrEntry(cd.cell, cd.pm), empty |-> FALSE, idx |-> idx]
       ELSE [entry |-> CASE f.frt = "FM" -> FullEntry(cd.cell, mem)
                         [] f.frt = "PM" -> PtrEntry(cd.cell, f.pm)
                         [] f.frt = "FETCHED" /\ ids # {} -> IdxEntry(cd.cell, ids)
                         [] OTHER -> PtrEntry(cd.cell, 0),
             empty |-> f.frt = "EMPTY" \/ (f.frt = "FETCHED" /\ ids = {}),
             idx |-> ids]

\* toCQR() with one thread or at most 1000 cells: one index for all cells; the progress
\* function pf lets n of them pass.
ToCqr(t, n, mem) ==
    LET step(s, cd) ==
            LET e == Evaluated(t, cd, s.idx, mem)
            IN [cells |-> IF e.empty THEN s.cells ELSE Append(s.cells, e.entry), idx |-> e.idx]
    IN [flags |-> t.flags, cells |-> FoldLeft(step, [cells |-> <<>>, idx |-> {}], SubSeq(t.desc, 1, n)).cells]

\* hasHits(): trees of intersections only are intersected at once
OnlyIntersects(t, cd) ==
    \A k \in cd.treeBegin + 1 .. cd.treeEnd : t.trees[k].type \in {"pm", "fetched", "fm", "intersect"}
LeafSets(t, cd) ==
    LET leaves == {k \in cd.treeBegin + 1 .. cd.treeEnd : t.trees[k].type \in {"pm", "fetched"}}
        ids(k) == IF t.trees[k].type = "pm" THEN Store[t.trees[k].ref] ELSE t.fetched[t.trees[k].ref + 1]
    IN [k \in leaves |-> ids(k)]
HasHits(t) ==
    \E i \in DOMAIN t.desc :
        LET cd == t.desc[i]
            sets == LeafSets(t, cd)
        IN IF ~HasTree(cd) THEN TRUE
           ELSE IF OnlyIntersects(t, cd)
                THEN Cardinality(DOMAIN sets) = 1 \/ \E x \in UNION {sets[k] : k \in DOMAIN sets} : \A k \in DOMAIN sets : x \in sets[k]
           ELSE FlattenCell(t, cd.treeBegin, cd.cell).frt # "EMPTY"
=============================================================================
