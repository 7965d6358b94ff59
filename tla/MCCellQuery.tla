----------------------------- MODULE MCCellQuery -----------------------------
(* Four cells that share items, with overlapping, equal and disjoint matches. *)
EXTENDS CellQueryEvaluation

MCCellItems == 1 :> {0, 1} @@ 2 :> {1, 2} @@ 3 :> {2, 3} @@ 4 :> {0, 3}
MCStore ==
    0 :> {} @@ 1 :> {0, 1} @@ 2 :> {1, 2} @@ 3 :> {2, 3} @@ 4 :> {0, 3}
    @@ 5 :> {0} @@ 6 :> {1} @@ 7 :> {2} @@ 8 :> {3}
MCCellItemsPtr == [c \in 1 .. 4 |-> c]
MCMem == 99
MCThreads == {"t1", "t2"}
MCOps == {"intersect", "unite", "diff", "symDiff"}

Full(flags, fm) == [flags |-> flags, fm |-> fm, pm |-> <<>>]
Ids(flags, fm, ids) == [flags |-> flags, fm |-> fm, pm |-> [c \in DOMAIN ids |-> Ptr(ids[c])]]
Sets(flags, fm, sets) == [flags |-> flags, fm |-> fm, pm |-> [c \in DOMAIN sets |-> Idx(sets[c])]]
MCBases ==
    {Ids("global", {1}, 1 :> 5 @@ 2 :> 6 @@ 4 :> 8), Ids("global", {4}, 1 :> 5 @@ 3 :> 7),
     Sets("global", {3}, 1 :> {1} @@ 2 :> {2}), Full("empty", {}),
     Ids("local", {1}, 2 :> 5 @@ 3 :> 6), Sets("local", {}, 1 :> {1} @@ 2 :> {0})}

MCEmptyOps == {"unite", "diff"}
MCEmptyBases == {Ids("global", {}, 3 :> 7), Sets("global", {}, 1 :> {1})}
=============================================================================
