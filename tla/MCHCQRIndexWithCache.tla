------------------------ MODULE MCHCQRIndexWithCache ------------------------
(***************************************************************************)
(* A question, one that differs from it in each part of the key (function, *)
(* query type, string), and a query of cell(), which has no query type.    *)
(***************************************************************************)
EXTENDS HCQRIndexWithCache

MCQueries == {[kind |-> "items", qt |-> 1, qstr |-> "a"],
              [kind |-> "regions", qt |-> 1, qstr |-> "a"],
              [kind |-> "items", qt |-> 2, qstr |-> "a"],
              [kind |-> "items", qt |-> 1, qstr |-> "b"],
              [kind |-> "cell", qt |-> 0, qstr |-> "a"]}
=============================================================================
