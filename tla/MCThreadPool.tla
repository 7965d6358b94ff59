---------------------------- MODULE MCThreadPool ----------------------------
(***************************************************************************)
(* Small pools for TLC.                                                    *)
(***************************************************************************)
EXTENDS ThreadPool, TLC

TaskSymmetry == Permutations(Tasks)
ClientSymmetry == Permutations(Clients) \cup Permutations(Tasks)
=============================================================================
