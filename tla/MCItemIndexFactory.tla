------------------------- MODULE MCItemIndexFactory -------------------------
(***************************************************************************)
(* Three serialized indexes of different lengths for TLC.                  *)
(***************************************************************************)
EXTENDS ItemIndexFactory, TLC

CONSTANTS e, a, b
MCBytes == e :> 1 @@ a :> 2 @@ b :> 3
MCRecalcs == TRUE :> 0 @@ FALSE :> 1
MCItems == e :> 0 @@ a :> 1 @@ b :> 5
=============================================================================
