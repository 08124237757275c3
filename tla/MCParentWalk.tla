----------------------------- MODULE MCParentWalk -----------------------------
(* The backward walk over the coins of MCCoins. *)
EXTENDS ParentWalk, MCCoins
=============================================================================
