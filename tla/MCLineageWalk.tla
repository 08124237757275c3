---------------------------- MODULE MCLineageWalk ----------------------------
(* The walk, and the service it implements, over the coins of MCCoins. *)
EXTENDS LineageRefinement, MCCoins
=============================================================================
