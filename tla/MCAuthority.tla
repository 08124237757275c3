---------------------------- MODULE MCAuthority ----------------------------
(* The consumer, and the service its forward walk implements, over the coins *)
(* of MCCoins.                                                              *)
EXTENDS Authority, LineageRefinement, MCCoins
=============================================================================
