---------------------------- MODULE MCRepeatedWalks ----------------------------
(* RepeatedWalks over the coins of MCCoins. *)
EXTENDS RepeatedWalks, MCCoins
=============================================================================
