---------------------------- MODULE MCMockSource ----------------------------
(* Fixtures of a parent and its child, of different puzzle hashes. *)
EXTENDS MockSource

MCParent == [parent |-> "none", child |-> "parent"]
MCPuzzleHash == [parent |-> "p", child |-> "q"]
=============================================================================
