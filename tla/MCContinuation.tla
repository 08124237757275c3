---------------------------- MODULE MCContinuation ----------------------------
(***************************************************************************)
(* Every condition list of up to MaxLength conditions.                      *)
(***************************************************************************)
EXTENDS Continuation

CONSTANT MaxLength   \* bound on the condition lists

(* The melt marker, another negative amount, an even and an odd coin, the    *)
(* widest amount the decoder holds, and an even and an odd one past it.      *)
MCAmounts == {-113, -1, 2, 3, 199, 200, 201}

ListsUpToMaxLength == UNION {[1..n -> Conditions] : n \in 0..MaxLength}
=============================================================================
