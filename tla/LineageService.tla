---------------------------- MODULE LineageService ----------------------------
(***************************************************************************)
(* What resolve_singleton_lineage promises its caller, with no walk in it:  *)
(* an answer that was true of the chain at some instant between the call    *)
(* and the return, or an error - never an answer that was true at no one    *)
(* instant, such as members of two forks or a tip already superseded when   *)
(* the call began, and never an error's worth of ignorance as an absence.   *)
(* "The source reliably answered" (the doc of ChainSource) in one module.   *)
(***************************************************************************)
EXTENDS ChiaChain

CONSTANT
  Errors,          \* the errors a caller may be answered with
  TrustsAbsence    \* is an absence promised to have been true, too?

VARIABLES
  request,    \* the launcher id asked for, NoCoin when there is none
  noted,      \* an answer that has been true since the call, or nothing
  reply       \* what the last call returned

serviceVars == <<created, spent, request, noted, reply>>

Unanswered == [kind |-> "pending"]
NoNote == [kind |-> "none"]
Failures == {[kind |-> "failed", error |-> e] : e \in Errors}

ServiceInit ==
  /\ ChainInit
  /\ request = NoCoin
  /\ noted = NoNote
  /\ reply = Unanswered

Ask(id) ==
  /\ request = NoCoin
  /\ request' = id
  /\ noted' = NoNote
  /\ reply' = Unanswered
  /\ UNCHANGED chainVars

(* Remember what is true now, or forget it: a reply may be late. *)
Note ==
  /\ request # NoCoin
  /\ noted' \in Truths(request) \cup {NoNote}
  /\ UNCHANGED <<created, spent, request, reply>>

(* Answer with what is true now, with what was noted, or with an error. *)
Reply ==
  /\ request # NoCoin
  /\ request' = NoCoin
  /\ noted' = NoNote
  /\ \/ reply' \in Truths(request) \cup Failures
     \/ noted # NoNote /\ reply' = noted
     \/ ~TrustsAbsence /\ reply' = Absent
  /\ UNCHANGED chainVars

ChainMoves ==
  /\ \E c \in Coins :
       Undo(c) \/ \E K \in SUBSET Children(c) : Spend(c, K)
  /\ UNCHANGED <<request, noted, reply>>

ServiceNext ==
  \/ \E id \in Coins : Ask(id)
  \/ Note
  \/ Reply
  \/ ChainMoves

ServiceSpec == ServiceInit /\ [][ServiceNext]_serviceVars
=============================================================================
