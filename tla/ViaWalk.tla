------------------------------- MODULE ViaWalk -------------------------------
(***************************************************************************)
(* resolve_singleton_lineage_via_walk (src/walk.rs): the walk at its        *)
(* default bounds, with its error projected onto ChainSourceError, the one  *)
(* type every provider reports (src/error.rs).                              *)
(***************************************************************************)
EXTENDS LineageWalk

CONSTANT SourceErrors    \* the errors a read of this source may report

ErrorVariants ==
  {"Transport", "Malformed", "Unsupported", "Timeout", "RateLimited",
   "NoProvider", "TooManyRecords", "RevealTooLarge", "LineageTooDeep"}

ASSUME ViaAssumption == SourceErrors \subseteq ErrorVariants

VARIABLE carried    \* the error of the read that failed, "none" before one

viaVars == <<vars, carried>>

(* A mistake: an exhausted budget is reported as inconsistent data. *)
ProjectionBlamingTheSlow ==
  [Malformed |-> "Malformed", NotASingleton |-> "Malformed",
   RevealTooLarge |-> "RevealTooLarge", TooDeep |-> "LineageTooDeep",
   DeadlineExceeded |-> "Malformed"]

(* ChainSourceError::from, of the walk's own errors. *)
Projection ==
  [Malformed |-> "Malformed", NotASingleton |-> "Malformed",
   RevealTooLarge |-> "RevealTooLarge", TooDeep |-> "LineageTooDeep",
   DeadlineExceeded |-> "Timeout"]

(* What the caller is answered: a read's own error passes through. *)
Answer ==
  IF result = Failed("Source") THEN Failed(carried)
  ELSE IF result.kind = "failed" THEN Failed(Projection[result.error])
  ELSE result

(* WalkBounds::default(): a fresh call carries no error. *)
CallVia(id) ==
  /\ \E budget \in Budgets : Call(id, MaxLineageDepth, budget)
  /\ carried' = "none"

(* A provider that calls the bounded walk itself, and converts with `?`. *)
CallBounded(id, hops, budget) ==
  /\ Call(id, hops, budget)
  /\ carried' = "none"

WalkOn ==
  /\ WalkStep
  /\ IF result' = Failed("Source") THEN carried' \in SourceErrors
     ELSE UNCHANGED carried

ViaInit == Init /\ carried = "none"

ViaNext ==
  \/ \E id \in Coins : CallVia(id)
  \/ \E id \in Coins, hops \in HopRequests, budget \in Budgets :
       CallBounded(id, hops, budget)
  \/ WalkOn
  \/ ChainStep /\ UNCHANGED carried

-----------------------------------------------------------------------------
(* Properties.                                                             *)

(* The read that failed reported e itself. *)
ReportedByTheSource(e) == result = Failed("Source") /\ carried = e

(* The walk met the eve of an ordinary coin: NotASingleton. *)
EveIsOrdinary ==
  /\ current \in spent
  /\ Parent[current] = launcher_id
  /\ CurriedTo[current] # launcher_id

(* Over an honest source every error a caller is answered is either the one  *)
(* a read reported or says what is the case: a timeout that the budget was   *)
(* passed, LineageTooDeep that members beyond the bound were seen, too large *)
(* that the reveal is - and malformed data only of an ordinary eve or of a   *)
(* spend that is itself beyond the walk.  So no slow, big or long-lived      *)
(* singleton is answered as corrupt data, and none as an absence             *)
(* (src/error.rs, the docs of RevealTooLarge and of LineageTooDeep; walk.rs, *)
(* the comments of the projection).                                          *)
ErrorsSayWhatHappened ==
  HonestSource /\ Answer.kind = "failed" /\ ~ReportedByTheSource(Answer.error) =>
    \/ Answer.error = "Timeout" /\ elapsed > bounds.budget
    \/ /\ Answer.error = "LineageTooDeep"
       /\ Cardinality(members) > bounds.max_hops + 1
    \/ Answer.error = "RevealTooLarge" /\ current \in Heavy
    \/ Answer.error = "Malformed" /\ (EveIsOrdinary \/ BeyondTheWalk(current))
=============================================================================
