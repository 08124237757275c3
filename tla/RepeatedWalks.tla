----------------------------- MODULE RepeatedWalks -----------------------------
(***************************************************************************)
(* One caller resolving launchers again and again: what earlier answers     *)
(* still say when later ones are given.  A consumer keeps a lineage and     *)
(* asks contains of it (src/lineage.rs), so an answer that later answers    *)
(* contradict is authority granted or refused by mistake.                   *)
(***************************************************************************)
EXTENDS ViaWalk, LineageRefinement

VARIABLES
  answered,    \* per launcher id: what was answered since the last reorganisation
  steady       \* no block was lost since the call began

repeatVars == <<viaVars, answered, steady>>

(* The members of the last lineage, and whether an absence came after one. *)
NothingYet == [members |-> {}, ended |-> FALSE]

Remember(answer, before) ==
  IF answer.kind = "lineage" THEN [before EXCEPT !.members = answer.members]
  ELSE IF answer = Absent THEN [before EXCEPT !.ended = before.members # {}]
  ELSE before

Returns == pc # "done" /\ pc' = "done"

BlockLost == ~(spent \subseteq spent')

RepeatInit ==
  /\ ViaInit
  /\ answered = [id \in Coins |-> NothingYet]
  /\ steady = TRUE

RepeatNext ==
  /\ ViaNext
  /\ answered' = IF BlockLost THEN [id \in Coins |-> NothingYet]
                 ELSE IF Returns /\ steady
                 THEN [answered EXCEPT ![launcher_id] = Remember(result', @)]
                 ELSE answered
  /\ steady' = (pc' \in {"idle", "done"} \/ (steady /\ ~BlockLost))

RepeatSpec == RepeatInit /\ [][RepeatNext]_repeatVars

-----------------------------------------------------------------------------

(* While the chain loses no block, a coin once answered to be a member is a  *)
(* member in every later lineage, and a singleton answered as gone after it  *)
(* was answered as live never comes back - with sources that lose spends or  *)
(* forge solutions (an absence excepted), and bounds chosen anew each time:  *)
(* a partial or superseded lineage is never answered for a whole one         *)
(* (src/error.rs, the doc of LineageTooDeep).                                *)
LaterAnswersAgree ==
  [][/\ Faults \subseteq {"err", "lost_spend", "forged_spend"}
     /\ Returns /\ steady /\ result'.kind = "lineage"
     => /\ answered[launcher_id].members \subseteq result'.members
        /\ answered[launcher_id].ended => "forged_spend" \in Faults]_repeatVars

(* What the walk was answered and holds against the source is gone: the      *)
(* spend its coin's record spoke of, or the coin that spend created.         *)
GoneMeanwhile ==
  \/ pc = "hop" /\ current \notin spent
  \/ pc = "bind" /\ successor \notin created

(* A source that serves genuine answers, or fails, or does not know a spend, *)
(* is accused of inconsistent data only over a spend that is beyond the      *)
(* walk, or one the chain holds and it does not know - or if the very call   *)
(* lost a block, and then only over what is gone at that instant: a call     *)
(* between two reorganisations, and one whose own coins they spare, blames   *)
(* nobody (walk.rs, require_coin_exists and the doc of read_spend_of: a coin *)
(* or a spend that is gone reads like one the source never had).             *)
OnlyLossesAreBlamed ==
  [][/\ Faults \subseteq {"err", "lost_spend"}
     /\ Returns /\ result' = Failed("Malformed")
     => \/ BeyondTheWalk(current) /\ current \in spent
        \/ "lost_spend" \in Faults /\ pc = "hop" /\ current \in spent
        \/ ~steady /\ GoneMeanwhile]_repeatVars
=============================================================================
