----------------------------- MODULE LineageWalk -----------------------------
(***************************************************************************)
(* walk_singleton_lineage_within (src/walk.rs): the forward walk that       *)
(* resolves a launcher id to the singleton's current tip and its members,   *)
(* by one coin_record or coin_spend read at a time, while blocks and        *)
(* reorganisations change the chain between two reads.                      *)
(*                                                                         *)
(* Each read is one step: it takes its answer from a source that may        *)
(* misbehave in the ways Faults names, and the code up to the next read is  *)
(* part of the step.                                                        *)
(***************************************************************************)
EXTENDS Integers, FiniteSets, ChainSource

CONSTANTS
  MaxLineageDepth,  \* MAX_LINEAGE_DEPTH
  HopRequests,      \* the arguments callers pass to WalkBounds::hops
  Budgets,          \* the arguments callers pass to WalkBounds::within
  MaxRead,          \* the longest one read takes, in ticks
  MaxEval,          \* the longest authenticating one spend takes, in ticks
  Garbled,          \* the coins that wear a singleton layer that does not parse
  HopNodes,         \* the nodes authenticating the coin's spend allocates
  ArenaLimit        \* the most nodes one clvmr::Allocator holds

ASSUME WalkAssumption ==
  /\ MaxLineageDepth \in Nat
  /\ HopRequests \subseteq Nat
  /\ Budgets \subseteq Nat
  /\ MaxRead \in Nat
  /\ MaxEval \in Nat
  /\ Garbled \subseteq {c \in Coins : CurriedTo[c] = NoCoin}
  /\ HopNodes \in [Coins -> Nat]
  /\ ArenaLimit \in Nat

VARIABLES
  pc,             \* the read the walk makes next, or whether it has answered
  launcher_id,
  bounds,         \* WalkBounds { max_hops, budget }
  elapsed,        \* started.elapsed()
  hop,            \* how many iterations of the loop are finished
  members,
  current,
  current_spent,  \* current_spent_height.is_some()
  rule,           \* HopRule
  successor,      \* the coin derived from current's spend
  result          \* what the call returned

walkVars == <<pc, launcher_id, bounds, elapsed, hop, members, current,
              current_spent, rule, successor, result>>
vars == <<chainVars, walkVars>>

-----------------------------------------------------------------------------
(* Authenticating one spend.                                               *)

ErrorKinds == {"Source", "Malformed", "NotASingleton", "RevealTooLarge",
               "TooDeep", "DeadlineExceeded"}

Failed(e) == [kind |-> "failed", error |-> e]
Pending == [kind |-> "pending"]

(* A mistake: even-amount payments are taken for recreations. *)
AllOutputs(spend) == spend.emits

OddOutputs(spend) == spend.emits \cap Odd

(* read_spend_of: the first check that refuses the spend served for current, *)
(* in the order of the code; "none" if every one passes.                     *)
ReadRefusal(spend) ==
  IF spend.coin # current THEN "Malformed"
  ELSE IF spend.reveal = "undecodable" THEN "Malformed"
  ELSE IF spend.heavy THEN "RevealTooLarge"
  ELSE IF spend.reveal # "genuine" THEN "Malformed"
  ELSE "none"

(* A mistake: one allocator for the whole walk, which frees nothing. *)
ArenaNodesHoisted == (hop + 1) * HopNodes[current]

(* The allocator is created for this hop and dropped after it. *)
ArenaNodes == HopNodes[current]

(* parse_spend, for a reveal known to be genuine. *)
ParseRefused(spend) == spend.solution = "undecodable" \/ ArenaNodes > ArenaLimit

(* A mistake: the singleton layer of current is never looked for. *)
RuleRefusalWithoutLayer(spend) ==
  IF ParseRefused(spend) \/ spend.costly THEN "Malformed"
  ELSE IF \E j, k \in OddOutputs(spend) : j # k THEN "Malformed"
  ELSE "none"

(* successor_of: what refuses a spend that is current's own. *)
RuleRefusal(spend) ==
  IF ParseRefused(spend) THEN "Malformed"
  ELSE IF rule = "Recreate" /\ current \in Garbled THEN "Malformed"
  ELSE IF rule = "Recreate" /\ CurriedTo[current] # launcher_id
       THEN "NotASingleton"
  ELSE IF spend.costly THEN "Malformed"
  ELSE IF \E j, k \in OddOutputs(spend) : j # k THEN "Malformed"
  ELSE "none"

Refusal(spend) ==
  IF ReadRefusal(spend) # "none" THEN ReadRefusal(spend) ELSE RuleRefusal(spend)

-----------------------------------------------------------------------------
(* The walk.                                                               *)

Takes(ticks) == \E d \in 0..ticks : elapsed' = elapsed + d

Return(answer) ==
  /\ pc' = "done"
  /\ result' = answer
  /\ UNCHANGED <<launcher_id, bounds, hop, members, current, current_spent,
                 rule, successor>>

(* The loop's locals once the launcher's record is read. *)
EnterLoop(is_spent) ==
  /\ pc' = "hop"
  /\ current_spent' = is_spent
  /\ UNCHANGED <<launcher_id, bounds, hop, members, current, rule, successor,
                 result>>

(* The spend of current creates k, which the next read must find on chain. *)
Derive(k) ==
  /\ pc' = "bind"
  /\ successor' = k
  /\ UNCHANGED <<launcher_id, bounds, hop, members, current, current_spent,
                 rule, result>>

(* A mistake: the spent height of the coin before is kept. *)
AdvanceStale(is_spent) ==
  /\ pc' = "hop"
  /\ hop' = hop + 1
  /\ members' = members \cup {successor}
  /\ current' = successor
  /\ rule' = "Recreate"
  /\ successor' = NoCoin
  /\ UNCHANGED <<launcher_id, bounds, current_spent, result>>

(* The successor is admitted and the loop iterates. *)
Advance(is_spent) ==
  /\ pc' = "hop"
  /\ hop' = hop + 1
  /\ members' = members \cup {successor}
  /\ current' = successor
  /\ current_spent' = is_spent
  /\ rule' = "Recreate"
  /\ successor' = NoCoin
  /\ UNCHANGED <<launcher_id, bounds, result>>

(* A mistake: the caller's hop cap is taken as it is. *)
UnclampedHops(hops) == hops

(* WalkBounds::hops: no caller can widen the walk past MAX_LINEAGE_DEPTH. *)
ClampedHops(hops) == IF hops < MaxLineageDepth THEN hops ELSE MaxLineageDepth

(* A caller names a hop cap, or leaves it at the default. *)
Caps == HopRequests \cup {MaxLineageDepth}

(* The head of the walk; `within` takes any budget. *)
Call(id, hops, budget) ==
  /\ pc \in {"idle", "done"}
  /\ pc' = "launcher"
  /\ launcher_id' = id
  /\ bounds' = [max_hops |-> ClampedHops(hops), budget |-> budget]
  /\ elapsed' = 0
  /\ hop' = 0
  /\ members' = {id}
  /\ current' = id
  /\ current_spent' = FALSE
  /\ rule' = "Launch"
  /\ successor' = NoCoin
  /\ result' = Pending
  /\ UNCHANGED chainVars

(* read_launcher_coin, and the locals the loop starts from. *)
ReadLauncher ==
  /\ pc = "launcher"
  /\ Takes(MaxRead)
  /\ \E answer \in RecordAnswers(launcher_id) :
       \/ answer = ReadFails /\ Return(Failed("Source"))
       \/ answer = Nothing /\ Return(Absent)
       \/ /\ answer.kind = "some"
          /\ answer.coin # launcher_id
          /\ Return(Failed("Malformed"))
       \/ /\ answer.kind = "some"
          /\ answer.coin = launcher_id
          /\ launcher_id \notin Launchers
          /\ Return(Absent)
       \/ /\ answer.kind = "some"
          /\ answer.coin = launcher_id
          /\ launcher_id \in Launchers
          /\ EnterLoop(answer.spent)
  /\ UNCHANGED chainVars

(* A mistake: `for _hop in 0..max_hops`, one iteration short. *)
RefuseTooDeepEarly ==
  /\ pc = "hop"
  /\ hop >= bounds.max_hops
  /\ Return(Failed("TooDeep"))
  /\ UNCHANGED <<chainVars, elapsed>>

(* A mistake: the members gathered so far are answered as the lineage. *)
RefuseTooDeepPartial ==
  /\ pc = "hop"
  /\ hop > bounds.max_hops
  /\ Return(Lineage(current, members))
  /\ UNCHANGED <<chainVars, elapsed>>

(* The loop `for _hop in 0..=max_hops` is exhausted. *)
RefuseTooDeep ==
  /\ pc = "hop"
  /\ hop > bounds.max_hops
  /\ Return(Failed("TooDeep"))
  /\ UNCHANGED <<chainVars, elapsed>>

RefuseLate ==
  /\ pc = "hop"
  /\ hop <= bounds.max_hops
  /\ elapsed > bounds.budget
  /\ Return(Failed("DeadlineExceeded"))
  /\ UNCHANGED <<chainVars, elapsed>>

(* A mistake: the deadline is not looked at between hops. *)
MayReadSpendAnyTime ==
  /\ pc = "hop"
  /\ hop <= bounds.max_hops

(* The head of an iteration that goes on to read current's spend. *)
MayReadSpend ==
  /\ pc = "hop"
  /\ hop <= bounds.max_hops
  /\ elapsed <= bounds.budget

(* A mistake: no spend served is taken for an unspent coin. *)
ReadNoSpendTrusting ==
  /\ MayReadSpend
  /\ Takes(MaxRead)
  /\ \E answer \in SpendAnswers(current) :
       \/ answer = ReadFails /\ Return(Failed("Source"))
       \/ /\ answer = Nothing
          /\ Return(IF rule = "Launch" THEN Absent ELSE Lineage(current, members))
  /\ UNCHANGED chainVars

(* A mistake: a coin whose record was unspent is answered without reading    *)
(* its spend.                                                                *)
ReadNoSpendUnasked ==
  /\ MayReadSpend
  /\ Takes(MaxRead)
  /\ ~current_spent
  /\ Return(IF rule = "Launch" THEN Absent ELSE Lineage(current, members))
  /\ UNCHANGED chainVars

(* coin_spend fails or serves no spend: only current's own record, read      *)
(* earlier, tells the unspent tip from a spend the source cannot serve.      *)
ReadNoSpend ==
  /\ MayReadSpend
  /\ Takes(MaxRead)
  /\ \E answer \in SpendAnswers(current) :
       \/ answer = ReadFails /\ Return(Failed("Source"))
       \/ answer = Nothing /\ current_spent /\ Return(Failed("Malformed"))
       \/ /\ answer = Nothing
          /\ ~current_spent
          /\ Return(IF rule = "Launch" THEN Absent ELSE Lineage(current, members))
  /\ UNCHANGED chainVars

(* coin_spend serves a spend: it is refused, melts the singleton, or names   *)
(* the successor.                                                            *)
ReadSpend ==
  /\ MayReadSpend
  /\ Takes(MaxRead + MaxEval)
  /\ \E spend \in SpendAnswers(current) :
       /\ spend.kind = "some"
       /\ \/ /\ Refusal(spend) # "none"
             /\ Return(Failed(Refusal(spend)))
          \/ /\ Refusal(spend) = "none"
             /\ OddOutputs(spend) = {}
             /\ Return(Absent)
          \/ /\ Refusal(spend) = "none"
             /\ \E k \in OddOutputs(spend) : Derive(k)
  /\ UNCHANGED chainVars

(* require_coin_exists: the record is of the very coin that was derived. *)
Confirms(answer) == answer.kind = "some" /\ answer.coin = successor

(* admit_member refuses a coin that repeats. *)
Admits == successor \notin members

(* A mistake: a successor without a record sends the walk back to the spend. *)
BindSuccessorRetrying ==
  /\ pc = "bind"
  /\ Takes(MaxRead)
  /\ \E answer \in RecordAnswers(successor) :
       \/ /\ answer = Nothing
          /\ pc' = "hop"
          /\ UNCHANGED <<launcher_id, bounds, hop, members, current,
                         current_spent, rule, successor, result>>
       \/ Confirms(answer) /\ Admits /\ Advance(answer.spent)
  /\ UNCHANGED chainVars

(* A mistake: a successor no record confirms is followed. *)
BindSuccessorUnseen ==
  /\ pc = "bind"
  /\ Takes(MaxRead)
  /\ \E answer \in RecordAnswers(successor) :
       \/ answer = ReadFails /\ Return(Failed("Source"))
       \/ answer = Nothing /\ Advance(FALSE)
       \/ Confirms(answer) /\ Advance(answer.spent)
  /\ UNCHANGED chainVars

(* The derived successor must be on chain before it becomes a member. *)
BindSuccessor ==
  /\ pc = "bind"
  /\ Takes(MaxRead)
  /\ \E answer \in RecordAnswers(successor) :
       \/ answer = ReadFails /\ Return(Failed("Source"))
       \/ /\ answer # ReadFails
          /\ ~(Confirms(answer) /\ Admits)
          /\ Return(Failed("Malformed"))
       \/ Confirms(answer) /\ Admits /\ Advance(answer.spent)
  /\ UNCHANGED chainVars

-----------------------------------------------------------------------------

Init ==
  /\ ChainInit
  /\ pc = "idle"
  /\ launcher_id = NoCoin
  /\ bounds = [max_hops |-> 0, budget |-> 0]
  /\ elapsed = 0
  /\ hop = 0
  /\ members = {}
  /\ current = NoCoin
  /\ current_spent = FALSE
  /\ rule = "Launch"
  /\ successor = NoCoin
  /\ result = Pending

WalkStep ==
  \/ ReadLauncher
  \/ RefuseTooDeep
  \/ RefuseLate
  \/ ReadNoSpend
  \/ ReadSpend
  \/ BindSuccessor

ChainStep == ChainMoves(pc \notin {"idle", "done"}) /\ UNCHANGED walkVars

Next ==
  \/ \E id \in Coins, hops \in Caps, budget \in Budgets :
       Call(id, hops, budget)
  \/ WalkStep
  \/ ChainStep

(* The walk is one synchronous loop: once called it runs on as long as every *)
(* read returns.  Nothing obliges callers to call or the chain to move.      *)
Spec == Init /\ [][Next]_vars /\ WF_vars(WalkStep)

-----------------------------------------------------------------------------
(* Properties.                                                             *)

Answers ==
  {Absent, Pending} \cup {Failed(e) : e \in ErrorKinds}
  \cup [kind : {"lineage"}, tip : Coins, members : SUBSET Coins]

(* Every variable keeps its type: the walk's locals, the bounds its caller   *)
(* chose, and the answer it returned.                                        *)
TypeOK ==
  /\ created \subseteq Coins
  /\ spent \subseteq Coins
  /\ pc \in {"idle", "launcher", "hop", "bind", "done"}
  /\ launcher_id \in Coins \cup {NoCoin}
  /\ bounds \in [max_hops : 0..MaxLineageDepth, budget : Nat]
  /\ elapsed \in Nat
  /\ hop \in Nat
  /\ members \subseteq Coins
  /\ current \in Coins \cup {NoCoin}
  /\ current_spent \in BOOLEAN
  /\ rule \in {"Launch", "Recreate"}
  /\ successor \in Coins \cup {NoCoin}
  /\ result \in Answers
  /\ pc # "idle" => {launcher_id, current} \subseteq Coins
  /\ pc = "bind" => successor \in Coins

(* The members of an answered lineage are exactly one unbroken chain of      *)
(* parent links from the launcher to the tip, and every one of them but the  *)
(* launcher is an odd coin curried to this launcher (an unspent eve excepted): *)
(* whatever the source serves, forged solutions and records included, a coin *)
(* that merely wears a matching puzzle is never a member (SPEC 4a, 1).       *)
MembersAreRecreations ==
  result.kind = "lineage" =>
    /\ result.members = Path(launcher_id, result.tip)
    /\ IsRecreation(launcher_id, result.tip)
    /\ result.tip # launcher_id

(* The source answers every read from the chain, or with an error, and the   *)
(* chain loses no block.                                                     *)
HonestSource == Faults \subseteq {"err"} /\ "reorg" \notin Churn

(* The spends a block may hold that the walk refuses as malformed: too dear  *)
(* or too rich, of a layer that does not parse, too big for an allocator.    *)
BeyondTheWalk(c) == c \in Costly \cup Garbled \/ HopNodes[c] > ArenaLimit

(* A source that answers every read from the chain, or with an error, and    *)
(* whose chain loses no block is accused of inconsistent data only over the  *)
(* very spend that is beyond the walk: never by a walk that blocks overtake  *)
(* (walk.rs, the comment on `alloc`), and never by a long walk none of whose *)
(* spends is too big for an allocator of its own (the doc of successor_of).  *)
HonestNeverBlamed ==
  HonestSource /\ result = Failed("Malformed") =>
    current \in spent /\ BeyondTheWalk(current)

(* Only a coin whose spend the source served and the chain agrees on can be  *)
(* declared no singleton, and only the eve: every later coin's puzzle was    *)
(* derived with the launcher id in it.                                       *)
OnlyTheEveIsRejected ==
  result = Failed("NotASingleton") =>
    /\ Parent[current] = launcher_id
    /\ CurriedTo[current] # launcher_id
    /\ "forged_spend" \notin Faults /\ "reorg" \notin Churn => current \in spent

(* TooDeep never hides an answer within the bound: the launcher's lineage    *)
(* really holds more spends than the caller's hop cap.  And no answer passes *)
(* the bound: one with more spends than the cap is never given, nor are more *)
(* members gathered on the way than the clamp allows: the launcher, the coin *)
(* each of its max_hops + 1 iterations derives, and no third past the bound  *)
(* (walk.rs, the doc of MAX_LINEAGE_DEPTH, says "capped at this many").      *)
TooDeepIsBeyondTheBound ==
  /\ result = Failed("TooDeep") =>
       /\ Faults \subseteq {"err", "lost_spend", "unknown_height"} /\ "reorg" \notin Churn
            => Cardinality(members \cap spent) > bounds.max_hops
       /\ Cardinality(members) > bounds.max_hops + 1
  /\ result.kind = "lineage" => Cardinality(result.members) <= bounds.max_hops + 1
  /\ Cardinality(members) <= MaxLineageDepth + 2

(* The wall clock is only looked at between hops, so a walk returns within   *)
(* its budget plus one worst-case hop (SPEC 4a, 5).                          *)
BudgetPlusOneHop ==
  /\ elapsed <= bounds.budget + 2 * MaxRead + MaxEval
  /\ result = Failed("DeadlineExceeded") => elapsed > bounds.budget

(* At the moment a lineage is answered its tip is unspent: a block that       *)
(* spends the tip between the read of its record and the read of its spend   *)
(* does not make the walk name a superseded coin (walk.rs, doc of            *)
(* read_spend_of: "`Ok(None)` means the coin is genuinely UNSPENT").         *)
TipIsUnspent ==
  [][result'.kind = "lineage" /\ result' # result => result'.tip \notin spent]_vars

(* `max_hops` counts the spends followed: the last read follows no spend     *)
(* (walk.rs, the comment on the loop), so a spend is followed only while     *)
(* fewer than max_hops spends have been.                                     *)
FollowsAtMostMaxHops ==
  [][pc = "hop" /\ pc' = "bind" => hop < bounds.max_hops]_vars

(* The steps a call has left at most: the launcher's record, and two reads   *)
(* an iteration.                                                             *)
StepsLeft ==
  CASE pc = "launcher" -> 2 * bounds.max_hops + 4
    [] pc = "hop"      -> 2 * (bounds.max_hops + 1 - hop) + 1
    [] pc = "bind"     -> 2 * (bounds.max_hops + 1 - hop)
    [] OTHER           -> 0

(* A call ends after at most 2 * MAX_LINEAGE_DEPTH + 4 steps: every one       *)
(* brings it nearer its answer, whatever is served and wherever the chain    *)
(* has gone since the last one (walk.rs, the doc of MAX_LINEAGE_DEPTH: "a    *)
(* hostile or malformed source cannot make the walk loop forever").          *)
EveryStepNearsTheAnswer ==
  [][walkVars' # walkVars /\ pc \in {"launcher", "hop", "bind"}
     => /\ StepsLeft <= 2 * MaxLineageDepth + 4
        /\ 0 <= StepsLeft' /\ StepsLeft' < StepsLeft]_vars

(* Every call is answered, however the chain moves under the walk and        *)
(* whatever the source serves, as long as every read returns.                *)
EveryCallIsAnswered == pc = "launcher" ~> pc = "done"
=============================================================================
