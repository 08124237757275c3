------------------------------- MODULE Authority -------------------------------
(***************************************************************************)
(* What the crate is for (SPEC.md 4): a consumer authenticates a coin by    *)
(* walking parent_spend toward its launcher and then testing membership in  *)
(* that launcher's lineage.  The backward and the forward walk are two      *)
(* calls, over one source, of a chain that moves during and between them.   *)
(***************************************************************************)
EXTENDS LineageWalk, ParentWalk

VARIABLES
  deniable,   \* whether the coin was no member since it was asked about
  grantable   \* whether it was one since

historyVars == <<deniable, grantable>>
claimVars == <<chainVars, parentVars, walkVars, historyVars>>

-----------------------------------------------------------------------------

Decided == phase = "done" /\ (verdict.kind = "launcher" => pc = "done")

(* SingletonLineage::contains, of the lineage resolved. *)
Contains == result.kind = "lineage" /\ coin_id \in result.members

Authorized == Decided /\ verdict.kind = "launcher" /\ Contains

(* Reliably not a member.  Any error, and TooDeep, leave it unknown. *)
Denied ==
  /\ Decided
  /\ \/ verdict.kind = "not_a_singleton"
     \/ verdict.kind = "launcher" /\ result.kind # "failed" /\ ~Contains

(* The coin is not on chain, is no launcher's recreation, or its singleton   *)
(* is gone.                                                                  *)
NoMember ==
  \/ coin_id \notin created
  \/ \A l \in Launchers : IsRecreation(l, coin_id) => ~\E t \in Coins : IsTip(l, t)

-----------------------------------------------------------------------------

(* The consumer is handed a coin to authenticate. *)
Ask(id) ==
  /\ phase = "idle"
  /\ Authenticate(id)
  /\ deniable' = NoMember'
  /\ grantable' = ~NoMember'
  /\ UNCHANGED walkVars

Trace == ClimbStep /\ UNCHANGED <<walkVars, historyVars>>

(* The launcher found is the one whose lineage is resolved. *)
Resolve ==
  /\ phase = "done"
  /\ pc = "idle"
  /\ verdict.kind = "launcher"
  /\ \E hops \in Caps, budget \in Budgets :
       Call(verdict.launcher, hops, budget)
  /\ UNCHANGED <<parentVars, historyVars>>

Walk == WalkStep /\ UNCHANGED <<parentVars, historyVars>>

(* A block or a reorganisation, while the consumer is at either walk or      *)
(* between the two.                                                          *)
ChainMoved ==
  /\ ChainMoves(phase # "idle" /\ ~Decided)
  /\ UNCHANGED <<parentVars, walkVars>>
  /\ deniable' = (deniable \/ (phase # "idle" /\ ~Decided /\ NoMember'))
  /\ grantable' = (grantable \/ (phase # "idle" /\ ~Decided /\ ~NoMember'))

AuthorityInit == ParentInit /\ Init /\ deniable = FALSE /\ grantable = FALSE

ConsumerStep == Trace \/ Resolve \/ Walk

AuthorityNext ==
  \/ \E id \in Coins : Ask(id)
  \/ ConsumerStep
  \/ ChainMoved

(* The consumer runs on as long as every read returns. *)
AuthoritySpec == AuthorityInit /\ [][AuthorityNext]_claimVars /\ WF_claimVars(ConsumerStep)

-----------------------------------------------------------------------------
(* Properties.                                                             *)

(* No coin is authorized but the launcher's own or one of its recreations,   *)
(* whatever the source serves in either walk and whatever is reorganised     *)
(* between them: the two walks cannot be played against each other, though   *)
(* parent_spend alone follows anything it is served (SPEC.md 4: "an          *)
(* attacker's coin is never a member").                                      *)
AuthorityIsGenuine == Authorized => IsRecreation(verdict.launcher, coin_id)

(* Over a source that serves every record and spend, a coin denied really    *)
(* was no member at some instant since it was asked about (a launcher, that  *)
(* the backward walk starts above, excepted): however far blocks take the    *)
(* tip and whatever is reorganised between the two walks, a partial or stale *)
(* lineage never denies a genuine coin (src/error.rs, LineageTooDeep: "a     *)
(* fail-OPEN membership answer on a money path").                            *)
DenialWasTrue ==
  Faults \subseteq {"err", "unknown_height"} /\ Denied =>
    deniable \/ coin_id \in Launchers

(* Over a source whose coin records are the chain's own, whatever spends it   *)
(* forges or withholds, a coin authorized really was a member at some instant *)
(* since it was asked about: its singleton lived, with a tip, and the coin    *)
(* was on the chain.  The solution is bound to nothing the coin commits to    *)
(* (walk.rs, require_coin_exists), so that the records alone must stop a      *)
(* chain of spends that never happened; and the tip's record is read before   *)
(* its spend is, with blocks and reorganisations between the two.             *)
AuthorizationWasTrue ==
  Faults \cap {"unknown_height", "forged_record"} = {} /\ Authorized => grantable

(* Every coin asked about is decided, though two walks must end for it. *)
EveryClaimIsDecided == phase = "record" ~> Decided
=============================================================================
