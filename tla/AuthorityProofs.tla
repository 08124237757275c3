--------------------------- MODULE AuthorityProofs ---------------------------
(***************************************************************************)
(* A consumer that composes the two walks never authorizes a coin that is   *)
(* no recreation, for every universe of coins, every bound and every fault. *)
(* Each step of the consumer is a step of either walk or of the chain, so   *)
(* the invariants of both walks hold of it.                                 *)
(***************************************************************************)
EXTENDS Authority, LineageWalkProofs, ParentWalkProofs

(* The forward walk is called once, when the backward walk has answered, and *)
(* for the launcher it answered.                                             *)
Handover ==
  /\ verdict \in {Undecided, NotASingleton, TooDeep, ReadError}
                 \cup {Launcher(l) : l \in Coins}
  /\ pc # "idle" =>
       /\ phase = "done"
       /\ verdict = Launcher(launcher_id)

LEMMA LauncherNamed ==
  ASSUME Handover, verdict.kind = "launcher"
  PROVE  \E l \in Coins : verdict = Launcher(l) /\ verdict.launcher = l
  BY DEF Handover, Undecided, NotASingleton, TooDeep, ReadError, Launcher

(* The backward walk sees the consumer's other steps as stutters.            *)
LEMMA ClaimStepClimbs == [AuthorityNext]_claimVars => [ParentNext]_climbVars
<1> SUFFICES ASSUME [AuthorityNext]_claimVars PROVE [ParentNext]_climbVars
  OBVIOUS
<1>1. CASE \E id \in Coins : Ask(id)
  BY <1>1 DEF Ask, ParentNext
<1>2. CASE Trace
  BY <1>2 DEF Trace, ParentNext
<1>3. CASE Resolve
  BY <1>3 DEF Resolve, Call, climbVars
<1>4. CASE Walk
  BY <1>4 DEF Walk, WalkStep, ReadLauncher, RefuseTooDeep, RefuseLate, ReadNoSpend,
              ReadSpend, BindSuccessor, climbVars
<1>5. CASE ChainMoved
  <2>1. phase \notin {"idle", "done"} => phase # "idle" /\ ~Decided
    BY DEF Decided
  <2>2. ChainMoves(phase \notin {"idle", "done"})
    BY <1>5, <2>1 DEF ChainMoved, ChainMoves
  <2>3. QED
    BY <1>5, <2>2 DEF ChainMoved, ParentNext
<1>6. CASE UNCHANGED claimVars
  BY <1>6 DEF claimVars, climbVars
<1>7. QED
  BY <1>1, <1>2, <1>3, <1>4, <1>5, <1>6 DEF AuthorityNext, ConsumerStep

(* So does the forward walk, which is called only for a coin.                *)
LEMMA ClaimStepWalks == Handover /\ [AuthorityNext]_claimVars => [Next]_vars
<1> SUFFICES ASSUME Handover, [AuthorityNext]_claimVars PROVE [Next]_vars
  OBVIOUS
<1>1. CASE \E id \in Coins : Ask(id)
  BY <1>1 DEF Ask, Authenticate, vars
<1>2. CASE Trace
  BY <1>2 DEF Trace, ClimbStep, GiveUp, ReadChildRecord, ReadParentSpend, vars
<1>3. CASE Resolve
  <2>1. verdict.launcher \in Coins
    BY <1>3, LauncherNamed DEF Resolve
  <2>2. QED
    BY <1>3, <2>1 DEF Resolve, Next
<1>4. CASE Walk
  BY <1>4 DEF Walk, Next
<1>5. CASE ChainMoved
  <2>1. pc \notin {"idle", "done"} => phase # "idle" /\ ~Decided
    <3>1. Launcher(launcher_id).kind = "launcher"
      BY DEF Launcher
    <3>2. QED
      BY <3>1 DEF Handover, Decided
  <2>2. ChainMoves(pc \notin {"idle", "done"})
    BY <1>5, <2>1 DEF ChainMoved, ChainMoves
  <2>3. QED
    BY <1>5, <2>2 DEF ChainMoved, ChainStep, Next
<1>6. CASE UNCHANGED claimVars
  BY <1>6 DEF claimVars, vars
<1>7. QED
  BY <1>1, <1>2, <1>3, <1>4, <1>5, <1>6 DEF AuthorityNext, ConsumerStep

LEMMA HandoverInit == AuthorityInit => Handover
  BY DEF AuthorityInit, ParentInit, Init, Handover

LEMMA WalkStepKeepsLauncher ==
  ASSUME WalkStep
  PROVE  launcher_id' = launcher_id /\ pc \notin {"idle", "done"}
  BY DEF WalkStep, ReadLauncher, RefuseTooDeep, RefuseLate, ReadNoSpend, ReadSpend,
         BindSuccessor, MayReadSpend, Return, EnterLoop, Derive, Advance

LEMMA HandoverStep ==
  Handover /\ TypeInv' /\ [AuthorityNext]_claimVars => Handover'
<1> SUFFICES ASSUME Handover, TypeInv', [AuthorityNext]_claimVars PROVE Handover'
  OBVIOUS
<1>v. verdict' \in {Undecided, NotASingleton, TooDeep, ReadError}
                   \cup {Launcher(l) : l \in Coins}
  BY DEF TypeInv, ParentTypeOK, Undecided, NotASingleton, TooDeep, ReadError, Launcher
<1>1. CASE \E id \in Coins : Ask(id)
  BY <1>1, <1>v DEF Ask, walkVars, Handover
<1>2. CASE Trace
  BY <1>2, <1>v DEF Trace, ClimbStep, GiveUp, ReadChildRecord, MayClimb,
                    ReadParentSpend, walkVars, Handover
<1>3. CASE Resolve
  BY <1>3, <1>v, LauncherNamed DEF Resolve, Call, parentVars, Handover
<1>4. CASE Walk
  BY <1>4, <1>v, WalkStepKeepsLauncher DEF Walk, parentVars, Handover, Launcher
<1>5. CASE ChainMoved
  BY <1>5, <1>v DEF ChainMoved, parentVars, walkVars, Handover, Launcher
<1>6. CASE UNCHANGED claimVars
  BY <1>6, <1>v DEF claimVars, parentVars, walkVars, Handover, Launcher
<1>7. QED
  BY <1>1, <1>2, <1>3, <1>4, <1>5, <1>6 DEF AuthorityNext, ConsumerStep

ClaimInv == TypeInv /\ Handover /\ PathInv

LEMMA ClaimInit == AuthorityInit => ClaimInv
  BY TypeInit, HandoverInit, PathInit DEF AuthorityInit, ClaimInv

LEMMA ClaimStep == ClaimInv /\ [AuthorityNext]_claimVars => ClaimInv'
<1> SUFFICES ASSUME ClaimInv, [AuthorityNext]_claimVars PROVE ClaimInv'
  OBVIOUS
<1>1. TypeInv'
  BY TypeStep, ClaimStepClimbs DEF ClaimInv
<1>2. Handover'
  BY <1>1, HandoverStep DEF ClaimInv
<1>3. PathInv'
  BY PathStep, ClaimStepWalks DEF ClaimInv
<1>4. QED
  BY <1>1, <1>2, <1>3 DEF ClaimInv

-----------------------------------------------------------------------------

(* Every coin between the launcher and a recreation is one.                  *)
LEMMA MembersAreMembers ==
  ASSUME NEW l \in Coins, NEW t \in Coins, IsRecreation(l, t),
         NEW c \in Path(l, t)
  PROVE  IsRecreation(l, c)
<1>1. c \in Ancestry[t] /\ l \in Ancestry[c]
  BY DEF Path
<1>c. c \in Coins
  BY <1>1, AncestryReflexive
<1>2. Path(l, c) \subseteq Path(l, t)
  BY <1>1, <1>c, AncestryTransitive, AncestryReflexive DEF Path
<1>3. ASSUME NEW m \in Path(l, c) \ {l}
      PROVE  m \in Odd /\ (CurriedTo[m] = l \/ (m = c /\ Parent[c] = l))
  <2>1. m \in Odd /\ (CurriedTo[m] = l \/ (m = t /\ Parent[t] = l))
    BY <1>2, <1>3 DEF IsRecreation
  <2>2. CASE m = t
    <3>1. c = t
      BY <1>1, <1>c, <1>3, <2>2, AncestryAntisymmetric DEF Path
    <3>2. QED
      BY <2>1, <3>1
  <2>3. QED
    BY <2>1, <2>2
<1>4. QED
  BY <1>1, <1>3 DEF IsRecreation

(* A consumer that authenticates as SPEC.md 4 asks authorizes only the       *)
(* launcher's own recreations, whatever is served to either walk.            *)
THEOREM AuthorityCorrect == AuthoritySpec => []AuthorityIsGenuine
<1>1. ClaimInv => AuthorityIsGenuine
  <2> SUFFICES ASSUME ClaimInv, Authorized
               PROVE  IsRecreation(verdict.launcher, coin_id)
    BY DEF AuthorityIsGenuine
  <2>1. result.kind = "lineage" /\ coin_id \in result.members /\ verdict.kind = "launcher"
    BY DEF Authorized, Contains
  <2>2. /\ result.members = Path(launcher_id, result.tip)
        /\ IsRecreation(launcher_id, result.tip)
    BY <2>1 DEF ClaimInv, PathInv, MembersAreRecreations
  <2>3. pc # "idle"
    BY DEF Authorized, Decided
  <2>4. verdict.launcher = launcher_id
    BY <2>3 DEF ClaimInv, Handover, Launcher
  <2>5. launcher_id \in Coins /\ result.tip \in Coins
    BY <2>1, <2>2, <2>3 DEF ClaimInv, PathInv, TypedChain, TypeOK, Answers, Absent,
       Pending, Failed
  <2>6. QED
    BY <2>1, <2>2, <2>4, <2>5, MembersAreMembers
<1>2. QED
  BY <1>1, ClaimInit, ClaimStep, PTL DEF AuthoritySpec

(* The consumer's behaviours are behaviours of either walk, so the safety    *)
(* theorems about each hold of the two composed, over a chain they share.    *)
THEOREM ClaimIsBothWalks ==
  AuthoritySpec => /\ ParentInit /\ [][ParentNext]_climbVars
                   /\ Init /\ [][Next]_vars
<1>1. AuthorityInit => ParentInit /\ Init
  BY DEF AuthorityInit
<1>2. ClaimInv /\ [AuthorityNext]_claimVars => [Next]_vars
  BY ClaimStepWalks DEF ClaimInv
<1>3. QED
  BY <1>1, <1>2, ClaimStepClimbs, ClaimInit, ClaimStep, PTL DEF AuthoritySpec

(* Nor does the composition stop the backward walk from finding the nearest  *)
(* launcher over genuine data.                                               *)
THEOREM ClaimLauncherCorrect == AuthoritySpec => [](LauncherIsTheNearest /\ TooDeepIsTooFar)
<1>1. WayUpInv => LauncherIsTheNearest /\ TooDeepIsTooFar
  BY DEF WayUpInv, VerdictInv
<1>2. AuthorityInit => WayUpInv
  BY WayUpInit DEF AuthorityInit
<1>3. WayUpInv /\ [AuthorityNext]_claimVars => WayUpInv'
  BY WayUpInvStep, ClaimStepClimbs
<1>4. QED
  BY <1>1, <1>2, <1>3, PTL DEF AuthoritySpec

-----------------------------------------------------------------------------
(* A denial was true.                                                      *)

(* Above the launcher answered is only what is above the launcher. *)
LauncherSplits ==
  GenuineData => \A l \in Coins : verdict = Launcher(l) =>
    Ancestry[coin_id] = Path(l, coin_id) \cup Ancestry[l]

UndecidedOnTheWayUp == phase \in {"record", "spend"} => verdict = Undecided

(* Every instant at which the coin is no member is noted. *)
Watched == phase # "idle" /\ ~Decided /\ NoMember => deniable

(* The forward walk is on the coin's own line, above it or below it, unless  *)
(* the coin was no member since: a reorganisation may have taken the walk's  *)
(* current off the chain, but not off the line.                              *)
OnTheCoinsLine ==
  ServesEverything /\ pc \in {"hop", "bind"} =>
    \/ deniable
    \/ coin_id \in Launchers
    \/ coin_id \in Ancestry[current]
    \/ current \in Ancestry[coin_id]

DenialInv ==
  /\ ClaimInv /\ WayUpInv
  /\ UndecidedOnTheWayUp /\ LauncherSplits
  /\ Watched /\ OnTheCoinsLine /\ DenialWasTrue

LEMMA ServedIsGenuine ==
  ASSUME ServesEverything
  PROVE  GenuineData
  BY DEF ServesEverything, GenuineData

(* A coin that is no launcher and is a member is one of the singleton of the *)
(* launcher the backward walk answered: that launcher's puzzle is curried to *)
(* nothing, so no other singleton passes through it.                         *)
LEMMA MemberOfTheNearest ==
  ASSUME WayUpInv, LauncherSplits, GenuineData, coin_id \in Coins, coin_id \notin Launchers,
         NEW l \in Coins, verdict = Launcher(l), ~NoMember
  PROVE  /\ coin_id \in created
         /\ l \in Launchers /\ l \in Ancestry[coin_id] \ {coin_id}
         /\ IsRecreation(l, coin_id)
         /\ \E t \in Coins : IsTip(l, t)
<1>1. /\ l \in LaunchersAbove(coin_id)
      /\ Path(l, coin_id) \cap LaunchersAbove(coin_id) = {l}
      /\ Ancestry[coin_id] = Path(l, coin_id) \cup Ancestry[l]
  BY DEF WayUpInv, VerdictInv, LauncherIsTheNearest, LauncherSplits
<1>2. PICK m \in Launchers : IsRecreation(m, coin_id) /\ \E t \in Coins : IsTip(m, t)
  BY DEF NoMember
<1>3. m \in Coins /\ m # NoCoin /\ m \in LaunchersAbove(coin_id)
  BY <1>2, CoinsAssumption DEF IsRecreation, LaunchersAbove
<1>4. m = l
  <2>1. CASE m \in Path(l, coin_id)
    BY <1>1, <1>3, <2>1
  <2>2. CASE m \in Ancestry[l]
    <3>1. SUFFICES ASSUME m # l PROVE FALSE
      OBVIOUS
    <3>2. l \in Path(m, coin_id) \ {m} /\ l # coin_id
      BY <1>1, <2>2, <3>1 DEF Path, LaunchersAbove
    <3>3. CurriedTo[l] = m
      BY <1>2, <3>2 DEF IsRecreation
    <3>4. CurriedTo[l] = NoCoin
      BY <1>1, CoinsAssumption DEF LaunchersAbove
    <3>5. QED
      BY <1>3, <3>3, <3>4
  <2>3. QED
    BY <1>1, <1>3, <2>1, <2>2 DEF LaunchersAbove
<1>5. QED
  BY <1>1, <1>2, <1>4 DEF LaunchersAbove, NoMember

LEMMA DenialInit == AuthorityInit => DenialInv
<1> SUFFICES ASSUME AuthorityInit PROVE DenialInv
  OBVIOUS
<1>1. ClaimInv /\ WayUpInv
  BY ClaimInit, WayUpInit DEF AuthorityInit
<1>2. phase = "idle" /\ pc = "idle" /\ verdict = Undecided
  BY DEF AuthorityInit, ParentInit, Init
<1>3. QED
  BY <1>1, <1>2, VerdictsDiffer
     DEF DenialInv, UndecidedOnTheWayUp, LauncherSplits, Watched, OnTheCoinsLine,
         DenialWasTrue, Denied, Decided

LEMMA SplitsStep ==
  WayUpInv /\ LauncherSplits /\ UndecidedOnTheWayUp /\ [ParentNext]_climbVars
    => LauncherSplits' /\ UndecidedOnTheWayUp'
<1> SUFFICES ASSUME WayUpInv, LauncherSplits, UndecidedOnTheWayUp, [ParentNext]_climbVars
             PROVE  LauncherSplits' /\ UndecidedOnTheWayUp'
  OBVIOUS
<1>g. GenuineData' = GenuineData /\ \A l, k : Path(l, k)' = Path(l, k)
  BY DEF GenuineData, Path
<1>n. ASSUME verdict' \in {Undecided, NotASingleton, TooDeep, ReadError} PROVE LauncherSplits'
  BY <1>n, VerdictsDiffer DEF LauncherSplits
<1>1. ASSUME NEW id \in Coins, Authenticate(id)
      PROVE  LauncherSplits' /\ UndecidedOnTheWayUp'
  BY <1>n, <1>1 DEF Authenticate, UndecidedOnTheWayUp
<1>2. CASE GiveUp
  BY <1>n, <1>2 DEF GiveUp, Conclude, UndecidedOnTheWayUp
<1>3. CASE ReadChildRecord
  BY <1>n, <1>3 DEF ReadChildRecord, MayClimb, Conclude, UndecidedOnTheWayUp
<1>4. CASE ReadParentSpend
  <2>1. PICK answer \in ParentSpendAnswers : ReadParentSpend!2!(answer)
    BY <1>4 DEF ReadParentSpend
  <2>2. phase = "spend" /\ verdict = Undecided /\ coin_id \in Coins /\ child \in Coins
    BY <1>4 DEF ReadParentSpend, UndecidedOnTheWayUp, WayUpInv, TypeInv, ParentTypeOK
  <2>3. CASE answer.kind = "some" /\ Conclude(Launcher(answer.coin))
    <3>1. phase' = "done" /\ verdict' = Launcher(answer.coin) /\ coin_id' = coin_id
      BY <2>3 DEF Conclude
    <3>2. ASSUME GenuineData
          PROVE  Ancestry[coin_id] = Path(answer.coin, coin_id) \cup Ancestry[answer.coin]
      <4>1. Climbed /\ answer.coin = parent_id /\ parent_id \in Coins
        BY <2>2, <2>3, <3>2, GenuineParentSpend DEF WayUpInv, OnTheWayUp
      <4>2. Parent[child] = parent_id /\ child \in Ancestry[coin_id]
            /\ Ancestry[coin_id] = Path(child, coin_id) \cup Ancestry[child]
        BY <2>2, <4>1 DEF Climbed
      <4>3. QED
        BY <2>2, <4>1, <4>2, PathFromParent
    <3>3. QED
      BY <1>g, <3>1, <3>2, VerdictsDiffer DEF LauncherSplits, UndecidedOnTheWayUp
  <2>4. QED
    BY <1>n, <2>1, <2>2, <2>3 DEF Conclude, Climb, UndecidedOnTheWayUp
<1>5. CASE UNCHANGED parentVars
  BY <1>5, <1>g DEF parentVars, LauncherSplits, UndecidedOnTheWayUp
<1>6. QED
  BY <1>1, <1>2, <1>3, <1>4, <1>5 DEF ParentNext, ClimbStep, climbVars

(* What each of the consumer's own steps leaves of the question it asked.    *)
LEMMA ConsumerKeepsQuestion ==
  ASSUME ClaimInv, ConsumerStep
  PROVE  /\ phase # "idle" /\ ~Decided
         /\ UNCHANGED <<created, spent, coin_id, deniable, grantable>>
         /\ NoMember' = NoMember
<1>1. \A l : Launcher(l).kind = "launcher"
  BY DEF Launcher
<1>2. CASE Trace
  BY <1>2 DEF Trace, ClimbStep, GiveUp, ReadChildRecord, MayClimb, ReadParentSpend,
              Conclude, Climb, Decided, chainVars, historyVars, NoMember, IsTip, IsRecreation, Path
<1>3. CASE Resolve
  BY <1>3 DEF Resolve, Call, Decided, parentVars, chainVars, historyVars, NoMember, IsTip,
              IsRecreation, Path
<1>4. CASE Walk
  <2>1. pc \notin {"idle", "done"}
    BY <1>4, WalkStepKeepsLauncher DEF Walk
  <2>2. phase = "done" /\ verdict = Launcher(launcher_id)
    BY <2>1 DEF ClaimInv, Handover
  <2>3. ~Decided
    BY <1>1, <2>1, <2>2 DEF Decided
  <2>4. UNCHANGED <<created, spent>>
    BY <1>4 DEF Walk, WalkStep, ReadLauncher, RefuseTooDeep, RefuseLate, ReadNoSpend,
                ReadSpend, BindSuccessor, chainVars
  <2>5. QED
    BY <1>4, <2>2, <2>3, <2>4
       DEF Walk, parentVars, historyVars, NoMember, IsTip, IsRecreation, Path
<1>5. QED
  BY <1>2, <1>3, <1>4 DEF ConsumerStep

LEMMA WatchedStep == ClaimInv /\ Watched /\ [AuthorityNext]_claimVars => Watched'
<1> SUFFICES ASSUME ClaimInv, Watched, [AuthorityNext]_claimVars PROVE Watched'
  OBVIOUS
<1>1. CASE \E id \in Coins : Ask(id)
  BY <1>1 DEF Ask, Watched
<1>2. CASE ConsumerStep
  BY <1>2, ConsumerKeepsQuestion DEF Watched
<1>3. CASE ChainMoved
  <2>1. phase' = phase /\ Decided' = Decided
    BY <1>3 DEF ChainMoved, parentVars, walkVars, Decided
  <2>2. deniable' = (deniable \/ (phase # "idle" /\ ~Decided /\ NoMember'))
    BY <1>3 DEF ChainMoved
  <2>3. QED
    BY <2>1, <2>2 DEF Watched
<1>4. CASE UNCHANGED claimVars
  BY <1>4 DEF claimVars, historyVars, chainVars, parentVars, walkVars, Watched, Decided, NoMember,
              IsTip, IsRecreation, Path
<1>5. QED
  BY <1>1, <1>2, <1>3, <1>4 DEF AuthorityNext

(* What the source says of a coin, when it serves every record and spend.    *)
LEMMA ServedRecord ==
  ASSUME ServesEverything, NEW id \in Coins, NEW answer \in RecordAnswers(id)
  PROVE  /\ answer.kind = "some" => answer.coin = id /\ id \in created
         /\ answer = Nothing => id \notin created
<1>1. \A c, s : Record(c, s).coin = c /\ Record(c, s) # Nothing
  BY DEF Record, Nothing
<1>2. Nothing.kind # "some" /\ ReadFails.kind # "some" /\ ReadFails # Nothing
  BY DEF Nothing, ReadFails
<1>3. QED
  BY <1>1, <1>2 DEF RecordAnswers, If, ServesEverything

LEMMA ServedSpend ==
  ASSUME ServesEverything, NEW id \in Coins, NEW answer \in SpendAnswers(id)
  PROVE  /\ answer.kind = "some" => id \in spent /\ answer.emits = Kids(id)
         /\ answer = Nothing => id \notin spent
<1>1. Nothing.kind # "some" /\ ReadFails.kind # "some" /\ ReadFails # Nothing
  BY DEF Nothing, ReadFails
<1>2. GenuineSpend(id) # Nothing /\ GenuineSpend(id).emits = Kids(id)
  BY DEF GenuineSpend, CoinSpend, Nothing
<1>3. QED
  BY <1>1, <1>2 DEF SpendAnswers, If, ServesEverything

(* The walk is for the launcher that was answered, and that is the nearest.  *)
LEMMA WalkIsForNearest ==
  ASSUME DenialInv, ServesEverything, pc # "idle"
  PROVE  /\ coin_id \in Coins /\ launcher_id \in Coins /\ verdict = Launcher(launcher_id)
         /\ phase = "done"
         /\ launcher_id \in LaunchersAbove(coin_id)
         /\ ChainOK /\ OneLine /\ PathInv /\ TypeOK
<1>1. /\ phase = "done" /\ verdict = Launcher(launcher_id)
      /\ PathInv /\ TypeOK /\ TypeInv
  BY DEF DenialInv, ClaimInv, Handover, PathInv, TypedChain
<1>2. launcher_id \in Coins /\ coin_id \in Coins
  BY <1>1 DEF TypeOK, TypeInv, ParentTypeOK
<1>3. launcher_id \in LaunchersAbove(coin_id)
  BY <1>1, <1>2, ServedIsGenuine DEF DenialInv, WayUpInv, VerdictInv, LauncherIsTheNearest
<1>4. QED
  BY <1>1, <1>2, <1>3 DEF TypeInv

LEMMA LineStep == DenialInv /\ [AuthorityNext]_claimVars => OnTheCoinsLine'
<1> SUFFICES ASSUME DenialInv, [AuthorityNext]_claimVars, ServesEverything,
                    pc' \in {"hop", "bind"}
             PROVE  \/ deniable' \/ coin_id' \in Launchers
                    \/ coin_id' \in Ancestry[current'] \/ current' \in Ancestry[coin_id']
  BY DEF OnTheCoinsLine, ServesEverything
<1>i. ClaimInv
  BY DEF DenialInv
<1>s. ASSUME UNCHANGED <<coin_id, current>>, pc \in {"hop", "bind"}, deniable => deniable'
      PROVE  \/ deniable' \/ coin_id' \in Launchers
             \/ coin_id' \in Ancestry[current'] \/ current' \in Ancestry[coin_id']
  BY <1>s DEF DenialInv, OnTheCoinsLine
<1>1. CASE \E id \in Coins : Ask(id)
  BY <1>1, <1>i DEF Ask, walkVars, ClaimInv, Handover
<1>2. CASE Trace
  BY <1>2, <1>i DEF Trace, ClimbStep, GiveUp, ReadChildRecord, MayClimb, ReadParentSpend,
                    walkVars, ClaimInv, Handover
<1>3. CASE Resolve
  BY <1>3 DEF Resolve, Call
<1>4. CASE Walk
  <2>1. /\ pc \notin {"idle", "done"} /\ UNCHANGED <<coin_id, deniable, created>>
        /\ phase # "idle" /\ ~Decided /\ NoMember' = NoMember
        /\ launcher_id' = launcher_id
    BY <1>4, <1>i, WalkStepKeepsLauncher, ConsumerKeepsQuestion DEF Walk, ConsumerStep
  <2>2. /\ coin_id \in Coins /\ launcher_id \in Coins /\ verdict = Launcher(launcher_id)
        /\ launcher_id \in LaunchersAbove(coin_id)
        /\ ChainOK /\ OneLine /\ PathInv
    BY <2>1, WalkIsForNearest
  <2>3. CASE ReadLauncher
    <3>1. current' = launcher_id
      BY <2>2, <2>3 DEF ReadLauncher, Return, EnterLoop, PathInv, WalkOnPath
    <3>2. QED
      BY <2>1, <2>2, <3>1 DEF LaunchersAbove
  <2>4. CASE RefuseTooDeep \/ RefuseLate \/ ReadNoSpend
    BY <2>4 DEF RefuseTooDeep, RefuseLate, ReadNoSpend, Return
  <2>5. CASE ReadSpend
    BY <1>s, <2>1, <2>5 DEF ReadSpend, MayReadSpend, Return, Derive
  <2>6. CASE BindSuccessor
    <3>1. PICK answer \in RecordAnswers(successor) :
                 Confirms(answer) /\ Advance(answer.spent)
      BY <2>6 DEF BindSuccessor, Return
    <3>2. successor \in Coins /\ current' = successor
      BY <2>2, <2>6, <3>1 DEF BindSuccessor, PathInv, TypedChain, TypeOK, Advance
    <3>3. successor \in created
      BY <3>1, <3>2, ServedRecord DEF Confirms
    <3>4. PathInv'
      BY <1>i, PathStep, ClaimStepWalks DEF ClaimInv
    <3>5. IsRecreation(launcher_id, successor)
      <4>1. IsRecreation(launcher_id, current)'
        BY <3>4, <3>1 DEF PathInv, WalkOnPath, Advance
      <4>2. QED
        BY <2>1, <3>2, <4>1 DEF IsRecreation, Path
    <3>6. CASE NoMember
      BY <2>1, <3>6 DEF DenialInv, Watched
    <3>7. CASE coin_id \in Launchers
      BY <2>1, <3>7
    <3>8. CASE ~NoMember /\ coin_id \notin Launchers
      <4>1. coin_id \in created /\ launcher_id \in Launchers
            /\ IsRecreation(launcher_id, coin_id)
        BY <2>2, <3>8, MemberOfTheNearest, ServedIsGenuine DEF DenialInv
      <4>2. coin_id \in Ancestry[successor] \/ successor \in Ancestry[coin_id]
        BY <2>2, <3>3, <3>5, <4>1 DEF OneLine
      <4>3. QED
        BY <2>1, <3>2, <4>2
    <3>9. QED
      BY <3>6, <3>7, <3>8
  <2>7. QED
    BY <1>4, <2>3, <2>4, <2>5, <2>6 DEF Walk, WalkStep
<1>5. CASE ChainMoved
  BY <1>5, <1>s DEF ChainMoved, parentVars, walkVars
<1>6. CASE UNCHANGED claimVars
  BY <1>6, <1>s DEF claimVars, historyVars, parentVars, walkVars
<1>7. QED
  BY <1>1, <1>2, <1>3, <1>4, <1>5, <1>6 DEF AuthorityNext, ConsumerStep

(* An answer the walk may give a source that serves everything: the coin is  *)
(* among its members, or was no member when it was given.                    *)
LEMMA AnswerNamesMember ==
  ASSUME DenialInv, ServesEverything, Walk, pc' = "done", result'.kind # "failed",
         coin_id \notin Launchers, ~NoMember, ~deniable
  PROVE  result'.kind = "lineage" /\ coin_id \in result'.members
<1>1. pc \notin {"idle", "done"}
  BY WalkStepKeepsLauncher DEF Walk
<1>2. /\ coin_id \in Coins /\ launcher_id \in Coins /\ verdict = Launcher(launcher_id)
      /\ ChainOK /\ OneLine /\ PathInv /\ TypeOK
  BY <1>1, WalkIsForNearest
<1>3. /\ coin_id \in created
      /\ launcher_id \in Launchers /\ launcher_id \in Ancestry[coin_id] \ {coin_id}
      /\ IsRecreation(launcher_id, coin_id)
      /\ \E t \in Coins : IsTip(launcher_id, t)
  BY <1>2, MemberOfTheNearest, ServedIsGenuine DEF DenialInv
<1>4. launcher_id \in created /\ launcher_id \in spent
  BY <1>2, <1>3 DEF OneLine
<1>5. \A e : Failed(e).kind = "failed"
  BY DEF Failed
<1>6. CASE ReadLauncher
  <2>1. PICK answer \in RecordAnswers(launcher_id) :
          \/ answer = Nothing
          \/ answer.kind = "some" /\ launcher_id \notin Launchers
    BY <1>5, <1>6 DEF ReadLauncher, Return, EnterLoop
  <2>2. QED
    BY <1>2, <1>3, <1>4, <2>1, ServedRecord
<1>7. CASE RefuseTooDeep \/ RefuseLate
  BY <1>5, <1>7 DEF RefuseTooDeep, RefuseLate, Return
<1>8. CASE ReadNoSpend
  <2>1. /\ pc = "hop" /\ Nothing \in SpendAnswers(current)
        /\ result' = IF rule = "Launch" THEN Absent ELSE Lineage(current, members)
    BY <1>5, <1>8 DEF ReadNoSpend, MayReadSpend, Return
  <2>2. current \in Coins /\ members = Path(launcher_id, current)
        /\ (rule = "Launch" <=> current = launcher_id)
    BY <1>2, <2>1 DEF PathInv, WalkOnPath, TypeOK
  <2>3. current \notin spent
    BY <2>1, <2>2, ServedSpend
  <2>4. rule # "Launch"
    BY <1>4, <2>2, <2>3
  <2>5. coin_id \in Ancestry[current]
    <3>1. coin_id \in Ancestry[current] \/ current \in Ancestry[coin_id]
      BY <2>1 DEF DenialInv, OnTheCoinsLine
    <3>2. current \in Ancestry[coin_id] => current = coin_id
      BY <1>2, <1>3, <2>3 DEF OneLine
    <3>3. coin_id \in Ancestry[coin_id]
      BY <1>2, AncestryReflexive
    <3>4. QED
      BY <3>1, <3>2, <3>3
  <2>6. coin_id \in members
    BY <1>3, <2>2, <2>5 DEF Path
  <2>7. QED
    BY <2>1, <2>4, <2>6 DEF Lineage
<1>9. CASE ReadSpend
  <2>1. PICK s \in SpendAnswers(current) :
          s.kind = "some" /\ OddOutputs(s) = {} /\ pc = "hop"
    BY <1>5, <1>9 DEF ReadSpend, MayReadSpend, Return, Derive
  <2>2. current \in Coins /\ IsRecreation(launcher_id, current)
    BY <1>2, <2>1 DEF PathInv, WalkOnPath, TypeOK
  <2>3. current \in spent /\ Kids(current) \cap Odd = {}
    BY <2>1, <2>2, ServedSpend DEF OddOutputs
  <2>4. Truths(launcher_id) = {Absent}
    BY <1>2, <1>3, <2>2, <2>3, NoTipAfterMelt
  <2>5. PICK t \in Coins : IsTip(launcher_id, t)
    BY <1>3
  <2>6. Lineage(t, Path(launcher_id, t)) # Absent
    BY DEF Lineage, Absent
  <2>7. Lineage(t, Path(launcher_id, t)) \in Truths(launcher_id)
    BY <2>5 DEF Truths
  <2>8. QED
    BY <2>4, <2>6, <2>7
<1>10. CASE BindSuccessor
  BY <1>5, <1>10 DEF BindSuccessor, Return, Advance
<1>11. QED
  BY <1>6, <1>7, <1>8, <1>9, <1>10 DEF Walk, WalkStep

LEMMA DenialStep == DenialInv /\ [AuthorityNext]_claimVars => DenialWasTrue'
<1> SUFFICES ASSUME DenialInv, [AuthorityNext]_claimVars, ServesEverything, Denied'
             PROVE  deniable' \/ coin_id' \in Launchers
  BY DEF DenialWasTrue, ServesEverything
<1>i. ClaimInv /\ WayUpInv
  BY DEF DenialInv
<1>s. ASSUME UNCHANGED <<phase, verdict, pc, result, coin_id>>, deniable => deniable'
      PROVE  deniable' \/ coin_id' \in Launchers
  <2>1. Denied
    BY <1>s DEF Denied, Decided, Contains
  <2>2. QED
    BY <1>s, <2>1 DEF DenialInv, DenialWasTrue, ServesEverything
<1>1. CASE \E id \in Coins : Ask(id)
  BY <1>1 DEF Ask, Authenticate, Denied, Decided
<1>2. CASE Trace
  <2>1. /\ phase \in {"record", "spend"} /\ verdict = Undecided /\ pc = "idle" /\ pc' = pc
        /\ verdict'.kind # "launcher"
    BY <1>2, <1>i DEF Trace, ClimbStep, GiveUp, ReadChildRecord, MayClimb, ReadParentSpend,
                      walkVars, Denied, Decided, DenialInv, UndecidedOnTheWayUp,
                      ClaimInv, Handover
  <2>2. verdict' = NotASingleton /\ verdict # NotASingleton
    <3>1. TypeInv'
      BY <1>i, TypeStep, ClaimStepClimbs DEF ClaimInv
    <3>2. verdict' \in {Undecided, NotASingleton, TooDeep, ReadError}
      BY <2>1, <3>1 DEF TypeInv, ParentTypeOK, Launcher
    <3>3. verdict'.kind = "not_a_singleton"
      BY <2>1 DEF Denied
    <3>4. QED
      BY <2>1, <3>2, <3>3, VerdictsDiffer DEF Undecided, TooDeep, ReadError
  <2>3. coin_id \notin created \/ LaunchersAbove(coin_id) = {}
    BY <1>i, <2>2, GapReported, ClaimStepClimbs DEF GapStep
  <2>4. /\ phase # "idle" /\ ~Decided
        /\ UNCHANGED <<coin_id, deniable>>
    BY <1>2, <1>i, ConsumerKeepsQuestion DEF ConsumerStep
  <2>5. coin_id \notin Launchers => NoMember
    BY <2>3 DEF NoMember, IsRecreation, LaunchersAbove
  <2>6. QED
    BY <2>4, <2>5 DEF DenialInv, Watched
<1>3. CASE Resolve
  <2>1. verdict.kind = "launcher" /\ verdict' = verdict /\ pc' = "launcher"
    BY <1>3 DEF Resolve, Call, parentVars
  <2>2. QED
    BY <2>1 DEF Denied, Decided
<1>4. CASE Walk
  <2>1. pc \notin {"idle", "done"}
    BY <1>4, WalkStepKeepsLauncher DEF Walk
  <2>2. verdict = Launcher(launcher_id) /\ Launcher(launcher_id).kind = "launcher"
    BY <2>1, WalkIsForNearest DEF Launcher
  <2>3. UNCHANGED <<phase, verdict, coin_id, deniable>>
    BY <1>4 DEF Walk, parentVars, historyVars
  <2>4. pc' = "done" /\ result'.kind # "failed"
        /\ ~(result'.kind = "lineage" /\ coin_id \in result'.members)
    BY <2>2, <2>3 DEF Denied, Decided, Contains
  <2>5. NoMember => deniable
    BY <1>4, <1>i, ConsumerKeepsQuestion DEF ConsumerStep, DenialInv, Watched
  <2>6. QED
    BY <1>4, <2>3, <2>4, <2>5, AnswerNamesMember
<1>5. CASE ChainMoved
  BY <1>5, <1>s DEF ChainMoved, parentVars, walkVars
<1>6. CASE UNCHANGED claimVars
  BY <1>6, <1>s DEF claimVars, historyVars, parentVars, walkVars
<1>7. QED
  BY <1>1, <1>2, <1>3, <1>4, <1>5, <1>6 DEF AuthorityNext, ConsumerStep

(* DenialWasTrue: no genuine coin is denied by a stale or partial lineage,   *)
(* for every universe of coins, every bound of either walk, and every order  *)
(* of blocks, reorganisations and reads.                                     *)
THEOREM DenialCorrect == AuthoritySpec => []DenialWasTrue
<1>1. DenialInv /\ [AuthorityNext]_claimVars => DenialInv'
  <2> SUFFICES ASSUME DenialInv, [AuthorityNext]_claimVars PROVE DenialInv'
    OBVIOUS
  <2>1. ClaimInv' /\ WayUpInv'
    BY ClaimStep, WayUpInvStep, ClaimStepClimbs DEF DenialInv
  <2>2. LauncherSplits' /\ UndecidedOnTheWayUp'
    BY SplitsStep, ClaimStepClimbs DEF DenialInv
  <2>3. Watched' /\ OnTheCoinsLine' /\ DenialWasTrue'
    BY WatchedStep, LineStep, DenialStep DEF DenialInv
  <2>4. QED
    BY <2>1, <2>2, <2>3 DEF DenialInv
<1>2. DenialInv => DenialWasTrue
  BY DEF DenialInv
<1>3. QED
  BY <1>1, <1>2, DenialInit, PTL DEF AuthoritySpec

-----------------------------------------------------------------------------
(* An authorization was true.                                              *)

(* Every instant at which the coin is a member is noted. *)
Attended == phase # "idle" /\ ~Decided /\ ~NoMember => grantable

(* A walk that stands on a coin whose record was unspent stood on the        *)
(* singleton's tip when it read that record, so that every member it had     *)
(* gathered was one then.  The chain may have moved since.                   *)
TipWasSeen ==
  RecordsAreGenuine /\ pc = "hop" /\ ~current_spent /\ rule # "Launch" /\ coin_id \in members
    => grantable

GrantInv == ClaimInv /\ Attended /\ TipWasSeen /\ AuthorizationWasTrue

LEMMA GrantInit == AuthorityInit => GrantInv
<1> SUFFICES ASSUME AuthorityInit PROVE GrantInv
  OBVIOUS
<1>1. ClaimInv
  BY ClaimInit
<1>2. phase = "idle" /\ pc = "idle"
  BY DEF AuthorityInit, ParentInit, Init
<1>3. QED
  BY <1>1, <1>2 DEF GrantInv, Attended, TipWasSeen, AuthorizationWasTrue, Authorized, Decided

LEMMA AttendedStep == ClaimInv /\ Attended /\ [AuthorityNext]_claimVars => Attended'
<1> SUFFICES ASSUME ClaimInv, Attended, [AuthorityNext]_claimVars PROVE Attended'
  OBVIOUS
<1>1. CASE \E id \in Coins : Ask(id)
  BY <1>1 DEF Ask, Attended
<1>2. CASE ConsumerStep
  BY <1>2, ConsumerKeepsQuestion DEF Attended
<1>3. CASE ChainMoved
  <2>1. phase' = phase /\ Decided' = Decided
    BY <1>3 DEF ChainMoved, parentVars, walkVars, Decided
  <2>2. grantable' = (grantable \/ (phase # "idle" /\ ~Decided /\ ~NoMember'))
    BY <1>3 DEF ChainMoved
  <2>3. QED
    BY <2>1, <2>2 DEF Attended
<1>4. CASE UNCHANGED claimVars
  BY <1>4 DEF claimVars, historyVars, chainVars, parentVars, walkVars, Attended, Decided,
              NoMember, IsTip, IsRecreation, Path
<1>5. QED
  BY <1>1, <1>2, <1>3, <1>4 DEF AuthorityNext, ConsumerStep

(* While a singleton's tip is on the chain, all it descends from down to its *)
(* launcher are members.                                                     *)
LEMMA OnTheTipsPath ==
  ASSUME OneLine, NEW l \in Coins, NEW t \in Coins, IsTip(l, t), coin_id \in Coins,
         coin_id \in Path(l, t)
  PROVE  ~NoMember
<1>1. IsRecreation(l, t) /\ t \in created
  BY DEF IsTip
<1>2. coin_id \in created
  BY <1>1 DEF OneLine, Path
<1>3. IsRecreation(l, coin_id)
  BY <1>1, MembersAreMembers
<1>4. l \in Launchers
  BY <1>1 DEF IsRecreation
<1>5. QED
  BY <1>2, <1>3, <1>4 DEF NoMember

LEMMA TipWasSeenStep == GrantInv /\ [AuthorityNext]_claimVars => TipWasSeen'
<1> SUFFICES ASSUME GrantInv, [AuthorityNext]_claimVars, RecordsAreGenuine, pc' = "hop",
                    ~current_spent', rule' # "Launch", coin_id' \in members'
             PROVE  grantable'
  BY DEF TipWasSeen, RecordsAreGenuine
<1>i. ClaimInv
  BY DEF GrantInv
<1>s. ASSUME UNCHANGED <<pc, current_spent, rule, coin_id, members>>, grantable => grantable'
      PROVE  grantable'
  BY <1>s DEF GrantInv, TipWasSeen
<1>1. CASE \E id \in Coins : Ask(id)
  BY <1>1, <1>i DEF Ask, walkVars, ClaimInv, Handover
<1>2. CASE Trace
  BY <1>2, <1>i DEF Trace, ClimbStep, GiveUp, ReadChildRecord, MayClimb, ReadParentSpend,
                    walkVars, ClaimInv, Handover
<1>3. CASE Resolve
  BY <1>3 DEF Resolve, Call
<1>4. CASE Walk
  <2>1. /\ pc \notin {"idle", "done"} /\ UNCHANGED <<coin_id, grantable, created, spent>>
        /\ phase # "idle" /\ ~Decided
        /\ launcher_id' = launcher_id
    BY <1>4, <1>i, WalkStepKeepsLauncher, ConsumerKeepsQuestion DEF Walk, ConsumerStep
  <2>2. PathInv /\ TypeOK /\ OneLine /\ TypeInv /\ phase = "done"
    BY <1>i, <2>1 DEF ClaimInv, TypeInv, PathInv, TypedChain, Handover
  <2>3. CASE ReadLauncher
    BY <2>2, <2>3 DEF ReadLauncher, Return, EnterLoop, PathInv, WalkOnPath
  <2>4. CASE RefuseTooDeep \/ RefuseLate \/ ReadNoSpend
    BY <2>4 DEF RefuseTooDeep, RefuseLate, ReadNoSpend, Return
  <2>5. CASE ReadSpend
    BY <2>5 DEF ReadSpend, MayReadSpend, Return, Derive
  <2>6. CASE BindSuccessor
    <3>1. PICK answer \in RecordAnswers(successor) :
                 Confirms(answer) /\ Advance(answer.spent)
      BY <2>6 DEF BindSuccessor, Return
    <3>2. successor \in Coins /\ current' = successor /\ launcher_id \in Coins
          /\ coin_id \in Coins
      BY <2>1, <2>2, <2>6, <3>1 DEF BindSuccessor, TypeOK, Advance, TypeInv, ParentTypeOK
    <3>3. successor \in created \ spent
      BY <3>1, <3>2, RelayedRecord DEF Confirms, Advance, ReadFails, Nothing
    <3>4. PathInv'
      BY <1>i, PathStep, ClaimStepWalks DEF ClaimInv
    <3>5. /\ members' = Path(launcher_id, successor)
          /\ IsRecreation(launcher_id, successor)
          /\ successor # launcher_id
      <4>1. /\ members' = Path(launcher_id', current')
            /\ IsRecreation(launcher_id', current')
            /\ current' # launcher_id'
        BY <3>4, <3>1 DEF PathInv, WalkOnPath, Advance, IsRecreation, Path
      <4>2. QED
        BY <2>1, <3>2, <4>1
    <3>6. IsTip(launcher_id, successor)
      BY <3>3, <3>5 DEF IsTip
    <3>7. ~NoMember
      BY <2>1, <2>2, <3>2, <3>5, <3>6, OnTheTipsPath
    <3>8. QED
      BY <2>1, <3>7 DEF GrantInv, Attended
  <2>7. QED
    BY <1>4, <2>3, <2>4, <2>5, <2>6 DEF Walk, WalkStep
<1>5. CASE ChainMoved
  BY <1>5, <1>s DEF ChainMoved, parentVars, walkVars
<1>6. CASE UNCHANGED claimVars
  BY <1>6, <1>s DEF claimVars, historyVars, parentVars, walkVars
<1>7. QED
  BY <1>1, <1>2, <1>3, <1>4, <1>5, <1>6 DEF AuthorityNext, ConsumerStep

LEMMA GrantStep == GrantInv /\ [AuthorityNext]_claimVars => AuthorizationWasTrue'
<1> SUFFICES ASSUME GrantInv, [AuthorityNext]_claimVars, RecordsAreGenuine, Authorized'
             PROVE  grantable'
  BY DEF AuthorizationWasTrue, RecordsAreGenuine
<1>i. ClaimInv
  BY DEF GrantInv
<1>d. /\ phase' = "done" /\ pc' = "done" /\ verdict'.kind = "launcher"
      /\ result'.kind = "lineage" /\ coin_id' \in result'.members
  BY DEF Authorized, Decided, Contains
<1>s. ASSUME UNCHANGED <<phase, verdict, pc, result, coin_id>>, grantable => grantable'
      PROVE  grantable'
  <2>1. Authorized
    BY <1>s DEF Authorized, Decided, Contains
  <2>2. QED
    BY <1>s, <2>1 DEF GrantInv, AuthorizationWasTrue, RecordsAreGenuine
<1>1. CASE \E id \in Coins : Ask(id)
  BY <1>1, <1>d DEF Ask, Authenticate
<1>2. CASE Trace
  BY <1>2, <1>d, <1>i DEF Trace, ClimbStep, GiveUp, ReadChildRecord, MayClimb,
                          ReadParentSpend, walkVars, ClaimInv, Handover
<1>3. CASE Resolve
  BY <1>3, <1>d DEF Resolve, Call
<1>4. CASE Walk
  <2>1. UNCHANGED <<coin_id, grantable>>
    BY <1>4, <1>i, ConsumerKeepsQuestion DEF ConsumerStep
  <2>2. /\ Absent.kind # "lineage"
        /\ \A e : Failed(e).kind # "lineage"
        /\ \A t, M : Lineage(t, M).members = M
    BY DEF Absent, Failed, Lineage
  <2>3. CASE ReadLauncher \/ RefuseTooDeep \/ RefuseLate
    BY <1>d, <2>2, <2>3 DEF ReadLauncher, EnterLoop, RefuseTooDeep, RefuseLate, Return
  <2>4. CASE ReadNoSpend
    <3>1. /\ pc = "hop" /\ ~current_spent /\ rule # "Launch"
          /\ result' = Lineage(current, members)
      BY <1>d, <2>2, <2>4 DEF ReadNoSpend, MayReadSpend, Return
    <3>2. coin_id \in members
      BY <1>d, <2>1, <2>2, <3>1
    <3>3. QED
      BY <2>1, <3>1, <3>2 DEF GrantInv, TipWasSeen
  <2>5. CASE ReadSpend
    BY <1>d, <2>2, <2>5 DEF ReadSpend, Return, Derive
  <2>6. CASE BindSuccessor
    BY <1>d, <2>2, <2>6 DEF BindSuccessor, Return, Advance
  <2>7. QED
    BY <1>4, <2>3, <2>4, <2>5, <2>6 DEF Walk, WalkStep
<1>5. CASE ChainMoved
  BY <1>5, <1>s DEF ChainMoved, parentVars, walkVars
<1>6. CASE UNCHANGED claimVars
  BY <1>6, <1>s DEF claimVars, historyVars, parentVars, walkVars
<1>7. QED
  BY <1>1, <1>2, <1>3, <1>4, <1>5, <1>6 DEF AuthorityNext, ConsumerStep

(* AuthorizationWasTrue: forged solutions and withheld spends, blocks and    *)
(* reorganisations between any two reads never authorize a coin that was no  *)
(* member all along, for every universe of coins and every bound.            *)
THEOREM AuthorizationCorrect == AuthoritySpec => []AuthorizationWasTrue
<1>1. GrantInv /\ [AuthorityNext]_claimVars => GrantInv'
  BY ClaimStep, AttendedStep, TipWasSeenStep, GrantStep DEF GrantInv
<1>2. GrantInv => AuthorizationWasTrue
  BY DEF GrantInv
<1>3. QED
  BY <1>1, <1>2, GrantInit, PTL DEF AuthoritySpec
=============================================================================
