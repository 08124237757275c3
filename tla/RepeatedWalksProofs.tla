-------------------------- MODULE RepeatedWalksProofs --------------------------
(***************************************************************************)
(* What the walk answers, for every universe of coins and all bounds, while  *)
(* blocks and reorganisations move the chain between any two of its reads:   *)
(* it implements LineageService, its projected errors say what is the case,  *)
(* and what one caller is answered over and over agrees.                     *)
(***************************************************************************)
EXTENDS RepeatedWalks, LineageWalkProofs

RefinementInv == PathInv /\ OneLine

-----------------------------------------------------------------------------

LEMMA RefinementInvInit == Init => RefinementInv
  BY PathInit, OneLineInit DEF Init, RefinementInv

LEMMA RefinementInvStep == RefinementInv /\ [Next]_vars => RefinementInv'
<1> SUFFICES ASSUME RefinementInv, [Next]_vars PROVE RefinementInv'
  OBVIOUS
<1>1. PathInv' /\ ChainOK /\ OneLine
  BY PathStep DEF RefinementInv, PathInv, TypedChain
<1>2. CASE UNCHANGED chainVars
  BY <1>1, <1>2 DEF RefinementInv, chainVars, OneLine, IsRecreation, Path
<1>3. CASE ChainStep
  <2>1. CASE \E c \in Coins : \E K \in SUBSET Children(c) : Spend(c, K)
    BY <1>1, <2>1, SpendKeepsOneLine DEF RefinementInv
  <2>2. CASE \E c \in Coins : Undo(c)
    BY <1>1, <2>2, UndoKeepsOneLine DEF RefinementInv
  <2>3. QED
    BY <1>3, <2>1, <2>2 DEF ChainStep, ChainMoves
<1>4. QED
  BY <1>2, <1>3
     DEF Next, WalkStep, Call, ReadLauncher, RefuseTooDeep, RefuseLate,
         ReadNoSpend, ReadSpend, BindSuccessor, vars

-----------------------------------------------------------------------------
(* The service's chain is the walk's chain.                                *)

LEMMA SameTruths == \A l : Service!Truths(l) = Truths(l)
  BY DEF Service!Truths, Truths, Service!IsTip, IsTip, Service!IsRecreation,
         IsRecreation, Service!Path, Path, Service!Absent, Absent,
         Service!Lineage, Lineage

LEMMA SameInit == ChainInit <=> Service!ChainInit
  BY DEF ChainInit, Service!ChainInit, Roots, Service!Roots

LEMMA SameSpend == \A c, K : Spend(c, K) <=> Service!Spend(c, K)
  BY DEF Spend, Service!Spend, ValidSpend, Service!ValidSpend, Emittable,
         Service!Emittable, IsSingleton, Service!IsSingleton, Children,
         Service!Children

LEMMA SameUndo == \A c : Undo(c) <=> Service!Undo(c)
  BY DEF Undo, Service!Undo

-----------------------------------------------------------------------------
(* How the walk's ways to go on map to the service's actions.              *)

Running == pc \in {"launcher", "hop", "bind"} /\ launcher_id \in Coins

LEMMA ReturnIsReply ==
  ASSUME Running, UNCHANGED chainVars, NEW answer, Return(answer),
         \/ answer \in Truths(launcher_id)
         \/ answer \in {Failed(e) : e \in ErrorKinds}
         \/ Candidate # Nothing /\ answer = Candidate
         \/ ~SpendsAreGenuine /\ answer = Absent
  PROVE  Service!Reply
<1>1. launcher_id # NoCoin
  BY CoinsAssumption DEF Running
<1>2. Candidate' = Nothing /\ pc' = "done" /\ result' = answer
  BY DEF Return, Candidate
<1>3. UNCHANGED Service!chainVars
  BY DEF chainVars, Service!chainVars
<1>4. QED
  BY <1>1, <1>2, <1>3, SameTruths
     DEF Running, Service!Reply, Service!NoNote, Nothing, Service!Failures,
         Failed, Service!Absent, Absent

LEMMA GoingOnIsNote ==
  ASSUME Running, UNCHANGED chainVars,
         pc' \in {"launcher", "hop", "bind"}, UNCHANGED <<launcher_id, result>>,
         Candidate' \in Truths(launcher_id) \cup {Nothing}
  PROVE  Service!Note
<1>1. launcher_id # NoCoin
  BY CoinsAssumption DEF Running
<1>2. QED
  BY <1>1, SameTruths
     DEF Running, Service!Note, Service!NoNote, Nothing, chainVars

-----------------------------------------------------------------------------

LEMMA InitRefines == Init => Service!ServiceInit
  BY SameInit
     DEF Init, Service!ServiceInit, Candidate, Nothing, Service!NoNote,
         Pending, Service!Unanswered

LEMMA StepRefines ==
  ASSUME RecordsAreGenuine, RefinementInv, RefinementInv', [Next]_vars
  PROVE  [Service!ServiceNext]_(Service!serviceVars)
<1>0. /\ PathInv
      /\ ChainOK
      /\ OneLine
      /\ pc # "idle" => launcher_id \in Coins /\ current \in Coins
  BY DEF RefinementInv, PathInv, TypedChain, TypeOK
<1>f. /\ \A e \in ErrorKinds : Failed(e) \in {Failed(x) : x \in ErrorKinds}
      /\ {"Source", "Malformed", "TooDeep", "DeadlineExceeded"} \subseteq ErrorKinds
  BY DEF ErrorKinds
<1>1. ASSUME NEW id \in Coins, NEW hops \in Caps, NEW budget \in Budgets,
             Call(id, hops, budget)
      PROVE  Service!Ask(id)
  BY <1>1
     DEF Call, Service!Ask, Candidate, Nothing, Service!NoNote, Pending,
         Service!Unanswered, chainVars, Service!chainVars
<1>2. ASSUME ReadLauncher PROVE Service!Reply \/ Service!Note
  <2>1. Running /\ UNCHANGED chainVars /\ rule = "Launch" /\ pc = "launcher"
    BY <1>0, <1>2 DEF ReadLauncher, Running, PathInv, WalkOnPath
  <2>2. PICK answer \in RecordAnswers(launcher_id) : ReadLauncher!3!(answer)
    BY <1>2 DEF ReadLauncher
  <2>3. launcher_id \in Coins
    BY <2>1 DEF Running
  <2>4. CASE \E e \in ErrorKinds : Return(Failed(e))
    BY <1>f, <2>1, <2>4, ReturnIsReply
  <2>5. CASE Return(Absent)
    <3>1. launcher_id \notin created \/ launcher_id \notin Launchers
      BY <2>2, <2>3, <2>5, RelayedRecord
         DEF Return, EnterLoop, Absent, Failed, ReadFails, Nothing
    <3>2. Absent \in Truths(launcher_id)
      BY <1>0, <2>3, <3>1, NoTipBelowUnspent, NoTipOfOrdinaryCoin DEF ChainOK
    <3>3. QED
      BY <2>1, <2>5, <3>2, ReturnIsReply
  <2>6. CASE EnterLoop(answer.spent) /\ answer.kind = "some"
    <3>1. answer.spent = (launcher_id \in spent)
      BY <2>3, <2>6, RelayedRecord DEF ReadFails, Nothing
    <3>2. CASE launcher_id \in spent
      BY <2>1, <2>6, <3>1, <3>2, GoingOnIsNote DEF EnterLoop, Candidate
    <3>3. CASE launcher_id \notin spent
      <4>1. Absent \in Truths(launcher_id)
        BY <1>0, <2>3, <3>3, NoTipBelowUnspent
      <4>2. Candidate' = Absent
        BY <2>1, <2>6, <3>1, <3>3 DEF EnterLoop, Candidate
      <4>3. QED
        BY <2>1, <2>6, <4>1, <4>2, GoingOnIsNote DEF EnterLoop
    <3>4. QED
      BY <3>2, <3>3
  <2>7. QED
    BY <1>f, <2>2, <2>4, <2>5, <2>6
<1>3. ASSUME RefuseTooDeep \/ RefuseLate PROVE Service!Reply
  <2>1. Running /\ UNCHANGED chainVars
    BY <1>0, <1>3 DEF RefuseTooDeep, RefuseLate, Running
  <2>2. QED
    BY <1>f, <1>3, <2>1, ReturnIsReply DEF RefuseTooDeep, RefuseLate
<1>4. ASSUME ReadNoSpend PROVE Service!Reply
  <2>1. Running /\ UNCHANGED chainVars /\ pc = "hop"
    BY <1>0, <1>4 DEF ReadNoSpend, MayReadSpend, Running
  <2>2. CASE \E e \in ErrorKinds : Return(Failed(e))
    BY <1>f, <2>1, <2>2, ReturnIsReply
  <2>3. CASE /\ ~current_spent
             /\ Return(IF rule = "Launch" THEN Absent ELSE Lineage(current, members))
    <3>1. Candidate = IF rule = "Launch" THEN Absent ELSE Lineage(current, members)
      BY <2>1, <2>3 DEF Candidate
    <3>2. Candidate # Nothing
      BY <3>1 DEF Nothing, Absent, Lineage
    <3>3. QED
      BY <2>1, <2>3, <3>1, <3>2, ReturnIsReply
  <2>4. QED
    BY <1>f, <1>4, <2>2, <2>3 DEF ReadNoSpend
<1>5. ASSUME ReadSpend PROVE Service!Reply \/ Service!Note
  <2>1. /\ Running /\ UNCHANGED chainVars /\ pc = "hop"
        /\ launcher_id \in Launchers
        /\ IsRecreation(launcher_id, current)
    BY <1>0, <1>5
       DEF ReadSpend, MayReadSpend, Running, PathInv, WalkOnPath, IsRecreation
  <2>2. PICK s \in SpendAnswers(current) : ReadSpend!3!(s)
    BY <1>5 DEF ReadSpend
  <2>3. CASE Refusal(s) # "none" /\ Return(Failed(Refusal(s)))
    <3>1. Refusal(s) \in ErrorKinds
      BY <2>3, RefusalKind DEF ErrorKinds
    <3>2. QED
      BY <1>f, <2>1, <2>3, <3>1, ReturnIsReply
  <2>4. CASE OddOutputs(s) = {} /\ Return(Absent)
    <3>1. CASE SpendsAreGenuine
      <4>1. current \in spent /\ s = GenuineSpend(current)
        BY <2>2, <3>1 DEF SpendAnswers, If, SpendsAreGenuine, ReadFails, Nothing
      <4>2. Kids(current) \cap Odd = {}
        BY <2>4, <4>1 DEF OddOutputs, GenuineSpend, CoinSpend
      <4>3. Absent \in Truths(launcher_id)
        BY <1>0, <2>1, <4>1, <4>2, NoTipAfterMelt
      <4>4. QED
        BY <2>1, <2>4, <4>3, ReturnIsReply
    <3>2. CASE ~SpendsAreGenuine
      BY <2>1, <2>4, <3>2, ReturnIsReply
    <3>3. QED
      BY <3>1, <3>2
  <2>5. CASE \E k \in OddOutputs(s) : Derive(k)
    BY <2>1, <2>5, GoingOnIsNote DEF Derive, Candidate
  <2>6. QED
    BY <2>2, <2>3, <2>4, <2>5
<1>6. ASSUME BindSuccessor PROVE Service!Reply \/ Service!Note
  <2>1. Running /\ UNCHANGED chainVars /\ pc = "bind" /\ successor \in Coins
    BY <1>0, <1>6
       DEF BindSuccessor, Running, PathInv, WalkOnPath, TypedChain, TypeOK
  <2>2. PICK answer \in RecordAnswers(successor) : BindSuccessor!3!(answer)
    BY <1>6 DEF BindSuccessor
  <2>3. CASE \E e \in ErrorKinds : Return(Failed(e))
    BY <1>f, <2>1, <2>3, ReturnIsReply
  <2>4. CASE Advance(answer.spent) /\ answer.kind = "some"
    <3>1. answer.spent = (successor \in spent) /\ successor \in created
      BY <2>1, <2>4, RelayedRecord DEF ReadFails, Nothing
    <3>2. CASE successor \in spent
      BY <2>1, <2>4, <3>1, <3>2, GoingOnIsNote DEF Advance, Candidate
    <3>3. CASE successor \notin spent
      <4>1. /\ IsRecreation(launcher_id, successor)
            /\ members' = Path(launcher_id, successor)
            /\ successor # launcher_id
        BY <2>4
           DEF Advance, RefinementInv, PathInv, WalkOnPath, IsRecreation, Path
      <4>2. IsTip(launcher_id, successor)
        BY <3>1, <3>3, <4>1 DEF IsTip
      <4>3. Lineage(successor, Path(launcher_id, successor)) \in Truths(launcher_id)
        BY <2>1, <4>2 DEF Truths
      <4>4. Candidate' = Lineage(successor, Path(launcher_id, successor))
        BY <2>4, <3>1, <3>3, <4>1 DEF Advance, Candidate
      <4>5. QED
        BY <2>1, <2>4, <4>3, <4>4, GoingOnIsNote DEF Advance
    <3>4. QED
      BY <3>2, <3>3
  <2>5. QED
    BY <1>f, <2>2, <2>3, <2>4 DEF Confirms
<1>7. ASSUME ChainStep PROVE Service!ChainMoves
  <2>1. UNCHANGED <<pc, launcher_id, current, current_spent, rule, members, result>>
    BY <1>7 DEF ChainStep, ChainMoves, walkVars
  <2>2. Candidate' = Candidate
    BY <2>1 DEF Candidate, Absent, Lineage, Nothing
  <2>3. \E c \in Coins :
          Service!Undo(c) \/ \E K \in SUBSET Service!Children(c) : Service!Spend(c, K)
    BY <1>7, SameSpend, SameUndo DEF ChainStep, ChainMoves, Children, Service!Children
  <2>4. QED
    BY <2>1, <2>2, <2>3 DEF Service!ChainMoves
<1>8. ASSUME UNCHANGED vars PROVE UNCHANGED Service!serviceVars
  BY <1>8
     DEF vars, chainVars, walkVars, Service!serviceVars, Candidate, Absent,
         Lineage, Nothing
<1>9. QED
  BY <1>1, <1>2, <1>3, <1>4, <1>5, <1>6, <1>7, <1>8
     DEF Next, WalkStep, Service!ServiceNext

(* Reading genuine records, the walk answers only with what was true of the  *)
(* chain at one instant of the call, or with an error: no interleaving of    *)
(* blocks and reorganisations with its reads makes it answer a lineage that  *)
(* no instant ever showed, forged spends or not.                             *)
THEOREM AnswersCorrect ==
  ASSUME RecordsAreGenuine
  PROVE  Spec => AnswersWereTrue
<1>1. Init => RefinementInv /\ Service!ServiceInit
  BY RefinementInvInit, InitRefines
<1>2. RefinementInv /\ [Next]_vars => RefinementInv'
  BY RefinementInvStep
<1>3. RefinementInv /\ RefinementInv' /\ [Next]_vars
        => [Service!ServiceNext]_(Service!serviceVars)
  BY StepRefines
<1>4. QED
  BY <1>1, <1>2, <1>3, PTL DEF Spec, AnswersWereTrue, Service!ServiceSpec

-----------------------------------------------------------------------------
(* What the projection answers is the case.                                *)

(* Calls through the projection, any number of them, are calls of the walk. *)
LEMMA RepeatStepWalks == [RepeatNext]_repeatVars => [Next]_vars
<1> SUFFICES ASSUME [RepeatNext]_repeatVars PROVE [Next]_vars
  OBVIOUS
<1>1. CASE ViaNext
  BY <1>1 DEF ViaNext, CallVia, CallBounded, WalkOn, Next, Caps
<1>2. CASE UNCHANGED repeatVars
  BY <1>2 DEF repeatVars, viaVars
<1>3. QED
  BY <1>1, <1>2 DEF RepeatNext

(* So everything proved of the walk holds of a caller that asks again and    *)
(* again, at the default bounds or at its own.                               *)
THEOREM RepeatIsWalk == RepeatSpec => Init /\ [][Next]_vars
  BY RepeatStepWalks, PTL DEF RepeatSpec, RepeatInit, ViaInit

TooLargeIsHeavy ==
  HonestSource /\ result = Failed("RevealTooLarge") => current \in Heavy

LEMMA HeavyStep == PathInv /\ TooLargeIsHeavy /\ [Next]_vars => TooLargeIsHeavy'
<1> SUFFICES ASSUME PathInv, TooLargeIsHeavy, [Next]_vars, HonestSource,
                    result' = Failed("RevealTooLarge")
             PROVE  current' \in Heavy
  BY DEF TooLargeIsHeavy, HonestSource
<1>a. /\ Pending # Failed("RevealTooLarge")
      /\ Absent # Failed("RevealTooLarge")
      /\ \A t, M : Lineage(t, M) # Failed("RevealTooLarge")
      /\ \A e : e # "RevealTooLarge" => Failed(e) # Failed("RevealTooLarge")
  BY DEF Absent, Failed, Lineage, Pending
<1>1. CASE UNCHANGED <<result, current>>
  BY <1>1 DEF TooLargeIsHeavy
<1>2. CASE ReadSpend
  <2>1. pc = "hop" /\ result = Pending /\ current \in Coins
    BY <1>2 DEF ReadSpend, MayReadSpend, PathInv, WalkOnPath, TypedChain, TypeOK
  <2>2. PICK s \in SpendAnswers(current) :
          s.kind = "some" /\ Refusal(s) = "RevealTooLarge" /\ Return(Failed(Refusal(s)))
    BY <1>2, <1>a, <2>1 DEF ReadSpend, Return, Derive
  <2>3. s.heavy
    BY <2>2 DEF Refusal, ReadRefusal, RuleRefusal
  <2>4. s = GenuineSpend(current)
    BY <2>1, <2>2, HonestSpend, KindsDiffer
  <2>5. GenuineSpend(current).heavy = (current \in Heavy)
    BY DEF GenuineSpend, CoinSpend
  <2>6. QED
    BY <2>2, <2>3, <2>4, <2>5 DEF Return
<1>3. CASE \E id \in Coins, hops \in Caps, budget \in Budgets : Call(id, hops, budget)
  BY <1>3, <1>a DEF Call
<1>4. CASE ReadLauncher \/ RefuseTooDeep \/ RefuseLate \/ ReadNoSpend \/ BindSuccessor
  <2>1. result = Pending
    BY <1>4 DEF ReadLauncher, RefuseTooDeep, RefuseLate, ReadNoSpend, MayReadSpend,
                BindSuccessor, PathInv, WalkOnPath
  <2>2. QED
    BY <1>4, <1>a, <2>1 DEF ReadLauncher, RefuseTooDeep, RefuseLate, ReadNoSpend,
                            BindSuccessor, Return, EnterLoop, Advance
<1>5. QED
  BY <1>1, <1>2, <1>3, <1>4 DEF Next, WalkStep, ChainStep, walkVars, vars

ErrorInv ==
  /\ HonestInv /\ EveInv /\ DepthInv /\ AnswerInBound
  /\ TypedChain /\ ClockInv /\ TooLargeIsHeavy

LEMMA ErrorInit == Init => ErrorInv
<1>1. Init => TooLargeIsHeavy /\ OnlyTheEveIsRejected
  BY DEF Init, TooLargeIsHeavy, OnlyTheEveIsRejected, Pending, Failed
<1>2. QED
  BY <1>1, HonestInit, PathInit, DepthInit, AnswerInit, TypedChainInit, ClockInit
     DEF ErrorInv, EveInv

LEMMA ErrorStep == ErrorInv /\ [Next]_vars => ErrorInv'
  BY HonestStep, EveStep, DepthStep, AnswerStep, TypedChainStep, ClockStep, HeavyStep
     DEF ErrorInv, EveInv

(* Each error of the walk, and what it says when the source is honest.       *)
LEMMA ErrorsMean ==
  ASSUME ErrorInv, HonestSource, NEW e \in ErrorKinds, result = Failed(e)
  PROVE  \/ e = "Source"
         \/ e = "NotASingleton" /\ EveIsOrdinary
         \/ e = "RevealTooLarge" /\ current \in Heavy
         \/ e = "TooDeep" /\ Cardinality(members) > bounds.max_hops + 1
         \/ e = "DeadlineExceeded" /\ elapsed > bounds.budget
         \/ e = "Malformed" /\ BeyondTheWalk(current)
<1>1. e = "Malformed" => BeyondTheWalk(current)
  BY DEF ErrorInv, HonestInv, HonestNeverBlamed
<1>2. e = "NotASingleton" => EveIsOrdinary
  BY DEF ErrorInv, EveInv, OnlyTheEveIsRejected, EveIsOrdinary, HonestSource
<1>3. e = "TooDeep" => Cardinality(members) > bounds.max_hops + 1
  BY DepthBound DEF ErrorInv, TooDeepIsBeyondTheBound
<1>4. e = "DeadlineExceeded" => elapsed > bounds.budget
  BY DEF ErrorInv, ClockInv, BudgetPlusOneHop
<1>5. e = "RevealTooLarge" => current \in Heavy
  BY DEF ErrorInv, TooLargeIsHeavy
<1>6. QED
  BY <1>1, <1>2, <1>3, <1>4, <1>5 DEF ErrorKinds

(* Over an honest source every error answered through the projection is the  *)
(* read's own or says what is the case, whatever the bounds.                 *)
THEOREM ErrorsCorrect == RepeatSpec => []ErrorsSayWhatHappened
<1>1. ErrorInv => ErrorsSayWhatHappened
  <2> SUFFICES ASSUME ErrorInv, HonestSource, Answer.kind = "failed",
                      ~ReportedByTheSource(Answer.error)
               PROVE  \/ Answer.error = "Timeout" /\ elapsed > bounds.budget
                      \/ /\ Answer.error = "LineageTooDeep"
                         /\ Cardinality(members) > bounds.max_hops + 1
                      \/ Answer.error = "RevealTooLarge" /\ current \in Heavy
                      \/ /\ Answer.error = "Malformed"
                         /\ EveIsOrdinary \/ BeyondTheWalk(current)
    BY DEF ErrorsSayWhatHappened
  <2>1. result # Failed("Source")
    <3>1. SUFFICES ASSUME result = Failed("Source") PROVE FALSE
      OBVIOUS
    <3>2. Answer = Failed(carried)
      BY <3>1 DEF Answer
    <3>3. Answer.error = carried
      BY <3>2 DEF Failed
    <3>4. QED
      BY <3>1, <3>3 DEF ReportedByTheSource
  <2>2. result.kind = "failed"
    BY <2>1 DEF Answer
  <2>3. PICK e \in ErrorKinds : result = Failed(e)
    BY <2>2 DEF ErrorInv, TypedChain, TypeOK, Answers, Absent, Pending
  <2>4. Answer = Failed(Projection[e])
    BY <2>1, <2>2, <2>3 DEF Answer, Failed
  <2>5. Answer.error = Projection[e]
    BY <2>4 DEF Failed
  <2>6. e # "Source"
    BY <2>1, <2>3
  <2>7. QED
    BY <2>3, <2>5, <2>6, ErrorsMean DEF Projection
<1>2. QED
  BY <1>1, ErrorInit, ErrorStep, RepeatStepWalks, PTL
     DEF RepeatSpec, RepeatInit, ViaInit

-----------------------------------------------------------------------------
(* Later answers agree with earlier ones.                                  *)

RecordsAreTruthful == Faults \subseteq {"err", "lost_spend", "forged_spend"}

(* The singleton is gone: one of its coins was spent without recreating it.  *)
Melted(id) == \E c \in spent : IsRecreation(id, c) /\ Kids(c) \cap Odd = {}

AnsweredType ==
  /\ answered \in [Coins -> [members : SUBSET Coins, ended : BOOLEAN]]
  /\ steady \in BOOLEAN

(* What was answered is still on the chain: the tip, though it may be spent  *)
(* by now, and the spend that ended the singleton.                           *)
StillOnChain(id) ==
  /\ answered[id].members # {} =>
       \E t \in created :
         IsRecreation(id, t) /\ t # id /\ answered[id].members = Path(id, t)
  /\ SpendsAreGenuine /\ answered[id].ended => Melted(id)

(* A walk that no block was lost to stands on the chain, and what it will    *)
(* answer if current's spend is not served agrees with what was answered.    *)
StandsOnChain == steady /\ pc \in {"hop", "bind"} => current \in created

CandidateAgrees ==
  steady /\ pc = "hop" /\ ~current_spent =>
    /\ rule = "Launch" => answered[launcher_id].members = {}
    /\ rule # "Launch" =>
         /\ answered[launcher_id].members \subseteq members
         /\ SpendsAreGenuine => ~answered[launcher_id].ended

AgreementInv ==
  /\ RefinementInv /\ AnsweredType
  /\ RecordsAreTruthful =>
       (\A id \in Coins : StillOnChain(id)) /\ StandsOnChain /\ CandidateAgrees

LEMMA TruthfulAreGenuine ==
  ASSUME RecordsAreTruthful
  PROVE  RecordsAreGenuine
  BY DEF RecordsAreTruthful, RecordsAreGenuine

(* A member answered earlier is on every later path to an unspent coin.      *)
LEMMA AnsweredIsBelow ==
  ASSUME ChainOK, OneLine, NEW id \in Coins, StillOnChain(id),
         NEW c \in created \ spent, IsRecreation(id, c)
  PROVE  /\ answered[id].members \subseteq Path(id, c)
         /\ c = id => answered[id].members = {}
         /\ c # id => (SpendsAreGenuine => ~answered[id].ended)
<1>0. c \in Coins /\ id \in Launchers /\ id \in Ancestry[c]
  BY DEF ChainOK, IsRecreation
<1>1. ASSUME NEW t \in created, IsRecreation(id, t)
      PROVE  t \in Ancestry[c]
  <2>1. t \in Coins /\ t \in Ancestry[t]
    BY AncestryReflexive DEF ChainOK
  <2>2. t \in Ancestry[c] \/ c \in Ancestry[t]
    BY <1>0, <1>1 DEF OneLine
  <2>3. c \in Ancestry[t] => c = t
    BY <1>1 DEF OneLine
  <2>4. QED
    BY <2>1, <2>2, <2>3
<1>2. ASSUME answered[id].members # {}
      PROVE  answered[id].members \subseteq Path(id, c) /\ c # id
  <2>1. PICK t \in created :
          IsRecreation(id, t) /\ t # id /\ answered[id].members = Path(id, t)
    BY <1>2 DEF StillOnChain
  <2>2. t \in Ancestry[c] /\ t \in Coins
    BY <1>1, <2>1 DEF ChainOK
  <2>3. Path(id, t) \subseteq Path(id, c)
    BY <1>0, <2>2, AncestryTransitive DEF Path
  <2>4. c # id
    <3>1. id \in Ancestry[t]
      BY <2>1 DEF IsRecreation
    <3>2. c = id => t = id
      BY <1>0, <2>2, <3>1, AncestryAntisymmetric
    <3>3. QED
      BY <2>1, <3>2
  <2>5. QED
    BY <2>1, <2>3, <2>4
<1>3. ASSUME c # id, SpendsAreGenuine, answered[id].ended PROVE FALSE
  <2>1. PICK m \in spent : IsRecreation(id, m) /\ Kids(m) \cap Odd = {}
    BY <1>3 DEF StillOnChain, Melted
  <2>2. Truths(id) = {Absent}
    BY <1>0, <2>1, NoTipAfterMelt
  <2>3. IsTip(id, c)
    BY <1>0, <1>3 DEF IsTip
  <2>4. Lineage(c, Path(id, c)) \in Truths(id)
    BY <1>0, <2>3 DEF Truths
  <2>5. Lineage(c, Path(id, c)) # Absent
    BY DEF Lineage, Absent
  <2>6. QED
    BY <2>2, <2>4, <2>5
<1>4. QED
  BY <1>2, <1>3

(* While no block is lost the chain only grows, and a melt stays a melt.     *)
LEMMA NoBlockLost ==
  ASSUME ChainOK, [Next]_vars, ~BlockLost
  PROVE  /\ created \subseteq created'
         /\ \A id \in Coins : Melted(id) => Melted(id)'
<1>p. \A l, c : IsRecreation(l, c)' = IsRecreation(l, c)
  BY DEF IsRecreation, Path
<1>1. CASE UNCHANGED chainVars
  BY <1>1 DEF chainVars, Melted, IsRecreation, Path, Kids
<1>2. CASE ChainStep
  <2>1. ASSUME NEW c \in Coins, Undo(c) PROVE FALSE
    BY <2>1 DEF Undo, BlockLost
  <2>c. PICK c \in Coins : \E K \in SUBSET Children(c) : Spend(c, K)
    BY <1>2, <2>1 DEF ChainStep, ChainMoves
  <2>2. PICK K \in SUBSET Children(c) : Spend(c, K)
    BY <2>c
  <2>3. created' = created \cup K /\ spent' = spent \cup {c} /\ c \notin spent
    BY <2>2 DEF Spend
  <2>4. ASSUME NEW id \in Coins, Melted(id) PROVE Melted(id)'
    <3>1. PICK m \in spent : IsRecreation(id, m) /\ Kids(m) \cap Odd = {}
      BY <2>4 DEF Melted
    <3>2. Kids(m)' = Kids(m)
      BY <2>3, <3>1 DEF Kids, Children
    <3>3. QED
      BY <1>p, <2>3, <3>1, <3>2 DEF Melted
  <2>5. QED
    BY <2>3, <2>4
<1>3. QED
  BY <1>1, <1>2
     DEF Next, WalkStep, Call, ReadLauncher, RefuseTooDeep, RefuseLate,
         ReadNoSpend, ReadSpend, BindSuccessor, vars

LEMMA AgreementInit == RepeatInit => AgreementInv
<1> SUFFICES ASSUME RepeatInit PROVE AgreementInv
  OBVIOUS
<1>1. RefinementInv
  BY RefinementInvInit DEF RepeatInit, ViaInit
<1>2. AnsweredType /\ \A id \in Coins : answered[id] = NothingYet
  BY DEF RepeatInit, AnsweredType, NothingYet
<1>3. pc = "idle"
  BY DEF RepeatInit, ViaInit, Init
<1>4. QED
  BY <1>1, <1>2, <1>3
     DEF AgreementInv, StillOnChain, StandsOnChain, CandidateAgrees, NothingYet

(* What a call answers, and what it had seen of the chain by then.           *)
LEMMA AnswerSeen ==
  ASSUME AgreementInv, RecordsAreTruthful, [Next]_vars, steady, Returns
  PROVE  /\ UNCHANGED <<chainVars, launcher_id>> /\ launcher_id \in Coins
         /\ \/ result'.kind = "failed"
            \/ /\ result' = Absent
               /\ \/ launcher_id \notin created \/ launcher_id \notin Launchers
                  \/ answered[launcher_id].members = {}
                  \/ SpendsAreGenuine => Melted(launcher_id)
            \/ /\ result' = Lineage(current, members)
               /\ pc = "hop" /\ ~current_spent /\ rule # "Launch"
<1>0. /\ PathInv /\ CandidateAgrees /\ RecordsAreGenuine
      /\ pc # "idle" => launcher_id \in Coins /\ current \in Coins
  BY TruthfulAreGenuine DEF AgreementInv, RefinementInv, PathInv, TypedChain, TypeOK
<1>f. \A e : Failed(e).kind = "failed"
  BY DEF Failed
<1>1. CASE ReadLauncher
  <2>1. launcher_id \in Coins /\ UNCHANGED chainVars /\ pc = "launcher"
    BY <1>0, <1>1 DEF ReadLauncher
  <2>2. PICK answer \in RecordAnswers(launcher_id) : ReadLauncher!3!(answer)
    BY <1>1 DEF ReadLauncher
  <2>3. ~EnterLoop(answer.spent)
    BY DEF EnterLoop, Returns
  <2>4. UNCHANGED launcher_id
    BY <2>2, <2>3 DEF Return
  <2>5. result' = Absent => launcher_id \notin created \/ launcher_id \notin Launchers
    BY <1>0, <2>1, <2>2, <2>3, RelayedRecord
       DEF Return, Absent, Failed, ReadFails, Nothing
  <2>6. result' = Absent \/ result'.kind = "failed"
    BY <1>f, <2>2, <2>3 DEF Return
  <2>7. QED
    BY <2>1, <2>4, <2>5, <2>6
<1>2. CASE RefuseTooDeep \/ RefuseLate
  BY <1>0, <1>2, <1>f DEF RefuseTooDeep, RefuseLate, Return
<1>3. CASE ReadNoSpend
  <2>1. pc = "hop" /\ launcher_id \in Coins /\ UNCHANGED <<chainVars, launcher_id>>
    BY <1>0, <1>3 DEF ReadNoSpend, MayReadSpend, Return
  <2>2. CASE \E e : Return(Failed(e))
    BY <1>f, <2>1, <2>2 DEF Return
  <2>3. CASE /\ ~current_spent
             /\ Return(IF rule = "Launch" THEN Absent ELSE Lineage(current, members))
    BY <1>0, <2>1, <2>3 DEF Return, CandidateAgrees
  <2>4. QED
    BY <1>3, <2>2, <2>3 DEF ReadNoSpend
<1>4. CASE ReadSpend
  <2>1. /\ pc = "hop" /\ launcher_id \in Coins /\ UNCHANGED chainVars
        /\ IsRecreation(launcher_id, current)
    BY <1>0, <1>4 DEF ReadSpend, MayReadSpend, PathInv, WalkOnPath
  <2>2. PICK s \in SpendAnswers(current) : ReadSpend!3!(s)
    BY <1>4 DEF ReadSpend
  <2>3. ASSUME NEW k \in OddOutputs(s) PROVE ~Derive(k)
    BY DEF Derive, Returns
  <2>4. CASE Return(Failed(Refusal(s)))
    BY <1>f, <2>1, <2>4 DEF Return
  <2>5. CASE OddOutputs(s) = {} /\ Return(Absent)
    <3>1. ASSUME SpendsAreGenuine PROVE Melted(launcher_id)
      <4>1. current \in spent /\ s = GenuineSpend(current)
        BY <2>2, <3>1 DEF SpendAnswers, If, SpendsAreGenuine, ReadFails, Nothing
      <4>2. Kids(current) \cap Odd = {}
        BY <2>5, <4>1 DEF OddOutputs, GenuineSpend, CoinSpend
      <4>3. QED
        BY <2>1, <4>1, <4>2 DEF Melted
    <3>2. QED
      BY <2>1, <2>5, <3>1 DEF Return
  <2>6. QED
    BY <2>2, <2>3, <2>4, <2>5
<1>5. CASE BindSuccessor
  <2>1. launcher_id \in Coins /\ UNCHANGED chainVars
    BY <1>0, <1>5 DEF BindSuccessor
  <2>2. PICK answer \in RecordAnswers(successor) : BindSuccessor!3!(answer)
    BY <1>5 DEF BindSuccessor
  <2>3. ~Advance(answer.spent)
    BY DEF Advance, Returns
  <2>4. \E e : Return(Failed(e))
    BY <2>2, <2>3
  <2>5. QED
    BY <1>f, <2>1, <2>4 DEF Return
<1>6. QED
  BY <1>1, <1>2, <1>3, <1>4, <1>5
     DEF Next, WalkStep, Call, ChainStep, vars, walkVars, Returns

(* What was answered stays on the chain, and what is answered now is on it.  *)
LEMMA StillStep ==
  ASSUME AgreementInv, RecordsAreTruthful, [RepeatNext]_repeatVars, NEW id \in Coins
  PROVE  StillOnChain(id)'
<1>0. /\ ChainOK /\ OneLine /\ AnsweredType /\ StillOnChain(id) /\ [Next]_vars
      /\ WalkOnPath /\ \A l, c : IsRecreation(l, c)' = IsRecreation(l, c)
  BY RepeatStepWalks
     DEF AgreementInv, RefinementInv, PathInv, TypedChain, IsRecreation, Path
<1>1. CASE BlockLost
  <2>1. RepeatNext
    BY <1>1 DEF BlockLost, repeatVars, viaVars, vars, chainVars
  <2>2. answered'[id] = NothingYet
    BY <1>1, <2>1 DEF RepeatNext
  <2>3. QED
    BY <2>2 DEF StillOnChain, NothingYet
<1>2. CASE ~BlockLost
  <2>0. created \subseteq created' /\ (Melted(id) => Melted(id)')
    BY <1>0, <1>2, NoBlockLost
  <2>1. ASSUME answered'[id] = answered[id] PROVE StillOnChain(id)'
    <3>1. answered[id].members # {} =>
            \E t \in created' :
              IsRecreation(id, t) /\ t # id /\ answered[id].members = Path(id, t)
      BY <1>0, <2>0 DEF StillOnChain
    <3>2. SpendsAreGenuine /\ answered[id].ended => Melted(id)'
      BY <1>0, <2>0 DEF StillOnChain
    <3>3. QED
      BY <1>0, <2>1, <3>1, <3>2 DEF StillOnChain, SpendsAreGenuine, Path
  <2>2. CASE ~(Returns /\ steady /\ id = launcher_id)
    <3>1. answered'[id] = answered[id]
      <4>1. CASE UNCHANGED repeatVars
        BY <4>1 DEF repeatVars
      <4>2. CASE RepeatNext
        BY <1>0, <1>2, <2>2, <4>2 DEF RepeatNext, AnsweredType
      <4>3. QED
        BY <4>1, <4>2
    <3>2. QED
      BY <2>1, <3>1
  <2>3. CASE Returns /\ steady /\ id = launcher_id
    <3>1. RepeatNext
      BY <2>3 DEF Returns, repeatVars, viaVars, vars, walkVars
    <3>2. answered'[id] = Remember(result', answered[id])
      BY <1>0, <1>2, <2>3, <3>1 DEF RepeatNext, AnsweredType
    <3>3. UNCHANGED <<created, spent>>
      BY <1>0, <2>3, AnswerSeen DEF chainVars
    <3>4. answered[id] = [members |-> answered[id].members, ended |-> answered[id].ended]
      BY <1>0 DEF AnsweredType
    <3>5. CASE result'.kind = "failed"
      <4>1. Remember(result', answered[id]) = answered[id]
        BY <3>5 DEF Remember, Absent
      <4>2. QED
        BY <2>1, <3>2, <4>1
    <3>6. CASE result' = Absent
      <4>1. /\ answered'[id].members = answered[id].members
            /\ answered'[id].ended = (answered[id].members # {})
        BY <3>2, <3>4, <3>6 DEF Remember, Absent
      <4>2. ASSUME answered[id].members # {}
            PROVE  id \in created /\ id \in Launchers
        <5>1. PICK t \in created : IsRecreation(id, t)
          BY <1>0, <4>2 DEF StillOnChain
        <5>2. QED
          BY <1>0, <5>1 DEF IsRecreation, OneLine
      <4>3. SpendsAreGenuine /\ answered[id].members # {} => Melted(id)
        BY <1>0, <2>3, <3>6, <4>2, AnswerSeen DEF Absent, Lineage
      <4>4. answered[id].members # {} =>
              \E t \in created' :
                IsRecreation(id, t) /\ t # id /\ answered[id].members = Path(id, t)
        BY <1>0, <2>0 DEF StillOnChain
      <4>5. QED
        BY <1>0, <2>0, <4>1, <4>3, <4>4 DEF StillOnChain, SpendsAreGenuine, Path
    <3>7. CASE result' = Lineage(current, members) /\ pc = "hop" /\ rule # "Launch"
      <4>1. /\ answered'[id].members = members
            /\ answered'[id].ended = answered[id].ended
        BY <3>2, <3>4, <3>7 DEF Remember, Lineage
      <4>2. /\ IsRecreation(id, current) /\ members = Path(id, current)
            /\ current # id
        BY <1>0, <2>3, <3>7 DEF WalkOnPath
      <4>3. current \in created'
        BY <2>3, <3>3, <3>7 DEF AgreementInv, StandsOnChain
      <4>4. SpendsAreGenuine /\ answered[id].ended => Melted(id)'
        BY <1>0, <2>0 DEF StillOnChain
      <4>5. QED
        BY <1>0, <4>1, <4>2, <4>3, <4>4 DEF StillOnChain, SpendsAreGenuine, Path
    <3>8. QED
      BY <1>0, <2>3, <3>5, <3>6, <3>7, AnswerSeen DEF Absent
  <2>4. QED
    BY <2>2, <2>3
<1>3. QED
  BY <1>1, <1>2

(* A walk that goes on, no block lost: it stands where it stood, or on a     *)
(* coin whose record it has just read.                                       *)
LEMMA WalkGoesOn ==
  ASSUME AgreementInv, RecordsAreTruthful, [RepeatNext]_repeatVars,
         steady', pc' \in {"hop", "bind"}
  PROVE  /\ steady /\ ~BlockLost /\ answered' = answered
         /\ current' \in created'
         /\ \/ UNCHANGED walkVars
            \/ /\ UNCHANGED <<chainVars, launcher_id>>
               /\ pc' = "hop" /\ ~current_spent' => current' \in created \ spent
<1>0. /\ PathInv /\ StandsOnChain /\ RecordsAreGenuine /\ ChainOK /\ [Next]_vars
      /\ pc # "idle" => launcher_id \in Coins
  BY RepeatStepWalks, TruthfulAreGenuine
     DEF AgreementInv, RefinementInv, PathInv, TypedChain, TypeOK
<1>1. steady /\ ~BlockLost /\ answered' = answered
  <2>1. CASE UNCHANGED repeatVars
    BY <2>1 DEF repeatVars, viaVars, vars, chainVars, BlockLost
  <2>2. CASE RepeatNext
    BY <2>2 DEF RepeatNext, Returns
  <2>3. QED
    BY <2>1, <2>2
<1>2. created \subseteq created'
  BY <1>0, <1>1, NoBlockLost
<1>3. CASE UNCHANGED walkVars
  BY <1>0, <1>1, <1>2, <1>3 DEF walkVars, StandsOnChain
<1>4. CASE ReadLauncher
  <2>1. PICK answer \in RecordAnswers(launcher_id) : ReadLauncher!3!(answer)
    BY <1>4 DEF ReadLauncher
  <2>2. EnterLoop(answer.spent) /\ answer.kind = "some"
    BY <2>1 DEF Return
  <2>3. /\ launcher_id \in Coins /\ current = launcher_id /\ UNCHANGED chainVars
    BY <1>0, <1>4 DEF ReadLauncher, PathInv, WalkOnPath
  <2>4. launcher_id \in created /\ answer.spent = (launcher_id \in spent)
    BY <1>0, <2>2, <2>3, RelayedRecord DEF ReadFails, Nothing
  <2>5. QED
    BY <1>1, <1>2, <2>2, <2>3, <2>4 DEF EnterLoop
<1>5. CASE ReadSpend
  <2>1. \E k : Derive(k)
    BY <1>5 DEF ReadSpend, Return
  <2>2. pc = "hop" /\ UNCHANGED chainVars
    BY <1>5 DEF ReadSpend, MayReadSpend
  <2>3. QED
    BY <1>0, <1>1, <1>2, <2>1, <2>2 DEF Derive, StandsOnChain
<1>6. CASE BindSuccessor
  <2>1. PICK answer \in RecordAnswers(successor) : BindSuccessor!3!(answer)
    BY <1>6 DEF BindSuccessor
  <2>2. Advance(answer.spent) /\ answer.kind = "some"
    BY <2>1 DEF Return, Confirms
  <2>3. successor \in Coins /\ UNCHANGED chainVars
    BY <1>0, <1>6 DEF BindSuccessor, PathInv, TypedChain, TypeOK
  <2>4. successor \in created /\ answer.spent = (successor \in spent)
    BY <1>0, <2>2, <2>3, RelayedRecord DEF ReadFails, Nothing
  <2>5. QED
    BY <1>1, <1>2, <2>2, <2>3, <2>4 DEF Advance
<1>7. QED
  BY <1>0, <1>3, <1>4, <1>5, <1>6
     DEF Next, WalkStep, Call, RefuseTooDeep, RefuseLate, ReadNoSpend, Return,
         ChainStep, vars

LEMMA AgreementStep == AgreementInv /\ [RepeatNext]_repeatVars => AgreementInv'
<1> SUFFICES ASSUME AgreementInv, [RepeatNext]_repeatVars PROVE AgreementInv'
  OBVIOUS
<1>1. RefinementInv'
  BY RepeatStepWalks, RefinementInvStep DEF AgreementInv
<1>2. AnsweredType'
  <2>1. CASE UNCHANGED repeatVars
    BY <2>1 DEF repeatVars, AgreementInv, AnsweredType
  <2>2. CASE RepeatNext
    <3>1. AnsweredType /\ steady' \in BOOLEAN /\ (pc # "idle" => launcher_id \in Coins)
      BY <2>2
         DEF AgreementInv, RepeatNext, AnsweredType, RefinementInv, PathInv,
             TypedChain, TypeOK
    <3>2. result' \in Answers
      BY <1>1 DEF RefinementInv, PathInv, TypedChain, TypeOK
    <3>3. ASSUME NEW before \in [members : SUBSET Coins, ended : BOOLEAN]
          PROVE  Remember(result', before) \in [members : SUBSET Coins, ended : BOOLEAN]
      <4>1. result'.kind = "lineage" => result'.members \in SUBSET Coins
        BY <3>2 DEF Answers, Absent, Pending, Failed
      <4>2. QED
        BY <4>1 DEF Remember
    <3>4. NothingYet \in [members : SUBSET Coins, ended : BOOLEAN]
      BY DEF NothingYet
    <3>5. QED
      BY <2>2, <3>1, <3>3, <3>4 DEF RepeatNext, AnsweredType
  <2>3. QED
    BY <2>1, <2>2
<1>3. ASSUME RecordsAreTruthful
      PROVE  (\A id \in Coins : StillOnChain(id))' /\ StandsOnChain' /\ CandidateAgrees'
  <2>1. (\A id \in Coins : StillOnChain(id))'
    BY <1>3, StillStep
  <2>2. StandsOnChain'
    BY <1>3, WalkGoesOn DEF StandsOnChain
  <2>3. CandidateAgrees'
    <3> SUFFICES ASSUME steady', pc' = "hop", ~current_spent'
                 PROVE  CandidateAgrees'
      BY DEF CandidateAgrees
    <3>0. steady /\ answered' = answered
      BY <1>3, WalkGoesOn
    <3>1. CASE UNCHANGED walkVars
      BY <1>3, <3>0, <3>1
         DEF AgreementInv, CandidateAgrees, walkVars, SpendsAreGenuine
    <3>2. CASE /\ UNCHANGED <<chainVars, launcher_id>>
               /\ current' \in created \ spent
      <4>1. /\ IsRecreation(launcher_id, current')
            /\ members' = Path(launcher_id, current')
            /\ rule' = "Launch" <=> current' = launcher_id
        BY <1>1, <3>2
           DEF RefinementInv, PathInv, WalkOnPath, IsRecreation, Path
      <4>2. launcher_id \in Coins
        BY <4>1, CoinsAssumption DEF IsRecreation
      <4>3. ChainOK /\ OneLine /\ StillOnChain(launcher_id)
        BY <1>3, <4>2 DEF AgreementInv, RefinementInv, PathInv, TypedChain
      <4>4. /\ answered[launcher_id].members \subseteq Path(launcher_id, current')
            /\ current' = launcher_id => answered[launcher_id].members = {}
            /\ current' # launcher_id
                 => (SpendsAreGenuine => ~answered[launcher_id].ended)
        BY <3>2, <4>1, <4>2, <4>3, AnsweredIsBelow
      <4>5. QED
        BY <3>0, <3>2, <4>1, <4>4 DEF CandidateAgrees, SpendsAreGenuine
    <3>3. QED
      BY <1>3, <3>1, <3>2, WalkGoesOn
  <2>4. QED
    BY <2>1, <2>2, <2>3
<1>4. QED
  BY <1>1, <1>2, <1>3 DEF AgreementInv, RecordsAreTruthful

(* A caller that asks again and again, at any bounds, is never answered a    *)
(* lineage that leaves out a member answered before, nor one of a singleton  *)
(* answered as gone, while the chain only grows: whatever is in between, no  *)
(* partial or superseded lineage is answered for a whole one.                *)
THEOREM LaterAnswersCorrect == RepeatSpec => LaterAnswersAgree
<1>1. AgreementInv /\ [RepeatNext]_repeatVars =>
        [RecordsAreTruthful /\ Returns /\ steady /\ result'.kind = "lineage"
           => /\ answered[launcher_id].members \subseteq result'.members
              /\ answered[launcher_id].ended => "forged_spend" \in Faults]_repeatVars
  <2> SUFFICES ASSUME AgreementInv, [RepeatNext]_repeatVars, RecordsAreTruthful,
                      Returns, steady, result'.kind = "lineage"
               PROVE  /\ answered[launcher_id].members \subseteq result'.members
                      /\ answered[launcher_id].ended => "forged_spend" \in Faults
    OBVIOUS
  <2>1. /\ result' = Lineage(current, members)
        /\ pc = "hop" /\ ~current_spent /\ rule # "Launch"
    BY RepeatStepWalks, AnswerSeen DEF Absent
  <2>2. /\ answered[launcher_id].members \subseteq members
        /\ SpendsAreGenuine => ~answered[launcher_id].ended
    BY <2>1 DEF AgreementInv, CandidateAgrees
  <2>3. QED
    BY <2>1, <2>2 DEF Lineage, SpendsAreGenuine
<1>2. QED
  BY <1>1, AgreementInit, AgreementStep, PTL
     DEF RepeatSpec, LaterAnswersAgree, RecordsAreTruthful

-----------------------------------------------------------------------------
(* Who is blamed when the chain loses blocks.                              *)

LosesSpendsOnly == Faults \subseteq {"err", "lost_spend"}

(* What a call that lost no block holds of the chain is still the case. *)
LossInv == PathInv /\ (LosesSpendsOnly /\ steady => HoldsChainData)

LEMMA LossRecord ==
  ASSUME LosesSpendsOnly, NEW id \in Coins, NEW answer \in RecordAnswers(id)
  PROVE  \/ answer = ReadFails
         \/ id \notin created /\ answer = Nothing
         \/ id \in created /\ answer = Record(id, id \in spent)
  BY DEF RecordAnswers, If, LosesSpendsOnly

LEMMA LossSpend ==
  ASSUME LosesSpendsOnly, NEW id \in Coins, NEW answer \in SpendAnswers(id)
  PROVE  \/ answer = ReadFails
         \/ id \in spent /\ answer = GenuineSpend(id)
         \/ answer = Nothing /\ (id \notin spent \/ "lost_spend" \in Faults)
  BY DEF SpendAnswers, If, LosesSpendsOnly

(* Each way to go on leaves the walk with data that is on the chain.         *)
LEMMA ReadLauncherHolds ==
  ASSUME LossInv, LosesSpendsOnly, ReadLauncher
  PROVE  HoldsChainData'
<1>1. /\ launcher_id \in Coins /\ current = launcher_id /\ UNCHANGED chainVars
      /\ launcher_id \in created \/ launcher_id \notin created
  BY DEF ReadLauncher, LossInv, PathInv, WalkOnPath, TypedChain, TypeOK
<1>2. PICK answer \in RecordAnswers(launcher_id) : ReadLauncher!3!(answer)
  BY DEF ReadLauncher
<1>3. CASE \E a : Return(a)
  BY <1>3 DEF Return, HoldsChainData
<1>4. CASE EnterLoop(answer.spent) /\ answer.kind = "some"
  <2>1. launcher_id \in created /\ answer.spent = (launcher_id \in spent)
    BY <1>1, <1>4, LossRecord, KindsDiffer
  <2>2. QED
    BY <1>1, <1>4, <2>1 DEF EnterLoop, HoldsChainData, chainVars
<1>5. QED
  BY <1>2, <1>3, <1>4

LEMMA ReadSpendHolds ==
  ASSUME LossInv, LosesSpendsOnly, steady, ReadSpend
  PROVE  HoldsChainData'
<1>1. /\ current \in Coins /\ current \in created /\ UNCHANGED chainVars
  BY DEF ReadSpend, MayReadSpend, LossInv, PathInv, TypedChain, TypeOK, HoldsChainData
<1>2. PICK s \in SpendAnswers(current) : ReadSpend!3!(s)
  BY DEF ReadSpend
<1>3. CASE \E a : Return(a)
  BY <1>3 DEF Return, HoldsChainData
<1>4. CASE \E k \in OddOutputs(s) : Derive(k)
  <2>1. OddOutputs(s) \subseteq created
    BY <1>1, <1>2, LossSpend, KindsDiffer DEF OddOutputs, GenuineSpend, CoinSpend, Kids
  <2>2. QED
    BY <1>1, <1>4, <2>1 DEF Derive, HoldsChainData, chainVars
<1>5. QED
  BY <1>2, <1>3, <1>4

LEMMA BindSuccessorHolds ==
  ASSUME LossInv, LosesSpendsOnly, BindSuccessor
  PROVE  HoldsChainData'
<1>1. successor \in Coins /\ UNCHANGED chainVars
  BY DEF BindSuccessor, LossInv, PathInv, TypedChain, TypeOK
<1>2. PICK answer \in RecordAnswers(successor) : BindSuccessor!3!(answer)
  BY DEF BindSuccessor
<1>3. CASE \E a : Return(a)
  BY <1>3 DEF Return, HoldsChainData
<1>4. CASE Advance(answer.spent) /\ answer.kind = "some"
  <2>1. successor \in created /\ answer.spent = (successor \in spent)
    BY <1>1, <1>4, LossRecord, KindsDiffer
  <2>2. QED
    BY <1>1, <1>4, <2>1 DEF Advance, HoldsChainData, chainVars
<1>5. QED
  BY <1>2, <1>3, <1>4 DEF Confirms

LEMMA LossStep == LossInv /\ [RepeatNext]_repeatVars => LossInv'
<1> SUFFICES ASSUME LossInv, [RepeatNext]_repeatVars PROVE LossInv'
  OBVIOUS
<1>1. [Next]_vars /\ PathInv'
  BY RepeatStepWalks, PathStep DEF LossInv
<1>2. SUFFICES ASSUME LosesSpendsOnly, steady', pc' \in {"hop", "bind"}
               PROVE  HoldsChainData'
  BY <1>1 DEF LossInv, HoldsChainData, LosesSpendsOnly
<1>3. steady /\ ~BlockLost
  <2>1. CASE UNCHANGED repeatVars
    BY <1>2, <2>1 DEF repeatVars, viaVars, vars, chainVars, BlockLost
  <2>2. CASE RepeatNext
    BY <1>2, <2>2 DEF RepeatNext
  <2>3. QED
    BY <2>1, <2>2
<1>4. HoldsChainData /\ created \subseteq created' /\ spent \subseteq spent'
  BY <1>1, <1>2, <1>3, NoBlockLost DEF LossInv, PathInv, TypedChain, BlockLost
<1>5. CASE UNCHANGED walkVars
  BY <1>4, <1>5 DEF walkVars, HoldsChainData
<1>6. CASE ReadLauncher \/ ReadSpend \/ BindSuccessor
  BY <1>2, <1>3, <1>6, ReadLauncherHolds, ReadSpendHolds, BindSuccessorHolds
<1>7. QED
  BY <1>1, <1>2, <1>5, <1>6
     DEF Next, WalkStep, Call, RefuseTooDeep, RefuseLate, ReadNoSpend, Return,
         ChainStep, vars

(* Whatever the chain loses meanwhile, a source that serves genuine answers, *)
(* or fails, or does not know a spend, is blamed over a spend beyond the     *)
(* walk, over one it does not know, or, by a call that lost a block, over    *)
(* what is gone when it is blamed.                                           *)
THEOREM LossesCorrect == RepeatSpec => OnlyLossesAreBlamed
<1>1. RepeatInit => LossInv
  BY PathInit DEF RepeatInit, ViaInit, Init, LossInv, HoldsChainData
<1>2. LossInv /\ [RepeatNext]_repeatVars =>
        [LosesSpendsOnly /\ Returns /\ result' = Failed("Malformed")
           => \/ BeyondTheWalk(current) /\ current \in spent
              \/ "lost_spend" \in Faults /\ pc = "hop" /\ current \in spent
              \/ ~steady /\ GoneMeanwhile]_repeatVars
  <2> SUFFICES ASSUME LossInv, [RepeatNext]_repeatVars, LosesSpendsOnly, Returns,
                      result' = Failed("Malformed")
               PROVE  \/ BeyondTheWalk(current) /\ current \in spent
                      \/ "lost_spend" \in Faults /\ pc = "hop" /\ current \in spent
                      \/ ~steady /\ GoneMeanwhile
    OBVIOUS
  <2>0. /\ [Next]_vars /\ PathInv
        /\ pc # "idle" => current \in Coins /\ launcher_id \in Coins
        /\ pc = "bind" => successor \in Coins
    BY RepeatStepWalks DEF LossInv, PathInv, TypedChain, TypeOK
  <2>s. steady => HoldsChainData
    BY DEF LossInv
  <2>1. ~ReadLauncher
    <3>1. SUFFICES ASSUME ReadLauncher PROVE FALSE
      OBVIOUS
    <3>2. PICK answer \in RecordAnswers(launcher_id) : ReadLauncher!3!(answer)
      BY <3>1 DEF ReadLauncher
    <3>3. answer.kind = "some" => answer.coin = launcher_id
      BY <2>0, <3>1, LossRecord, KindsDiffer DEF ReadLauncher
    <3>4. ~EnterLoop(answer.spent)
      BY DEF EnterLoop, Returns
    <3>5. QED
      BY <3>2, <3>3, <3>4, MalformedDiffers DEF Return
  <2>2. CASE ReadNoSpend
    <3>1. pc = "hop" /\ current \in Coins
      BY <2>0, <2>2 DEF ReadNoSpend, MayReadSpend
    <3>2. current_spent /\ Nothing \in SpendAnswers(current)
      BY <2>2, MalformedDiffers DEF ReadNoSpend, Return
    <3>3. current \notin spent \/ "lost_spend" \in Faults
      BY <3>1, <3>2, LossSpend, KindsDiffer DEF GenuineSpend, CoinSpend, Nothing
    <3>4. QED
      BY <2>s, <3>1, <3>2, <3>3 DEF HoldsChainData, GoneMeanwhile
  <2>3. CASE ReadSpend
    <3>1. pc = "hop" /\ current \in Coins
      BY <2>0, <2>3 DEF ReadSpend, MayReadSpend
    <3>2. PICK s \in SpendAnswers(current) :
            s.kind = "some" /\ Refusal(s) = "Malformed" /\ Return(Failed(Refusal(s)))
      BY <2>3, MalformedDiffers DEF ReadSpend, Return, Derive, Returns
    <3>3. current \in spent /\ s = GenuineSpend(current)
      BY <3>1, <3>2, LossSpend, KindsDiffer
    <3>4. QED
      BY <2>0, <3>1, <3>2, <3>3, GenuineSpendAccepted
  <2>4. CASE BindSuccessor
    <3>1. /\ pc = "bind" /\ successor \in Coins
          /\ successor \in Children(current) /\ current \in Coins
          /\ members \subseteq Ancestry[current]
      BY <2>0, <2>4 DEF BindSuccessor, PathInv, WalkOnPath, Path
    <3>2. Admits
      BY <3>1, AncestryOfChild DEF Admits
    <3>3. PICK answer \in RecordAnswers(successor) :
            answer # ReadFails /\ ~Confirms(answer)
      BY <2>4, <3>2, MalformedDiffers DEF BindSuccessor, Return, Advance, Returns
    <3>4. successor \notin created
      BY <3>1, <3>3, LossRecord, KindsDiffer DEF Confirms
    <3>5. QED
      BY <2>s, <3>1, <3>4 DEF HoldsChainData, GoneMeanwhile
  <2>5. QED
    BY <2>0, <2>1, <2>2, <2>3, <2>4, MalformedDiffers
       DEF Next, WalkStep, Call, RefuseTooDeep, RefuseLate, Return, ChainStep, vars,
           walkVars, Returns
<1>3. QED
  BY <1>1, <1>2, LossStep, PTL
     DEF RepeatSpec, OnlyLossesAreBlamed, LosesSpendsOnly
================================================================================
