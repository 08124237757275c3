-------------------------- MODULE LineageWalkProofs --------------------------
(***************************************************************************)
(* The walk's type invariant and safety invariants, for every universe of   *)
(* coins, every bound, and every way the source may misbehave; and what it   *)
(* guarantees of a source that relays the chain: it is never accused, the    *)
(* tip it names is unspent, and TooDeep is really too deep.                  *)
(***************************************************************************)
EXTENDS LineageWalk, ChainSourceProofs, FiniteSetTheorems

-----------------------------------------------------------------------------
(* Type correctness and the chain's shape.                                 *)

LEMMA RefusalKind ==
  ASSUME NEW s
  PROVE  Refusal(s) \in {"none", "Malformed", "RevealTooLarge", "NotASingleton"}
  BY DEF Refusal, ReadRefusal, RuleRefusal

TypedChain == TypeOK /\ ChainOK

LEMMA TakesTime ==
  ASSUME elapsed \in Nat, NEW ticks \in Nat, Takes(ticks)
  PROVE  elapsed' \in Nat /\ elapsed' <= elapsed + ticks
  BY DEF Takes

LEMMA FailedIsAnswer == \A e \in ErrorKinds : Failed(e) \in Answers
  BY DEF Answers, Failed

LEMMA ChainStepKeepsChainOK ==
  ASSUME ChainOK, ChainStep
  PROVE  ChainOK'
  BY ChainMovesKeepChainOK DEF ChainStep

LEMMA TypedChainInit == Init => TypedChain
<1>1. ASSUME Init PROVE ChainOK
  BY <1>1, ChainInitOK DEF Init
<1>2. ASSUME Init PROVE TypeOK
  <2>1. bounds \in [max_hops : 0..MaxLineageDepth, budget : Nat]
    BY <1>2, WalkAssumption DEF Init
  <2>2. result \in Answers
    BY <1>2 DEF Init, Answers
  <2>3. created \subseteq Coins /\ spent \subseteq Coins
    BY <1>1, <1>2 DEF ChainOK
  <2>4. QED
    BY <1>2, <2>1, <2>2, <2>3 DEF Init, TypeOK
<1>3. QED
  BY <1>1, <1>2 DEF TypedChain

LEMMA TypedChainStep == TypedChain /\ [Next]_vars => TypedChain'
<1> SUFFICES ASSUME TypedChain, [Next]_vars PROVE TypedChain'
  OBVIOUS
<1> USE DEF TypedChain
<1> USE WalkAssumption, CoinsAssumption
<1>u. UNCHANGED chainVars => ChainOK'
  BY DEF chainVars, ChainOK, ValidSpend, Kids
<1>1. ASSUME NEW id \in Coins, NEW hops \in Caps, NEW budget \in Budgets,
             Call(id, hops, budget)
      PROVE  TypedChain'
  <2>1. bounds' \in [max_hops : 0..MaxLineageDepth, budget : Nat]
    BY <1>1 DEF Call, ClampedHops, Caps
  <2>2. QED
    BY <1>u, <1>1, <2>1 DEF Call, chainVars, TypeOK, Answers, Pending
<1>2. ASSUME ReadLauncher PROVE TypedChain'
  <2>1. elapsed' \in Nat /\ UNCHANGED chainVars
    BY <1>2, TakesTime DEF ReadLauncher, TypeOK
  <2>2. launcher_id \in Coins
    BY <1>2 DEF ReadLauncher, TypeOK
  <2>3. QED
    BY <1>u, <1>2, <2>1, <2>2, RecordAnswerShape
       DEF ReadLauncher, Return, EnterLoop, TypeOK, Answers, Failed, Absent,
           ErrorKinds, chainVars
<1>3. ASSUME RefuseTooDeep \/ RefuseLate PROVE TypedChain'
  BY <1>u, <1>3 DEF RefuseTooDeep, RefuseLate, Return, TypeOK, Answers, Failed,
                    ErrorKinds, chainVars
<1>4. ASSUME ReadNoSpend PROVE TypedChain'
  <2>1. elapsed' \in Nat /\ UNCHANGED chainVars
    BY <1>4, TakesTime DEF ReadNoSpend, TypeOK
  <2>2. current \in Coins
    BY <1>4 DEF ReadNoSpend, MayReadSpend, TypeOK
  <2>3. QED
    BY <1>u, <1>4, <2>1, <2>2
       DEF ReadNoSpend, Return, TypeOK, Answers, Failed, Absent, Lineage,
           ErrorKinds, chainVars, MayReadSpend
<1>5. ASSUME ReadSpend PROVE TypedChain'
  <2>1. elapsed' \in Nat /\ UNCHANGED chainVars
    BY <1>5, TakesTime DEF ReadSpend, TypeOK
  <2>2. current \in Coins
    BY <1>5 DEF ReadSpend, MayReadSpend, TypeOK
  <2>3. PICK s \in SpendAnswers(current) : ReadSpend!3!(s)
    BY <1>5 DEF ReadSpend
  <2>4. Failed(Refusal(s)) \in Answers \/ Refusal(s) = "none"
    BY RefusalKind, FailedIsAnswer DEF ErrorKinds
  <2>5. OddOutputs(s) \subseteq Coins
    BY <2>2, <2>3, SpendAnswerShape DEF OddOutputs, Emittable, Children
  <2>6. QED
    BY <1>u, <1>5, <2>1, <2>2, <2>3, <2>4, <2>5
       DEF ReadSpend, MayReadSpend, Return, Derive, TypeOK, chainVars, Answers
<1>6. ASSUME BindSuccessor PROVE TypedChain'
  <2>1. elapsed' \in Nat /\ UNCHANGED chainVars
    BY <1>6, TakesTime DEF BindSuccessor, TypeOK
  <2>2. successor \in Coins
    BY <1>6 DEF BindSuccessor, TypeOK
  <2>3. QED
    BY <1>u, <1>6, <2>1, <2>2, RecordAnswerShape
       DEF BindSuccessor, Confirms, Admits, Return, Advance, TypeOK, Answers,
           Failed, ErrorKinds, chainVars
<1>7. ASSUME ChainStep PROVE TypedChain'
  <2>1. ChainOK' /\ UNCHANGED walkVars
    BY <1>7, ChainStepKeepsChainOK DEF ChainStep, ChainMoves
  <2>2. QED
    BY <2>1 DEF TypeOK, ChainOK, walkVars
<1>8. CASE UNCHANGED vars
  BY <1>u, <1>8 DEF vars, chainVars, walkVars, TypeOK
<1>9. QED
  BY <1>1, <1>2, <1>3, <1>4, <1>5, <1>6, <1>7, <1>8 DEF Next, WalkStep

(* Every reachable state is well typed, and the chain keeps its shape. *)
THEOREM TypeCorrect == Spec => [](TypeOK /\ ChainOK)
  BY TypedChainInit, TypedChainStep, PTL DEF Spec, TypedChain

-----------------------------------------------------------------------------
(* The members are the singleton's own coins.                              *)

(* While the walk runs, its members are the path from the launcher to        *)
(* current, and the successor continues it.                                  *)
WalkOnPath ==
  /\ pc \in {"launcher", "hop", "bind"} => result = Pending
  /\ pc = "launcher" =>
       /\ members = {launcher_id}
       /\ current = launcher_id
       /\ rule = "Launch"
  /\ pc \in {"hop", "bind"} =>
       /\ IsRecreation(launcher_id, current)
       /\ members = Path(launcher_id, current)
       /\ rule = "Launch" <=> current = launcher_id
  /\ pc = "bind" =>
       /\ successor \in Children(current) \cap Odd
       /\ rule = "Recreate" => {CurriedTo[current], CurriedTo[successor]} = {launcher_id}

PathInv == TypedChain /\ WalkOnPath /\ MembersAreRecreations

(* A spend that is not refused belongs to current; what its one odd output   *)
(* creates is a child of current, curried as the rule demands.               *)
LEMMA DerivedSuccessor ==
  ASSUME PathInv, pc = "hop",
         NEW s \in SpendAnswers(current), s.kind = "some",
         Refusal(s) = "none", NEW k \in OddOutputs(s)
  PROVE  /\ k \in Children(current) \cap Odd
         /\ rule = "Recreate" => {CurriedTo[current], CurriedTo[k]} = {launcher_id}
<1>1. current \in Coins /\ ChainOK /\ launcher_id \in Coins
  BY DEF PathInv, TypedChain, TypeOK
<1>2. s.coin = current /\ s.emits \in Emittable(current)
  BY <1>1, SpendAnswerShape DEF Refusal, ReadRefusal, RuleRefusal, ReadFails, Nothing
<1>3. rule = "Recreate" => CurriedTo[current] = launcher_id
  BY DEF Refusal, ReadRefusal, RuleRefusal
<1>4. launcher_id # NoCoin
  BY <1>1, CoinsAssumption
<1>5. QED
  BY <1>2, <1>3, <1>4 DEF OddOutputs, Emittable, IsSingleton

LEMMA PathInit == Init => PathInv
<1> SUFFICES ASSUME Init PROVE PathInv
  OBVIOUS
<1>1. TypedChain
  BY TypedChainInit
<1>2. WalkOnPath /\ MembersAreRecreations
  BY DEF Init, WalkOnPath, MembersAreRecreations, Pending
<1>3. QED
  BY <1>1, <1>2 DEF PathInv

(* An answer that is no lineage keeps the invariant. *)
LEMMA ReturnKeepsPath ==
  ASSUME NEW answer, answer.kind # "lineage", Return(answer)
  PROVE  WalkOnPath' /\ MembersAreRecreations'
  BY DEF Return, WalkOnPath, MembersAreRecreations

LEMMA PathStep == PathInv /\ [Next]_vars => PathInv'
<1> SUFFICES ASSUME PathInv, [Next]_vars PROVE PathInv'
  OBVIOUS
<1>t. TypedChain'
  BY TypedChainStep DEF PathInv
<1>a. \A e : Failed(e).kind # "lineage"
  BY DEF Failed
<1>b. Absent.kind # "lineage" /\ Pending.kind # "lineage"
  BY DEF Absent, Pending
<1> USE DEF PathInv
<1>1. ASSUME NEW id \in Coins, NEW hops \in Caps, NEW budget \in Budgets,
             Call(id, hops, budget)
      PROVE  PathInv'
  BY <1>t, <1>b, <1>1 DEF Call, WalkOnPath, MembersAreRecreations
<1>2. ASSUME ReadLauncher PROVE PathInv'
  <2>1. launcher_id \in Coins /\ pc = "launcher"
    BY <1>2 DEF ReadLauncher, TypedChain, TypeOK
  <2>2. CASE \E answer \in {Failed("Source"), Failed("Malformed"), Absent} :
               Return(answer)
    BY <1>t, <1>a, <1>b, <2>2, ReturnKeepsPath
  <2>3. CASE launcher_id \in Launchers /\ \E s : EnterLoop(s)
    <3>1. Path(launcher_id, launcher_id) = {launcher_id}
      BY <2>1, PathToSelf
    <3>2. launcher_id \in Ancestry[launcher_id]
      BY <2>1, AncestryReflexive
    <3>3. WalkOnPath' /\ MembersAreRecreations'
      BY <1>b, <2>1, <2>3, <3>1, <3>2
         DEF EnterLoop, WalkOnPath, MembersAreRecreations, IsRecreation, Path
    <3>4. QED
      BY <1>t, <3>3
  <2>4. QED
    BY <1>2, <2>2, <2>3 DEF ReadLauncher
<1>3. ASSUME RefuseTooDeep \/ RefuseLate PROVE PathInv'
  BY <1>t, <1>a, <1>3, ReturnKeepsPath DEF RefuseTooDeep, RefuseLate
<1>4. ASSUME ReadNoSpend PROVE PathInv'
  <2>1. CASE \E answer \in {Failed("Source"), Failed("Malformed"), Absent} :
               Return(answer)
    BY <1>t, <1>a, <1>b, <2>1, ReturnKeepsPath
  <2>2. CASE rule # "Launch" /\ Return(Lineage(current, members))
    <3>1. current \in Coins /\ launcher_id \in Coins /\ pc = "hop"
      BY <1>4 DEF ReadNoSpend, MayReadSpend, TypedChain, TypeOK
    <3>2. current # launcher_id
      BY <2>2, <3>1 DEF WalkOnPath
    <3>3. WalkOnPath' /\ MembersAreRecreations'
      BY <2>2, <3>1, <3>2
         DEF Return, Lineage, WalkOnPath, MembersAreRecreations, IsRecreation, Path
    <3>4. QED
      BY <1>t, <3>3
  <2>3. QED
    BY <1>4, <2>1, <2>2 DEF ReadNoSpend
<1>5. ASSUME ReadSpend PROVE PathInv'
  <2>1. pc = "hop"
    BY <1>5 DEF ReadSpend, MayReadSpend
  <2>2. CASE \E answer \in {Absent} \cup {Failed(e) : e \in ErrorKinds} :
               Return(answer)
    BY <1>t, <1>a, <1>b, <2>2, ReturnKeepsPath
  <2>3. CASE \E s \in SpendAnswers(current) :
               /\ s.kind = "some"
               /\ Refusal(s) = "none"
               /\ \E k \in OddOutputs(s) : Derive(k)
    <3>0. PICK s \in SpendAnswers(current) :
                 /\ s.kind = "some"
                 /\ Refusal(s) = "none"
                 /\ \E k \in OddOutputs(s) : Derive(k)
      BY <2>3
    <3>1. PICK k \in OddOutputs(s) : Derive(k)
      BY <3>0
    <3>2. /\ k \in Children(current) \cap Odd
          /\ rule = "Recreate" => {CurriedTo[current], CurriedTo[k]} = {launcher_id}
      BY <2>1, <3>0, DerivedSuccessor
    <3>3. WalkOnPath' /\ MembersAreRecreations'
      BY <1>b, <2>1, <3>1, <3>2
         DEF Derive, WalkOnPath, MembersAreRecreations, IsRecreation, Path, Children
    <3>4. QED
      BY <1>t, <3>3
  <2>4. QED
    BY <1>5, <2>2, <2>3, RefusalKind DEF ReadSpend, ErrorKinds
<1>6. ASSUME BindSuccessor PROVE PathInv'
  <2>1. CASE \E answer \in {Failed("Source"), Failed("Malformed")} :
               Return(answer)
    BY <1>t, <1>a, <2>1, ReturnKeepsPath
  <2>2. CASE \E s : Advance(s)
    <3>1. /\ pc = "bind"
          /\ current \in Coins
          /\ launcher_id \in Coins
          /\ successor \in Children(current) \cap Odd
      BY <1>6 DEF BindSuccessor, TypedChain, TypeOK, WalkOnPath
    <3>2. Path(launcher_id, successor) = members \cup {successor}
      BY <3>1, PathToChild DEF WalkOnPath, IsRecreation
    <3>3. launcher_id \in Ancestry[successor] /\ successor # launcher_id
      BY <3>1, AncestryOfChild DEF WalkOnPath, IsRecreation
    <3>4. Parent[successor] = current /\ successor \notin Ancestry[current]
      BY <3>1, AncestryOfChild DEF Children
    <3>5. IsRecreation(launcher_id, successor)
      BY <3>1, <3>2, <3>3, <3>4
         DEF WalkOnPath, IsRecreation, TypedChain, TypeOK
    <3>6. WalkOnPath' /\ MembersAreRecreations'
      BY <1>b, <2>2, <3>1, <3>2, <3>3, <3>5
         DEF Advance, WalkOnPath, MembersAreRecreations, IsRecreation, Path
    <3>7. QED
      BY <1>t, <3>6
  <2>3. QED
    BY <1>6, <2>1, <2>2 DEF BindSuccessor
<1>7. CASE ChainStep \/ UNCHANGED vars
  <2>1. UNCHANGED walkVars
    BY <1>7 DEF ChainStep, ChainMoves, vars
  <2>2. QED
    BY <1>t, <2>1
       DEF walkVars, WalkOnPath, MembersAreRecreations, IsRecreation, Path,
           Children
<1>8. QED
  BY <1>1, <1>2, <1>3, <1>4, <1>5, <1>6, <1>7 DEF Next, WalkStep

(* Whatever the source serves, the members of an answered lineage are the    *)
(* unbroken path of recreations from the launcher to the tip.                *)
THEOREM MembersCorrect == Spec => []MembersAreRecreations
  BY PathInit, PathStep, PTL DEF Spec, PathInv

-----------------------------------------------------------------------------
(* A walk returns within its budget and one hop.                           *)

(* The clock when a hop begins is at most one read of the launcher, or was   *)
(* checked one hop earlier.                                                  *)
ClockInv ==
  /\ pc \in {"launcher", "hop", "bind"} => result = Pending
  /\ pc = "launcher" => elapsed = 0
  /\ pc = "bind" => elapsed <= bounds.budget + MaxRead + MaxEval
  /\ BudgetPlusOneHop

LEMMA ClockInit == Init => ClockInv
  BY WalkAssumption DEF Init, ClockInv, BudgetPlusOneHop, Pending, Failed

LEMMA ClockStep == TypedChain /\ ClockInv /\ [Next]_vars => ClockInv'
<1> SUFFICES ASSUME TypedChain, ClockInv, [Next]_vars PROVE ClockInv'
  OBVIOUS
<1> USE WalkAssumption DEF ClockInv, BudgetPlusOneHop
<1>t. elapsed \in Nat /\ bounds.budget \in Nat
  BY DEF TypedChain, TypeOK
<1>p. Pending # Failed("DeadlineExceeded")
  BY DEF Pending, Failed
<1>a. /\ Absent # Failed("DeadlineExceeded")
      /\ \A t, M : Lineage(t, M) # Failed("DeadlineExceeded")
      /\ \A e \in {"Source", "Malformed", "RevealTooLarge", "NotASingleton"} :
           Failed(e) # Failed("DeadlineExceeded")
      /\ Failed("TooDeep") # Failed("DeadlineExceeded")
  BY DEF Absent, Failed, Lineage
<1>1. ASSUME NEW id \in Coins, NEW hops \in Caps, NEW budget \in Budgets,
             Call(id, hops, budget)
      PROVE  ClockInv'
  <2>1. bounds'.budget \in Nat
    BY <1>1 DEF Call, ClampedHops
  <2>2. QED
    BY <1>1, <1>p, <2>1 DEF Call
<1>2. ASSUME ReadLauncher PROVE ClockInv'
  <2>1. pc = "launcher" /\ elapsed' \in Nat /\ elapsed' <= MaxRead
    BY <1>t, <1>2, TakesTime DEF ReadLauncher
  <2>2. QED
    BY <1>t, <1>a, <1>p, <1>2, <2>1 DEF ReadLauncher, Return, EnterLoop
<1>3. ASSUME RefuseTooDeep PROVE ClockInv'
  BY <1>t, <1>a, <1>3 DEF RefuseTooDeep, Return
<1>4. ASSUME RefuseLate PROVE ClockInv'
  BY <1>t, <1>4 DEF RefuseLate, Return
<1>5. ASSUME ReadNoSpend PROVE ClockInv'
  <2>1. elapsed' \in Nat /\ elapsed' <= bounds.budget + MaxRead
    BY <1>t, <1>5, TakesTime DEF ReadNoSpend, MayReadSpend
  <2>2. QED
    BY <1>t, <1>a, <1>5, <2>1 DEF ReadNoSpend, Return
<1>6. ASSUME ReadSpend PROVE ClockInv'
  <2>1. elapsed' \in Nat /\ elapsed' <= bounds.budget + MaxRead + MaxEval
    BY <1>t, <1>6, TakesTime DEF ReadSpend, MayReadSpend
  <2>2. QED
    BY <1>t, <1>a, <1>p, <1>6, <2>1, RefusalKind
       DEF ReadSpend, MayReadSpend, Return, Derive
<1>7. ASSUME BindSuccessor PROVE ClockInv'
  <2>1. elapsed' \in Nat /\ elapsed' <= bounds.budget + 2 * MaxRead + MaxEval
    BY <1>t, <1>7, TakesTime DEF BindSuccessor
  <2>2. QED
    BY <1>t, <1>a, <1>p, <1>7, <2>1 DEF BindSuccessor, Return, Advance
<1>8. CASE ChainStep \/ UNCHANGED vars
  BY <1>8 DEF ChainStep, ChainMoves, vars, walkVars
<1>9. QED
  BY <1>1, <1>2, <1>3, <1>4, <1>5, <1>6, <1>7, <1>8 DEF Next, WalkStep

(* However long reads take, up to their bound, and whatever budget a caller  *)
(* sets, the walk returns within the budget plus one worst-case hop.         *)
THEOREM BudgetCorrect == Spec => []BudgetPlusOneHop
<1>1. Init => TypedChain /\ ClockInv
  BY TypedChainInit, ClockInit
<1>2. TypedChain /\ ClockInv /\ [Next]_vars => (TypedChain /\ ClockInv)'
  BY TypedChainStep, ClockStep
<1>3. TypedChain /\ ClockInv => BudgetPlusOneHop
  BY DEF ClockInv
<1>4. QED
  BY <1>1, <1>2, <1>3, PTL DEF Spec

-----------------------------------------------------------------------------
(* Only the eve can turn out to be no singleton.                           *)

EveInv == PathInv /\ OnlyTheEveIsRejected

LEMMA EveStep == EveInv /\ [Next]_vars => EveInv'
<1> SUFFICES ASSUME EveInv, [Next]_vars PROVE EveInv'
  OBVIOUS
<1> USE DEF EveInv
<1>t. PathInv'
  BY PathStep
<1>a. /\ Pending # Failed("NotASingleton")
      /\ Absent # Failed("NotASingleton")
      /\ \A t, M : Lineage(t, M) # Failed("NotASingleton")
      /\ \A e : e # "NotASingleton" => Failed(e) # Failed("NotASingleton")
  BY DEF Absent, Failed, Lineage, Pending
<1>1. ASSUME NEW id \in Coins, NEW hops \in Caps, NEW budget \in Budgets,
             Call(id, hops, budget)
      PROVE  OnlyTheEveIsRejected'
  BY <1>a, <1>1 DEF Call, OnlyTheEveIsRejected
<1>2. ASSUME ReadLauncher \/ RefuseTooDeep \/ RefuseLate \/ ReadNoSpend \/ BindSuccessor
      PROVE  OnlyTheEveIsRejected'
  <2>1. pc \in {"launcher", "hop", "bind"}
    BY <1>2 DEF ReadLauncher, RefuseTooDeep, RefuseLate, ReadNoSpend,
                MayReadSpend, BindSuccessor
  <2>2. result' # Failed("NotASingleton")
    BY <1>a, <1>2, <2>1
       DEF ReadLauncher, RefuseTooDeep, RefuseLate, ReadNoSpend, BindSuccessor,
           Return, EnterLoop, Advance, PathInv, WalkOnPath
  <2>3. QED
    BY <2>2 DEF OnlyTheEveIsRejected
<1>3. ASSUME ReadSpend PROVE OnlyTheEveIsRejected'
  <2>1. SUFFICES ASSUME result' = Failed("NotASingleton")
                 PROVE  OnlyTheEveIsRejected'
    BY DEF OnlyTheEveIsRejected
  <2>2. pc = "hop" /\ result = Pending /\ current \in Coins
    BY <1>3 DEF ReadSpend, MayReadSpend, PathInv, WalkOnPath, TypedChain, TypeOK
  <2>3. PICK s \in SpendAnswers(current) :
          /\ s.kind = "some"
          /\ Refusal(s) = "NotASingleton"
          /\ Return(Failed(Refusal(s)))
    BY <1>3, <1>a, <2>1, <2>2 DEF ReadSpend, Return, Derive
  <2>4. rule = "Recreate" /\ CurriedTo[current] # launcher_id
    BY <2>3 DEF Refusal, ReadRefusal, RuleRefusal
  <2>5. current \in members \ {launcher_id}
    BY <2>2, <2>4, AncestryReflexive DEF PathInv, WalkOnPath, IsRecreation, Path
  <2>6. Parent[current] = launcher_id
    BY <2>2, <2>4, <2>5 DEF PathInv, WalkOnPath, IsRecreation
  <2>7. "forged_spend" \notin Faults => current \in spent
    BY <2>3 DEF SpendAnswers, If, ReadFails, Nothing
  <2>8. UNCHANGED <<spent, current, launcher_id>>
    BY <1>3, <2>3 DEF ReadSpend, Return, chainVars
  <2>9. QED
    BY <2>4, <2>6, <2>7, <2>8 DEF OnlyTheEveIsRejected
<1>4. CASE ChainStep \/ UNCHANGED vars
  <2>1. UNCHANGED walkVars
    BY <1>4 DEF ChainStep, ChainMoves, vars
  <2>2. "reorg" \notin Churn => spent \subseteq spent'
    BY <1>4 DEF ChainStep, ChainMoves, vars, chainVars, Spend
  <2>3. UNCHANGED <<result, current, launcher_id>>
    BY <2>1 DEF walkVars
  <2>4. QED
    BY <1>t, <2>2, <2>3 DEF OnlyTheEveIsRejected
<1>5. QED
  BY <1>t, <1>1, <1>2, <1>3, <1>4 DEF Next, WalkStep

(* A walk declares a coin no singleton only of the eve, never of a coin      *)
(* whose puzzle it derived; and without forged spends, only once the eve     *)
(* has been spent.                                                           *)
THEOREM OnlyTheEveCorrect == Spec => []OnlyTheEveIsRejected
<1>1. Init => EveInv
  BY PathInit DEF EveInv, Init, OnlyTheEveIsRejected, Pending, Failed
<1>2. QED
  BY <1>1, EveStep, PTL DEF Spec, EveInv

-----------------------------------------------------------------------------
(* An honest source is blamed for what is beyond the walk only.            *)

(* What the walk holds of an honest chain stays on the chain. *)
HoldsChainData ==
  /\ pc \in {"hop", "bind"} => current \in created
  /\ pc = "hop" /\ current_spent => current \in spent
  /\ pc = "bind" => successor \in created

BlamedForItsSpend ==
  result = Failed("Malformed") => current \in spent /\ BeyondTheWalk(current)

HonestInv == PathInv /\ (HonestSource => HoldsChainData) /\ HonestNeverBlamed

LEMMA HonestRecord ==
  ASSUME HonestSource, NEW id \in created, NEW answer \in RecordAnswers(id)
  PROVE  answer = ReadFails \/ answer = Record(id, id \in spent)
  BY DEF RecordAnswers, If, HonestSource

LEMMA HonestSpend ==
  ASSUME HonestSource, NEW id \in Coins, NEW answer \in SpendAnswers(id)
  PROVE  \/ answer = ReadFails
         \/ id \in spent /\ answer = GenuineSpend(id)
         \/ id \notin spent /\ answer = Nothing
  BY DEF SpendAnswers, If, HonestSource

LEMMA KindsDiffer ==
  /\ ReadFails # Nothing
  /\ \A c, s : Record(c, s) # ReadFails /\ Record(c, s) # Nothing
  /\ \A c, s : Record(c, s).kind = "some" /\ Record(c, s).coin = c
               /\ Record(c, s).spent = s
  /\ ReadFails.kind = "err" /\ Nothing.kind = "none"
  BY DEF ReadFails, Nothing, Record

LEMMA MalformedDiffers ==
  /\ Pending # Failed("Malformed")
  /\ Absent # Failed("Malformed")
  /\ \A t, M : Lineage(t, M) # Failed("Malformed")
  /\ \A e : e # "Malformed" => Failed(e) # Failed("Malformed")
  BY DEF Pending, Absent, Lineage, Failed

(* A spend of the chain that the walk has room for is not malformed to it. *)
LEMMA GenuineSpendAccepted ==
  ASSUME PathInv, pc = "hop", current \in spent, ~BeyondTheWalk(current)
  PROVE  Refusal(GenuineSpend(current)) # "Malformed"
<1>1. /\ current \in Coins
      /\ launcher_id \in Coins
      /\ ValidSpend(current, Kids(current))
      /\ launcher_id \in Launchers
      /\ rule \in {"Launch", "Recreate"}
      /\ rule = "Launch" <=> current = launcher_id
  BY DEF PathInv, TypedChain, TypeOK, ChainOK, WalkOnPath, IsRecreation
<1>2. OddOutputs(GenuineSpend(current)) = Kids(current) \cap Odd
  BY DEF OddOutputs, GenuineSpend, CoinSpend
<1>3. rule = "Launch" =>
        \A j, k \in OddOutputs(GenuineSpend(current)) : j = k
  BY <1>1, <1>2 DEF ValidSpend
<1>4. CurriedTo[current] = launcher_id =>
        \A j, k \in OddOutputs(GenuineSpend(current)) : j = k
  BY <1>1, <1>2, CoinsAssumption DEF ValidSpend, IsSingleton
<1>5. /\ GenuineSpend(current).coin = current
      /\ GenuineSpend(current).reveal = "genuine"
      /\ ~GenuineSpend(current).costly
      /\ current \notin Garbled
  BY DEF GenuineSpend, CoinSpend, BeyondTheWalk
<1>6. ~ParseRefused(GenuineSpend(current))
  <2>1. GenuineSpend(current).solution = "decodable"
    BY DEF GenuineSpend, CoinSpend
  <2>2. ~(ArenaNodes > ArenaLimit)
    <3>1. HopNodes[current] \in Nat /\ ArenaLimit \in Nat /\ HopNodes[current] <= ArenaLimit
      BY <1>1, WalkAssumption DEF BeyondTheWalk
    <3>2. QED
      BY <3>1 DEF ArenaNodes
  <2>3. QED
    BY <2>1, <2>2 DEF ParseRefused
<1>7. QED
  BY <1>1, <1>3, <1>4, <1>5, <1>6 DEF Refusal, ReadRefusal, RuleRefusal

LEMMA HonestInit == Init => HonestInv
  BY PathInit, MalformedDiffers
     DEF Init, HonestInv, HoldsChainData, HonestNeverBlamed

LEMMA HonestStep == HonestInv /\ [Next]_vars => HonestInv'
<1> SUFFICES ASSUME HonestInv, [Next]_vars PROVE HonestInv'
  OBVIOUS
<1>t. PathInv'
  BY PathStep DEF HonestInv
<1>c. HonestSource' <=> HonestSource
  BY DEF HonestSource
<1>s. SUFFICES ASSUME HonestSource
               PROVE  HoldsChainData' /\ BlamedForItsSpend'
  BY <1>t, <1>c DEF HonestInv, HonestNeverBlamed, BlamedForItsSpend
<1>h. PathInv /\ HoldsChainData /\ BlamedForItsSpend
  BY <1>s DEF HonestInv, HonestNeverBlamed, BlamedForItsSpend
<1>ty. /\ pc # "idle" => current \in Coins /\ launcher_id \in Coins
       /\ created \subseteq Coins /\ spent \subseteq created
  BY <1>h DEF PathInv, TypedChain, TypeOK, ChainOK
<1>p. pc \in {"launcher", "hop", "bind"} /\ UNCHANGED result => BlamedForItsSpend'
  BY <1>h, MalformedDiffers DEF PathInv, WalkOnPath, BlamedForItsSpend
<1>d. ASSUME NEW e, e # "Malformed", Return(Failed(e))
      PROVE  HoldsChainData' /\ BlamedForItsSpend'
  BY <1>d, MalformedDiffers DEF Return, HoldsChainData, BlamedForItsSpend
<1>n. ASSUME NEW a, a = Absent \/ \E t, M : a = Lineage(t, M), Return(a)
      PROVE  HoldsChainData' /\ BlamedForItsSpend'
  BY <1>n, MalformedDiffers DEF Return, HoldsChainData, BlamedForItsSpend
<1>1. ASSUME NEW id \in Coins, NEW hops \in Caps, NEW budget \in Budgets,
             Call(id, hops, budget)
      PROVE  HoldsChainData' /\ BlamedForItsSpend'
  BY <1>1, MalformedDiffers DEF Call, HoldsChainData, BlamedForItsSpend
<1>2. ASSUME ReadLauncher
      PROVE  HoldsChainData' /\ BlamedForItsSpend'
  <2>1. launcher_id \in Coins /\ current = launcher_id /\ UNCHANGED chainVars
    BY <1>2, <1>h, <1>ty DEF ReadLauncher, PathInv, WalkOnPath
  <2>2. CASE launcher_id \notin created
    <3>1. \A answer \in RecordAnswers(launcher_id) :
            answer = ReadFails \/ answer = Nothing
      BY <1>s, <2>2 DEF RecordAnswers, If, HonestSource
    <3>2. QED
      BY <1>2, <1>d, <1>n, <3>1, KindsDiffer DEF ReadLauncher
  <2>3. CASE launcher_id \in created
    <3>1. \A answer \in RecordAnswers(launcher_id) :
            answer = ReadFails \/ answer = Record(launcher_id, launcher_id \in spent)
      BY <1>s, <2>3, HonestRecord
    <3>2. \/ Return(Failed("Source"))
          \/ Return(Absent)
          \/ EnterLoop(launcher_id \in spent)
      BY <1>2, <3>1, KindsDiffer DEF ReadLauncher
    <3>3. CASE EnterLoop(launcher_id \in spent)
      <4>1. BlamedForItsSpend'
        BY <1>2, <1>p, <3>3 DEF ReadLauncher, EnterLoop
      <4>2. HoldsChainData'
        BY <1>h, <2>1, <2>3, <3>3 DEF EnterLoop, HoldsChainData, chainVars
      <4>3. QED
        BY <4>1, <4>2
    <3>4. QED
      BY <1>d, <1>n, <3>2, <3>3
  <2>4. QED
    BY <2>2, <2>3
<1>3. ASSUME RefuseTooDeep \/ RefuseLate
      PROVE  HoldsChainData' /\ BlamedForItsSpend'
  BY <1>d, <1>3 DEF RefuseTooDeep, RefuseLate
<1>4. ASSUME ReadNoSpend
      PROVE  HoldsChainData' /\ BlamedForItsSpend'
  <2>1. pc = "hop" /\ current \in Coins
    BY <1>4, <1>ty DEF ReadNoSpend, MayReadSpend
  <2>2. \A answer \in SpendAnswers(current) :
          answer = Nothing => ~current_spent
    BY <1>s, <1>h, <2>1, HonestSpend, KindsDiffer
       DEF HoldsChainData, GenuineSpend, CoinSpend, Nothing
  <2>3. QED
    BY <1>4, <1>d, <1>n, <2>2 DEF ReadNoSpend
<1>5. ASSUME ReadSpend
      PROVE  HoldsChainData' /\ BlamedForItsSpend'
  <2>1. pc = "hop" /\ current \in Coins /\ UNCHANGED chainVars
    BY <1>5, <1>ty DEF ReadSpend, MayReadSpend
  <2>2. PICK s \in SpendAnswers(current) : ReadSpend!3!(s)
    BY <1>5 DEF ReadSpend
  <2>3. current \in spent /\ s = GenuineSpend(current)
    BY <1>s, <2>1, <2>2, HonestSpend, KindsDiffer
  <2>4. CASE Refusal(s) = "Malformed" /\ Return(Failed(Refusal(s)))
    <3>1. BeyondTheWalk(current)
      BY <1>h, <2>1, <2>3, <2>4, GenuineSpendAccepted
    <3>2. BlamedForItsSpend' /\ pc' = "done"
      BY <2>1, <2>3, <2>4, <3>1 DEF Return, BlamedForItsSpend, chainVars
    <3>3. QED
      BY <3>2 DEF HoldsChainData
  <2>5. OddOutputs(s) \subseteq created
    BY <2>3 DEF OddOutputs, GenuineSpend, CoinSpend, Kids
  <2>6. CASE \E k \in OddOutputs(s) : Derive(k)
    <3>1. BlamedForItsSpend'
      BY <1>p, <2>1, <2>6 DEF Derive
    <3>2. HoldsChainData'
      BY <1>h, <2>1, <2>5, <2>6 DEF Derive, HoldsChainData, chainVars
    <3>3. QED
      BY <3>1, <3>2
  <2>7. QED
    BY <1>d, <1>n, <2>2, <2>4, <2>6
<1>6. ASSUME BindSuccessor
      PROVE  HoldsChainData' /\ BlamedForItsSpend'
  <2>1. /\ successor \in created
        /\ successor \in Children(current)
        /\ current \in Coins
        /\ members \subseteq Ancestry[current]
        /\ UNCHANGED chainVars
    BY <1>6, <1>h, <1>ty
       DEF BindSuccessor, HoldsChainData, PathInv, WalkOnPath, Path
  <2>2. successor \notin members
    BY <2>1, AncestryOfChild
  <2>3. \A answer \in RecordAnswers(successor) :
          answer = ReadFails \/ answer = Record(successor, successor \in spent)
    BY <1>s, <2>1, HonestRecord
  <2>4. Return(Failed("Source")) \/ Advance(successor \in spent)
    BY <1>6, <2>2, <2>3, KindsDiffer DEF BindSuccessor, Confirms, Admits
  <2>5. CASE Advance(successor \in spent)
    <3>1. BlamedForItsSpend'
      BY <1>6, <1>p, <2>5 DEF BindSuccessor, Advance
    <3>2. HoldsChainData'
      BY <1>h, <2>1, <2>5 DEF Advance, HoldsChainData, chainVars
    <3>3. QED
      BY <3>1, <3>2
  <2>6. QED
    BY <1>d, <2>4, <2>5
<1>7. CASE ChainStep \/ UNCHANGED vars
  <2>1. created \subseteq created' /\ spent \subseteq spent'
    BY <1>7, <1>s DEF ChainStep, ChainMoves, vars, chainVars, Spend, HonestSource
  <2>2. UNCHANGED <<pc, current, current_spent, successor, result>>
    BY <1>7 DEF ChainStep, ChainMoves, vars, walkVars
  <2>3. QED
    BY <1>h, <2>1, <2>2 DEF HoldsChainData, BlamedForItsSpend
<1>8. QED
  BY <1>1, <1>2, <1>3, <1>4, <1>5, <1>6, <1>7 DEF Next, WalkStep

(* A source that relays the chain, or fails to answer, is accused of         *)
(* malformed data only over a spend on the chain that is beyond the walk,    *)
(* however blocks overtake it.                                               *)
THEOREM HonestCorrect == Spec => []HonestNeverBlamed
  BY HonestInit, HonestStep, PTL DEF Spec, HonestInv

-----------------------------------------------------------------------------
(* The tip is unspent when it is named.                                    *)

(* If every spend on the chain is served, unforged, then a tip is answered   *)
(* only while it is unspent, even when its own record knew no spent height.  *)
THEOREM TipUnspentIfSpendsAreServed ==
  ASSUME Faults \subseteq {"err", "unknown_height"}
  PROVE  Spec => TipIsUnspent
<1>1. [Next]_vars =>
        (result'.kind = "lineage" /\ result' # result => result'.tip \notin spent)
  <2>1. SUFFICES ASSUME [Next]_vars, result'.kind = "lineage", result' # result
                 PROVE  result'.tip \notin spent
    OBVIOUS
  <2>2. /\ Absent.kind # "lineage"
        /\ Pending.kind # "lineage"
        /\ \A e : Failed(e).kind # "lineage"
    BY DEF Absent, Pending, Failed
  <2>3. ReadNoSpend
    BY <2>1, <2>2
       DEF Next, WalkStep, Call, ReadLauncher, RefuseTooDeep, RefuseLate,
           ReadSpend, BindSuccessor, ChainStep, ChainMoves, Return, EnterLoop, Derive,
           Advance, vars, walkVars
  <2>4. Nothing \in SpendAnswers(current) /\ result' = Lineage(current, members)
    BY <2>1, <2>2, <2>3 DEF ReadNoSpend, Return
  <2>5. current \notin spent
    BY <2>4 DEF SpendAnswers, If, GenuineSpend, CoinSpend, Nothing, ReadFails
  <2>6. QED
    BY <2>4, <2>5 DEF Lineage
<1>2. QED
  BY <1>1, PTL DEF Spec, TipIsUnspent

-----------------------------------------------------------------------------
(* TooDeep is refused only of lineages past the bound.                     *)

RelaysGenuineData ==
  Faults \subseteq {"err", "lost_spend", "unknown_height"} /\ "reorg" \notin Churn

(* One member more than hops, and all of them but current spent. *)
CountsHops ==
  /\ IsFiniteSet(members)
  /\ pc = "idle" => members = {}
  /\ pc # "idle" =>
       /\ Cardinality(members) = hop + 1
       /\ hop <= bounds.max_hops + 1
       /\ current \in members
       /\ RelaysGenuineData => members \ {current} \subseteq spent
  /\ pc \in {"launcher", "bind"} => hop <= bounds.max_hops
  /\ pc = "bind" /\ RelaysGenuineData => current \in spent
  /\ result = Failed("TooDeep") => pc = "done" /\ hop = bounds.max_hops + 1

DepthInv == PathInv /\ CountsHops

LEMMA DepthInit == Init => DepthInv
  BY PathInit, FS_EmptySet DEF Init, DepthInv, CountsHops, Pending, Failed

LEMMA DepthStep == DepthInv /\ [Next]_vars => DepthInv'
<1> SUFFICES ASSUME DepthInv, [Next]_vars PROVE DepthInv'
  OBVIOUS
<1> USE DEF DepthInv
<1>t. PathInv'
  BY PathStep
<1>ty. hop \in Nat /\ bounds.max_hops \in Nat /\ TypedChain
  BY WalkAssumption DEF PathInv, TypedChain, TypeOK
<1>a. /\ Pending # Failed("TooDeep")
      /\ Absent # Failed("TooDeep")
      /\ \A u, M : Lineage(u, M) # Failed("TooDeep")
      /\ \A e : e # "TooDeep" => Failed(e) # Failed("TooDeep")
  BY DEF Absent, Failed, Lineage, Pending
<1>r. ASSUME NEW answer, Return(answer), answer # Failed("TooDeep"),
             UNCHANGED chainVars, pc # "idle"
      PROVE  CountsHops'
  BY <1>r DEF Return, CountsHops, chainVars, RelaysGenuineData
<1>1. ASSUME NEW id \in Coins, NEW hops \in Caps, NEW budget \in Budgets,
             Call(id, hops, budget)
      PROVE  CountsHops'
  <2>1. bounds'.max_hops \in Nat
    BY <1>1, WalkAssumption DEF Call, ClampedHops, Caps
  <2>2. IsFiniteSet({id}) /\ Cardinality({id}) = 1
    BY FS_Singleton
  <2>3. QED
    BY <1>1, <1>a, <2>1, <2>2 DEF Call, CountsHops, RelaysGenuineData
<1>2. ASSUME ReadLauncher PROVE CountsHops'
  <2>1. pc = "launcher" /\ UNCHANGED chainVars /\ result = Pending
    BY <1>2 DEF ReadLauncher, PathInv, WalkOnPath
  <2>2. CASE \E s : EnterLoop(s)
    BY <1>a, <1>ty, <2>1, <2>2 DEF EnterLoop, CountsHops, chainVars, RelaysGenuineData
  <2>3. QED
    BY <1>2, <1>a, <1>r, <2>1, <2>2 DEF ReadLauncher
<1>3. ASSUME RefuseTooDeep PROVE CountsHops'
  BY <1>3, <1>ty DEF RefuseTooDeep, Return, CountsHops, chainVars, RelaysGenuineData
<1>4. ASSUME RefuseLate \/ ReadNoSpend PROVE CountsHops'
  BY <1>4, <1>a, <1>r DEF RefuseLate, ReadNoSpend, MayReadSpend, chainVars
<1>5. ASSUME ReadSpend PROVE CountsHops'
  <2>1. pc = "hop" /\ hop <= bounds.max_hops /\ UNCHANGED chainVars
        /\ result = Pending
    BY <1>5 DEF ReadSpend, MayReadSpend, PathInv, WalkOnPath
  <2>2. PICK s \in SpendAnswers(current) : ReadSpend!3!(s)
    BY <1>5 DEF ReadSpend
  <2>3. RelaysGenuineData => current \in spent
    BY <2>2 DEF SpendAnswers, If, Nothing, ReadFails, RelaysGenuineData
  <2>4. CASE \E k : Derive(k)
    BY <1>a, <2>1, <2>3, <2>4 DEF Derive, CountsHops, chainVars, RelaysGenuineData
  <2>5. QED
    BY <1>a, <1>r, <2>1, <2>2, <2>4, RefusalKind
<1>6. ASSUME BindSuccessor PROVE CountsHops'
  <2>1. pc = "bind" /\ UNCHANGED chainVars /\ result = Pending
    BY <1>6 DEF BindSuccessor, PathInv, WalkOnPath
  <2>2. CASE successor \notin members /\ \E s : Advance(s)
    <3>1. /\ IsFiniteSet(members \cup {successor})
          /\ Cardinality(members \cup {successor}) = hop + 2
      BY <1>ty, <2>1, <2>2, FS_AddElement DEF CountsHops
    <3>2. RelaysGenuineData => (members \cup {successor}) \ {successor} \subseteq spent
      BY <2>1 DEF CountsHops
    <3>3. QED
      BY <1>a, <1>ty, <2>1, <2>2, <3>1, <3>2
         DEF Advance, CountsHops, chainVars, RelaysGenuineData
  <2>3. QED
    BY <1>6, <1>a, <1>r, <2>1, <2>2 DEF BindSuccessor, Confirms, Admits
<1>7. CASE ChainStep \/ UNCHANGED vars
  <2>1. RelaysGenuineData => spent \subseteq spent'
    BY <1>7 DEF ChainStep, ChainMoves, vars, chainVars, Spend, RelaysGenuineData
  <2>2. UNCHANGED <<pc, members, current, hop, bounds, result>>
    BY <1>7 DEF ChainStep, ChainMoves, vars, walkVars
  <2>3. RelaysGenuineData' <=> RelaysGenuineData
    BY DEF RelaysGenuineData
  <2>4. CountsHops'
    BY <2>1, <2>2, <2>3 DEF CountsHops
  <2>5. QED
    BY <1>t, <2>4
<1>8. QED
  BY <1>t, <1>1, <1>2, <1>3, <1>4, <1>5, <1>6, <1>7 DEF Next, WalkStep

(* An answered lineage holds no more spends than the caller's bound. *)
AnswerInBound ==
  result.kind = "lineage" => Cardinality(result.members) <= bounds.max_hops + 1

LEMMA AnswerInit == Init => AnswerInBound
  BY DEF Init, AnswerInBound, Pending

LEMMA AnswerStep == DepthInv /\ AnswerInBound /\ [Next]_vars => AnswerInBound'
<1> SUFFICES ASSUME DepthInv, AnswerInBound, [Next]_vars, result'.kind = "lineage"
             PROVE  Cardinality(result'.members) <= bounds'.max_hops + 1
  BY DEF AnswerInBound
<1>1. /\ Absent.kind # "lineage"
      /\ Pending.kind # "lineage"
      /\ \A e : Failed(e).kind # "lineage"
  BY DEF Absent, Pending, Failed
<1>2. CASE UNCHANGED <<result, bounds>>
  BY <1>2 DEF AnswerInBound
<1>3. CASE ReadNoSpend
  <2>1. /\ result' = Lineage(current, members)
        /\ bounds' = bounds
        /\ pc = "hop" /\ hop <= bounds.max_hops
    BY <1>1, <1>3 DEF ReadNoSpend, MayReadSpend, Return
  <2>2. hop \in Nat /\ bounds.max_hops \in Nat /\ Cardinality(members) = hop + 1
    BY <2>1, WalkAssumption
       DEF DepthInv, PathInv, TypedChain, TypeOK, CountsHops
  <2>3. QED
    BY <2>1, <2>2 DEF Lineage
<1>4. QED
  BY <1>1, <1>2, <1>3
     DEF Next, WalkStep, Call, ReadLauncher, RefuseTooDeep, RefuseLate, ReadSpend,
         BindSuccessor, ChainStep, ChainMoves, Return, EnterLoop, Derive, Advance, vars, walkVars

LEMMA DepthBound == DepthInv /\ AnswerInBound => TooDeepIsBeyondTheBound
<1> SUFFICES ASSUME DepthInv, AnswerInBound PROVE TooDeepIsBeyondTheBound
  OBVIOUS
<1>ty. /\ hop \in Nat
       /\ bounds.max_hops \in Nat
       /\ bounds.max_hops <= MaxLineageDepth
       /\ MaxLineageDepth \in Nat
  BY WalkAssumption DEF DepthInv, PathInv, TypedChain, TypeOK
<1>1. IsFiniteSet(members) /\ Cardinality(members) <= MaxLineageDepth + 2
  BY <1>ty, FS_EmptySet DEF DepthInv, CountsHops
<1>2. ASSUME result = Failed("TooDeep")
      PROVE  /\ Cardinality(members) > bounds.max_hops + 1
             /\ RelaysGenuineData => Cardinality(members \cap spent) > bounds.max_hops
  <2>1. /\ Cardinality(members) = bounds.max_hops + 2
        /\ current \in members
        /\ RelaysGenuineData => members \ {current} \subseteq members \cap spent
    BY <1>ty, <1>2 DEF DepthInv, CountsHops
  <2>2. Cardinality(members \ {current}) = bounds.max_hops + 1
    <3>1. Cardinality(members \ {current}) = Cardinality(members) - 1
      BY <1>1, <2>1, FS_RemoveElement
    <3>2. QED
      BY <1>ty, <2>1, <3>1
  <2>3. IsFiniteSet(members \cap spent) /\ Cardinality(members \cap spent) \in Nat
    BY <1>1, FS_Subset, FS_CardinalityType
  <2>4. RelaysGenuineData =>
          Cardinality(members \ {current}) <= Cardinality(members \cap spent)
    BY <2>1, <2>3, FS_Subset
  <2>5. QED
    BY <1>ty, <2>1, <2>2, <2>3, <2>4
<1>3. QED
  BY <1>1, <1>2 DEF TooDeepIsBeyondTheBound, RelaysGenuineData, AnswerInBound

(* A walk refuses as too deep only a lineage with more spends than the       *)
(* caller's bound, and answers none with more.                               *)
THEOREM TooDeepCorrect == Spec => []TooDeepIsBeyondTheBound
<1>1. Init => DepthInv /\ AnswerInBound
  BY DepthInit, AnswerInit
<1>2. DepthInv /\ AnswerInBound /\ [Next]_vars => (DepthInv /\ AnswerInBound)'
  BY DepthStep, AnswerStep
<1>3. DepthInv /\ AnswerInBound => TooDeepIsBeyondTheBound
  BY DepthBound
<1>4. QED
  BY <1>1, <1>2, <1>3, PTL DEF Spec

-----------------------------------------------------------------------------
(* Every call ends.                                                        *)

CountsDown ==
  /\ pc = "launcher" => hop = 0
  /\ pc = "hop" => hop <= bounds.max_hops + 1
  /\ pc = "bind" => hop <= bounds.max_hops

StepsInv == TypedChain /\ CountsDown

LEMMA StepsInit == Init => StepsInv
  BY TypedChainInit DEF StepsInv, CountsDown, Init

(* Every action that a running call takes: the invariant and the descent.    *)
LEMMA StepsDescend ==
  ASSUME StepsInv, WalkStep
  PROVE  /\ CountsDown'
         /\ StepsLeft <= 2 * MaxLineageDepth + 4
         /\ 0 <= StepsLeft' /\ StepsLeft' < StepsLeft
<1>1. /\ hop \in Nat /\ bounds.max_hops \in Nat /\ MaxLineageDepth \in Nat
      /\ bounds.max_hops <= MaxLineageDepth
  BY WalkAssumption DEF StepsInv, TypedChain, TypeOK
<1>2. /\ pc \in {"launcher", "hop", "bind"}
      /\ 1 <= StepsLeft /\ StepsLeft <= 2 * MaxLineageDepth + 4
  <2>1. pc \in {"launcher", "hop", "bind"}
    BY DEF WalkStep, ReadLauncher, RefuseTooDeep, RefuseLate, ReadNoSpend,
           ReadSpend, MayReadSpend, BindSuccessor
  <2>2. CASE pc = "launcher"
    BY <1>1, <2>2 DEF StepsLeft
  <2>3. CASE pc = "hop"
    BY <1>1, <2>3 DEF StepsLeft, StepsInv, CountsDown
  <2>4. CASE pc = "bind"
    BY <1>1, <2>4 DEF StepsLeft, StepsInv, CountsDown
  <2>5. QED
    BY <2>1, <2>2, <2>3, <2>4
<1>3. CASE pc' = "done"
  <2>1. StepsLeft' = 0
    BY <1>3 DEF StepsLeft
  <2>2. StepsLeft \in Int
    BY <1>1, <1>2 DEF StepsLeft
  <2>3. QED
    BY <1>2, <1>3, <2>1, <2>2 DEF CountsDown
<1>4. CASE ReadLauncher /\ pc' # "done"
  <2>1. pc = "launcher" /\ pc' = "hop" /\ UNCHANGED <<hop, bounds>>
    BY <1>4 DEF ReadLauncher, EnterLoop, Return
  <2>2. hop = 0
    BY <2>1 DEF StepsInv, CountsDown
  <2>3. StepsLeft = 2 * bounds.max_hops + 4 /\ StepsLeft' = 2 * (bounds.max_hops + 1) + 1
    BY <1>1, <2>1, <2>2 DEF StepsLeft
  <2>4. QED
    BY <1>1, <1>2, <2>1, <2>2, <2>3 DEF CountsDown
<1>5. CASE ReadSpend /\ pc' # "done"
  <2>1. /\ pc = "hop" /\ pc' = "bind" /\ UNCHANGED <<hop, bounds>>
        /\ hop <= bounds.max_hops
    BY <1>5 DEF ReadSpend, MayReadSpend, Derive, Return
  <2>2. /\ StepsLeft = 2 * (bounds.max_hops + 1 - hop) + 1
        /\ StepsLeft' = 2 * (bounds.max_hops + 1 - hop)
    BY <2>1 DEF StepsLeft
  <2>3. QED
    BY <1>1, <1>2, <2>1, <2>2 DEF CountsDown
<1>6. CASE BindSuccessor /\ pc' # "done"
  <2>1. pc = "bind" /\ pc' = "hop" /\ hop' = hop + 1 /\ bounds' = bounds
    BY <1>6 DEF BindSuccessor, Advance, Return
  <2>2. hop <= bounds.max_hops
    BY <2>1 DEF StepsInv, CountsDown
  <2>3. /\ StepsLeft = 2 * (bounds.max_hops + 1 - hop)
        /\ StepsLeft' = 2 * (bounds.max_hops + 1 - (hop + 1)) + 1
    BY <2>1 DEF StepsLeft
  <2>4. QED
    BY <1>1, <1>2, <2>1, <2>2, <2>3 DEF CountsDown
<1>7. RefuseTooDeep \/ RefuseLate \/ ReadNoSpend => pc' = "done"
  BY DEF RefuseTooDeep, RefuseLate, ReadNoSpend, Return
<1>8. QED
  BY <1>3, <1>4, <1>5, <1>6, <1>7 DEF WalkStep

LEMMA StepsStep == StepsInv /\ [Next]_vars => StepsInv'
<1> SUFFICES ASSUME StepsInv, [Next]_vars PROVE CountsDown'
  BY TypedChainStep DEF StepsInv
<1>1. CASE \E id \in Coins, hops \in Caps, budget \in Budgets : Call(id, hops, budget)
  BY <1>1 DEF Call, CountsDown
<1>2. CASE WalkStep
  BY <1>2, StepsDescend
<1>3. CASE UNCHANGED walkVars
  BY <1>3 DEF StepsInv, CountsDown, walkVars
<1>4. QED
  BY <1>1, <1>2, <1>3 DEF Next, ChainStep, vars

(* Whatever is served and however the chain moves, a call is over after      *)
(* 2 * MAX_LINEAGE_DEPTH + 4 steps: each lowers a number of that size.       *)
THEOREM StepsCorrect == Spec => EveryStepNearsTheAnswer
<1>1. StepsInv /\ [Next]_vars =>
        [walkVars' # walkVars /\ pc \in {"launcher", "hop", "bind"}
           => /\ StepsLeft <= 2 * MaxLineageDepth + 4
              /\ 0 <= StepsLeft' /\ StepsLeft' < StepsLeft]_vars
  <2> SUFFICES ASSUME StepsInv, [Next]_vars, walkVars' # walkVars,
                      pc \in {"launcher", "hop", "bind"}
               PROVE  /\ StepsLeft <= 2 * MaxLineageDepth + 4
                      /\ 0 <= StepsLeft' /\ StepsLeft' < StepsLeft
    OBVIOUS
  <2>1. WalkStep
    BY DEF Next, Call, ChainStep, vars
  <2>2. QED
    BY <2>1, StepsDescend
<1>2. QED
  BY <1>1, StepsInit, StepsStep, PTL DEF Spec, EveryStepNearsTheAnswer
=============================================================================
