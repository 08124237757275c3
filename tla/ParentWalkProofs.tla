--------------------------- MODULE ParentWalkProofs ---------------------------
(***************************************************************************)
(* The backward walk finds the nearest launcher or says truthfully why not, *)
(* for every universe of coins and every hop bound.                         *)
(***************************************************************************)
EXTENDS ParentWalk, ChainSourceProofs, FiniteSetTheorems

-----------------------------------------------------------------------------
(* Type correctness and the chain's shape.                                 *)

TypeInv ==
  /\ ParentTypeOK
  /\ phase = "spend" => climbed < MaxHops
  /\ ChainOK
  /\ OneLine

LEMMA ParentSpendShape ==
  ASSUME TypeInv, NEW answer \in ParentSpendAnswers, answer.kind = "some"
  PROVE  answer.coin \in Coins
<1>1. CASE parent_id \in Coins
  BY <1>1, SpendAnswerShape DEF ParentSpendAnswers, TypeInv
<1>2. CASE parent_id \notin Coins
  <2>1. Nothing.kind # "some" /\ ReadFails.kind # "some"
    BY DEF Nothing, ReadFails
  <2>2. answer \in ForeignSpends
    BY <1>2, <2>1 DEF ParentSpendAnswers, If
  <2>3. QED
    BY <2>2 DEF ForeignSpends
<1>3. QED
  BY <1>1, <1>2

LEMMA TypeInit == ParentInit => TypeInv
<1> SUFFICES ASSUME ParentInit PROVE TypeInv
  OBVIOUS
<1>1. ChainOK /\ OneLine
  BY ChainInitOK, OneLineInit DEF ParentInit
<1>2. QED
  BY <1>1, MaxHopsAssumption DEF ParentInit, TypeInv, ParentTypeOK, ChainOK

LEMMA TypeStep == TypeInv /\ [ParentNext]_climbVars => TypeInv'
<1> SUFFICES ASSUME TypeInv, [ParentNext]_climbVars PROVE TypeInv'
  OBVIOUS
<1> USE DEF TypeInv
<1> USE MaxHopsAssumption
<1>u. UNCHANGED chainVars => (ChainOK /\ OneLine)'
  BY DEF chainVars, ChainOK, OneLine, IsRecreation, Path, ValidSpend, Kids
<1>1. ASSUME NEW id \in Coins, Authenticate(id) PROVE TypeInv'
  BY <1>u, <1>1 DEF Authenticate, ParentTypeOK, chainVars
<1>2. CASE GiveUp
  BY <1>u, <1>2 DEF GiveUp, Conclude, ParentTypeOK, chainVars
<1>3. CASE ReadChildRecord
  <2>1. PICK answer \in RecordAnswers(child) : ReadChildRecord!2!(answer)
    BY <1>3 DEF ReadChildRecord
  <2>2. phase = "record" /\ climbed < MaxHops /\ child \in Coins
    BY <1>3 DEF ReadChildRecord, MayClimb, ParentTypeOK
  <2>3. answer.kind = "some" => SpendToRead(answer) \in Coins \cup {NoCoin}
    BY <2>2, CoinsAssumption, RecordAnswerShape DEF SpendToRead
  <2>4. QED
    BY <1>u, <1>3, <2>1, <2>2, <2>3 DEF ReadChildRecord, Conclude, ParentTypeOK, chainVars
<1>4. CASE ReadParentSpend
  <2>1. PICK answer \in ParentSpendAnswers : ReadParentSpend!2!(answer)
    BY <1>4 DEF ReadParentSpend
  <2>2. answer.kind = "some" => answer.coin \in Coins
    BY ParentSpendShape
  <2>3. phase = "spend" /\ climbed \in Nat /\ climbed + 1 \in 0..MaxHops
    BY <1>4 DEF ReadParentSpend, ParentTypeOK
  <2>4. QED
    BY <1>u, <1>4, <2>1, <2>2, <2>3
       DEF ReadParentSpend, Conclude, Climb, ParentTypeOK, chainVars
<1>5. ASSUME ChainMoves(phase \notin {"idle", "done"}), UNCHANGED parentVars
      PROVE  TypeInv'
  BY <1>5, ChainMovesKeepChainOK, ChainMovesKeepOneLine
     DEF parentVars, ParentTypeOK, ChainOK
<1>6. CASE UNCHANGED climbVars
  BY <1>u, <1>6 DEF climbVars, parentVars, chainVars, ParentTypeOK
<1>7. QED
  BY <1>1, <1>2, <1>3, <1>4, <1>5, <1>6 DEF ParentNext, ClimbStep

(* The backward walk keeps its types, and its hop count its bound, whatever  *)
(* the source serves.                                                        *)
THEOREM ParentTypeCorrect == ParentSpec => []ParentTypeOK
<1>1. TypeInv => ParentTypeOK
  BY DEF TypeInv
<1>2. QED
  BY <1>1, TypeInit, TypeStep, PTL DEF ParentSpec

-----------------------------------------------------------------------------
(* Where a walk over genuine data stands.                                  *)

(* What was climbed is the path from child to the coin, one coin a hop, and  *)
(* free of launchers above the coin; the rest of the coin's ancestry is      *)
(* child's own.                                                              *)
Climbed ==
  /\ child \in Ancestry[coin_id]
  /\ Ancestry[coin_id] = Path(child, coin_id) \cup Ancestry[child]
  /\ Path(child, coin_id) \cap LaunchersAbove(coin_id) = {}
  /\ IsFiniteSet(Path(child, coin_id))
  /\ Cardinality(Path(child, coin_id)) = climbed + 1
  /\ phase = "spend" => parent_id = Parent[child]

OnTheWayUp == GenuineData /\ phase \in {"record", "spend"} => Climbed

LEMMA GenuineRecord ==
  ASSUME GenuineData, NEW id \in Coins, NEW answer \in RecordAnswers(id),
         answer.kind = "some"
  PROVE  answer.coin = id
<1>1. \A s : Record(id, s).coin = id
  BY DEF Record
<1>2. Nothing.kind # "some" /\ ReadFails.kind # "some"
  BY DEF Nothing, ReadFails
<1>3. \E s : answer = Record(id, s)
  BY <1>2 DEF RecordAnswers, If, GenuineData
<1>4. QED
  BY <1>1, <1>3

LEMMA GenuineParentSpend ==
  ASSUME GenuineData, NEW answer \in ParentSpendAnswers, answer.kind = "some"
  PROVE  parent_id \in Coins /\ answer.coin = parent_id
<1>1. Nothing.kind # "some" /\ ReadFails.kind # "some"
  BY DEF Nothing, ReadFails
<1>2. parent_id \in Coins /\ answer = GenuineSpend(parent_id)
  BY <1>1 DEF ParentSpendAnswers, SpendAnswers, If, GenuineData
<1>3. QED
  BY <1>2 DEF GenuineSpend, CoinSpend

(* One coin up from c, the path from it is one coin longer and what is left  *)
(* above it is still all there is.                                           *)
LEMMA PathFromParent ==
  ASSUME NEW k \in Coins, NEW c \in Ancestry[k], NEW p \in Coins, Parent[c] = p,
         Ancestry[k] = Path(c, k) \cup Ancestry[c]
  PROVE  /\ p \in Ancestry[k]
         /\ Path(p, k) = Path(c, k) \cup {p}
         /\ p \notin Path(c, k)
         /\ Ancestry[k] = Path(p, k) \cup Ancestry[p]
<1>1. c \in Coins /\ c \in Children(p) /\ c \in Path(c, k)
  BY AncestryReflexive DEF Children, Path
<1>2. Ancestry[c] = {c} \cup Ancestry[p] /\ c \notin Ancestry[p] /\ p \in Ancestry[c]
  BY <1>1, AncestryOfChild
<1>3. p \in Ancestry[k]
  BY <1>2
<1>4. p \notin Path(c, k)
  BY <1>2 DEF Path
<1>5. ASSUME NEW m \in Path(c, k) PROVE m \in Path(p, k)
  <2>1. m \in Coins /\ c \in Ancestry[m] /\ m \in Ancestry[k]
    BY AncestryReflexive DEF Path
  <2>2. p \in Ancestry[m]
    BY <1>2, <2>1, AncestryTransitive
  <2>3. QED
    BY <2>1, <2>2 DEF Path
<1>6. ASSUME NEW m \in Path(p, k) PROVE m \in Path(c, k) \cup {p}
  <2>1. m \in Ancestry[k] /\ p \in Ancestry[m]
    BY DEF Path
  <2>2. CASE m \in Ancestry[p]
    BY <2>1, <2>2, AncestryAntisymmetric
  <2>3. QED
    BY <1>1, <1>2, <2>1, <2>2
<1>7. p \in Path(p, k)
  BY <1>3, AncestryReflexive DEF Path
<1>8. QED
  BY <1>1, <1>2, <1>3, <1>4, <1>5, <1>6, <1>7

(* A launcher above the coin that was not climbed past is above child, and   *)
(* its path to the coin is longer than what was climbed.                     *)
LEMMA PathFromAbove ==
  ASSUME NEW k \in Coins, NEW c \in Ancestry[k], NEW l \in Ancestry[k],
         l \notin Path(c, k), Ancestry[k] = Path(c, k) \cup Ancestry[c],
         NEW n \in Nat, IsFiniteSet(Path(c, k)), Cardinality(Path(c, k)) = n
  PROVE  Cardinality(Path(l, k)) > n
<1>1. l \in Ancestry[c] /\ l \in Coins /\ c \in Coins
  BY AncestryReflexive
<1>2. ASSUME NEW m \in Path(c, k) PROVE m \in Path(l, k)
  <2>1. m \in Coins /\ c \in Ancestry[m] /\ m \in Ancestry[k]
    BY AncestryReflexive DEF Path
  <2>2. l \in Ancestry[m]
    BY <1>1, <2>1, AncestryTransitive
  <2>3. QED
    BY <2>1, <2>2 DEF Path
<1>3. l \in Path(l, k)
  BY <1>1, AncestryReflexive DEF Path
<1>4. IsFiniteSet(Path(l, k))
  BY FiniteAncestry, FS_Subset DEF Path
<1>5. Cardinality(Path(c, k) \cup {l}) = n + 1
  BY FS_AddElement
<1>6. Cardinality(Path(c, k) \cup {l}) <= Cardinality(Path(l, k))
  BY <1>2, <1>3, <1>4, FS_Subset
<1>7. Cardinality(Path(l, k)) \in Nat
  BY <1>4, FS_CardinalityType
<1>8. QED
  BY <1>5, <1>6, <1>7

LEMMA WayUpStep == TypeInv /\ OnTheWayUp /\ [ParentNext]_climbVars => OnTheWayUp'
<1> SUFFICES ASSUME TypeInv, OnTheWayUp, [ParentNext]_climbVars PROVE OnTheWayUp'
  OBVIOUS
<1>g. GenuineData' = GenuineData
  BY DEF GenuineData
<1>1. ASSUME NEW id \in Coins, Authenticate(id) PROVE OnTheWayUp'
  <2>1. Path(id, id) = {id} /\ id \in Ancestry[id]
    BY PathToSelf, AncestryReflexive
  <2>2. IsFiniteSet({id}) /\ Cardinality({id}) = 1
    BY FS_Singleton
  <2>3. {id} \cap LaunchersAbove(id) = {}
    BY DEF LaunchersAbove
  <2>4. /\ child' = id /\ coin_id' = id /\ climbed' = 0 /\ phase' = "record"
        /\ climbed' + 1 = 1
    BY <1>1 DEF Authenticate
  <2>5. QED
    BY <2>1, <2>2, <2>3, <2>4 DEF OnTheWayUp, Climbed, Path, LaunchersAbove
<1>2. CASE GiveUp
  BY <1>2 DEF GiveUp, Conclude, OnTheWayUp
<1>3. CASE ReadChildRecord
  <2>1. PICK answer \in RecordAnswers(child) : ReadChildRecord!2!(answer)
    BY <1>3 DEF ReadChildRecord
  <2>2. phase = "record" /\ child \in Coins
    BY <1>3 DEF ReadChildRecord, MayClimb, TypeInv, ParentTypeOK
  <2>3. SUFFICES ASSUME GenuineData, phase' \in {"record", "spend"} PROVE Climbed'
    BY <1>g DEF OnTheWayUp
  <2>4. /\ answer.kind = "some"
        /\ parent_id' = SpendToRead(answer)
        /\ UNCHANGED <<coin_id, child, climbed>>
    BY <2>1, <2>3 DEF Conclude
  <2>5. parent_id' = Parent[child]
    BY <2>2, <2>3, <2>4, GenuineRecord DEF SpendToRead
  <2>6. QED
    BY <2>2, <2>3, <2>4, <2>5 DEF OnTheWayUp, Climbed, Path, LaunchersAbove
<1>4. CASE ReadParentSpend
  <2>1. PICK answer \in ParentSpendAnswers : ReadParentSpend!2!(answer)
    BY <1>4 DEF ReadParentSpend
  <2>2. /\ phase = "spend" /\ child \in Coins /\ coin_id \in Coins /\ climbed \in Nat
    BY <1>4 DEF ReadParentSpend, TypeInv, ParentTypeOK
  <2>3. SUFFICES ASSUME GenuineData, phase' \in {"record", "spend"} PROVE Climbed'
    BY <1>g DEF OnTheWayUp
  <2>4. /\ answer.kind = "some" /\ answer.coin \notin Launchers
        /\ Climb(answer.coin)
    BY <2>1, <2>3 DEF Conclude
  <2>5. Climbed
    BY <2>2, <2>3 DEF OnTheWayUp
  <2>6. parent_id \in Coins /\ answer.coin = parent_id /\ Parent[child] = parent_id
    BY <2>2, <2>3, <2>4, <2>5, GenuineParentSpend DEF Climbed
  <2>7. /\ parent_id \in Ancestry[coin_id]
        /\ Path(parent_id, coin_id) = Path(child, coin_id) \cup {parent_id}
        /\ parent_id \notin Path(child, coin_id)
        /\ Ancestry[coin_id] = Path(parent_id, coin_id) \cup Ancestry[parent_id]
    BY <2>2, <2>5, <2>6, PathFromParent DEF Climbed
  <2>8. /\ IsFiniteSet(Path(child, coin_id) \cup {parent_id})
        /\ Cardinality(Path(child, coin_id) \cup {parent_id}) = climbed + 1 + 1
    BY <2>5, <2>7, FS_AddElement DEF Climbed
  <2>9. Path(parent_id, coin_id) \cap LaunchersAbove(coin_id) = {}
    BY <2>4, <2>5, <2>6, <2>7 DEF Climbed, LaunchersAbove
  <2>10. /\ child' = parent_id /\ coin_id' = coin_id
         /\ climbed' = climbed + 1 /\ phase' = "record"
    BY <2>4, <2>6 DEF Climb
  <2>11. QED
    BY <2>7, <2>8, <2>9, <2>10 DEF Climbed, Path, LaunchersAbove
<1>5. CASE UNCHANGED parentVars
  BY <1>5, <1>g DEF parentVars, OnTheWayUp, Climbed, Path, LaunchersAbove
<1>6. QED
  BY <1>1, <1>2, <1>3, <1>4, <1>5 DEF ParentNext, ClimbStep, climbVars
-----------------------------------------------------------------------------
(* What the verdicts mean.                                                 *)

VerdictInv == LauncherIsTheNearest /\ TooDeepIsTooFar

WayUpInv == TypeInv /\ OnTheWayUp /\ VerdictInv

LEMMA VerdictsDiffer ==
  /\ \A l, m : Launcher(l) = Launcher(m) => l = m
  /\ \A l : Launcher(l) \notin {Undecided, NotASingleton, TooDeep, ReadError}
  /\ TooDeep \notin {Undecided, NotASingleton, ReadError}
  /\ NotASingleton \notin {Undecided, ReadError}
  BY DEF Launcher, Undecided, NotASingleton, TooDeep, ReadError

LEMMA WayUpInit == ParentInit => WayUpInv
<1> SUFFICES ASSUME ParentInit PROVE WayUpInv
  OBVIOUS
<1>1. verdict = Undecided /\ phase = "idle"
  BY DEF ParentInit
<1>2. QED
  BY <1>1, TypeInit, VerdictsDiffer
     DEF WayUpInv, VerdictInv, OnTheWayUp, LauncherIsTheNearest, TooDeepIsTooFar

(* What was climbed before a launcher, and the launcher, are within bounds.  *)
LEMMA LauncherReached ==
  ASSUME TypeInv, Climbed, phase = "spend", parent_id \in Launchers
  PROVE  /\ parent_id \in LaunchersAbove(coin_id)
         /\ Path(parent_id, coin_id) \cap LaunchersAbove(coin_id) = {parent_id}
         /\ Cardinality(Path(parent_id, coin_id)) <= MaxHops + 1
<1>1. /\ coin_id \in Coins /\ parent_id \in Coins /\ Parent[child] = parent_id
      /\ climbed \in Nat /\ climbed < MaxHops
  BY CoinsAssumption DEF TypeInv, ParentTypeOK, Climbed
<1>2. /\ parent_id \in Ancestry[coin_id]
      /\ Path(parent_id, coin_id) = Path(child, coin_id) \cup {parent_id}
      /\ parent_id \notin Path(child, coin_id)
  BY <1>1, PathFromParent DEF Climbed
<1>3. coin_id \in Path(child, coin_id)
  BY <1>1, AncestryReflexive DEF Climbed, Path
<1>4. parent_id \in LaunchersAbove(coin_id)
  BY <1>2, <1>3 DEF LaunchersAbove
<1>5. Cardinality(Path(child, coin_id) \cup {parent_id}) = climbed + 1 + 1
  BY <1>2, FS_AddElement DEF Climbed
<1>6. climbed + 1 + 1 <= MaxHops + 1
  BY <1>1, MaxHopsAssumption
<1>7. QED
  BY <1>2, <1>4, <1>5, <1>6 DEF Climbed

LEMMA VerdictStep == WayUpInv /\ [ParentNext]_climbVars => VerdictInv'
<1> SUFFICES ASSUME WayUpInv, [ParentNext]_climbVars PROVE VerdictInv'
  OBVIOUS
<1> USE DEF WayUpInv
<1>g. GenuineData' = GenuineData
  BY DEF GenuineData
<1>p. \A l, k : Path(l, k)' = Path(l, k) /\ LaunchersAbove(k)' = LaunchersAbove(k)
  BY DEF Path, LaunchersAbove
<1>n. ASSUME verdict' \in {Undecided, NotASingleton, ReadError} PROVE VerdictInv'
  BY <1>n, VerdictsDiffer DEF VerdictInv, LauncherIsTheNearest, TooDeepIsTooFar
<1>s. ASSUME UNCHANGED <<verdict, coin_id>> PROVE VerdictInv'
  BY <1>s, <1>g, <1>p DEF VerdictInv, LauncherIsTheNearest, TooDeepIsTooFar
<1>1. ASSUME NEW id \in Coins, Authenticate(id) PROVE VerdictInv'
  BY <1>n, <1>1 DEF Authenticate
<1>2. CASE GiveUp
  <2>1. phase = "record" /\ climbed = MaxHops /\ verdict' = TooDeep /\ coin_id' = coin_id
    BY <1>2 DEF GiveUp, Conclude
  <2>2. ASSUME GenuineData, NEW l \in LaunchersAbove(coin_id)
        PROVE  Cardinality(Path(l, coin_id)) > MaxHops + 1
    <3>1. Climbed /\ coin_id \in Coins
      BY <2>1, <2>2 DEF OnTheWayUp, TypeInv, ParentTypeOK
    <3>2. l \in Ancestry[coin_id] /\ l \notin Path(child, coin_id)
      BY <3>1 DEF Climbed, LaunchersAbove
    <3>3. MaxHops + 1 \in Nat /\ Cardinality(Path(child, coin_id)) = MaxHops + 1
      BY <2>1, <3>1, MaxHopsAssumption DEF Climbed
    <3>4. QED
      BY <3>1, <3>2, <3>3, PathFromAbove DEF Climbed
  <2>3. QED
    BY <1>g, <1>p, <2>1, <2>2, VerdictsDiffer
       DEF VerdictInv, LauncherIsTheNearest, TooDeepIsTooFar
<1>3. CASE ReadChildRecord
  BY <1>n, <1>s, <1>3 DEF ReadChildRecord, Conclude
<1>4. CASE ReadParentSpend
  <2>1. PICK answer \in ParentSpendAnswers : ReadParentSpend!2!(answer)
    BY <1>4 DEF ReadParentSpend
  <2>2. CASE answer.kind = "some" /\ answer.coin \in Launchers
                /\ Conclude(Launcher(answer.coin))
    <3>1. phase = "spend" /\ verdict' = Launcher(answer.coin) /\ coin_id' = coin_id
      BY <1>4, <2>2 DEF ReadParentSpend, Conclude
    <3>2. ASSUME GenuineData
          PROVE  /\ answer.coin \in LaunchersAbove(coin_id)
                 /\ Path(answer.coin, coin_id) \cap LaunchersAbove(coin_id) = {answer.coin}
                 /\ Cardinality(Path(answer.coin, coin_id)) <= MaxHops + 1
      <4>1. Climbed
        BY <3>1, <3>2 DEF OnTheWayUp
      <4>2. answer.coin = parent_id /\ parent_id \in Launchers
        BY <2>2, <3>2, GenuineParentSpend
      <4>3. QED
        BY <3>1, <4>1, <4>2, LauncherReached
    <3>3. QED
      BY <1>g, <1>p, <3>1, <3>2, VerdictsDiffer
         DEF VerdictInv, LauncherIsTheNearest, TooDeepIsTooFar
  <2>3. QED
    BY <1>n, <1>s, <2>1, <2>2 DEF Conclude, Climb
<1>5. CASE UNCHANGED parentVars
  BY <1>5, <1>s DEF parentVars
<1>6. QED
  BY <1>1, <1>2, <1>3, <1>4, <1>5 DEF ParentNext, ClimbStep, climbVars

LEMMA WayUpInvStep == WayUpInv /\ [ParentNext]_climbVars => WayUpInv'
  BY TypeStep, WayUpStep, VerdictStep DEF WayUpInv

(* Over genuine data the launcher answered is the nearest one above the coin *)
(* and within the hop bound, for every chain and however it moves.           *)
THEOREM LauncherCorrect == ParentSpec => []LauncherIsTheNearest
<1>1. WayUpInv => LauncherIsTheNearest
  BY DEF WayUpInv, VerdictInv
<1>2. QED
  BY <1>1, WayUpInit, WayUpInvStep, PTL DEF ParentSpec

(* Over genuine data a walk gives up only where every launcher above the     *)
(* coin is past the hop bound.                                               *)
THEOREM TooFarCorrect == ParentSpec => []TooDeepIsTooFar
<1>1. WayUpInv => TooDeepIsTooFar
  BY DEF WayUpInv, VerdictInv
<1>2. QED
  BY <1>1, WayUpInit, WayUpInvStep, PTL DEF ParentSpec

-----------------------------------------------------------------------------
(* A gap is real when it is reported.                                      *)

ServesEverything == Faults \subseteq {"err", "unknown_height"}

GapStep ==
  ServesEverything /\ verdict' = NotASingleton /\ verdict # NotASingleton
    => coin_id \notin created \/ LaunchersAbove(coin_id) = {}

LEMMA GapReported == WayUpInv /\ [ParentNext]_climbVars => GapStep
<1> SUFFICES ASSUME WayUpInv, [ParentNext]_climbVars, ServesEverything,
                    verdict' = NotASingleton, verdict # NotASingleton,
                    coin_id \in created
             PROVE  LaunchersAbove(coin_id) = {}
  BY DEF GapStep
<1> USE DEF WayUpInv
<1>1. /\ ReadFails # Nothing /\ Nothing.kind # "some"
      /\ \A c, s : Record(c, s) # Nothing
  BY DEF ReadFails, Nothing, Record
<1>2. GenuineData
  BY DEF GenuineData, ServesEverything
<1>3. ASSUME ReadChildRecord PROVE FALSE
  <2>1. phase = "record" /\ child \in Coins
    BY <1>3 DEF ReadChildRecord, MayClimb, TypeInv, ParentTypeOK
  <2>2. Nothing \in RecordAnswers(child)
    BY <1>3, VerdictsDiffer DEF ReadChildRecord, Conclude
  <2>3. child \notin created
    BY <1>1, <2>2 DEF RecordAnswers, If, ServesEverything
  <2>4. child \in Ancestry[coin_id]
    BY <1>2, <2>1 DEF OnTheWayUp, Climbed
  <2>5. QED
    BY <2>3, <2>4 DEF TypeInv, OneLine
<1>4. ASSUME ReadParentSpend PROVE LaunchersAbove(coin_id) = {}
  <2>1. phase = "spend" /\ child \in Coins
    BY <1>4 DEF ReadParentSpend, TypeInv, ParentTypeOK
  <2>2. Nothing \in ParentSpendAnswers
    BY <1>4, VerdictsDiffer DEF ReadParentSpend, Conclude, Climb
  <2>3. /\ child \in created
        /\ Ancestry[coin_id] = Path(child, coin_id) \cup Ancestry[child]
        /\ Path(child, coin_id) \cap LaunchersAbove(coin_id) = {}
        /\ parent_id = Parent[child]
    BY <1>2, <2>1 DEF OnTheWayUp, Climbed, TypeInv, OneLine
  <2>4. parent_id \notin spent \/ parent_id \notin Coins
    BY <1>1, <2>2
       DEF ParentSpendAnswers, SpendAnswers, If, ServesEverything, GenuineSpend, CoinSpend
  <2>5. Parent[child] = NoCoin
    BY <2>1, <2>3, <2>4, CoinsAssumption DEF TypeInv, ChainOK
  <2>6. Ancestry[child] = {child}
    BY <2>1, <2>5, AncestryAssumption
  <2>7. child \in Path(child, coin_id)
    BY <1>2, <2>1, AncestryReflexive DEF OnTheWayUp, Climbed, Path
  <2>8. QED
    BY <2>3, <2>6, <2>7 DEF LaunchersAbove
<1>5. ReadChildRecord \/ ReadParentSpend
  BY VerdictsDiffer
     DEF ParentNext, ClimbStep, Authenticate, GiveUp, Conclude, parentVars, climbVars
<1>6. QED
  BY <1>3, <1>4, <1>5

(* Of a source that serves what there is, "not a singleton" is true when it  *)
(* is answered, whatever blocks and reorganisations the walk met.            *)
THEOREM GapCorrect == ParentSpec => GapIsReal
<1>1. WayUpInv /\ [ParentNext]_climbVars =>
        [Faults \subseteq {"err", "unknown_height"}
           /\ verdict' = NotASingleton /\ verdict # NotASingleton
         => coin_id \notin created \/ LaunchersAbove(coin_id) = {}]_climbVars
  BY GapReported DEF GapStep, ServesEverything
<1>2. QED
  BY <1>1, WayUpInit, WayUpInvStep, PTL DEF ParentSpec, GapIsReal

-----------------------------------------------------------------------------
(* Every backward walk ends.                                               *)

LEMMA ClimbsDescend ==
  ASSUME TypeInv, ClimbStep
  PROVE  /\ ClimbsLeft <= 2 * MaxHops + 1
         /\ 0 <= ClimbsLeft' /\ ClimbsLeft' < ClimbsLeft
<1>1. climbed \in Nat /\ MaxHops \in Nat /\ climbed <= MaxHops
  BY MaxHopsAssumption DEF TypeInv, ParentTypeOK
<1>2. /\ phase \in {"record", "spend"}
      /\ 1 <= ClimbsLeft /\ ClimbsLeft <= 2 * MaxHops + 1
  <2>1. phase \in {"record", "spend"}
    BY DEF ClimbStep, GiveUp, ReadChildRecord, MayClimb, ReadParentSpend
  <2>2. CASE phase = "record"
    BY <1>1, <2>2 DEF ClimbsLeft
  <2>3. CASE phase = "spend"
    BY <1>1, <2>3 DEF ClimbsLeft, TypeInv
  <2>4. QED
    BY <2>1, <2>2, <2>3
<1>3. CASE phase' = "done"
  <2>1. ClimbsLeft' = 0
    BY <1>3 DEF ClimbsLeft
  <2>2. ClimbsLeft \in Int
    BY <1>1, <1>2 DEF ClimbsLeft
  <2>3. QED
    BY <1>2, <2>1, <2>2
<1>4. CASE ReadChildRecord /\ phase' # "done"
  <2>1. phase = "record" /\ phase' = "spend" /\ climbed' = climbed /\ climbed < MaxHops
    BY <1>4 DEF ReadChildRecord, MayClimb, Conclude
  <2>2. /\ ClimbsLeft = 2 * (MaxHops - climbed) + 1
        /\ ClimbsLeft' = 2 * (MaxHops - climbed)
    BY <2>1 DEF ClimbsLeft
  <2>3. QED
    BY <1>1, <1>2, <2>1, <2>2
<1>5. CASE ReadParentSpend /\ phase' # "done"
  <2>1. phase = "spend" /\ phase' = "record" /\ climbed' = climbed + 1
    BY <1>5 DEF ReadParentSpend, Climb, Conclude
  <2>2. climbed < MaxHops
    BY <2>1 DEF TypeInv
  <2>3. /\ ClimbsLeft = 2 * (MaxHops - climbed)
        /\ ClimbsLeft' = 2 * (MaxHops - (climbed + 1)) + 1
    BY <2>1 DEF ClimbsLeft
  <2>4. QED
    BY <1>1, <1>2, <2>1, <2>2, <2>3
<1>6. GiveUp => phase' = "done"
  BY DEF GiveUp, Conclude
<1>7. QED
  BY <1>3, <1>4, <1>5, <1>6 DEF ClimbStep

(* Whatever spends it is led along, a backward walk is over after            *)
(* 2 * MAX_HOPS + 1 steps: each lowers a number of that size.                *)
THEOREM ClimbsCorrect == ParentSpec => EveryClimbNearsTheVerdict
<1>1. TypeInv /\ [ParentNext]_climbVars =>
        [parentVars' # parentVars /\ phase \in {"record", "spend"}
           => /\ ClimbsLeft <= 2 * MaxHops + 1
              /\ 0 <= ClimbsLeft' /\ ClimbsLeft' < ClimbsLeft]_climbVars
  <2> SUFFICES ASSUME TypeInv, [ParentNext]_climbVars, parentVars' # parentVars,
                      phase \in {"record", "spend"}
               PROVE  /\ ClimbsLeft <= 2 * MaxHops + 1
                      /\ 0 <= ClimbsLeft' /\ ClimbsLeft' < ClimbsLeft
    OBVIOUS
  <2>1. ClimbStep
    BY DEF ParentNext, Authenticate, climbVars
  <2>2. QED
    BY <2>1, ClimbsDescend
<1>2. QED
  BY <1>1, TypeInit, TypeStep, PTL DEF ParentSpec, EveryClimbNearsTheVerdict
=============================================================================
