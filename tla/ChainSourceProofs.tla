-------------------------- MODULE ChainSourceProofs --------------------------
(***************************************************************************)
(* What every reachable chain keeps under blocks and reorganisations, and   *)
(* what the two primitive reads of it can answer, however the source        *)
(* misbehaves.                                                              *)
(***************************************************************************)
EXTENDS ChainSource, TLAPS

-----------------------------------------------------------------------------
(* Ancestry and paths.                                                     *)

(* A child's ancestors are itself and its parent's. *)
LEMMA AncestryOfChild ==
  ASSUME NEW c \in Coins, NEW k \in Children(c)
  PROVE  /\ k \in Coins
         /\ Ancestry[k] = {k} \cup Ancestry[c]
         /\ k \notin Ancestry[c]
         /\ c \in Ancestry[k]
         /\ c # k
  BY CoinsAssumption, AncestryAssumption DEF Children

(* Every coin is its own ancestor, and ancestors are coins. *)
LEMMA AncestryReflexive ==
  ASSUME NEW c \in Coins
  PROVE  c \in Ancestry[c] /\ Ancestry[c] \subseteq Coins
  BY AncestryAssumption

LEMMA AncestryTransitive ==
  ASSUME NEW c \in Coins, NEW d \in Ancestry[c], NEW e \in Ancestry[d]
  PROVE  e \in Ancestry[c]
  BY AncestryAssumption

(* Two coins are not each other's ancestors. *)
LEMMA AncestryAntisymmetric ==
  ASSUME NEW c \in Coins, NEW d \in Ancestry[c], c \in Ancestry[d]
  PROVE  c = d
<1>1. SUFFICES ASSUME c # d PROVE FALSE
  OBVIOUS
<1>2. d \in Coins
  BY AncestryReflexive
<1>3. Parent[c] # NoCoin /\ Parent[c] \in Coins /\ d \in Ancestry[Parent[c]]
  BY <1>1, CoinsAssumption, AncestryAssumption
<1>4. c \in Ancestry[Parent[c]]
  BY <1>3, AncestryTransitive
<1>5. QED
  BY <1>3, <1>4, AncestryAssumption

(* A child's path from l is its parent's path and the child. *)
LEMMA PathToChild ==
  ASSUME NEW l \in Coins, NEW c \in Coins, NEW k \in Children(c),
         l \in Ancestry[c]
  PROVE  Path(l, k) = Path(l, c) \cup {k}
<1>1. l \in Ancestry[k]
  BY AncestryOfChild
<1>2. QED
  BY <1>1, AncestryOfChild DEF Path

(* The path from a coin to itself is that coin. *)
LEMMA PathToSelf ==
  ASSUME NEW c \in Coins
  PROVE  Path(c, c) = {c}
<1>1. \A m \in Path(c, c) : m = c
  BY AncestryAntisymmetric DEF Path
<1>2. c \in Path(c, c)
  BY AncestryReflexive DEF Path
<1>3. QED
  BY <1>1, <1>2

-----------------------------------------------------------------------------
(* ChainOK is an invariant of the chain.                                   *)

LEMMA ChainInitOK == ChainInit => ChainOK
  BY CoinsAssumption DEF ChainInit, ChainOK, Roots

LEMMA SpendKeepsChainOK ==
  ASSUME ChainOK, NEW c \in Coins, NEW K \in SUBSET Children(c), Spend(c, K)
  PROVE  ChainOK'
<1> USE DEF ChainOK
<1>1. K \subseteq Coins
  BY DEF Children
<1>2. /\ created' \subseteq Coins
      /\ spent' \subseteq created'
  BY <1>1 DEF Spend
<1>3. \A d \in created' : Parent[d] # NoCoin => Parent[d] \in spent'
  BY DEF Spend, Children
<1>4. ASSUME NEW d \in spent'
      PROVE  ValidSpend(d, Kids(d)')
  <2>1. CASE d = c
    <3>1. Kids(c) = {}
      BY CoinsAssumption DEF Kids, Children, Spend
    <3>2. Kids(c)' = K
      BY <3>1 DEF Kids, Spend
    <3>3. QED
      BY <2>1, <3>2 DEF Spend
  <2>2. CASE d # c
    <3>1. d \in spent
      BY <2>2 DEF Spend
    <3>2. Kids(d)' = Kids(d)
      BY <2>2 DEF Kids, Spend, Children
    <3>3. QED
      BY <3>1, <3>2
  <2>3. QED
    BY <2>1, <2>2
<1>5. QED
  BY <1>2, <1>3, <1>4 DEF ValidSpend

LEMMA UndoKeepsChainOK ==
  ASSUME ChainOK, NEW c \in Coins, Undo(c)
  PROVE  ChainOK'
<1> DEFINE undone == {d \in Coins : c \in Ancestry[d]} \ {c}
<1> USE DEF ChainOK
<1>1. /\ created' = created \ undone
      /\ spent' = spent \ (undone \cup {c})
  BY DEF Undo
<1>2. ASSUME NEW d \in Coins, NEW k \in Children(d), k \notin undone
      PROVE  d \notin undone \cup {c}
  <2>1. c \in Ancestry[d] => k \in undone
    BY AncestryOfChild
  <2>2. c \in Ancestry[c]
    BY AncestryReflexive
  <2>3. QED
    BY <1>2, <2>1, <2>2
<1>3. \A d \in created' : Parent[d] # NoCoin => Parent[d] \in spent'
  <2>1. SUFFICES ASSUME NEW d \in created', Parent[d] # NoCoin
                 PROVE  Parent[d] \in spent'
    OBVIOUS
  <2>2. Parent[d] \in spent /\ Parent[d] \in Coins /\ d \in Children(Parent[d])
    BY <1>1, <2>1 DEF Children
  <2>3. QED
    BY <1>1, <1>2, <2>1, <2>2
<1>4. ASSUME NEW d \in spent'
      PROVE  Kids(d)' = Kids(d) /\ d \in spent /\ d \in Coins
  <2>1. d \in spent /\ d \in Coins /\ d \notin undone /\ d # c
    BY <1>1
  <2>2. \A k \in Children(d) : k \notin undone
    <3>1. SUFFICES ASSUME NEW k \in Children(d), k \in undone PROVE FALSE
      OBVIOUS
    <3>2. c \in Ancestry[k] /\ k # c /\ Ancestry[k] = {k} \cup Ancestry[d]
      BY <2>1, <3>1, AncestryOfChild
    <3>3. QED
      BY <2>1, <3>2
  <2>3. QED
    BY <1>1, <2>1, <2>2 DEF Kids
<1>5. QED
  BY <1>1, <1>3, <1>4 DEF ValidSpend

-----------------------------------------------------------------------------
(* OneLine is an invariant of the chain.                                   *)

LEMMA OneLineInit == ChainInit => OneLine
<1> SUFFICES ASSUME ChainInit PROVE OneLine
  OBVIOUS
<1>1. \A c \in created : c \in Coins /\ Ancestry[c] = {c}
  BY AncestryAssumption DEF ChainInit, Roots
<1>2. QED
  BY <1>1 DEF OneLine, IsRecreation

(* What precedes a recreation of l is one too, and curried to l. *)
LEMMA ParentIsRecreation ==
  ASSUME NEW l \in Launchers, NEW c \in Coins, NEW k \in Children(c),
         IsRecreation(l, k), k # l
  PROVE  IsRecreation(l, c) /\ (c = l \/ CurriedTo[c] = l) /\ k \in Odd
<1>1. l \in Coins
  BY CoinsAssumption
<1>2. l \in Ancestry[c]
  BY <1>1, AncestryOfChild DEF IsRecreation
<1>3. Path(l, k) = Path(l, c) \cup {k} /\ k \notin Path(l, c)
  BY <1>1, <1>2, PathToChild, AncestryOfChild DEF Path
<1>4. c \in Path(l, c)
  BY <1>2, AncestryReflexive DEF Path
<1>5. QED
  BY <1>2, <1>3, <1>4 DEF IsRecreation

LEMMA SpendKeepsOneLine ==
  ASSUME ChainOK, OneLine, NEW c \in Coins, NEW K \in SUBSET Children(c), Spend(c, K)
  PROVE  OneLine'
<1>1. /\ c \in created \ spent
      /\ created' = created \cup K
      /\ spent' = spent \cup {c}
      /\ ValidSpend(c, K)
  BY DEF Spend
<1>2. \A k \in K : k \in Children(c)
  OBVIOUS
<1>3. ASSUME NEW d \in created'
      PROVE  Ancestry[d] \subseteq created' /\ Ancestry[d] \ {d} \subseteq spent'
  <2>1. CASE d \in created
    BY <1>1, <2>1 DEF OneLine
  <2>2. CASE d \in K
    BY <1>1, <1>2, <2>2, AncestryOfChild DEF OneLine
  <2>3. QED
    BY <1>1, <2>1, <2>2
<1>4. ASSUME NEW l \in Launchers, NEW m \in K, NEW n \in created,
             IsRecreation(l, m), IsRecreation(l, n)
      PROVE  n \in Ancestry[m]
  <2>1. l \in Coins /\ m \in Children(c) /\ n \in Coins
    BY CoinsAssumption DEF ChainOK
  <2>2. CASE m = l
    <3>1. m \in Ancestry[n]
      BY <1>4, <2>2 DEF IsRecreation
    <3>2. c \in Ancestry[n] /\ c # n
      BY <2>1, <3>1, AncestryOfChild, AncestryTransitive, AncestryAntisymmetric
    <3>3. QED
      BY <1>1, <3>2 DEF OneLine
  <2>3. CASE m # l
    <3>1. IsRecreation(l, c)
      BY <1>4, <2>1, <2>3, ParentIsRecreation
    <3>2. c \in Ancestry[n] \/ n \in Ancestry[c]
      BY <1>1, <1>4, <3>1 DEF OneLine
    <3>3. c \in Ancestry[n] => c = n
      BY <1>1 DEF OneLine
    <3>4. n \in Ancestry[c]
      BY <3>2, <3>3, AncestryReflexive
    <3>5. QED
      BY <2>1, <3>4, AncestryOfChild
  <2>4. QED
    BY <2>2, <2>3
<1>5. ASSUME NEW l \in Launchers, NEW m \in K, NEW n \in K,
             IsRecreation(l, m), IsRecreation(l, n)
      PROVE  m = n
  <2>1. l \in Coins /\ l # NoCoin
    BY CoinsAssumption
  <2>2. /\ l \in Ancestry[m] /\ Ancestry[m] = {m} \cup Ancestry[c] /\ m \notin Ancestry[c]
        /\ l \in Ancestry[n] /\ Ancestry[n] = {n} \cup Ancestry[c] /\ n \notin Ancestry[c]
    BY <1>2, <1>5, AncestryOfChild DEF IsRecreation
  <2>3. CASE l = m \/ l = n
    BY <2>2, <2>3
  <2>4. CASE l # m /\ l # n
    <3>1. /\ m \in Odd /\ n \in Odd
          /\ c = l \/ CurriedTo[c] = l
      BY <1>2, <1>5, <2>4, ParentIsRecreation
    <3>2. QED
      BY <1>1, <2>1, <3>1 DEF ValidSpend, IsSingleton
  <2>5. QED
    BY <2>3, <2>4
<1>6. ASSUME NEW l \in Launchers, NEW m \in created', NEW n \in created',
             IsRecreation(l, m), IsRecreation(l, n)
      PROVE  m \in Ancestry[n] \/ n \in Ancestry[m]
  <2>1. CASE m \in created /\ n \in created
    BY <1>6, <2>1 DEF OneLine
  <2>2. CASE m \in K /\ n \in K
    <3>1. m \in Coins
      BY <1>2, <2>2, AncestryOfChild
    <3>2. QED
      BY <1>5, <1>6, <2>2, <3>1, AncestryReflexive
  <2>3. QED
    BY <1>1, <1>4, <1>6, <2>1, <2>2
<1>7. QED
  BY <1>3, <1>6 DEF OneLine, IsRecreation, Path

LEMMA UndoKeepsOneLine ==
  ASSUME ChainOK, OneLine, NEW c \in Coins, Undo(c)
  PROVE  OneLine'
<1> DEFINE undone == {d \in Coins : c \in Ancestry[d]} \ {c}
<1>1. /\ created' = created \ undone
      /\ spent' = spent \ (undone \cup {c})
      /\ created \subseteq Coins
  BY DEF Undo, ChainOK
<1>2. ASSUME NEW d \in created', NEW e \in Ancestry[d] \ {d}
      PROVE  e \notin undone \cup {c}
  <2>1. d \in Coins /\ e \in Coins
    BY <1>1, AncestryReflexive
  <2>2. SUFFICES ASSUME c \in Ancestry[e] PROVE FALSE
    BY <2>1, AncestryReflexive
  <2>3. c \in Ancestry[d]
    BY <2>1, <2>2, AncestryTransitive
  <2>4. d = c
    BY <1>1, <2>1, <2>3
  <2>5. QED
    BY <1>2, <2>1, <2>2, <2>4, AncestryAntisymmetric
<1>3. \A d \in created' : Ancestry[d] \subseteq created' /\ Ancestry[d] \ {d} \subseteq spent'
  BY <1>1, <1>2 DEF OneLine
<1>4. QED
  BY <1>1, <1>3 DEF OneLine, IsRecreation, Path

-----------------------------------------------------------------------------
(* When a launcher has no tip.                                             *)

(* What is not on the chain, or stands unspent on it, has no tip below it. *)
LEMMA NoTipBelowUnspent ==
  ASSUME ChainOK, OneLine, NEW l \in Coins, l \notin spent
  PROVE  Truths(l) = {Absent}
<1>1. ASSUME NEW t \in Coins, IsTip(l, t) PROVE FALSE
  BY <1>1 DEF IsTip, IsRecreation, OneLine
<1>2. QED
  BY <1>1 DEF Truths

LEMMA NoTipOfOrdinaryCoin ==
  ASSUME NEW l \in Coins \ Launchers
  PROVE  Truths(l) = {Absent}
  BY DEF Truths, IsTip, IsRecreation

(* A spent recreation without an odd child ends the singleton. *)
LEMMA NoTipAfterMelt ==
  ASSUME ChainOK, OneLine, NEW l \in Launchers, NEW c \in spent,
         IsRecreation(l, c), Kids(c) \cap Odd = {}
  PROVE  Truths(l) = {Absent}
<1>0. c \in Coins /\ c \in created /\ l \in Coins
  BY CoinsAssumption DEF ChainOK
<1>1. ASSUME NEW t \in Coins, IsTip(l, t) PROVE FALSE
  <2>1. t \in created \ spent /\ IsRecreation(l, t) /\ t # l
    BY <1>1 DEF IsTip
  <2>2. c \in Ancestry[t] /\ c # t
    <3>1. c # t
      BY <2>1
    <3>2. t \in Ancestry[c] => t \in spent
      BY <1>0, <3>1 DEF OneLine
    <3>3. QED
      BY <1>0, <2>1, <3>1, <3>2 DEF OneLine
  <2>3. PICK k \in Ancestry[t] : Parent[k] = c
    BY <2>2, AncestryAssumption
  <2>4. k \in Coins /\ k \in Children(c) /\ k \in created
    BY <2>1, <2>3, AncestryReflexive DEF Children, OneLine
  <2>5. l \in Ancestry[k] /\ k # l
    BY <1>0, <2>4, AncestryOfChild DEF IsRecreation
  <2>6. k \in Odd
    BY <2>1, <2>3, <2>5 DEF IsRecreation, Path
  <2>7. QED
    BY <2>4, <2>6 DEF Kids
<1>2. QED
  BY <1>1 DEF Truths

-----------------------------------------------------------------------------
(* What a read can answer.                                                 *)

LEMMA RecordAnswerShape ==
  ASSUME NEW id \in Coins, NEW answer \in RecordAnswers(id)
  PROVE  \/ answer = ReadFails /\ answer.kind # "some"
         \/ answer = Nothing /\ answer.kind # "some"
         \/ /\ answer.kind = "some"
            /\ answer.coin \in Coins
            /\ answer.spent \in BOOLEAN
<1>1. \A s \in BOOLEAN : Record(id, s) \in AnyRecord
  BY DEF Record, AnyRecord
<1>2. Record(id, id \in spent) \in AnyRecord
  <2>1. (id \in spent) \in BOOLEAN
    OBVIOUS
  <2>2. QED
    BY <1>1, <2>1, Zenon
<1>3. answer = ReadFails \/ answer = Nothing \/ answer \in AnyRecord
  BY <1>1, <1>2 DEF RecordAnswers, If
<1>4. QED
  BY <1>3 DEF ReadFails, Nothing, AnyRecord

LEMMA SpendAnswerShape ==
  ASSUME ChainOK, NEW id \in Coins, NEW answer \in SpendAnswers(id)
  PROVE  \/ answer = ReadFails /\ answer.kind # "some"
         \/ answer = Nothing /\ answer.kind # "some"
         \/ /\ answer.kind = "some"
            /\ answer.coin \in Coins
            /\ answer.emits \in Emittable(answer.coin)
<1>1. \A c \in Coins : {} \in Emittable(c)
  BY DEF Emittable
<1>2. id \in spent => Kids(id) \in Emittable(id)
  BY DEF ChainOK, ValidSpend
<1>3. CASE answer = ReadFails \/ answer = Nothing
  BY <1>3 DEF ReadFails, Nothing
<1>4. CASE id \in spent /\ answer = GenuineSpend(id)
  BY <1>2, <1>4 DEF GenuineSpend, CoinSpend
<1>5. CASE answer \in ForgedSpends(id)
  BY <1>1, <1>5 DEF ForgedSpends, ForeignSpends
<1>6. QED
  BY <1>3, <1>4, <1>5 DEF SpendAnswers, If

(* The source answers every read of a record from the chain, or with an      *)
(* error.                                                                    *)
RecordsAreGenuine == Faults \cap {"unknown_height", "forged_record"} = {}

LEMMA RelayedRecord ==
  ASSUME RecordsAreGenuine, NEW id \in Coins, NEW answer \in RecordAnswers(id)
  PROVE  \/ answer = ReadFails /\ answer.kind = "err"
         \/ answer = Nothing /\ answer.kind = "none" /\ id \notin created
         \/ /\ answer.kind = "some"
            /\ answer.spent = (id \in spent)
            /\ id \in created
<1>1. \/ answer = ReadFails
      \/ id \notin created /\ answer = Nothing
      \/ id \in created /\ answer = Record(id, id \in spent)
  BY DEF RecordAnswers, If, RecordsAreGenuine
<1>2. QED
  BY <1>1 DEF ReadFails, Nothing, Record

-----------------------------------------------------------------------------
(* The chain between two reads.                                            *)

LEMMA ChainMovesKeepChainOK ==
  ASSUME NEW reading, ChainOK, ChainMoves(reading)
  PROVE  ChainOK'
<1>1. CASE \E c \in Coins : \E K \in SUBSET Children(c) : Spend(c, K)
  BY <1>1, SpendKeepsChainOK
<1>2. CASE \E c \in Coins : Undo(c)
  BY <1>2, UndoKeepsChainOK
<1>3. QED
  BY <1>1, <1>2 DEF ChainMoves

LEMMA ChainMovesKeepOneLine ==
  ASSUME NEW reading, ChainOK, OneLine, ChainMoves(reading)
  PROVE  OneLine'
<1>1. CASE \E c \in Coins : \E K \in SUBSET Children(c) : Spend(c, K)
  BY <1>1, SpendKeepsOneLine
<1>2. CASE \E c \in Coins : Undo(c)
  BY <1>2, UndoKeepsOneLine
<1>3. QED
  BY <1>1, <1>2 DEF ChainMoves
=============================================================================
