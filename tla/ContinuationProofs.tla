-------------------------- MODULE ContinuationProofs --------------------------
(***************************************************************************)
(* What run_for_continuation reports, for condition lists of any length and *)
(* any amounts.                                                             *)
(***************************************************************************)
EXTENDS Continuation, TLAPS

-----------------------------------------------------------------------------
(* The loop invariant.                                                     *)

Seen == 1..(next - 1)

(* What is behind the loop: coins and other conditions, of which recreation  *)
(* holds the one odd coin.                                                   *)
SeenInv ==
  /\ \A i \in Seen : ~IsMelt(conditions[i]) /\ ~IsUnreadable(conditions[i])
  /\ recreation = Unset => \A i \in Seen : ~IsOddCoin(conditions[i])
  /\ recreation # Unset =>
       \E i \in Seen :
         /\ IsOddCoin(conditions[i])
         /\ recreation = Recreates(conditions[i].hash, conditions[i].amount)
         /\ \A j \in Seen : IsOddCoin(conditions[j]) => j = i

(* Why the loop stopped where it did. *)
StopInv ==
  /\ outcome = Ends =>
       \/ next <= Len(conditions) /\ IsMelt(conditions[next])
       \/ next = Len(conditions) + 1 /\ recreation = Unset
  /\ outcome = Malformed =>
       /\ next <= Len(conditions)
       /\ \/ IsUnreadable(conditions[next])
          \/ IsOddCoin(conditions[next]) /\ recreation # Unset
  /\ outcome.kind = "recreates" =>
       next = Len(conditions) + 1 /\ recreation # Unset /\ outcome = recreation

LoopInv == TypeOK /\ SeenInv /\ StopInv

-----------------------------------------------------------------------------

LEMMA KindsDiffer ==
  /\ Running.kind = "running" /\ Unset.kind = "none"
  /\ Ends.kind = "ends" /\ Malformed.kind = "malformed"
  /\ \A h, a : Recreates(h, a).kind = "recreates"
               /\ Recreates(h, a).hash = h /\ Recreates(h, a).amount = a
  BY DEF Running, Unset, Ends, Malformed, Recreates

(* A CREATE_COIN is a melt, unreadable or a coin, and only one of them. *)
LEMMA CreateCoinKinds ==
  ASSUME NEW c \in Conditions
  PROVE  /\ IsCreateCoin(c) <=> IsMelt(c) \/ IsUnreadable(c) \/ IsCoin(c)
         /\ ~(IsMelt(c) /\ IsUnreadable(c))
         /\ ~(IsCoin(c) /\ (IsMelt(c) \/ IsUnreadable(c)))
  BY DEF IsMelt, IsUnreadable, IsCoin, CoinDecodes, MeltAmount

(* A coin the walk reads is one consensus creates, and the walk reads every  *)
(* coin that fits its decoder.                                               *)
LEMMA CoinIsCreated ==
  ASSUME NEW c \in Conditions
  PROVE  /\ IsCoin(c) => CreatesCoin(c)
         /\ CreatesCoin(c) /\ c.amount <= I64Max => IsCoin(c)
<1>1. ASSUME IsCoin(c) PROVE CreatesCoin(c)
  <2>1. /\ IsCreateCoin(c) /\ c.args = "readable" /\ c.hash # NoHash
        /\ c.amount \in (-I64Max - 1)..I64Max
        /\ c.amount >= 0
    BY <1>1 DEF IsCoin, ArgumentsDecode, CoinDecodes
  <2>2. I64Max \in Nat /\ U64Max \in Nat /\ U64Max >= I64Max
    BY ContinuationAssumption
  <2>3. c.amount \in 0..U64Max
    BY <2>1, <2>2
  <2>4. QED
    BY <2>1, <2>3 DEF CreatesCoin
<1>2. ASSUME CreatesCoin(c), c.amount <= I64Max PROVE IsCoin(c)
  <2>1. /\ IsCreateCoin(c) /\ c.args = "readable" /\ c.hash # NoHash
        /\ c.amount \in 0..U64Max
    BY <1>2 DEF CreatesCoin
  <2>2. I64Max \in Nat /\ U64Max \in Nat
    BY ContinuationAssumption
  <2>3. c.amount \in (-I64Max - 1)..I64Max /\ c.amount >= 0
    BY <1>2, <2>1, <2>2
  <2>4. QED
    BY <2>1, <2>3 DEF IsCoin, ArgumentsDecode, CoinDecodes
<1>3. QED
  BY <1>1, <1>2

LEMMA OddCoinType ==
  ASSUME NEW c \in Conditions, IsOddCoin(c)
  PROVE  Recreates(c.hash, c.amount) \in [kind : {"recreates"}, hash : Hashes, amount : Nat]
<1>1. IsCreateCoin(c) /\ ArgumentsDecode(c) /\ CoinDecodes(c)
  BY DEF IsOddCoin, IsCoin
<1>2. c \in [head : {"create"}, args : {"readable"},
             hash : Hashes \cup {NoHash}, amount : Amounts]
  BY <1>1 DEF Conditions, IsCreateCoin, ArgumentsDecode
<1>3. c.hash \in Hashes \cup {NoHash} /\ c.amount \in Amounts
  BY <1>2
<1>4. Amounts \subseteq Int
  BY ContinuationAssumption
<1>5. c.amount >= 0 /\ c.hash # NoHash
  BY <1>1 DEF CoinDecodes
<1>6. c.hash \in Hashes
  BY <1>3, <1>5
<1>7. c.amount \in Int
  BY <1>3, <1>4
<1>8. c.amount \in Nat
  BY <1>5, <1>7
<1>9. QED
  BY <1>6, <1>8 DEF Recreates

LEMMA LoopInit == Init => LoopInv
<1> SUFFICES ASSUME Init PROVE LoopInv
  OBVIOUS
<1>1. conditions \in Seq(Conditions) /\ Len(conditions) \in Nat
  BY ContinuationAssumption DEF Init
<1>2. QED
  BY <1>1, KindsDiffer DEF Init, LoopInv, TypeOK, SeenInv, StopInv, Seen

LEMMA LoopStep == LoopInv /\ [Next]_vars => LoopInv'
<1> SUFFICES ASSUME LoopInv, [Next]_vars PROVE LoopInv'
  OBVIOUS
<1> USE DEF LoopInv
<1>t. /\ conditions \in Seq(Conditions)
      /\ Len(conditions) \in Nat
      /\ next \in 1..(Len(conditions) + 1)
      /\ \A i \in 1..Len(conditions) : conditions[i] \in Conditions
  BY DEF TypeOK
<1>s. ASSUME next <= Len(conditions), next' = next + 1, UNCHANGED conditions
      PROVE  /\ Seen' = Seen \cup {next}
             /\ next' \in 1..(Len(conditions) + 1)
  BY <1>t, <1>s DEF Seen
<1>1. CASE Skip
  <2>1. /\ next <= Len(conditions)
        /\ conditions[next] \in Conditions
        /\ UNCHANGED <<conditions, recreation, outcome>>
        /\ outcome = Running
        /\ next' = next + 1
    BY <1>t, <1>1 DEF Skip, Looping
  <2>2. /\ ~IsMelt(conditions[next])
        /\ ~IsUnreadable(conditions[next])
        /\ ~IsOddCoin(conditions[next])
    BY <1>1, <2>1, CreateCoinKinds DEF Skip, IsOddCoin
  <2>3. TypeOK'
    BY <1>s, <2>1 DEF TypeOK
  <2>4. SeenInv'
    BY <1>s, <2>1, <2>2 DEF SeenInv
  <2>5. StopInv'
    BY <2>1, KindsDiffer DEF StopInv
  <2>6. QED
    BY <2>3, <2>4, <2>5
<1>2. CASE Melt
  <2>1. /\ UNCHANGED <<conditions, next, recreation>>
        /\ outcome' = Ends
        /\ next <= Len(conditions) /\ IsMelt(conditions[next])
    BY <1>2 DEF Melt, Looping
  <2>2. QED
    BY <2>1, KindsDiffer DEF TypeOK, SeenInv, StopInv, Seen
<1>3. CASE Refuse
  <2>1. /\ UNCHANGED <<conditions, next, recreation>>
        /\ outcome' = Malformed
        /\ next <= Len(conditions)
        /\ \/ IsUnreadable(conditions[next])
           \/ IsOddCoin(conditions[next]) /\ recreation # Unset
    BY <1>3 DEF Refuse, Looping
  <2>2. QED
    BY <2>1, KindsDiffer DEF TypeOK, SeenInv, StopInv, Seen
<1>4. CASE Recreate
  <2>1. /\ next <= Len(conditions)
        /\ next \in 1..Len(conditions)
        /\ conditions[next] \in Conditions
        /\ UNCHANGED <<conditions, outcome>>
        /\ outcome = Running
        /\ next' = next + 1
        /\ recreation = Unset
        /\ recreation' = Recreates(conditions[next].hash, conditions[next].amount)
        /\ IsOddCoin(conditions[next])
    BY <1>t, <1>4 DEF Recreate, Looping
  <2>2. ~IsMelt(conditions[next]) /\ ~IsUnreadable(conditions[next])
    BY <2>1, CreateCoinKinds DEF IsOddCoin
  <2>3. TypeOK'
    BY <1>s, <2>1, OddCoinType DEF TypeOK
  <2>4. SeenInv'
    <3>1. recreation' # Unset
      BY <2>1, KindsDiffer
    <3>2. \A j \in Seen' : IsOddCoin(conditions[j]) => j = next
      BY <1>s, <2>1 DEF SeenInv
    <3>3. \A i \in Seen' : ~IsMelt(conditions[i]) /\ ~IsUnreadable(conditions[i])
      BY <1>s, <2>1, <2>2 DEF SeenInv
    <3>4. next \in Seen' /\ conditions' = conditions
      BY <1>s, <2>1
    <3>5. QED
      BY <2>1, <3>1, <3>2, <3>3, <3>4 DEF SeenInv
  <2>5. StopInv'
    BY <2>1, KindsDiffer DEF StopInv
  <2>6. QED
    BY <2>3, <2>4, <2>5
<1>5. CASE Finish
  <2>1. /\ UNCHANGED <<conditions, next, recreation>>
        /\ outcome' = IF recreation = Unset THEN Ends ELSE recreation
        /\ next = Len(conditions) + 1
    BY <1>t, <1>5 DEF Finish
  <2>2. TypeOK'
    BY <2>1 DEF TypeOK
  <2>3. SeenInv'
    BY <2>1 DEF SeenInv, Seen
  <2>4. recreation # Unset => recreation.kind = "recreates"
    BY DEF TypeOK
  <2>5. StopInv'
    BY <2>1, <2>4, KindsDiffer DEF StopInv
  <2>6. QED
    BY <2>2, <2>3, <2>5
<1>6. CASE UNCHANGED vars
  BY <1>6 DEF vars, TypeOK, SeenInv, StopInv, Seen
<1>7. QED
  BY <1>1, <1>2, <1>3, <1>4, <1>5, <1>6 DEF Next

-----------------------------------------------------------------------------

(* At the end of the list everything has been seen. *)
LEMMA SeenAll ==
  ASSUME LoopInv, next = Len(conditions) + 1
  PROVE  Seen = 1..Len(conditions)
<1>1. Len(conditions) \in Nat
  BY DEF LoopInv, TypeOK
<1>2. QED
  BY <1>1 DEF Seen

(* A recreation is the only odd coin of a list without melts. *)
LEMMA RecreatesTheOnlyOne ==
  ASSUME LoopInv, outcome.kind = "recreates"
  PROVE  \E i \in 1..Len(conditions) :
           /\ Odds(conditions) = {i}
           /\ ~IsMelt(conditions[i])
           /\ outcome = Recreates(conditions[i].hash, conditions[i].amount)
           /\ \A j \in 1..Len(conditions) :
                IsCreateCoin(conditions[j]) => CreatesCoin(conditions[j])
<1>1. /\ next = Len(conditions) + 1
      /\ recreation # Unset
      /\ outcome = recreation
      /\ SeenInv
  BY DEF LoopInv, StopInv
<1>2. Seen = 1..Len(conditions)
  BY <1>1, SeenAll
<1>3. PICK i \in 1..Len(conditions) :
         /\ IsOddCoin(conditions[i])
         /\ recreation = Recreates(conditions[i].hash, conditions[i].amount)
         /\ \A j \in 1..Len(conditions) : IsOddCoin(conditions[j]) => j = i
  BY <1>1, <1>2 DEF SeenInv
<1>4. ASSUME NEW j \in 1..Len(conditions)
      PROVE  /\ conditions[j] \in Conditions
             /\ ~IsMelt(conditions[j])
             /\ IsCreateCoin(conditions[j]) =>
                  IsCoin(conditions[j]) /\ CreatesCoin(conditions[j])
  <2>1. conditions[j] \in Conditions
    BY DEF LoopInv, TypeOK
  <2>2. ~IsMelt(conditions[j]) /\ ~IsUnreadable(conditions[j])
    BY <1>1, <1>2 DEF SeenInv
  <2>3. QED
    BY <2>1, <2>2, CreateCoinKinds, CoinIsCreated
<1>5. \A j \in 1..Len(conditions) :
        CreatesCoin(conditions[j]) /\ conditions[j].amount % 2 = 1 <=> IsOddCoin(conditions[j])
  BY <1>4 DEF CreatesCoin, IsOddCoin, IsCoin
<1>6. Odds(conditions) = {i}
  <2>1. Odds(conditions) = {j \in 1..Len(conditions) : IsOddCoin(conditions[j])}
    BY <1>4, <1>5 DEF Odds
  <2>2. QED
    BY <1>3, <2>1
<1>7. QED
  BY <1>1, <1>3, <1>4, <1>6

LEMMA LoopGivesNoPhantoms == LoopInv => NoPhantomSuccessor /\ NoPhantomMelt
<1> SUFFICES ASSUME LoopInv PROVE NoPhantomSuccessor /\ NoPhantomMelt
  OBVIOUS
<1>1. NoPhantomSuccessor
  BY RecreatesTheOnlyOne DEF NoPhantomSuccessor, OnChain
<1>2. NoPhantomMelt
  <2>1. SUFFICES ASSUME outcome = Ends,
                        \A i \in 1..Len(conditions) : ~IsMelt(conditions[i])
                 PROVE  \A i \in 1..Len(conditions) :
                          IsCreateCoin(conditions[i]) =>
                            IsCoin(conditions[i]) /\ ~IsOddCoin(conditions[i])
    BY DEF NoPhantomMelt
  <2>2. /\ conditions \in Seq(Conditions)
        /\ next \in 1..(Len(conditions) + 1)
        /\ Len(conditions) \in Nat
    BY DEF LoopInv, TypeOK
  <2>3. next = Len(conditions) + 1 /\ recreation = Unset
    BY <2>1, <2>2 DEF LoopInv, StopInv
  <2>4. \A i \in 1..Len(conditions) :
          /\ conditions[i] \in Conditions
          /\ ~IsUnreadable(conditions[i])
          /\ ~IsOddCoin(conditions[i])
    BY <2>2, <2>3, SeenAll DEF LoopInv, SeenInv
  <2>5. QED
    BY <2>1, <2>4, CreateCoinKinds
<1>3. QED
  BY <1>1, <1>2

LEMMA LoopAgrees == LoopInv => AgreesWithTheChain
<1> SUFFICES ASSUME LoopInv, outcome # Running, OnChain(conditions),
                    FitsDecoder(conditions)
             PROVE  \E i \in Odds(conditions) :
                      outcome = IF IsMelt(conditions[i]) THEN Ends
                                ELSE Recreates(conditions[i].hash, conditions[i].amount)
  BY DEF AgreesWithTheChain
<1>t. /\ conditions \in Seq(Conditions)
      /\ Len(conditions) \in Nat
      /\ next \in 1..(Len(conditions) + 1)
      /\ \A i \in 1..Len(conditions) : conditions[i] \in Conditions
  BY DEF LoopInv, TypeOK
<1>1. PICK i \in Odds(conditions) : Odds(conditions) = {i}
  BY DEF OnChain
<1>c. ASSUME NEW j \in 1..Len(conditions)
      PROVE  /\ ~IsUnreadable(conditions[j])
             /\ CreatesCoin(conditions[j]) <=> IsCoin(conditions[j])
  <2>1. CreatesCoin(conditions[j]) <=> IsCoin(conditions[j])
    BY <1>t, CoinIsCreated DEF FitsDecoder
  <2>2. IsCreateCoin(conditions[j]) => IsMelt(conditions[j]) \/ CreatesCoin(conditions[j])
    BY DEF OnChain
  <2>3. QED
    BY <1>t, <2>1, <2>2, CreateCoinKinds
<1>2. /\ i \in 1..Len(conditions)
      /\ IsMelt(conditions[i]) \/ IsOddCoin(conditions[i])
      /\ \A j \in 1..Len(conditions) :
           IsMelt(conditions[j]) \/ IsOddCoin(conditions[j]) => j = i
  BY <1>1, <1>c DEF Odds, IsOddCoin
<1>3. CASE outcome = Ends
  <2>1. CASE next <= Len(conditions) /\ IsMelt(conditions[next])
    BY <1>t, <1>2, <1>3, <2>1
  <2>2. CASE next = Len(conditions) + 1 /\ recreation = Unset
    BY <1>2, <2>2, SeenAll DEF LoopInv, SeenInv
  <2>3. QED
    BY <1>3, <2>1, <2>2 DEF LoopInv, StopInv
<1>4. CASE outcome = Malformed
  <2>1. next \in 1..Len(conditions) /\ ~IsUnreadable(conditions[next])
    BY <1>t, <1>4, <1>c DEF LoopInv, StopInv
  <2>2. IsOddCoin(conditions[next]) /\ recreation # Unset
    BY <1>4, <2>1 DEF LoopInv, StopInv
  <2>3. PICK j \in Seen : IsOddCoin(conditions[j])
    BY <2>2 DEF LoopInv, SeenInv
  <2>4. j \in 1..Len(conditions) /\ j # next
    BY <1>t, <2>1, <2>3 DEF Seen
  <2>5. QED
    BY <1>2, <2>1, <2>2, <2>3, <2>4
<1>5. CASE outcome.kind = "recreates"
  BY <1>1, <1>5, RecreatesTheOnlyOne
<1>6. QED
  BY <1>3, <1>4, <1>5 DEF LoopInv, TypeOK

(* Of a list the chain accepts the loop stops at no odd coin too many and at *)
(* nothing unreadable but a coin too rich; and it passes by none.            *)
LEMMA LoopRefusesTheTooRich == LoopInv => RefusesExactlyTheTooRich
<1> SUFFICES ASSUME LoopInv, outcome # Running, OnChain(conditions)
             PROVE  outcome = Malformed <=>
                      \E i \in 1..Len(conditions) :
                        /\ TooRich(conditions[i])
                        /\ \A j \in 1..(i - 1) : ~IsMelt(conditions[j])
  BY DEF RefusesExactlyTheTooRich
<1>t. /\ Len(conditions) \in Nat
      /\ next \in 1..(Len(conditions) + 1)
      /\ \A i \in 1..Len(conditions) : conditions[i] \in Conditions
      /\ SeenInv /\ StopInv
  BY DEF LoopInv, TypeOK
<1>r. ASSUME NEW i \in 1..Len(conditions)
      PROVE  TooRich(conditions[i]) <=> IsUnreadable(conditions[i])
  <2>1. IsCreateCoin(conditions[i]) => IsMelt(conditions[i]) \/ CreatesCoin(conditions[i])
    BY DEF OnChain
  <2>2. CreatesCoin(conditions[i]) =>
          IsCreateCoin(conditions[i]) /\ conditions[i].amount \in 0..U64Max
    BY DEF CreatesCoin
  <2>3. I64Max \in Nat /\ U64Max \in Nat
    BY ContinuationAssumption
  <2>4. ASSUME TooRich(conditions[i])
        PROVE  ~IsCoin(conditions[i]) /\ ~IsMelt(conditions[i])
    <3>1. ~(conditions[i].amount \in (-I64Max - 1)..I64Max)
      BY <2>2, <2>3, <2>4 DEF TooRich
    <3>2. ~ArgumentsDecode(conditions[i])
      BY <3>1 DEF ArgumentsDecode
    <3>3. QED
      BY <3>2 DEF IsCoin, IsMelt
  <2>5. ASSUME IsUnreadable(conditions[i]) PROVE TooRich(conditions[i])
    <3>1. ~IsMelt(conditions[i]) /\ ~IsCoin(conditions[i]) /\ IsCreateCoin(conditions[i])
      BY <1>t, <2>5, CreateCoinKinds
    <3>2. CreatesCoin(conditions[i]) /\ ~(conditions[i].amount <= I64Max)
      BY <1>t, <2>1, <3>1, CoinIsCreated
    <3>3. QED
      BY <2>2, <2>3, <3>2 DEF TooRich
  <2>6. TooRich(conditions[i]) => IsCreateCoin(conditions[i])
    BY <2>2 DEF TooRich
  <2>7. QED
    BY <1>t, <2>4, <2>5, <2>6, CreateCoinKinds
<1>1. ASSUME outcome = Malformed
      PROVE  \E i \in 1..Len(conditions) :
               TooRich(conditions[i]) /\ \A j \in 1..(i - 1) : ~IsMelt(conditions[j])
  <2>1. next \in 1..Len(conditions) /\ \A j \in 1..(next - 1) : ~IsMelt(conditions[j])
    BY <1>1, <1>t DEF StopInv, SeenInv, Seen
  <2>2. ASSUME IsOddCoin(conditions[next]), recreation # Unset PROVE FALSE
    <3>1. PICK j \in Seen : IsOddCoin(conditions[j])
      BY <1>t, <2>2 DEF SeenInv
    <3>2. j \in 1..Len(conditions) /\ j # next
      BY <1>t, <2>1, <3>1 DEF Seen
    <3>3. \A k \in 1..Len(conditions) :
            IsOddCoin(conditions[k]) => k \in Odds(conditions)
      BY <1>t, CoinIsCreated DEF Odds, IsOddCoin
    <3>4. PICK k \in Odds(conditions) : Odds(conditions) = {k}
      BY DEF OnChain
    <3>5. QED
      BY <2>1, <2>2, <3>1, <3>2, <3>3, <3>4
  <2>3. TooRich(conditions[next])
    BY <1>1, <1>t, <1>r, <2>1, <2>2 DEF StopInv
  <2>4. QED
    BY <2>1, <2>3
<1>2. ASSUME NEW i \in 1..Len(conditions), TooRich(conditions[i]),
             \A j \in 1..(i - 1) : ~IsMelt(conditions[j])
      PROVE  outcome = Malformed
  <2>1. i \notin Seen /\ ~IsMelt(conditions[i])
    BY <1>2, <1>r, <1>t, CreateCoinKinds DEF SeenInv
  <2>2. next <= i
    BY <1>t, <2>1 DEF Seen
  <2>3. ASSUME next <= Len(conditions) PROVE ~IsMelt(conditions[next])
    BY <1>2, <1>t, <2>1, <2>2
  <2>4. outcome # Ends /\ outcome.kind # "recreates"
    BY <1>t, <2>2, <2>3 DEF StopInv
  <2>5. QED
    BY <2>4 DEF LoopInv, TypeOK
<1>3. QED
  BY <1>1, <1>2

(* The loop keeps its types and its index stays on the list, whatever list   *)
(* the evaluator returns.                                                    *)
THEOREM LoopTypeCorrect == Spec => []TypeOK
<1>1. LoopInv => TypeOK
  BY DEF LoopInv
<1>2. QED
  BY <1>1, LoopInit, LoopStep, PTL DEF Spec

(* On every list that can be a singleton's spend on chain, of any length,    *)
(* the walk finds exactly what the chain did.                                *)
THEOREM AgreementCorrect == Spec => []AgreesWithTheChain
  BY LoopInit, LoopStep, LoopAgrees, PTL DEF Spec

(* Of no list at all does the walk invent a successor, or end a lineage      *)
(* without a melt marker past a CREATE_COIN it could not read.               *)
THEOREM NoPhantoms == Spec => [](NoPhantomSuccessor /\ NoPhantomMelt)
  BY LoopInit, LoopStep, LoopGivesNoPhantoms, PTL DEF Spec

(* Of the lists the chain accepts, of any length and any amounts, exactly    *)
(* those with a coin no i64 holds before any melt are refused.               *)
THEOREM RefusalsCorrect == Spec => []RefusesExactlyTheTooRich
  BY LoopInit, LoopStep, LoopRefusesTheTooRich, PTL DEF Spec
=============================================================================
