----------------------------- MODULE Continuation -----------------------------
(***************************************************************************)
(* run_for_continuation (src/walk.rs): what the conditions a spend emits    *)
(* say of the singleton - recreated, ended, or unreadable.  The loop stops  *)
(* at the first condition that decides, so what it answers depends on the   *)
(* order of the conditions; the properties say how far it may.              *)
(***************************************************************************)
EXTENDS Integers, Sequences

CONSTANTS
  Hashes,     \* the 32-byte puzzle hashes
  NoHash,     \* any atom that is not 32 bytes long: nil, or garbage
  Amounts,    \* the amounts a condition may carry, read as signed integers
  I64Max,     \* the largest amount the decoder holds
  U64Max,     \* the largest amount a coin has
  Inputs      \* the condition lists the evaluator may return

MeltAmount == -113   \* SINGLETON_MELT_AMOUNT

(* A condition as the decoder sees it: ConditionHead fails to decode, names  *)
(* another opcode, or is CREATE_COIN (51) with arguments that are no list of *)
(* an atom and a number, or with a hash atom and an amount.                  *)
Conditions ==
  [head : {"unreadable", "other"}]
  \cup [head : {"create"}, args : {"unreadable"}]
  \cup [head : {"create"}, args : {"readable"},
        hash : Hashes \cup {NoHash}, amount : Amounts]

ASSUME ContinuationAssumption ==
  /\ NoHash \notin Hashes
  /\ Amounts \subseteq Int
  /\ I64Max \in Nat
  /\ I64Max >= 113
  /\ U64Max \in Nat
  /\ U64Max >= I64Max
  /\ Inputs \subseteq Seq(Conditions)

VARIABLES
  conditions,  \* the decoded condition list
  next,        \* the index of the condition the loop looks at next
  recreation,  \* Option<(Bytes32, u64)>
  outcome      \* what the function returned

vars == <<conditions, next, recreation, outcome>>

-----------------------------------------------------------------------------

Unset == [kind |-> "none"]
Running == [kind |-> "running"]
Ends == [kind |-> "ends"]
Malformed == [kind |-> "malformed"]
Recreates(h, a) == [kind |-> "recreates", hash |-> h, amount |-> a]

IsCreateCoin(c) == c.head = "create"

(* A mistake: the amount is decoded at any width. *)
ArgumentsDecodeWide(c) == c.args = "readable"

(* CreateCoinArguments decodes: the amount fits an i64. *)
ArgumentsDecode(c) ==
  /\ c.args = "readable"
  /\ c.amount \in (-I64Max - 1)..I64Max

(* A mistake: any atom passes for a puzzle hash. *)
CoinDecodesAnyHash(c) == c.amount >= 0

(* u64::try_from and Bytes32::from_clvm succeed. *)
CoinDecodes(c) == c.amount >= 0 /\ c.hash # NoHash

IsMelt(c) == IsCreateCoin(c) /\ ArgumentsDecode(c) /\ c.amount = MeltAmount

(* A CREATE_COIN whose arguments the walk cannot read as a coin or a melt. *)
IsUnreadable(c) ==
  /\ IsCreateCoin(c)
  /\ ArgumentsDecode(c) => c.amount # MeltAmount /\ ~CoinDecodes(c)

IsCoin(c) ==
  /\ IsCreateCoin(c)
  /\ ArgumentsDecode(c)
  /\ CoinDecodes(c)

IsOddCoin(c) == IsCoin(c) /\ c.amount % 2 = 1

-----------------------------------------------------------------------------

Init ==
  /\ conditions \in Inputs
  /\ next = 1
  /\ recreation = Unset
  /\ outcome = Running

Looping == outcome = Running /\ next <= Len(conditions)

(* A mistake: a CREATE_COIN that does not decode is skipped. *)
SkipUnreadable ==
  /\ Looping
  /\ LET c == conditions[next] IN
       IsCreateCoin(c) => ~IsMelt(c) /\ ~IsOddCoin(c)
  /\ next' = next + 1
  /\ UNCHANGED <<conditions, recreation, outcome>>

(* `continue`: not a CREATE_COIN, or an even payment. *)
Skip ==
  /\ Looping
  /\ LET c == conditions[next] IN
       IsCreateCoin(c) => IsCoin(c) /\ ~IsOddCoin(c)
  /\ next' = next + 1
  /\ UNCHANGED <<conditions, recreation, outcome>>

(* The melt marker returns at once: later conditions are never looked at. *)
Melt ==
  /\ Looping
  /\ IsMelt(conditions[next])
  /\ outcome' = Ends
  /\ UNCHANGED <<conditions, next, recreation>>

(* A mistake: the puzzle hash is demanded before the melt is recognized. *)
RefuseNilHash ==
  /\ Looping
  /\ \/ IsUnreadable(conditions[next])
     \/ IsMelt(conditions[next]) /\ conditions[next].hash = NoHash
     \/ IsOddCoin(conditions[next]) /\ recreation # Unset
  /\ outcome' = Malformed
  /\ UNCHANGED <<conditions, next, recreation>>

Refuse ==
  /\ Looping
  /\ \/ IsUnreadable(conditions[next])
     \/ IsOddCoin(conditions[next]) /\ recreation # Unset
  /\ outcome' = Malformed
  /\ UNCHANGED <<conditions, next, recreation>>

(* A mistake: the amount is decoded as an unsigned byte, so -113 reads 143. *)
RecreateUnsigned ==
  /\ Looping
  /\ IsOddCoin(conditions[next]) \/ IsMelt(conditions[next])
  /\ recreation = Unset
  /\ recreation' = Recreates(conditions[next].hash, conditions[next].amount % 256)
  /\ next' = next + 1
  /\ UNCHANGED <<conditions, outcome>>

Recreate ==
  /\ Looping
  /\ IsOddCoin(conditions[next])
  /\ recreation = Unset
  /\ recreation' = Recreates(conditions[next].hash, conditions[next].amount)
  /\ next' = next + 1
  /\ UNCHANGED <<conditions, outcome>>

Finish ==
  /\ outcome = Running
  /\ next > Len(conditions)
  /\ outcome' = IF recreation = Unset THEN Ends ELSE recreation
  /\ UNCHANGED <<conditions, next, recreation>>

Next == Skip \/ Melt \/ Refuse \/ Recreate \/ Finish

Spec == Init /\ [][Next]_vars

-----------------------------------------------------------------------------
(* What the chain itself makes of the conditions.                          *)

(* Consensus creates a coin of any 32-byte puzzle hash and unsigned amount.  *)
CreatesCoin(c) ==
  /\ IsCreateCoin(c)
  /\ c.args = "readable"
  /\ c.hash # NoHash
  /\ c.amount \in 0..U64Max

(* The singleton top layer accepts an inner puzzle's output when exactly one *)
(* CREATE_COIN has an odd amount (the melt marker is odd, and stays no coin).*)
Odds(cs) ==
  {i \in 1..Len(cs) :
     IsMelt(cs[i]) \/ (CreatesCoin(cs[i]) /\ cs[i].amount % 2 = 1)}

OnChain(cs) ==
  /\ \A i \in 1..Len(cs) :
       IsCreateCoin(cs[i]) => IsMelt(cs[i]) \/ CreatesCoin(cs[i])
  /\ \E i \in Odds(cs) : Odds(cs) = {i}

(* No coin is created of an amount past the decoder's width (SPEC 4a, 9      *)
(* demands those be refused).                                                *)
FitsDecoder(cs) ==
  \A i \in 1..Len(cs) : CreatesCoin(cs[i]) => cs[i].amount <= I64Max

-----------------------------------------------------------------------------
(* Properties.                                                             *)

(* The loop's variables keep their types, and the index stays on the list. *)
TypeOK ==
  /\ conditions \in Seq(Conditions)
  /\ next \in 1..(Len(conditions) + 1)
  /\ recreation \in {Unset} \cup [kind : {"recreates"}, hash : Hashes, amount : Nat]
  /\ outcome \in {Running, Ends, Malformed}
                 \cup [kind : {"recreates"}, hash : Hashes, amount : Nat]

(* On every condition list that can be a singleton's spend on chain the walk *)
(* finds what the chain did: the melt if the top layer saw the marker, and   *)
(* otherwise the one odd coin - never a refusal, never the other answer.     *)
AgreesWithTheChain ==
  outcome # Running /\ OnChain(conditions) /\ FitsDecoder(conditions) =>
    \E i \in Odds(conditions) :
      outcome = IF IsMelt(conditions[i]) THEN Ends
                ELSE Recreates(conditions[i].hash, conditions[i].amount)

(* A coin of an amount the chain allows and the decoder cannot hold.         *)
TooRich(c) == CreatesCoin(c) /\ c.amount > I64Max

(* Of the lists that can be a singleton's spend on chain the walk refuses    *)
(* exactly those that create such a coin, be it a payment or the recreation, *)
(* before any melt marker: no honest spend is refused for another reason,    *)
(* and none of these is read at a width the walk does not have (SPEC 4a, 9:  *)
(* "an amount outside i64" must be a refusal).                               *)
RefusesExactlyTheTooRich ==
  outcome # Running /\ OnChain(conditions) =>
    (outcome = Malformed <=>
       \E i \in 1..Len(conditions) :
         /\ TooRich(conditions[i])
         /\ \A j \in 1..(i - 1) : ~IsMelt(conditions[j]))

(* A successor is never invented: a recreation is reported only of a list    *)
(* that holds no melt, nothing unreadable, and no other odd coin (SPEC 4a,   *)
(* 3: reading the marker -113 as unsigned would report the coin 143).        *)
NoPhantomSuccessor ==
  outcome.kind = "recreates" =>
    /\ OnChain(conditions)
    /\ \E i \in Odds(conditions) :
         /\ ~IsMelt(conditions[i])
         /\ outcome = Recreates(conditions[i].hash, conditions[i].amount)

(* A lineage never ends by omission: without a melt marker, an ending means  *)
(* that every CREATE_COIN was read and none is odd (SPEC 4a, 9: skipping an  *)
(* unreadable one would be a phantom melt).                                  *)
NoPhantomMelt ==
  outcome = Ends =>
    \/ \E i \in 1..Len(conditions) : IsMelt(conditions[i])
    \/ \A i \in 1..Len(conditions) :
         IsCreateCoin(conditions[i]) =>
           IsCoin(conditions[i]) /\ ~IsOddCoin(conditions[i])

(* SPEC 4a, 9 as written: once a condition is known to be a CREATE_COIN,     *)
(* arguments the walk cannot decode must be a refusal, wherever they stand.  *)
UnreadableIsRefused ==
  outcome # Running /\ (\E i \in 1..Len(conditions) : IsUnreadable(conditions[i]))
    => outcome = Malformed
=============================================================================
