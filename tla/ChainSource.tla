----------------------------- MODULE ChainSource -----------------------------
(***************************************************************************)
(* The two primitive reads of a ChainSource (src/source.rs), answered from  *)
(* the chain as it is at the read by a source that may misbehave in the     *)
(* ways Faults names.  Both walks, forward and backward, read through this. *)
(***************************************************************************)
EXTENDS ChiaChain

CONSTANTS
  Heavy,      \* the coins whose reveal expands past the reveal bound
  Costly,     \* the coins whose spend costs more than MAX_HOP_CLVM_COST, or
              \* pays an amount above i64::MAX
  Faults,     \* how the source may misbehave
  Churn       \* how the chain moves while a walk runs

(* "err": a read fails.  "lost_spend": coin_spend answers None for a spent   *)
(* coin ("unspent or unknown").  "unknown_height": a spent coin's record     *)
(* carries no spent_height ("not known by this source").  "forged_spend",    *)
(* "forged_record": a read is answered with anything of the right type.      *)
FaultKinds ==
  {"err", "lost_spend", "unknown_height", "forged_spend", "forged_record"}

ASSUME SourceAssumption ==
  /\ Heavy \subseteq Coins
  /\ Costly \subseteq Coins
  /\ Faults \subseteq FaultKinds
  /\ Churn \subseteq {"block", "reorg"}

-----------------------------------------------------------------------------

Nothing == [kind |-> "none"]
ReadFails == [kind |-> "err"]
Record(c, s) == [kind |-> "some", coin |-> c, spent |-> s]

(* A CoinSpend: the coin it spends, whether its reveal hashes to that coin's *)
(* puzzle hash ("genuine"), is another program ("foreign") or does not       *)
(* decode ("undecodable"), whether the solution decodes, whether the reveal  *)
(* is over the expansion bound, whether its run is refused (it fails, costs  *)
(* more than the ceiling, or pays an amount no i64 holds), and the coins its *)
(* conditions create.                                                        *)
CoinSpend(c, r, s, h, x, K) ==
  [kind |-> "some", coin |-> c, reveal |-> r, solution |-> s, heavy |-> h,
   costly |-> x, emits |-> K]

If(fault, answers) == IF fault \in Faults THEN answers ELSE {}

AnyRecord == [kind : {"some"}, coin : Coins, spent : BOOLEAN]

RecordAnswers(id) ==
  (IF id \in created THEN {Record(id, id \in spent)} ELSE {Nothing})
  \cup If("err", {ReadFails})
  \cup If("unknown_height", IF id \in created THEN {Record(id, FALSE)} ELSE {})
  \cup If("forged_record", {Nothing} \cup AnyRecord)

GenuineSpend(id) ==
  CoinSpend(id, "genuine", "decodable", id \in Heavy, id \in Costly, Kids(id))

ForeignSpends ==
  [kind : {"some"}, coin : Coins, reveal : {"foreign", "undecodable"},
   solution : {"decodable"}, heavy : BOOLEAN, costly : {FALSE}, emits : {{}}]

(* The reveal is hash-bound to the coin, the solution to nothing: a genuine  *)
(* reveal may come with bytes that are no solution, or with one that emits   *)
(* anything its puzzle can emit.                                             *)
ForgedSpends(id) ==
  [kind : {"some"}, coin : {id}, reveal : {"genuine"},
   solution : {"decodable", "undecodable"}, heavy : {id \in Heavy},
   costly : BOOLEAN, emits : Emittable(id)]
  \cup ForeignSpends

SpendAnswers(id) ==
  (IF id \in spent THEN {GenuineSpend(id)} ELSE {Nothing})
  \cup If("err", {ReadFails})
  \cup If("lost_spend", {Nothing})
  \cup If("forged_spend", ForgedSpends(id))

-----------------------------------------------------------------------------

(* The chain moves freely while no call runs; Churn says how it may move     *)
(* between two reads of one.                                                 *)
ChainMoves(reading) ==
  \/ /\ reading => "block" \in Churn
     /\ \E c \in Coins : \E K \in SUBSET Children(c) : Spend(c, K)
  \/ /\ "reorg" \in Churn
     /\ \E c \in Coins : Undo(c)
=============================================================================
