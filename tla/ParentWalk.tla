------------------------------ MODULE ParentWalk ------------------------------
(***************************************************************************)
(* The default body of ChainSource::parent_spend (src/source.rs), which     *)
(* reads a coin's record and then its parent's spend, and the backward walk *)
(* over it (authenticate in tests/parent_walk_capability.rs), while blocks  *)
(* and reorganisations change the chain between any two reads.              *)
(*                                                                         *)
(* parent_spend checks neither that the record is of the coin asked for nor *)
(* that the spend is of the parent: the walk follows whatever it is served. *)
(***************************************************************************)
EXTENDS Integers, FiniteSets, ChainSource

CONSTANT MaxHops    \* MAX_HOPS

ASSUME MaxHopsAssumption == MaxHops \in Nat

(* A coin id commits to its parent's, so no chain of parents is infinite. *)
ASSUME FiniteAncestry == \A c \in Coins : IsFiniteSet(Ancestry[c])

VARIABLES
  phase,      \* the read made next, or whether the walk has answered
  coin_id,    \* the coin to authenticate
  child,      \* `current`: the coin whose parent's spend is asked for
  parent_id,  \* record.coin.parent_coin_info, once child's record is read
  climbed,    \* the hops finished
  verdict

parentVars == <<phase, coin_id, child, parent_id, climbed, verdict>>
climbVars == <<chainVars, parentVars>>

Undecided == [kind |-> "undecided"]
Launcher(l) == [kind |-> "launcher", launcher |-> l]
NotASingleton == [kind |-> "not_a_singleton"]
TooDeep == [kind |-> "too_deep"]
ReadError == [kind |-> "error"]

-----------------------------------------------------------------------------

(* coin_spend of a parent: one outside Coins has no spend on this chain. *)
ParentSpendAnswers ==
  IF parent_id \in Coins THEN SpendAnswers(parent_id)
  ELSE {Nothing} \cup If("err", {ReadFails}) \cup If("forged_spend", ForeignSpends)

(* authenticate returns; its locals are gone. *)
Conclude(answer) ==
  /\ phase' = "done"
  /\ verdict' = answer
  /\ child' = NoCoin
  /\ parent_id' = NoCoin
  /\ climbed' = 0
  /\ UNCHANGED coin_id

Authenticate(id) ==
  /\ phase \in {"idle", "done"}
  /\ phase' = "record"
  /\ coin_id' = id
  /\ child' = id
  /\ parent_id' = NoCoin
  /\ climbed' = 0
  /\ verdict' = Undecided
  /\ UNCHANGED chainVars

(* `for _ in 0..MAX_HOPS` is exhausted. *)
GiveUp ==
  /\ phase = "record"
  /\ climbed = MaxHops
  /\ Conclude(TooDeep)
  /\ UNCHANGED chainVars

(* A mistake: the spend of the coin itself is read, not its parent's. *)
SpendToReadOwn(record) == record.coin

(* The coin whose spend created the record's coin. *)
SpendToRead(record) == Parent[record.coin]

(* A mistake: `0..=MAX_HOPS`. *)
MayClimbOnceMore == phase = "record" /\ climbed <= MaxHops

MayClimb == phase = "record" /\ climbed < MaxHops

(* The first read of parent_spend. *)
ReadChildRecord ==
  /\ MayClimb
  /\ \E answer \in RecordAnswers(child) :
       \/ answer = ReadFails /\ Conclude(ReadError)
       \/ answer = Nothing /\ Conclude(NotASingleton)
       \/ /\ answer.kind = "some"
          /\ phase' = "spend"
          /\ parent_id' = SpendToRead(answer)
          /\ UNCHANGED <<coin_id, child, climbed, verdict>>
  /\ UNCHANGED chainVars

(* A mistake: the hops are not counted. *)
ClimbUncounted(parent) ==
  /\ phase' = "record"
  /\ child' = parent
  /\ parent_id' = NoCoin
  /\ UNCHANGED <<coin_id, climbed, verdict>>

(* A mistake: both reads of parent_spend are counted as hops. *)
ClimbCountingReads(parent) ==
  /\ phase' = "record"
  /\ child' = parent
  /\ parent_id' = NoCoin
  /\ climbed' = climbed + 2
  /\ UNCHANGED <<coin_id, verdict>>

(* The next iteration asks for the parent's own parent. *)
Climb(parent) ==
  /\ phase' = "record"
  /\ child' = parent
  /\ parent_id' = NoCoin
  /\ climbed' = climbed + 1
  /\ UNCHANGED <<coin_id, verdict>>

(* The second read of parent_spend, and what the walk makes of its answer. *)
ReadParentSpend ==
  /\ phase = "spend"
  /\ \E answer \in ParentSpendAnswers :
       \/ answer = ReadFails /\ Conclude(ReadError)
       \/ answer = Nothing /\ Conclude(NotASingleton)
       \/ /\ answer.kind = "some"
          /\ answer.coin \in Launchers
          /\ Conclude(Launcher(answer.coin))
       \/ /\ answer.kind = "some"
          /\ answer.coin \notin Launchers
          /\ Climb(answer.coin)
  /\ UNCHANGED chainVars

-----------------------------------------------------------------------------

ParentInit ==
  /\ ChainInit
  /\ phase = "idle"
  /\ coin_id = NoCoin
  /\ child = NoCoin
  /\ parent_id = NoCoin
  /\ climbed = 0
  /\ verdict = Undecided

ClimbStep == GiveUp \/ ReadChildRecord \/ ReadParentSpend

ParentNext ==
  \/ \E id \in Coins : Authenticate(id)
  \/ ClimbStep
  \/ ChainMoves(phase \notin {"idle", "done"}) /\ UNCHANGED parentVars

(* One synchronous loop on the caller's thread, as the forward walk. *)
ParentSpec == ParentInit /\ [][ParentNext]_climbVars /\ WF_climbVars(ClimbStep)

-----------------------------------------------------------------------------
(* Properties.                                                             *)

(* Every variable keeps its type. *)
ParentTypeOK ==
  /\ created \subseteq Coins
  /\ spent \subseteq Coins
  /\ phase \in {"idle", "record", "spend", "done"}
  /\ {coin_id, child, parent_id} \subseteq Coins \cup {NoCoin}
  /\ climbed \in 0..MaxHops
  /\ verdict \in {Undecided, NotASingleton, TooDeep, ReadError}
                 \cup {Launcher(l) : l \in Coins}
  /\ phase # "idle" => coin_id \in Coins
  /\ phase \in {"record", "spend"} => child \in Coins

(* The launchers among the coins c descends from. *)
LaunchersAbove(c) == Launchers \cap (Ancestry[c] \ {c})

GenuineData == Faults \cap {"forged_record", "forged_spend"} = {}

(* The launcher a walk over genuine data answers is the nearest one above    *)
(* the coin, and within the hop bound, whatever is reorganised between its   *)
(* reads: a launcher above another singleton is never reached through it.    *)
LauncherIsTheNearest ==
  GenuineData => \A l \in Coins : verdict = Launcher(l) =>
    /\ l \in LaunchersAbove(coin_id)
    /\ Path(l, coin_id) \cap LaunchersAbove(coin_id) = {l}
    /\ Cardinality(Path(l, coin_id)) <= MaxHops + 1

(* A walk gives up only on a coin whose nearest launcher, if there is one at *)
(* all, is really further up than MAX_HOPS (the doc of TooDeep, line 25).    *)
TooDeepIsTooFar ==
  GenuineData /\ verdict = TooDeep =>
    \A l \in LaunchersAbove(coin_id) : Cardinality(Path(l, coin_id)) > MaxHops + 1

(* Of a source that serves every record and spend, "not a singleton" is true *)
(* at the instant it is answered: the coin is not on the chain, or there is  *)
(* no launcher above it - and it is never a gap that a block or a            *)
(* reorganisation only opened between the two reads of parent_spend.         *)
GapIsReal ==
  [][Faults \subseteq {"err", "unknown_height"}
       /\ verdict' = NotASingleton /\ verdict # NotASingleton
     => coin_id \notin created \/ LaunchersAbove(coin_id) = {}]_climbVars

(* The steps left at most: two reads a hop, and giving up.                   *)
ClimbsLeft ==
  CASE phase = "record" -> 2 * (MaxHops - climbed) + 1
    [] phase = "spend"  -> 2 * (MaxHops - climbed)
    [] OTHER            -> 0

(* The backward walk ends after at most 2 * MAX_HOPS + 1 steps, though it    *)
(* follows whatever spend it is served: every step brings it nearer its      *)
(* verdict (tests/parent_walk_capability.rs:161: a cyclic parent chain is    *)
(* bounded by the hop limit "rather than looping forever").                  *)
EveryClimbNearsTheVerdict ==
  [][parentVars' # parentVars /\ phase \in {"record", "spend"}
     => /\ ClimbsLeft <= 2 * MaxHops + 1
        /\ 0 <= ClimbsLeft' /\ ClimbsLeft' < ClimbsLeft]_climbVars

(* parent_spend "reads the spend that CREATED `coin_id`" (src/source.rs:64): *)
(* a spend answered for child is one that created child.                     *)
ReadsTheCreatingSpend ==
  [][phase = "spend" /\ phase' # "spend" /\ verdict' \notin {NotASingleton, ReadError}
     => child \in Kids(parent_id)]_climbVars
=============================================================================
