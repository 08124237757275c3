------------------------------ MODULE MockSource ------------------------------
(***************************************************************************)
(* MockChainSource (src/testing.rs): six tables a test fills through the    *)
(* builder, in any order, and the reads of ChainSource over them.  The      *)
(* tables are independent of each other, and the caller names the key a     *)
(* record or a spend is loaded under: nothing makes it the coin's own id.   *)
(***************************************************************************)
CONSTANTS
  Coins,        \* the coins, and so the coin ids, a fixture speaks of
  NoCoin,       \* the parent of a coin outside the fixture
  Parent,       \* parent_coin_info
  PuzzleHash,   \* puzzle_hash
  Heights,      \* the block heights a fixture speaks of
  SourceErrors  \* ChainSourceError

ASSUME MockAssumption ==
  /\ NoCoin \notin Coins
  /\ Parent \in [Coins -> Coins \cup {NoCoin}]
  /\ DOMAIN PuzzleHash = Coins

VARIABLES
  coins, spends, lineages, timestamps,  \* functions on the keys loaded
  peak,                                 \* a set of at most one height
  forced_error                          \* a set of at most one error

tables == <<coins, spends, lineages, timestamps>>
mockVars == <<tables, peak, forced_error>>

-----------------------------------------------------------------------------
(* The reads.                                                              *)

(* `guard()?` before the answer. *)
Guarded(answer) ==
  IF forced_error # {} THEN [err |-> forced_error] ELSE [ok |-> answer]

(* The rows of a table: a key and the value loaded under it. *)
Rows(table) == {<<k, table[k]>> : k \in DOMAIN table}

Get(table, key) == {row[2] : row \in {row \in Rows(table) : row[1] = key}}

(* A mistake: the record is found by its coin, as in the scans. *)
RecordByScan(id) == Guarded({row[2] : row \in {row \in Rows(coins) : row[2].coin = id}})

coin_record(id) == Guarded(Get(coins, id))

(* A mistake: the puzzle hash asked for is not looked at. *)
ByPuzzleHashAny(hash, include_spent) ==
  Guarded({row \in Rows(coins) : include_spent \/ ~row[2].spent})

coin_records_by_puzzle_hash(hash, include_spent) ==
  Guarded({row \in Rows(coins) : /\ PuzzleHash[row[2].coin] = hash
                                 /\ include_spent \/ ~row[2].spent})

coin_records_by_parent(id) ==
  Guarded({row \in Rows(coins) : Parent[row[2].coin] = id})

(* A mistake: the spends are read without the guard. *)
SpendUnguarded(id) == [ok |-> Get(spends, id)]

coin_spend(id) == Guarded(Get(spends, id))

resolve_singleton_lineage(id) == Guarded(Get(lineages, id))

(* The default body, over the mock's own two reads. *)
parent_spend(id) ==
  LET record == Get(coins, id) IN
  IF forced_error # {} \/ record = {} THEN coin_record(id)
  ELSE coin_spend(Parent[(CHOOSE r \in record : TRUE).coin])

Reads ==
  {coin_record(id) : id \in Coins}
  \cup {coin_records_by_puzzle_hash(PuzzleHash[id], s) : id \in Coins, s \in BOOLEAN}
  \cup {coin_records_by_parent(id) : id \in Coins}
  \cup {coin_spend(id) : id \in Coins}
  \cup {parent_spend(id) : id \in Coins}
  \cup {resolve_singleton_lineage(id) : id \in Coins}
  \cup {Guarded(peak)}
  \cup {Guarded(Get(timestamps, h)) : h \in Heights}

-----------------------------------------------------------------------------
(* The builder.                                                            *)

Empty == [k \in {} |-> k]

(* HashMap::insert: the last value loaded under a key is the one it has. *)
Loaded(table, key, value) ==
  [k \in DOMAIN table \cup {key} |-> IF k = key THEN value ELSE table[k]]

MockInit ==
  /\ coins = Empty
  /\ spends = Empty
  /\ lineages = Empty
  /\ timestamps = Empty
  /\ peak = {}
  /\ forced_error = {}

with_coin(id, record) ==
  /\ coins' = Loaded(coins, id, record)
  /\ UNCHANGED <<spends, lineages, timestamps, peak, forced_error>>

with_spend(id, coin) ==
  /\ spends' = Loaded(spends, id, coin)
  /\ UNCHANGED <<coins, lineages, timestamps, peak, forced_error>>

with_lineage(id, members) ==
  /\ lineages' = Loaded(lineages, id, members)
  /\ UNCHANGED <<coins, spends, timestamps, peak, forced_error>>

with_timestamp(height, time) ==
  /\ timestamps' = Loaded(timestamps, height, time)
  /\ UNCHANGED <<coins, spends, lineages, peak, forced_error>>

with_peak(height) ==
  /\ peak' = {height}
  /\ UNCHANGED <<tables, forced_error>>

fail_with(error) ==
  /\ forced_error' = {error}
  /\ UNCHANGED <<tables, peak>>

MockNext ==
  \/ \E id, c \in Coins, s \in BOOLEAN : with_coin(id, [coin |-> c, spent |-> s])
  \/ \E id, c \in Coins : with_spend(id, c)
  \/ \E id \in Coins : \E M \in (SUBSET Coins) \ {{}} : with_lineage(id, M)
  \/ \E h, t \in Heights : with_timestamp(h, t)
  \/ \E h \in Heights : with_peak(h)
  \/ \E e \in SourceErrors : fail_with(e)

MockSpec == MockInit /\ [][MockNext]_mockVars

-----------------------------------------------------------------------------
(* Properties.                                                             *)

(* A forced error reaches every read, the composed one included, wherever in *)
(* the chain of builder calls it was armed: none is answered with a value,   *)
(* none with an absence (src/testing.rs, the doc of fail_with).              *)
ForcedErrorReachesEveryRead ==
  forced_error # {} => \A answer \in Reads : answer = [err |-> forced_error]

(* What the two kinds of coin read show: key and record of each coin looked  *)
(* up by id, and of each found by its puzzle hash.                           *)
Hashes == {PuzzleHash[id] : id \in Coins}

LookedUp == UNION {{<<id, r>> : r \in coin_record(id).ok} : id \in Coins}

Scanned == UNION {coin_records_by_puzzle_hash(h, TRUE).ok : h \in Hashes}

(* The five coin reads show the same records, whatever keys they are loaded  *)
(* under: one that a lookup shows is found under its coin's own puzzle hash  *)
(* and parent and no other, spent ones only if asked for; scans show nothing *)
(* else; and the creating spend is that of the parent of the coin in the     *)
(* record (src/testing.rs, the two filters; src/source.rs, parent_spend).    *)
ReadsAgree ==
  forced_error = {} =>
    /\ \A h \in Hashes, s \in BOOLEAN :
         coin_records_by_puzzle_hash(h, s).ok =
           {row \in LookedUp : PuzzleHash[row[2].coin] = h /\ (row[2].spent => s)}
    /\ \A p \in Coins :
         coin_records_by_parent(p).ok = {row \in LookedUp : Parent[row[2].coin] = p}
    /\ \A row \in LookedUp : parent_spend(row[1]) = coin_spend(Parent[row[2].coin])

(* The caller names the key (src/testing.rs, with_coin: "keyed by its coin   *)
(* id"), and nothing checks it.  A record under another key is a coin that   *)
(* scans show and a lookup by its id does not, shows otherwise or shows once *)
(* where the scans show two; under the coins' own ids that never happens.    *)
WellKeyed == \A id \in DOMAIN coins : coins[id].coin = id

ScansMatchLookupsIffWellKeyed ==
  forced_error = {} =>
    (WellKeyed <=> /\ \A row \in Scanned : coin_record(row[2].coin).ok = {row[2]}
                   /\ \A a, b \in Scanned : a[2].coin = b[2].coin => a = b)
=============================================================================
