---------------------------- MODULE MockSourceProofs ----------------------------
(***************************************************************************)
(* The reads of the mock, for every fixture of every number of coins.       *)
(***************************************************************************)
EXTENDS MockSource, TLAPS

LEMMA GetLoaded ==
  ASSUME NEW table, NEW key \in DOMAIN table
  PROVE  Get(table, key) = {table[key]}
<1>1. <<key, table[key]>> \in Rows(table)
  BY DEF Rows
<1>2. \A row \in Rows(table) : row[1] = key => row[2] = table[key]
  BY DEF Rows
<1>3. table[key] \in Get(table, key)
  <2>1. <<key, table[key]>> \in {row \in Rows(table) : row[1] = key}
    BY <1>1
  <2>2. <<key, table[key]>>[2] = table[key]
    OBVIOUS
  <2>3. QED
    BY <2>1, <2>2 DEF Get
<1>4. ASSUME NEW v \in Get(table, key) PROVE v = table[key]
  BY <1>2 DEF Get
<1>5. QED
  BY <1>3, <1>4

LEMMA GetMissing ==
  ASSUME NEW table, NEW key, key \notin DOMAIN table
  PROVE  Get(table, key) = {}
  BY DEF Get, Rows

(* The composed read is the record's own answer, or the spend of the parent  *)
(* of the coin the record names.                                             *)
LEMMA ParentSpendOf ==
  ASSUME NEW c \in DOMAIN coins, forced_error = {}
  PROVE  parent_spend(c) = coin_spend(Parent[coins[c].coin])
<1>1. Get(coins, c) = {coins[c]}
  BY GetLoaded
<1>2. (CHOOSE r \in Get(coins, c) : TRUE) = coins[c]
  BY <1>1
<1>3. QED
  BY <1>1, <1>2 DEF parent_spend

(* Records are loaded under coin ids, and are of coins the fixture speaks of.*)
CoinsTyped ==
  /\ DOMAIN coins \subseteq Coins
  /\ \A id \in DOMAIN coins : coins[id].coin \in Coins

LEMMA CoinsStayTyped == MockSpec => []CoinsTyped
<1>1. MockInit => CoinsTyped
  BY DEF MockInit, CoinsTyped, Empty
<1>2. CoinsTyped /\ [MockNext]_mockVars => CoinsTyped'
  <2> SUFFICES ASSUME CoinsTyped, [MockNext]_mockVars PROVE CoinsTyped'
    OBVIOUS
  <2>1. ASSUME NEW id \in Coins, NEW c \in Coins, NEW s \in BOOLEAN,
               with_coin(id, [coin |-> c, spent |-> s])
        PROVE  CoinsTyped'
    BY <2>1 DEF with_coin, CoinsTyped, Loaded
  <2>2. CASE UNCHANGED coins
    BY <2>2 DEF CoinsTyped
  <2>3. QED
    BY <2>1, <2>2
       DEF MockNext, mockVars, tables, with_spend, with_lineage, with_timestamp,
           with_peak, fail_with
<1>3. QED
  BY <1>1, <1>2, PTL DEF MockSpec

(* What lookups and scans show is the table itself. *)
LEMMA BothShowTheTable ==
  ASSUME CoinsTyped, forced_error = {}
  PROVE  LookedUp = Rows(coins) /\ Scanned = Rows(coins)
<1>1. \A a : Guarded(a).ok = a
  BY DEF Guarded
<1>2. LookedUp = Rows(coins)
  <2>1. ASSUME NEW id \in Coins, NEW r \in coin_record(id).ok
        PROVE  <<id, r>> \in Rows(coins)
    <3>1. r \in Get(coins, id)
      BY <1>1 DEF coin_record
    <3>2. id \in DOMAIN coins
      BY <3>1, GetMissing
    <3>3. r = coins[id]
      BY <3>1, <3>2, GetLoaded
    <3>4. QED
      BY <3>2, <3>3 DEF Rows
  <2>2. ASSUME NEW id \in DOMAIN coins
        PROVE  id \in Coins /\ coins[id] \in coin_record(id).ok
    BY <1>1, GetLoaded DEF CoinsTyped, coin_record
  <2>3. LookedUp \subseteq Rows(coins)
    BY <2>1 DEF LookedUp
  <2>4. Rows(coins) \subseteq LookedUp
    BY <2>2 DEF LookedUp, Rows
  <2>5. QED
    BY <2>3, <2>4
<1>3. Scanned = Rows(coins)
  <2>1. \A h : coin_records_by_puzzle_hash(h, TRUE).ok
                = {row \in Rows(coins) : PuzzleHash[row[2].coin] = h}
    BY <1>1 DEF coin_records_by_puzzle_hash
  <2>2. \A row \in Rows(coins) : PuzzleHash[row[2].coin] \in Hashes
    BY DEF Rows, CoinsTyped, Hashes
  <2>3. ASSUME NEW h \in Hashes,
               NEW row \in coin_records_by_puzzle_hash(h, TRUE).ok
        PROVE  row \in Rows(coins)
    BY <2>1
  <2>4. ASSUME NEW row \in Rows(coins)
        PROVE  row \in Scanned
    <3>1. row \in coin_records_by_puzzle_hash(PuzzleHash[row[2].coin], TRUE).ok
      BY <2>1
    <3>2. QED
      BY <2>2, <3>1 DEF Scanned
  <2>5. QED
    BY <2>3, <2>4 DEF Scanned
<1>4. QED
  BY <1>2, <1>3

-----------------------------------------------------------------------------

(* A forced error reaches every read of every fixture.                       *)
THEOREM ForcedErrorCorrect == MockSpec => []ForcedErrorReachesEveryRead
<1>1. ForcedErrorReachesEveryRead
  <2> SUFFICES ASSUME forced_error # {}, NEW answer \in Reads
               PROVE  answer = [err |-> forced_error]
    BY DEF ForcedErrorReachesEveryRead
  <2>1. \A a : Guarded(a) = [err |-> forced_error]
    BY DEF Guarded
  <2>2. \A id : parent_spend(id) = [err |-> forced_error]
    BY <2>1 DEF parent_spend, coin_record
  <2>3. /\ \A id : /\ coin_record(id) = [err |-> forced_error]
                   /\ coin_records_by_parent(id) = [err |-> forced_error]
                   /\ coin_spend(id) = [err |-> forced_error]
                   /\ resolve_singleton_lineage(id) = [err |-> forced_error]
        /\ \A hash, s : coin_records_by_puzzle_hash(hash, s) = [err |-> forced_error]
    BY <2>1 DEF coin_record, coin_records_by_parent, coin_spend,
                resolve_singleton_lineage, coin_records_by_puzzle_hash
  <2>4. QED
    BY <2>1, <2>2, <2>3 DEF Reads
<1>2. QED
  BY <1>1, PTL

(* In every fixture, under whatever keys, the coin reads show the same       *)
(* records.                                                                  *)
THEOREM ReadsAgreeCorrect == MockSpec => []ReadsAgree
<1>1. CoinsTyped => ReadsAgree
  <2> SUFFICES ASSUME CoinsTyped, forced_error = {}
               PROVE  ReadsAgree
    BY DEF ReadsAgree
  <2>1. \A a : Guarded(a).ok = a
    BY DEF Guarded
  <2>2. LookedUp = Rows(coins)
    BY BothShowTheTable
  <2>3. ASSUME NEW h \in Hashes, NEW s \in BOOLEAN
        PROVE  coin_records_by_puzzle_hash(h, s).ok =
                 {row \in LookedUp : PuzzleHash[row[2].coin] = h /\ (row[2].spent => s)}
    BY <2>1, <2>2 DEF coin_records_by_puzzle_hash
  <2>4. ASSUME NEW p \in Coins
        PROVE  coin_records_by_parent(p).ok = {row \in LookedUp : Parent[row[2].coin] = p}
    BY <2>1, <2>2 DEF coin_records_by_parent
  <2>5. ASSUME NEW row \in LookedUp
        PROVE  parent_spend(row[1]) = coin_spend(Parent[row[2].coin])
    BY <2>2, ParentSpendOf DEF Rows
  <2>6. QED
    BY <2>3, <2>4, <2>5 DEF ReadsAgree
<1>2. QED
  BY <1>1, CoinsStayTyped, PTL

(* In every fixture the scans and the lookups by id show the same coins      *)
(* exactly if each record is loaded under its coin's own id.                 *)
THEOREM KeysCorrect == MockSpec => []ScansMatchLookupsIffWellKeyed
<1>1. CoinsTyped => ScansMatchLookupsIffWellKeyed
  <2> SUFFICES ASSUME CoinsTyped, forced_error = {}
               PROVE  ScansMatchLookupsIffWellKeyed
    BY DEF ScansMatchLookupsIffWellKeyed
  <2>1. Scanned = Rows(coins) /\ \A id : coin_record(id).ok = Get(coins, id)
    BY BothShowTheTable DEF coin_record, Guarded
  <2>2. ASSUME WellKeyed
        PROVE  /\ \A row \in Rows(coins) : Get(coins, row[2].coin) = {row[2]}
               /\ \A a, b \in Rows(coins) : a[2].coin = b[2].coin => a = b
    <3>1. \A row \in Rows(coins) :
            /\ row[2].coin \in DOMAIN coins
            /\ row = <<row[2].coin, coins[row[2].coin]>>
      BY <2>2 DEF WellKeyed, Rows
    <3>2. QED
      BY <3>1, GetLoaded
  <2>3. ASSUME \A row \in Rows(coins) : Get(coins, row[2].coin) = {row[2]},
               \A a, b \in Rows(coins) : a[2].coin = b[2].coin => a = b,
               NEW id \in DOMAIN coins
        PROVE  coins[id].coin = id
    <3> DEFINE own == coins[id].coin
    <3>1. <<id, coins[id]>> \in Rows(coins) /\ <<id, coins[id]>>[2] = coins[id]
      BY DEF Rows
    <3>2. Get(coins, own) = {coins[id]}
      BY <2>3, <3>1
    <3>3. own \in DOMAIN coins
      BY <3>2, GetMissing
    <3>4. coins[own] = coins[id]
      BY <3>2, <3>3, GetLoaded
    <3>5. <<own, coins[own]>> \in Rows(coins)
      BY <3>3 DEF Rows
    <3>6. <<id, coins[id]>> = <<own, coins[own]>>
      BY <2>3, <3>1, <3>4, <3>5
    <3>7. QED
      BY <3>6
  <2>4. QED
    BY <2>1, <2>2, <2>3 DEF ScansMatchLookupsIffWellKeyed, WellKeyed
<1>2. QED
  BY <1>1, CoinsStayTyped, PTL
=============================================================================
