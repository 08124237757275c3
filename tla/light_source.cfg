\* A source whose records do not know spent heights and that does not know
\* every spend, over a chain that stands still during the walk.
CONSTANTS
  Coins <- AllCoins
  NoCoin = "none"
  Parent <- AllParent
  Ancestry <- AllAncestry
  Launchers = {"launcher"}
  CurriedTo <- AllCurried
  Odd <- AllOdd
  MaxLineageDepth = 3
  HopRequests = {1, 2, 5}
  Budgets = {0}
  MaxRead = 0
  MaxEval = 0
  Garbled = {}
  Heavy = {}
  Costly = {}
  HopNodes <- AllNodes
  ArenaLimit = 4
  Faults = {"lost_spend", "unknown_height"}
  Churn = {}
SPECIFICATION Spec
PROPERTIES
  TipIsUnspent
