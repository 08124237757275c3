\* The spends followed against the hop bound.
CONSTANTS
  Coins <- AllCoins
  NoCoin = "none"
  Parent <- AllParent
  Ancestry <- AllAncestry
  Launchers = {"launcher"}
  CurriedTo <- AllCurried
  Odd <- AllOdd
  MaxLineageDepth = 3
  HopRequests = {1, 2, 5}
  Budgets = {0}
  MaxRead = 0
  MaxEval = 0
  Garbled = {}
  Heavy = {}
  Costly = {}
  HopNodes <- AllNodes
  ArenaLimit = 4
  Faults = {}
  Churn = {}
SPECIFICATION Spec
PROPERTIES
  FollowsAtMostMaxHops
