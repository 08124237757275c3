\* A source that may fail to answer or not know a spend; blocks and
\* reorganisations between any two reads.
CONSTANTS
  Coins <- AllCoins
  NoCoin = "none"
  Parent <- AllParent
  Ancestry <- AllAncestry
  Launchers = {"launcher"}
  CurriedTo <- AllCurried
  Odd <- AllOdd
  MaxLineageDepth = 4
  HopRequests = {3}
  Budgets = {0}
  MaxRead = 0
  MaxEval = 0
  Garbled = {}
  Heavy = {}
  Costly = {}
  HopNodes <- AllNodes
  ArenaLimit = 4
  Faults = {"err", "lost_spend"}
  Churn = {"block", "reorg"}
  SourceErrors = {"Transport"}
SPECIFICATION RepeatSpec
PROPERTIES
  AnswersWereTrue
  LaterAnswersAgree
  OnlyLossesAreBlamed
