\* An honest source that may fail to answer, and blocks between any two
\* reads.  One eve's spend is too rich for the walk, another's layer is torn.
CONSTANTS
  Coins <- EveryCoin
  NoCoin = "none"
  Parent <- EveryParent
  Ancestry <- EveryAncestry
  Launchers = {"launcher"}
  CurriedTo <- EveryCurried
  Odd <- EveryOdd
  MaxLineageDepth = 3
  HopRequests = {1, 5}
  Budgets = {1}
  MaxRead = 1
  MaxEval = 1
  Garbled = {"torn"}
  Heavy = {"fork"}
  Costly = {"rich"}
  HopNodes <- EveryNodes
  ArenaLimit = 4
  Faults = {"err"}
  Churn = {"block"}
  SourceErrors = {"Transport", "Malformed"}
SPECIFICATION RepeatSpec
INVARIANTS
  TypeOK
  HonestNeverBlamed
  OnlyTheEveIsRejected
  TooDeepIsBeyondTheBound
  BudgetPlusOneHop
  ErrorsSayWhatHappened
PROPERTIES
  TipIsUnspent
  LaterAnswersAgree
