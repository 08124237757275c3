\* A source that serves every record and spend or fails; blocks and
\* reorganisations during and between the walks.
CONSTANTS
  Coins <- AllCoins
  NoCoin = "none"
  Parent <- AllParent
  Ancestry <- AllAncestry
  Launchers = {"launcher", "plain"}
  CurriedTo <- AllCurried
  Odd <- AllOdd
  MaxLineageDepth = 4
  HopRequests = {1, 5}
  Budgets = {0}
  MaxRead = 0
  MaxEval = 0
  Garbled = {}
  Heavy = {}
  Costly = {}
  HopNodes <- AllNodes
  ArenaLimit = 4
  Faults = {"err", "unknown_height"}
  Churn = {"block", "reorg"}
  MaxHops = 3
SPECIFICATION AuthoritySpec
INVARIANTS
  ParentTypeOK
  LauncherIsTheNearest
  TooDeepIsTooFar
  DenialWasTrue
PROPERTIES
  GapIsReal
CHECK_DEADLOCK FALSE
