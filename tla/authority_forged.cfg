\* A source whose records are the chain's but that forges, withholds or fails the
\* spends it is asked for; blocks and reorganisations at any read of either walk.
CONSTANTS
  Coins <- ShortCoins
  NoCoin = "none"
  Parent <- ShortParent
  Ancestry <- ShortAncestry
  Launchers = {"launcher", "plain"}
  CurriedTo <- ShortCurried
  Odd <- ShortOdd
  MaxLineageDepth = 4
  HopRequests = {5}
  Budgets = {0}
  MaxRead = 0
  MaxEval = 0
  Garbled = {"plain"}
  Heavy = {"fork"}
  Costly = {"fork"}
  HopNodes <- ShortNodes
  ArenaLimit = 4
  Faults = {"err", "lost_spend", "forged_spend"}
  Churn = {"block", "reorg"}
  MaxHops = 2
SPECIFICATION AuthoritySpec
INVARIANTS
  AuthorizationWasTrue
PROPERTIES
  AnswersWereTrue
CHECK_DEADLOCK FALSE
