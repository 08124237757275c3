\* A source that answers any read of either walk with anything, over a chain
\* that moves between any two reads.
CONSTANTS
  Coins <- ShortCoins
  NoCoin = "none"
  Parent <- ShortParent
  Ancestry <- ShortAncestry
  Launchers = {"launcher", "plain"}
  CurriedTo <- ShortCurried
  Odd <- ShortOdd
  MaxLineageDepth = 4
  HopRequests = {5}
  Budgets = {0}
  MaxRead = 0
  MaxEval = 0
  Garbled = {"plain"}
  Heavy = {"fork"}
  Costly = {"fork"}
  HopNodes <- ShortNodes
  ArenaLimit = 4
  Faults = {"err", "lost_spend", "unknown_height", "forged_spend", "forged_record"}
  Churn = {"block", "reorg"}
  MaxHops = 2
SPECIFICATION AuthoritySpec
INVARIANTS
  MembersAreRecreations
  AuthorityIsGenuine
PROPERTIES
  EveryStepNearsTheAnswer
  EveryClimbNearsTheVerdict
  EveryCallIsAnswered
  EveryClaimIsDecided
CHECK_DEADLOCK FALSE
