\* A reorganisation between the two reads of parent_spend.
CONSTANTS
  Coins <- AllCoins
  NoCoin = "none"
  Parent <- AllParent
  Ancestry <- AllAncestry
  Launchers = {"launcher", "plain"}
  CurriedTo <- AllCurried
  Odd <- AllOdd
  Heavy = {}
  Costly = {}
  MaxHops = 3
  Faults = {}
  Churn = {"block", "reorg"}
SPECIFICATION ParentSpec
PROPERTIES
  ReadsTheCreatingSpend
