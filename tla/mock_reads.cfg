\* Every fixture of a coin and its child, loaded in any order.
CONSTANTS
  Coins = {"parent", "child"}
  NoCoin = "none"
  Parent <- MCParent
  PuzzleHash <- MCPuzzleHash
  Heights = {7}
  SourceErrors = {"Timeout", "Transport"}
SPECIFICATION MockSpec
INVARIANTS
  ForcedErrorReachesEveryRead
  ReadsAgree
  ScansMatchLookupsIffWellKeyed
