\* Lists that hold a melt marker and an unreadable CREATE_COIN.
CONSTANTS
  Hashes = {h1, h2}
  NoHash = nil
  Amounts <- MCAmounts
  I64Max = 199
  U64Max = 401
  MaxLength = 2
  Inputs <- ListsUpToMaxLength
SPECIFICATION Spec
INVARIANTS
  UnreadableIsRefused
CHECK_DEADLOCK FALSE
