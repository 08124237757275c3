\* Every list of at most three conditions.
CONSTANTS
  Hashes = {h1, h2}
  NoHash = nil
  Amounts <- MCAmounts
  I64Max = 199
  U64Max = 401
  MaxLength = 3
  Inputs <- ListsUpToMaxLength
SPECIFICATION Spec
INVARIANTS
  TypeOK
  AgreesWithTheChain
  NoPhantomSuccessor
  NoPhantomMelt
  RefusesExactlyTheTooRich
CHECK_DEADLOCK FALSE
