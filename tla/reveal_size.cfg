\* Every program of at most four nodes; an atom is one byte's hash or three blocks',
\* so that sizes at the limit, one past it, and past what a usize holds all occur.
CONSTANTS
  MaxNodes = 4
  AtomLens = {0, 67}
  Limit = 199
  UsizeMax = 400
  Programs <- AllPrograms
SPECIFICATION Spec
INVARIANTS
  TypeOK
  RefusesExactlyTheTooLarge
  NeverPopsAnEmptyStack
  WorkIsLinear
CHECK_DEADLOCK FALSE
