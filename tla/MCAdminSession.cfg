SPECIFICATION SessionSpec
CONSTANTS
  state1 = state1
  ministry1 = ministry1
  Accounts = {state1, ministry1}
  NoOne = NoOne
  Scope <- MCScope
  Fetches <- MCFetches
  Conns = {k1, k2}
  Inits = {i1, i2}
  NoConn = NoConn
  MaxCalls = 1
SYMMETRY SessionSymmetry
INVARIANTS
  SignerIsTheSessions
  ContextIsTheSessions
CHECK_DEADLOCK FALSE
