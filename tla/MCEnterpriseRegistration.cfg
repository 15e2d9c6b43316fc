CONSTANTS
  Requests = {p, q}
  Wallets = {acme, globex}
  Reviewers = {tab1, tab2}
  MaxIssued = 3
  MaxFaults = 2
SPECIFICATION Spec
INVARIANTS
  RowsCohere
  ApprovedNamesIssued
  OneRequestEach
PROPERTY SettledStaysSettled
SYMMETRY Symmetry
CHECK_DEADLOCK FALSE
