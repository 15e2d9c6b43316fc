CONSTANTS
  Requests = {p, q}
  OwnAddress = own
  InstitutionAddress = institution
  InstitutionId = institutionId
  None = None
  Wallets = {own, institution}
  Reviewers = {tab}
  MaxIssued = 1
  MaxFaults = 2
SPECIFICATION SetupSpec
INVARIANTS
  OnlyFinishedWalletsOpen
  EnterpriseIsAccredited
SYMMETRY Symmetry
CHECK_DEADLOCK FALSE
