CONSTANTS
  NoId = NoId
  Addresses = {root, alice}
  Owner = root
  Permissions = {anyPermission}
  ScopesInUse = {"MemberState", "Ministry", "Institution"}
  Expiries = {0, 1}
  Predicted = {}
  MaxTime = 2
  MaxIssued = 3
  Holders = {alice}
  Documents = {diploma}
  MaxCredentials = 2
SPECIFICATION CredSpec
INVARIANTS
  VerdictsAgree
  CredentialsNameTheirAuthority
PROPERTIES
  LostAuthorityIsFinal
  ReportedStatusIsFinal
  ImplementsLifecycle
CHECK_DEADLOCK FALSE
