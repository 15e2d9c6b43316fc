CONSTANTS
  root = root
  alice = alice
  anyPermission = anyPermission
  NoId = NoId
  Addresses = {root, alice}
  Owner = root
  Permissions = {anyPermission}
  ScopesInUse = {"MemberState", "Ministry", "Institution", "Department", "BusinessRegistry", "Enterprise"}
  Expiries = {0, 1}
  Predicted <- PredictedIds
  MaxTime = 2
  MaxIssued = 3
SPECIFICATION Spec
INVARIANTS
  LookupsMirrorRecords
  IssuersHoldTheParent
  TrustMatchesListing
  LookupAgreesExceptAtExpiry
PROPERTIES
  TrustNeverReturns
CHECK_DEADLOCK FALSE
