SPECIFICATION DocumentsFairSpec
CONSTANTS
  Credentials = {c1}
  Tasks = {1, 2}
  MaxFaults = 2
INVARIANTS
  WholeAfterARefresh
PROPERTIES
  RefreshesConverge
CHECK_DEADLOCK FALSE
