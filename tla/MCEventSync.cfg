CONSTANTS
  Credentials = {diploma}
  MaxEvents = 2
  MaxBlocks = 3
  MaxFaults = 2
SPECIFICATION FairSpec
INVARIANTS
  EveryEventAccountedFor
  RowsFollowTheChain
PROPERTIES
  NeverActiveAgain
  EventsReachTheIndex
CHECK_DEADLOCK FALSE
