SPECIFICATION PresFairSpec
CONSTANTS
  Approvals <- MCApprovals
  Requests <- MCRequests
  Requirements <- MCRequirements
  HasCallback <- MCHasCallback
  Calls <- MCCalls
INVARIANTS
  EveryPromiseIsServed
  SubmittedIsProved
  LostOnlyToOverlap
PROPERTIES
  ImplementsRequestReply
  ApprovalsEnd
CHECK_DEADLOCK FALSE
