SPECIFICATION ExchangeSpec
CONSTANTS
  Approvals = {a1, a2}
  MaxAlerts = 2
SYMMETRY ApprovalSymmetry
INVARIANTS
  ReviewShowsTheLink
  OneAnswerAtATime
  ScannerAwaitsOrAsks
CHECK_DEADLOCK FALSE
