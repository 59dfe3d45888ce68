SPECIFICATION FairSpec
CONSTANTS
  None = None
  Proxies = {p1, p2}
  KeepAlives <- MCKeepAlives
  Threshold = 2
  StuckAt = 2
  ProbeSlow = 3
  Cap = 4
INVARIANTS LinkClearsTheSlate RepairMatchesOutage
PROPERTIES NoAttemptInsideWait AccusedForAReason Recovers PermanentLinkReturns
CHECK_DEADLOCK FALSE
