SPECIFICATION FairSpec
CONSTANTS
  MaxOutputRetries = 1
  PreflightBudget = 2
  Packet <- MCPackets
  Heuristics <- MCPlan
  Bucket <- MCBuckets
  MaxConcurrency = 2
  Label <- MCLabel
INVARIANTS
  FailsOnlyForCause
  PairCallSettledOrCut
  PermitsConserved
  EveryPacketReported
PROPERTIES
  InvestigationEnds
CHECK_DEADLOCK FALSE
