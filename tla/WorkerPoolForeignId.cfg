SPECIFICATION Spec
CONSTANTS
  Packet <- MCPackets
  Heuristics <- MCPlan
  Bucket <- MCSolo
  MaxConcurrency = 2
  Label <- AnyLabel
INVARIANTS HidAlwaysPresent
CHECK_DEADLOCK FALSE
