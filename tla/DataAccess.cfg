SPECIFICATION FairSpec
CONSTANTS
  a1 = a1
  a2 = a2
  a3 = a3
  b1 = b1
  k1 = k1
  k2 = k2
  None = None
  Call <- MCCalls
  Key <- MCKeys
  Lane <- MCLanes
  LaneOf <- MCLaneOf
  MaxCalls = 2
INVARIANTS LedgerBalances SingleFlight
PROPERTIES NoFailureReplayed ImplementsMemo EveryCallAnswered
CHECK_DEADLOCK FALSE
