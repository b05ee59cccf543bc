SPECIFICATION FairSpec
CONSTANTS
  p1 = p1
  p2 = p2
  none = none
  Packet <- MCPackets
  Unknown = none
  MaxDataCalls = 1
  SchemaBudget = 0
  MaxOutputRetries = 1
  MaxRepairs = 0
  MaxCallsPerTurn = 2
INVARIANTS EveryPacketAnswered
PROPERTIES AcceptedIsKept ConversationEnds
CHECK_DEADLOCK FALSE
