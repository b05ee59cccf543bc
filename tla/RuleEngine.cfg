SPECIFICATION Spec
CONSTANTS
  Person <- MCPerson
  Id <- MCId
  Elsewhere <- MCElsewhere
  Indexes <- MCIndexes
  Queries <- MCQueries
CHECK_DEADLOCK FALSE
INVARIANTS
  NonownersAreAtSubject
  GatesHideNoRisk
  CountsSkipNoPacket
  OwnerOccupiedScoresNothing
  AbsenteeRentalReviewed
PROPERTIES
  RisksAccumulate
  OnlyFullListsLoseWeight
  OutsidersLowerBandOnlyBy
