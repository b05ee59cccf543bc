SPECIFICATION PeopleSpec
CONSTANTS
  People = 7
  LastNames <- MCLastNames
  JointRows <- MCJointRows
  MaxPairs = 10
  Answers <- MCAnswers
INVARIANTS RowLinkedTwiceMergesNobody
CHECK_DEADLOCK FALSE
