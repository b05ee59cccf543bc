SPECIFICATION PeopleSpec
CONSTANTS
  People = 7
  LastNames <- MCLastNames
  JointRows <- MCJointRows
  MaxPairs = 10
  Answers <- MCAnswers
INVARIANTS EveryoneOnce OnlyJudgedMerges OneLinkPerJointRow AgreedLinesMerge
CHECK_DEADLOCK FALSE
