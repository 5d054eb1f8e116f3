SPECIFICATION FairSpec
CONSTANTS
  digits = 2
  PipeCap = 2
  MaxLines = 6
INVARIANTS NoDeadlock AnswersInOrder
PROPERTY JobsAnswered
CHECK_DEADLOCK FALSE
