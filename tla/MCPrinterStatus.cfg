SPECIFICATION FairSpec
CONSTANTS
  Answers <- AllAnswers
  Memories <- OldAnswers
INVARIANTS
  Verdict
PROPERTIES
  StatusReturns
CHECK_DEADLOCK FALSE
