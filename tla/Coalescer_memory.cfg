SPECIFICATION Spec
CONSTANTS
  MaxSeq = 4
  MaxRounds = 4
  SummarizeThreshold = 2
  KeepRounds = 1
  MaxAgentFaults = 0
INVARIANT NothingForgotten
CHECK_DEADLOCK FALSE
