SPECIFICATION Spec
CONSTANTS
  Outputs <- MCOutputs
  PipeSize = 2
  Limit = 8
  MaxCmds = 3
INVARIANTS
  SuccessMeansExecuted
  ErrorMeansFailure
  DescriptorsLast
PROPERTY EveryCommandEnds
CHECK_DEADLOCK FALSE
