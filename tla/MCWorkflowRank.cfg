SPECIFICATION FairSpec
CONSTANTS
  Tasks <- MCTasks
  Ghost = 0
  Workflows <- MCWorkflows
  Speed = 2
  MaxStack = 8
INVARIANTS
  TypeOK
  CoAllocationsAreComponents
  RankIsLongestPath
  RankedBeforeSuccessors
  EveryGroupRanked
PROPERTIES
  RankTerminates
CHECK_DEADLOCK FALSE
