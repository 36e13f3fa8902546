SPECIFICATION Spec
CONSTANTS
  flowV = flowV flowW = flowW taskA = taskA taskB = taskB taskC = taskC taskD = taskD linkAB = linkAB
  aciP = aciP adcM = adcM adcN = adcN ghost = ghost
  Acis = {aciP}
  Adcs = {adcM, adcN}
  Absent = {ghost}
  Master = adcM
  Workflows <- MCWorkflows
  Tasks = {taskA, taskB, taskC, taskD}
  Links = {linkAB}
  Of <- MCOf
  Data <- MCData
  Streams = {}
  Hierarchies <- MCHierarchies
  Requests <- MCRequests
  CommitAnswers = {"Committed", "Finished"}
  Failures = {"Deleted", "Rejected"}
INVARIANTS
  TypeOK
  HierarchyIsSound
  FinishedMeansRun
  WaitingIsPolled
PROPERTIES
  AllFinish
  FailureReported
CHECK_DEADLOCK FALSE
