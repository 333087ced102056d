SPECIFICATION FairSpec
CONSTANTS
  Workers = {w1}
  Clients = {c1}
  Main = main
  NoThread = noThread
  NotANumber = notANumber
  Commands <- OnlyIssueJob
  Capacity = 1
  UIntModulus = 4
  ForkMayFail = FALSE
  AcceptMayFail = FALSE
PROPERTIES
  SubmittedIsExecuted
CHECK_DEADLOCK FALSE
