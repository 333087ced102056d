SPECIFICATION FairSpec
CONSTANTS
  Workers = {w1}
  Clients = {c1}
  Main = main
  NoThread = noThread
  NotANumber = notANumber
  Commands <- OnlyExit
  Capacity = 1
  UIntModulus = 4
  ForkMayFail = FALSE
  AcceptMayFail = FALSE
PROPERTIES
  ExitTerminates
CHECK_DEADLOCK FALSE
