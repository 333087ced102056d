SPECIFICATION FairSpec
CONSTANTS
  Workers = {w1}
  Clients = {c1, c2}
  Main = main
  NoThread = noThread
  NotANumber = notANumber
  Commands <- Polling
  Capacity = 2
  UIntModulus = 4
  ForkMayFail = FALSE
  AcceptMayFail = FALSE
PROPERTIES
  ClientsServed
CHECK_DEADLOCK FALSE
