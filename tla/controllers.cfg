SPECIFICATION ControllersSpec
CONSTANTS
  Workers = {}
  Clients = {1, 2, 3}
  Main = main
  NoThread = noThread
  NotANumber = notANumber
  Commands <- AllCommands
  Capacity = 1
  UIntModulus = 4
  ForkMayFail = FALSE
  AcceptMayFail = FALSE
INVARIANTS
  CanceledIsFinal
  ReleaseNotLost
PROPERTIES
  NoneAcceptedAfterStop
  HandshakeCompletes
  
CHECK_DEADLOCK FALSE
