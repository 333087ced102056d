SPECIFICATION Spec
CONSTANTS
  Workers = {w1, w2}
  Clients = {c1, c2}
  Main = main
  NoThread = noThread
  NotANumber = notANumber
  Commands <- AllCommands
  Capacity = 1
  UIntModulus = 4
  ForkMayFail = TRUE
  AcceptMayFail = TRUE
INVARIANTS
  TypeOK
  SocketHandoff
  MutualExclusion
  
  

  
SYMMETRY Symmetry
CHECK_DEADLOCK FALSE
