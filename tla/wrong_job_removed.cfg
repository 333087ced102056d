SPECIFICATION Spec
CONSTANTS
  Workers = {w1}
  Clients = {c1, c2, c3}
  Main = main
  NoThread = noThread
  NotANumber = notANumber
  Commands <- Removal
  Capacity = 2
  UIntModulus = 4
  ForkMayFail = FALSE
  AcceptMayFail = FALSE
INVARIANTS
  RemovedIsGone
SYMMETRY Symmetry
CHECK_DEADLOCK FALSE
