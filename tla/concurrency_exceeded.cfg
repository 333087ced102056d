SPECIFICATION Spec
CONSTANTS
  Workers = {w1, w2}
  Clients = {c1, c2}
  Main = main
  NoThread = noThread
  NotANumber = notANumber
  Commands <- OnlyIssueJob
  Capacity = 2
  UIntModulus = 4
  ForkMayFail = FALSE
  AcceptMayFail = FALSE
INVARIANTS
  ConcurrencyRespected
SYMMETRY Symmetry
CHECK_DEADLOCK FALSE
