SPECIFICATION Spec
CONSTANTS
  Workers = {w1, w2}
  Clients = {c1, c2}
  Main = main
  NoThread = noThread
  NotANumber = notANumber
  Commands <- QueueDiscipline
  Capacity = 2
  UIntModulus = 4
  ForkMayFail = TRUE
  AcceptMayFail = FALSE
INVARIANTS
  BufferRaceFree
  SizeTracksBuffer

  
SYMMETRY Symmetry
CHECK_DEADLOCK FALSE
