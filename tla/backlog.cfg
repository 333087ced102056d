SPECIFICATION BacklogSpec
CONSTANTS
  Workers = {w1}
  Clients = {1, 2, 3}
  Main = main
  NoThread = noThread
  NotANumber = notANumber
  Commands <- LevelChanges
  Capacity = 1
  UIntModulus = 4
  ForkMayFail = FALSE
  AcceptMayFail = FALSE
INVARIANTS
  SizeTracksBuffer
  NeverAborts
  RunningJobsCounted
PROPERTIES
  BacklogDrains
  
CHECK_DEADLOCK FALSE
