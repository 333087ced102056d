SPECIFICATION FairSpec
CONSTANTS
  Workers = {w1}
  Server = server
  Pids = {p1, p2, p3, p4}
  Jobs = {j1, j2, j3}
  NoExecutable = {j3}
  MaxFaults = 1
  Nobody = nobody
INVARIANTS
  TypeOK
  OutputIsWhole
  WaitHasChild
  FilesDeleted
  TempStaysRemoved
PROPERTIES
  WorkerComesBack
CHECK_DEADLOCK FALSE
