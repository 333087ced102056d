SPECIFICATION Spec
CONSTANTS
  Workers = {w1, w2}
  Server = server
  Pids = {p1, p2}
  Jobs = {j1, j2}
  NoExecutable = {}
  MaxFaults = 0
  Nobody = nobody
INVARIANTS
  OutputIsWhole
SYMMETRY Symmetry
CHECK_DEADLOCK FALSE
