SPECIFICATION FairSpec
CONSTANTS
  ClientModes = {"issueJob", "setConcurrency", "poll", "stop", "exit", "invalid"}
  BodyUnits = 2
  MaxJobs = 2
  MaxNotices = 1
  MaySplit = TRUE
  MayLeave = TRUE
  MayEnd = TRUE
INVARIANTS
  TypeOK
  FramesKept
  PrintedIsSent
  BrokenPipeHasCause
PROPERTIES
  AnsweredClientEnds
  OrphanEnds
CHECK_DEADLOCK FALSE
