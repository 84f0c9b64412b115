CONSTANTS
  f1 = f1
  f2 = f2
  t1 = t1
  p1 = p1
  p2 = p2
  NoFile = NoFile
  NoTask = NoTask
  Files <- TwoFilesAndTap
  Foreign <- Tap
  Bound <- TwoFiles
  Unopened <- NoFiles
  Tasks <- TwoTasks
  MaxGets = 3
  MaxIoctls = 0
  MaxAllocs = 2
  MaxDtorDepth = 3
  AllocFails = TRUE
  KernOwned = TRUE
SPECIFICATION Spec
INVARIANT RefsAccounted
CHECK_DEADLOCK FALSE
