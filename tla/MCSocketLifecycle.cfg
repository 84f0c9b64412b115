CONSTANTS
  f1 = f1
  f2 = f2
  t1 = t1
  p1 = p1
  p2 = p2
  NoFile = NoFile
  NoTask = NoTask
  Files <- FileAndTap
  Unopened <- OneFile
  Foreign <- Tap
  Bound <- NoFiles
  Tasks <- TwoTasks
  MaxGets = 4
  MaxIoctls = 3
  MaxAllocs = 2
  MaxDtorDepth = 3
  AllocFails = TRUE
  KernOwned = TRUE
SPECIFICATION Spec
INVARIANT TypeOK
INVARIANT LiveSocketIsPrivate
INVARIANT DestructorChain
INVARIANT HandedSocketAlive
CHECK_DEADLOCK FALSE
