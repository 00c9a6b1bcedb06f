SPECIFICATION AppSpec
CONSTANTS
  MAX_TASKS = 4
  N = 2
  Producers = 2
  Consumers = 1
  empty = empty
  full = full
  m = m
  Sems = {empty, full, m}
  NoSem = NoSem
  InitialValues = {0, 1, 2}
  Kinds = {FALSE}
  CountBound = 5
VIEW LiveState
INVARIANTS WaitersQueued AsleepInside RingSafe
PROPERTIES ImplementsSemaphore NobodyStarves
