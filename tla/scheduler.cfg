SPECIFICATION Spec
CONSTANTS
  MAX_TASKS = 4
  Offered <- Timings
  Nicenesses = {1, 2}
  IDLE_NICENESS = 1
  MissBound = 1
  PRIORITY_MAX = 7
INVARIANTS DeadlinesMet BoundedBypass
PROPERTIES ForkInherits
