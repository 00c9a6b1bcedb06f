SPECIFICATION BothSpec
CONSTANTS
  MAX_TASKS = 3
  Sems = {s1}
  NoSem = NoSem
  InitialValues = {1}
  CountBound = 3
  Kinds = {TRUE, FALSE}
  Apps = {"exercise1", "noc_test", "noc_test2", "noc_test3", "noc_test4"}
  N_CORES = 3
  RECEIVERS = 1
  Sizes = 8
  Rounds = 2
  HF_PACKET_SLOTS = 3
  PAYLOAD_BYTES = 320
  Slow <- SlowTasks
  MaxDelays = 1
INVARIANTS OnlyCurrentRuns TableAgrees QueueSpan MixingIsReported SentWhereMeant
VIEW LiveState
CHECK_DEADLOCK FALSE
