SPECIFICATION FailingSpec
CONSTANTS
  Slaves = {6}
  Cores <- AllCores
  Tasks <- AppTasks
  Home <- AppHome
  Routes <- AppRoutes
  Bodies <- AppBodies
  Sizes <- AllSizes
  NoTask = NoTask
  NoPacket = NoPacket
  Empty = Empty
  HF_PACKET_SLOTS = 32
  PAYLOAD_BYTES = 112
  TASK_DESCRIPTION_SIZE = 21
  DEBUG = TRUE
INVARIANTS ImageComplete
PROPERTIES UsesDriverAsPair Answered
CHECK_DEADLOCK FALSE
VIEW LiveState
