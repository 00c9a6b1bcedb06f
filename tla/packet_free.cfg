SPECIFICATION Spec
CONSTANTS
  a1 = a1
  a2 = a2
  b = b
  here = here
  there = there
  Cores <- AllCores
  Tasks <- AllTasks
  Home <- HomeOf
  NoTask = NoTask
  NoPacket = NoPacket
  HF_PACKET_SLOTS = 2
  PAYLOAD_BYTES = 2
  Bodies = {x}
  Sizes = {3}
  DEBUG = TRUE
  Routes <- Shared
INVARIANTS RingSpan InterfaceFree
PROPERTIES SendsFinish
CHECK_DEADLOCK FALSE
VIEW LiveState
