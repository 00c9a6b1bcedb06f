SPECIFICATION PairSpec
CONSTANTS
  a1 = a1
  a2 = a2
  b = b
  here = here
  there = there
  Cores <- AllCores
  Tasks <- AllTasks
  Home <- HomeOf
  NoTask = NoTask
  NoPacket = NoPacket
  HF_PACKET_SLOTS = 4
  PAYLOAD_BYTES = 2
  Bodies = {x}
  Sizes = {1, 3, 5}
  DEBUG = TRUE
  Routes <- ToOne
INVARIANTS Reconstructed
PROPERTIES ImplementsChannel ReceiveReturns
CHECK_DEADLOCK FALSE
VIEW LiveState
