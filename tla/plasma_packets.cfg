SPECIFICATION Spec
CONSTANTS
  HALF = 2
  Tasks = {1, 2}
  Programs <- AllPrograms
  Entry <- Start
  Registers <- RegistersOfTask
  Cells = {0}
  Junk = 9
  OS_PACKET_SIZE = 2
  KeepWindow = TRUE
  MaxFrames = 2
INVARIANTS ReadAtOnce
VIEW LiveState
