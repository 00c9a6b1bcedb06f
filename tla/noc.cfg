SPECIFICATION FairSpec
CONSTANTS
  NOC_WIDTH = 2
  NOC_HEIGHT = 2
  NOC_BUFFER_SIZE = 2
  NI_BUFFER_LENGTH = 4
  ROUTING_ALGORITHM_DELAY = 1
  CPU_NETWORK_CLK_RATIO = 2
  READ_GAP = 2
  Builds = {"BUS", "MESH"}
  Traffic <- Crossing
  NoFlit = NoFlit
INVARIANTS PacketsIntact WriterHasRoom
PROPERTIES ImplementsNetwork Arrives
