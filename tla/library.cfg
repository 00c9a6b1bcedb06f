SPECIFICATION LibrarySpec
CONSTANTS
  MAX_TASKS = 3
  Users = {1, 2}
  LENGTH = 7
  Requests <- Asked
  MaxBlocks = 2
  BITS = 4
  Singles <- Words4
  Doubles <- Words8
INVARIANTS Exclusion ChunksTile ArithmeticExact
PROPERTIES ImplementsAllocator EntersUnlessHung
