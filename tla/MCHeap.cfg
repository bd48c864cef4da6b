SPECIFICATION Spec
CONSTANTS
  HeapSize = 22
  Header = 2
  Align = 2
  MinSplit = 1
  Word = 64
  Requests = {0, 1, 3, 6}
INVARIANTS BlocksTile LiveBlocksHold Coalesced FailsOnlyWhenFull
PROPERTIES IsAllocator
