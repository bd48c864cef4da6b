SPECIFICATION FairSpec
CONSTANTS
  n1 = n1
  n2 = n2
  Names = {n1}
  Layout <- BelowItself
  InodeCount = 4
  DataStart = 2
  TotalBlocks = 5
  CellsPerBlock = 3
  CellsPerSector = 2
  MaxDepth = 2
  Lengths = {2}
  MaxFileCells = 4
  MaxFaults = 1
  MaxCrashes = 1
INVARIANTS RootIsDirectory ClustersOwnedOnce NoDanglingChain
PROPERTIES CommandsReturn
\* A shell may be left with no command it accepts: the disk full, or unmounted.
CHECK_DEADLOCK FALSE
