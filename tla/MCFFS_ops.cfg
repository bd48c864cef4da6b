SPECIFICATION Spec
CONSTANTS
  n1 = n1
  n2 = n2
  Names = {n1, n2}
  Layout <- NoLayout
  InodeCount = 3
  DataStart = 2
  TotalBlocks = 6
  CellsPerBlock = 4
  CellsPerSector = 2
  MaxDepth = 2
  Lengths = {3}
  MaxFileCells = 6
  MaxFaults = 0
  MaxCrashes = 0
SYMMETRY Swap
INVARIANTS TypeOK NamesUnique NothingLeaks
PROPERTIES OthersUntouched OnlyRemovalDrops
\* A shell may be left with no command it accepts: the disk full, or unmounted.
CHECK_DEADLOCK FALSE
