SPECIFICATION Spec
CONSTANTS
  n1 = n1
  n2 = n2
  Names = {n1, n2}
  Layout <- NoLayout
  InodeCount = 3
  DataStart = 2
  TotalBlocks = 5
  CellsPerBlock = 4
  CellsPerSector = 2
  MaxDepth = 2
  Lengths = {5}
  MaxFileCells = 5
  MaxFaults = 1
  MaxCrashes = 1
SYMMETRY Swap
CONSTRAINT OneMishap
INVARIANTS OneEntryPerInode EntriesAgree DotDotAgrees OwnContents
PROPERTIES NameSpaceIsTree
\* A shell may be left with no command it accepts: the disk full, or unmounted.
CHECK_DEADLOCK FALSE
