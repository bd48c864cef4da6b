SPECIFICATION Spec
CONSTANTS
  Names = {"u", "v"}
  HOME_PATH <- Home
  BootItems <- Items
  InodeCount = 5
  DirRoom = 2
  MaxSegs = 3
  MaxInput = 2
  MaxBoots = 2
INVARIANTS CwdAgrees LexicalIsPhysical
CHECK_DEADLOCK FALSE
