SPECIFICATION Spec
CONSTANTS
  Blocks = {0, 1}
  SECTORS_PER_BLOCK = 2
  Data = {"x", "y"}
  Blank = "x"
INVARIANTS PrefixWritten AcknowledgedIsDurable ReadsWhatWasWritten
