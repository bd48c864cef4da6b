CONSTANTS
  VGA_WIDTH = 3
  VGA_HEIGHT = 2
  Printable = {"a", "b"}
  Prompts <- MCPrompts
  Outputs <- MCOutputs
  LineSize = 6
  MaxScrolled = 3
SPECIFICATION Spec
INVARIANTS TypeOK LineIsShown
PROPERTIES IsTranscript
\* Writing stops at the bound on the rows scrolled off.
CHECK_DEADLOCK FALSE
