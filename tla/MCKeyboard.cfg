SPECIFICATION FairSpec
CONSTANTS
  RingSize = 3
  LineSize = 2
  Codes = {"A", "E", "B", "C"}
  Keys = {"A", "E", "B", "C"}
  Plain <- MCPlain
  Upper <- MCUpper
INVARIANTS PopIsSafe
PROPERTIES IsQueue TypedIsRead
