SPECIFICATION FairSpec
CONSTANTS
  RingSize = 2
  LineSize = 2
  Codes = {"A", "E", "C"}
  Keys = {"A", "E", "C"}
  Plain <- MCPlain
  Upper <- MCUpper
PROPERTIES BlocksUntilChar
