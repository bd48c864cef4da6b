\* A run ends when the module returns or on an error.
CHECK_DEADLOCK FALSE
SPECIFICATION Spec
CONSTANTS
  Objects = {o1, o2}
  Chunks <- MCChunks
  Main = "main"
  Locals <- MCLocals
  Fixed <- MCFixed
  Varargs <- MCVarargs
  Rest <- MCRest
  Return <- MCReturn
  Consts = {"int"}
  MaxItems = 2
  MaxStack = 3
  MaxFrames = 2
SYMMETRY Symmetry
INVARIANTS TypeOK ReachableIsAllocated TypedLocals
PROPERTIES CollectsAllGarbage
