CONSTANTS
  Names = {"x", "y"}
  Functions <- MCFunctions
  Operands = {"x"}
  MaxStatements = 2
  MaxOpen = 1
  Builtins = {}
  FunctionNames = {"x"}
  Tokens = {}
  MaxTokens = 0
SPECIFICATION CompilerSpec
CONSTRAINT Small
INVARIANTS SetStores
\* The compiler stops at an error, and at the end of the module.
CHECK_DEADLOCK FALSE
