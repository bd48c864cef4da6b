CONSTANTS
  Names = {"x", "y"}
  Functions <- MCFunctions
  Operands = {"x"}
  MaxStatements = 6
  MaxOpen = 2
  Builtins = {}
  FunctionNames = {"x"}
  Tokens = {"x", "1", "+", "*", "<", "NOT", "(", ")", "[", "]", ","}
  MaxTokens = 7
SPECIFICATION CompilerSpec
CONSTRAINT Small
INVARIANTS TypeOK NamesAreScoped StatementsBalance StoredBeforeRead FlowIsSource CodeMeansExpression
\* The compiler stops at an error, and at the end of the module.
CHECK_DEADLOCK FALSE
