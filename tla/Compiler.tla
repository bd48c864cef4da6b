------------------------------ MODULE Compiler ------------------------------
(***************************************************************************)
(* The compiler: the statements of Emitter, and SAY(<expression>) with any *)
(* expression of Expressions.                                              *)
(***************************************************************************)
EXTENDS EmitterProps, Expressions

CONSTANTS
  Tokens,     \* the tokens expressions are made of
  MaxTokens   \* bound: the longest expression

VARIABLE
  tokens      \* the text of the SAY statement; empty in the other chunks

compilerVars == <<vars, tokens>>

\* parse_expr of a whole text: what is left over is no `)`.
Parsed(ts) == LET r == parse_expr(ts, 1) IN IF r.ok /\ r.at <= Len(ts) THEN Die(r.at) ELSE r

\* The text of an expression is written down as long as the parser has
\* found nothing wrong with it; nothing else is in its chunk.
Write ==
  /\ chunk = 1 /\ source = << >> /\ open = << >> /\ status = "emitting" /\ Len(tokens) < MaxTokens
  /\ tokens = << >> \/ Parsed(tokens).ok \/ Parsed(tokens).at > Len(tokens)
  /\ \E t \in Tokens : tokens' = Append(tokens, t)
  /\ UNCHANGED vars

SayExpression ==
  /\ tokens # << >> /\ source = << >> /\ InList /\ Parsed(tokens).ok
  /\ Note("SAY_EXPR") /\ UNCHANGED <<chunk, open, tokens>>
  /\ LET e == Parsed(tokens).tree IN
     IF Resolves(map, e) THEN Emit(emit_tree(map, e) \o SayAndPop) ELSE Fail("NameError")

CompilerInit == Init /\ tokens = << >>
CompilerNext ==
  \/ Write \/ SayExpression
  \/ tokens = << >> /\ Next /\ UNCHANGED tokens
  \/ tokens # << >> /\ source # << >> /\ EndChunk /\ UNCHANGED tokens
CompilerSpec == CompilerInit /\ [][CompilerNext]_compilerVars

\* The parser accepts the expressions of the grammar and no others, and the
\* code it leads to computes the tree the grammar gives them: precedence, associativity,
\* brackets and the order of operands (parser.c:214-273, emit.c:247-345).
CodeMeansExpression ==
  tokens # << >> =>
    LET r == Parsed(tokens)  trees == Trees(tokens, 1, Len(tokens)) IN
    /\ r.ok <=> trees # {}
    /\ status = "emitted" =>
         {ReadBack(SubSeq(code, 1, Here - 5), << >>)} = {<<InCode(e)>> : e \in trees}
=============================================================================
