----------------------------- MODULE Expressions -----------------------------
(***************************************************************************)
(* Expressions: the precedence-climbing parser of                          *)
(* src/clamlang/compiler/parser.c and emit_expr of emit.c, on programs as  *)
(* sequences of tokens, and the grammar the two are measured by.           *)
(***************************************************************************)
EXTENDS Emitter

CONSTANTS
  Builtins,       \* the names is_builtin_name knows
  FunctionNames   \* the names find_func knows; their numbers do not matter

Idents == Names \cup Builtins \cup FunctionNames
Binary == {"*", "+", "<", "==", "AND", "OR"}    \* one operator of each precedence

\* A node of the tree: a leaf (a literal or a variable) has no arguments.
Node(kind, name, args) == [kind |-> kind, name |-> name, args |-> args]
Leaf(tok) == Node("leaf", tok, << >>)

-----------------------------------------------------------------------------
(* The parser: what a function returns, and the token after it *)

Ok(p, tree) == [ok |-> TRUE, at |-> p, tree |-> tree]
Die(p) == [ok |-> FALSE, at |-> p, tree |-> Leaf("")]
Token(ts, p) == IF p <= Len(ts) THEN ts[p] ELSE "EOF"

\* After a part that parsed, go on; consume wants a token and passes it.
Then(r, Rest(_)) == IF r.ok THEN Rest(r) ELSE r
Consume(ts, r, tok) == IF ~r.ok \/ Token(ts, r.at) = tok THEN [r EXCEPT !.at = @ + 1] ELSE Die(r.at)

precedence(tok) ==
  CASE tok = "*" -> 40 [] tok = "+" -> 30 [] tok = "<" -> 20
    [] tok = "==" -> 15 [] tok = "AND" -> 10 [] tok = "OR" -> 5 [] OTHER -> 0

RECURSIVE parse_expr(_, _), parse_bin_rhs(_, _, _, _), parse_unary(_, _),
          parse_postfix(_, _, _), parse_items(_, _, _, _)

\* The items of a list or the arguments of a call, a comma after the last
\* one allowed.
parse_items(ts, p, close, items) ==
  IF Token(ts, p) = close /\ (items = << >> \/ Token(ts, p - 1) = ",")
  THEN Ok(p + 1, Node("items", "", items))
  ELSE Then(parse_expr(ts, p), LAMBDA r :
    LET now == Append(items, r.tree) IN
    IF Token(ts, r.at) = "," THEN parse_items(ts, r.at + 1, close, now)
    ELSE Consume(ts, Ok(r.at, Node("items", "", now)), close))

parse_primary(ts, p) ==
  CASE Token(ts, p) \in Idents /\ Token(ts, p + 1) = "(" ->
         Then(parse_items(ts, p + 2, ")", << >>), LAMBDA r : Ok(r.at, Node("call", ts[p], r.tree.args)))
    [] Token(ts, p) = Literal \/ (Token(ts, p) \in Idents /\ Token(ts, p + 1) # "(") ->
         Ok(p + 1, Leaf(ts[p]))
    [] Token(ts, p) = "[" ->
         Then(parse_items(ts, p + 1, "]", << >>), LAMBDA r : Ok(r.at, Node("list", "", r.tree.args)))
    [] Token(ts, p) = "(" -> Consume(ts, parse_expr(ts, p + 1), ")")
    [] OTHER -> Die(p)

\* Any number of indexes after a primary.
parse_postfix(ts, p, e) ==
  IF Token(ts, p) # "[" THEN Ok(p, e)
  ELSE Then(Consume(ts, parse_expr(ts, p + 1), "]"),
            LAMBDA r : parse_postfix(ts, r.at, Node("index", "", <<e, r.tree>>)))

parse_unary(ts, p) ==
  IF Token(ts, p) = "NOT"
  THEN Then(parse_unary(ts, p + 1), LAMBDA r : Ok(r.at, Node("not", "", <<r.tree>>)))
  ELSE Then(parse_primary(ts, p), LAMBDA r : parse_postfix(ts, r.at, r.tree))

\* Slip: the right-hand side is one operand, whatever comes after it.
NeverTighter(next, prec) == FALSE

Tighter(next, prec) == precedence(next) > prec

parse_bin_rhs(ts, p, min_prec, lhs) ==
  LET op == Token(ts, p)  prec == precedence(op) IN
  IF prec < min_prec THEN Ok(p, lhs)
  ELSE Then(parse_unary(ts, p + 1), LAMBDA r :
         Then(IF Tighter(Token(ts, r.at), prec) THEN parse_bin_rhs(ts, r.at, prec + 1, r.tree) ELSE r,
              LAMBDA rhs : parse_bin_rhs(ts, rhs.at, min_prec, Node("bin", op, <<lhs, rhs.tree>>))))

parse_expr(ts, p) == Then(parse_unary(ts, p), LAMBDA r : parse_bin_rhs(ts, r.at, 1, r.tree))

-----------------------------------------------------------------------------
(* emit_expr *)

\* Where emit_expr gives up: a variable or a function without a slot or a number.
RECURSIVE Resolves(_, _)
Resolves(names, e) ==
  /\ e.kind = "leaf" => Known(names, e.name)
  /\ e.kind = "call" => e.name \in Builtins \cup FunctionNames
  /\ \A i \in DOMAIN e.args : Resolves(names, e.args[i])

Opcode(name) ==
  CASE name = "*" -> "MUL" [] name = "+" -> "ADD" [] name = "<" -> "LT"
    [] name = "==" -> "EQEQ" [] name = "AND" -> "AND" [] name = "OR" -> "OR"

\* The instruction that comes after the code of the operands.
Operation(e) ==
  CASE e.kind = "bin" -> I(Opcode(e.name), 0)
    [] e.kind = "not" -> I("NOT", 0)
    [] e.kind = "index" -> I("INDEX_GET", 0)
    [] e.kind = "list" -> I("MAKE_LIST", Len(e.args))
    [] e.kind = "call" -> I(IF e.name \in Builtins THEN "CALL_BUILTIN" ELSE "CALL", Len(e.args))

RECURSIVE emit_tree(_, _), emit_all(_, _)
emit_tree(names, e) ==
  IF e.kind = "leaf" THEN emit_expr(names, e.name)
  ELSE Append(emit_all(names, e.args), Operation(e))
emit_all(names, es) ==
  IF es = << >> THEN << >> ELSE emit_tree(names, es[1]) \o emit_all(names, Tail(es))

-----------------------------------------------------------------------------
(* The grammar: the trees of tokens l to h, by the text and not from left to right *)

Count(ts, l, h, toks) == Cardinality({k \in l..h : ts[k] \in toks})
Level(ts, l, k) == Count(ts, l, k - 1, {"(", "["}) - Count(ts, l, k - 1, {")", "]"})

\* Where the bracket closed at h was opened.
Openers(ts, l, h) == {m \in l..(h - 1) : /\ ts[m] \in {"(", "["} /\ Level(ts, m, h) = 1
                                         /\ \A k \in (m + 1)..(h - 1) : Level(ts, m, k) >= 1}

\* How tightly each binary operator binds, loosest first; all associate to the left.
Order == <<"OR", "AND", "==", "<", "+", "*">>
Rank(tok) == CHOOSE i \in DOMAIN Order : Order[i] = tok

\* The operator a text without outer brackets is split at.
MainOperators(ts, l, h) ==
  LET ops == {k \in (l + 1)..(h - 1) : ts[k] \in Binary /\ Level(ts, l, k) = 0} IN
  {k \in ops : \A j \in ops : Rank(ts[k]) < Rank(ts[j]) \/ (Rank(ts[k]) = Rank(ts[j]) /\ j <= k)}

RECURSIVE Trees(_, _, _), Simple(_, _, _), ItemLists(_, _, _)
Trees(ts, l, h) ==
  LET main == MainOperators(ts, l, h) IN
  IF main = {} THEN Simple(ts, l, h)
  ELSE {Node("bin", ts[k], <<a, b>>) : k \in main, a \in UNION {Trees(ts, l, k - 1) : k \in main},
                                       b \in UNION {Trees(ts, k + 1, h) : k \in main}}

\* NOT, an index, brackets, a list, a call or a leaf.
Simple(ts, l, h) ==
  IF l > h THEN {}
  ELSE IF ts[l] = "NOT" THEN {Node("not", "", <<e>>) : e \in Simple(ts, l + 1, h)}
  ELSE IF l = h THEN {Leaf(t) : t \in {ts[l]} \cap (Idents \cup {Literal})}
  ELSE UNION {
    CASE ts[m] = "[" /\ ts[h] = "]" /\ m = l -> {Node("list", "", items) : items \in ItemLists(ts, l + 1, h - 1)}
      [] ts[m] = "[" /\ ts[h] = "]" /\ m # l ->
           {Node("index", "", <<e, i>>) : e \in Simple(ts, l, m - 1), i \in Trees(ts, m + 1, h - 1)}
      [] ts[m] = "(" /\ ts[h] = ")" /\ m = l -> Trees(ts, l + 1, h - 1)
      [] ts[m] = "(" /\ ts[h] = ")" /\ m = l + 1 /\ ts[l] \in Idents ->
           {Node("call", ts[l], items) : items \in ItemLists(ts, m + 1, h - 1)}
      [] OTHER -> {} : m \in Openers(ts, l, h)}

ItemLists(ts, l, h) ==
  LET commas == {k \in l..h : ts[k] = "," /\ Level(ts, l, k) = 0}
      first == {k \in commas : \A j \in commas : k <= j}
  IN IF l > h THEN {<< >>}
     ELSE IF commas = {} THEN {<<e>> : e \in Trees(ts, l, h)}
     ELSE UNION {{<<e>> \o rest : e \in Trees(ts, l, k - 1), rest \in ItemLists(ts, k + 1, h)} : k \in first}

-----------------------------------------------------------------------------
(* Postfix code read back into a tree *)

Symbol(op) == CHOOSE s \in Binary : Opcode(s) = op

RECURSIVE ReadBack(_, _)
ReadBack(c, stack) ==
  IF c = << >> THEN stack
  ELSE LET i == c[1]
           n == CASE i.op \in {"MAKE_LIST", "CALL", "CALL_BUILTIN"} -> i.arg
                  [] i.op = "NOT" -> 1 [] i.op \in {"PUSH_INT", "GET_LOCAL"} -> 0 [] OTHER -> 2
           args == SubSeq(stack, Len(stack) - n + 1, Len(stack))
           node == CASE i.op \in {"PUSH_INT", "GET_LOCAL"} -> Node("leaf", i.op, << >>)
                     [] i.op \in {"CALL", "CALL_BUILTIN"} -> Node("call", i.op, args)
                     [] i.op = "MAKE_LIST" -> Node("list", "", args)
                     [] i.op = "NOT" -> Node("not", "", args)
                     [] i.op = "INDEX_GET" -> Node("index", "", args)
                     [] OTHER -> Node("bin", Symbol(i.op), args)
       IN IF n > Len(stack) THEN << >>
          ELSE ReadBack(Tail(c), Append(SubSeq(stack, 1, Len(stack) - n), node))

\* A tree as far as code can tell.
RECURSIVE InCode(_)
InCode(e) ==
  Node(e.kind,
       CASE e.kind = "leaf" -> IF e.name = Literal THEN "PUSH_INT" ELSE "GET_LOCAL"
         [] e.kind = "call" -> IF e.name \in Builtins THEN "CALL_BUILTIN" ELSE "CALL"
         [] OTHER -> e.name,
       [i \in DOMAIN e.args |-> InCode(e.args[i])])
=============================================================================
