------------------------------- MODULE Emitter -------------------------------
(***************************************************************************)
(* The code generator of the ClamLang compiler,                            *)
(* src/clamlang/compiler/emit.c, and the statement nodes the parser hands  *)
(* it, src/clamlang/compiler/parser.c.                                     *)
(*                                                                         *)
(* emit_bytecode walks the program in the order of its text, so the model  *)
(* chooses the program as it goes: one step emits one statement, or one    *)
(* end of a block.  Addresses count instructions, not bytes: the operand   *)
(* of a jump is still relative to the instruction after it, and is still   *)
(* written as 0 and patched later.  Expressions are a literal or a         *)
(* variable here; module Compiler has the others.                          *)
(***************************************************************************)
EXTENDS Integers, Sequences, FiniteSets

CONSTANTS
  Names,          \* the identifiers programs use
  Functions,      \* the parameter lists of the functions, "..." among the names
  Operands,       \* the expressions programs use
  MaxStatements,  \* bound: statements and ends of blocks in a chunk
  MaxOpen         \* bound: statements inside one another

Literal == "1"    \* an integer; also the index of a target that has none
NoName == "NULL"  \* a name the parser leaves unset
Garbage == "?"    \* a string that is the name of nothing

\* Without a function emit_bytecode asks malloc for no bytes, gets NULL,
\* and gives up (emit.c:678-681, core.h:77).
ASSUME EmitterAssumption ==
  /\ Operands \subseteq Names \cup {Literal}
  /\ Names \cap {Literal, NoName, Garbage} = {}
  /\ Functions \in Seq(Seq(Names)) /\ Functions # << >>
  /\ MaxStatements \in Nat /\ MaxOpen \in Nat

VARIABLES
  chunk,    \* which chunk is emitted: the functions, and last the module
  code,     \* c->code
  map,      \* c->name_map and slot_map: the slot of a name
  locals,   \* c->locals_name: the name each slot was made for
  scopes,   \* ec->scope_names
  loops,    \* ec->loop_names and loop_slots
  open,     \* the calls of emit_stmt under way, with their local variables
  status,   \* "emitting", "emitted", or the error that ended the compilation
  source,   \* history: the statements of the chunk and where their code starts
  hoisted   \* history: the names a SLET made in the chunk

context == <<map, locals, scopes, loops, hoisted>>
vars == <<chunk, code, context, open, status, source>>

-----------------------------------------------------------------------------
(* What the parser makes of statements *)

\* A node starts as zeroes: its target is of no kind, its operator is none.
Unset == [kind |-> "unset", base |-> NoName, index |-> Literal]

parse_target == [kind : {"name"}, base : Names, index : {Literal}]
                  \cup [kind : {"index"}, base : Names, index : Operands]

Declarations == [kind : {"LET", "VOIDLET", "SLET"}, name : Names, rhs : Operands]

\* parse_stmt without IF, WHILE and FOR.  A RETURN may have no expression.
\* SET fills the name of its node, not the target.
parse_stmt ==
  Declarations
    \cup [kind : {"SET"}, name : Names, target : {Unset}, op : {"none"}, rhs : Operands]
    \cup [kind : {"INCDEC"}, target : parse_target]
    \cup [kind : {"VOID", "SAY_IDENT"}, name : Names]
    \cup [kind : {"RETURN"}, rhs : Operands \cup {NoName}]
    \cup [kind : {"SAY_EXPR", "EXPR"}, rhs : Operands]
    \cup [kind : {"NOTHING"}]

\* In the header of a FOR, SET fills the target of its node, not the name.
parse_loop_header_stmt ==
  Declarations
    \cup [kind : {"SET"}, name : {NoName}, target : parse_target, op : {"=", "+="}, rhs : Operands]
    \cup [kind : {"INCDEC"}, target : parse_target]

\* The iterator a FOR gets from its first statement.  Of a SET it copies the
\* string at address 0: one byte of it, and then whatever the heap holds.
\* The other statements are a SyntaxError.
iter_names(init) ==
  CASE init.kind = "SET" -> Names \cup {Garbage}
    [] init.kind = "INCDEC" -> {}
    [] OTHER -> {init.name}

-----------------------------------------------------------------------------
(* The bytecode helpers *)

I(op, arg) == [op |-> op, arg |-> arg]
Here == Len(code)

\* The instruction at an address of a piece of code, and where a jump leads.
At(c, a) == c[a + 1]
JumpTarget(c, a) == a + 1 + At(c, a).arg

\* bc_patch_i32: the jumps at these addresses lead to the target.
Patch(c, ats, target) ==
  [i \in DOMAIN c |-> IF i - 1 \in ats THEN I(c[i].op, target - i) ELSE c[i]]

\* map_put, map_remove_ordered.
map_put(m, name, slot) == [n \in DOMAIN m \cup {name} |-> IF n = name THEN slot ELSE m[n]]
Without(m, names) == [n \in DOMAIN m \ names |-> m[n]]

Top(s) == s[Len(s)]
Below(s) == SubSeq(s, 1, Len(s) - 1)

\* loop_has_name.
LoopNames == UNION {DOMAIN loops[d] : d \in DOMAIN loops}
LoopSlot(name) == loops[CHOOSE d \in DOMAIN loops :
  name \in DOMAIN loops[d] /\ \A e \in DOMAIN loops : name \in DOMAIN loops[e] => e <= d][name]

\* A new scope or loop starts without names.
scope_push(ss) == Append(ss, {})
loop_push == Append(loops, << >>)

\* Slip: the loop stays on the stack.
KeepLoops == loops

loop_pop == Below(loops)

\* A name declared in the innermost scope, or hoisted to the innermost loop.
scope_record_name(name) == [scopes EXCEPT ![Len(scopes)] = @ \cup {name}]
loop_record_slet(name, slot) == [loops EXCEPT ![Len(loops)] = map_put(@, name, slot)]

\* Slip: every name stays.
AllNames == map

\* scope_pop: the names left when the innermost scope is closed.
Outside == Without(map, Top(scopes) \ LoopNames)

\* emit_expr, of a literal or a variable.
Known(names, e) == e = Literal \/ e \in DOMAIN names
emit_expr(names, e) == <<IF e = Literal THEN I("PUSH_INT", 1) ELSE I("GET_LOCAL", names[e])>>

Fail(kind) == status' = kind /\ UNCHANGED <<code, context>>
Emit(c) == code' = code \o c /\ UNCHANGED <<context, status>>

-----------------------------------------------------------------------------
(* Statements without a block *)

\* emit_expr and OP_SET_LOCAL, under the names there are by then.
Store(names, slot, rhs) ==
  IF Known(names, rhs)
  THEN code' = code \o emit_expr(names, rhs) \o <<I("SET_LOCAL", slot)>> /\ UNCHANGED status
  ELSE status' = "NameError" /\ UNCHANGED code

\* Slip: the slot of the variable declared last is used again.
ReusedSlot == IF locals = << >> THEN 0 ELSE Len(locals) - 1

NewSlot == Len(locals)

\* add_local and scope_record_name come before the right-hand side.
AddLocal(name, rhs) ==
  LET slot == NewSlot IN
  /\ map' = map_put(map, name, slot) /\ locals' = Append(locals, name)
  /\ scopes' = scope_record_name(name)
  /\ Store(map_put(map, name, slot), slot, rhs)

Let(st) ==
  IF st.name \in DOMAIN map THEN Fail("redeclared")
  ELSE AddLocal(st.name, st.rhs) /\ UNCHANGED <<loops, hoisted>>

VoidLet(st) == AddLocal(st.name, st.rhs) /\ UNCHANGED <<loops, hoisted>>

\* A name that an enclosing loop has hoisted keeps its slot.
Slet(st) ==
  IF loops = << >> THEN Fail("outside a loop")
  ELSE IF st.name \in LoopNames
  THEN Store(map, LoopSlot(st.name), st.rhs) /\ UNCHANGED context
  ELSE IF st.name \in DOMAIN map THEN Fail("redeclared")
  ELSE /\ AddLocal(st.name, st.rhs) /\ hoisted' = hoisted \cup {st.name}
       /\ loops' = loop_record_slet(st.name, NewSlot)

\* `name op rhs`, for any operator.
emit_assign_math(slot, value) ==
  <<I("GET_LOCAL", slot)>> \o value \o <<I("ADD", 0), I("SET_LOCAL", slot)>>

\* The code of `target op rhs`.
Assignment(target, op, rhs) ==
  LET slot == map[target.base]
      item == <<I("GET_LOCAL", slot)>> \o emit_expr(map, target.index)
      value == emit_expr(map, rhs)
  IN
  CASE target.kind = "name" /\ op = "=" -> value \o <<I("SET_LOCAL", slot)>>
    [] target.kind = "name" /\ op # "=" -> emit_assign_math(slot, value)
    [] target.kind = "index" /\ op = "=" -> item \o value \o <<I("INDEX_SET", 0)>>
    [] OTHER -> item \o item \o <<I("INDEX_GET", 0)>> \o value \o <<I("ADD", 0), I("INDEX_SET", 0)>>

\* ST_SET: a target of neither kind is passed over, and so is the rhs.
Assign(target, op, rhs) ==
  CASE target.kind = "unset" -> Emit(<< >>)
    [] target.kind # "unset" ->
         IF target.base \in DOMAIN map /\ Known(map, target.index) /\ Known(map, rhs)
         THEN Emit(Assignment(target, op, rhs)) ELSE Fail("NameError")

Void(st) ==
  IF st.name \notin DOMAIN map THEN Fail("NameError")
  ELSE /\ map' = Without(map, {st.name}) /\ code' = Append(code, I("VOID_LOCAL", map[st.name]))
       /\ UNCHANGED <<locals, scopes, loops, hoisted, status>>

\* Slip: the Null that SAY returns stays on the stack.
SayAlone == <<I("CALL_BUILTIN", 1)>>

SayAndPop == <<I("CALL_BUILTIN", 1), I("POP", 0)>>

\* ST_SAY_IDENT, ST_SAY_EXPR, ST_EXPR and ST_RETURN.
Evaluate(e, then) == IF Known(map, e) THEN Emit(emit_expr(map, e) \o then) ELSE Fail("NameError")

emit_stmt(st) ==
  CASE st.kind = "LET" -> Let(st)
    [] st.kind = "VOIDLET" -> VoidLet(st)
    [] st.kind = "SLET" -> Slet(st)
    [] st.kind = "SET" -> Assign(st.target, st.op, st.rhs)
    [] st.kind = "INCDEC" -> Assign(st.target, "+=", Literal)
    [] st.kind = "VOID" -> Void(st)
    [] st.kind = "SAY_IDENT" -> Evaluate(st.name, SayAndPop)
    [] st.kind = "SAY_EXPR" -> Evaluate(st.rhs, SayAndPop)
    [] st.kind = "EXPR" -> Evaluate(st.rhs, <<I("POP", 0)>>)
    [] st.kind = "RETURN" -> IF st.rhs = NoName THEN Emit(<<I("PUSH_NULL", 0), I("RET", 0)>>)
                             ELSE Evaluate(st.rhs, <<I("RET", 0)>>)
    [] st.kind = "NOTHING" -> Emit(<< >>)

-----------------------------------------------------------------------------
(* Statements with blocks *)

\* The next statement, or part of one, of the text.
Note(kind) == Len(source) < MaxStatements /\ source' = Append(source, [kind |-> kind, at |-> Here])

Emitting(kinds) == status = "emitting" /\ (IF open = << >> THEN "list" ELSE Top(open).kind) \in kinds
InList == Emitting({"list", "then", "else", "while", "for"})

\* A condition, and a jump to be patched.
Test(names, e) == emit_expr(names, e) \o <<I("JMP_IF_FALSE", 0)>>
Opened(kind, test, start, ends) == [kind |-> kind, test |-> test, start |-> start, ends |-> ends, iter |-> NoName]

Statement ==
  /\ InList
  /\ \E st \in parse_stmt :
       emit_stmt(st) /\ Note(st.kind)
  /\ UNCHANGED <<chunk, open>>

Opens == InList /\ Len(open) < MaxOpen

\* emit_if, up to its then_block.
If ==
  /\ Opens /\ Note("if") /\ UNCHANGED chunk
  /\ \E cond \in Operands :
       IF ~Known(map, cond) THEN Fail("NameError") /\ UNCHANGED open
       ELSE /\ code' = code \o Test(map, cond)
            /\ open' = Append(open, Opened("then", Here + 1, 0, {}))
            /\ scopes' = scope_push(scopes) /\ UNCHANGED <<map, locals, loops, hoisted, status>>

\* The code after a then_block; it has a jump to the end, also without ELSE.
ThenClosed == Patch(Append(code, I("JMP", 0)), {Top(open).test}, Here + 1)
Ends == Top(open).ends \cup {Here}

Else ==
  /\ Emitting({"then"}) /\ Note("else") /\ UNCHANGED chunk
  /\ code' = ThenClosed /\ open' = Append(Below(open), Opened("else", 0, 0, Ends))
  /\ map' = Outside /\ scopes' = scope_push(Below(scopes))
  /\ UNCHANGED <<locals, loops, hoisted, status>>

\* ELSE IF: emit_if calls itself, and both end at the same place.
ElseIf ==
  /\ Emitting({"then"}) /\ Note("elseif") /\ UNCHANGED chunk
  /\ \E cond \in Operands :
       IF ~Known(Outside, cond) THEN Fail("NameError") /\ UNCHANGED open
       ELSE /\ code' = ThenClosed \o Test(Outside, cond)
            /\ open' = Append(Below(open), Opened("then", Here + 2, 0, Ends))
            /\ map' = Outside /\ scopes' = scope_push(Below(scopes))
            /\ UNCHANGED <<locals, loops, hoisted, status>>

\* The scope and the statement on top are closed.
Close == /\ map' = Outside /\ scopes' = Below(scopes) /\ open' = Below(open)
         /\ UNCHANGED <<chunk, locals, hoisted, status>>

EndIf ==
  /\ Emitting({"then", "else"}) /\ Note("endif") /\ Close /\ UNCHANGED loops
  /\ \/ Emitting({"then"}) /\ code' = Patch(ThenClosed, Ends, Here + 1)
     \/ Emitting({"else"}) /\ code' = Patch(code, Top(open).ends, Here)

\* emit_while, up to its body: loop_push, the condition, scope_push.
While ==
  /\ Opens /\ Note("while") /\ UNCHANGED chunk
  /\ \E cond \in Operands :
       IF ~Known(map, cond) THEN Fail("NameError") /\ UNCHANGED open
       ELSE /\ code' = code \o Test(map, cond)
            /\ open' = Append(open, Opened("while", Here + 1, Here, {}))
            /\ scopes' = scope_push(scopes) /\ loops' = loop_push
            /\ UNCHANGED <<map, locals, hoisted, status>>

\* Slip: the jump back misses the condition.
ToBody == Top(open).test + 1

ToTest == Top(open).start

\* The jump back to the condition, and the patch of the jump out.
LoopClosed == Patch(Append(code, I("JMP", ToTest - (Here + 1))), {Top(open).test}, Here + 1)

EndWhile ==
  /\ Emitting({"while"}) /\ Note("endwhile") /\ Close
  /\ loops' = loop_pop /\ code' = LoopClosed

\* ST_FOR: loop_push, scope_push, and then its first statement.
For ==
  /\ Opens /\ loops' = loop_push /\ scopes' = scope_push(scopes)
  /\ open' = Append(open, Opened("init", 0, 0, {}))
  /\ UNCHANGED <<chunk, code, map, locals, hoisted, status, source>>

ForInit ==
  /\ Emitting({"init"}) /\ Note("init") /\ UNCHANGED chunk
  /\ \E st \in parse_loop_header_stmt, n \in Names \cup {Garbage} :
       /\ n \in iter_names(st) /\ emit_stmt(st)
       /\ open' = Append(Below(open), [Opened("limit", 0, Len(code'), {}) EXCEPT !.iter = n])

\* iter < limit, and scope_push for the body.
ForLimit ==
  /\ Emitting({"limit"}) /\ Note("for") /\ UNCHANGED chunk
  /\ \E limit \in Operands :
       LET iter == Top(open).iter IN
       IF ~(Known(map, iter) /\ Known(map, limit)) THEN Fail("NameError") /\ UNCHANGED open
       ELSE /\ code' = code \o emit_expr(map, iter) \o emit_expr(map, limit)
                            \o <<I("LT", 0), I("JMP_IF_FALSE", 0)>>
            /\ open' = Append(Below(open), Opened("for", Here + 3, Top(open).start, {}))
            /\ scopes' = scope_push(scopes) /\ UNCHANGED <<map, locals, loops, hoisted, status>>

ForBodyEnd ==
  /\ Emitting({"for"}) /\ Note("step") /\ map' = Outside /\ scopes' = Below(scopes)
  /\ open' = Append(Below(open), [Top(open) EXCEPT !.kind = "step"])
  /\ UNCHANGED <<chunk, code, locals, loops, hoisted, status>>

\* The step may be left out.
ForStep ==
  /\ Emitting({"step"}) /\ Note("stepped") /\ UNCHANGED chunk
  /\ \E st \in parse_loop_header_stmt : emit_stmt(st)
  /\ open' = Append(Below(open), [Top(open) EXCEPT !.kind = "stepped"])

EndFor ==
  /\ Emitting({"step", "stepped"}) /\ Note("endfor") /\ Close
  /\ loops' = loop_pop /\ code' = LoopClosed

-----------------------------------------------------------------------------
(* Chunks *)

Module == Len(Functions) + 1
Params == IF chunk = Module THEN << >> ELSE Functions[chunk]

\* The last parameter of a name is the one the name is for.
ParamMap(params) ==
  [n \in {params[i] : i \in DOMAIN params} |->
     (CHOOSE i \in DOMAIN params : params[i] = n /\ \A j \in DOMAIN params : params[j] = n => j <= i) - 1]

\* The parser refuses a function without statements, unless it takes Null.
parse_function == source = << >> => Params = << >>

\* The implicit return ends every chunk.
EndChunk ==
  /\ Emitting({"list"}) /\ parse_function /\ status' = "emitted"
  /\ code' = code \o <<I("PUSH_NULL", 0), I("RET", 0), I("HALT", 0)>>
  /\ map' = Outside /\ scopes' = Below(scopes)
  /\ UNCHANGED <<chunk, locals, loops, hoisted, open, source>>

\* The parameters, "..." included, have the first slots.
Begin(params) ==
  /\ locals' = params /\ map' = ParamMap(params)
  /\ scopes' = Append(scopes, {params[i] : i \in DOMAIN params})

NextChunk ==
  /\ status = "emitted" /\ chunk < Module /\ chunk' = chunk + 1 /\ status' = "emitting"
  /\ Begin(IF chunk + 1 = Module THEN << >> ELSE Functions[chunk + 1])
  /\ code' = << >> /\ source' = << >> /\ hoisted' = {} /\ UNCHANGED <<loops, open>>

Init ==
  /\ chunk = 1 /\ status = "emitting" /\ code = << >> /\ source = << >> /\ hoisted = {}
  /\ locals = Functions[1] /\ map = ParamMap(Functions[1])
  /\ scopes = <<{Functions[1][i] : i \in DOMAIN Functions[1]}>>
  /\ loops = << >> /\ open = << >>

Next ==
  \/ Statement \/ If \/ Else \/ ElseIf \/ EndIf \/ While \/ EndWhile
  \/ For \/ ForInit \/ ForLimit \/ ForBodyEnd \/ ForStep \/ EndFor
  \/ EndChunk \/ NextChunk

Spec == Init /\ [][Next]_vars

-----------------------------------------------------------------------------
(* What the emitter promises about names *)

\* Every variable has its type; there is a scope for the chunk and one for
\* each open block, and a set of hoisted names for each open loop.
LoopKinds == {"while", "init", "limit", "for", "step", "stepped"}

TypeOK ==
  /\ chunk \in 1..Module
  /\ \A i \in DOMAIN code : code[i].arg \in Int
  /\ DOMAIN map \subseteq Names /\ \A i \in DOMAIN locals : locals[i] \in Names
  /\ \A i \in DOMAIN scopes : scopes[i] \subseteq Names
  /\ status \in {"emitting", "emitted", "NameError", "redeclared", "outside a loop"}
  /\ Len(loops) = Cardinality({i \in DOMAIN open : open[i].kind \in LoopKinds})
  /\ Len(scopes) = (IF status = "emitted" THEN 0 ELSE 1) + Len(open)
                     + Cardinality({i \in DOMAIN open : open[i].kind = "for"})

\* A name that resolves was declared in a block that is still open, or was
\* hoisted out of a loop by SLET; and it resolves to a slot made for it, so
\* that no two names share one.  The scopes and the name map (emit.c:100-160)
\* are separate structures, updated by different statements.
NamesAreScoped ==
  \A n \in DOMAIN map :
    /\ n \in hoisted \/ \E i \in DOMAIN scopes : n \in scopes[i]
    /\ map[n] < Len(locals) /\ locals[map[n] + 1] = n
=============================================================================
