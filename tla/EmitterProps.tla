---------------------------- MODULE EmitterProps ----------------------------
(***************************************************************************)
(* What the code of a finished chunk promises to the virtual machine and   *)
(* to the programmer.                                                      *)
(***************************************************************************)
EXTENDS Emitter

Finished == status = "emitted"
Addresses == 0..(Here - 1)

\* Where control may go from an instruction.
Successors(a) ==
  CASE At(code, a).op \in {"RET", "HALT"} -> {}
    [] At(code, a).op = "JMP" -> {JumpTarget(code, a)}
    [] At(code, a).op = "JMP_IF_FALSE" -> {a + 1, JumpTarget(code, a)}
    [] OTHER -> {a + 1}

\* The addresses reached from those in `from` without passing one in `wall`.
ReachedFrom(from, wall) ==
  LET reached[n \in 0..Here] ==
        IF n = 0 THEN from
        ELSE LET seen == reached[n - 1] IN
             seen \cup UNION {Successors(a) : a \in (seen \ wall) \cap Addresses}
  IN reached[Here]
Reached(wall) == ReachedFrom({0}, wall)

Kind(i) == source[i].kind

\* Where a mark's code starts, and how long it is; an ELSE IF comes after the
\* jump that ends the block before it.
Start(i) == source[i].at + (IF Kind(i) = "elseif" THEN 1 ELSE 0)
Length(i) == (IF i = Len(source) THEN Here - 3 ELSE source[i + 1].at) - Start(i)

-----------------------------------------------------------------------------
(* The operand stack *)

\* What an instruction takes from the stack, and how much it adds.
Takes(i) ==
  CASE i.op \in {"ADD", "MUL", "LT", "EQEQ", "AND", "OR", "INDEX_GET"} -> 2
    [] i.op = "INDEX_SET" -> 3
    [] i.op \in {"CALL", "CALL_BUILTIN", "MAKE_LIST"} -> i.arg
    [] i.op \in {"SET_LOCAL", "JMP_IF_FALSE", "POP", "RET", "NOT"} -> 1
    [] OTHER -> 0
Gives(i) == IF i.op \in {"SET_LOCAL", "VOID_LOCAL", "JMP", "JMP_IF_FALSE", "INDEX_SET", "POP", "RET", "HALT"}
            THEN 0 ELSE 1

\* The instructions that end a statement or a part of one.
Enders == {"SET_LOCAL", "JMP_IF_FALSE", "POP", "RET", "INDEX_SET"}

\* The depth of the stack at each address of a piece of code, as the code before
\* it in the text leaves it.
Depths(c) ==
  LET depth[a \in 0..Len(c)] ==
        IF a = 0 THEN 0
        ELSE depth[a - 1] - Takes(At(c, a - 1)) + Gives(At(c, a - 1))
  IN depth

\* However control reaches an instruction of a finished chunk, its operands
\* are on the stack; statements start with nothing on it, and what ends one
\* finds its operands and nothing else.  No jump leaves the chunk, HALT is
\* never reached, and every slot is a local.  The virtual machine checks none of this
\* (vm.c:380-700), and module VM takes it for granted.
StatementsBalance ==
  Finished =>
    LET depth == Depths(code)  reached == Reached({}) IN
    /\ reached \subseteq Addresses
    /\ \A a \in reached :
         LET i == At(code, a) IN
         /\ i.op # "HALT" /\ depth[a] >= Takes(i)
         /\ i.op \in Enders => depth[a] = Takes(i)
         /\ i.op \in {"GET_LOCAL", "SET_LOCAL", "VOID_LOCAL"} => i.arg < Len(locals)
         /\ i.op # "RET" => \A b \in Successors(a) : depth[b] = depth[a] - Takes(i) + Gives(i)
    /\ \A i \in DOMAIN source : depth[Start(i)] = 0

-----------------------------------------------------------------------------
(* Variables *)

\* Where a variable is read by its own declaration.
ReadsItself(a) == At(code, a + 1) = I("SET_LOCAL", At(code, a).arg)

\* On every path through a finished chunk a variable has been given a value
\* before it is read: branches, loops, VOID and redeclaration included, as
\* the rules for names (emit.c:100-210) intend.  Names that a SLET hoists
\* are the exception: they stay when the loop ran not once.
StoredBeforeRead ==
  Finished =>
    \A s \in DOMAIN locals :
      LET stores == {a \in Addresses : At(code, a) = I("SET_LOCAL", s - 1)} IN
      s <= Len(Params) \/ locals[s] \in hoisted
        \/ \A a \in Reached(stores) \cap Addresses : At(code, a) = I("GET_LOCAL", s - 1) => ReadsItself(a)

-----------------------------------------------------------------------------
(* Control *)

\* How many more statements with blocks begin than end, strictly between.
Inner(i, j) ==
  Cardinality({k \in (i + 1)..(j - 1) : Kind(k) \in {"if", "while", "for"}})
    - Cardinality({k \in (i + 1)..(j - 1) : Kind(k) \in {"endif", "endwhile", "endfor"}})

\* The nearest mark after (before) a mark that belongs to the same statement.
After(i, kinds) == CHOOSE j \in (i + 1)..Len(source) :
  /\ Kind(j) \in kinds /\ Inner(i, j) = 0
  /\ \A k \in (i + 1)..(j - 1) : ~(Kind(k) \in kinds /\ Inner(i, k) = 0)
Before(j, kinds) == CHOOSE i \in 1..(j - 1) :
  /\ Kind(i) \in kinds /\ Inner(i, j) = 0
  /\ \A k \in (i + 1)..(j - 1) : ~(Kind(k) \in kinds /\ Inner(k, j) = 0)

\* The marks that stand for code, the places where control goes from one
\* to the next; the last is the implicit return.
Structure == {"else", "endif", "endwhile", "step", "endfor"}
Acting == {i \in DOMAIN source : Kind(i) \notin Structure /\ Length(i) > 0}
Starts == {Start(i) : i \in Acting} \cup {Here - 3}

\* The meaning of the program: the address at which control goes on after
\* coming to the i-th mark of the text.
Falls(mark) ==
  LET falls[i \in 1..(Len(source) + 1)] ==
        IF i > Len(source) THEN Here - 3 ELSE
        CASE Kind(i) \in {"else", "elseif"} -> falls[After(i, {"endif"}) + 1]
          [] Kind(i) = "endwhile" -> source[Before(i, {"while"})].at
          [] Kind(i) = "endfor" -> source[Before(i, {"for"})].at
          [] i \in Acting /\ Kind(i) # "elseif" -> Start(i)
          [] OTHER -> falls[i + 1]
  IN falls[mark]

Refused(i) ==
  CASE Kind(i) \in {"if", "elseif"} ->
         LET j == After(i, {"else", "elseif", "endif"}) IN
         IF Kind(j) = "elseif" THEN Start(j) ELSE Falls(j + 1)
    [] Kind(i) = "while" -> Falls(After(i, {"endwhile"}) + 1)
    [] Kind(i) = "for" -> Falls(After(i, {"endfor"}) + 1)

Meant(i) ==
  CASE Kind(i) = "RETURN" -> {}
    [] Kind(i) \in {"if", "elseif", "while", "for"} -> {Falls(i + 1), Refused(i)}
    [] OTHER -> {Falls(i + 1)}

\* The next starts that the code of a mark leads to.
Leads(i) == ReachedFrom(Successors(Start(i)), Starts) \cap Starts

\* The jumps of a finished chunk lead where the text says: branches join
\* after the whole IF, loops go back to their condition, the step of a FOR
\* runs between the body and the condition, and nothing after a RETURN does.
\* Every one of them is patched when what lies between has been emitted
\* (emit_if, emit_while, ST_FOR).
FlowIsSource == Finished => \A i \in Acting : Leads(i) = Meant(i)

\* A SET that compiles stores something (core.h:282, emit.c:449-506).
SetStores ==
  Finished => \A i \in DOMAIN source : Kind(i) = "SET" =>
    \E a \in Start(i)..(Start(i) + Length(i) - 1) : At(code, a).op \in {"SET_LOCAL", "INDEX_SET"}
=============================================================================
