--------------------------------- MODULE VM ---------------------------------
(***************************************************************************)
(* The ClamLang virtual machine and its collector,                         *)
(* src/clamlang/runtime/vm/vm.c.                                           *)
(*                                                                         *)
(* One step is one instruction; a collection takes one step for each       *)
(* object marked and for each turn of the sweep.  The program is any code  *)
(* the emitter can produce: an instruction finds its operands above the    *)
(* operands of the caller, and a statement leaves nothing behind.  Of an   *)
(* integer or a Boolean only the tag is kept, so jumps go either way and   *)
(* an index is any number.  Byte counts are not kept: a string may be as   *)
(* long as it takes, so every maybe_gc either collects or does not.        *)
(***************************************************************************)
EXTENDS Naturals, Sequences

CONSTANTS
  Objects,     \* the addresses objects can have
  Chunks,      \* the functions and the module
  Main,        \* the module's chunk
  Locals,      \* locals_ts: of each chunk, the type and constness of its slots
  Fixed,       \* func_fixed_param_count
  Varargs,     \* func_has_varargs
  Rest,        \* func_varargs_ts
  Return,      \* func_ret
  Consts,      \* the constants that programs push
  MaxItems,    \* bound: longest list
  MaxStack,    \* bound: values on the stack
  MaxFrames    \* bound: calls under way

Tags == {"null", "int", "bool"}
Kinds == {"str", "list"}
Types == Tags \cup Kinds \cup {"any"}     \* "any" also stands for no type

ASSUME ProgramAssumption ==
  /\ Main \in Chunks /\ Objects \cap Tags = {} /\ Consts \subseteq Tags
  /\ Locals \in [Chunks -> Seq([type : Types, const : BOOLEAN])]
  /\ Fixed \in [Chunks -> Nat] /\ Varargs \in [Chunks -> BOOLEAN]
  /\ Rest \in [Chunks -> Types] /\ Return \in [Chunks -> Types]

ASSUME BoundAssumption == MaxItems \in Nat /\ MaxStack \in Nat /\ MaxFrames \in Nat

\* emit_bytecode gives every parameter a slot, and "..." the next one.  A
\* module without a local never starts (Unbacked).
ASSUME EmitterAssumption ==
  Locals[Main] # << >> /\ \A f \in Chunks :
    /\ Len(Locals[f]) >= Fixed[f]
    /\ Varargs[f] => /\ Len(Locals[f]) > Fixed[f]
                     /\ Locals[f][Fixed[f] + 1].type = "list"

VARIABLES
  memory,    \* the object at an address: kind, items, marked; Blank if free
  objects,   \* the list vm->objects
  stack,     \* vm->stack
  frames,    \* vm->frames; base is the stack pointer at the call
  gc,        \* "off", or the phase of the collection under way
  grey,      \* mark: objects mark_obj has yet to visit
  at,        \* sweep: the place of `o` in the list
  held,      \* what the instruction pushes after the collection
  error,     \* what kind of exit(1) ended the run
  escaped    \* a collection freed the object its builtin returns: what comes
             \* of it is up to the next malloc, and not followed

collector == <<gc, grey, at, held>>
vars == <<memory, objects, stack, frames, collector, error, escaped>>

Blank == [kind |-> "str", items |-> << >>, marked |-> FALSE]
Values == Tags \cup Objects
Elements(s) == {s[i] : i \in DOMAIN s}
Listed == Elements(objects)

TypeOf(v) == IF v \in Objects THEN memory[v].kind ELSE v
Fits(v, type) == type = "any" \/ TypeOf(v) = type
IsList(v) == TypeOf(v) = "list"

Frame == frames[Len(frames)]
Running == gc = "off" /\ error = "none" /\ ~escaped /\ frames # << >>

Depth == Len(stack) - Frame.base
Top(n) == SubSeq(stack, Len(stack) - n + 1, Len(stack))
Below(n) == SubSeq(stack, 1, Len(stack) - n)

\* exit(1) jumps back to ccl_run_source, which never looks at the machine
\* again.  What the run leaves in the heap is dropped from the model.
Fail(kind) ==
  /\ error' = kind /\ stack' = << >> /\ frames' = << >>
  /\ objects' = << >> /\ memory' = [o \in Objects |-> Blank]
  /\ UNCHANGED <<collector, escaped>>

Replace(n, values) ==
  /\ stack' = Below(n) \o values /\ Len(stack') <= MaxStack
  /\ UNCHANGED <<frames, collector, error, escaped>>

Yield(n, v) == Replace(n, <<v>>) /\ UNCHANGED <<memory, objects>>

-----------------------------------------------------------------------------
(* Allocation and collection *)

\* Slip: only the running function is looked at.
TopRoots(s, fs) == Elements(s) \cup Elements(fs[Len(fs)].locals)

\* The values gc_mark_roots starts from.
Roots(s, fs) == Elements(s) \cup UNION {Elements(fs[i].locals) : i \in DOMAIN fs}

\* Slip: a new object counts as visited.
NewMarked(o, kind, items) ==
  /\ o \in Objects \ Listed
  /\ memory' = [memory EXCEPT ![o] = [kind |-> kind, items |-> items, marked |-> TRUE]]
  /\ objects' = <<o>> \o objects

\* new_string, new_list.
New(o, kind, items) ==
  /\ o \in Objects \ Listed
  /\ memory' = [memory EXCEPT ![o] = [kind |-> kind, items |-> items, marked |-> FALSE]]
  /\ objects' = <<o>> \o objects

\* No memory, which any push may need; a division by zero; a builtin
\* called with the wrong number of arguments.
Abort == Running /\ Fail("other")

\* The stack and the frames are s and fs when maybe_gc runs; `late` is
\* pushed when it returns.
maybe_gc(s, fs, late) ==
  /\ frames' = fs /\ Len(s) + Len(late) <= MaxStack /\ UNCHANGED <<error, escaped>>
  /\ \/ stack' = s \o late /\ UNCHANGED collector
     \/ /\ stack' = s /\ gc' = "mark" /\ held' = late /\ at' = 1
        /\ grey' = Roots(s, fs) \cap Objects

\* mark_obj: a marked object is not visited again.
Mark ==
  /\ gc = "mark" /\ \E o \in grey :
       IF memory[o].marked THEN grey' = grey \ {o} /\ UNCHANGED memory
       ELSE /\ memory' = [memory EXCEPT ![o].marked = TRUE]
            /\ grey' = (grey \ {o}) \cup (Elements(memory[o].items) \cap Objects)
  /\ UNCHANGED <<objects, stack, frames, gc, at, held, error, escaped>>

MarkDone ==
  /\ gc = "mark" /\ grey = {} /\ gc' = "sweep"
  /\ UNCHANGED <<memory, objects, stack, frames, grey, at, held, error, escaped>>

\* Slip: after freeing an object the next one is passed over.
StepOver == at + 1

NextAfterFree == at

Sweep ==
  /\ gc = "sweep" /\ at <= Len(objects)
  /\ LET o == objects[at] IN
     IF memory[o].marked
     THEN /\ memory' = [memory EXCEPT ![o].marked = FALSE] /\ at' = at + 1
          /\ UNCHANGED <<objects, escaped>>
     ELSE /\ objects' = SubSeq(objects, 1, at - 1) \o SubSeq(objects, at + 1, Len(objects))
          /\ escaped' = (escaped \/ o \in Elements(held)) /\ at' = NextAfterFree
          /\ memory' = [memory EXCEPT ![o] = Blank]
  /\ UNCHANGED <<stack, frames, gc, grey, held, error>>

SweepDone ==
  /\ gc = "sweep" /\ at > Len(objects)
  /\ stack' = stack \o held /\ gc' = "off" /\ held' = << >> /\ at' = 1
  /\ UNCHANGED <<memory, objects, frames, grey, error, escaped>>

-----------------------------------------------------------------------------
(* Constants, locals and operators *)

PushConstant == Running /\ \E v \in Consts : Yield(0, v)

PushStr == /\ Running /\ \E o \in Objects : /\ New(o, "str", << >>)
                                            /\ maybe_gc(Append(stack, o), frames, << >>)

GetLocal == Running /\ \E i \in DOMAIN Frame.locals : Yield(0, Frame.locals[i])

\* typecheck_store.
Storable(slot, v) == ~slot.const /\ Fits(v, slot.type)

SetLocal ==
  /\ Running /\ Depth = 1
  /\ \E i \in DOMAIN Frame.locals :
       LET slot == Locals[Frame.chunk][i]  v == Top(1)[1] IN
       IF Storable(slot, v)
       THEN /\ frames' = [frames EXCEPT ![Len(frames)].locals[i] = v] /\ stack' = Below(1)
            /\ UNCHANGED <<memory, objects, collector, error, escaped>>
       ELSE Fail("other")

\* The operators: how many operands, of what type, and the type of the result.
Operators == {[takes |-> 2, of |-> "int", gives |-> "int"],     \* OP_ADD to OP_MOD
              [takes |-> 2, of |-> "any", gives |-> "bool"],    \* OP_EQEQ, OP_NEQ
              [takes |-> 2, of |-> "int", gives |-> "bool"],    \* OP_LT to OP_GTE
              [takes |-> 1, of |-> "bool", gives |-> "bool"],   \* OP_NOT
              [takes |-> 2, of |-> "bool", gives |-> "bool"],   \* OP_AND to OP_NOR
              [takes |-> 1, of |-> "any", gives |-> "null"]}    \* SAY

Operate ==
  /\ Running /\ \E op \in Operators :
       /\ Depth >= op.takes
       /\ IF \A v \in Elements(Top(op.takes)) : Fits(v, op.of)
          THEN Yield(op.takes, op.gives)
          ELSE Fail("other")

Drop(n) == Replace(n, << >>) /\ UNCHANGED <<memory, objects>>

JmpIfFalse == Running /\ Depth = 1 /\ IF Top(1) = <<"bool">> THEN Drop(1) ELSE Fail("other")

Pop == Running /\ Depth = 1 /\ Drop(1)

-----------------------------------------------------------------------------
(* Lists *)

MakeList ==
  /\ Running /\ \E n \in 0..MaxItems, o \in Objects :
       Depth >= n /\ New(o, "list", Top(n)) /\ maybe_gc(Append(Below(n), o), frames, << >>)

\* An index that is no integer, a base that is no list, or a bad index.
BadIndex(base, index) == index # "int" \/ ~IsList(base)

IndexGet ==
  /\ Running /\ Depth >= 2
  /\ LET base == Top(2)[1] IN
     \/ ~BadIndex(base, Top(2)[2]) /\ \E v \in Elements(memory[base].items) : Yield(2, v)
     \/ Fail("other")

IndexSet ==
  /\ Running /\ Depth = 3
  /\ LET base == Top(3)[1] IN
     \/ /\ ~BadIndex(base, Top(3)[2])
        /\ \E i \in DOMAIN memory[base].items : memory' = [memory EXCEPT ![base].items[i] = Top(3)[3]]
        /\ Replace(3, << >>) /\ UNCHANGED objects
     \/ Fail("other")

-----------------------------------------------------------------------------
(* The builtins *)

Length ==
  /\ Running /\ Depth >= 1
  /\ IF TypeOf(Top(1)[1]) \in Kinds THEN Yield(1, "int") ELSE Fail("other")

\* The new string is on no stack while maybe_gc runs.
Type ==
  /\ Running /\ Depth >= 1
  /\ \E o \in Objects : New(o, "str", << >>) /\ maybe_gc(Below(1), frames, <<o>>)

\* So is the new list.
Range ==
  /\ Running /\ Depth >= 1
  /\ \/ /\ Top(1)[1] = "int"
        /\ \E o \in Objects, n \in 0..MaxItems :
             New(o, "list", [i \in 1..n |-> "int"]) /\ maybe_gc(Below(1), frames, <<o>>)
     \/ Fail("other")

\* The list may be on no stack, but nothing refers to it afterwards.
Push ==
  /\ Running /\ Depth >= 2
  /\ LET list == Top(2)[1] IN
     IF IsList(list)
     THEN IF Len(memory[list].items) < MaxItems
          THEN /\ memory' = [memory EXCEPT ![list].items = Append(@, Top(2)[2])]
               /\ UNCHANGED objects /\ maybe_gc(Below(2), frames, <<"null">>)
          ELSE Fail("other")
     ELSE Fail("other")

PopItem ==
  /\ Running /\ Depth >= 1
  /\ LET list == Top(1)[1] IN
     IF ~IsList(list) THEN Fail("other")
     ELSE LET items == memory[list].items  n == Len(items) IN
          IF n = 0 THEN Yield(1, "null")
          ELSE /\ Replace(1, <<items[n]>>) /\ UNCHANGED objects
               /\ memory' = [memory EXCEPT ![list].items = SubSeq(items, 1, n - 1)]

-----------------------------------------------------------------------------
(* Calls *)

\* push_frame: the arguments in the first slots, Null in the others.
Entered(f, base, args) ==
  Append(frames, [chunk |-> f, base |-> base,
                  locals |-> [i \in DOMAIN Locals[f] |-> IF i \in DOMAIN args THEN args[i] ELSE "null"]])

\* Slip: arguments are not checked.
AnyArguments(f, args) == Len(args) >= Fixed[f]

\* enforce_param_types_fixed, enforce_one_type.
Acceptable(f, args) ==
  /\ IF Varargs[f] THEN Len(args) >= Fixed[f] ELSE Len(args) = Fixed[f]
  /\ \A i \in DOMAIN args :
       Fits(args[i], IF i <= Fixed[f] THEN Locals[f][i].type ELSE Rest[f])

\* malloc(0) is NULL, which xmalloc takes for a full heap: a call without
\* arguments, or of a chunk without locals, ends the run.
Unbacked(f, args) == args = << >> \/ Locals[f] = << >>

\* The extra arguments go into a list.
Call ==
  /\ Running /\ Len(frames) < MaxFrames
  /\ \E f \in Chunks \ {Main}, n \in 0..MaxStack :
       /\ Depth >= n
       /\ LET args == Top(n)  fixed == SubSeq(args, 1, Fixed[f])  base == Len(stack) - n IN
          IF Unbacked(f, args) \/ ~Acceptable(f, args) THEN Fail("other")
          ELSE IF Varargs[f]
          THEN \E o \in Objects :
                 /\ n - Fixed[f] <= MaxItems
                 /\ New(o, "list", SubSeq(args, Fixed[f] + 1, n))
                 /\ maybe_gc(Below(n), Entered(f, base, Append(fixed, o)), << >>)
          ELSE /\ frames' = Entered(f, base, args) /\ stack' = Below(n)
               /\ UNCHANGED <<memory, objects, collector, error, escaped>>

\* enforce_return_type; the module returns to nobody.
Ret ==
  /\ Running /\ Depth = 1
  /\ LET rv == Top(1)[1]  f == Frame.chunk IN
     IF f # Main /\ ~Fits(rv, Return[f]) THEN Fail("other")
     ELSE /\ frames' = SubSeq(frames, 1, Len(frames) - 1)
          /\ stack' = IF frames' = << >> THEN Below(1) ELSE stack
          /\ UNCHANGED <<memory, objects, collector, error, escaped>>

-----------------------------------------------------------------------------

MainFrame == [chunk |-> Main, base |-> 0, locals |-> [i \in DOMAIN Locals[Main] |-> "null"]]

Init ==
  /\ memory = [o \in Objects |-> Blank]
  /\ objects = << >> /\ stack = << >> /\ frames = <<MainFrame>>
  /\ gc = "off" /\ grey = {} /\ at = 1 /\ held = << >> /\ error = "none" /\ escaped = FALSE

Instruction ==
  \/ PushConstant \/ PushStr \/ GetLocal \/ SetLocal \/ Operate \/ JmpIfFalse \/ Pop
  \/ MakeList \/ IndexGet \/ IndexSet \/ Length \/ Type \/ Range \/ Push \/ PopItem \/ Call \/ Ret
  \/ Abort

gc_collect == Mark \/ MarkDone \/ Sweep \/ SweepDone

Next == Instruction \/ gc_collect
Spec == Init /\ [][Next]_vars

-----------------------------------------------------------------------------
(* What the machine promises *)

\* Every variable has its type; no object is on vm->objects twice, and
\* outside a collection none is marked.
TypeOK ==
  /\ memory \in [Objects -> [kind : Kinds, items : UNION {[1..n -> Values] : n \in 0..MaxItems}, marked : BOOLEAN]]
  /\ Listed \subseteq Objects /\ \A i, j \in DOMAIN objects : objects[i] = objects[j] => i = j
  /\ Elements(stack) \subseteq Values /\ Len(stack) <= MaxStack
  /\ \A i \in DOMAIN frames :
       /\ frames[i].chunk \in Chunks /\ frames[i].base \in 0..MaxStack
       /\ DOMAIN frames[i].locals = DOMAIN Locals[frames[i].chunk]
       /\ Elements(frames[i].locals) \subseteq Values
  /\ gc \in {"off", "mark", "sweep"} /\ grey \subseteq Objects /\ at \in 1..(Len(objects) + 1)
  /\ Elements(held) \subseteq Values /\ escaped \in BOOLEAN
  /\ error \in {"none", "other"}
  /\ (gc = "off" /\ ~escaped) => \A o \in Listed : ~memory[o].marked

\* The objects the program can get at: on the stack, in a local of any call
\* under way, or in a list that it can get at.
InUse ==
  {o \in Objects : \/ o \in Elements(stack)
                   \/ \E i \in DOMAIN frames : o \in Elements(frames[i].locals)}
Closed(S) == \A o \in S : Elements(memory[o].items) \cap Objects \subseteq S
Reachable == {o \in Objects : \A S \in SUBSET Objects : InUse \subseteq S /\ Closed(S) => o \in S}

\* The collector (vm.c:53-107) never frees what the program can still get
\* at, through whatever calls, lists of lists and cycles.  TYPE and RANGE
\* are the exception: they collect while the object they are about to
\* return is on no stack, and from then on nothing is promised.
ReachableIsAllocated == ~escaped => Reachable \subseteq Listed

\* A collection frees all the rest: what is left on vm->objects when
\* gc_sweep is through is what the program can get at, cycles not excepted.
CollectsAllGarbage ==
  [][(gc = "sweep" /\ gc' = "off" /\ ~escaped) => Listed = Reachable]_vars

\* A local declared with a type holds a value of the type, or Null as long
\* as nothing was stored: by assignment (typecheck_store), as an argument
\* (enforce_param_types_fixed) or as "..." (OP_CALL), in every frame, and
\* an object keeps its kind as long as the local has it.
TypedLocals ==
  ~escaped => \A i \in DOMAIN frames : \A n \in DOMAIN frames[i].locals :
    LET v == frames[i].locals[n] IN v = "null" \/ Fits(v, Locals[frames[i].chunk][n].type)
=============================================================================
