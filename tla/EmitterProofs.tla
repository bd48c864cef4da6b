---------------------------- MODULE EmitterProofs ----------------------------
(***************************************************************************)
(* Theorems about the code generator, for programs of every length and     *)
(* depth: its variables keep their types; the name map and the scopes,     *)
(* which different statements update, agree; every path through the code   *)
(* keeps the stack as a statement found it; a local is read only where     *)
(* every path has stored it; and control goes from one statement to the    *)
(* next as the source text says.                                           *)
(***************************************************************************)
EXTENDS EmitterProps, TLAPS, FiniteSetTheorems, WellFoundedInduction

Opcodes ==
  {"PUSH_INT", "PUSH_NULL", "GET_LOCAL", "SET_LOCAL", "VOID_LOCAL", "INDEX_GET", "INDEX_SET",
   "ADD", "LT", "POP", "CALL_BUILTIN", "JMP", "JMP_IF_FALSE", "RET", "HALT"}
Instruction == [op : Opcodes, arg : Int]

\* The name map, and the names of a loop: names with slots.
Slots == UNION {[S -> Nat] : S \in SUBSET Names}

\* A statement that is open, and where its jumps are.
BlockKinds == {"then", "else"} \cup LoopKinds
Block == [kind : BlockKinds, test : Int, start : Int, ends : SUBSET Int,
          iter : Names \cup {NoName, Garbage}]

NameTypes ==
  /\ code \in Seq(Instruction) /\ map \in Slots /\ locals \in Seq(Names)
  /\ scopes \in Seq(SUBSET Names) /\ loops \in Seq(Slots)

\* What a loop has hoisted is hoisted.
LoopsHoisted == LoopNames \subseteq hoisted

NameInv == NameTypes /\ LoopsHoisted /\ NamesAreScoped

BlockTypes ==
  /\ open \in Seq(Block)
  /\ status \in {"emitting", "emitted", "NameError", "redeclared", "outside a loop"}
  /\ status = "emitted" => open = << >>

\* How many of the open statements are of these kinds.
OpenOf(blocks, kinds) == Cardinality({i \in DOMAIN blocks : blocks[i].kind \in kinds})

\* Every open loop has its hoisted names, every open block its scope.
OneEach ==
  /\ Len(loops) = OpenOf(open, LoopKinds)
  /\ Len(scopes) = (IF status = "emitted" THEN 0 ELSE 1) + Len(open) + OpenOf(open, {"for"})

BlockInv == BlockTypes /\ OneEach

Inv == chunk \in 1..Module /\ NameInv /\ BlockInv

-----------------------------------------------------------------------------
(* Numbers, sequences and counts. *)

\* Sets of positions have a greatest element: the CHOOSE of loop_find_slot and
\* of map_put's last parameter pick one.
LEMMA Greatest ==
  ASSUME NEW n \in Nat, NEW S \in SUBSET (1..n), S # {}
  PROVE  \E x \in S : \A y \in S : y <= x
<1> DEFINE R == {ss \in Nat \X Nat : ss[1] < ss[2]}
           Bounds == {k \in Nat : \A y \in S : y <= k}
<1>1. R = OpToRel(<, Nat) BY Zenon DEF OpToRel
<1>2. IsWellFoundedOn(R, Nat) BY <1>1, NatLessThanWellFounded, Zenon
<1>3. Bounds \subseteq Nat /\ Bounds # {} OBVIOUS
<1>4. \A x, y \in Nat : y < x => <<y, x>> \in R OBVIOUS
<1> HIDE DEF R
<1>5. PICK k \in Bounds : \A y \in Bounds : ~ (<<y, k>> \in R) BY <1>2, <1>3, WFMin, Zenon
<1>6. /\ k \in Nat /\ \A y \in S : y <= k
      /\ \A y \in Bounds : ~ (y < k)
  BY <1>4, <1>5
<1>7. CASE k \in S BY <1>6, <1>7
<1>8. CASE k \notin S
  <2> PICK z \in S : TRUE OBVIOUS
  <2>1. k > 0 BY <1>6
  <2>2. k - 1 \in Nat /\ \A y \in S : y <= k - 1 BY <1>6, <1>8, <2>1
  <2>3. k - 1 \in Bounds BY <2>2
  <2> QED BY <1>6, <2>2, <2>3
<1> QED BY <1>7, <1>8

LEMMA BelowIsSeq ==
  ASSUME NEW S, NEW s \in Seq(S), s # << >>
  PROVE  /\ Below(s) \in Seq(S) /\ Len(Below(s)) = Len(s) - 1
         /\ \A i \in 1..(Len(s) - 1) : Below(s)[i] = s[i]
         /\ Top(s) \in S /\ Len(s) \in DOMAIN s
         /\ s = Append(Below(s), Top(s))
<1> DEFINE n == Len(s)
<1>1. n \in Nat \ {0} /\ DOMAIN s = 1..n /\ \A i \in 1..n : s[i] \in S OBVIOUS
<1>2. /\ Below(s) \in Seq(S) /\ Len(Below(s)) = n - 1
      /\ \A i \in 1..(n - 1) : Below(s)[i] = s[i]
  BY <1>1 DEF Below
<1>3. Top(s) = s[n] BY DEF Top
<1>4. s = Append(Below(s), s[n])
  <2> DEFINE t == Append(Below(s), s[n])
  <2>4. s[n] \in S /\ Below(s) \in Seq(S) BY <1>1, <1>2
  <2>5. /\ t \in Seq(S) /\ Len(t) = (n - 1) + 1
        /\ \A i \in 1..(n - 1) : t[i] = Below(s)[i]
        /\ t[(n - 1) + 1] = s[n]
    BY <1>2, <2>4
  <2> HIDE DEF t
  <2>2. t = s BY <1>1, <1>2, <2>5
  <2> QED BY <2>2 DEF t
<1>5. Top(s) \in S /\ n \in DOMAIN s BY <1>1, <1>3
<1> QED BY <1>2, <1>3, <1>4, <1>5

LEMMA SlotsAre ==
  ASSUME NEW m
  PROVE  m \in Slots <=> DOMAIN m \subseteq Names /\ m \in [DOMAIN m -> Nat]
  BY DEF Slots

LEMMA OpenType ==
  ASSUME NEW S, NEW s \in Seq(S), NEW kinds
  PROVE  /\ IsFiniteSet({i \in DOMAIN s : s[i].kind \in kinds})
         /\ OpenOf(s, kinds) \in Nat
<1>2. IsFiniteSet(DOMAIN s) BY FS_Interval
<1>4. IsFiniteSet({i \in DOMAIN s : s[i].kind \in kinds}) BY <1>2, FS_Subset
<1> QED BY <1>4, FS_CardinalityType DEF OpenOf

LEMMA OpenAppended ==
  ASSUME NEW S, NEW s \in Seq(S), NEW e \in S, NEW kinds
  PROVE  OpenOf(Append(s, e), kinds) = OpenOf(s, kinds) + IF e.kind \in kinds THEN 1 ELSE 0
<1> DEFINE In(t) == {i \in DOMAIN t : t[i].kind \in kinds}
<1>1. /\ DOMAIN Append(s, e) = DOMAIN s \cup {Len(s) + 1} /\ Len(s) + 1 \notin DOMAIN s
      /\ \A i \in DOMAIN s : Append(s, e)[i] = s[i]
      /\ Append(s, e)[Len(s) + 1] = e
  OBVIOUS
<1>2. IsFiniteSet(In(s)) /\ Cardinality(In(s)) \in Nat BY OpenType DEF OpenOf
<1>5. OpenOf(s, kinds) = Cardinality(In(s))
      /\ OpenOf(Append(s, e), kinds) = Cardinality(In(Append(s, e)))
  BY DEF OpenOf
<1>3. CASE e.kind \in kinds
  <2>1. In(Append(s, e)) = In(s) \cup {Len(s) + 1} /\ Len(s) + 1 \notin In(s) BY <1>1, <1>3
  <2>2. Cardinality(In(s) \cup {Len(s) + 1}) = Cardinality(In(s)) + 1 BY <1>2, <2>1, FS_AddElement
  <2> HIDE DEF In
  <2> QED BY <1>3, <1>5, <2>1, <2>2
<1>4. CASE e.kind \notin kinds
  <2>1. In(Append(s, e)) = In(s) BY <1>1, <1>4
  <2> HIDE DEF In
  <2> QED BY <1>2, <1>4, <1>5, <2>1
<1> QED BY <1>3, <1>4

LEMMA OpenBelow ==
  ASSUME NEW S, NEW s \in Seq(S), s # << >>, NEW kinds
  PROVE  OpenOf(Below(s), kinds) = OpenOf(s, kinds) - IF Top(s).kind \in kinds THEN 1 ELSE 0
<1>1. Below(s) \in Seq(S) /\ Top(s) \in S /\ s = Append(Below(s), Top(s)) BY BelowIsSeq
<1>3. OpenOf(s, kinds) = OpenOf(Append(Below(s), Top(s)), kinds) BY <1>1
<1>4. OpenOf(Below(s), kinds) \in Nat BY <1>1, OpenType
<1> QED BY <1>1, <1>3, <1>4, OpenAppended

-----------------------------------------------------------------------------
(* What the helpers return. *)

LEMMA PatchType ==
  ASSUME NEW c \in Seq(Instruction), NEW ats, NEW target \in Int
  PROVE  Patch(c, ats, target) \in Seq(Instruction)
<1>1. /\ DOMAIN c = 1..Len(c) /\ Len(c) \in Nat
      /\ \A i \in 1..Len(c) : c[i] \in Instruction
  OBVIOUS
<1>3. Patch(c, ats, target) \in [1..Len(c) -> Instruction] BY <1>1 DEF Patch, I, Instruction
<1> QED BY <1>1, <1>3

LEMMA ExprType ==
  ASSUME NEW m \in Slots, NEW e, Known(m, e)
  PROVE  emit_expr(m, e) \in Seq(Instruction)
<1>2. e # Literal => I("GET_LOCAL", m[e]) \in Instruction
  BY SlotsAre DEF Known, I, Instruction, Opcodes
<1> QED BY <1>2 DEF emit_expr, I, Instruction, Opcodes

LEMMA Joined ==
  ASSUME NEW c \in Seq(Instruction), NEW d \in Seq(Instruction)
  PROVE  c \o d \in Seq(Instruction)
  OBVIOUS

LEMMA NoCode == << >> \in Seq(Instruction)
  OBVIOUS

LEMMA OneInstruction ==
  ASSUME NEW op \in Opcodes, NEW arg \in Int
  PROVE  <<I(op, arg)>> \in Seq(Instruction)
  BY DEF I, Instruction

\* Parameters have the first slots, each that of its last occurrence.
LEMMA ParamMapScoped ==
  ASSUME NEW params \in Seq(Names)
  PROVE  /\ ParamMap(params) \in Slots
         /\ DOMAIN ParamMap(params) = {params[i] : i \in DOMAIN params}
         /\ \A n \in DOMAIN ParamMap(params) :
              ParamMap(params)[n] < Len(params) /\ params[ParamMap(params)[n] + 1] = n
<1> DEFINE Places(n) == {i \in DOMAIN params : params[i] = n}
           Last(n) == CHOOSE i \in DOMAIN params :
                        params[i] = n /\ \A j \in DOMAIN params : params[j] = n => j <= i
<1>1. ASSUME NEW n \in {params[i] : i \in DOMAIN params}
      PROVE  Last(n) \in DOMAIN params /\ params[Last(n)] = n
  <2>1. Places(n) \in SUBSET (1..Len(params)) /\ Places(n) # {} /\ Len(params) \in Nat OBVIOUS
  <2>2. PICK i \in Places(n) : \A j \in Places(n) : j <= i BY <2>1, Greatest
  <2> QED BY <2>2
<1> HIDE DEF Last
<1>3. \A n \in {params[i] : i \in DOMAIN params} :
        /\ n \in Names /\ Last(n) - 1 \in Nat /\ Last(n) - 1 < Len(params)
        /\ params[(Last(n) - 1) + 1] = n
  BY <1>1
<1> QED BY <1>3, SlotsAre DEF ParamMap, Last

LEMMA LoopSlotType ==
  ASSUME loops \in Seq(Slots), NEW n \in LoopNames
  PROVE  LoopSlot(n) \in Nat
<1> DEFINE Places == {d \in DOMAIN loops : n \in DOMAIN loops[d]}
           Innermost == CHOOSE d \in DOMAIN loops :
             n \in DOMAIN loops[d] /\ \A e \in DOMAIN loops : n \in DOMAIN loops[e] => e <= d
<1>1. Places \in SUBSET (1..Len(loops)) /\ Places # {} /\ Len(loops) \in Nat BY DEF LoopNames
<1>2. PICK d \in Places : \A e \in Places : e <= d BY <1>1, Greatest
<1>4. Innermost \in DOMAIN loops /\ n \in DOMAIN loops[Innermost] BY <1>2
<1>6. loops[Innermost] \in Slots BY <1>4
<1> QED BY <1>4, <1>6, SlotsAre DEF LoopSlot

-----------------------------------------------------------------------------
(* A statement without a block *)

\* What emit_stmt leaves of blocks and loops, and how it can end.
SameDepth ==
  /\ Len(scopes') = Len(scopes) /\ Len(loops') = Len(loops)
  /\ status' \in {"emitting", "NameError", "redeclared", "outside a loop"}

LEMMA CodeAlone ==
  ASSUME NameInv, code' \in Seq(Instruction), UNCHANGED context
  PROVE  NameInv' /\ Len(scopes') = Len(scopes) /\ Len(loops') = Len(loops)
  BY DEF NameInv, NameTypes, LoopsHoisted, LoopNames, NamesAreScoped, context

LEMMA FailKeeps ==
  ASSUME NameInv, NEW kind \in {"NameError", "redeclared", "outside a loop"}, Fail(kind)
  PROVE  NameInv' /\ SameDepth
<1> QED BY CodeAlone DEF SameDepth, NameInv, NameTypes, Fail

LEMMA EmitKeeps ==
  ASSUME NameInv, status = "emitting", NEW c \in Seq(Instruction), Emit(c)
  PROVE  NameInv' /\ SameDepth
<1>1. code' = code \o c /\ UNCHANGED context /\ status' = "emitting" BY DEF Emit
<1> QED BY <1>1, CodeAlone, Joined DEF SameDepth, NameInv, NameTypes

LEMMA EvaluateKeeps ==
  ASSUME NameInv, status = "emitting", NEW e, NEW c \in Seq(Instruction), Evaluate(e, c)
  PROVE  NameInv' /\ SameDepth
<1>1. CASE Known(map, e) BY <1>1, ExprType, Joined, EmitKeeps DEF NameInv, NameTypes, Evaluate
<1>2. CASE ~Known(map, e) BY <1>2, FailKeeps DEF Evaluate
<1> QED BY <1>1, <1>2

LEMMA StoreKeeps ==
  ASSUME code \in Seq(Instruction), status = "emitting",
         NEW names \in Slots, NEW slot \in Nat, NEW rhs, Store(names, slot, rhs)
  PROVE  code' \in Seq(Instruction) /\ status' \in {"emitting", "NameError"}
<1>1. <<I("SET_LOCAL", slot)>> \in Seq(Instruction) BY OneInstruction DEF Opcodes
<1>2. CASE Known(names, rhs) BY <1>1, <1>2, ExprType, Joined DEF Store
<1>3. CASE ~Known(names, rhs) BY <1>3 DEF Store
<1> QED BY <1>2, <1>3

\* A name declared is in the innermost scope, and has the slot made for it.
LEMMA AddLocalKeeps ==
  ASSUME NameInv, status = "emitting", scopes # << >>, NEW name \in Names, NEW rhs,
         AddLocal(name, rhs), hoisted \subseteq hoisted'
  PROVE  /\ code' \in Seq(Instruction) /\ map' \in Slots /\ locals' \in Seq(Names)
         /\ scopes' \in Seq(SUBSET Names) /\ Len(scopes') = Len(scopes)
         /\ status' \in {"emitting", "NameError"}
         /\ NamesAreScoped'
<1>1. /\ map \in Slots /\ locals \in Seq(Names) /\ scopes \in Seq(SUBSET Names)
      /\ code \in Seq(Instruction) /\ NamesAreScoped
  BY DEF NameInv, NameTypes
<1> DEFINE slot == Len(locals)
           m == map_put(map, name, slot)
<1>2. /\ map' = m /\ locals' = Append(locals, name)
      /\ scopes' = scope_record_name(name) /\ Store(m, slot, rhs)
  BY DEF AddLocal, NewSlot
<1>3. slot \in Nat /\ DOMAIN map \subseteq Names /\ map \in [DOMAIN map -> Nat] BY <1>1, SlotsAre
<1>4. /\ DOMAIN m = DOMAIN map \cup {name} /\ m \in [DOMAIN m -> Nat] /\ m[name] = slot
      /\ \A n \in DOMAIN map : n # name => m[n] = map[n]
  BY <1>3 DEF map_put
<1>5. m \in Slots BY <1>3, <1>4, SlotsAre
<1> HIDE DEF m
<1>6. code' \in Seq(Instruction) /\ status' \in {"emitting", "NameError"}
  BY <1>1, <1>2, <1>3, <1>5, StoreKeeps
<1>7. /\ locals' \in Seq(Names) /\ Len(locals') = slot + 1 /\ locals'[slot + 1] = name
      /\ \A i \in 1..slot : locals'[i] = locals[i]
  BY <1>1, <1>2
<1>8. /\ scopes' \in Seq(SUBSET Names) /\ Len(scopes') = Len(scopes)
      /\ DOMAIN scopes' = DOMAIN scopes /\ Len(scopes) \in DOMAIN scopes
      /\ name \in scopes'[Len(scopes)]
      /\ \A i \in DOMAIN scopes : scopes[i] \subseteq scopes'[i]
  BY <1>1, <1>2 DEF scope_record_name
<1>9. ASSUME NEW n \in DOMAIN map'
      PROVE  /\ n \in hoisted' \/ \E i \in DOMAIN scopes' : n \in scopes'[i]
             /\ map'[n] < Len(locals') /\ locals'[map'[n] + 1] = n
  <2>1. CASE n = name BY <2>1, <1>2, <1>3, <1>4, <1>7, <1>8
  <2>2. CASE n # name
    <3>1. n \in DOMAIN map /\ map'[n] = map[n] /\ map[n] \in Nat BY <1>2, <1>3, <1>4, <1>9, <2>2
    <3>2. /\ n \in hoisted \/ \E i \in DOMAIN scopes : n \in scopes[i]
          /\ map[n] < slot /\ locals[map[n] + 1] = n
      BY <1>1, <3>1 DEF NamesAreScoped
    <3>3. n \in hoisted' \/ \E i \in DOMAIN scopes' : n \in scopes'[i] BY <3>2, <1>8
    <3>4. map[n] + 1 \in 1..slot BY <3>1, <3>2, <1>3
    <3> QED BY <1>3, <1>7, <3>1, <3>2, <3>3, <3>4
  <2> QED BY <2>1, <2>2
<1> QED BY <1>2, <1>5, <1>6, <1>7, <1>8, <1>9 DEF NamesAreScoped

LEMMA DeclareKeeps ==
  ASSUME NameInv, status = "emitting", scopes # << >>, NEW name \in Names, NEW rhs,
         AddLocal(name, rhs), UNCHANGED <<loops, hoisted>>
  PROVE  NameInv' /\ SameDepth
<1>2. loops' \in Seq(Slots) /\ LoopsHoisted' BY DEF NameInv, NameTypes, LoopsHoisted, LoopNames
<1> QED BY <1>2, AddLocalKeeps DEF NameInv, NameTypes, SameDepth

\* SLET hoists the name it declares out of the innermost loop.
LEMMA SletKeeps ==
  ASSUME NameInv, status = "emitting", scopes # << >>,
         NEW st, st.name \in Names, Slet(st)
  PROVE  NameInv' /\ SameDepth
<1>1. CASE loops = << >> BY <1>1, FailKeeps DEF Slet
<1>2. CASE loops # << >> /\ st.name \in LoopNames
  BY <1>2, LoopSlotType, StoreKeeps, CodeAlone DEF Slet, NameInv, NameTypes, SameDepth
<1>3. CASE loops # << >> /\ st.name \notin LoopNames /\ st.name \in DOMAIN map
  BY <1>3, FailKeeps DEF Slet
<1>4. CASE loops # << >> /\ st.name \notin LoopNames /\ st.name \notin DOMAIN map
  <2>1. /\ AddLocal(st.name, st.rhs) /\ hoisted' = hoisted \cup {st.name}
        /\ loops' = loop_record_slet(st.name, NewSlot)
    BY <1>4 DEF Slet
  <2>2. /\ code' \in Seq(Instruction) /\ map' \in Slots /\ locals' \in Seq(Names)
        /\ scopes' \in Seq(SUBSET Names) /\ Len(scopes') = Len(scopes)
        /\ status' \in {"emitting", "NameError"}
        /\ NamesAreScoped'
    BY <2>1, AddLocalKeeps
  <2> DEFINE top == loops[Len(loops)]
             m == map_put(top, st.name, NewSlot)
  <2>3. loops \in Seq(Slots) /\ Len(loops) \in DOMAIN loops /\ top \in Slots
        /\ LoopNames \subseteq hoisted
    BY <1>4 DEF NameInv, NameTypes, LoopsHoisted
  <2>4. NewSlot \in Nat BY DEF NewSlot, NameInv, NameTypes
  <2>5. m \in Slots /\ DOMAIN m = DOMAIN top \cup {st.name} BY <2>3, <2>4, SlotsAre DEF map_put
  <2> HIDE DEF m
  <2>7. /\ loops' \in Seq(Slots) /\ Len(loops') = Len(loops) /\ DOMAIN loops' = DOMAIN loops
        /\ loops'[Len(loops)] = m
        /\ \A d \in DOMAIN loops : d # Len(loops) => loops'[d] = loops[d]
    BY <2>1, <2>3, <2>5 DEF loop_record_slet, m
  <2>8. LoopNames' \subseteq LoopNames \cup {st.name}
    <3> SUFFICES ASSUME NEW d \in DOMAIN loops', NEW n \in DOMAIN loops'[d]
                 PROVE  n \in LoopNames \cup {st.name}
      BY DEF LoopNames
    <3> QED BY <2>5, <2>7 DEF LoopNames
  <2> QED BY <2>1, <2>2, <2>3, <2>7, <2>8 DEF NameInv, NameTypes, LoopsHoisted, SameDepth
<1> QED BY <1>1, <1>2, <1>3, <1>4

LEMMA AssignKeeps ==
  ASSUME NameInv, status = "emitting", NEW target, NEW op, NEW rhs,
         target.kind \in {"unset", "name", "index"}, Assign(target, op, rhs)
  PROVE  NameInv' /\ SameDepth
<1>1. CASE target.kind = "unset" BY <1>1, NoCode, EmitKeeps DEF Assign
<1> DEFINE resolved ==
             target.base \in DOMAIN map /\ Known(map, target.index) /\ Known(map, rhs)
<1>2. CASE target.kind # "unset" /\ resolved
  <2>1. Emit(Assignment(target, op, rhs)) BY <1>2 DEF Assign
  <2> DEFINE slot == map[target.base]
             index == emit_expr(map, target.index)
             value == emit_expr(map, rhs)
             get == <<I("GET_LOCAL", slot)>>
             set == <<I("SET_LOCAL", slot)>>
             add == <<I("ADD", 0)>>
             indexSet == <<I("INDEX_SET", 0)>>
             indexGet == <<I("INDEX_GET", 0)>>
  <2>2. slot \in Int BY <1>2, SlotsAre DEF NameInv, NameTypes
  <2>3. /\ index \in Seq(Instruction) /\ value \in Seq(Instruction)
        /\ get \in Seq(Instruction) /\ set \in Seq(Instruction) /\ add \in Seq(Instruction)
        /\ indexSet \in Seq(Instruction) /\ indexGet \in Seq(Instruction)
    BY <1>2, <2>2, ExprType, OneInstruction DEF NameInv, NameTypes, Opcodes
  <2>4. /\ <<I("ADD", 0), I("SET_LOCAL", slot)>> \in Seq(Instruction)
        /\ <<I("ADD", 0), I("INDEX_SET", 0)>> \in Seq(Instruction)
    BY <2>2 DEF I, Instruction, Opcodes
  <2>5. CASE target.kind = "name" /\ op = "=" BY <2>1, <2>3, <2>5, Joined, EmitKeeps DEF Assignment
  <2>6. CASE target.kind = "name" /\ op # "="
    <3>1. Assignment(target, op, rhs) = get \o value \o <<I("ADD", 0), I("SET_LOCAL", slot)>>
      BY <2>6 DEF Assignment, emit_assign_math
    <3> HIDE DEF get, value, slot
    <3>2. Assignment(target, op, rhs) \in Seq(Instruction) BY <2>3, <2>4, <3>1, Joined
    <3> QED BY <2>1, <3>2, EmitKeeps
  <2>7. CASE target.kind = "index" /\ op = "="
    <3>1. Assignment(target, op, rhs) = get \o index \o value \o indexSet BY <2>7 DEF Assignment
    <3> HIDE DEF get, index, value, indexSet
    <3>2. Assignment(target, op, rhs) \in Seq(Instruction) BY <2>3, <3>1, Joined
    <3> QED BY <2>1, <3>2, EmitKeeps
  <2>8. CASE target.kind = "index" /\ op # "="
    <3> DEFINE item == get \o index
    <3>1. Assignment(target, op, rhs)
            = item \o item \o indexGet \o value \o <<I("ADD", 0), I("INDEX_SET", 0)>>
      BY <2>8 DEF Assignment
    <3>2. item \in Seq(Instruction) BY <2>3, Joined
    <3> HIDE DEF item, index, value, indexGet
    <3>3. Assignment(target, op, rhs) \in Seq(Instruction) BY <2>3, <2>4, <3>1, <3>2, Joined
    <3> QED BY <2>1, <3>3, EmitKeeps
  <2> QED BY <1>2, <2>5, <2>6, <2>7, <2>8
<1>3. CASE target.kind # "unset" /\ ~resolved BY <1>3, FailKeeps DEF Assign
<1> QED BY <1>1, <1>2, <1>3

LEMMA VoidKeeps ==
  ASSUME NameInv, status = "emitting", NEW st, Void(st)
  PROVE  NameInv' /\ SameDepth
<1>1. CASE st.name \notin DOMAIN map BY <1>1, FailKeeps DEF Void
<1>2. CASE st.name \in DOMAIN map
  <2>1. /\ map' = Without(map, {st.name})
        /\ code' = Append(code, I("VOID_LOCAL", map[st.name]))
        /\ UNCHANGED <<locals, scopes, loops, hoisted, status>>
    BY <1>2 DEF Void
  <2>2. DOMAIN map \subseteq Names /\ map \in [DOMAIN map -> Nat] BY SlotsAre DEF NameInv, NameTypes
  <2>3. /\ DOMAIN map' \subseteq DOMAIN map /\ map' \in [DOMAIN map' -> Nat]
        /\ \A n \in DOMAIN map' : map'[n] = map[n]
    BY <2>1, <2>2 DEF Without
  <2>4. map' \in Slots BY <2>2, <2>3, SlotsAre
  <2>5. I("VOID_LOCAL", map[st.name]) \in Instruction BY <1>2, <2>2 DEF I, Instruction, Opcodes
  <2>6. code' \in Seq(Instruction) BY <2>1, <2>5 DEF NameInv, NameTypes
  <2>7. NamesAreScoped' BY <2>1, <2>3 DEF NameInv, NamesAreScoped
  <2>8. LoopsHoisted' BY <2>1 DEF NameInv, LoopsHoisted, LoopNames
  <2> QED BY <2>1, <2>4, <2>6, <2>7, <2>8 DEF NameInv, NameTypes, SameDepth
<1> QED BY <1>1, <1>2

\* Whatever a statement declares, hoists, forgets or fails at.
LEMMA StmtKeeps ==
  ASSUME NameInv, status = "emitting", scopes # << >>,
         NEW st \in parse_stmt \cup parse_loop_header_stmt, emit_stmt(st)
  PROVE  NameInv' /\ SameDepth
<1>1. CASE st.kind = "LET"
  <2>1. Let(st) /\ st.name \in Names
    BY <1>1 DEF emit_stmt, parse_stmt, parse_loop_header_stmt, Declarations
  <2>2. CASE st.name \in DOMAIN map BY <2>1, <2>2, FailKeeps DEF Let
  <2>3. CASE st.name \notin DOMAIN map BY <2>1, <2>3, DeclareKeeps DEF Let
  <2> QED BY <2>2, <2>3
<1>2. CASE st.kind = "VOIDLET"
  BY <1>2, DeclareKeeps DEF emit_stmt, parse_stmt, parse_loop_header_stmt, Declarations, VoidLet
<1>3. CASE st.kind = "SLET"
  BY <1>3, SletKeeps DEF emit_stmt, parse_stmt, parse_loop_header_stmt, Declarations
<1>4. CASE st.kind = "SET"
  BY <1>4, AssignKeeps DEF emit_stmt, parse_stmt, parse_loop_header_stmt, Declarations,
     parse_target, Unset
<1>5. CASE st.kind = "INCDEC"
  BY <1>5, AssignKeeps DEF emit_stmt, parse_stmt, parse_loop_header_stmt, Declarations, parse_target
<1>6. CASE st.kind = "VOID" BY <1>6, VoidKeeps DEF emit_stmt
<1>7. /\ SayAndPop \in Seq(Instruction) /\ <<I("POP", 0)>> \in Seq(Instruction)
      /\ <<I("RET", 0)>> \in Seq(Instruction)
      /\ <<I("PUSH_NULL", 0), I("RET", 0)>> \in Seq(Instruction)
  BY DEF SayAndPop, I, Instruction, Opcodes
<1>8. CASE st.kind = "SAY_IDENT" BY <1>7, <1>8, EvaluateKeeps DEF emit_stmt
<1>9. CASE st.kind = "SAY_EXPR" BY <1>7, <1>9, EvaluateKeeps DEF emit_stmt
<1>10. CASE st.kind = "EXPR" BY <1>7, <1>10, EvaluateKeeps DEF emit_stmt
<1>11. CASE st.kind = "RETURN" /\ st.rhs = NoName BY <1>7, <1>11, EmitKeeps DEF emit_stmt
<1>12. CASE st.kind = "RETURN" /\ st.rhs # NoName BY <1>7, <1>12, EvaluateKeeps DEF emit_stmt
<1>13. CASE st.kind = "NOTHING" BY <1>13, NoCode, EmitKeeps DEF emit_stmt
<1>14. st.kind \in {"LET", "VOIDLET", "SLET", "SET", "INCDEC", "VOID", "SAY_IDENT", "SAY_EXPR",
                    "EXPR", "RETURN", "NOTHING"}
  BY DEF parse_stmt, parse_loop_header_stmt, Declarations
<1> QED BY <1>1, <1>2, <1>3, <1>4, <1>5, <1>6, <1>8, <1>9, <1>10, <1>11, <1>12, <1>13, <1>14

-----------------------------------------------------------------------------
(* Blocks: the open statements, against the scopes and the loops *)

Errors == {"NameError", "redeclared", "outside a loop"}

If01(b) == IF b THEN 1 ELSE 0

LEMMA Typed ==
  ASSUME Inv, status = "emitting"
  PROVE  /\ scopes # << >> /\ Len(scopes) \in Nat /\ Len(loops) \in Nat
         /\ open \in Seq(Block) /\ Len(open) \in Nat
         /\ OpenOf(open, LoopKinds) \in Nat /\ OpenOf(open, {"for"}) \in Nat
         /\ Len(loops) = OpenOf(open, LoopKinds)
         /\ Len(scopes) = 1 + Len(open) + OpenOf(open, {"for"})
<1>1. /\ open \in Seq(Block) /\ scopes \in Seq(SUBSET Names) /\ loops \in Seq(Slots)
      /\ Len(loops) = OpenOf(open, LoopKinds)
      /\ Len(scopes) = 1 + Len(open) + OpenOf(open, {"for"})
  BY DEF Inv, NameInv, NameTypes, BlockInv, BlockTypes, OneEach
<1>2. OpenOf(open, LoopKinds) \in Nat /\ OpenOf(open, {"for"}) \in Nat BY <1>1, OpenType
<1> QED BY <1>1, <1>2

LEMMA SameOpen ==
  ASSUME Inv, status = "emitting", open' = open, SameDepth
  PROVE  BlockInv'
<1> QED BY Typed DEF SameDepth, BlockInv, BlockTypes, OneEach, OpenOf

\* A statement is opened, ...
LEMMA Opening ==
  ASSUME Inv, status = "emitting", NEW b \in Block, open' = Append(open, b),
         status' \in {"emitting"} \cup Errors,
         Len(loops') = Len(loops) + If01(b.kind \in LoopKinds),
         Len(scopes') = Len(scopes) + 1 + If01(b.kind = "for")
  PROVE  BlockInv'
<1>0. /\ Len(open) \in Nat /\ OpenOf(open, {"for"}) \in Nat /\ OpenOf(open, LoopKinds) \in Nat
      /\ Len(loops) = OpenOf(open, LoopKinds)
      /\ Len(scopes) = 1 + Len(open) + OpenOf(open, {"for"})
  BY Typed
<1>1. OpenOf(open', LoopKinds) = OpenOf(open, LoopKinds) + If01(b.kind \in LoopKinds)
  BY Typed, OpenAppended DEF If01
<1>2. OpenOf(open', {"for"}) = OpenOf(open, {"for"}) + If01(b.kind = "for")
  BY Typed, OpenAppended DEF If01
<1>3. open' \in Seq(Block) /\ Len(open') = Len(open) + 1 BY Typed
<1>5. /\ Len(loops') = OpenOf(open', LoopKinds)
      /\ Len(scopes') = 1 + Len(open') + OpenOf(open', {"for"})
  BY <1>0, <1>1, <1>2, <1>3 DEF If01
<1> QED BY <1>3, <1>5 DEF BlockInv, BlockTypes, OneEach, OpenOf, Errors

\* ... goes on with its next part, ...
LEMMA Replacing ==
  ASSUME Inv, status = "emitting", open # << >>,
         NEW b \in Block, open' = Append(Below(open), b),
         status' \in {"emitting"} \cup Errors,
         Len(loops') = Len(loops) + If01(b.kind \in LoopKinds)
                         - If01(Top(open).kind \in LoopKinds),
         Len(scopes') = Len(scopes) + If01(b.kind = "for") - If01(Top(open).kind = "for")
  PROVE  BlockInv'
<1>0. /\ Len(open) \in Nat /\ OpenOf(open, {"for"}) \in Nat /\ OpenOf(open, LoopKinds) \in Nat
      /\ Len(loops) = OpenOf(open, LoopKinds)
      /\ Len(scopes) = 1 + Len(open) + OpenOf(open, {"for"})
  BY Typed
<1>1. Below(open) \in Seq(Block) /\ Len(Below(open)) = Len(open) - 1 BY Typed, BelowIsSeq
<1>2. OpenOf(open', LoopKinds)
        = OpenOf(open, LoopKinds) - If01(Top(open).kind \in LoopKinds)
            + If01(b.kind \in LoopKinds)
  BY <1>1, Typed, OpenAppended, OpenBelow DEF If01
<1>3. OpenOf(open', {"for"})
        = OpenOf(open, {"for"}) - If01(Top(open).kind = "for") + If01(b.kind = "for")
  BY <1>1, OpenAppended, Typed, OpenBelow DEF If01
<1>4. open' \in Seq(Block) /\ Len(open') = Len(open) BY <1>1, Typed
<1>5. /\ If01(b.kind = "for") \in Nat /\ If01(Top(open).kind = "for") \in Nat
      /\ If01(b.kind \in LoopKinds) \in Nat /\ If01(Top(open).kind \in LoopKinds) \in Nat
  BY DEF If01
<1>6. Len(loops') = OpenOf(open', LoopKinds) BY <1>0, <1>2, <1>5
<1>7. Len(scopes') = 1 + Len(open') + OpenOf(open', {"for"})
  <2> DEFINE x == If01(b.kind = "for")
             y == If01(Top(open).kind = "for")
             fors == OpenOf(open, {"for"})
  <2>1. x \in Nat /\ y \in Nat /\ fors \in Nat /\ Len(open) \in Nat BY <1>0, <1>5
  <2>2. Len(scopes') = (1 + Len(open) + fors) + x - y BY <1>0
  <2>3. OpenOf(open', {"for"}) = fors - y + x BY <1>3
  <2>4. Len(open') = Len(open) BY <1>4
  <2> HIDE DEF x, y, fors
  <2> QED BY <2>1, <2>2, <2>3, <2>4
<1> QED BY <1>4, <1>6, <1>7 DEF BlockInv, BlockTypes, OneEach, OpenOf, Errors

\* ... and is closed.
LEMMA Closing ==
  ASSUME Inv, status = "emitting", open # << >>, open' = Below(open), status' = "emitting",
         Top(open).kind # "for",
         Len(loops') = Len(loops) - If01(Top(open).kind \in LoopKinds),
         Len(scopes') = Len(scopes) - 1
  PROVE  BlockInv'
<1>1. Below(open) \in Seq(Block) /\ Len(Below(open)) = Len(open) - 1 BY Typed, BelowIsSeq
<1>2. OpenOf(open', LoopKinds) = OpenOf(open, LoopKinds) - If01(Top(open).kind \in LoopKinds)
  BY Typed, OpenBelow DEF If01
<1>3. OpenOf(open', {"for"}) = OpenOf(open, {"for"}) BY Typed, OpenBelow
<1>4. If01(Top(open).kind \in LoopKinds) \in Nat BY DEF If01
<1>5. /\ Len(loops') = OpenOf(open', LoopKinds)
      /\ Len(scopes') = 1 + Len(open') + OpenOf(open', {"for"})
  BY <1>1, <1>2, <1>3, <1>4, Typed
<1> QED BY <1>1, <1>5 DEF BlockInv, BlockTypes, OneEach, OpenOf

-----------------------------------------------------------------------------
(* Scopes that are opened and closed *)

LEMMA PushKeeps ==
  ASSUME NameInv, code' \in Seq(Instruction), scopes' = scope_push(scopes),
         loops' \in {loops, loop_push}, UNCHANGED <<map, locals, hoisted>>
  PROVE  NameInv' /\ Len(scopes') = Len(scopes) + 1
<1>1. /\ scopes \in Seq(SUBSET Names) /\ loops \in Seq(Slots) /\ LoopNames \subseteq hoisted
      /\ NamesAreScoped
  BY DEF NameInv, NameTypes, LoopsHoisted
<1>2. /\ scopes' \in Seq(SUBSET Names) /\ Len(scopes') = Len(scopes) + 1
      /\ \A i \in DOMAIN scopes : i \in DOMAIN scopes' /\ scopes'[i] = scopes[i]
  BY <1>1 DEF scope_push
<1>3. << >> \in Slots
  <2>1. << >> \in [1..0 -> Nat] /\ 1..0 = {} OBVIOUS
  <2> QED BY <2>1, SlotsAre
<1>4. loops' \in Seq(Slots) BY <1>1, <1>3 DEF loop_push
<1>5. \A d \in DOMAIN loops' : DOMAIN loops'[d] \subseteq LoopNames
  <2>1. CASE loops' = loops BY <2>1 DEF LoopNames
  <2>2. CASE loops' = Append(loops, << >>) BY <1>1, <2>2 DEF LoopNames
  <2> QED BY <2>1, <2>2 DEF loop_push
<1>6. LoopNames' \subseteq LoopNames BY <1>5 DEF LoopNames
<1>7. NamesAreScoped' BY <1>1, <1>2 DEF NamesAreScoped
<1> QED BY <1>1, <1>2, <1>4, <1>6, <1>7 DEF NameInv, NameTypes, LoopsHoisted

\* A name that stays when its scope is closed was hoisted.
LEMMA OutsideKeeps ==
  ASSUME NameInv, scopes # << >>, code' \in Seq(Instruction), map' = Outside,
         scopes' \in {Below(scopes), scope_push(Below(scopes))},
         \/ loops' = loops
         \/ loops # << >> /\ loops' = loop_pop,
         UNCHANGED <<locals, hoisted>>
  PROVE  /\ NameInv'
         /\ scopes' = Below(scopes) => Len(scopes') = Len(scopes) - 1
         /\ scopes' = scope_push(Below(scopes)) => Len(scopes') = Len(scopes)
<1>1. /\ scopes \in Seq(SUBSET Names) /\ loops \in Seq(Slots) /\ LoopNames \subseteq hoisted
      /\ NamesAreScoped /\ DOMAIN map \subseteq Names /\ map \in [DOMAIN map -> Nat]
  BY SlotsAre DEF NameInv, NameTypes, LoopsHoisted
<1>2. /\ Below(scopes) \in Seq(SUBSET Names) /\ Len(Below(scopes)) = Len(scopes) - 1
      /\ \A i \in 1..(Len(scopes) - 1) : Below(scopes)[i] = scopes[i]
      /\ Len(scopes) \in Nat
  <2>1. \A s \in Seq(SUBSET Names) : s # << >> =>
          /\ Below(s) \in Seq(SUBSET Names) /\ Len(Below(s)) = Len(s) - 1
          /\ \A i \in 1..(Len(s) - 1) : Below(s)[i] = s[i]
    BY BelowIsSeq
  <2> QED BY <1>1, <2>1
<1>3. /\ scopes' \in Seq(SUBSET Names)
      /\ scopes' = Below(scopes) => Len(scopes') = Len(scopes) - 1
      /\ scopes' = scope_push(Below(scopes)) => Len(scopes') = Len(scopes)
      /\ \A i \in 1..(Len(scopes) - 1) : i \in DOMAIN scopes' /\ scopes'[i] = scopes[i]
  <2>1. CASE scopes' = Below(scopes) BY <1>2, <2>1 DEF scope_push
  <2>2. CASE scopes' = scope_push(Below(scopes))
    <3> DEFINE b == Below(scopes)
    <3> HIDE DEF b
    <3>1. b \in Seq(SUBSET Names) /\ scopes' = Append(b, {}) /\ Len(b) = Len(scopes) - 1
      BY <1>2, <2>2 DEF scope_push, b
    <3> QED BY <1>2, <2>2, <3>1 DEF b
  <2> QED BY <2>1, <2>2
<1>4. /\ DOMAIN map' = DOMAIN map \ (Top(scopes) \ LoopNames)
      /\ \A n \in DOMAIN map' : map'[n] = map[n]
      /\ map' \in [DOMAIN map' -> Nat]
  BY <1>1 DEF Outside, Without
<1>5. map' \in Slots BY <1>1, <1>4, SlotsAre
<1>6. loops' \in Seq(Slots) /\ \A d \in DOMAIN loops' : DOMAIN loops'[d] \subseteq LoopNames
  <2>1. CASE loops' = loops BY <1>1, <2>1 DEF LoopNames
  <2>2. CASE loops # << >> /\ loops' = Below(loops)
    <3>1. /\ loops' \in Seq(Slots) /\ Len(loops') = Len(loops) - 1
          /\ \A d \in 1..(Len(loops) - 1) : loops'[d] = loops[d]
      BY <1>1, <2>2, BelowIsSeq
    <3>2. \A d \in DOMAIN loops' : d \in DOMAIN loops /\ loops'[d] = loops[d] BY <1>1, <3>1
    <3> QED BY <3>1, <3>2 DEF LoopNames
  <2> QED BY <2>1, <2>2 DEF loop_pop
<1>7. LoopNames' \subseteq LoopNames BY <1>6 DEF LoopNames
<1>8. ASSUME NEW n \in DOMAIN map'
      PROVE  /\ n \in hoisted' \/ \E i \in DOMAIN scopes' : n \in scopes'[i]
             /\ map'[n] < Len(locals') /\ locals'[map'[n] + 1] = n
  <2>1. n \in DOMAIN map /\ map'[n] = map[n] /\ (n \in Top(scopes) => n \in LoopNames) BY <1>4
  <2>2. CASE n \in hoisted BY <1>1, <2>1, <2>2 DEF NamesAreScoped
  <2>3. CASE n \notin hoisted
    <3>1. PICK i \in DOMAIN scopes : n \in scopes[i] BY <1>1, <2>1, <2>3 DEF NamesAreScoped
    <3>3. i \in 1..(Len(scopes) - 1) BY <1>1, <2>1, <2>3, <3>1 DEF Top
    <3> QED BY <1>1, <1>3, <2>1, <3>1, <3>3 DEF NamesAreScoped
  <2> QED BY <2>2, <2>3
<1>9. NamesAreScoped' BY <1>8 DEF NamesAreScoped
<1> QED BY <1>1, <1>3, <1>5, <1>6, <1>7, <1>9 DEF NameInv, NameTypes, LoopsHoisted

-----------------------------------------------------------------------------
(* Every step *)

LEMMA OpenedType ==
  /\ \A kind \in BlockKinds, test, start \in Int, ends \in SUBSET Int :
       /\ Opened(kind, test, start, ends) \in Block
       /\ Opened(kind, test, start, ends).kind = kind
  BY DEF Opened, Block

LEMMA TopOf ==
  ASSUME Inv, NEW kinds, Emitting(kinds), "list" \notin kinds
  PROVE  /\ status = "emitting" /\ open # << >>
         /\ Top(open) \in Block /\ Top(open).kind \in kinds
<1>1. status = "emitting" /\ open # << >> /\ Top(open).kind \in kinds BY DEF Emitting
<1>2. Top(open) \in Block BY <1>1, Typed, BelowIsSeq
<1> QED BY <1>1, <1>2

LEMMA CodeTypes ==
  ASSUME Inv
  PROVE  /\ code \in Seq(Instruction) /\ Here \in Int
         /\ \A c \in Seq(Instruction) : code \o c \in Seq(Instruction)
  BY Joined DEF Inv, NameInv, NameTypes, Here

LEMMA TestType ==
  ASSUME NEW m \in Slots, NEW e, Known(m, e)
  PROVE  Test(m, e) \in Seq(Instruction)
<1> QED BY ExprType, Joined, OneInstruction DEF Test, Opcodes

\* The jumps that the end of a block patches.
LEMMA ClosedCode ==
  ASSUME Inv, status = "emitting", open # << >>
  PROVE  /\ ThenClosed \in Seq(Instruction)
         /\ LoopClosed \in Seq(Instruction)
         /\ Ends \in SUBSET Int
<1>1. code \in Seq(Instruction) /\ Here \in Int BY CodeTypes
<1>2. Top(open) \in Block BY Typed, BelowIsSeq
<1>4. /\ Append(code, I("JMP", 0)) \in Seq(Instruction)
      /\ Append(code, I("JMP", ToTest - (Here + 1))) \in Seq(Instruction)
  BY <1>1, <1>2 DEF I, Instruction, Opcodes, ToTest, Block
<1>5. ThenClosed \in Seq(Instruction) /\ LoopClosed \in Seq(Instruction)
  <2>1. Here + 1 \in Int BY <1>1
  <2>2. \A c \in Seq(Instruction) : Patch(c, {Top(open).test}, Here + 1) \in Seq(Instruction)
    BY <2>1, PatchType
  <2> QED BY <1>4, <2>2 DEF ThenClosed, LoopClosed
<1>6. Ends \in SUBSET Int BY <1>1, <1>2 DEF Ends, Block
<1> QED BY <1>5, <1>6

\* A condition of which a name is unknown ends the compilation.
LEMMA FailStep ==
  ASSUME Inv, status = "emitting", Fail("NameError"), UNCHANGED <<chunk, open>>
  PROVE  Inv'
<1>1. NameInv' /\ SameDepth BY FailKeeps DEF Inv
<1>2. BlockInv' BY <1>1, SameOpen
<1> QED BY <1>1, <1>2 DEF Inv, Module

LEMMA NextStatement ==
  ASSUME Inv, Statement PROVE Inv'
<1>1. status = "emitting" /\ UNCHANGED <<chunk, open>> BY DEF Statement, InList, Emitting
<1>2. PICK st \in parse_stmt : emit_stmt(st) BY DEF Statement
<1>3. NameInv' /\ SameDepth BY <1>1, <1>2, Typed, StmtKeeps DEF Inv
<1>4. BlockInv' BY <1>1, <1>3, SameOpen
<1> QED BY <1>1, <1>3, <1>4 DEF Inv, Module

LEMMA NextOpens ==
  ASSUME Inv, If \/ While \/ For PROVE Inv'
<1>1. status = "emitting" /\ chunk' = chunk BY DEF If, While, For, Opens, InList, Emitting
<1>2. map \in Slots /\ NameInv /\ scopes \in Seq(SUBSET Names) /\ loops \in Seq(Slots)
  BY DEF Inv, NameInv, NameTypes
<1>3. Len(loop_push) = Len(loops) + 1 BY <1>2 DEF loop_push
<1>4. CASE If
  <2>1. PICK cond \in Operands :
          IF ~Known(map, cond) THEN Fail("NameError") /\ UNCHANGED open
          ELSE /\ code' = code \o Test(map, cond)
               /\ open' = Append(open, Opened("then", Here + 1, 0, {}))
               /\ scopes' = scope_push(scopes)
               /\ UNCHANGED <<map, locals, loops, hoisted, status>>
    BY <1>4 DEF If
  <2>2. CASE ~Known(map, cond) BY <1>1, <2>1, <2>2, FailStep
  <2>3. CASE Known(map, cond)
    <3>1. code' \in Seq(Instruction) BY <1>2, <2>1, <2>3, TestType, CodeTypes
    <3>2. NameInv' /\ Len(scopes') = Len(scopes) + 1 BY <1>2, <2>1, <2>3, <3>1, PushKeeps
    <3> DEFINE b == Opened("then", Here + 1, 0, {})
    <3>3. b \in Block /\ b.kind = "then" BY CodeTypes, OpenedType DEF BlockKinds
    <3> HIDE DEF b
    <3>4. open' = Append(open, b) /\ loops' = loops /\ status' = "emitting"
      BY <1>1, <2>1, <2>3 DEF b
    <3>5. If01(b.kind \in LoopKinds) = 0 /\ If01(b.kind = "for") = 0 BY <3>3 DEF If01, LoopKinds
    <3>6. BlockInv' BY <1>1, <3>2, <3>3, <3>4, <3>5, Typed, Opening
    <3> QED BY <1>1, <3>2, <3>6 DEF Inv, Module
  <2> QED BY <2>2, <2>3
<1>5. CASE While
  <2>1. PICK cond \in Operands :
          IF ~Known(map, cond) THEN Fail("NameError") /\ UNCHANGED open
          ELSE /\ code' = code \o Test(map, cond)
               /\ open' = Append(open, Opened("while", Here + 1, Here, {}))
               /\ scopes' = scope_push(scopes) /\ loops' = loop_push
               /\ UNCHANGED <<map, locals, hoisted, status>>
    BY <1>5 DEF While
  <2>2. CASE ~Known(map, cond) BY <1>1, <2>1, <2>2, FailStep
  <2>3. CASE Known(map, cond)
    <3>1. code' \in Seq(Instruction) BY <1>2, <2>1, <2>3, TestType, CodeTypes
    <3>2. NameInv' /\ Len(scopes') = Len(scopes) + 1 BY <1>2, <2>1, <2>3, <3>1, PushKeeps
    <3> DEFINE b == Opened("while", Here + 1, Here, {})
    <3>3. b \in Block /\ b.kind = "while" BY CodeTypes, OpenedType DEF BlockKinds, LoopKinds
    <3> HIDE DEF b
    <3>4. open' = Append(open, b) /\ loops' = loop_push /\ status' = "emitting"
      BY <1>1, <2>1, <2>3 DEF b
    <3>5. If01(b.kind \in LoopKinds) = 1 /\ If01(b.kind = "for") = 0 BY <3>3 DEF If01, LoopKinds
    <3>6. BlockInv' BY <1>1, <1>3, <3>2, <3>3, <3>4, <3>5, Typed, Opening
    <3> QED BY <1>1, <3>2, <3>6 DEF Inv, Module
  <2> QED BY <2>2, <2>3
<1>6. CASE For
  <2> DEFINE b == Opened("init", 0, 0, {})
  <2>1. /\ loops' = loop_push /\ scopes' = scope_push(scopes) /\ open' = Append(open, b)
        /\ UNCHANGED <<code, map, locals, hoisted, status>>
    BY <1>6 DEF For
  <2>2. b \in Block /\ b.kind = "init" BY OpenedType DEF BlockKinds, LoopKinds
  <2> HIDE DEF b
  <2>3. NameInv' /\ Len(scopes') = Len(scopes) + 1 BY <1>2, <2>1, CodeTypes, PushKeeps
  <2>4. If01(b.kind \in LoopKinds) = 1 /\ If01(b.kind = "for") = 0 BY <2>2 DEF If01, LoopKinds
  <2>5. BlockInv' BY <1>1, <1>3, <2>1, <2>2, <2>3, <2>4, Typed, Opening
  <2> QED BY <1>1, <2>3, <2>5 DEF Inv, Module
<1> QED BY <1>4, <1>5, <1>6

LEMMA NextElse ==
  ASSUME Inv, Else \/ ElseIf PROVE Inv'
<1>1. Emitting({"then"}) /\ chunk' = chunk BY DEF Else, ElseIf
<1>2. /\ status = "emitting" /\ open # << >> /\ Top(open) \in Block
      /\ Top(open).kind = "then"
  BY <1>1, TopOf
<1>3. /\ ThenClosed \in Seq(Instruction) /\ Ends \in SUBSET Int
      /\ Here + 2 \in Int /\ 0 \in Int
  BY <1>2, ClosedCode, CodeTypes
<1>4. /\ NameInv /\ scopes \in Seq(SUBSET Names) /\ scopes # << >>
      /\ Len(scopes) \in Nat /\ Len(loops) \in Nat
  BY <1>2, Typed DEF Inv, NameInv, NameTypes
<1>5. CASE Else
  <2> DEFINE b == Opened("else", 0, 0, Ends)
  <2>1. /\ code' = ThenClosed /\ open' = Append(Below(open), b)
        /\ map' = Outside /\ scopes' = scope_push(Below(scopes))
        /\ UNCHANGED <<locals, loops, hoisted, status>>
    BY <1>5 DEF Else
  <2>2. b \in Block /\ b.kind = "else" BY <1>3, OpenedType DEF BlockKinds
  <2> HIDE DEF b
  <2>3. NameInv' /\ Len(scopes') = Len(scopes) BY <1>3, <1>4, <2>1, OutsideKeeps
  <2>4. /\ If01(b.kind \in LoopKinds) = 0 /\ If01(b.kind = "for") = 0
        /\ If01(Top(open).kind \in LoopKinds) = 0 /\ If01(Top(open).kind = "for") = 0
    BY <1>2, <2>2 DEF If01, LoopKinds
  <2>5. /\ status' = "emitting"
        /\ Len(loops') = Len(loops) + 0 - 0 /\ Len(scopes') = Len(scopes) + 0 - 0
    BY <1>2, <1>4, <2>1, <2>3
  <2>6. BlockInv' BY <1>2, <2>1, <2>2, <2>4, <2>5, Replacing
  <2> QED BY <1>1, <2>3, <2>6 DEF Inv, Module
<1>6. CASE ElseIf
  <2>1. PICK cond \in Operands :
          IF ~Known(Outside, cond) THEN Fail("NameError") /\ UNCHANGED open
          ELSE /\ code' = ThenClosed \o Test(Outside, cond)
               /\ open' = Append(Below(open), Opened("then", Here + 2, 0, Ends))
               /\ map' = Outside /\ scopes' = scope_push(Below(scopes))
               /\ UNCHANGED <<locals, loops, hoisted, status>>
    BY <1>6 DEF ElseIf
  <2>2. CASE ~Known(Outside, cond) BY <1>1, <1>2, <2>1, <2>2, FailStep
  <2>3. CASE Known(Outside, cond)
    <3> DEFINE b == Opened("then", Here + 2, 0, Ends)
    <3>1. /\ code' = ThenClosed \o Test(Outside, cond) /\ open' = Append(Below(open), b)
          /\ map' = Outside /\ scopes' = scope_push(Below(scopes))
          /\ UNCHANGED <<locals, loops, hoisted, status>>
      BY <2>1, <2>3
    <3>2. b \in Block /\ b.kind = "then" BY <1>3, OpenedType DEF BlockKinds
    <3> HIDE DEF b
    <3>3. Outside \in Slots BY <1>4, SlotsAre DEF NameInv, NameTypes, Outside, Without
    <3>4. code' \in Seq(Instruction) BY <1>3, <2>3, <3>1, <3>3, TestType, Joined
    <3>5. NameInv' /\ Len(scopes') = Len(scopes) BY <1>4, <3>1, <3>4, OutsideKeeps
    <3>6. /\ If01(b.kind \in LoopKinds) = 0 /\ If01(b.kind = "for") = 0
          /\ If01(Top(open).kind \in LoopKinds) = 0 /\ If01(Top(open).kind = "for") = 0
      BY <1>2, <3>2 DEF If01, LoopKinds
    <3>7. /\ status' = "emitting"
          /\ Len(loops') = Len(loops) + 0 - 0 /\ Len(scopes') = Len(scopes) + 0 - 0
      BY <1>2, <1>4, <3>1, <3>5
    <3>8. BlockInv' BY <1>2, <3>1, <3>2, <3>6, <3>7, Replacing
    <3> QED BY <1>1, <3>5, <3>8 DEF Inv, Module
  <2> QED BY <2>2, <2>3
<1> QED BY <1>5, <1>6

\* The ends of IF, WHILE and FOR; of a loop, its hoisted names are forgotten.
LEMMA NextCloses ==
  ASSUME Inv, EndIf \/ EndWhile \/ EndFor PROVE Inv'
<1>1. /\ Emitting({"then", "else", "while", "step", "stepped"}) /\ Close
  BY DEF EndIf, EndWhile, EndFor, Emitting
<1>2. /\ status = "emitting" /\ open # << >> /\ Top(open) \in Block
      /\ Top(open).kind \in {"then", "else", "while", "step", "stepped"}
  BY <1>1, TopOf
<1>3. /\ map' = Outside /\ scopes' = Below(scopes) /\ open' = Below(open)
      /\ UNCHANGED <<chunk, locals, hoisted, status>>
  BY <1>1 DEF Close
<1>4. /\ NameInv /\ scopes # << >> /\ loops \in Seq(Slots)
      /\ Len(scopes) \in Nat /\ Len(loops) \in Nat /\ Len(loops) = OpenOf(open, LoopKinds)
  BY <1>2, Typed DEF Inv, NameInv, NameTypes
<1>5. ASSUME Top(open).kind \in LoopKinds PROVE loops # << >>
  <2>1. /\ OpenOf(Below(open), LoopKinds) = OpenOf(open, LoopKinds) - 1
        /\ OpenOf(Below(open), LoopKinds) \in Nat
    BY <1>2, <1>5, Typed, OpenBelow, BelowIsSeq, OpenType
  <2> QED BY <1>4, <2>1
<1>6. /\ code' \in Seq(Instruction)
      /\ \/ loops' = loops /\ Top(open).kind \notin LoopKinds
         \/ loops # << >> /\ loops' = loop_pop /\ Top(open).kind \in LoopKinds
  <2>1. CASE EndIf BY <1>2, <2>1, ClosedCode, CodeTypes, PatchType DEF EndIf, Emitting, LoopKinds
  <2>2. CASE EndWhile \/ EndFor
    BY <1>2, <1>5, <2>2, ClosedCode DEF EndWhile, EndFor, Emitting, LoopKinds
  <2> QED BY <2>1, <2>2
<1>7. NameInv' /\ Len(scopes') = Len(scopes) - 1 BY <1>3, <1>4, <1>6, OutsideKeeps
<1>8. Len(loops') = Len(loops) - If01(Top(open).kind \in LoopKinds)
  <2>1. CASE loops' = loops /\ Top(open).kind \notin LoopKinds BY <1>4, <2>1 DEF If01
  <2>2. CASE loops # << >> /\ loops' = loop_pop /\ Top(open).kind \in LoopKinds
    BY <1>4, <2>2, BelowIsSeq DEF loop_pop, If01
  <2> QED BY <1>6, <2>1, <2>2
<1>9. BlockInv' BY <1>2, <1>3, <1>7, <1>8, Closing
<1> QED BY <1>3, <1>7, <1>9 DEF Inv, Module

\* The parts of a FOR between its body and its ends.
LEMMA NextForPart ==
  ASSUME Inv, ForInit \/ ForLimit \/ ForBodyEnd \/ ForStep PROVE Inv'
<1>1. Emitting({"init", "limit", "for", "step"}) /\ chunk' = chunk
  BY DEF ForInit, ForLimit, ForBodyEnd, ForStep, Emitting
<1>2. status = "emitting" /\ open # << >> /\ Top(open) \in Block BY <1>1, TopOf
<1>3. /\ NameInv /\ map \in Slots /\ scopes # << >>
      /\ Len(scopes) \in Nat /\ Len(loops) \in Nat
  BY <1>2, Typed DEF Inv, NameInv, NameTypes
<1>4. ASSUME NEW b \in Block, open' = Append(Below(open), b), NameInv', SameDepth,
             Top(open).kind \in LoopKinds \ {"for"}, b.kind \in LoopKinds \ {"for"}
      PROVE  Inv'
  <2>1. /\ If01(b.kind \in LoopKinds) = 1 /\ If01(b.kind = "for") = 0
        /\ If01(Top(open).kind \in LoopKinds) = 1 /\ If01(Top(open).kind = "for") = 0
    BY <1>4 DEF If01
  <2>2. /\ status' \in {"emitting"} \cup Errors
        /\ Len(loops') = Len(loops) /\ Len(scopes') = Len(scopes)
    BY <1>4 DEF SameDepth, Errors
  <2>4. Len(loops') = Len(loops) + 1 - 1 /\ Len(scopes') = Len(scopes) + 0 - 0 BY <1>3, <2>2
  <2>3. BlockInv' BY <1>2, <1>4, <2>1, <2>2, <2>4, Replacing
  <2> QED BY <1>1, <1>4, <2>3 DEF Inv, Module
<1>5. CASE ForInit
  <2>2. PICK st \in parse_loop_header_stmt, n \in Names \cup {Garbage} :
          /\ emit_stmt(st)
          /\ open' = Append(Below(open),
                            [Opened("limit", 0, Len(code'), {}) EXCEPT !.iter = n])
    BY <1>5 DEF ForInit
  <2>3. NameInv' /\ SameDepth BY <1>2, <1>3, <2>2, StmtKeeps
  <2> DEFINE b == [Opened("limit", 0, Len(code'), {}) EXCEPT !.iter = n]
  <2>4. b \in Block /\ b.kind = "limit"
    <3>1. Len(code') \in Int BY <2>3 DEF NameInv, NameTypes
    <3>2. "limit" \in BlockKinds /\ 0 \in Int /\ {} \in SUBSET Int BY DEF BlockKinds, LoopKinds
    <3> DEFINE new == Opened("limit", 0, Len(code'), {})
    <3>3. new \in Block /\ new.kind = "limit" BY <3>1, <3>2, OpenedType
    <3> HIDE DEF new
    <3> QED BY <2>2, <3>3 DEF new, Block
  <2> HIDE DEF b
  <2>5. Top(open).kind \in LoopKinds \ {"for"} /\ b.kind \in LoopKinds \ {"for"}
    BY <1>2, <1>5, <2>4 DEF LoopKinds, ForInit, Emitting
  <2>6. open' = Append(Below(open), b) BY <2>2 DEF b
  <2> QED BY <1>4, <2>3, <2>4, <2>5, <2>6
<1>6. CASE ForLimit
  <2> DEFINE iter == Top(open).iter
  <2>2. PICK limit \in Operands :
          IF ~(Known(map, iter) /\ Known(map, limit)) THEN Fail("NameError") /\ UNCHANGED open
          ELSE /\ code' = code \o emit_expr(map, iter) \o emit_expr(map, limit)
                               \o <<I("LT", 0), I("JMP_IF_FALSE", 0)>>
               /\ open' = Append(Below(open), Opened("for", Here + 3, Top(open).start, {}))
               /\ scopes' = scope_push(scopes)
               /\ UNCHANGED <<map, locals, loops, hoisted, status>>
    BY <1>6 DEF ForLimit
  <2>3. CASE ~(Known(map, iter) /\ Known(map, limit)) BY <1>1, <1>2, <2>2, <2>3, FailStep
  <2>4. CASE Known(map, iter) /\ Known(map, limit)
    <3> DEFINE b == Opened("for", Here + 3, Top(open).start, {})
               first == emit_expr(map, iter)
               second == emit_expr(map, limit)
    <3>1. /\ code' = code \o first \o second \o <<I("LT", 0), I("JMP_IF_FALSE", 0)>>
          /\ open' = Append(Below(open), b) /\ scopes' = scope_push(scopes)
          /\ UNCHANGED <<map, locals, loops, hoisted, status>>
      BY <2>2, <2>4
    <3>2. first \in Seq(Instruction) /\ second \in Seq(Instruction) BY <1>3, <2>4, ExprType
    <3>3. b \in Block /\ b.kind = "for"
      BY <1>2, CodeTypes, OpenedType DEF Block, BlockKinds, LoopKinds
    <3> HIDE DEF b, first, second
    <3>5. code' \in Seq(Instruction) BY <3>1, <3>2, CodeTypes, Joined DEF I, Instruction, Opcodes
    <3>6. NameInv' /\ Len(scopes') = Len(scopes) + 1 BY <1>3, <3>1, <3>5, PushKeeps
    <3>7. /\ If01(b.kind \in LoopKinds) = 1 /\ If01(b.kind = "for") = 1
          /\ If01(Top(open).kind \in LoopKinds) = 1 /\ If01(Top(open).kind = "for") = 0
      BY <1>2, <1>6, <3>3 DEF If01, LoopKinds, ForLimit, Emitting
    <3>8. /\ status' = "emitting"
          /\ Len(loops') = Len(loops) + 1 - 1 /\ Len(scopes') = Len(scopes) + 1 - 0
      BY <1>2, <1>3, <3>1, <3>6
    <3>9. BlockInv' BY <1>2, <3>1, <3>3, <3>7, <3>8, Replacing
    <3> QED BY <1>1, <3>6, <3>9 DEF Inv, Module
  <2> QED BY <2>3, <2>4
<1>7. CASE ForBodyEnd
  <2> DEFINE b == [Top(open) EXCEPT !.kind = "step"]
  <2>1. /\ Top(open).kind = "for" /\ map' = Outside /\ scopes' = Below(scopes)
        /\ open' = Append(Below(open), b)
        /\ UNCHANGED <<code, locals, loops, hoisted, status>>
    BY <1>2, <1>7 DEF ForBodyEnd, Emitting
  <2>2. b \in Block /\ b.kind = "step" BY <1>2 DEF Block, BlockKinds, LoopKinds
  <2> HIDE DEF b
  <2>3. NameInv' /\ Len(scopes') = Len(scopes) - 1 BY <1>3, <2>1, CodeTypes, OutsideKeeps
  <2>4. /\ If01(b.kind \in LoopKinds) = 1 /\ If01(b.kind = "for") = 0
        /\ If01(Top(open).kind \in LoopKinds) = 1 /\ If01(Top(open).kind = "for") = 1
    BY <2>1, <2>2 DEF If01, LoopKinds
  <2>5. /\ status' = "emitting"
        /\ Len(loops') = Len(loops) + 1 - 1 /\ Len(scopes') = Len(scopes) + 0 - 1
    BY <1>2, <1>3, <2>1, <2>3
  <2>6. BlockInv' BY <1>2, <2>1, <2>2, <2>4, <2>5, Replacing
  <2> QED BY <1>1, <2>3, <2>6 DEF Inv, Module
<1>8. CASE ForStep
  <2> DEFINE b == [Top(open) EXCEPT !.kind = "stepped"]
  <2>1. Top(open).kind = "step" /\ open' = Append(Below(open), b)
    BY <1>2, <1>8 DEF ForStep, Emitting
  <2>2. PICK st \in parse_loop_header_stmt : emit_stmt(st) BY <1>8 DEF ForStep
  <2>3. NameInv' /\ SameDepth BY <1>2, <1>3, <2>2, StmtKeeps
  <2>4. b \in Block /\ b.kind = "stepped" BY <1>2 DEF Block, BlockKinds, LoopKinds
  <2> HIDE DEF b
  <2> QED BY <1>4, <2>1, <2>3, <2>4 DEF LoopKinds
<1> QED BY <1>5, <1>6, <1>7, <1>8

LEMMA NoneOpen ==
  ASSUME NEW kinds PROVE OpenOf(<< >>, kinds) = 0
<1> QED BY FS_EmptySet DEF OpenOf

LEMMA NextEndChunk ==
  ASSUME Inv, EndChunk PROVE Inv'
<1>1. /\ status = "emitting" /\ status' = "emitted" /\ Emitting({"list"})
      /\ code' = code \o <<I("PUSH_NULL", 0), I("RET", 0), I("HALT", 0)>>
      /\ map' = Outside /\ scopes' = Below(scopes)
      /\ UNCHANGED <<chunk, locals, loops, hoisted, open>>
  BY DEF EndChunk, Emitting
<1>2. open = << >>
  <2>1. CASE open # << >>
    <3>1. Top(open) \in Block /\ Top(open).kind = "list"
      BY <1>1, <2>1, Typed, BelowIsSeq DEF Emitting
    <3> QED BY <3>1 DEF Block, BlockKinds, LoopKinds
  <2> QED BY <2>1
<1>4. code' \in Seq(Instruction) BY <1>1, CodeTypes DEF I, Instruction, Opcodes
<1>5. NameInv' /\ Len(scopes') = Len(scopes) - 1 BY <1>1, <1>4, Typed, OutsideKeeps DEF Inv
<1>6. /\ Len(open) = 0 /\ OpenOf(open, {"for"}) = 0 /\ OpenOf(open, LoopKinds) = 0
      /\ Len(scopes) = 1 /\ Len(loops) = 0
  BY <1>1, <1>2, Typed, NoneOpen
<1>7. BlockInv' BY <1>1, <1>2, <1>5, <1>6, Typed DEF BlockInv, BlockTypes, OneEach, OpenOf
<1> QED BY <1>1, <1>5, <1>7 DEF Inv, Module

\* A chunk begins with the names and the slots of its parameters.
Begun(params) ==
  /\ code = << >> /\ locals = params /\ map = ParamMap(params)
  /\ scopes = <<{params[i] : i \in DOMAIN params}>>
  /\ loops = << >> /\ open = << >> /\ status = "emitting"

BeginsWell == \A params \in Seq(Names) : Begun(params) => NameInv /\ BlockInv

LEMMA Beginning == BeginsWell
<1> SUFFICES ASSUME NEW params \in Seq(Names), Begun(params) PROVE NameInv /\ BlockInv
  BY DEF BeginsWell
<1>1. /\ map \in Slots /\ DOMAIN map = {params[i] : i \in DOMAIN params}
      /\ \A n \in DOMAIN map : map[n] < Len(params) /\ params[map[n] + 1] = n
  BY ParamMapScoped DEF Begun
<1>3. /\ scopes \in Seq(SUBSET Names) /\ Len(scopes) = 1
      /\ 1 \in DOMAIN scopes /\ scopes[1] = DOMAIN map
  BY <1>1 DEF Begun
<1>4. NamesAreScoped BY <1>1, <1>3 DEF NamesAreScoped, Begun
<1>5. LoopNames = {} BY DEF LoopNames, Begun
<1>6. /\ code \in Seq(Instruction) /\ locals \in Seq(Names)
      /\ loops \in Seq(Slots) /\ Len(loops) = 0
      /\ open \in Seq(Block) /\ Len(open) = 0 /\ status = "emitting"
  BY DEF Begun
<1>7. OpenOf(open, LoopKinds) = 0 /\ OpenOf(open, {"for"}) = 0 BY NoneOpen DEF Begun
<1> QED
  BY <1>1, <1>3, <1>4, <1>5, <1>6, <1>7
     DEF NameInv, NameTypes, LoopsHoisted, BlockInv, BlockTypes, OneEach

LEMMA NextBegins ==
  ASSUME Inv, NextChunk PROVE Inv'
<1> DEFINE params == IF chunk + 1 = Module THEN << >> ELSE Functions[chunk + 1]
<1>1. /\ status = "emitted" /\ chunk < Module /\ chunk' = chunk + 1 /\ status' = "emitting"
      /\ locals' = params /\ map' = ParamMap(params)
      /\ scopes' = Append(scopes, {params[i] : i \in DOMAIN params})
      /\ code' = << >> /\ loops' = loops /\ open' = open
  BY DEF NextChunk, Begin
<1>2. open = << >> /\ Len(scopes) = 0 /\ Len(loops) = 0
  BY <1>1, NoneOpen DEF Inv, BlockInv, BlockTypes, OneEach
<1>3. scopes = << >> /\ loops = << >> BY <1>2 DEF Inv, NameInv, NameTypes
<1>4. chunk \in Nat /\ Len(Functions) \in Nat /\ chunk \in 1..(Len(Functions) + 1)
  BY EmitterAssumption DEF Inv, Module
<1>5. params \in Seq(Names) BY <1>1, <1>4, EmitterAssumption DEF Module
<1>6. chunk' \in 1..Module' BY <1>1, <1>4 DEF Module
<1> HIDE DEF params
<1>8. BeginsWell' BY Beginning, PTL
<1>9. PICK ps \in Seq(Names) : ps = params BY <1>5
<1>10. Begun(ps)' BY <1>1, <1>2, <1>3, <1>9 DEF Begun
<1>11. NameInv' /\ BlockInv' BY <1>8, <1>9, <1>10 DEF BeginsWell
<1> QED BY <1>6, <1>11 DEF Inv

-----------------------------------------------------------------------------
(* The theorems *)

LEMMA InitInv == Init => Inv
<1> SUFFICES ASSUME Init PROVE Inv OBVIOUS
<1>1. Functions[1] \in Seq(Names) /\ chunk \in 1..Module BY EmitterAssumption DEF Init, Module
<1>2. Begun(Functions[1]) BY DEF Init, Begun
<1>3. NameInv /\ BlockInv BY <1>1, <1>2, Beginning DEF BeginsWell
<1> QED BY <1>1, <1>3 DEF Inv

LEMMA NextInv == Inv /\ [Next]_vars => Inv'
<1> SUFFICES ASSUME Inv, [Next]_vars PROVE Inv' OBVIOUS
<1>1. CASE Statement BY <1>1, NextStatement
<1>2. CASE If \/ While \/ For BY <1>2, NextOpens
<1>3. CASE Else \/ ElseIf BY <1>3, NextElse
<1>4. CASE EndIf \/ EndWhile \/ EndFor BY <1>4, NextCloses
<1>5. CASE ForInit \/ ForLimit \/ ForBodyEnd \/ ForStep BY <1>5, NextForPart
<1>6. CASE EndChunk BY <1>6, NextEndChunk
<1>7. CASE NextChunk BY <1>7, NextBegins
<1>8. CASE UNCHANGED vars
  <2>1. NameInv'
    BY <1>8 DEF vars, context, Inv, NameInv, NameTypes, LoopsHoisted, LoopNames, NamesAreScoped
  <2>2. BlockInv' BY <1>8 DEF vars, context, Inv, BlockInv, BlockTypes, OneEach, OpenOf
  <2> QED BY <1>8, <2>1, <2>2 DEF vars, Inv, Module
<1> QED BY <1>1, <1>2, <1>3, <1>4, <1>5, <1>6, <1>7, <1>8 DEF Next

\* For programs of every length and depth, with errors anywhere: the bytecode's
\* operands are numbers, there is a scope for every open block and a set of
\* hoisted names for every open loop, and the name map agrees with both.
THEOREM EmitterInvariant == Spec => []Inv
  BY InitInv, NextInv, PTL DEF Spec

\* The stacks of scopes and loops that emit_stmt pushes and pops are as deep as
\* the statements open, for every program.
THEOREM TypeCorrect == Spec => []TypeOK
<1>1. Inv => TypeOK
  <2> SUFFICES ASSUME Inv PROVE TypeOK OBVIOUS
  <2>1. \A i \in DOMAIN code : code[i].arg \in Int
    <3>1. \A i \in DOMAIN code : code[i] \in Instruction BY DEF Inv, NameInv, NameTypes
    <3> QED BY <3>1 DEF Instruction
  <2>2. DOMAIN map \subseteq Names BY SlotsAre DEF Inv, NameInv, NameTypes
  <2>3. /\ \A i \in DOMAIN locals : locals[i] \in Names
        /\ \A i \in DOMAIN scopes : scopes[i] \subseteq Names
    BY DEF Inv, NameInv, NameTypes
  <2>4. {i \in DOMAIN open : open[i].kind \in {"for"}}
          = {i \in DOMAIN open : open[i].kind = "for"}
    OBVIOUS
  <2> QED BY <2>1, <2>2, <2>3, <2>4 DEF Inv, BlockInv, BlockTypes, OneEach, OpenOf, TypeOK
<1> QED BY <1>1, EmitterInvariant, PTL

\* For every program, a name that resolves was declared in a block that is open
\* or hoisted out of a loop, and resolves to a slot made for it: scope_pop and
\* the ends of loops take from the name map exactly what may not stay.
THEOREM NamesResolve == Spec => []NamesAreScoped
<1>1. Inv => NamesAreScoped BY DEF Inv, NameInv
<1> QED BY <1>1, EmitterInvariant, PTL

-----------------------------------------------------------------------------
(* Induction over addresses *)

\* The induction on which facts about addresses rest.
LEMMA CountUp ==
  ASSUME NEW S, 0 \in S, \A k \in Nat : k \in S => k + 1 \in S
  PROVE  \A k \in Nat : k \in S
<1> DEFINE R == {ss \in Nat \X Nat : ss[1] < ss[2]}
           B == {k \in Nat : k \notin S}
<1>1. R = OpToRel(<, Nat) BY Zenon DEF OpToRel
<1>2. IsWellFoundedOn(R, Nat) BY <1>1, NatLessThanWellFounded, Zenon
<1>3. \A x, y \in Nat : y < x => <<y, x>> \in R OBVIOUS
<1> HIDE DEF R
<1> SUFFICES ASSUME B # {} PROVE FALSE OBVIOUS
<1>4. PICK m \in B : \A y \in B : ~ (<<y, m>> \in R)
  <2>1. B \subseteq Nat OBVIOUS
  <2> HIDE DEF B
  <2> QED BY <1>2, <2>1, WFMin, Zenon
<1>5. m \in Nat /\ m \notin S /\ m # 0 BY <1>4
<1>6. m - 1 \in Nat /\ m - 1 < m /\ (m - 1) + 1 = m BY <1>5
<1>7. m - 1 \in S BY <1>3, <1>4, <1>5, <1>6
<1> QED BY <1>5, <1>6, <1>7

\* A function is defined by its first value and the way from each to the next.
Recurs(g, N, X, z, F) ==
  g \in [0..N -> X] /\ g[0] = z /\ \A n \in 1..N : g[n] = F[n][g[n - 1]]

LEMMA Recursion ==
  ASSUME NEW N \in Nat, NEW X, NEW z \in X, NEW F \in [1..N -> [X -> X]]
  PROVE  \E g : Recurs(g, N, X, z, F)
<1> DEFINE Has(k) == \E g \in [0..k -> X] : g[0] = z /\ \A n \in 1..k : g[n] = F[n][g[n - 1]]
           S == {k \in Nat : k <= N => Has(k)}
<1>1. 0 \in S
  <2> DEFINE g == [n \in 0..0 |-> z]
  <2>1. g \in [0..0 -> X] /\ g[0] = z /\ \A n \in 1..0 : g[n] = F[n][g[n - 1]] OBVIOUS
  <2> QED BY <2>1
<1>2. ASSUME NEW k \in Nat, k \in S PROVE k + 1 \in S
  <2> SUFFICES ASSUME k + 1 <= N PROVE Has(k + 1) OBVIOUS
  <2>1. PICK g \in [0..k -> X] : g[0] = z /\ \A n \in 1..k : g[n] = F[n][g[n - 1]] BY <1>2
  <2> DEFINE h == [n \in 0..(k + 1) |-> IF n = k + 1 THEN F[k + 1][g[k]] ELSE g[n]]
  <2>3. h \in [0..(k + 1) -> X] /\ h[0] = z /\ h[k + 1] = F[k + 1][g[k]]
        /\ \A n \in 0..k : h[n] = g[n]
    BY <2>1
  <2> HIDE DEF h
  <2>4. ASSUME NEW n \in 1..(k + 1) PROVE h[n] = F[n][h[n - 1]]
    <3>1. CASE n = k + 1 BY <2>3, <3>1
    <3>2. CASE n # k + 1 BY <2>1, <2>3, <3>2
    <3> QED BY <3>1, <3>2
  <2> QED BY <2>3, <2>4
<1> HIDE DEF Has
<1>3. N \in S BY <1>1, <1>2, CountUp
<1> QED BY <1>3 DEF Has, Recurs

-----------------------------------------------------------------------------
(* The depth of the stack *)

Effect(i) == Gives(i) - Takes(i)

LEMMA EffectType ==
  ASSUME NEW i \in Instruction
  PROVE  Takes(i) \in Int /\ Gives(i) \in Int /\ Effect(i) \in Int
<1>1. i.arg \in Int BY DEF Instruction
<1> QED BY <1>1 DEF Takes, Gives, Effect

IsDepths(f, c) ==
  f = [a \in 0..Len(c) |-> IF a = 0 THEN 0
                           ELSE f[a - 1] - Takes(At(c, a - 1)) + Gives(At(c, a - 1))]

LEMMA AtType ==
  ASSUME NEW c \in Seq(Instruction)
  PROVE  \A a \in 0..(Len(c) - 1) : At(c, a) \in Instruction
  BY DEF At

\* The stack is empty before the first instruction, and every other changes it.
LEMMA DepthsAre ==
  ASSUME NEW c \in Seq(Instruction)
  PROVE  /\ Depths(c) \in [0..Len(c) -> Int] /\ Depths(c)[0] = 0
         /\ \A a \in 0..(Len(c) - 1) : Depths(c)[a + 1] = Depths(c)[a] + Effect(At(c, a))
<1> DEFINE N == Len(c)
           F == [n \in 1..N |-> [x \in Int |-> x - Takes(At(c, n - 1)) + Gives(At(c, n - 1))]]
<1>1. N \in Nat OBVIOUS
<1>2. \A n \in 1..N : Takes(At(c, n - 1)) \in Int /\ Gives(At(c, n - 1)) \in Int
  <2> SUFFICES ASSUME NEW n \in 1..N
               PROVE Takes(At(c, n - 1)) \in Int /\ Gives(At(c, n - 1)) \in Int
    OBVIOUS
  <2>1. n - 1 \in 0..(N - 1) BY <1>1
  <2> QED BY <2>1, AtType, EffectType
<1>3. F \in [1..N -> [Int -> Int]] BY <1>2
<1>4. PICK g \in [0..N -> Int] : g[0] = 0 /\ \A n \in 1..N : g[n] = F[n][g[n - 1]]
  <2>1. PICK X : X = Int OBVIOUS
  <2> HIDE DEF F
  <2>2. 0 \in X /\ F \in [1..N -> [X -> X]] BY <1>3, <2>1
  <2>3. \E g : Recurs(g, N, X, 0, F) BY <1>1, <2>2, Recursion
  <2> QED BY <2>1, <2>3 DEF Recurs
<1>5. \A n \in 1..N : g[n - 1] \in Int
                    /\ g[n] = g[n - 1] - Takes(At(c, n - 1)) + Gives(At(c, n - 1))
  <2> SUFFICES ASSUME NEW n \in 1..N
               PROVE  /\ g[n - 1] \in Int
                      /\ g[n] = g[n - 1] - Takes(At(c, n - 1)) + Gives(At(c, n - 1))
    OBVIOUS
  <2>1. n - 1 \in 0..N BY <1>1
  <2>2. g[n - 1] \in Int BY <2>1
  <2> QED BY <1>4, <2>2
<1> HIDE DEF F
<1>6. IsDepths(g, c)
  <2> DEFINE h == [a \in 0..N |-> IF a = 0 THEN 0
                                  ELSE g[a - 1] - Takes(At(c, a - 1)) + Gives(At(c, a - 1))]
  <2>1. \A a \in 0..N : g[a] = h[a]
    <3> SUFFICES ASSUME NEW a \in 0..N PROVE g[a] = h[a] OBVIOUS
    <3>1. CASE a = 0 BY <1>4, <3>1
    <3>2. CASE a # 0 BY <1>1, <1>5, <3>2
    <3> QED BY <3>1, <3>2
  <2>2. g = h
    <3>2. g = [a \in 0..N |-> g[a]] OBVIOUS
    <3> HIDE DEF h
    <3> QED BY <2>1, <3>2
  <2> QED BY <2>2 DEF IsDepths
<1> DEFINE f == CHOOSE d : IsDepths(d, c)
<1>7. IsDepths(f, c) BY <1>6, Zenon
<1>8. Depths(c) = f BY Zenon DEF Depths, IsDepths
<1> HIDE DEF f
<1>9. /\ f = [a \in 0..N |-> f[a]] /\ f[0] = 0
      /\ \A n \in 1..N : f[n] = f[n - 1] - Takes(At(c, n - 1)) + Gives(At(c, n - 1))
  BY <1>1, <1>7 DEF IsDepths
<1>10. \A k \in 0..N : f[k] = g[k]
  <2> DEFINE S == {k \in Nat : k <= N => f[k] = g[k]}
  <2>1. 0 \in S BY <1>4, <1>9
  <2>2. ASSUME NEW k \in Nat, k \in S PROVE k + 1 \in S
    <3> SUFFICES ASSUME k + 1 <= N PROVE f[k + 1] = g[k + 1] OBVIOUS
    <3>1. k + 1 \in 1..N /\ (k + 1) - 1 = k /\ f[k] = g[k] BY <1>1, <2>2
    <3> QED BY <1>5, <1>9, <3>1
  <2>3. \A k \in Nat : k \in S
    <3> HIDE DEF S
    <3> QED BY <2>1, <2>2, CountUp
  <2> QED BY <1>1, <2>3
<1>11. f = g BY <1>9, <1>10
<1>12. \A a \in 0..(N - 1) : g[a + 1] = g[a] + Effect(At(c, a))
  <2> SUFFICES ASSUME NEW a \in 0..(N - 1) PROVE g[a + 1] = g[a] + Effect(At(c, a)) OBVIOUS
  <2>1. a + 1 \in 1..N /\ (a + 1) - 1 = a BY <1>1
  <2> QED BY <1>2, <1>5, <2>1 DEF Effect
<1> QED BY <1>4, <1>8, <1>11, <1>12

\* The depth at an address depends on the instructions before it.
LEMMA DepthsAgree ==
  ASSUME NEW c \in Seq(Instruction), NEW e \in Seq(Instruction), NEW n \in Nat,
         n <= Len(c), n <= Len(e), \A a \in 0..(n - 1) : Effect(At(c, a)) = Effect(At(e, a))
  PROVE  \A a \in 0..n : Depths(c)[a] = Depths(e)[a]
<1> DEFINE S == {k \in Nat : k <= n => Depths(c)[k] = Depths(e)[k]}
<1>1. 0 \in S BY DepthsAre
<1>2. ASSUME NEW k \in Nat, k \in S PROVE k + 1 \in S
  <2> SUFFICES ASSUME k + 1 <= n PROVE Depths(c)[k + 1] = Depths(e)[k + 1] OBVIOUS
  <2>1. /\ k \in 0..(n - 1) /\ k \in 0..(Len(c) - 1) /\ k \in 0..(Len(e) - 1)
        /\ Depths(c)[k] = Depths(e)[k]
    BY <1>2
  <2> QED BY <2>1, DepthsAre
<1>3. \A k \in Nat : k \in S
  <2> HIDE DEF S
  <2> QED BY <1>1, <1>2, CountUp
<1> QED BY <1>3

-----------------------------------------------------------------------------
(* Code that works *)

Jumps == {"JMP", "JMP_IF_FALSE"}
LocalOps == {"GET_LOCAL", "SET_LOCAL", "VOID_LOCAL"}

\* An instruction that finds d values on the stack and n locals.
Fits(i, d, n) ==
  /\ i.op # "HALT" /\ d >= Takes(i) /\ (i.op \in Enders => d = Takes(i))
  /\ (i.op = "JMP" => d = 0)
  /\ (i.op \in LocalOps => i.arg < n)

\* An address at which the stack is empty.
Lands(c, t) == t \in 0..Len(c) /\ Depths(c)[t] = 0

\* Code that ends with d values on the stack: its instructions find what they
\* take, and its jumps lead where the stack is empty, but for those at P, which
\* are patched later.
Works(c, P, d, n) ==
  /\ c \in Seq(Instruction) /\ d \in Nat /\ n \in Nat /\ Depths(c)[Len(c)] = d
  /\ \A a \in 0..(Len(c) - 1) : Fits(At(c, a), Depths(c)[a], n)
  /\ P \subseteq 0..(Len(c) - 1) /\ \A p \in P : At(c, p).op \in Jumps
  /\ \A a \in (0..(Len(c) - 1)) \ P : At(c, a).op \in Jumps => Lands(c, JumpTarget(c, a))

\* What is emitted after it leaves the depths of the stack in a piece of code.
Grows(c, e) == Len(c) <= Len(e) /\ \A a \in 0..Len(c) : Depths(e)[a] = Depths(c)[a]

LEMMA StillLands ==
  ASSUME NEW c \in Seq(Instruction), NEW e \in Seq(Instruction), Grows(c, e), NEW t, Lands(c, t)
  PROVE  Lands(e, t)
  BY DEF Lands, Grows

LEMMA GrowsOn ==
  ASSUME NEW c \in Seq(Instruction), NEW e \in Seq(Instruction), NEW f \in Seq(Instruction),
         Grows(c, e), Grows(e, f)
  PROVE  Grows(c, f)
  BY DEF Grows

LEMMA GrowsNot == ASSUME NEW c \in Seq(Instruction) PROVE Grows(c, c)
  BY DEF Grows

\* Locals are added, and jumps wait that need not.
LEMMA WorksMore ==
  ASSUME NEW c, NEW P, NEW d, NEW n, Works(c, P, d, n), NEW m \in Nat, n <= m,
         NEW Q, P \subseteq Q, Q \subseteq 0..(Len(c) - 1), \A p \in Q : At(c, p).op \in Jumps
  PROVE  Works(c, Q, d, m)
<1>1. ASSUME NEW a \in 0..(Len(c) - 1) PROVE Fits(At(c, a), Depths(c)[a], m)
  <2>1. Fits(At(c, a), Depths(c)[a], n) /\ At(c, a) \in Instruction /\ n \in Nat BY AtType DEF Works
  <2>3. At(c, a).arg < n => At(c, a).arg < m BY <2>1 DEF Instruction
  <2> QED BY <2>1, <2>3 DEF Fits
<1> QED BY <1>1 DEF Works

\* An instruction is emitted; of a jump it is known where it leads, or it waits.
LEMMA OneMore ==
  ASSUME NEW c, NEW P, NEW d, NEW n, Works(c, P, d, n), NEW i \in Instruction, Fits(i, d, n),
         NEW Q, P \subseteq Q, Q \subseteq P \cup {Len(c)},
         Len(c) \in Q => i.op \in Jumps,
         i.op \in Jumps /\ Len(c) \notin Q =>
           Lands(c, Len(c) + 1 + i.arg) \/ (i.arg = 0 /\ d + Effect(i) = 0)
  PROVE  Works(Append(c, i), Q, d + Effect(i), n) /\ Grows(c, Append(c, i))
<1> DEFINE e == Append(c, i)
           N == Len(c)
<1>1. c \in Seq(Instruction) /\ N \in Nat /\ d \in Nat /\ n \in Nat /\ Depths(c)[N] = d BY DEF Works
<1>2. /\ e \in Seq(Instruction) /\ Len(e) = N + 1 /\ At(e, N) = i
      /\ \A a \in 0..(N - 1) : At(e, a) = At(c, a)
  BY <1>1 DEF At
<1> HIDE DEF e
<1>3. \A a \in 0..N : Depths(e)[a] = Depths(c)[a]
  <2>1. \A a \in 0..(N - 1) : Effect(At(c, a)) = Effect(At(e, a)) BY <1>2
  <2> QED BY <1>1, <1>2, <2>1, DepthsAgree
<1>4. Grows(c, e) BY <1>1, <1>2, <1>3 DEF Grows
<1>5. Depths(e)[N + 1] = d + Effect(i) BY <1>1, <1>2, <1>3, DepthsAre
<1>6. d + Effect(i) \in Nat BY <1>1, EffectType DEF Gives, Effect, Fits
<1>7. ASSUME NEW a \in 0..N PROVE Fits(At(e, a), Depths(e)[a], n)
  <2>1. CASE a = N BY <1>1, <1>2, <1>3, <2>1
  <2>2. CASE a # N BY <1>1, <1>2, <1>3, <2>2 DEF Works
  <2> QED BY <2>1, <2>2
<1>8. Q \subseteq 0..N /\ \A p \in Q : At(e, p).op \in Jumps
  <2> SUFFICES ASSUME NEW p \in Q PROVE p \in 0..N /\ At(e, p).op \in Jumps OBVIOUS
  <2>1. CASE p = N BY <1>1, <1>2, <2>1
  <2>2. CASE p # N BY <1>1, <1>2, <2>2 DEF Works
  <2> QED BY <2>1, <2>2
<1>9. ASSUME NEW a \in (0..N) \ Q, At(e, a).op \in Jumps PROVE Lands(e, JumpTarget(e, a))
  <2>1. CASE a = N
    <3>1. JumpTarget(e, a) = N + 1 + i.arg BY <1>2, <2>1 DEF JumpTarget
    <3>2. Lands(c, N + 1 + i.arg) \/ (i.arg = 0 /\ d + Effect(i) = 0) BY <1>2, <1>9, <2>1
    <3>3. CASE Lands(c, N + 1 + i.arg) BY <1>1, <1>2, <1>4, <3>1, <3>3, StillLands
    <3>4. CASE i.arg = 0 /\ d + Effect(i) = 0 BY <1>1, <1>2, <1>5, <3>1, <3>4 DEF Lands
    <3> QED BY <3>2, <3>3, <3>4
  <2>2. CASE a # N BY <1>1, <1>2, <1>4, <1>9, <2>2, StillLands DEF Works, JumpTarget
  <2> QED BY <2>1, <2>2
<1>10. Len(e) - 1 = N BY <1>1, <1>2
<1> QED BY <1>1, <1>2, <1>4, <1>5, <1>6, <1>7, <1>8, <1>9, <1>10 DEF Works, e

\* bc_patch_i32 leads waiting jumps to an address at which the stack is empty.
LEMMA PatchWorks ==
  ASSUME NEW c, NEW P, NEW d, NEW n, Works(c, P, d, n), NEW ats, ats \subseteq P,
         NEW t, Lands(c, t), NEW Q, P \ ats \subseteq Q, Q \subseteq P
  PROVE  /\ Works(Patch(c, ats, t), Q, d, n) /\ Grows(c, Patch(c, ats, t))
         /\ Len(Patch(c, ats, t)) = Len(c)
<1> DEFINE e == Patch(c, ats, t)
           N == Len(c)
<1>1. /\ c \in Seq(Instruction) /\ N \in Nat /\ d \in Nat /\ n \in Nat /\ Depths(c)[N] = d
      /\ t \in 0..N /\ DOMAIN c = 1..N
  BY DEF Works, Lands
<1>2. e \in Seq(Instruction) BY <1>1, PatchType
<1>3. /\ Len(e) = N
      /\ \A a \in 0..(N - 1) :
           At(e, a) = IF a \in ats THEN I(At(c, a).op, t - (a + 1)) ELSE At(c, a)
  <2>1. DOMAIN e = 1..N /\ e = [k \in 1..N |-> IF k - 1 \in ats THEN I(c[k].op, t - k) ELSE c[k]]
    BY <1>1 DEF Patch
  <2>2. Len(e) = N BY <1>1, <1>2, <2>1
  <2> HIDE DEF e
  <2>3. ASSUME NEW a \in 0..(N - 1)
        PROVE  At(e, a) = IF a \in ats THEN I(At(c, a).op, t - (a + 1)) ELSE At(c, a)
    BY <1>1, <2>1 DEF At
  <2> QED BY <2>2, <2>3
<1> HIDE DEF e
<1>4. \A a \in ats : a \in 0..(N - 1) /\ At(c, a).op \in Jumps BY DEF Works
<1>5. ASSUME NEW a \in 0..(N - 1)
      PROVE  /\ At(e, a).op = At(c, a).op /\ Takes(At(e, a)) = Takes(At(c, a))
             /\ Effect(At(e, a)) = Effect(At(c, a))
             /\ a \notin ats => At(e, a) = At(c, a)
  <2>1. CASE a \in ats BY <1>3, <1>4, <2>1 DEF I, Jumps, Takes, Gives, Effect
  <2>2. CASE a \notin ats BY <1>3, <2>2
  <2> QED BY <2>1, <2>2
<1>6. \A a \in 0..N : Depths(e)[a] = Depths(c)[a] BY <1>1, <1>2, <1>3, <1>5, DepthsAgree
<1>7. Grows(c, e) BY <1>1, <1>3, <1>6 DEF Grows
<1>8. ASSUME NEW a \in 0..(N - 1) PROVE Fits(At(e, a), Depths(e)[a], n)
  BY <1>1, <1>4, <1>5, <1>6 DEF Works, Jumps, LocalOps, Fits
<1>9. \A p \in Q : p \in 0..(N - 1) /\ At(e, p).op \in Jumps BY <1>5 DEF Works
<1>10. ASSUME NEW a \in (0..(N - 1)) \ Q, At(e, a).op \in Jumps
       PROVE  Lands(e, JumpTarget(e, a))
  <2>1. CASE a \in ats BY <1>1, <1>2, <1>3, <1>7, <2>1, StillLands DEF I, JumpTarget
  <2>2. CASE a \notin ats
    <3>1. Lands(c, JumpTarget(c, a)) /\ JumpTarget(c, a) = JumpTarget(e, a)
      BY <1>5, <1>10, <2>2 DEF Works, JumpTarget
    <3> QED BY <1>1, <1>2, <1>7, <3>1, StillLands
  <2> QED BY <2>1, <2>2
<1> QED BY <1>1, <1>2, <1>3, <1>6, <1>7, <1>8, <1>9, <1>10 DEF Works, e

-----------------------------------------------------------------------------
(* Pieces of code *)

\* A piece without jumps that finds d values on the stack and leaves t.
Moves(e, d, t, n) ==
  /\ e \in Seq(Instruction)
  /\ \A c, P : Works(c, P, d, n) => Works(c \o e, P, t, n) /\ Grows(c, c \o e)

LEMMA MovesOn ==
  ASSUME NEW e, NEW f, NEW d, NEW t, NEW u, NEW n, Moves(e, d, t, n), Moves(f, t, u, n)
  PROVE  Moves(e \o f, d, u, n)
<1>1. e \in Seq(Instruction) /\ f \in Seq(Instruction) /\ e \o f \in Seq(Instruction) BY DEF Moves
<1>2. ASSUME NEW c, NEW P, Works(c, P, d, n)
      PROVE  Works(c \o (e \o f), P, u, n) /\ Grows(c, c \o (e \o f))
  <2>1. c \in Seq(Instruction) /\ c \o e \in Seq(Instruction) /\ (c \o e) \o f \in Seq(Instruction)
    BY <1>1, <1>2 DEF Works
  <2>2. c \o (e \o f) = (c \o e) \o f BY <1>1, <2>1
  <2>3. Works(c \o e, P, t, n) /\ Grows(c, c \o e) BY <1>2 DEF Moves
  <2> QED BY <2>1, <2>2, <2>3, GrowsOn DEF Moves
<1> QED BY <1>1, <1>2 DEF Moves

LEMMA MovesOne ==
  ASSUME NEW i \in Instruction, NEW d, NEW n, Fits(i, d, n), i.op \notin Jumps,
         NEW t, t = d + Effect(i)
  PROVE  Moves(<<i>>, d, t, n)
<1>1. ASSUME NEW c, NEW P, Works(c, P, d, n)
      PROVE  Works(c \o <<i>>, P, t, n) /\ Grows(c, c \o <<i>>)
  <2>2. c \o <<i>> = Append(c, i) /\ Len(c) \notin P BY <1>1 DEF Works
  <2> QED BY <1>1, <2>2, OneMore
<1> QED BY <1>1 DEF Moves

LEMMA MovesNot ==
  ASSUME NEW d, NEW n PROVE Moves(<< >>, d, d, n)
<1>1. ASSUME NEW c, NEW P, Works(c, P, d, n)
      PROVE  Works(c \o << >>, P, d, n) /\ Grows(c, c \o << >>)
  BY <1>1, GrowsNot DEF Works
<1> QED BY <1>1 DEF Moves

\* Names with slots among n locals.
Slotted(m, n) == m \in Slots /\ \A x \in DOMAIN m : m[x] < n

LEMMA SlottedMore ==
  ASSUME NEW m, NEW n \in Nat, Slotted(m, n), NEW k \in Nat, n <= k PROVE Slotted(m, k)
<1> QED BY SlotsAre DEF Slotted

LEMMA ExprMoves ==
  ASSUME NEW n \in Nat, NEW m, Slotted(m, n), NEW e, Known(m, e), NEW d \in Nat
  PROVE  Moves(emit_expr(m, e), d, d + 1, n)
<1> DEFINE i == IF e = Literal THEN I("PUSH_INT", 1) ELSE I("GET_LOCAL", m[e])
<1>1. e # Literal => m[e] \in Nat /\ m[e] < n BY SlotsAre DEF Slotted, Known
<1>2. i \in Instruction /\ Fits(i, d, n) /\ i.op \notin Jumps /\ Effect(i) = 1
  BY <1>1 DEF I, Instruction, Opcodes, Fits, Jumps, Effect, Takes, Gives, Enders, LocalOps
<1> HIDE DEF i
<1>3. Moves(<<i>>, d, d + 1, n) BY <1>2, MovesOne
<1> QED BY <1>3 DEF emit_expr, i

\* What the other instructions take and give.
LEMMA OpsMove ==
  ASSUME NEW n \in Nat, NEW slot \in Nat, slot < n, NEW d \in Nat
  PROVE  /\ Moves(<<I("GET_LOCAL", slot)>>, d, d + 1, n)
         /\ Moves(<<I("SET_LOCAL", slot)>>, 1, 0, n)
         /\ Moves(<<I("VOID_LOCAL", slot)>>, 0, 0, n)
<1>1. ASSUME NEW op \in {"GET_LOCAL", "SET_LOCAL", "VOID_LOCAL"}
      PROVE  I(op, slot) \in Instruction /\ I(op, slot).op = op /\ I(op, slot).arg = slot
  BY DEF I, Instruction, Opcodes
<1>2. /\ Takes(I("GET_LOCAL", slot)) = 0 /\ Effect(I("GET_LOCAL", slot)) = 1
      /\ Takes(I("SET_LOCAL", slot)) = 1 /\ Effect(I("SET_LOCAL", slot)) = -1
      /\ Takes(I("VOID_LOCAL", slot)) = 0 /\ Effect(I("VOID_LOCAL", slot)) = 0
  BY <1>1 DEF Takes, Gives, Effect
<1>3. /\ Fits(I("GET_LOCAL", slot), d, n) /\ Fits(I("SET_LOCAL", slot), 1, n)
      /\ Fits(I("VOID_LOCAL", slot), 0, n)
  BY <1>1, <1>2 DEF Fits, Enders
<1> QED BY <1>1, <1>2, <1>3, MovesOne DEF Jumps

LEMMA PlainOpsMove ==
  ASSUME NEW n \in Nat, NEW d \in Nat
  PROVE  /\ Moves(<<I("ADD", 0)>>, d + 2, d + 1, n)
         /\ Moves(<<I("INDEX_GET", 0)>>, d + 2, d + 1, n)
         /\ Moves(<<I("INDEX_SET", 0)>>, 3, 0, n)
         /\ Moves(<<I("CALL_BUILTIN", 1)>>, 1, 1, n)
         /\ Moves(<<I("POP", 0)>>, 1, 0, n)
         /\ Moves(<<I("PUSH_NULL", 0)>>, 0, 1, n)
         /\ Moves(<<I("RET", 0)>>, 1, 0, n)
         /\ Moves(<<I("LT", 0)>>, d + 2, d + 1, n)
<1>1. ASSUME NEW op \in {"ADD", "INDEX_GET", "INDEX_SET", "CALL_BUILTIN", "POP", "PUSH_NULL", "RET",
                         "LT"}, NEW arg \in 0..1
      PROVE  I(op, arg) \in Instruction /\ I(op, arg).op = op /\ I(op, arg).arg = arg
  BY DEF I, Instruction, Opcodes
<1>2. /\ Takes(I("ADD", 0)) = 2 /\ Effect(I("ADD", 0)) = -1
      /\ Takes(I("INDEX_GET", 0)) = 2 /\ Effect(I("INDEX_GET", 0)) = -1
      /\ Takes(I("INDEX_SET", 0)) = 3 /\ Effect(I("INDEX_SET", 0)) = -3
      /\ Takes(I("CALL_BUILTIN", 1)) = 1 /\ Effect(I("CALL_BUILTIN", 1)) = 0
      /\ Takes(I("POP", 0)) = 1 /\ Effect(I("POP", 0)) = -1
      /\ Takes(I("PUSH_NULL", 0)) = 0 /\ Effect(I("PUSH_NULL", 0)) = 1
      /\ Takes(I("RET", 0)) = 1 /\ Effect(I("RET", 0)) = -1
      /\ Takes(I("LT", 0)) = 2 /\ Effect(I("LT", 0)) = -1
  BY <1>1 DEF Takes, Gives, Effect
<1>3. /\ Fits(I("ADD", 0), d + 2, n) /\ Fits(I("INDEX_GET", 0), d + 2, n)
      /\ Fits(I("INDEX_SET", 0), 3, n) /\ Fits(I("CALL_BUILTIN", 1), 1, n)
      /\ Fits(I("POP", 0), 1, n) /\ Fits(I("PUSH_NULL", 0), 0, n)
      /\ Fits(I("RET", 0), 1, n) /\ Fits(I("LT", 0), d + 2, n)
  BY <1>1, <1>2 DEF Fits, Enders, LocalOps
<1>4. /\ Moves(<<I("ADD", 0)>>, d + 2, d + 1, n)
      /\ Moves(<<I("INDEX_GET", 0)>>, d + 2, d + 1, n)
      /\ Moves(<<I("LT", 0)>>, d + 2, d + 1, n)
  BY <1>1, <1>2, <1>3, MovesOne DEF Jumps
<1>5. /\ Moves(<<I("INDEX_SET", 0)>>, 3, 0, n)
      /\ Moves(<<I("CALL_BUILTIN", 1)>>, 1, 1, n)
      /\ Moves(<<I("POP", 0)>>, 1, 0, n)
  BY <1>1, <1>2, <1>3, MovesOne DEF Jumps
<1>6. Moves(<<I("PUSH_NULL", 0)>>, 0, 1, n) /\ Moves(<<I("RET", 0)>>, 1, 0, n)
  BY <1>1, <1>2, <1>3, MovesOne DEF Jumps
<1> QED BY <1>4, <1>5, <1>6

LEMMA Pair == ASSUME NEW a, NEW b PROVE <<a, b>> = <<a>> \o <<b>>
<1> DEFINE p == <<a>>
           q == <<b>>
<1>1. Len(p) = 1 /\ Len(q) = 1 /\ p[1] = a /\ q[1] = b OBVIOUS
<1>2. p \o q = [i \in 1..2 |-> IF i <= 1 THEN p[i] ELSE q[i - 1]] BY <1>1
<1>3. p \o q = [i \in 1..2 |-> IF i <= 1 THEN a ELSE b]
  <2> HIDE DEF p, q
  <2>1. \A i \in 1..2 : (IF i <= 1 THEN p[i] ELSE q[i - 1]) = (IF i <= 1 THEN a ELSE b) BY <1>1
  <2> QED BY <1>2, <2>1
<1> QED BY <1>3

\* The endings of statements without a block.
LEMMA EndingsMove ==
  ASSUME NEW n \in Nat
  PROVE  /\ Moves(SayAndPop, 1, 0, n) /\ Moves(<<I("POP", 0)>>, 1, 0, n)
         /\ Moves(<<I("RET", 0)>>, 1, 0, n) /\ Moves(<<I("PUSH_NULL", 0), I("RET", 0)>>, 0, 0, n)
<1>1. 0 \in Nat OBVIOUS
<1>2. Moves(<<I("CALL_BUILTIN", 1)>> \o <<I("POP", 0)>>, 1, 0, n) BY <1>1, PlainOpsMove, MovesOn
<1>3. Moves(<<I("PUSH_NULL", 0)>> \o <<I("RET", 0)>>, 0, 0, n) BY <1>1, PlainOpsMove, MovesOn
<1> QED BY <1>1, <1>2, <1>3, PlainOpsMove, Pair DEF SayAndPop

\* The code of an assignment.
LEMMA AssignmentMoves ==
  ASSUME NEW n \in Nat, Slotted(map, n), NEW target, NEW op, NEW rhs,
         target.kind \in {"name", "index"}, target.base \in DOMAIN map,
         Known(map, target.index), Known(map, rhs)
  PROVE  Moves(Assignment(target, op, rhs), 0, 0, n)
<1> DEFINE slot == map[target.base]
           get == <<I("GET_LOCAL", slot)>>
           set == <<I("SET_LOCAL", slot)>>
           index == emit_expr(map, target.index)
           item == get \o index
           value == emit_expr(map, rhs)
<1>1. slot \in Nat /\ slot < n /\ 0 \in Nat /\ 1 \in Nat /\ 2 \in Nat /\ 3 \in Nat
  BY SlotsAre DEF Slotted
<1>2. /\ Moves(get, 0, 0 + 1, n) /\ Moves(get, 2, 2 + 1, n) /\ Moves(set, 1, 0, n) BY <1>1, OpsMove
<1>3. /\ Moves(index, 1, 1 + 1, n) /\ Moves(index, 3, 3 + 1, n)
      /\ Moves(value, 0, 0 + 1, n) /\ Moves(value, 1, 1 + 1, n)
      /\ Moves(value, 2, 2 + 1, n) /\ Moves(value, 3, 3 + 1, n)
  BY <1>1, ExprMoves
<1>4. /\ Moves(<<I("ADD", 0)>>, 0 + 2, 0 + 1, n) /\ Moves(<<I("ADD", 0)>>, 2 + 2, 2 + 1, n)
      /\ Moves(<<I("INDEX_GET", 0)>>, 2 + 2, 2 + 1, n) /\ Moves(<<I("INDEX_SET", 0)>>, 3, 0, n)
  BY <1>1, PlainOpsMove
<1>5. 0 + 1 = 1 /\ 1 + 1 = 2 /\ 2 + 1 = 3 /\ 3 + 1 = 4 /\ 0 + 2 = 2 /\ 2 + 2 = 4 OBVIOUS
<1> HIDE DEF get, set, index, value
<1>6. Moves(item, 0, 2, n) /\ Moves(item, 2, 4, n) BY <1>2, <1>3, <1>5, MovesOn
<1> HIDE DEF item
<1>7. CASE target.kind = "name" /\ op = "="
  BY <1>2, <1>3, <1>5, <1>7, MovesOn DEF Assignment, value, set
<1>8. CASE target.kind = "name" /\ op # "="
  <2>1. Moves(<<I("ADD", 0)>> \o set, 2, 0, n) BY <1>2, <1>4, <1>5, MovesOn
  <2>3. Moves(get \o value, 0, 2, n) BY <1>2, <1>3, <1>5, MovesOn
  <2>4. Moves((get \o value) \o <<I("ADD", 0), I("SET_LOCAL", slot)>>, 0, 0, n)
    BY <2>1, <2>3, MovesOn, Pair DEF set
  <2> QED BY <1>8, <2>4 DEF Assignment, emit_assign_math, get, value
<1>9. CASE target.kind = "index" /\ op = "="
  <2>1. Moves(item \o value, 0, 3, n) BY <1>3, <1>5, <1>6, MovesOn
  <2>2. Moves((item \o value) \o <<I("INDEX_SET", 0)>>, 0, 0, n) BY <1>4, <2>1, MovesOn
  <2> QED BY <1>9, <2>2 DEF Assignment, item, get, index, value
<1>10. CASE target.kind = "index" /\ op # "="
  <2>2. Moves((item \o item) \o <<I("INDEX_GET", 0)>>, 0, 3, n) BY <1>4, <1>5, <1>6, MovesOn
  <2>3. Moves(((item \o item) \o <<I("INDEX_GET", 0)>>) \o value, 0, 4, n)
    BY <1>3, <1>5, <2>2, MovesOn
  <2>5. Moves(<<I("ADD", 0), I("INDEX_SET", 0)>>, 4, 0, n) BY <1>4, <1>5, Pair, MovesOn
  <2>6. Moves((((item \o item) \o <<I("INDEX_GET", 0)>>) \o value)
                \o <<I("ADD", 0), I("INDEX_SET", 0)>>, 0, 0, n)
    BY <2>3, <2>5, MovesOn
  <2> QED BY <1>10, <2>6 DEF Assignment, item, get, index, value
<1> QED BY <1>7, <1>8, <1>9, <1>10

-----------------------------------------------------------------------------
(* A statement without a block, in code that works *)

LoopsSlotted == \A d \in DOMAIN loops : Slotted(loops[d], Len(locals))

\* What emit_stmt does to the code, when jumps wait at P.
Goes(P) == Works(code', P, 0, Len(locals')) /\ Grows(code, code') /\ LoopsSlotted'

LEMMA MapSlotted ==
  ASSUME NameInv PROVE Slotted(map, Len(locals)) /\ Len(locals) \in Nat
  BY DEF NameInv, NameTypes, NamesAreScoped, Slotted

LEMMA EmitGoes ==
  ASSUME LoopsSlotted, NEW P, Works(code, P, 0, Len(locals)),
         NEW e, Moves(e, 0, 0, Len(locals)), Emit(e)
  PROVE  Goes(P)
<1>2. Works(code \o e, P, 0, Len(locals)) /\ Grows(code, code \o e) BY DEF Moves
<1> QED BY <1>2 DEF Goes, LoopsSlotted, Emit, context

LEMMA EvaluateGoes ==
  ASSUME NameInv, LoopsSlotted, NEW P, Works(code, P, 0, Len(locals)),
         NEW e, NEW then, Moves(then, 1, 0, Len(locals)), Evaluate(e, then), status' = "emitting"
  PROVE  Goes(P)
<1>1. Known(map, e) /\ Emit(emit_expr(map, e) \o then) BY DEF Evaluate, Fail
<1>3. Moves(emit_expr(map, e) \o then, 0, 0, Len(locals)) BY <1>1, MovesOn, MapSlotted, ExprMoves
<1> QED BY <1>1, <1>3, EmitGoes

LEMMA StoreWorks ==
  ASSUME NEW n \in Nat, NEW P, Works(code, P, 0, n), NEW names, Slotted(names, n),
         NEW slot \in Nat, slot < n, NEW rhs, Store(names, slot, rhs), status' = "emitting",
         status = "emitting"
  PROVE  Works(code', P, 0, n) /\ Grows(code, code')
<1> DEFINE value == emit_expr(names, rhs)
           set == <<I("SET_LOCAL", slot)>>
<1>1. Known(names, rhs) /\ code' = (code \o value) \o set BY DEF Store
<1>2. Moves(value, 0, 0 + 1, n) BY <1>1, ExprMoves
<1>3. Moves(set, 1, 0, n) BY OpsMove
<1> HIDE DEF value, set
<1>4. Moves(value \o set, 0, 0, n) BY <1>2, <1>3, MovesOn
<1>5. code' = code \o (value \o set)
  <2>1. /\ code \in Seq(Instruction) /\ value \in Seq(Instruction) /\ set \in Seq(Instruction)
    BY <1>2, <1>3 DEF Moves, Works
  <2> QED BY <1>1, <2>1
<1> QED BY <1>4, <1>5 DEF Moves

\* The right-hand side is emitted when there is one local more.
LEMMA AddLocalWorks ==
  ASSUME NameInv, status = "emitting", NEW name \in Names, NEW rhs, AddLocal(name, rhs),
         NEW P, Works(code, P, 0, Len(locals)), status' = "emitting"
  PROVE  /\ Works(code', P, 0, Len(locals')) /\ Grows(code, code')
         /\ Len(locals') = Len(locals) + 1
<1> DEFINE n == Len(locals)
           m == map_put(map, name, n)
<1>1. n \in Nat /\ Slotted(map, n) /\ locals \in Seq(Names) BY MapSlotted DEF NameInv, NameTypes
<1>2. locals' = Append(locals, name) /\ Store(m, n, rhs) BY DEF AddLocal, NewSlot
<1>3. Len(locals') = n + 1 /\ n + 1 \in Nat /\ n < n + 1 BY <1>1, <1>2
<1>4. Slotted(m, n + 1)
  <2>1. DOMAIN map \subseteq Names
        /\ map \in [DOMAIN map -> Nat] /\ \A x \in DOMAIN map : map[x] < n
    BY <1>1, SlotsAre DEF Slotted
  <2>2. /\ DOMAIN m = DOMAIN map \cup {name}
        /\ \A x \in DOMAIN m : m[x] \in Nat /\ m[x] < n + 1
    BY <1>1, <2>1 DEF map_put
  <2>3. m \in [DOMAIN m -> Nat] BY <2>2 DEF map_put
  <2> HIDE DEF m
  <2> QED BY <2>1, <2>2, <2>3, SlotsAre DEF Slotted
<1>5. Works(code, P, 0, n + 1)
  <2>1. P \subseteq 0..(Len(code) - 1) /\ \A p \in P : At(code, p).op \in Jumps BY DEF Works
  <2>2. n <= n + 1 BY <1>1
  <2> QED BY <1>3, <2>1, <2>2, WorksMore
<1> HIDE DEF m
<1> QED BY <1>1, <1>2, <1>3, <1>4, <1>5, StoreWorks

LEMMA DeclareGoes ==
  ASSUME NameInv, LoopsSlotted, status = "emitting", NEW name \in Names, NEW rhs,
         AddLocal(name, rhs), NEW P, Works(code, P, 0, Len(locals)), status' = "emitting",
         loops' = loops
  PROVE  Goes(P)
<1>1. /\ Works(code', P, 0, Len(locals')) /\ Grows(code, code')
      /\ Len(locals') = Len(locals) + 1
  BY AddLocalWorks
<1>3. LoopsSlotted' BY <1>1, SlottedMore, MapSlotted DEF LoopsSlotted
<1> QED BY <1>1, <1>3 DEF Goes

LEMMA LoopSlotSlotted ==
  ASSUME loops \in Seq(Slots), LoopsSlotted, NEW x \in LoopNames
  PROVE  LoopSlot(x) \in Nat /\ LoopSlot(x) < Len(locals)
<1> DEFINE Places == {d \in DOMAIN loops : x \in DOMAIN loops[d]}
           Innermost == CHOOSE d \in DOMAIN loops :
             x \in DOMAIN loops[d] /\ \A e \in DOMAIN loops : x \in DOMAIN loops[e] => e <= d
<1>1. Places \in SUBSET (1..Len(loops)) /\ Places # {} /\ Len(loops) \in Nat BY DEF LoopNames
<1>2. PICK d \in Places : \A e \in Places : e <= d BY <1>1, Greatest
<1>4. Innermost \in DOMAIN loops /\ x \in DOMAIN loops[Innermost] BY <1>2
<1>5. LoopSlot(x) = loops[Innermost][x] BY DEF LoopSlot
<1> HIDE DEF Innermost
<1> QED BY <1>4, <1>5, LoopSlotType DEF LoopsSlotted, Slotted

LEMMA SletGoes ==
  ASSUME NameInv, LoopsSlotted, status = "emitting", NEW st, st.name \in Names, Slet(st),
         NEW P, Works(code, P, 0, Len(locals)), status' = "emitting"
  PROVE  Goes(P)
<1>1. loops # << >> BY DEF Slet, Fail
<1>2. CASE st.name \in LoopNames
  <2>1. Store(map, LoopSlot(st.name), st.rhs) /\ UNCHANGED <<locals, loops>>
    BY <1>1, <1>2 DEF Slet, context
  <2>2. LoopSlot(st.name) \in Nat /\ LoopSlot(st.name) < Len(locals)
    BY <1>2, LoopSlotSlotted DEF NameInv, NameTypes
  <2> QED BY <2>1, <2>2, MapSlotted, StoreWorks DEF Goes, LoopsSlotted
<1>3. CASE st.name \notin LoopNames
  <2>1. AddLocal(st.name, st.rhs) /\ loops' = loop_record_slet(st.name, NewSlot)
    BY <1>1, <1>3 DEF Slet, Fail
  <2> DEFINE n == Len(locals)
             top == loops[Len(loops)]
             m == map_put(top, st.name, n)
  <2>3. n \in Nat /\ n + 1 \in Nat /\ n <= n + 1 BY MapSlotted
  <2>4. /\ loops \in Seq(Slots) /\ Len(loops) \in DOMAIN loops
        /\ \A d \in DOMAIN loops : Slotted(loops[d], n + 1)
    BY <1>1, <2>3, SlottedMore DEF NameInv, NameTypes, LoopsSlotted
  <2>5. Slotted(m, n + 1)
    <3>1. /\ DOMAIN top \subseteq Names /\ top \in [DOMAIN top -> Nat]
          /\ \A x \in DOMAIN top : top[x] < n + 1
      BY <2>4, SlotsAre DEF Slotted
    <3>2. /\ DOMAIN m = DOMAIN top \cup {st.name}
          /\ \A x \in DOMAIN m : m[x] \in Nat /\ m[x] < n + 1
      BY <2>3, <3>1 DEF map_put
    <3>3. m \in [DOMAIN m -> Nat] BY <3>2 DEF map_put
    <3> HIDE DEF m
    <3> QED BY <3>1, <3>2, <3>3, SlotsAre DEF Slotted
  <2>6. loops' = [loops EXCEPT ![Len(loops)] = m] BY <2>1 DEF loop_record_slet, NewSlot
  <2> HIDE DEF m
  <2>7. \A d \in DOMAIN loops' : Slotted(loops'[d], n + 1) BY <2>4, <2>5, <2>6
  <2> QED BY <2>1, <2>7, AddLocalWorks DEF Goes, LoopsSlotted
<1> QED BY <1>2, <1>3

LEMMA AssignGoes ==
  ASSUME NameInv, LoopsSlotted, NEW target, NEW op, NEW rhs,
         target.kind \in {"unset", "name", "index"}, Assign(target, op, rhs),
         NEW P, Works(code, P, 0, Len(locals)), status' = "emitting"
  PROVE  Goes(P)
<1>1. CASE target.kind = "unset" BY <1>1, MovesNot, EmitGoes DEF Assign
<1>2. CASE target.kind # "unset"
  <2>1. target.base \in DOMAIN map /\ Known(map, target.index) /\ Known(map, rhs)
        /\ Emit(Assignment(target, op, rhs))
    BY <1>2 DEF Assign, Fail
  <2>2. Moves(Assignment(target, op, rhs), 0, 0, Len(locals))
    BY <1>2, <2>1, MapSlotted, AssignmentMoves
  <2> QED BY <2>1, <2>2, EmitGoes
<1> QED BY <1>1, <1>2

LEMMA VoidGoes ==
  ASSUME NameInv, LoopsSlotted, NEW st, Void(st),
         NEW P, Works(code, P, 0, Len(locals)), status' = "emitting"
  PROVE  Goes(P)
<1> DEFINE slot == map[st.name]
<1>1. /\ st.name \in DOMAIN map /\ code' = Append(code, I("VOID_LOCAL", slot))
      /\ UNCHANGED <<locals, loops>>
  BY DEF Void, Fail
<1>3. Moves(<<I("VOID_LOCAL", slot)>>, 0, 0, Len(locals))
  BY <1>1, MapSlotted, OpsMove, SlotsAre DEF Slotted
<1>4. code' = code \o <<I("VOID_LOCAL", slot)>> BY <1>1 DEF Works
<1> QED BY <1>1, <1>3, <1>4 DEF Goes, LoopsSlotted, Moves

LEMMA StmtGoes ==
  ASSUME NameInv, LoopsSlotted, status = "emitting",
         NEW st \in parse_stmt \cup parse_loop_header_stmt, emit_stmt(st),
         NEW P, Works(code, P, 0, Len(locals)), status' = "emitting"
  PROVE  Goes(P)
<1>1. CASE st.kind = "LET"
  BY <1>1, DeclareGoes DEF emit_stmt, parse_stmt, parse_loop_header_stmt, Declarations, Let, Fail
<1>2. CASE st.kind = "VOIDLET"
  BY <1>2, DeclareGoes DEF emit_stmt, parse_stmt, parse_loop_header_stmt, Declarations, VoidLet
<1>3. CASE st.kind = "SLET"
  BY <1>3, SletGoes DEF emit_stmt, parse_stmt, parse_loop_header_stmt, Declarations
<1>4. CASE st.kind = "SET"
  BY <1>4, AssignGoes DEF emit_stmt, parse_stmt, parse_loop_header_stmt, Declarations,
     parse_target, Unset
<1>5. CASE st.kind = "INCDEC"
  BY <1>5, AssignGoes DEF emit_stmt, parse_stmt, parse_loop_header_stmt, Declarations, parse_target
<1>6. CASE st.kind = "VOID" BY <1>6, VoidGoes DEF emit_stmt
<1>7. /\ Moves(SayAndPop, 1, 0, Len(locals)) /\ Moves(<<I("POP", 0)>>, 1, 0, Len(locals))
      /\ Moves(<<I("RET", 0)>>, 1, 0, Len(locals))
      /\ Moves(<<I("PUSH_NULL", 0), I("RET", 0)>>, 0, 0, Len(locals))
  BY MapSlotted, EndingsMove
<1>8. CASE st.kind = "SAY_IDENT" BY <1>7, <1>8, EvaluateGoes DEF emit_stmt
<1>9. CASE st.kind = "SAY_EXPR" BY <1>7, <1>9, EvaluateGoes DEF emit_stmt
<1>10. CASE st.kind = "EXPR" BY <1>7, <1>10, EvaluateGoes DEF emit_stmt
<1>11. CASE st.kind = "RETURN" /\ st.rhs = NoName BY <1>7, <1>11, EmitGoes DEF emit_stmt
<1>12. CASE st.kind = "RETURN" /\ st.rhs # NoName BY <1>7, <1>12, EvaluateGoes DEF emit_stmt
<1>13. CASE st.kind = "NOTHING" BY <1>13, MovesNot, EmitGoes DEF emit_stmt
<1>14. st.kind \in {"LET", "VOIDLET", "SLET", "SET", "INCDEC", "VOID", "SAY_IDENT", "SAY_EXPR",
                    "EXPR", "RETURN", "NOTHING"}
  BY DEF parse_stmt, parse_loop_header_stmt, Declarations
<1> QED BY <1>1, <1>2, <1>3, <1>4, <1>5, <1>6, <1>8, <1>9, <1>10, <1>11, <1>12, <1>13, <1>14

-----------------------------------------------------------------------------
(* Code that waits for its jumps *)

\* The jumps that the end of a block patches.
Waits(b) ==
  CASE b.kind = "then" -> b.ends \cup {b.test}
    [] b.kind = "else" -> b.ends
    [] b.kind \in {"while", "for", "step", "stepped"} -> {b.test}
    [] OTHER -> {}
Waiting(blocks) == UNION {Waits(blocks[i]) : i \in DOMAIN blocks}

\* The places where loops go back to, and where statements begin.
StartsLand == \A i \in DOMAIN open : Lands(code, open[i].start)

MarkKinds ==
  {"LET", "VOIDLET", "SLET", "SET", "INCDEC", "VOID", "SAY_IDENT", "RETURN", "SAY_EXPR", "EXPR",
   "NOTHING", "if", "else", "elseif", "endif", "while", "endwhile", "init", "for", "step",
   "stepped", "endfor"}
Mark == [kind : MarkKinds, at : Nat]
MarksLand == source \in Seq(Mark) /\ \A i \in DOMAIN source : Lands(code, Start(i))

BalanceInv ==
  status = "emitting" =>
    Works(code, Waiting(open), 0, Len(locals)) /\ LoopsSlotted /\ StartsLand /\ MarksLand

Return == <<I("PUSH_NULL", 0), I("RET", 0), I("HALT", 0)>>

\* What EndChunk makes of it.
EndedInv ==
  Finished =>
    \E c : /\ Works(c, {}, 0, Len(locals)) /\ code = c \o Return
           /\ \A i \in DOMAIN source : Lands(c, Start(i))

LEMMA WaitingAppended ==
  ASSUME NEW S, NEW bs \in Seq(S), NEW b
  PROVE  /\ Waiting(Append(bs, b)) = Waiting(bs) \cup Waits(b)
         /\ \A i \in DOMAIN Append(bs, b) :
              Append(bs, b)[i] = b \/ \E j \in DOMAIN bs : Append(bs, b)[i] = bs[j]
<1>1. /\ DOMAIN Append(bs, b) = DOMAIN bs \cup {Len(bs) + 1}
      /\ \A i \in DOMAIN bs : Append(bs, b)[i] = bs[i]
      /\ Append(bs, b)[Len(bs) + 1] = b
  OBVIOUS
<1> DEFINE a == Append(bs, b)
<1> HIDE DEF a
<1> QED BY <1>1 DEF a, Waiting

LEMMA WaitingTop ==
  ASSUME NEW S, NEW bs \in Seq(S), bs # << >>
  PROVE  /\ Waiting(bs) = Waiting(Below(bs)) \cup Waits(Top(bs))
         /\ \A i \in DOMAIN Below(bs) : \E j \in DOMAIN bs : Below(bs)[i] = bs[j]
<1>1. /\ Below(bs) \in Seq(S) /\ Len(Below(bs)) = Len(bs) - 1
      /\ \A i \in 1..(Len(bs) - 1) : Below(bs)[i] = bs[i]
      /\ bs = Append(Below(bs), Top(bs))
  BY BelowIsSeq
<1>3. \A i \in DOMAIN Below(bs) : i \in DOMAIN bs /\ Below(bs)[i] = bs[i] BY <1>1
<1>4. Waiting(bs) = Waiting(Append(Below(bs), Top(bs))) BY <1>1, Zenon
<1> QED BY <1>1, <1>3, <1>4, WaitingAppended

LEMMA JoinTwo ==
  ASSUME NEW c \in Seq(Instruction), NEW d \in Seq(Instruction)
  PROVE  c \o d \in Seq(Instruction) /\ Len(c \o d) = Len(c) + Len(d)
  OBVIOUS

LEMMA JoinThree ==
  ASSUME NEW c \in Seq(Instruction), NEW d \in Seq(Instruction), NEW e \in Seq(Instruction)
  PROVE  c \o (d \o e) = (c \o d) \o e
  OBVIOUS

LEMMA JoinLast ==
  ASSUME NEW c \in Seq(Instruction), NEW i \in Instruction PROVE c \o <<i>> = Append(c, i)
  OBVIOUS

\* A condition, and its jump that waits.
LEMMA TestWorks ==
  ASSUME NEW c, NEW P, NEW n, Works(c, P, 0, n), NEW m, Slotted(m, n), NEW e, Known(m, e)
  PROVE  /\ Works(c \o Test(m, e), P \cup {Len(c) + 1}, 0, n) /\ Grows(c, c \o Test(m, e))
         /\ c \o Test(m, e) \in Seq(Instruction)
<1> DEFINE value == emit_expr(m, e)
           jump == I("JMP_IF_FALSE", 0)
           v == c \o value
<1>1. n \in Nat /\ c \in Seq(Instruction) /\ P \subseteq 0..(Len(c) - 1) BY DEF Works
<1>3. Works(v, P, 1, n) /\ Grows(c, v) /\ value \in Seq(Instruction) /\ v \in Seq(Instruction)
  BY <1>1, ExprMoves DEF Moves
<1>4. Len(v) = Len(c) + 1 BY <1>1, <1>3, JoinTwo DEF emit_expr
<1>5. /\ jump \in Instruction /\ jump.op \in Jumps /\ Fits(jump, 1, n) /\ 1 + Effect(jump) = 0
  BY DEF I, Instruction, Opcodes, Jumps, Fits, Enders, LocalOps, Takes, Gives, Effect
<1> HIDE DEF value, jump, v
<1>6. Works(Append(v, jump), P \cup {Len(v)}, 1 + Effect(jump), n) /\ Grows(v, Append(v, jump))
  <2>1. P \subseteq P \cup {Len(v)} /\ Len(v) \in P \cup {Len(v)} OBVIOUS
  <2> QED BY <1>3, <1>5, <2>1, OneMore
<1>7. c \o Test(m, e) = Append(v, jump)
  BY <1>1, <1>3, <1>5, JoinTwo, JoinThree, JoinLast DEF Test, value, jump, v
<1>8. Append(v, jump) \in Seq(Instruction) BY <1>3, <1>5
<1>9. Grows(c, Append(v, jump)) BY <1>1, <1>3, <1>6, <1>8, GrowsOn
<1> QED BY <1>4, <1>5, <1>6, <1>7, <1>8, <1>9

\* The condition of a FOR.
LEMMA LimitWorks ==
  ASSUME NEW c, NEW P, NEW n, Works(c, P, 0, n), NEW m, Slotted(m, n),
         NEW e, Known(m, e), NEW f, Known(m, f), NEW new,
         new = c \o emit_expr(m, e) \o emit_expr(m, f) \o <<I("LT", 0), I("JMP_IF_FALSE", 0)>>
  PROVE  Works(new, P \cup {Len(c) + 3}, 0, n) /\ Grows(c, new) /\ new \in Seq(Instruction)
<1> DEFINE x == emit_expr(m, e)
           y == emit_expr(m, f)
           less == <<I("LT", 0)>>
           jump == I("JMP_IF_FALSE", 0)
           v == c \o ((x \o y) \o less)
<1>1. n \in Nat /\ c \in Seq(Instruction) /\ P \subseteq 0..(Len(c) - 1) /\ 0 \in Nat /\ 1 \in Nat
  BY DEF Works
<1>2. Moves(x, 0, 0 + 1, n) /\ Moves(y, 1, 1 + 1, n) /\ Moves(less, 0 + 2, 0 + 1, n)
  BY <1>1, ExprMoves, PlainOpsMove
<1>3. /\ x \in Seq(Instruction) /\ y \in Seq(Instruction) /\ less \in Seq(Instruction)
      /\ Len(x) = 1 /\ Len(y) = 1 /\ Len(less) = 1
  BY <1>2 DEF Moves, emit_expr
<1>4. /\ jump \in Instruction /\ jump.op \in Jumps /\ Fits(jump, 1, n) /\ 1 + Effect(jump) = 0
  BY DEF I, Instruction, Opcodes, Jumps, Fits, Enders, LocalOps, Takes, Gives, Effect
<1>5. new = c \o x \o y \o (less \o <<jump>>) BY Pair
<1> HIDE DEF x, y, less, jump
<1>6. Moves((x \o y) \o less, 0, 1, n)
  <2>1. 0 + 1 = 1 /\ 1 + 1 = 2 /\ 0 + 2 = 2 OBVIOUS
  <2> QED BY <1>2, <2>1, MovesOn
<1>7. Works(v, P, 1, n) /\ Grows(c, v) /\ v \in Seq(Instruction) BY <1>1, <1>6 DEF Moves, Works
<1>8. Len(v) = Len(c) + 3
  <2>1. x \o y \in Seq(Instruction) /\ Len(x \o y) = Len(x) + Len(y) BY <1>3, JoinTwo, Zenon
  <2>2. /\ (x \o y) \o less \in Seq(Instruction)
        /\ Len((x \o y) \o less) = Len(x \o y) + Len(less)
    BY <1>3, <2>1, JoinTwo, Zenon
  <2>3. Len(c \o ((x \o y) \o less)) = Len(c) + Len((x \o y) \o less) BY <1>1, <2>2, JoinTwo, Zenon
  <2>4. Len(c \o ((x \o y) \o less)) = Len(c) + ((1 + 1) + 1) BY <1>3, <2>1, <2>2, <2>3, Zenon
  <2>5. Len(c) \in Nat BY <1>1
  <2> QED BY <2>4, <2>5
<1>9. new = Append(v, jump)
  <2>1. x \o y \in Seq(Instruction) /\ c \o x \o y = c \o (x \o y)
    BY <1>1, <1>3, JoinTwo, JoinThree, JoinLast
  <2> DEFINE w == x \o y
  <2> HIDE DEF w
  <2>2. /\ w \in Seq(Instruction) /\ <<jump>> \in Seq(Instruction)
        /\ c \o w \in Seq(Instruction)
    BY <1>1, <1>4, <2>1, JoinTwo, JoinThree, JoinLast DEF w
  <2>3. (c \o w) \o (less \o <<jump>>) = ((c \o w) \o less) \o <<jump>>
    BY <1>3, <2>2, JoinTwo, JoinThree, JoinLast
  <2>4. (c \o w) \o less = c \o (w \o less) /\ c \o (w \o less) \in Seq(Instruction)
    BY <1>1, <1>3, <2>2, JoinTwo, JoinThree, JoinLast
  <2>5. (c \o (w \o less)) \o <<jump>> = Append(c \o (w \o less), jump)
    BY <1>4, <2>4, JoinTwo, JoinThree, JoinLast
  <2> QED BY <1>5, <2>1, <2>3, <2>4, <2>5 DEF w
<1> HIDE DEF v
<1>10. Works(Append(v, jump), P \cup {Len(v)}, 1 + Effect(jump), n) /\ Grows(v, Append(v, jump))
  <2>1. P \subseteq P \cup {Len(v)} /\ Len(v) \in P \cup {Len(v)} OBVIOUS
  <2> QED BY <1>4, <1>7, <2>1, OneMore
<1>11. Append(v, jump) \in Seq(Instruction) BY <1>4, <1>7
<1>12. Grows(c, Append(v, jump)) BY <1>1, <1>7, <1>10, <1>11, GrowsOn
<1> QED BY <1>4, <1>8, <1>9, <1>10, <1>11, <1>12

\* A jump is emitted that waits, or leads back.
LEMMA JumpWorks ==
  ASSUME NEW c, NEW P, NEW n, Works(c, P, 0, n), NEW arg \in Int,
         NEW Q, \/ arg = 0 /\ Q = P \cup {Len(c)}
                \/ Lands(c, Len(c) + 1 + arg) /\ Q = P
  PROVE  /\ Works(Append(c, I("JMP", arg)), Q, 0, n) /\ Grows(c, Append(c, I("JMP", arg)))
         /\ Append(c, I("JMP", arg)) \in Seq(Instruction)
         /\ Len(Append(c, I("JMP", arg))) = Len(c) + 1
<1> DEFINE i == I("JMP", arg)
<1>1. n \in Nat /\ c \in Seq(Instruction) /\ P \subseteq 0..(Len(c) - 1) BY DEF Works
<1>2. i \in Instruction /\ i.op = "JMP" /\ i.arg = arg BY DEF I, Instruction, Opcodes
<1>3. i.op \in Jumps /\ Fits(i, 0, n) /\ 0 + Effect(i) = 0
  BY <1>2 DEF Jumps, Fits, Enders, LocalOps, Takes, Gives, Effect
<1> HIDE DEF i
<1>5. Works(Append(c, i), Q, 0 + Effect(i), n) /\ Grows(c, Append(c, i))
  BY <1>1, <1>2, <1>3, OneMore
<1> QED BY <1>1, <1>2, <1>3, <1>5 DEF i

LEMMA EndLands == ASSUME NEW c, NEW P, NEW n, Works(c, P, 0, n) PROVE Lands(c, Len(c))
  BY DEF Works, Lands

\* The end of a THEN: its condition leads past the jump after it.
LEMMA ThenWorks ==
  ASSUME Inv, BalanceInv, status = "emitting", open # << >>, Top(open).kind = "then"
  PROVE  /\ Works(ThenClosed, Waiting(Below(open)) \cup Ends, 0, Len(locals))
         /\ Grows(code, ThenClosed) /\ ThenClosed \in Seq(Instruction)
         /\ Len(ThenClosed) = Here + 1
<1> DEFINE P == Waiting(open)
           n == Len(locals)
           c == Append(code, I("JMP", 0))
           Q == Waiting(Below(open)) \cup Ends
<1>1. Works(code, P, 0, n) /\ code \in Seq(Instruction) /\ open \in Seq(Block)
  BY Typed DEF BalanceInv, Works
<1>2. P = Waiting(Below(open)) \cup Top(open).ends \cup {Top(open).test}
  BY <1>1, WaitingTop DEF Waits
<1>3. /\ Works(c, P \cup {Here}, 0, n) /\ Grows(code, c) /\ c \in Seq(Instruction)
      /\ Len(c) = Here + 1
  BY <1>1, JumpWorks DEF Here
<1> HIDE DEF P, c
<1>4. Lands(c, Here + 1) BY <1>3, EndLands
<1>5. /\ {Top(open).test} \subseteq P \cup {Here}
      /\ (P \cup {Here}) \ {Top(open).test} \subseteq Q /\ Q \subseteq P \cup {Here}
  BY <1>2 DEF Ends
<1> HIDE DEF Q
<1>6. /\ Works(Patch(c, {Top(open).test}, Here + 1), Q, 0, n)
      /\ Grows(c, Patch(c, {Top(open).test}, Here + 1))
      /\ Len(Patch(c, {Top(open).test}, Here + 1)) = Len(c)
  <2>1. PICK R : R = P \cup {Here} OBVIOUS
  <2>2. PICK ats : ats = {Top(open).test} OBVIOUS
  <2>3. Works(c, R, 0, n) /\ ats \subseteq R /\ R \ ats \subseteq Q /\ Q \subseteq R
    BY <1>3, <1>5, <2>1, <2>2
  <2>4. /\ Works(Patch(c, ats, Here + 1), Q, 0, n) /\ Grows(c, Patch(c, ats, Here + 1))
        /\ Len(Patch(c, ats, Here + 1)) = Len(c)
    <3>1. PICK t : t = Here + 1 OBVIOUS
    <3>2. Lands(c, t) BY <1>4, <3>1
    <3> QED BY <2>3, <3>1, <3>2, PatchWorks
  <2> QED BY <2>2, <2>4
<1>7. ThenClosed = Patch(c, {Top(open).test}, Here + 1) /\ ThenClosed \in Seq(Instruction)
  BY <1>1, ClosedCode DEF ThenClosed, c
<1>8. Grows(code, ThenClosed) BY <1>1, <1>3, <1>6, <1>7, GrowsOn
<1> QED BY <1>3, <1>6, <1>7, <1>8 DEF Q

\* The end of a loop: it goes back, and its condition leads past the jump.
LEMMA LoopWorks ==
  ASSUME Inv, BalanceInv, status = "emitting", open # << >>,
         Top(open).kind \in {"while", "step", "stepped"}
  PROVE  /\ Works(LoopClosed, Waiting(Below(open)), 0, Len(locals))
         /\ Grows(code, LoopClosed) /\ LoopClosed \in Seq(Instruction)
<1> DEFINE P == Waiting(open)
           n == Len(locals)
           c == Append(code, I("JMP", ToTest - (Here + 1)))
           Q == Waiting(Below(open))
<1>1. /\ Works(code, P, 0, n) /\ code \in Seq(Instruction) /\ open \in Seq(Block)
      /\ Here \in Nat /\ Len(open) \in DOMAIN open
  BY Typed, BelowIsSeq DEF BalanceInv, Works, Here
<1>2. P = Waiting(Below(open)) \cup {Top(open).test} BY <1>1, WaitingTop DEF Waits
<1>3. ToTest \in Int /\ Lands(code, ToTest) BY <1>1 DEF BalanceInv, StartsLand, Top, ToTest, Lands
<1>4. /\ Works(c, P, 0, n) /\ Grows(code, c) /\ c \in Seq(Instruction)
      /\ Len(c) = Here + 1
  BY <1>1, <1>3, JumpWorks DEF Here
<1> HIDE DEF P, c
<1>5. Lands(c, Here + 1) BY <1>4, EndLands
<1>6. {Top(open).test} \subseteq P /\ P \ {Top(open).test} \subseteq Q /\ Q \subseteq P BY <1>2
<1> HIDE DEF Q
<1>7. /\ Works(Patch(c, {Top(open).test}, Here + 1), Q, 0, n)
      /\ Grows(c, Patch(c, {Top(open).test}, Here + 1))
  BY <1>4, <1>5, <1>6, PatchWorks
<1>8. LoopClosed = Patch(c, {Top(open).test}, Here + 1) /\ LoopClosed \in Seq(Instruction)
  BY <1>1, ClosedCode DEF LoopClosed, c
<1>9. Grows(code, LoopClosed) BY <1>1, <1>4, <1>7, <1>8, GrowsOn
<1> QED BY <1>7, <1>8, <1>9 DEF Q

-----------------------------------------------------------------------------
(* Every step leaves code that works. *)

\* A mark is made of where its code starts.
LEMMA NoteLands ==
  ASSUME MarksLand, code \in Seq(Instruction), code' \in Seq(Instruction), Grows(code, code'),
         NEW kind \in MarkKinds, Note(kind), NEW at, Lands(code', at),
         at = Here + (IF kind = "elseif" THEN 1 ELSE 0)
  PROVE  MarksLand'
<1> DEFINE m == [kind |-> kind, at |-> Here]
<1>1. source \in Seq(Mark) /\ source' = Append(source, m) /\ Here \in Nat
  BY DEF MarksLand, Note, Here
<1>2. m \in Mark /\ m.kind = kind /\ m.at = Here BY <1>1 DEF Mark
<1> HIDE DEF m
<1>3. /\ source' \in Seq(Mark) /\ DOMAIN source' = DOMAIN source \cup {Len(source) + 1}
      /\ \A i \in DOMAIN source : source'[i] = source[i]
      /\ source'[Len(source) + 1] = m
  BY <1>1, <1>2
<1>4. ASSUME NEW i \in DOMAIN source' PROVE Lands(code', Start(i)')
  <2>1. CASE i \in DOMAIN source BY <1>3, <2>1, StillLands DEF Start, Kind, MarksLand
  <2>2. CASE i = Len(source) + 1 BY <1>2, <1>3, <2>2 DEF Start, Kind
  <2> QED BY <1>3, <2>1, <2>2
<1> QED BY <1>3, <1>4 DEF MarksLand

LEMMA LoopsKept ==
  ASSUME Inv, LoopsSlotted, locals' = locals,
         loops' \in {loops, loop_push} \/ (loops # << >> /\ loops' = loop_pop)
  PROVE  LoopsSlotted'
<1>1. loops \in Seq(Slots) BY DEF Inv, NameInv, NameTypes
<1>2. CASE loops' = loops BY <1>2 DEF LoopsSlotted
<1>3. CASE loops' = Append(loops, << >>)
  <2>1. Slotted(<< >>, Len(locals))
    <3>1. << >> \in [1..0 -> Nat] /\ 1..0 = {} /\ DOMAIN << >> = {} OBVIOUS
    <3> QED BY <3>1, SlotsAre DEF Slotted
  <2> QED BY <1>1, <1>3, <2>1 DEF LoopsSlotted
<1>4. CASE loops # << >> /\ loops' = Below(loops) BY <1>1, <1>4, BelowIsSeq DEF LoopsSlotted
<1> QED BY <1>2, <1>3, <1>4 DEF loop_push, loop_pop

\* What the invariant says of code that is emitted.
LEMMA Emitted ==
  ASSUME Inv, BalanceInv, status = "emitting"
  PROVE  /\ Works(code, Waiting(open), 0, Len(locals)) /\ LoopsSlotted /\ StartsLand /\ MarksLand
         /\ code \in Seq(Instruction) /\ Here = Len(code) /\ Here \in Nat /\ Lands(code, Here)
         /\ open \in Seq(Block) /\ Slotted(map, Len(locals)) /\ Len(locals) \in Nat /\ NameInv
<1>1. Works(code, Waiting(open), 0, Len(locals)) /\ LoopsSlotted /\ StartsLand /\ MarksLand
  BY DEF BalanceInv
<1>2. code \in Seq(Instruction) /\ Here = Len(code) /\ Here \in Nat BY <1>1 DEF Works, Here
<1>3. open \in Seq(Block) /\ NameInv BY Typed DEF Inv
<1> QED BY <1>1, <1>2, <1>3, EndLands, MapSlotted

LEMMA Emits ==
  ASSUME Inv, BalanceInv, status = "emitting", Grows(code, code'),
         Works(code', Waiting(open'), 0, Len(locals')), LoopsSlotted', MarksLand',
         \A i \in DOMAIN open' :
           Lands(code', open'[i].start) \/ \E j \in DOMAIN open : open'[i].start = open[j].start
  PROVE  BalanceInv'
<1>1. StartsLand /\ code \in Seq(Instruction) /\ code' \in Seq(Instruction) BY Emitted DEF Works
<1>2. ASSUME NEW i \in DOMAIN open' PROVE Lands(code', open'[i].start)
  <2>1. CASE \E j \in DOMAIN open : open'[i].start = open[j].start
    <3>1. PICK j \in DOMAIN open : open'[i].start = open[j].start BY <2>1
    <3> QED BY <1>1, <3>1, StillLands DEF StartsLand
  <2> QED BY <1>2, <2>1
<1>3. StartsLand' BY <1>2 DEF StartsLand
<1> QED BY <1>3 DEF BalanceInv

LEMMA OpenedIs ==
  \A kind, test, start, ends :
    /\ Opened(kind, test, start, ends).kind = kind /\ Opened(kind, test, start, ends).test = test
    /\ Opened(kind, test, start, ends).start = start /\ Opened(kind, test, start, ends).ends = ends
  BY DEF Opened

LEMMA ZeroLands == ASSUME NEW c \in Seq(Instruction) PROVE Lands(c, 0)
  BY DepthsAre DEF Lands

\* The jumps that wait when a statement is opened, or goes on with its next part.
LEMMA WaitingOpened ==
  ASSUME Inv, status = "emitting", NEW b
  PROVE  /\ open' = Append(open, b) => Waiting(open') = Waiting(open) \cup Waits(b)
         /\ open # << >> /\ open' = Append(Below(open), b) =>
              Waiting(open') = Waiting(Below(open)) \cup Waits(b)
         /\ open' = Append(open, b) \/ (open # << >> /\ open' = Append(Below(open), b)) =>
              \A i \in DOMAIN open' :
                open'[i].start = b.start \/ \E j \in DOMAIN open : open'[i].start = open[j].start
<1>1. open \in Seq(Block) /\ (open # << >> => Below(open) \in Seq(Block)) BY Typed, BelowIsSeq
<1>2. CASE open' = Append(open, b) BY <1>1, <1>2, WaitingAppended
<1>3. CASE open # << >> /\ open' = Append(Below(open), b)
  <2>1. /\ Waiting(open') = Waiting(Below(open)) \cup Waits(b)
        /\ \A i \in DOMAIN open' :
             open'[i] = b \/ \E j \in DOMAIN Below(open) : open'[i] = Below(open)[j]
    BY <1>1, <1>3, WaitingAppended
  <2>2. \A i \in DOMAIN Below(open) : \E j \in DOMAIN open : Below(open)[i] = open[j]
    BY <1>1, <1>3, WaitingTop
  <2>3. open' = Append(open, b) => Waiting(open') = Waiting(open) \cup Waits(b)
    BY <1>1, WaitingAppended
  <2> QED BY <1>3, <2>1, <2>2, <2>3
<1> QED BY <1>2, <1>3

LEMMA BalanceStatement ==
  ASSUME Inv, BalanceInv, Statement, status' = "emitting" PROVE BalanceInv'
<1>1. status = "emitting" /\ open' = open BY DEF Statement, InList, Emitting
<1>2. PICK st \in parse_stmt : emit_stmt(st) /\ Note(st.kind) BY DEF Statement
<1>3. st.kind \in MarkKinds /\ st.kind # "elseif" BY DEF parse_stmt, Declarations, MarkKinds
<1>4. Goes(Waiting(open)) BY <1>1, <1>2, Emitted, StmtGoes
<1>5. /\ Works(code', Waiting(open'), 0, Len(locals')) /\ Grows(code, code') /\ LoopsSlotted'
      /\ code' \in Seq(Instruction)
  BY <1>1, <1>4 DEF Goes, Works
<1>6. MarksLand'
  <2>1. Lands(code', Here) /\ Here + 0 = Here BY <1>1, <1>5, Emitted, StillLands
  <2> QED BY <1>1, <1>2, <1>3, <1>5, <2>1, Emitted, NoteLands
<1> QED BY <1>1, <1>5, <1>6, Emits

LEMMA BalanceOpens ==
  ASSUME Inv, BalanceInv, If \/ While \/ For, status' = "emitting" PROVE BalanceInv'
<1>1. status = "emitting" BY DEF If, While, For, Opens, InList, Emitting
<1>2. CASE If \/ While
  <2>1. PICK kind \in {"then", "while"}, cond \in Operands, start \in {0, Here} :
          /\ Known(map, cond) /\ code' = code \o Test(map, cond)
          /\ open' = Append(open, Opened(kind, Here + 1, start, {}))
          /\ loops' \in {loops, loop_push} /\ locals' = locals
    BY <1>2, Zenon DEF If, While, Fail
  <2> DEFINE b == Opened(kind, Here + 1, start, {})
  <2>2. Waits(b) = {Here + 1} /\ b.start = start BY <2>1, OpenedIs DEF Waits
  <2> HIDE DEF b
  <2>3. open' = Append(open, b) BY <2>1 DEF b
  <2>4. /\ Works(code', Waiting(open) \cup {Here + 1}, 0, Len(locals)) /\ Grows(code, code')
        /\ code' \in Seq(Instruction)
    BY <1>1, <2>1, Emitted, TestWorks
  <2>5. Works(code', Waiting(open'), 0, Len(locals')) BY <1>1, <2>1, <2>2, <2>3, <2>4, WaitingOpened
  <2>6. Lands(code', 0) /\ Lands(code', Here) BY <1>1, <2>4, Emitted, StillLands, ZeroLands
  <2>7. MarksLand' BY <1>1, <1>2, <2>4, <2>6, Emitted, NoteLands DEF If, While, MarkKinds
  <2>8. LoopsSlotted' BY <1>1, <2>1, Emitted, LoopsKept
  <2>9. \A i \in DOMAIN open' :
          Lands(code', open'[i].start) \/ \E j \in DOMAIN open : open'[i].start = open[j].start
    BY <1>1, <2>1, <2>2, <2>3, <2>6, WaitingOpened
  <2> QED BY <1>1, <2>4, <2>5, <2>7, <2>8, <2>9, Emits
<1>3. CASE For
  <2> DEFINE b == Opened("init", 0, 0, {})
  <2>1. /\ open' = Append(open, b) /\ loops' = loop_push
        /\ UNCHANGED <<code, locals, source>>
    BY <1>3 DEF For
  <2>2. Waits(b) = {} /\ b.start = 0 BY OpenedIs DEF Waits
  <2> HIDE DEF b
  <2>3. Works(code', Waiting(open'), 0, Len(locals')) /\ Grows(code, code')
    BY <1>1, <2>1, <2>2, WaitingOpened, Emitted, GrowsNot
  <2>4. MarksLand' BY <1>1, <2>1, Emitted DEF MarksLand, Start, Kind
  <2>5. LoopsSlotted' BY <1>1, <2>1, Emitted, LoopsKept
  <2>6. \A i \in DOMAIN open' :
          Lands(code', open'[i].start) \/ \E j \in DOMAIN open : open'[i].start = open[j].start
    BY <1>1, <2>1, <2>2, Emitted, ZeroLands, WaitingOpened
  <2> QED BY <1>1, <2>3, <2>4, <2>5, <2>6, Emits
<1> QED BY <1>2, <1>3

LEMMA BalanceElse ==
  ASSUME Inv, BalanceInv, Else \/ ElseIf, status' = "emitting" PROVE BalanceInv'
<1>1. Emitting({"then"}) BY DEF Else, ElseIf
<1>2. status = "emitting" /\ open # << >> /\ Top(open).kind = "then" BY <1>1, TopOf
<1> DEFINE P == Waiting(Below(open)) \cup Ends
<1>3. /\ Works(ThenClosed, P, 0, Len(locals)) /\ Grows(code, ThenClosed)
      /\ ThenClosed \in Seq(Instruction) /\ Len(ThenClosed) = Here + 1
      /\ Lands(ThenClosed, Here + 1)
  BY <1>2, ThenWorks, EndLands
<1>4. code \in Seq(Instruction) /\ Here \in Nat /\ Lands(code, Here) BY <1>2, Emitted
<1>5. CASE Else
  <2> DEFINE b == Opened("else", 0, 0, Ends)
  <2>1. /\ code' = ThenClosed /\ open' = Append(Below(open), b) /\ Note("else")
        /\ UNCHANGED <<locals, loops>>
    BY <1>5 DEF Else
  <2>2. Waits(b) = Ends /\ b.start = 0 BY OpenedIs DEF Waits
  <2> HIDE DEF b
  <2>3. Works(code', Waiting(open'), 0, Len(locals')) /\ Grows(code, code')
    BY <1>2, <1>3, <2>1, <2>2, WaitingOpened
  <2>4. Lands(code', 0) /\ Lands(code', Here) /\ Here + 0 = Here /\ "else" \in MarkKinds
    BY <1>3, <1>4, <2>1, StillLands, ZeroLands DEF MarkKinds
  <2>5. MarksLand' BY <1>2, <1>3, <2>1, <2>4, Emitted, NoteLands
  <2>6. LoopsSlotted' BY <1>2, <2>1, Emitted, LoopsKept
  <2>7. \A i \in DOMAIN open' :
          Lands(code', open'[i].start) \/ \E j \in DOMAIN open : open'[i].start = open[j].start
    BY <1>2, <2>1, <2>2, <2>4, WaitingOpened
  <2> QED BY <1>2, <2>3, <2>5, <2>6, <2>7, Emits
<1>6. CASE ElseIf
  <2>1. PICK cond \in Operands :
          /\ Known(Outside, cond) /\ code' = ThenClosed \o Test(Outside, cond)
          /\ open' = Append(Below(open), Opened("then", Here + 2, 0, Ends))
          /\ UNCHANGED <<locals, loops>>
    BY <1>6, Zenon DEF ElseIf, Fail
  <2> DEFINE b == Opened("then", Here + 2, 0, Ends)
  <2>2. Waits(b) = Ends \cup {Here + 2} /\ b.start = 0 BY OpenedIs DEF Waits
  <2> HIDE DEF b
  <2>3. open' = Append(Below(open), b) BY <2>1 DEF b
  <2>4. Slotted(Outside, Len(locals)) BY <1>2, Emitted, SlotsAre DEF Slotted, Outside, Without
  <2>5. /\ Works(code', P \cup {(Here + 1) + 1}, 0, Len(locals)) /\ Grows(ThenClosed, code')
        /\ code' \in Seq(Instruction)
    BY <1>3, <2>1, <2>4, TestWorks
  <2>6. P \cup {(Here + 1) + 1} = Waiting(open') BY <1>2, <1>4, <2>2, <2>3, WaitingOpened
  <2>7. Grows(code, code') BY <1>3, <1>4, <2>5, GrowsOn
  <2>8. Lands(code', 0) /\ Lands(code', Here + 1) BY <1>3, <2>5, StillLands, ZeroLands
  <2>9. MarksLand'
    <3>1. Note("elseif") /\ "elseif" \in MarkKinds BY <1>6 DEF ElseIf, MarkKinds
    <3> QED BY <1>2, <2>5, <2>7, <2>8, <3>1, Emitted, NoteLands
  <2>10. LoopsSlotted' BY <1>2, <2>1, Emitted, LoopsKept
  <2>11. \A i \in DOMAIN open' :
          Lands(code', open'[i].start) \/ \E j \in DOMAIN open : open'[i].start = open[j].start
    BY <1>2, <2>2, <2>3, <2>8, WaitingOpened
  <2>12. Works(code', Waiting(open'), 0, Len(locals')) BY <2>1, <2>5, <2>6
  <2> QED BY <1>2, <2>7, <2>9, <2>10, <2>11, <2>12, Emits
<1> QED BY <1>5, <1>6

LEMMA NoteHere ==
  ASSUME Inv, BalanceInv, status = "emitting", code' \in Seq(Instruction), Grows(code, code'),
         NEW kind \in MarkKinds, kind # "elseif", Note(kind)
  PROVE  MarksLand'
<1>1. code \in Seq(Instruction) /\ Lands(code, Here) /\ MarksLand /\ Here \in Nat BY Emitted
<1>2. Lands(code', Here) BY <1>1, StillLands
<1>3. Here = Here + (IF kind = "elseif" THEN 1 ELSE 0) BY <1>1
<1> QED BY <1>1, <1>2, <1>3, NoteLands

\* The end of a block patches the jumps that waited for it.
LEMMA Closes ==
  ASSUME Inv, BalanceInv, status = "emitting", open # << >>, open' = Below(open),
         code' \in Seq(Instruction), Grows(code, code'), locals' = locals,
         Works(code', Waiting(Below(open)), 0, Len(locals)),
         loops' = loops \/ (loops # << >> /\ loops' = loop_pop),
         NEW kind \in MarkKinds, kind # "elseif", Note(kind)
  PROVE  BalanceInv'
<1>2. LoopsSlotted' BY Emitted, LoopsKept
<1>3. MarksLand' BY NoteHere
<1>4. \A i \in DOMAIN open' : \E j \in DOMAIN open : open'[i].start = open[j].start
  BY Emitted, WaitingTop
<1> QED BY <1>2, <1>3, <1>4, Emits

LEMMA BalanceCloses ==
  ASSUME Inv, BalanceInv, EndIf \/ EndWhile \/ EndFor PROVE BalanceInv'
<1>1. PICK kinds : Emitting(kinds) /\ kinds \subseteq BlockKinds
  BY DEF EndIf, EndWhile, EndFor, BlockKinds, LoopKinds
<1>2. /\ status = "emitting" /\ open # << >> /\ open' = Below(open) /\ locals' = locals
      /\ open \in Seq(Block) /\ Top(open) \in Block
  BY <1>1, TopOf, Typed DEF BlockKinds, LoopKinds, EndIf, EndWhile, EndFor, Close
<1>3. /\ Works(code, Waiting(open), 0, Len(locals)) /\ code \in Seq(Instruction)
      /\ Here = Len(code) /\ Lands(code, Here)
      /\ Waiting(open) = Waiting(Below(open)) \cup Waits(Top(open))
  BY <1>2, Emitted, WaitingTop
<1>4. CASE EndIf
  <2>1. Note("endif") /\ loops' = loops /\ "endif" \in MarkKinds /\ "endif" # "elseif"
    BY <1>4 DEF EndIf, MarkKinds
  <2>2. CASE Emitting({"then"}) /\ code' = Patch(ThenClosed, Ends, Here + 1)
    <3> DEFINE P == Waiting(Below(open)) \cup Ends
               Q == Waiting(Below(open))
    <3>2. /\ Works(ThenClosed, P, 0, Len(locals)) /\ Grows(code, ThenClosed)
          /\ ThenClosed \in Seq(Instruction) /\ Len(ThenClosed) = Here + 1
      BY <1>2, <2>2, ThenWorks DEF Emitting
    <3>3. Lands(ThenClosed, Here + 1) BY <3>2, EndLands
    <3>4. Ends \subseteq P /\ P \ Ends \subseteq Q /\ Q \subseteq P OBVIOUS
    <3> HIDE DEF P, Q
    <3>5. Works(code', Q, 0, Len(locals)) /\ Grows(ThenClosed, code')
      BY <2>2, <3>2, <3>3, <3>4, PatchWorks
    <3>6. code' \in Seq(Instruction) BY <3>5 DEF Works
    <3>7. Grows(code, code') BY <1>3, <3>2, <3>5, <3>6, GrowsOn
    <3> QED BY <1>2, <2>1, <3>5, <3>6, <3>7, Closes DEF Q
  <2>3. CASE Emitting({"else"}) /\ code' = Patch(code, Top(open).ends, Here)
    <3> DEFINE P == Waiting(open)
               Q == Waiting(Below(open))
               ats == Top(open).ends
    <3>2. Works(code, P, 0, Len(locals)) /\ Lands(code, Here) BY <1>3
    <3>3. ats \subseteq P /\ P \ ats \subseteq Q /\ Q \subseteq P
      BY <1>2, <1>3, <2>3 DEF Waits, Emitting
    <3>4. code' = Patch(code, ats, Here) BY <2>3
    <3> HIDE DEF P, Q, ats
    <3>5. Works(code', Q, 0, Len(locals)) /\ Grows(code, code') BY <3>2, <3>3, <3>4, PatchWorks
    <3> QED BY <1>2, <2>1, <3>5, Closes DEF Q, Works
  <2> QED BY <1>4, <2>2, <2>3 DEF EndIf
<1>5. CASE EndWhile \/ EndFor
  <2>1. /\ Top(open).kind \in {"while", "step", "stepped"} /\ loops' = loop_pop
        /\ code' = LoopClosed
    BY <1>2, <1>5 DEF EndWhile, EndFor, Emitting
  <2>2. /\ Works(code', Waiting(Below(open)), 0, Len(locals)) /\ Grows(code, code')
        /\ code' \in Seq(Instruction)
    BY <1>2, <2>1, LoopWorks
  <2>3. loops # << >>
    <3>1. Top(open).kind \in LoopKinds BY <2>1 DEF LoopKinds
    <3>2. /\ OpenOf(Below(open), LoopKinds) = OpenOf(open, LoopKinds) - 1
          /\ OpenOf(Below(open), LoopKinds) \in Nat
      BY <1>2, <3>1, Typed, OpenBelow, BelowIsSeq, OpenType
    <3> QED BY <1>2, <3>2, Typed
  <2>4. \E kind \in {"endwhile", "endfor"} :
          Note(kind) /\ kind \in MarkKinds /\ kind # "elseif"
    BY <1>5 DEF EndWhile, EndFor, MarkKinds
  <2> QED BY <1>2, <2>1, <2>2, <2>3, <2>4, Closes
<1> QED BY <1>4, <1>5

\* A FOR goes on with its next part.
LEMMA ForGoesOn ==
  ASSUME Inv, BalanceInv, status = "emitting", open # << >>, Grows(code, code'),
         NEW b, open' = Append(Below(open), b),
         NEW P, Works(code', P, 0, Len(locals')), P = Waiting(Below(open)) \cup Waits(b),
         Lands(code', b.start) \/ \E j \in DOMAIN open : b.start = open[j].start,
         LoopsSlotted', NEW kind \in MarkKinds, kind # "elseif", Note(kind)
  PROVE  BalanceInv'
<1>1. Waiting(open') = P BY WaitingOpened
<1>2. code' \in Seq(Instruction) BY DEF Works
<1>3. MarksLand' BY <1>2, NoteHere
<1>5. \A i \in DOMAIN open' :
        Lands(code', open'[i].start) \/ \E j \in DOMAIN open : open'[i].start = open[j].start
  BY WaitingOpened
<1> QED BY <1>1, <1>3, <1>5, Emits

LEMMA BalanceForPart ==
  ASSUME Inv, BalanceInv, ForInit \/ ForLimit \/ ForBodyEnd \/ ForStep, status' = "emitting"
  PROVE  BalanceInv'
<1>2. status = "emitting" /\ open # << >> /\ Top(open) \in Block /\ open \in Seq(Block)
  BY TopOf, Typed DEF ForInit, ForLimit, ForBodyEnd, ForStep, Emitting
<1>3. /\ Works(code, Waiting(open), 0, Len(locals)) /\ code \in Seq(Instruction)
      /\ Here = Len(code) /\ LoopsSlotted /\ NameInv /\ Slotted(map, Len(locals))
      /\ Waiting(open) = Waiting(Below(open)) \cup Waits(Top(open))
  BY <1>2, Emitted, WaitingTop
<1>4. Len(open) \in DOMAIN open /\ Top(open).start = open[Len(open)].start BY <1>2 DEF Top
<1>5. ASSUME NEW st \in parse_loop_header_stmt, emit_stmt(st)
      PROVE  /\ Works(code', Waiting(open), 0, Len(locals')) /\ Grows(code, code')
             /\ LoopsSlotted' /\ code' \in Seq(Instruction)
  BY <1>2, <1>3, <1>5, StmtGoes DEF Goes, Works
<1>6. CASE ForInit
  <2>1. PICK st \in parse_loop_header_stmt, n \in Names \cup {Garbage} :
          /\ emit_stmt(st)
          /\ open' = Append(Below(open),
                            [Opened("limit", 0, Len(code'), {}) EXCEPT !.iter = n])
    BY <1>6 DEF ForInit
  <2> DEFINE b == [Opened("limit", 0, Len(code'), {}) EXCEPT !.iter = n]
  <2>2. b.start = Len(code') /\ Waits(b) = {} BY DEF Opened, Waits
  <2> HIDE DEF b
  <2>3. Waits(Top(open)) = {} BY <1>2, <1>6 DEF ForInit, Emitting, Waits
  <2>4. Lands(code', b.start) BY <1>5, <2>1, <2>2, EndLands
  <2>5. Note("init") /\ "init" \in MarkKinds /\ "init" # "elseif" BY <1>6 DEF ForInit, MarkKinds
  <2>6. Waiting(open) = Waiting(Below(open)) \cup Waits(b) BY <1>3, <2>2, <2>3
  <2>7. open' = Append(Below(open), b) BY <2>1 DEF b
  <2> QED BY <1>2, <1>5, <2>1, <2>4, <2>5, <2>6, <2>7, ForGoesOn
<1>7. CASE ForLimit
  <2> DEFINE iter == Top(open).iter
  <2>1. PICK limit \in Operands :
          /\ Known(map, iter) /\ Known(map, limit)
          /\ code' = code \o emit_expr(map, iter) \o emit_expr(map, limit)
                       \o <<I("LT", 0), I("JMP_IF_FALSE", 0)>>
          /\ open' = Append(Below(open), Opened("for", Here + 3, Top(open).start, {}))
          /\ UNCHANGED <<locals, loops>>
    BY <1>7, Zenon DEF ForLimit, Fail
  <2> DEFINE b == Opened("for", Here + 3, Top(open).start, {})
  <2>2. b.start = Top(open).start /\ Waits(b) = {Here + 3} BY OpenedIs DEF Waits
  <2>3. open' = Append(Below(open), b) BY <2>1
  <2> HIDE DEF b, iter
  <2>4. Waits(Top(open)) = {} BY <1>2, <1>7 DEF ForLimit, Emitting, Waits
  <2> DEFINE P == Waiting(open) \cup {Here + 3}
  <2>5. Works(code', P, 0, Len(locals')) /\ Grows(code, code') BY <1>3, <2>1, LimitWorks
  <2>6. P = Waiting(Below(open)) \cup Waits(b) BY <1>3, <2>2, <2>4
  <2> HIDE DEF P
  <2>7. LoopsSlotted' BY <1>3, <2>1 DEF LoopsSlotted
  <2>8. Note("for") /\ "for" \in MarkKinds /\ "for" # "elseif" BY <1>7 DEF ForLimit, MarkKinds
  <2> QED BY <1>2, <1>4, <2>2, <2>3, <2>5, <2>6, <2>7, <2>8, ForGoesOn
<1>8. CASE ForBodyEnd
  <2> DEFINE b == [Top(open) EXCEPT !.kind = "step"]
  <2>1. /\ open' = Append(Below(open), b) /\ UNCHANGED <<code, locals, loops>>
        /\ Note("step") /\ "step" \in MarkKinds /\ "step" # "elseif"
        /\ Top(open).kind = "for"
    BY <1>2, <1>8 DEF ForBodyEnd, MarkKinds, Emitting
  <2>2. b.start = Top(open).start /\ Waits(b) = Waits(Top(open)) BY <1>2, <2>1 DEF Waits, Block
  <2> HIDE DEF b
  <2>3. Works(code', Waiting(open), 0, Len(locals')) /\ Grows(code, code') BY <1>3, <2>1, GrowsNot
  <2>4. LoopsSlotted' BY <1>3, <2>1 DEF LoopsSlotted
  <2>5. Waiting(open) = Waiting(Below(open)) \cup Waits(b) BY <1>3, <2>2
  <2> QED BY <1>2, <1>4, <2>1, <2>2, <2>3, <2>4, <2>5, ForGoesOn
<1>9. CASE ForStep
  <2> DEFINE b == [Top(open) EXCEPT !.kind = "stepped"]
  <2>1. PICK st \in parse_loop_header_stmt : emit_stmt(st) BY <1>9 DEF ForStep
  <2>2. /\ open' = Append(Below(open), b)
        /\ Note("stepped") /\ "stepped" \in MarkKinds /\ "stepped" # "elseif"
        /\ Top(open).kind = "step"
    BY <1>2, <1>9 DEF ForStep, MarkKinds, Emitting
  <2>3. b.start = Top(open).start /\ Waits(b) = Waits(Top(open)) BY <1>2, <2>2 DEF Waits, Block
  <2> HIDE DEF b
  <2>4. Waiting(open) = Waiting(Below(open)) \cup Waits(b) BY <1>3, <2>3
  <2> QED BY <1>2, <1>4, <1>5, <2>1, <2>2, <2>3, <2>4, ForGoesOn
<1> QED BY <1>6, <1>7, <1>8, <1>9

-----------------------------------------------------------------------------
(* The invariant of the stack *)

BalancedInv == Inv /\ BalanceInv /\ EndedInv

\* Nothing but the end of a chunk finishes it.
LEMMA StaysUnfinished ==
  ASSUME Inv, \/ Statement \/ If \/ Else \/ ElseIf \/ EndIf \/ While \/ EndWhile
              \/ For \/ ForInit \/ ForLimit \/ ForBodyEnd \/ ForStep \/ EndFor
  PROVE  status' \in {"emitting"} \cup Errors
<1>1. status = "emitting"
  BY DEF Statement, If, Else, ElseIf, EndIf, While, EndWhile, For, ForInit, ForLimit,
         ForBodyEnd, ForStep, EndFor, Opens, InList, Emitting
<1>2. ASSUME NEW st \in parse_stmt \cup parse_loop_header_stmt, emit_stmt(st)
      PROVE  status' \in {"emitting"} \cup Errors
  BY <1>1, <1>2, Typed, StmtKeeps DEF Inv, SameDepth, Errors
<1>3. CASE Statement \/ ForInit \/ ForStep BY <1>2, <1>3 DEF Statement, ForInit, ForStep
<1>4. CASE \/ If \/ Else \/ ElseIf \/ EndIf \/ While \/ EndWhile
           \/ For \/ ForLimit \/ ForBodyEnd \/ EndFor
  BY <1>1, <1>4 DEF If, Else, ElseIf, EndIf, While, EndWhile, For, ForLimit,
                    ForBodyEnd, EndFor, Close, Fail, Errors
<1> QED BY <1>3, <1>4

LEMMA BalanceEnds ==
  ASSUME Inv, BalanceInv, EndChunk PROVE BalanceInv' /\ EndedInv'
<1>1. /\ status = "emitting" /\ status' = "emitted" /\ Emitting({"list"})
      /\ code' = code \o Return /\ UNCHANGED <<locals, source>>
  BY DEF EndChunk, Emitting, Return
<1>2. open = << >>
  <2>1. CASE open # << >>
    <3>1. Top(open) \in Block /\ Top(open).kind = "list"
      BY <1>1, <2>1, Typed, BelowIsSeq DEF Emitting
    <3> QED BY <3>1 DEF Block, BlockKinds, LoopKinds
  <2> QED BY <2>1
<1>3. Waiting(open) = {} BY <1>2 DEF Waiting
<1>4. Works(code, {}, 0, Len(locals')) /\ \A i \in DOMAIN source' : Lands(code, Start(i)')
  BY <1>1, <1>3, Emitted DEF MarksLand, Start, Kind
<1> QED BY <1>1, <1>4 DEF BalanceInv, EndedInv, Finished

\* A chunk without code works.
LEMMA BalanceBegins ==
  ASSUME code = << >>, locals \in Seq(Names), loops = << >>, open = << >>, source = << >>,
         status = "emitting"
  PROVE  BalanceInv /\ EndedInv
<1>1. code \in Seq(Instruction) /\ Len(code) = 0 /\ Len(locals) \in Nat OBVIOUS
<1>5. Depths(code)[Len(code)] = 0 BY <1>1, DepthsAre
<1>2. Waiting(open) = {} BY DEF Waiting
<1>3. Works(code, {}, 0, Len(locals)) BY <1>1, <1>5 DEF Works
<1>4. LoopsSlotted /\ StartsLand /\ MarksLand BY DEF LoopsSlotted, StartsLand, MarksLand
<1> QED BY <1>2, <1>3, <1>4 DEF BalanceInv, EndedInv, Finished

BeginsBalanced ==
  code = << >> /\ locals \in Seq(Names) /\ loops = << >> /\ open = << >> /\ source = << >>
    /\ status = "emitting" => BalanceInv /\ EndedInv

LEMMA Balanced == BeginsBalanced
  BY BalanceBegins DEF BeginsBalanced

LEMMA InitBalanced == Init => BalancedInv
<1> SUFFICES ASSUME Init PROVE BalancedInv OBVIOUS
<1>1. Inv BY InitInv
<1>2. locals \in Seq(Names) BY EmitterAssumption DEF Init
<1> QED BY <1>1, <1>2, Balanced DEF BeginsBalanced, Init, BalancedInv

LEMMA NextBalanced == BalancedInv /\ [Next]_vars => BalancedInv'
<1> SUFFICES ASSUME Inv, BalanceInv, EndedInv, [Next]_vars PROVE BalanceInv' /\ EndedInv' /\ Inv'
  BY DEF BalancedInv
<1>1. Inv' BY NextInv
<1>2. CASE \/ Statement \/ If \/ Else \/ ElseIf \/ EndIf \/ While \/ EndWhile
           \/ For \/ ForInit \/ ForLimit \/ ForBodyEnd \/ ForStep \/ EndFor
  <2>1. status' \in {"emitting"} \cup Errors BY <1>2, StaysUnfinished
  <2>2. CASE status' = "emitting"
    <3>1. BalanceInv'
      BY <1>2, <2>2, BalanceStatement, BalanceOpens, BalanceElse, BalanceCloses, BalanceForPart
    <3>2. ~Finished' BY <2>2 DEF Finished
    <3> QED BY <1>1, <3>1, <3>2 DEF EndedInv
  <2>3. CASE status' \in Errors BY <1>1, <2>3 DEF Finished, Errors, BalanceInv, EndedInv
  <2> QED BY <1>1, <2>1, <2>2, <2>3
<1>3. CASE EndChunk BY <1>1, <1>3, BalanceEnds
<1>4. CASE NextChunk
  <2>1. /\ code' = << >> /\ loops' = loops /\ open' = open /\ source' = << >>
        /\ status' = "emitting" /\ status = "emitted"
    BY <1>4 DEF NextChunk
  <2>2. open = << >> /\ Len(loops) = 0 BY <2>1, NoneOpen DEF Inv, BlockInv, BlockTypes, OneEach
  <2>3. loops = << >> BY <2>2 DEF Inv, NameInv, NameTypes
  <2>4. locals' \in Seq(Names) BY <1>1 DEF Inv, NameInv, NameTypes
  <2>5. BeginsBalanced' BY Balanced, PTL
  <2> QED BY <1>1, <2>1, <2>2, <2>3, <2>4, <2>5 DEF BeginsBalanced
<1>5. CASE UNCHANGED vars
  <2>1. UNCHANGED <<code, map, locals, scopes, loops, open, status, source>>
    BY <1>5 DEF vars, context
  <2>3. \A i : Start(i)' = Start(i) BY <2>1 DEF Start, Kind
  <2>4. BalanceInv' BY <2>1, <2>3 DEF BalanceInv, LoopsSlotted, StartsLand, MarksLand
  <2>5. EndedInv' BY <2>1, <2>3 DEF EndedInv, Finished
  <2> QED BY <1>1, <2>4, <2>5
<1> QED BY <1>2, <1>3, <1>4, <1>5 DEF Next

-----------------------------------------------------------------------------
(* Where control may get *)

IsReached(f, from, wall) ==
  f = [n \in 0..Here |->
         IF n = 0 THEN from
         ELSE f[n - 1] \cup UNION {Successors(a) : a \in (f[n - 1] \ wall) \cap Addresses}]

\* The addresses reached in so many steps.
Stages(f, from, wall) ==
  /\ f[0] = from
  /\ \A n \in 1..Here :
       f[n] = f[n - 1] \cup UNION {Successors(a) : a \in (f[n - 1] \ wall) \cap Addresses}

LEMMA ReachedStages ==
  ASSUME code \in Seq(Instruction), NEW S, NEW wall, NEW from \in SUBSET S,
         \A a \in (S \ wall) \cap Addresses : Successors(a) \subseteq S
  PROVE  \E f : /\ Stages(f, from, wall) /\ ReachedFrom(from, wall) = f[Here]
                /\ \A n \in 0..Here : f[n] \in SUBSET S
<1> DEFINE X == SUBSET S
           step(x) == x \cup UNION {Successors(a) : a \in (x \ wall) \cap Addresses}
           F == [n \in 1..Here |-> [x \in X |-> step(x)]]
<1>1. Here \in Nat BY DEF Here
<1>2. \A x \in X : step(x) \in X OBVIOUS
<1>3. F \in [1..Here -> [X -> X]] /\ from \in X BY <1>2
<1>4. PICK g \in [0..Here -> X] : g[0] = from /\ \A n \in 1..Here : g[n] = F[n][g[n - 1]]
  <2> HIDE DEF F, X
  <2>1. \E g : Recurs(g, Here, X, from, F) BY <1>1, <1>3, Recursion
  <2> QED BY <2>1 DEF Recurs
<1>5. \A n \in 1..Here : g[n] = step(g[n - 1])
  <2> SUFFICES ASSUME NEW n \in 1..Here PROVE g[n] = step(g[n - 1]) OBVIOUS
  <2>1. n - 1 \in 0..Here BY <1>1
  <2>2. g[n - 1] \in X BY <2>1
  <2> QED BY <1>4, <2>2
<1> HIDE DEF F
<1>6. IsReached(g, from, wall)
  <2> DEFINE h == [n \in 0..Here |-> IF n = 0 THEN from ELSE step(g[n - 1])]
  <2>1. \A n \in 0..Here : g[n] = h[n]
    <3> SUFFICES ASSUME NEW n \in 0..Here PROVE g[n] = h[n] OBVIOUS
    <3>1. CASE n = 0 BY <1>4, <3>1
    <3>2. CASE n # 0 BY <1>1, <1>5, <3>2
    <3> QED BY <3>1, <3>2
  <2>2. g = h
    <3>1. DOMAIN h = 0..Here /\ h = [n \in 0..Here |-> h[n]] OBVIOUS
    <3>2. g = [n \in 0..Here |-> g[n]] OBVIOUS
    <3> HIDE DEF h
    <3> QED BY <2>1, <3>1, <3>2
  <2> QED BY <2>2 DEF IsReached
<1> DEFINE f == CHOOSE r : IsReached(r, from, wall)
<1>7. IsReached(f, from, wall) BY <1>6, Zenon
<1>8. ReachedFrom(from, wall) = f[Here] BY Zenon DEF ReachedFrom, IsReached
<1> HIDE DEF f
<1>9. /\ f[0] = from
      /\ \A n \in 1..Here : f[n] = step(f[n - 1])
  <2>1. f = [n \in 0..Here |-> IF n = 0 THEN from ELSE step(f[n - 1])] BY <1>7, Zenon DEF IsReached
  <2> HIDE DEF step
  <2> QED BY <1>1, <2>1
<1>10. \A n \in 0..Here : f[n] \in X
  <2> DEFINE T == {k \in Nat : k <= Here => f[k] \in X}
  <2>1. 0 \in T BY <1>3, <1>9
  <2>2. ASSUME NEW k \in Nat, k \in T PROVE k + 1 \in T
    <3> SUFFICES ASSUME k + 1 <= Here PROVE f[k + 1] \in X OBVIOUS
    <3>1. k + 1 \in 1..Here /\ (k + 1) - 1 = k /\ f[k] \in X BY <1>1, <2>2
    <3> QED BY <1>2, <1>9, <3>1
  <2>3. \A k \in Nat : k \in T
    <3> HIDE DEF T
    <3> QED BY <2>1, <2>2, CountUp
  <2> QED BY <1>1, <2>3
<1> QED BY <1>8, <1>9, <1>10 DEF Stages

\* Control stays in a set of addresses that it does not leave in one step.
LEMMA ReachedWithin ==
  ASSUME code \in Seq(Instruction), NEW S, NEW wall, NEW from \in SUBSET S,
         \A a \in (S \ wall) \cap Addresses : Successors(a) \subseteq S
  PROVE  ReachedFrom(from, wall) \subseteq S
<1>1. Here \in 0..Here BY DEF Here
<1> QED BY <1>1, ReachedStages

LEMMA JoinAt ==
  ASSUME NEW c \in Seq(Instruction), NEW d \in Seq(Instruction)
  PROVE  /\ \A a \in 1..Len(c) : (c \o d)[a] = c[a]
         /\ \A a \in 1..Len(d) : (c \o d)[Len(c) + a] = d[a]
  OBVIOUS

\* The implicit return is where the code falls when it ends.
LEMMA ReturnAdded ==
  ASSUME NEW c \in Seq(Instruction), code = c \o Return, Depths(c)[Len(c)] = 0
  PROVE  LET N == Len(c) IN
         /\ code \in Seq(Instruction) /\ Here = N + 3
         /\ \A a \in 0..(N - 1) : At(code, a) = At(c, a)
         /\ At(code, N) = I("PUSH_NULL", 0) /\ At(code, N + 1) = I("RET", 0)
         /\ \A a \in 0..N : Depths(code)[a] = Depths(c)[a]
         /\ Depths(code)[N + 1] = 1
<1> DEFINE N == Len(c)
<1>1. /\ Return \in Seq(Instruction) /\ Len(Return) = 3
      /\ Return[1] = I("PUSH_NULL", 0) /\ Return[2] = I("RET", 0)
  BY DEF Return, I, Instruction, Opcodes
<1> DEFINE r == Return
<1> HIDE DEF r
<1>2. r \in Seq(Instruction) /\ Len(r) = 3 /\ code = c \o r BY <1>1 DEF r
<1>3. /\ code \in Seq(Instruction) /\ Len(code) = N + 3 /\ N \in Nat
      /\ \A a \in 1..N : code[a] = c[a]
      /\ code[N + 1] = r[1] /\ code[N + 2] = r[2]
  <2> HIDE DEF N
  <2>1. code \in Seq(Instruction) /\ Len(code) = Len(c) + 3 /\ Len(c) \in Nat
    <3>2. Len(c) \in Nat OBVIOUS
    <3> QED BY <1>2, <3>2, JoinTwo
  <2> QED BY <1>2, <2>1, JoinAt DEF N
<1>4. \A a \in 0..(N - 1) : At(code, a) = At(c, a) BY <1>3 DEF At
<1>5. At(code, N) = I("PUSH_NULL", 0) /\ At(code, N + 1) = I("RET", 0) BY <1>1, <1>3 DEF At, r
<1>6. \A a \in 0..N : Depths(code)[a] = Depths(c)[a]
  <2>1. N <= Len(c) /\ N <= Len(code) BY <1>3
  <2>2. \A a \in 0..(N - 1) : Effect(At(code, a)) = Effect(At(c, a)) BY <1>4
  <2> HIDE DEF N
  <2> QED BY <1>3, <2>1, <2>2, DepthsAgree
<1>7. Depths(code)[N + 1] = Depths(code)[N] + Effect(At(code, N))
  <2>1. N \in 0..(Len(code) - 1) BY <1>3
  <2> HIDE DEF N
  <2> QED BY <1>3, <2>1, DepthsAre
<1>8. Effect(I("PUSH_NULL", 0)) = 1 BY DEF Effect, Takes, Gives, I
<1> QED BY <1>3, <1>4, <1>5, <1>6, <1>7, <1>8 DEF Here

LEMMA JumpsSame ==
  ASSUME NEW c, NEW a, At(code, a) = At(c, a) PROVE JumpTarget(code, a) = JumpTarget(c, a)
  BY DEF JumpTarget

LEMMA FinishedBalances ==
  ASSUME NEW c, Works(c, {}, 0, Len(locals)), code = c \o Return,
         NEW a \in 0..(Len(c) + 1)
  PROVE  LET depth == Depths(code)  i == At(code, a) IN
         /\ i.op # "HALT" /\ depth[a] >= Takes(i)
         /\ i.op \in Enders => depth[a] = Takes(i)
         /\ i.op \in {"GET_LOCAL", "SET_LOCAL", "VOID_LOCAL"} => i.arg < Len(locals)
         /\ Successors(a) \subseteq 0..(Len(c) + 1)
         /\ i.op # "RET" => \A b \in Successors(a) : depth[b] = depth[a] - Takes(i) + Gives(i)
<1> DEFINE N == Len(c)
           i == At(code, a)
           depth == Depths(code)
<1>1. c \in Seq(Instruction) /\ N \in Nat /\ Depths(c)[N] = 0 BY DEF Works
<1>2. /\ code \in Seq(Instruction) /\ Here = N + 3
      /\ \A k \in 0..(N - 1) : At(code, k) = At(c, k)
      /\ At(code, N) = I("PUSH_NULL", 0) /\ At(code, N + 1) = I("RET", 0)
      /\ \A k \in 0..N : depth[k] = Depths(c)[k]
      /\ depth[N + 1] = 1
  BY <1>1, ReturnAdded
<1>3. CASE a = N BY <1>1, <1>2, <1>3 DEF I, Takes, Gives, Successors, Enders
<1>4. CASE a = N + 1 BY <1>1, <1>2, <1>4 DEF I, Takes, Successors
<1>5. CASE a \in 0..(N - 1)
  <2>1. i = At(c, a) /\ i \in Instruction /\ depth[a] = Depths(c)[a] /\ a + 1 \in 0..N
    BY <1>1, <1>2, <1>5, AtType
  <2>2. Fits(i, depth[a], Len(locals)) BY <1>5, <2>1 DEF Works
  <2>3. i.op \in Jumps => Lands(c, JumpTarget(code, a)) BY <1>5, <2>1, JumpsSame DEF Works
  <2>4. depth[a + 1] = depth[a] + Effect(i) /\ depth[a] \in Int
    <3>3. a \in 0..N /\ a + 1 \in 0..N BY <1>1, <1>5
    <3>4. Depths(c)[a] \in Int BY <1>1, <3>3, DepthsAre
    <3>5. Depths(c)[a + 1] = Depths(c)[a] + Effect(At(c, a)) BY <1>1, <1>5, DepthsAre
    <3> QED BY <1>2, <2>1, <3>3, <3>4, <3>5
  <2>5. Takes(i) \in Int /\ Gives(i) \in Int BY <2>1, EffectType
  <2>6. depth[a + 1] = depth[a] - Takes(i) + Gives(i) BY <2>4, <2>5 DEF Effect
  <2>7. i.op \in Jumps =>
          /\ JumpTarget(code, a) \in 0..N /\ depth[JumpTarget(code, a)] = 0
          /\ depth[a] - Takes(i) + Gives(i) = 0
    <3> SUFFICES ASSUME i.op \in Jumps
                 PROVE  /\ JumpTarget(code, a) \in 0..N /\ depth[JumpTarget(code, a)] = 0
                        /\ depth[a] - Takes(i) + Gives(i) = 0
      OBVIOUS
    <3>1. JumpTarget(code, a) \in 0..N /\ depth[JumpTarget(code, a)] = 0 BY <1>2, <2>3 DEF Lands
    <3>2. depth[a] = Takes(i) BY <2>2 DEF Fits, Jumps, Enders, Takes
    <3>3. Gives(i) = 0 BY DEF Jumps, Gives
    <3> QED BY <2>5, <3>1, <3>2, <3>3
  <2>8. Successors(a) \subseteq {a + 1} \cup (IF i.op \in Jumps THEN {JumpTarget(code, a)} ELSE {})
    BY DEF Successors, Jumps
  <2> HIDE DEF i, depth
  <2>9. \A b \in Successors(a) : b \in 0..N /\ depth[b] = depth[a] - Takes(i) + Gives(i)
    BY <2>1, <2>6, <2>7, <2>8
  <2> QED BY <1>1, <2>2, <2>9 DEF Fits, LocalOps, i, depth
<1> QED BY <1>1, <1>3, <1>4, <1>5

\* However a finished chunk is run, and whatever statements it was made of, every
\* instruction finds its operands, what ends a statement finds nothing else, no
\* jump leaves the chunk and every slot is a local: emit_stmt never leaves a value
\* on the stack that the next statement does not expect, and the ends of blocks
\* patch every jump, once, to where the stack is empty (emit.c:220-620).
THEOREM StatementsKeepBalance == Spec => []StatementsBalance
<1>1. BalancedInv => StatementsBalance
  <2> SUFFICES ASSUME Inv, EndedInv, Finished PROVE StatementsBalance
    BY DEF BalancedInv, StatementsBalance
  <2>1. PICK c : /\ Works(c, {}, 0, Len(locals)) /\ code = c \o Return
                 /\ \A i \in DOMAIN source : Lands(c, Start(i))
    BY DEF EndedInv
  <2> DEFINE N == Len(c)
             S == 0..(N + 1)
  <2>2. c \in Seq(Instruction) /\ N \in Nat /\ Depths(c)[N] = 0 BY <2>1 DEF Works
  <2>3. /\ code \in Seq(Instruction) /\ Here = N + 3
        /\ \A k \in 0..N : Depths(code)[k] = Depths(c)[k]
    BY <2>1, <2>2, ReturnAdded
  <2>4. \A a \in S : Successors(a) \subseteq S BY <2>1, FinishedBalances
  <2>5. Reached({}) \subseteq S
    <3>1. {0} \in SUBSET S BY <2>2
    <3> HIDE DEF S
    <3>2. ReachedFrom({0}, {}) \subseteq S BY <2>3, <2>4, <3>1, ReachedWithin
    <3> QED BY <3>2 DEF Reached
  <2>6. Reached({}) \subseteq Addresses BY <2>2, <2>3, <2>5 DEF Addresses
  <2>8. ASSUME NEW a \in Reached({})
        PROVE  LET depth == Depths(code)  i == At(code, a) IN
               /\ i.op # "HALT" /\ depth[a] >= Takes(i)
               /\ i.op \in Enders => depth[a] = Takes(i)
               /\ i.op \in {"GET_LOCAL", "SET_LOCAL", "VOID_LOCAL"} => i.arg < Len(locals)
               /\ i.op # "RET" =>
                    \A b \in Successors(a) : depth[b] = depth[a] - Takes(i) + Gives(i)
    BY <2>1, <2>5, FinishedBalances
  <2> QED BY <2>1, <2>3, <2>6, <2>8 DEF StatementsBalance, Lands
<1>2. Spec => []BalancedInv BY InitBalanced, NextBalanced, PTL DEF Spec
<1> QED BY <1>1, <1>2, PTL

-----------------------------------------------------------------------------
(* The part of the code in which a slot may be read *)

\* Code that is entered at its first instruction only, after the slot was set.
\* A jump that is patched later may still come to lead into it.
Shelter(c, P, s, R) ==
  /\ 0 \notin R
  /\ \A a \in 0..(Len(c) - 1) :
       /\ At(c, a) = I("GET_LOCAL", s - 1) =>
            a \in R \/ (a + 1 < Len(c) /\ At(c, a + 1) = I("SET_LOCAL", s - 1))
       /\ a \notin R /\ a + 1 \in R => At(c, a) = I("SET_LOCAL", s - 1)
       /\ a \notin P /\ At(c, a).op \in Jumps /\ JumpTarget(c, a) \in R => a \in R

From(lo) == {a \in Int : a >= lo}

\* What comes after is in the part, or is not.
Settled(n, R) == (\A a \in Nat : a >= n => a \in R) \/ (\A a \in Nat : a >= n => a \notin R)

LEMMA JoinedInstructions ==
  ASSUME NEW c \in Seq(Instruction), NEW e \in Seq(Instruction)
  PROVE  /\ c \o e \in Seq(Instruction) /\ Len(c \o e) = Len(c) + Len(e)
         /\ \A a \in 0..(Len(c) - 1) : At(c \o e, a) = At(c, a)
         /\ \A b \in 0..(Len(e) - 1) : At(c \o e, Len(c) + b) = At(e, b)
<1>2. /\ \A a \in 1..Len(c) : (c \o e)[a] = c[a]
      /\ \A a \in 1..Len(e) : (c \o e)[Len(c) + a] = e[a]
  BY JoinAt
<1>3. \A a \in 0..(Len(c) - 1) : At(c \o e, a) = At(c, a) BY <1>2 DEF At
<1>4. ASSUME NEW b \in 0..(Len(e) - 1) PROVE At(c \o e, Len(c) + b) = At(e, b) BY <1>2 DEF At
<1> QED BY <1>3, <1>4, JoinTwo

\* Code is emitted that does not read the slot where it may not, and whose jumps
\* are patched later.
LEMMA ShelterOn ==
  ASSUME NEW c \in Seq(Instruction), NEW P, NEW s, NEW R, Shelter(c, P, s, R),
         Settled(Len(c), R), NEW e \in Seq(Instruction), NEW Q, P \subseteq Q,
         \A b \in 0..(Len(e) - 1) :
           /\ At(e, b) = I("GET_LOCAL", s - 1) => Len(c) \in R
           /\ At(e, b).op \in Jumps /\ Len(c) + b \notin Q =>
                Len(c) \in R \/ Len(c) + b + 1 + At(e, b).arg \notin R
  PROVE  Shelter(c \o e, Q, s, R)
<1> DEFINE n == Len(c)
           f == c \o e
<1>1. /\ f \in Seq(Instruction) /\ Len(f) = n + Len(e) /\ n \in Nat /\ Len(e) \in Nat
      /\ \A a \in 0..(n - 1) : At(f, a) = At(c, a)
      /\ \A b \in 0..(Len(e) - 1) : At(f, n + b) = At(e, b)
  BY JoinedInstructions
<1> HIDE DEF f
<1>2. 0 \notin R BY DEF Shelter
<1>3. ASSUME NEW a \in 0..(n - 1)
      PROVE  /\ At(f, a) = I("GET_LOCAL", s - 1) =>
                  a \in R \/ (a + 1 < Len(f) /\ At(f, a + 1) = I("SET_LOCAL", s - 1))
             /\ a \notin R /\ a + 1 \in R => At(f, a) = I("SET_LOCAL", s - 1)
             /\ a \notin Q /\ At(f, a).op \in Jumps /\ JumpTarget(f, a) \in R => a \in R
  BY <1>1 DEF JumpTarget, Shelter
<1>4. ASSUME NEW a \in n..(Len(f) - 1)
      PROVE  /\ At(f, a) = I("GET_LOCAL", s - 1) => a \in R
             /\ ~(a \notin R /\ a + 1 \in R)
             /\ a \notin Q /\ At(f, a).op \in Jumps /\ JumpTarget(f, a) \in R => a \in R
  <2>1. PICK b \in 0..(Len(e) - 1) : a = n + b
    <3>1. a - n \in 0..(Len(e) - 1) /\ a = n + (a - n) BY <1>1
    <3> QED BY <3>1
  <2>2. At(f, a) = At(e, b) /\ a \in Nat /\ a >= n /\ a + 1 \in Nat /\ a + 1 >= n BY <1>1, <2>1
  <2>4. JumpTarget(f, a) = n + b + 1 + At(e, b).arg BY <2>1, <2>2 DEF JumpTarget
  <2> QED BY <1>1, <2>1, <2>2, <2>4 DEF Settled
<1>5. \A a \in 0..(Len(f) - 1) : a \in 0..(n - 1) \/ a \in n..(Len(f) - 1) BY <1>1
<1> QED BY <1>2, <1>3, <1>4, <1>5 DEF Shelter, f

\* Jumps that waited are patched.
LEMMA ShelterPatched ==
  ASSUME NEW c \in Seq(Instruction), NEW P, NEW s, NEW R, Shelter(c, P, s, R),
         NEW ats, \A a \in ats : a \in 0..(Len(c) - 1) /\ At(c, a).op \in Jumps,
         NEW t \in Int, t \in R => ats \subseteq R, NEW Q, P \ ats \subseteq Q
  PROVE  Shelter(Patch(c, ats, t), Q, s, R)
<1> DEFINE f == Patch(c, ats, t)
<1>1. f \in Seq(Instruction) /\ DOMAIN c = 1..Len(c) /\ Len(c) \in Nat BY PatchType
<1>2. Len(f) = Len(c)
  <2>1. DOMAIN f = DOMAIN c BY DEF Patch
  <2> HIDE DEF f
  <2> QED BY <1>1, <2>1
<1>3. ASSUME NEW a \in 0..(Len(c) - 1)
      PROVE  /\ a \notin ats => At(f, a) = At(c, a)
             /\ a \in ats => At(f, a) = I(At(c, a).op, t - (a + 1))
  BY <1>1 DEF Patch, At
<1> HIDE DEF f
<1>4. ASSUME NEW a \in 0..(Len(f) - 1)
      PROVE  /\ At(f, a) = I("GET_LOCAL", s - 1) =>
                  a \in R \/ (a + 1 < Len(f) /\ At(f, a + 1) = I("SET_LOCAL", s - 1))
             /\ a \notin R /\ a + 1 \in R => At(f, a) = I("SET_LOCAL", s - 1)
             /\ a \notin Q /\ At(f, a).op \in Jumps /\ JumpTarget(f, a) \in R => a \in R
  <2>1. /\ At(c, a) = I("GET_LOCAL", s - 1) =>
             a \in R \/ (a + 1 < Len(c) /\ At(c, a + 1) = I("SET_LOCAL", s - 1))
        /\ a \notin R /\ a + 1 \in R => At(c, a) = I("SET_LOCAL", s - 1)
        /\ a \notin P /\ At(c, a).op \in Jumps /\ JumpTarget(c, a) \in R => a \in R
    BY <1>2 DEF Shelter
  <2>2. ASSUME NEW x \in 0..(Len(c) - 1),
               NEW i, i = I("GET_LOCAL", s - 1) \/ i = I("SET_LOCAL", s - 1)
        PROVE  At(f, x) = i <=> At(c, x) = i
    <3>2. CASE x \in ats BY <1>3, <2>2, <3>2 DEF I, Jumps
    <3>3. CASE x \notin ats BY <1>3, <3>3
    <3> QED BY <3>2, <3>3
  <2>3. a \in 0..(Len(c) - 1) /\ (a + 1 < Len(c) => a + 1 \in 0..(Len(c) - 1)) BY <1>1, <1>2
  <2>4. a \notin Q /\ At(f, a).op \in Jumps /\ JumpTarget(f, a) \in R => a \in R
    <3>1. CASE a \in ats BY <1>1, <1>3, <2>3, <3>1 DEF I, JumpTarget
    <3>2. CASE a \notin ats BY <1>3, <2>1, <2>3, <3>2 DEF JumpTarget
    <3> QED BY <3>1, <3>2
  <2>5. /\ At(f, a) = I("GET_LOCAL", s - 1) <=> At(c, a) = I("GET_LOCAL", s - 1)
        /\ At(f, a) = I("SET_LOCAL", s - 1) <=> At(c, a) = I("SET_LOCAL", s - 1)
        /\ a + 1 < Len(c) =>
             (At(f, a + 1) = I("SET_LOCAL", s - 1) <=> At(c, a + 1) = I("SET_LOCAL", s - 1))
    BY <2>2, <2>3
  <2> QED BY <1>2, <2>1, <2>4, <2>5
<1>5. 0 \notin R BY DEF Shelter
<1> QED BY <1>4, <1>5 DEF Shelter, f

\* The scope of a variable is closed: what comes after may not read its slot.
LEMMA ShelterClosed ==
  ASSUME NEW c \in Seq(Instruction), NEW P, NEW s, NEW lo \in Int, Shelter(c, P, s, From(lo))
  PROVE  Shelter(c, P, s, lo..(Len(c) - 1))
<1> DEFINE R == From(lo)
           S == lo..(Len(c) - 1)
<1>2. S \subseteq R /\ \A a \in 0..(Len(c) - 1) : a \in R => a \in S BY DEF From
<1> HIDE DEF R, S
<1>4. /\ 0 \notin R
      /\ \A a \in 0..(Len(c) - 1) :
       /\ At(c, a) = I("GET_LOCAL", s - 1) =>
            a \in R \/ (a + 1 < Len(c) /\ At(c, a + 1) = I("SET_LOCAL", s - 1))
       /\ a \notin R /\ a + 1 \in R => At(c, a) = I("SET_LOCAL", s - 1)
       /\ a \notin P /\ At(c, a).op \in Jumps /\ JumpTarget(c, a) \in R => a \in R
  BY Zenon DEF Shelter, R
<1>5. Shelter(c, P, s, S) BY <1>2, <1>4 DEF Shelter
<1> QED BY <1>5 DEF S

LEMMA SettledIs ==
  ASSUME NEW n \in Nat, NEW lo \in Nat
  PROVE  /\ lo <= n => Settled(n, From(lo)) /\ n \in From(lo)
         /\ \A hi \in Nat : hi <= n => Settled(n, lo..(hi - 1)) /\ n \notin lo..(hi - 1)
<1>1. ASSUME lo <= n PROVE Settled(n, From(lo)) /\ n \in From(lo) BY <1>1 DEF Settled, From
<1>2. ASSUME NEW hi \in Nat, hi <= n PROVE Settled(n, lo..(hi - 1)) /\ n \notin lo..(hi - 1)
  BY <1>2 DEF Settled
<1> QED BY <1>1, <1>2

\* A variable is declared: its slot is new, and set after its first value.
LEMMA ShelterBegins ==
  ASSUME NEW c, NEW P, NEW n, Works(c, P, 0, n), NEW v \in Instruction, v.op \notin Jumps
  PROVE  Shelter((c \o <<v>>) \o <<I("SET_LOCAL", n)>>, P, n + 1, From(Len(c) + 2))
<1> DEFINE N == Len(c)
           w == I("SET_LOCAL", n)
           f == (c \o <<v>>) \o <<w>>
           R == From(Len(c) + 2)
<1>1. c \in Seq(Instruction) /\ n \in Nat /\ N \in Nat BY DEF Works
<1>2. w \in Instruction /\ w.op = "SET_LOCAL" /\ w.arg = n BY <1>1 DEF I, Instruction, Opcodes
<1>3. /\ f \in Seq(Instruction) /\ Len(f) = N + 2
      /\ \A a \in 0..(N - 1) : At(f, a) = At(c, a)
      /\ At(f, N) = v /\ At(f, N + 1) = w
  <2> HIDE DEF w
  <2>2. f = c \o <<v, w>> BY <1>1, <1>2
  <2>3. <<v, w>> \in Seq(Instruction) /\ Len(<<v, w>>) = 2 BY <1>2
  <2>4. PICK e : e = <<v, w>> OBVIOUS
  <2>5. /\ \A a \in 0..(N - 1) : At(f, a) = At(c, a)
        /\ \A b \in 0..1 : At(f, N + b) = At(e, b)
    <3>1. e \in Seq(Instruction) /\ Len(e) - 1 = 1 /\ f = c \o e BY <2>2, <2>3, <2>4
    <3> HIDE DEF f
    <3>2. /\ \A a \in 0..(Len(c) - 1) : At(c \o e, a) = At(c, a)
          /\ \A b \in 0..(Len(e) - 1) : At(c \o e, Len(c) + b) = At(e, b)
      BY <1>1, <3>1, JoinedInstructions
    <3> QED BY <3>1, <3>2
  <2>6. At(e, 0) = v /\ At(e, 1) = w BY <2>4 DEF At
  <2> QED BY <1>1, <1>2, <2>5, <2>6
<1> HIDE DEF f
<1>4. \A a \in Int : a \in R <=> a >= N + 2 BY <1>1 DEF From
<1> HIDE DEF R
<1>5. ASSUME NEW a \in 0..(N - 1)
      PROVE  /\ At(f, a) # I("GET_LOCAL", n) /\ a + 1 \notin R
             /\ a \notin P /\ At(f, a).op \in Jumps => JumpTarget(f, a) \notin R
  BY <1>1, <1>3, <1>4 DEF JumpTarget, Works, Fits, LocalOps, I, Lands
<1>6. At(f, N + 1).op \notin Jumps /\ At(f, N).op \notin Jumps /\ At(f, N + 1) # I("GET_LOCAL", n)
  BY <1>2, <1>3 DEF I, Jumps
<1>7. ASSUME NEW a \in 0..(Len(f) - 1)
      PROVE  /\ At(f, a) = I("GET_LOCAL", n) =>
                  a \in R \/ (a + 1 < Len(f) /\ At(f, a + 1) = w)
             /\ a \notin R /\ a + 1 \in R => At(f, a) = w
             /\ a \notin P /\ At(f, a).op \in Jumps /\ JumpTarget(f, a) \in R => a \in R
  BY <1>1, <1>3, <1>4, <1>5, <1>6
<1> QED BY <1>1, <1>4, <1>7 DEF Shelter, f, R, w

-----------------------------------------------------------------------------
(* What statements read *)

\* Code without jumps that reads the slots of names.
Straight(e, m) ==
  /\ e \in Seq(Instruction)
  /\ \A b \in 0..(Len(e) - 1) :
       /\ At(e, b).op \notin Jumps
       /\ At(e, b).op = "GET_LOCAL" => \E x \in DOMAIN m : At(e, b).arg = m[x]

LEMMA StraightOn ==
  ASSUME NEW e, NEW f, NEW m, Straight(e, m), Straight(f, m) PROVE Straight(e \o f, m)
<1> DEFINE g == e \o f
<1>2. /\ g \in Seq(Instruction) /\ Len(g) = Len(e) + Len(f) /\ Len(e) \in Nat /\ Len(f) \in Nat
      /\ \A a \in 0..(Len(e) - 1) : At(g, a) = At(e, a)
      /\ \A b \in 0..(Len(f) - 1) : At(g, Len(e) + b) = At(f, b)
  BY JoinedInstructions DEF Straight
<1> HIDE DEF g
<1>3. ASSUME NEW a \in 0..(Len(g) - 1)
      PROVE  /\ At(g, a).op \notin Jumps
             /\ At(g, a).op = "GET_LOCAL" => \E x \in DOMAIN m : At(g, a).arg = m[x]
  <2>1. CASE a < Len(e)
    <3>1. a \in 0..(Len(e) - 1) BY <1>2, <2>1
    <3> QED BY <1>2, <3>1 DEF Straight
  <2>2. CASE a >= Len(e)
    <3>1. a - Len(e) \in 0..(Len(f) - 1) /\ Len(e) + (a - Len(e)) = a BY <1>2, <2>2
    <3> QED BY <1>2, <3>1 DEF Straight
  <2> QED BY <1>2, <2>1, <2>2
<1> QED BY <1>2, <1>3 DEF Straight, g

LEMMA StraightOne ==
  ASSUME NEW i \in Instruction, i.op \notin Jumps, NEW m,
         i.op = "GET_LOCAL" => \E x \in DOMAIN m : i.arg = m[x]
  PROVE  Straight(<<i>>, m)
<1> QED BY DEF Straight, At

LEMMA StraightNot == ASSUME NEW m PROVE Straight(<< >>, m)
<1> QED BY DEF Straight

\* The instruction of an expression.
LEMMA StraightExpr ==
  ASSUME NEW n, NEW m, Slotted(m, n), NEW e, Known(m, e)
  PROVE  /\ Straight(emit_expr(m, e), m)
         /\ \E v \in Instruction :
              /\ emit_expr(m, e) = <<v>> /\ v.op \notin Jumps
              /\ v.op = "GET_LOCAL" => \E x \in DOMAIN m : v.arg = m[x]
<1> DEFINE v == IF e = Literal THEN I("PUSH_INT", 1) ELSE I("GET_LOCAL", m[e])
<1>2. /\ v \in Instruction /\ v.op \notin Jumps
      /\ v.op = "GET_LOCAL" => \E x \in DOMAIN m : v.arg = m[x]
  BY SlotsAre DEF I, Instruction, Opcodes, Jumps, Slotted, Known
<1> HIDE DEF v
<1>3. Straight(<<v>>, m) BY <1>2, StraightOne
<1> QED BY <1>2, <1>3 DEF emit_expr, v

LEMMA StraightOps ==
  ASSUME NEW m, NEW slot \in Int
  PROVE  /\ Straight(<<I("SET_LOCAL", slot)>>, m) /\ Straight(<<I("VOID_LOCAL", slot)>>, m)
         /\ \A x \in DOMAIN m : m[x] = slot => Straight(<<I("GET_LOCAL", slot)>>, m)
<1>1. ASSUME NEW op \in {"GET_LOCAL", "SET_LOCAL", "VOID_LOCAL"}
      PROVE  /\ I(op, slot) \in Instruction /\ I(op, slot).op = op /\ I(op, slot).arg = slot
             /\ I(op, slot).op \notin Jumps
  BY DEF I, Instruction, Opcodes, Jumps
<1> QED BY <1>1, StraightOne

LEMMA StraightPlain ==
  ASSUME NEW m
  PROVE  /\ Straight(<<I("ADD", 0)>>, m) /\ Straight(<<I("INDEX_GET", 0)>>, m)
         /\ Straight(<<I("INDEX_SET", 0)>>, m) /\ Straight(<<I("CALL_BUILTIN", 1)>>, m)
         /\ Straight(<<I("POP", 0)>>, m) /\ Straight(<<I("PUSH_NULL", 0)>>, m)
         /\ Straight(<<I("RET", 0)>>, m) /\ Straight(<<I("LT", 0)>>, m)
<1>1. ASSUME NEW op \in {"ADD", "INDEX_GET", "INDEX_SET", "CALL_BUILTIN", "POP", "PUSH_NULL", "RET",
                         "LT"}, NEW arg \in 0..1
      PROVE  Straight(<<I(op, arg)>>, m)
  BY StraightOne DEF I, Instruction, Opcodes, Jumps
<1> QED BY <1>1

LEMMA StraightEndings ==
  ASSUME NEW m
  PROVE  /\ Straight(SayAndPop, m) /\ Straight(<<I("POP", 0)>>, m) /\ Straight(<<I("RET", 0)>>, m)
         /\ Straight(<<I("PUSH_NULL", 0), I("RET", 0)>>, m)
<1>1. /\ Straight(<<I("CALL_BUILTIN", 1)>> \o <<I("POP", 0)>>, m)
      /\ Straight(<<I("PUSH_NULL", 0)>> \o <<I("RET", 0)>>, m)
  BY StraightPlain, StraightOn
<1> QED BY <1>1, StraightPlain, Pair DEF SayAndPop

LEMMA AssignmentStraight ==
  ASSUME NEW n, Slotted(map, n), NEW target, NEW op, NEW rhs,
         target.kind \in {"name", "index"}, target.base \in DOMAIN map,
         Known(map, target.index), Known(map, rhs)
  PROVE  Straight(Assignment(target, op, rhs), map)
<1> DEFINE slot == map[target.base]
           get == <<I("GET_LOCAL", slot)>>
           set == <<I("SET_LOCAL", slot)>>
           index == emit_expr(map, target.index)
           item == get \o index
           value == emit_expr(map, rhs)
           M == map
<1>1. slot \in Int BY SlotsAre DEF Slotted
<1>2. Straight(get, M) /\ Straight(set, M) BY <1>1, StraightOps
<1>3. Straight(index, M) /\ Straight(value, M) BY StraightExpr
<1>4. /\ Straight(<<I("ADD", 0)>>, M) /\ Straight(<<I("INDEX_GET", 0)>>, M)
      /\ Straight(<<I("INDEX_SET", 0)>>, M)
  BY StraightPlain
<1> HIDE DEF get, set, index, value
<1>5. Straight(item, M) BY <1>2, <1>3, StraightOn
<1> HIDE DEF item
<1>6. CASE target.kind = "name" /\ op = "="
  BY <1>2, <1>3, <1>6, StraightOn DEF Assignment, value, set
<1>7. CASE target.kind = "name" /\ op # "="
  <2>2. Straight(<<I("ADD", 0), I("SET_LOCAL", slot)>>, M) BY <1>2, <1>4, Pair, StraightOn DEF set
  <2>3. Straight((get \o value) \o <<I("ADD", 0), I("SET_LOCAL", slot)>>, M)
    BY <1>2, <1>3, <2>2, StraightOn
  <2> QED BY <1>7, <2>3 DEF Assignment, emit_assign_math, get, value
<1>8. CASE target.kind = "index" /\ op = "="
  BY <1>3, <1>4, <1>5, <1>8, StraightOn DEF Assignment, item, get, index, value
<1>9. CASE target.kind = "index" /\ op # "="
  <2>2. Straight(<<I("ADD", 0), I("INDEX_SET", 0)>>, M) BY <1>4, Pair, StraightOn
  <2>3. Straight((((item \o item) \o <<I("INDEX_GET", 0)>>) \o value)
                   \o <<I("ADD", 0), I("INDEX_SET", 0)>>, M)
    BY <1>3, <1>4, <1>5, <2>2, StraightOn
  <2> QED BY <1>9, <2>3 DEF Assignment, item, get, index, value
<1> QED BY <1>6, <1>7, <1>8, <1>9

\* What emit_stmt does: it emits code that reads names, or adds a local.
Continues ==
  /\ \E e : Straight(e, map) /\ code' = code \o e
  /\ locals' = locals /\ scopes' = scopes /\ hoisted' = hoisted
  /\ \A x \in DOMAIN map' : x \in DOMAIN map /\ map'[x] = map[x]

DeclaresAs(name, v) ==
  /\ name \in Names /\ v \in Instruction /\ v.op \notin Jumps
  /\ v.op = "GET_LOCAL" => \E x \in DOMAIN map' : v.arg = map'[x]
  /\ code' = (code \o <<v>>) \o <<I("SET_LOCAL", Len(locals))>>
  /\ locals' = Append(locals, name) /\ map' = map_put(map, name, Len(locals))
  /\ scopes' = scope_record_name(name) /\ hoisted \subseteq hoisted'
DeclaresOne == \E name, v : DeclaresAs(name, v)

LEMMA EmitContinues ==
  ASSUME NEW e, Straight(e, map), Emit(e) PROVE Continues
  BY DEF Emit, Continues, context

LEMMA EvaluateContinues ==
  ASSUME NameInv, NEW e, NEW then, Straight(then, map), Evaluate(e, then), status' = "emitting"
  PROVE  Continues
<1>1. Known(map, e) /\ Emit(emit_expr(map, e) \o then) BY DEF Evaluate, Fail
<1>2. Straight(emit_expr(map, e) \o then, map) BY <1>1, MapSlotted, StraightExpr, StraightOn
<1> QED BY <1>1, <1>2, EmitContinues

LEMMA PutSlotted ==
  ASSUME NameInv, NEW name \in Names
  PROVE  Slotted(map_put(map, name, Len(locals)), Len(locals) + 1)
<1> DEFINE n == Len(locals)
           m == map_put(map, name, n)
<1>1. /\ DOMAIN map \subseteq Names /\ map \in [DOMAIN map -> Nat]
      /\ \A x \in DOMAIN map : map[x] < n /\ n \in Nat
  BY MapSlotted, SlotsAre DEF Slotted
<1>2. n \in Nat BY MapSlotted
<1>3. DOMAIN m = DOMAIN map \cup {name} /\ \A x \in DOMAIN m : m[x] \in Nat /\ m[x] < n + 1
  BY <1>1, <1>2 DEF map_put
<1>4. m \in [DOMAIN m -> Nat] BY <1>3 DEF map_put
<1> HIDE DEF m
<1>5. Slotted(m, n + 1) BY <1>1, <1>3, <1>4, SlotsAre DEF Slotted
<1> QED BY <1>5 DEF m

LEMMA AddLocalDeclares ==
  ASSUME NameInv, status = "emitting", NEW name \in Names, NEW rhs, AddLocal(name, rhs),
         status' = "emitting", hoisted \subseteq hoisted'
  PROVE  DeclaresOne
<1> DEFINE n == Len(locals)
           m == map_put(map, name, n)
<1>1. /\ map' = m /\ locals' = Append(locals, name) /\ scopes' = scope_record_name(name)
      /\ Store(m, n, rhs)
  BY DEF AddLocal, NewSlot
<1>2. Known(m, rhs) /\ code' = code \o emit_expr(m, rhs) \o <<I("SET_LOCAL", n)>> BY <1>1 DEF Store
<1>3. Slotted(m, n + 1) BY PutSlotted
<1> HIDE DEF m
<1>4. PICK v \in Instruction : /\ emit_expr(m, rhs) = <<v>> /\ v.op \notin Jumps
                               /\ v.op = "GET_LOCAL" => \E x \in DOMAIN m : v.arg = m[x]
  BY <1>2, <1>3, StraightExpr
<1>5. DeclaresAs(name, v) BY <1>1, <1>2, <1>4 DEF DeclaresAs, m
<1> QED BY <1>5 DEF DeclaresOne

LEMMA SletReads ==
  ASSUME NameInv, LoopsSlotted, status = "emitting", NEW st, st.name \in Names, Slet(st),
         status' = "emitting"
  PROVE  Continues \/ DeclaresOne
<1>1. loops # << >> BY DEF Slet, Fail
<1>2. CASE st.name \in LoopNames
  <2> DEFINE slot == LoopSlot(st.name)
             value == emit_expr(map, st.rhs)
             set == <<I("SET_LOCAL", slot)>>
  <2>1. Store(map, slot, st.rhs) /\ UNCHANGED context BY <1>1, <1>2 DEF Slet
  <2>2. slot \in Int BY <1>2, LoopSlotSlotted DEF NameInv, NameTypes
  <2>3. Known(map, st.rhs) /\ code' = (code \o value) \o set BY <2>1 DEF Store
  <2>4. Straight(value, map) /\ Straight(set, map)
    BY <2>2, <2>3, MapSlotted, StraightExpr, StraightOps
  <2> HIDE DEF value, set
  <2>6. code' = code \o (value \o set) BY <2>3, <2>4, JoinThree DEF Straight, NameInv, NameTypes
  <2> QED BY <2>1, <2>4, <2>6, StraightOn DEF Continues, context
<1>3. CASE st.name \notin LoopNames BY <1>1, <1>3, AddLocalDeclares DEF Slet, Fail
<1> QED BY <1>2, <1>3

LEMMA AssignContinues ==
  ASSUME NameInv, NEW target, NEW op, NEW rhs,
         target.kind \in {"unset", "name", "index"}, Assign(target, op, rhs), status' = "emitting"
  PROVE  Continues
<1>1. CASE target.kind = "unset" BY <1>1, StraightNot, EmitContinues DEF Assign
<1>2. CASE target.kind # "unset"
  <2>1. target.base \in DOMAIN map /\ Known(map, target.index) /\ Known(map, rhs)
        /\ Emit(Assignment(target, op, rhs))
    BY <1>2 DEF Assign, Fail
  <2>2. Straight(Assignment(target, op, rhs), map) BY <1>2, <2>1, MapSlotted, AssignmentStraight
  <2> QED BY <2>1, <2>2, EmitContinues
<1> QED BY <1>1, <1>2

LEMMA VoidContinues ==
  ASSUME NameInv, NEW st, Void(st), status' = "emitting"
  PROVE  Continues
<1> DEFINE slot == map[st.name]
<1>1. /\ st.name \in DOMAIN map /\ code' = Append(code, I("VOID_LOCAL", slot))
      /\ UNCHANGED <<locals, scopes, hoisted>> /\ map' = Without(map, {st.name})
  BY DEF Void, Fail
<1>2. slot \in Int BY <1>1, MapSlotted, SlotsAre DEF Slotted
<1>3. Straight(<<I("VOID_LOCAL", slot)>>, map) BY <1>2, StraightOps
<1>4. code' = code \o <<I("VOID_LOCAL", slot)>> BY <1>1 DEF NameInv, NameTypes
<1>5. \A x \in DOMAIN map' : x \in DOMAIN map /\ map'[x] = map[x] BY <1>1 DEF Without
<1> QED BY <1>1, <1>3, <1>4, <1>5 DEF Continues

LEMMA StmtReads ==
  ASSUME NameInv, LoopsSlotted, status = "emitting",
         NEW st \in parse_stmt \cup parse_loop_header_stmt, emit_stmt(st), status' = "emitting"
  PROVE  Continues \/ DeclaresOne
<1>1. CASE st.kind \in {"LET", "VOIDLET"}
  BY <1>1, AddLocalDeclares DEF emit_stmt, parse_stmt, parse_loop_header_stmt, Declarations, Let,
     VoidLet, Fail
<1>2. CASE st.kind = "SLET"
  BY <1>2, SletReads DEF emit_stmt, parse_stmt, parse_loop_header_stmt, Declarations
<1>3. CASE st.kind = "SET"
  BY <1>3, AssignContinues DEF emit_stmt, parse_stmt, parse_loop_header_stmt, Declarations,
     parse_target, Unset
<1>4. CASE st.kind = "INCDEC"
  BY <1>4, AssignContinues DEF emit_stmt, parse_stmt, parse_loop_header_stmt, Declarations,
     parse_target
<1>5. CASE st.kind = "VOID" BY <1>5, VoidContinues DEF emit_stmt
<1>6. /\ Straight(SayAndPop, map) /\ Straight(<<I("POP", 0)>>, map)
      /\ Straight(<<I("RET", 0)>>, map) /\ Straight(<<I("PUSH_NULL", 0), I("RET", 0)>>, map)
  BY StraightEndings
<1>7. CASE st.kind = "SAY_IDENT" BY <1>6, <1>7, EvaluateContinues DEF emit_stmt
<1>8. CASE st.kind = "SAY_EXPR" BY <1>6, <1>8, EvaluateContinues DEF emit_stmt
<1>9. CASE st.kind = "EXPR" BY <1>6, <1>9, EvaluateContinues DEF emit_stmt
<1>10. CASE st.kind = "RETURN" /\ st.rhs = NoName BY <1>6, <1>10, EmitContinues DEF emit_stmt
<1>11. CASE st.kind = "RETURN" /\ st.rhs # NoName BY <1>6, <1>11, EvaluateContinues DEF emit_stmt
<1>12. CASE st.kind = "NOTHING" BY <1>12, StraightNot, EmitContinues DEF emit_stmt
<1>13. st.kind \in {"LET", "VOIDLET", "SLET", "SET", "INCDEC", "VOID", "SAY_IDENT", "SAY_EXPR",
                    "EXPR", "RETURN", "NOTHING"}
  BY DEF parse_stmt, parse_loop_header_stmt, Declarations
<1> QED BY <1>1, <1>2, <1>3, <1>4, <1>5, <1>7, <1>8, <1>9, <1>10, <1>11, <1>12, <1>13

-----------------------------------------------------------------------------
(* The scopes of statements *)

\* The scope that an open statement begins with: the chunk has the first, and a
\* FOR has another for its body.
ScopeOf(i) == 1 + i + OpenOf(SubSeq(open, 1, i - 1), {"for"})

LEMMA SubSeqPart ==
  ASSUME NEW S, NEW s \in Seq(S), NEW i \in 1..Len(s)
  PROVE  /\ SubSeq(s, 1, i - 1) \in Seq(S) /\ Len(SubSeq(s, 1, i - 1)) = i - 1
         /\ \A j \in 1..(i - 1) : SubSeq(s, 1, i - 1)[j] = s[j]
  OBVIOUS

LEMMA SubSeqSame ==
  ASSUME NEW S, NEW s \in Seq(S), NEW u, NEW t \in Seq(u), NEW i \in Nat, i <= Len(s), i <= Len(t),
         \A j \in 1..i : s[j] = t[j]
  PROVE  SubSeq(s, 1, i) = SubSeq(t, 1, i)
  OBVIOUS

LEMMA AppendLen ==
  ASSUME NEW S, NEW s \in Seq(S), NEW b PROVE Len(Append(s, b)) = Len(s) + 1
  OBVIOUS

LEMMA ScopeNumbers ==
  ASSUME Inv, status = "emitting"
  PROVE  /\ \A i \in DOMAIN open : ScopeOf(i) \in Nat
         /\ open # << >> =>
              /\ Len(open) \in DOMAIN open
              /\ Top(open).kind # "for" => ScopeOf(Len(open)) = Len(scopes)
              /\ Top(open).kind = "for" => ScopeOf(Len(open)) = Len(scopes) - 1
              /\ \A i \in DOMAIN open : i # Len(open) => ScopeOf(i) < ScopeOf(Len(open))
<1> DEFINE For1 == {"for"}
           n == Len(open)
<1>1. /\ open \in Seq(Block) /\ n \in Nat /\ DOMAIN open = 1..n
      /\ Len(scopes) = 1 + n + OpenOf(open, For1)
  BY Typed
<1> HIDE DEF For1
<1>2. ASSUME NEW i \in DOMAIN open
      PROVE  /\ OpenOf(SubSeq(open, 1, i - 1), For1) \in Nat /\ i \in Nat
             /\ ScopeOf(i) = 1 + i + OpenOf(SubSeq(open, 1, i - 1), For1)
  <2>1. SubSeq(open, 1, i - 1) \in Seq(Block) /\ i \in Nat BY <1>1, SubSeqPart
  <2> QED BY <2>1, OpenType DEF ScopeOf, For1
<1>3. \A i \in DOMAIN open : ScopeOf(i) \in Nat BY <1>2
<1>4. ASSUME open # << >>
      PROVE  /\ n \in DOMAIN open
             /\ Top(open).kind # "for" => ScopeOf(n) = Len(scopes)
             /\ Top(open).kind = "for" => ScopeOf(n) = Len(scopes) - 1
             /\ \A i \in DOMAIN open : i # n => ScopeOf(i) < ScopeOf(n)
  <2>1. n \in DOMAIN open /\ Below(open) = SubSeq(open, 1, n - 1)
    BY <1>1, <1>4, BelowIsSeq DEF Below
  <2>2. /\ OpenOf(Below(open), For1)
             = OpenOf(open, For1) - IF Top(open).kind \in For1 THEN 1 ELSE 0
        /\ OpenOf(open, For1) \in Nat
    BY <1>1, <1>4, OpenBelow, OpenType
  <2>3. ScopeOf(n) = 1 + n + OpenOf(Below(open), For1) BY <1>2, <2>1
  <2>4. /\ Top(open).kind # "for" => ScopeOf(n) = Len(scopes)
        /\ Top(open).kind = "for" => ScopeOf(n) = Len(scopes) - 1
    BY <1>1, <2>2, <2>3 DEF For1
  <2>5. ASSUME NEW i \in DOMAIN open, i # n PROVE ScopeOf(i) < ScopeOf(n)
    <3> DEFINE p == SubSeq(open, 1, i - 1)
               q == SubSeq(open, 1, n - 1)
               In(t) == {j \in DOMAIN t : t[j].kind \in For1}
    <3>1. /\ p \in Seq(Block) /\ Len(p) = i - 1 /\ \A j \in 1..(i - 1) : p[j] = open[j]
          /\ q \in Seq(Block) /\ Len(q) = n - 1 /\ \A j \in 1..(n - 1) : q[j] = open[j]
      BY <1>1, <2>1, SubSeqPart
    <3> HIDE DEF p, q
    <3>2. i < n BY <1>1, <2>5
    <3>3. In(p) \subseteq In(q)
      <4>1. /\ DOMAIN p = 1..(i - 1) /\ DOMAIN q = 1..(n - 1)
            /\ \A j \in DOMAIN p : j \in DOMAIN q /\ p[j] = q[j]
        BY <1>1, <3>1, <3>2
      <4> QED BY <4>1
    <3>4. IsFiniteSet(In(q)) /\ OpenOf(p, For1) \in Nat /\ OpenOf(q, For1) \in Nat BY <3>1, OpenType
    <3>5. Cardinality(In(p)) <= Cardinality(In(q))
      <4> HIDE DEF In
      <4> QED BY <3>3, <3>4, FS_Subset
    <3>6. OpenOf(p, For1) <= OpenOf(q, For1) BY <3>5 DEF OpenOf
    <3>7. ScopeOf(i) = 1 + i + OpenOf(p, For1) /\ ScopeOf(n) = 1 + n + OpenOf(q, For1)
      BY <1>2, <2>1 DEF p, q
    <3> QED BY <1>1, <3>2, <3>4, <3>6, <3>7
  <2> QED BY <2>1, <2>4, <2>5
<1> QED BY <1>3, <1>4

LEMMA ScopesStay ==
  ASSUME Inv, status = "emitting", NEW b
  PROVE  /\ open' = Append(open, b) =>
              /\ \A i \in DOMAIN open : ScopeOf(i)' = ScopeOf(i)
              /\ \A i : i = Len(open) + 1 => ScopeOf(i)' = Len(scopes) + 1
         /\ open # << >> /\ (open' = Below(open) \/ open' = Append(Below(open), b)) =>
              \A i \in DOMAIN open : ScopeOf(i)' = ScopeOf(i)
<1> DEFINE n == Len(open)
           U == Block \cup {b}
<1>1. /\ open \in Seq(Block) /\ n \in Nat /\ DOMAIN open = 1..n
      /\ Len(scopes) = 1 + n + OpenOf(open, {"for"}) /\ OpenOf(open, {"for"}) \in Nat
  BY Typed
<1>2. CASE open' = Append(open, b)
  <2>1. open' \in Seq(U) /\ Len(open') = n + 1 /\ \A j \in 1..n : open'[j] = open[j] BY <1>1, <1>2
  <2> HIDE DEF U
  <2>3. \A i \in 1..(n + 1) : SubSeq(open', 1, i - 1) = SubSeq(open, 1, i - 1)
    BY <1>1, <2>1, SubSeqSame
  <2>5. ASSUME NEW i, i = n + 1 PROVE ScopeOf(i)' = 1 + (n + 1) + OpenOf(open, {"for"})
    <3>1. SubSeq(open', 1, i - 1) = open BY <1>1, <2>3, <2>5
    <3> QED BY <2>5, <3>1 DEF ScopeOf, OpenOf
  <2>6. \A i \in DOMAIN open : ScopeOf(i)' = ScopeOf(i)
    <3> SUFFICES ASSUME NEW i \in DOMAIN open PROVE ScopeOf(i)' = ScopeOf(i) OBVIOUS
    <3>1. SubSeq(open', 1, i - 1) = SubSeq(open, 1, i - 1) BY <1>1, <2>3
    <3> QED BY <3>1 DEF ScopeOf, OpenOf
  <2>7. \A i : i = n + 1 => ScopeOf(i)' = Len(scopes) + 1 BY <1>1, <2>5
  <2>8. ~(open' = Below(open) \/ open' = Append(Below(open), b)) \/ open = << >>
    <3> SUFFICES ASSUME open # << >>
                 PROVE  open' # Below(open) /\ open' # Append(Below(open), b)
      OBVIOUS
    <3>1. Below(open) \in Seq(Block) /\ Len(Below(open)) = n - 1 BY <1>1, BelowIsSeq
    <3> QED BY <1>1, <2>1, <3>1, AppendLen
  <2> QED BY <1>2, <2>6, <2>7, <2>8
<1>3. CASE open # << >> /\ (open' = Below(open) \/ open' = Append(Below(open), b))
  <2>1. /\ Below(open) \in Seq(Block) /\ Len(Below(open)) = n - 1
        /\ \A j \in 1..(n - 1) : Below(open)[j] = open[j]
    BY <1>1, <1>3, BelowIsSeq
  <2>2. open' \in Seq(U) /\ Len(open') >= n - 1 /\ \A j \in 1..(n - 1) : open'[j] = open[j]
    <3>1. CASE open' = Below(open) BY <1>1, <2>1, <3>1
    <3>2. CASE open' = Append(Below(open), b) BY <1>1, <2>1, <3>2
    <3> QED BY <1>3, <3>1, <3>2
  <2> HIDE DEF U
  <2>3. n - 1 \in Nat BY <1>1, <1>3
  <2>4. \A i \in Nat : i <= n - 1 => SubSeq(open', 1, i) = SubSeq(open, 1, i)
    BY <1>1, <2>2, <2>3, SubSeqSame
  <2>5. \A i \in 1..n : SubSeq(open', 1, i - 1) = SubSeq(open, 1, i - 1) BY <1>1, <2>4
  <2>6. \A i \in DOMAIN open : ScopeOf(i)' = ScopeOf(i)
    <3> SUFFICES ASSUME NEW i \in DOMAIN open PROVE ScopeOf(i)' = ScopeOf(i) OBVIOUS
    <3>1. SubSeq(open', 1, i - 1) = SubSeq(open, 1, i - 1) BY <1>1, <2>5
    <3> QED BY <3>1 DEF ScopeOf, OpenOf
  <2>7. open' # Append(open, b)
    <3>1. Len(open') <= n /\ Len(Append(open, b)) = n + 1
      <4>1. Len(Append(Below(open), b)) = n
        <5>1. Len(Append(Below(open), b)) = Len(Below(open)) + 1 BY <2>1, AppendLen, Zenon
        <5> QED BY <1>1, <2>1, <5>1
      <4>2. Len(Append(open, b)) = n + 1 BY <1>1, AppendLen
      <4> QED BY <1>1, <1>3, <2>1, <4>1, <4>2
    <3> QED BY <1>1, <3>1
  <2> QED BY <2>6, <2>7
<1> QED BY <1>2, <1>3

-----------------------------------------------------------------------------
(* Where every slot may be read *)

\* Statements inside the scope of a variable were begun after it was set, the
\* loops around it before.
Around(lo, k) ==
  \A i \in DOMAIN open :
    /\ ScopeOf(i) > k => \A a \in Waits(open[i]) : a >= lo
    /\ ScopeOf(i) < k => open[i].start < lo

\* The scope of the variable is open.
AliveAt(s, lo, k) ==
  /\ lo \in 1..Here /\ k \in 1..Len(scopes) /\ locals[s] \in scopes[k]
  /\ Shelter(code, Waiting(open), s, From(lo)) /\ Around(lo, k)

\* It is closed: no name has the slot, and no loop goes back to where one had.
DeadAt(s, lo, hi) ==
  /\ lo \in 1..Here /\ hi \in 0..Here
  /\ ~(locals[s] \in DOMAIN map /\ map[locals[s]] = s - 1)
  /\ Shelter(code, Waiting(open), s, lo..(hi - 1))
  /\ \A i \in DOMAIN open : open[i].start \notin lo..(hi - 1)

Sheltered(s) == (\E lo, k : AliveAt(s, lo, k)) \/ (\E lo, hi : DeadAt(s, lo, hi))
Exempt(s) == s <= Len(Params) \/ locals[s] \in hoisted
ShelterInv == status = "emitting" => \A s \in DOMAIN locals : Exempt(s) \/ Sheltered(s)
EndShelterInv == Finished => \A s \in DOMAIN locals : Exempt(s) \/ \E R : Shelter(code, {}, s, R)

\* A slot belongs to one name.
LEMMA SlotNames ==
  ASSUME NameInv, NEW s \in DOMAIN locals, NEW x \in DOMAIN map, map[x] = s - 1
  PROVE  locals[s] = x /\ map[locals[s]] = s - 1
<1>1. locals[map[x] + 1] = x BY DEF NameInv, NamesAreScoped
<1>2. s \in Nat /\ (s - 1) + 1 = s BY DEF NameInv, NameTypes
<1> QED BY <1>1, <1>2

\* The statements that stay open stay where they are, with the jumps that wait
\* for them; new jumps and loops come after the code there is.
JumpsFollow ==
  \A i \in DOMAIN open' : \A a \in Waits(open'[i]) :
    \/ a \in Int /\ a >= Here
    \/ i \in DOMAIN open /\ ScopeOf(i)' = ScopeOf(i) /\ a \in Waits(open[i])
StartsFollow ==
  \A i \in DOMAIN open' :
    \/ open'[i].start = 0
    \/ /\ open'[i].start \in Int /\ open'[i].start >= Here
       /\ ScopeOf(i)' \in Nat /\ ScopeOf(i)' >= Len(scopes)
    \/ i \in DOMAIN open /\ ScopeOf(i)' = ScopeOf(i) /\ open'[i].start = open[i].start

\* Code reads slots of names, or a new one, and its jumps wait.
ReadsNames(e, m, Q) ==
  \A b \in 0..(Len(e) - 1) :
    /\ At(e, b).op = "GET_LOCAL" =>
         At(e, b).arg = Len(locals) \/ \E x \in DOMAIN m : At(e, b).arg = m[x]
    /\ At(e, b).op \in Jumps => Here + b \in Q

\* Nothing is closed, and code is emitted.
LEMMA StaysSheltered ==
  ASSUME Inv, BalanceInv, status = "emitting", NEW s \in DOMAIN locals, Sheltered(s),
         JumpsFollow, StartsFollow, Waiting(open) \subseteq Waiting(open'),
         NEW e \in Seq(Instruction), code' = code \o e, ReadsNames(e, map, Waiting(open')),
         locals'[s] = locals[s], Len(scopes') \in Nat, Len(scopes) <= Len(scopes'),
         \A k \in 1..Len(scopes) : scopes[k] \subseteq scopes'[k],
         \A x \in DOMAIN map' : (x \in DOMAIN map /\ map'[x] = map[x]) \/ map'[x] = Len(locals)
  PROVE  Sheltered(s)'
<1>1. /\ code \in Seq(Instruction) /\ Here = Len(code) /\ Here \in Nat /\ NameInv
      /\ Len(locals) \in Nat /\ open \in Seq(Block)
  BY Emitted
<1>2. s \in Nat /\ s <= Len(locals) /\ s - 1 # Len(locals) /\ Len(scopes) \in Nat
  BY <1>1, Typed DEF NameInv, NameTypes
<1>3. Here' \in Nat /\ Here <= Here' BY <1>1, JoinTwo DEF Here
<1>4. \A i \in DOMAIN open : ScopeOf(i) \in Nat BY ScopeNumbers
<1>5. CASE \E lo, k : AliveAt(s, lo, k)
  <2>1. PICK lo, k : AliveAt(s, lo, k) BY <1>5
  <2>2. /\ lo \in 1..Here /\ k \in 1..Len(scopes) /\ locals[s] \in scopes[k]
        /\ Shelter(code, Waiting(open), s, From(lo)) /\ Around(lo, k)
    BY <2>1 DEF AliveAt
  <2>3. Settled(Here, From(lo)) /\ Here \in From(lo)
    <3>1. lo \in Nat /\ lo <= Here BY <1>1, <2>2
    <3> QED BY <1>1, <3>1, SettledIs
  <2>4. Shelter(code', Waiting(open'), s, From(lo)) BY <1>1, <2>2, <2>3, ShelterOn
  <2>5. Around(lo, k)'
    <3>1. ASSUME NEW i \in DOMAIN open', ScopeOf(i)' > k, NEW a \in Waits(open'[i])
          PROVE  a >= lo
      <4>1. CASE a \in Int /\ a >= Here BY <1>1, <2>2, <4>1
      <4>2. CASE i \in DOMAIN open /\ ScopeOf(i)' = ScopeOf(i) /\ a \in Waits(open[i])
        BY <2>2, <3>1, <4>2 DEF Around
      <4> QED BY <3>1, <4>1, <4>2 DEF JumpsFollow
    <3>2. ASSUME NEW i \in DOMAIN open', ScopeOf(i)' < k PROVE open'[i].start < lo
      <4>1. CASE ScopeOf(i)' \in Nat /\ ScopeOf(i)' >= Len(scopes) BY <1>2, <2>2, <3>2, <4>1
      <4>2. CASE open'[i].start = 0 BY <2>2, <4>2
      <4>3. CASE i \in DOMAIN open /\ ScopeOf(i)' = ScopeOf(i) /\ open'[i].start = open[i].start
        BY <2>2, <3>2, <4>3 DEF Around
      <4> QED BY <4>1, <4>2, <4>3 DEF StartsFollow
    <3> QED BY <3>1, <3>2 DEF Around
  <2>6. lo \in 1..Here' /\ k \in 1..Len(scopes') /\ locals'[s] \in scopes'[k]
    BY <1>1, <1>2, <1>3, <2>2
  <2>7. AliveAt(s, lo, k)' BY <2>4, <2>5, <2>6 DEF AliveAt
  <2> QED BY <2>7 DEF Sheltered
<1>6. CASE \E lo, hi : DeadAt(s, lo, hi)
  <2>1. PICK lo, hi : DeadAt(s, lo, hi) BY <1>6
  <2> DEFINE R == lo..(hi - 1)
  <2>2. /\ lo \in 1..Here /\ hi \in 0..Here
        /\ ~(locals[s] \in DOMAIN map /\ map[locals[s]] = s - 1)
        /\ Shelter(code, Waiting(open), s, R)
        /\ \A i \in DOMAIN open : open[i].start \notin R
    BY <2>1 DEF DeadAt
  <2>3. Settled(Here, R) /\ Here \notin R BY <1>1, <2>2, SettledIs
  <2>4. Shelter(code', Waiting(open'), s, R)
    <3>1. ASSUME NEW b \in 0..(Len(e) - 1)
          PROVE  /\ At(e, b) # I("GET_LOCAL", s - 1)
                 /\ At(e, b).op \in Jumps => Here + b \in Waiting(open')
      <4>1. I("GET_LOCAL", s - 1).op = "GET_LOCAL" /\ I("GET_LOCAL", s - 1).arg = s - 1 BY DEF I
      <4>2. \A x \in DOMAIN map : map[x] # s - 1 BY <1>1, <2>2, SlotNames
      <4> QED BY <1>2, <4>1, <4>2 DEF ReadsNames
    <3> HIDE DEF R
    <3> QED BY <1>1, <2>2, <2>3, <3>1, ShelterOn
  <2>5. ~(locals'[s] \in DOMAIN map' /\ map'[locals'[s]] = s - 1) BY <1>2, <2>2
  <2>6. \A i \in DOMAIN open' : open'[i].start \notin R
    <3> SUFFICES ASSUME NEW i \in DOMAIN open' PROVE open'[i].start \notin R OBVIOUS
    <3>1. CASE open'[i].start = 0 BY <2>2, <3>1
    <3>2. CASE open'[i].start \in Int /\ open'[i].start >= Here BY <1>1, <2>2, <3>2
    <3>3. CASE i \in DOMAIN open /\ open'[i].start = open[i].start BY <2>2, <3>3
    <3> QED BY <3>1, <3>2, <3>3 DEF StartsFollow
  <2>7. lo \in 1..Here' /\ hi \in 0..Here' BY <1>1, <1>3, <2>2
  <2>8. DeadAt(s, lo, hi)' BY <2>4, <2>5, <2>6, <2>7 DEF DeadAt
  <2> QED BY <2>8 DEF Sheltered
<1> QED BY <1>5, <1>6 DEF Sheltered

LEMMA ReplacedAt ==
  ASSUME NEW S, NEW s \in Seq(S), s # << >>, NEW b, NEW t, t = Append(Below(s), b)
  PROVE  /\ DOMAIN t = DOMAIN s /\ t[Len(s)] = b
         /\ \A i \in DOMAIN s : i # Len(s) => t[i] = s[i]
<1> DEFINE n == Len(s)
           U == S \cup {b}
<1>1. /\ Below(s) \in Seq(S) /\ Len(Below(s)) = n - 1 /\ n \in DOMAIN s /\ DOMAIN s = 1..n
      /\ \A i \in 1..(n - 1) : Below(s)[i] = s[i]
  BY BelowIsSeq
<1>2. PICK u : u = Below(s) OBVIOUS
<1>3. u \in Seq(U) /\ b \in U /\ Len(u) = n - 1 /\ \A i \in 1..(n - 1) : u[i] = s[i] BY <1>1, <1>2
<1> HIDE DEF U
<1> QED BY <1>1, <1>2, <1>3

LEMMA AppendedAt ==
  ASSUME NEW S, NEW s \in Seq(S), NEW b, NEW t, t = Append(s, b)
  PROVE  /\ DOMAIN t = DOMAIN s \cup {Len(s) + 1} /\ t[Len(s) + 1] = b
         /\ \A i \in DOMAIN s : t[i] = s[i]
<1> DEFINE U == S \cup {b}
<1>1. s \in Seq(U) /\ b \in U OBVIOUS
<1> HIDE DEF U
<1> QED BY <1>1

\* A statement is opened.
LEMMA FramesOpened ==
  ASSUME Inv, status = "emitting", NEW b, open' = Append(open, b),
         \A a \in Waits(b) : a \in Int /\ a >= Here,
         b.start = 0 \/ (b.start \in Int /\ b.start >= Here)
  PROVE  JumpsFollow /\ StartsFollow
<1>1. open \in Seq(Block) /\ Len(scopes) \in Nat BY Typed
<1>2. /\ DOMAIN open' = DOMAIN open \cup {Len(open) + 1} /\ open'[Len(open) + 1] = b
      /\ \A i \in DOMAIN open : open'[i] = open[i]
  BY <1>1, AppendedAt
<1>3. /\ \A i \in DOMAIN open : ScopeOf(i)' = ScopeOf(i)
      /\ \A i : i = Len(open) + 1 => ScopeOf(i)' = Len(scopes) + 1
  BY ScopesStay
<1>4. JumpsFollow BY <1>2, <1>3 DEF JumpsFollow
<1>5. ASSUME NEW i \in DOMAIN open'
      PROVE  \/ open'[i].start = 0
             \/ /\ open'[i].start \in Int /\ open'[i].start >= Here
                /\ ScopeOf(i)' \in Nat /\ ScopeOf(i)' >= Len(scopes)
             \/ i \in DOMAIN open /\ ScopeOf(i)' = ScopeOf(i) /\ open'[i].start = open[i].start
  <2>1. CASE i \in DOMAIN open BY <1>2, <1>3, <2>1
  <2>2. CASE i = Len(open) + 1 BY <1>1, <1>2, <1>3, <2>2
  <2> QED BY <1>2, <2>1, <2>2
<1> QED BY <1>4, <1>5 DEF StartsFollow

\* A statement goes on with its next part.
LEMMA FramesReplaced ==
  ASSUME Inv, status = "emitting", open # << >>, NEW b, open' = Append(Below(open), b),
         \A a \in Waits(b) : (a \in Int /\ a >= Here) \/ a \in Waits(Top(open)),
         \/ b.start = 0 \/ b.start = Top(open).start
         \/ b.start \in Int /\ b.start >= Here /\ Top(open).kind # "for"
  PROVE  /\ JumpsFollow /\ StartsFollow /\ DOMAIN open' = DOMAIN open /\ open'[Len(open)] = b
         /\ \A i \in DOMAIN open : /\ ScopeOf(i)' = ScopeOf(i)
                                   /\ i # Len(open) => open'[i] = open[i]
<1>1. open \in Seq(Block) /\ Len(scopes) \in Nat /\ Top(open) = open[Len(open)] BY Typed DEF Top
<1>2. /\ DOMAIN open' = DOMAIN open /\ open'[Len(open)] = b
      /\ \A i \in DOMAIN open : i # Len(open) => open'[i] = open[i]
  BY <1>1, ReplacedAt
<1>3. \A i \in DOMAIN open : ScopeOf(i)' = ScopeOf(i) /\ ScopeOf(i) \in Nat
  BY ScopesStay, ScopeNumbers
<1>4. Top(open).kind # "for" => ScopeOf(Len(open)) = Len(scopes) BY ScopeNumbers
<1>5. JumpsFollow BY <1>1, <1>2, <1>3 DEF JumpsFollow
<1>6. ASSUME NEW i \in DOMAIN open'
      PROVE  \/ open'[i].start = 0
             \/ /\ open'[i].start \in Int /\ open'[i].start >= Here
                /\ ScopeOf(i)' \in Nat /\ ScopeOf(i)' >= Len(scopes)
             \/ i \in DOMAIN open /\ ScopeOf(i)' = ScopeOf(i) /\ open'[i].start = open[i].start
  <2>1. CASE i # Len(open) BY <1>2, <1>3, <2>1
  <2>2. CASE i = Len(open)
    <3>1. open'[i] = b /\ open[i].start = Top(open).start /\ i \in DOMAIN open BY <1>1, <1>2, <2>2
    <3>2. CASE b.start \in Int /\ b.start >= Here /\ Top(open).kind # "for"
      BY <1>1, <1>3, <1>4, <2>2, <3>1, <3>2
    <3> QED BY <1>3, <3>1, <3>2
  <2> QED BY <2>1, <2>2
<1> QED BY <1>2, <1>3, <1>5, <1>6 DEF StartsFollow

-----------------------------------------------------------------------------
(* Statements *)

\* What a statement without a block leaves of those that are open.
SameFrames ==
  /\ JumpsFollow /\ StartsFollow /\ Waiting(open') = Waiting(open)
  /\ \A i \in DOMAIN open' :
       /\ i \in DOMAIN open /\ ScopeOf(i)' = ScopeOf(i)
       /\ open'[i].start = open[i].start \/ ScopeOf(i) = Len(scopes)

LEMMA FramesSame ==
  ASSUME Inv, BalanceInv, status = "emitting",
         \/ open' = open
         \/ /\ open # << >> /\ Top(open).kind # "for"
            /\ \E b : /\ open' = Append(Below(open), b) /\ Waits(b) = Waits(Top(open))
                      /\ b.start = Top(open).start \/ (b.start \in Int /\ b.start >= Here)
  PROVE  SameFrames
<1>1. CASE open' = open BY <1>1 DEF ScopeOf, OpenOf, SameFrames, JumpsFollow, StartsFollow
<1>2. ASSUME open # << >>, Top(open).kind # "for", NEW b, open' = Append(Below(open), b),
             Waits(b) = Waits(Top(open)),
             b.start = Top(open).start \/ (b.start \in Int /\ b.start >= Here)
      PROVE  SameFrames
  <2>2. Waiting(open') = Waiting(open)
    <3>1. open \in Seq(Block) BY Typed
    <3>2. Waiting(open) = Waiting(Below(open)) \cup Waits(Top(open)) BY <1>2, <3>1, WaitingTop
    <3> QED BY <1>2, <3>2, WaitingOpened
  <2>3. ScopeOf(Len(open)) = Len(scopes) BY <1>2, ScopeNumbers
  <2> QED BY <1>2, <2>2, <2>3, FramesReplaced DEF SameFrames
<1> QED BY <1>1, <1>2

\* A variable is declared.
LEMMA NewSheltered ==
  ASSUME Inv, BalanceInv, status = "emitting", NEW name, NEW v, DeclaresAs(name, v), SameFrames,
         NEW s, s = Len(locals) + 1
  PROVE  Sheltered(s)'
<1> DEFINE n == Len(locals)
<1>a. PICK lo : lo = Here + 2 OBVIOUS
<1>b. PICK k : k = Len(scopes) OBVIOUS
<1>1. /\ code \in Seq(Instruction) /\ Here = Len(code) /\ Here \in Nat /\ NameInv /\ n \in Nat
      /\ Works(code, Waiting(open), 0, n) /\ StartsLand
  BY Emitted
<1>2. /\ v \in Instruction /\ v.op \notin Jumps /\ name \in Names
      /\ code' = (code \o <<v>>) \o <<I("SET_LOCAL", n)>>
      /\ locals' = Append(locals, name) /\ scopes' = scope_record_name(name)
  BY DEF DeclaresAs
<1>3. k \in Nat /\ scopes # << >> /\ scopes \in Seq(SUBSET Names) /\ locals \in Seq(Names)
  BY <1>1, <1>b, Typed DEF NameInv, NameTypes
<1>4. k \in 1..Len(scopes') /\ locals'[s] \in scopes'[k] BY <1>2, <1>3, <1>b DEF scope_record_name
<1>5. lo \in 1..Here'
  <2>1. Len(code') = Len(code) + 2
    <3>1. <<v>> \in Seq(Instruction) /\ <<I("SET_LOCAL", n)>> \in Seq(Instruction)
      BY <1>1, <1>2 DEF I, Instruction, Opcodes
    <3>2. Len(<<v>>) = 1 /\ Len(<<I("SET_LOCAL", n)>>) = 1 OBVIOUS
    <3>3. PICK e : e = <<v>> OBVIOUS
    <3>4. PICK f : f = <<I("SET_LOCAL", n)>> OBVIOUS
    <3>5. code \o e \in Seq(Instruction) /\ Len(code \o e) = Len(code) + 1
      BY <1>1, <3>1, <3>2, <3>3, JoinTwo
    <3>6. Len((code \o e) \o f) = (Len(code) + 1) + 1 BY <3>1, <3>2, <3>4, <3>5, JoinTwo
    <3> QED BY <1>1, <1>2, <3>3, <3>4, <3>6
  <2> QED BY <1>1, <1>a, <2>1 DEF Here
<1>6. Shelter(code', Waiting(open'), s, From(lo)) BY <1>1, <1>2, ShelterBegins, <1>a DEF SameFrames
<1>7. ASSUME NEW i \in DOMAIN open'
      PROVE  ~(ScopeOf(i)' > k) /\ (ScopeOf(i)' < k => open'[i].start < lo)
  <2>1. /\ i \in DOMAIN open /\ ScopeOf(i)' = ScopeOf(i)
        /\ open'[i].start = open[i].start \/ ScopeOf(i) = Len(scopes)
    BY DEF SameFrames
  <2>2. ScopeOf(i) \in Nat /\ ScopeOf(i) <= k BY <1>3, <2>1, <1>b, ScopeNumbers
  <2>3. open[i].start < lo BY <1>1, <2>1, <1>a DEF StartsLand, Lands
  <2> QED BY <1>3, <1>b, <2>1, <2>2, <2>3
<1>8. Around(lo, k)' BY <1>7 DEF Around
<1>9. AliveAt(s, lo, k)' BY <1>4, <1>5, <1>6, <1>8 DEF AliveAt
<1> QED BY <1>9 DEF Sheltered

LEMMA ExemptStays ==
  ASSUME chunk' = chunk, hoisted \subseteq hoisted', NEW s, locals'[s] = locals[s], Exempt(s)
  PROVE  Exempt(s)'
<1>1. Params' = Params BY DEF Params, Module
<1> QED BY <1>1 DEF Exempt

LEMMA StraightReads ==
  ASSUME NEW e, Straight(e, map), NEW Q PROVE ReadsNames(e, map, Q)
  BY DEF Straight, ReadsNames

LEMMA ScopeNamed ==
  ASSUME Inv, status = "emitting", NEW name \in Names, scopes' = scope_record_name(name)
  PROVE  Len(scopes') = Len(scopes) /\ \A k \in 1..Len(scopes) : scopes[k] \subseteq scopes'[k]
<1>1. scopes \in Seq(SUBSET Names) /\ Len(scopes) \in Nat BY Typed DEF Inv, NameInv, NameTypes
<1>2. PICK n : n = Len(scopes) OBVIOUS
<1>3. scopes' = [scopes EXCEPT ![n] = scopes[n] \cup {name}] BY <1>2 DEF scope_record_name
<1>4. Len(scopes') = Len(scopes) BY <1>1, <1>3
<1>5. \A k \in 1..Len(scopes) : scopes[k] \subseteq scopes'[k] BY <1>1, <1>3
<1> QED BY <1>4, <1>5

LEMMA DeclarationReads ==
  ASSUME Inv, status = "emitting", NEW name, NEW v, DeclaresAs(name, v), NEW Q
  PROVE  \E e \in Seq(Instruction) : code' = code \o e /\ ReadsNames(e, map, Q)
<1> DEFINE n == Len(locals)
           w == I("SET_LOCAL", n)
           f == <<v>> \o <<w>>
<1>1. code \in Seq(Instruction) /\ locals \in Seq(Names) /\ n \in Nat
  BY Typed DEF Inv, NameInv, NameTypes
<1>2. /\ name \in Names /\ v \in Instruction /\ v.op \notin Jumps
      /\ v.op = "GET_LOCAL" => \E x \in DOMAIN map' : v.arg = map'[x]
      /\ code' = (code \o <<v>>) \o <<w>> /\ map' = map_put(map, name, n)
  BY DEF DeclaresAs
<1>3. w \in Instruction /\ w.op = "SET_LOCAL" BY <1>1 DEF I, Instruction, Opcodes
<1>5. v.op \notin Jumps /\ w.op \notin Jumps /\ w.op # "GET_LOCAL" BY <1>2, <1>3 DEF Jumps
<1> HIDE DEF w
<1>6. f \in Seq(Instruction) /\ code' = code \o f
  <2>0. <<v>> \in Seq(Instruction) /\ <<w>> \in Seq(Instruction) BY <1>2, <1>3
  <2>1. PICK a \in Seq(Instruction) : a = <<v>> BY <2>0, Zenon
  <2>2. PICK b \in Seq(Instruction) : b = <<w>> BY <2>0, Zenon
  <2>3. (code \o a) \o b = code \o (a \o b) /\ a \o b \in Seq(Instruction)
    BY <1>1, <2>1, <2>2, JoinThree, JoinTwo
  <2> QED BY <1>2, <2>1, <2>2, <2>3
<1>7. Len(f) = 2 /\ f[1] = v /\ f[2] = w OBVIOUS
<1> HIDE DEF f
<1>8. \A b \in 0..(Len(f) - 1) : At(f, b) = v \/ At(f, b) = w
  <2> SUFFICES ASSUME NEW b \in 0..(Len(f) - 1) PROVE At(f, b) = v \/ At(f, b) = w OBVIOUS
  <2> QED BY <1>7 DEF At
<1>9. ReadsNames(f, map, Q) BY <1>2, <1>5, <1>8 DEF ReadsNames, map_put
<1> QED BY <1>6, <1>9

LEMMA StatementShelters ==
  ASSUME Inv, BalanceInv, ShelterInv, status = "emitting", status' = "emitting", chunk' = chunk,
         SameFrames, Continues \/ DeclaresOne
  PROVE  ShelterInv'
<1>1. /\ NameInv /\ locals \in Seq(Names) /\ Len(locals) \in Nat /\ Len(scopes) \in Nat
      /\ JumpsFollow /\ StartsFollow /\ Waiting(open) \subseteq Waiting(open')
      /\ DOMAIN locals = 1..Len(locals)
  BY Typed DEF Inv, SameFrames, NameInv, NameTypes
<1>2. CASE Continues
  <2>1. PICK e : Straight(e, map) /\ code' = code \o e BY <1>2 DEF Continues
  <2>2. /\ locals' = locals /\ scopes' = scopes /\ hoisted' = hoisted
        /\ \A x \in DOMAIN map' : x \in DOMAIN map /\ map'[x] = map[x]
    BY <1>2 DEF Continues
  <2>3. e \in Seq(Instruction) /\ ReadsNames(e, map, Waiting(open'))
    BY <2>1, StraightReads DEF Straight
  <2>4. ASSUME NEW s \in DOMAIN locals PROVE Exempt(s)' \/ Sheltered(s)'
    <3>1. CASE Exempt(s) BY <2>2, <3>1, ExemptStays
    <3>2. CASE Sheltered(s) BY <1>1, <2>1, <2>2, <2>3, <3>2, StaysSheltered
    <3> QED BY <3>1, <3>2 DEF ShelterInv
  <2> QED BY <2>2, <2>4 DEF ShelterInv
<1>3. CASE DeclaresOne
  <2>1. PICK name, v : DeclaresAs(name, v) BY <1>3 DEF DeclaresOne
  <2>2. /\ locals' = Append(locals, name) /\ map' = map_put(map, name, Len(locals))
        /\ scopes' = scope_record_name(name) /\ hoisted \subseteq hoisted' /\ name \in Names
    BY <2>1 DEF DeclaresAs
  <2>3. PICK e \in Seq(Instruction) : code' = code \o e /\ ReadsNames(e, map, Waiting(open'))
    BY <2>1, DeclarationReads
  <2>4. /\ Len(scopes') \in Nat /\ Len(scopes) <= Len(scopes')
        /\ \A k \in 1..Len(scopes) : scopes[k] \subseteq scopes'[k]
    BY <1>1, <2>2, ScopeNamed
  <2>5. \A x \in DOMAIN map' : (x \in DOMAIN map /\ map'[x] = map[x]) \/ map'[x] = Len(locals)
    BY <2>2 DEF map_put
  <2>6. ASSUME NEW s \in DOMAIN locals PROVE Exempt(s)' \/ Sheltered(s)'
    <3>1. locals'[s] = locals[s] BY <1>1, <2>2
    <3>2. CASE Exempt(s) BY <2>2, <3>1, <3>2, ExemptStays
    <3>3. CASE Sheltered(s) BY <1>1, <2>3, <2>4, <2>5, <3>1, <3>3, StaysSheltered
    <3> QED BY <3>2, <3>3 DEF ShelterInv
  <2>8. \A s \in DOMAIN locals' : s \in DOMAIN locals \/ s = Len(locals) + 1 BY <1>1, <2>2
  <2> QED BY <2>1, <2>6, <2>8, NewSheltered DEF ShelterInv
<1> QED BY <1>2, <1>3

\* A statement without a block, also in the header of a FOR.
LEMMA ShelterStatement ==
  ASSUME Inv, BalanceInv, ShelterInv, Statement \/ ForInit \/ ForStep, status' = "emitting"
  PROVE  ShelterInv'
<1>1. status = "emitting" /\ chunk' = chunk BY DEF Statement, ForInit, ForStep, InList, Emitting
<1>2. NameInv /\ LoopsSlotted /\ code \in Seq(Instruction) BY <1>1, Emitted
<1>3. ASSUME NEW st \in parse_stmt \cup parse_loop_header_stmt, emit_stmt(st), SameFrames
      PROVE  ShelterInv'
  BY <1>1, <1>2, <1>3, StmtReads, StatementShelters
<1>4. CASE Statement BY <1>1, <1>3, <1>4, FramesSame DEF Statement
<1>5. CASE ForInit
  <2>1. PICK st \in parse_loop_header_stmt, n \in Names \cup {Garbage} :
          /\ emit_stmt(st)
          /\ open' = Append(Below(open),
                            [Opened("limit", 0, Len(code'), {}) EXCEPT !.iter = n])
    BY <1>5 DEF ForInit
  <2> DEFINE b == [Opened("limit", 0, Len(code'), {}) EXCEPT !.iter = n]
  <2>2. b.start = Len(code') /\ Waits(b) = {} BY DEF Opened, Waits
  <2>3. open' = Append(Below(open), b) BY <2>1
  <2> HIDE DEF b
  <2>4. Top(open).kind = "init" /\ Waits(Top(open)) = {} /\ open # << >>
    BY <1>5 DEF ForInit, Emitting, Waits
  <2>5. Len(code') \in Int /\ Len(code') >= Here
    <3>1. Works(code', Waiting(open), 0, Len(locals')) /\ Grows(code, code')
      BY <1>1, <1>2, <2>1, Emitted, StmtGoes DEF Goes
    <3> QED BY <1>2, <3>1 DEF Grows, Here, Works
  <2>6. SameFrames BY <1>1, <2>2, <2>3, <2>4, <2>5, FramesSame
  <2> QED BY <1>3, <2>1, <2>6
<1>6. CASE ForStep
  <2> DEFINE b == [Top(open) EXCEPT !.kind = "stepped"]
  <2>1. PICK st \in parse_loop_header_stmt : emit_stmt(st) BY <1>6 DEF ForStep
  <2>2. open' = Append(Below(open), b) /\ Top(open).kind = "step" /\ open # << >>
    BY <1>6 DEF ForStep, Emitting
  <2>3. Top(open) \in Block BY <1>1, <1>6, <2>2, Typed, TopOf DEF ForStep
  <2>4. b.start = Top(open).start /\ Waits(b) = Waits(Top(open)) BY <2>2, <2>3 DEF Waits, Block
  <2> HIDE DEF b
  <2>5. SameFrames BY <1>1, <2>2, <2>4, FramesSame
  <2> QED BY <1>3, <2>1, <2>5
<1> QED BY <1>4, <1>5, <1>6

-----------------------------------------------------------------------------
(* Statements with blocks begin *)

\* Code that ends with a jump.
LEMMA StraightJump ==
  ASSUME NEW f, NEW m, Straight(f, m), NEW op \in Jumps, NEW g, g = f \o <<I(op, 0)>>
  PROVE  /\ g \in Seq(Instruction) /\ Len(g) = Len(f) + 1
         /\ \A b \in 0..(Len(g) - 1) :
              /\ At(g, b).op = "GET_LOCAL" => \E x \in DOMAIN m : At(g, b).arg = m[x]
              /\ At(g, b).op \in Jumps => b = Len(f)
<1> DEFINE j == I(op, 0)
<1>1. j \in Instruction /\ j.op \in Jumps /\ j.op # "GET_LOCAL"
  BY DEF I, Instruction, Opcodes, Jumps
<1>2. f \in Seq(Instruction) BY DEF Straight
<1> HIDE DEF j
<1>3. <<j>> \in Seq(Instruction) /\ Len(<<j>>) = 1 /\ \A b \in 0..0 : At(<<j>>, b) = j
  BY <1>1 DEF At
<1>4. PICK e \in Seq(Instruction) : e = <<j>> BY <1>3, Zenon
<1>a. g = f \o e BY <1>4 DEF j
<1>b. /\ f \o e \in Seq(Instruction) /\ Len(f \o e) = Len(f) + Len(e)
      /\ \A a \in 0..(Len(f) - 1) : At(f \o e, a) = At(f, a)
      /\ \A b \in 0..(Len(e) - 1) : At(f \o e, Len(f) + b) = At(e, b)
  BY <1>2, JoinedInstructions
<1>5. /\ g \in Seq(Instruction) /\ Len(g) = Len(f) + 1 /\ Len(f) \in Nat
      /\ \A a \in 0..(Len(f) - 1) : At(g, a) = At(f, a)
      /\ \A b \in 0..(Len(e) - 1) : At(g, Len(f) + b) = At(e, b)
  BY <1>2, <1>3, <1>4, <1>a, <1>b
<1>6. At(g, Len(f)) = j BY <1>3, <1>4, <1>5
<1>7. ASSUME NEW b \in 0..(Len(g) - 1)
      PROVE  /\ At(g, b).op = "GET_LOCAL" => \E x \in DOMAIN m : At(g, b).arg = m[x]
             /\ At(g, b).op \in Jumps => b = Len(f)
  <2>1. CASE b = Len(f) BY <1>1, <1>6, <2>1
  <2>2. CASE b # Len(f)
    <3>1. b \in 0..(Len(f) - 1) BY <1>5, <2>2
    <3> QED BY <1>5, <3>1 DEF Straight
  <2> QED BY <2>1, <2>2
<1> QED BY <1>5, <1>7

LEMMA TestReads ==
  ASSUME NEW n, NEW m, Slotted(m, n), NEW e, Known(m, e), NEW g, g = Test(m, e)
  PROVE  /\ g \in Seq(Instruction) /\ Len(g) = 2
         /\ \A b \in 0..(Len(g) - 1) :
              /\ At(g, b).op = "GET_LOCAL" => \E x \in DOMAIN m : At(g, b).arg = m[x]
              /\ At(g, b).op \in Jumps => b = 1
<1> DEFINE f == emit_expr(m, e)
<1>1. Straight(f, m) /\ Len(f) = 1 /\ "JMP_IF_FALSE" \in Jumps BY StraightExpr DEF emit_expr, Jumps
<1>2. g = f \o <<I("JMP_IF_FALSE", 0)>> BY DEF Test
<1> HIDE DEF f
<1>3. /\ g \in Seq(Instruction) /\ Len(g) = Len(f) + 1
      /\ \A b \in 0..(Len(g) - 1) :
           /\ At(g, b).op = "GET_LOCAL" => \E x \in DOMAIN m : At(g, b).arg = m[x]
           /\ At(g, b).op \in Jumps => b = Len(f)
  BY <1>1, <1>2, StraightJump
<1> QED BY <1>1, <1>3

\* Code that reads names, with its one jump at this place.
ReadsAndJumps(new, c, m, at) ==
  \E g \in Seq(Instruction) :
    /\ new = c \o g
    /\ \A b \in 0..(Len(g) - 1) :
         /\ At(g, b).op = "GET_LOCAL" => \E x \in DOMAIN m : At(g, b).arg = m[x]
         /\ At(g, b).op \in Jumps => b = at

LEMMA LimitReads ==
  ASSUME NEW n, NEW m, Slotted(m, n), NEW e, Known(m, e), NEW f, Known(m, f),
         NEW c \in Seq(Instruction), NEW new,
         new = c \o emit_expr(m, e) \o emit_expr(m, f) \o <<I("LT", 0), I("JMP_IF_FALSE", 0)>>
  PROVE  ReadsAndJumps(new, c, m, 3)
<1> DEFINE x == emit_expr(m, e)
           y == emit_expr(m, f)
           less == <<I("LT", 0)>>
           jump == <<I("JMP_IF_FALSE", 0)>>
           h == (x \o y) \o less
           g == h \o jump
<1>1. Straight(x, m) /\ Len(x) = 1 /\ Straight(y, m) /\ Len(y) = 1 /\ "JMP_IF_FALSE" \in Jumps
  BY StraightExpr DEF emit_expr, Jumps
<1>2. Straight(less, m) /\ Len(less) = 1 BY StraightPlain
<1>4. jump \in Seq(Instruction) BY DEF I, Instruction, Opcodes
<1>5. new = c \o x \o y \o (less \o jump) BY Pair
<1> HIDE DEF x, y, less
<1>6. x \in Seq(Instruction) /\ y \in Seq(Instruction) /\ less \in Seq(Instruction)
  BY <1>1, <1>2 DEF Straight
<1>7. Straight(h, m) /\ Len(h) = 3
  <2>0. Straight(x \o y, m) BY <1>1, StraightOn
  <2>1. Straight(x \o y, m) /\ Len(x \o y) = 2 /\ x \o y \in Seq(Instruction)
    <3>1. PICK a \in Seq(Instruction) : a = x BY <1>6, Zenon
    <3>2. PICK b \in Seq(Instruction) : b = y BY <1>6, Zenon
    <3>3. a \o b \in Seq(Instruction) /\ Len(a \o b) = Len(a) + Len(b) BY JoinTwo
    <3> QED BY <1>1, <2>0, <3>1, <3>2, <3>3
  <2>3. Len((x \o y) \o less) = 2 + 1
    <3>1. PICK a \in Seq(Instruction) : a = x \o y BY <2>1, Zenon
    <3>2. PICK b \in Seq(Instruction) : b = less BY <1>6, Zenon
    <3>3. Len(a \o b) = Len(a) + Len(b) BY JoinTwo
    <3> QED BY <1>2, <2>1, <3>1, <3>2, <3>3
  <2> QED BY <1>2, <2>1, <2>3, StraightOn
<1>8. /\ g \in Seq(Instruction) /\ Len(g) = Len(h) + 1
      /\ \A b \in 0..(Len(g) - 1) :
           /\ At(g, b).op = "GET_LOCAL" => \E z \in DOMAIN m : At(g, b).arg = m[z]
           /\ At(g, b).op \in Jumps => b = Len(h)
  <2> HIDE DEF h
  <2> QED BY <1>1, <1>7, StraightJump
<1>9. new = c \o g
  <2> HIDE DEF jump
  <2>1. x \o y \in Seq(Instruction) /\ (c \o x) \o y = c \o (x \o y)
    BY <1>6, JoinTwo, JoinThree, SMTT(60)
  <2> DEFINE w == x \o y
  <2> HIDE DEF w
  <2>2. w \in Seq(Instruction) /\ c \o w \in Seq(Instruction) /\ w \o less \in Seq(Instruction)
    BY <1>6, <2>1, JoinTwo DEF w
  <2>3. (c \o w) \o (less \o jump) = ((c \o w) \o less) \o jump
    BY <1>4, <1>6, <2>2, JoinTwo, JoinThree, SMTT(60)
  <2>4. (c \o w) \o less = c \o (w \o less) BY <1>6, <2>2, JoinTwo, JoinThree, SMTT(60)
  <2> DEFINE z == w \o less
  <2> HIDE DEF z
  <2>5. z \in Seq(Instruction) BY <2>2 DEF z
  <2>6. (c \o z) \o jump = c \o (z \o jump) BY <1>4, <2>5, JoinTwo, JoinThree, SMTT(60)
  <2> QED BY <1>5, <2>1, <2>3, <2>4, <2>6 DEF z, w
<1> HIDE DEF g
<1> QED BY <1>7, <1>8, <1>9 DEF ReadsAndJumps

\* A scope is pushed, or none, and code is emitted.
LEMMA OpeningShelters ==
  ASSUME Inv, BalanceInv, ShelterInv, status = "emitting", chunk' = chunk,
         JumpsFollow, StartsFollow, Waiting(open) \subseteq Waiting(open'),
         NEW e \in Seq(Instruction), code' = code \o e, ReadsNames(e, map, Waiting(open')),
         scopes' = scope_push(scopes), UNCHANGED <<map, locals, hoisted>>
  PROVE  ShelterInv'
<1>2. /\ Len(scopes') \in Nat /\ Len(scopes) <= Len(scopes')
      /\ \A k \in 1..Len(scopes) : scopes[k] \subseteq scopes'[k]
  BY Typed DEF scope_push, Inv, NameInv, NameTypes
<1>3. ASSUME NEW s \in DOMAIN locals PROVE Exempt(s)' \/ Sheltered(s)'
  <2>1. CASE Exempt(s) BY <2>1, ExemptStays
  <2>2. CASE Sheltered(s) BY <1>2, <2>2, StaysSheltered
  <2> QED BY <2>1, <2>2 DEF ShelterInv
<1> QED BY <1>3 DEF ShelterInv

LEMMA ShelterOpens ==
  ASSUME Inv, BalanceInv, ShelterInv, If \/ While \/ For \/ ForLimit, status' = "emitting"
  PROVE  ShelterInv'
<1>1. status = "emitting" /\ chunk' = chunk BY DEF If, While, For, ForLimit, Opens, InList, Emitting
<1>2. /\ code \in Seq(Instruction) /\ Here = Len(code) /\ Here \in Nat /\ open \in Seq(Block)
      /\ Slotted(map, Len(locals))
  BY <1>1, Emitted
<1>3. CASE If \/ While
  <2>1. PICK kind \in {"then", "while"}, cond \in Operands, start \in {0, Here} :
          /\ Known(map, cond) /\ code' = code \o Test(map, cond)
          /\ open' = Append(open, Opened(kind, Here + 1, start, {}))
          /\ scopes' = scope_push(scopes) /\ UNCHANGED <<map, locals, hoisted>>
    BY <1>3, Zenon DEF If, While, Fail
  <2> DEFINE b == Opened(kind, Here + 1, start, {})
  <2>2. Waits(b) = {Here + 1} /\ b.start = start BY <2>1, OpenedIs DEF Waits
  <2> HIDE DEF b
  <2>3. open' = Append(open, b) BY <2>1 DEF b
  <2>4. JumpsFollow /\ StartsFollow BY <1>1, <1>2, <2>1, <2>2, <2>3, FramesOpened
  <2>5. Waiting(open') = Waiting(open) \cup {Here + 1} BY <1>1, <2>2, <2>3, WaitingOpened
  <2>6. PICK e : e = Test(map, cond) OBVIOUS
  <2>7. /\ e \in Seq(Instruction)
        /\ \A i \in 0..(Len(e) - 1) :
             /\ At(e, i).op = "GET_LOCAL" => \E x \in DOMAIN map : At(e, i).arg = map[x]
             /\ At(e, i).op \in Jumps => i = 1
    BY <1>2, <2>1, <2>6, TestReads
  <2>8. ReadsNames(e, map, Waiting(open')) BY <2>5, <2>7 DEF ReadsNames
  <2> QED BY <1>1, <2>1, <2>4, <2>5, <2>6, <2>7, <2>8, OpeningShelters
<1>4. CASE For
  <2> DEFINE b == Opened("init", 0, 0, {})
  <2>1. /\ open' = Append(open, b) /\ scopes' = scope_push(scopes)
        /\ UNCHANGED <<code, map, locals, hoisted>>
    BY <1>4 DEF For
  <2>2. Waits(b) = {} /\ b.start = 0 BY OpenedIs DEF Waits
  <2> HIDE DEF b
  <2>3. JumpsFollow /\ StartsFollow BY <1>1, <2>1, <2>2, FramesOpened
  <2>4. Waiting(open') = Waiting(open) \cup {} BY <1>1, <2>1, <2>2, WaitingOpened
  <2>5. PICK e : e = << >> OBVIOUS
  <2>6. e \in Seq(Instruction) /\ code' = code \o e /\ Len(e) = 0 BY <1>2, <2>1, <2>5
  <2>7. ReadsNames(e, map, Waiting(open')) BY <2>6 DEF ReadsNames
  <2> QED BY <1>1, <2>1, <2>3, <2>4, <2>6, <2>7, OpeningShelters
<1>5. CASE ForLimit
  <2> DEFINE iter == Top(open).iter
  <2>1. PICK limit \in Operands :
          /\ Known(map, iter) /\ Known(map, limit)
          /\ code' = code \o emit_expr(map, iter) \o emit_expr(map, limit)
                       \o <<I("LT", 0), I("JMP_IF_FALSE", 0)>>
          /\ open' = Append(Below(open), Opened("for", Here + 3, Top(open).start, {}))
          /\ scopes' = scope_push(scopes) /\ UNCHANGED <<map, locals, hoisted>>
    BY <1>5, Zenon DEF ForLimit, Fail
  <2>a. PICK e \in Seq(Instruction) :
          /\ code' = code \o e
          /\ \A i \in 0..(Len(e) - 1) :
               /\ At(e, i).op = "GET_LOCAL" => \E x \in DOMAIN map : At(e, i).arg = map[x]
               /\ At(e, i).op \in Jumps => i = 3
    <3> HIDE DEF iter
    <3>1. PICK m : m = map OBVIOUS
    <3>2. Slotted(m, Len(locals)) /\ Known(m, iter) /\ Known(m, limit) BY <1>2, <2>1, <3>1
    <3>3. PICK new : new = code' OBVIOUS
    <3>4. new = code \o emit_expr(m, iter) \o emit_expr(m, limit)
                  \o <<I("LT", 0), I("JMP_IF_FALSE", 0)>>
      BY <2>1, <3>1, <3>3
    <3>5. ReadsAndJumps(new, code, m, 3) BY <1>2, <3>2, <3>4, LimitReads
    <3> QED BY <3>1, <3>3, <3>5, Zenon DEF ReadsAndJumps
  <2> DEFINE b == Opened("for", Here + 3, Top(open).start, {})
  <2>2. b.start = Top(open).start /\ Waits(b) = {Here + 3} BY OpenedIs DEF Waits
  <2>3. open' = Append(Below(open), b) BY <2>1
  <2> HIDE DEF b, iter
  <2>4. Waits(Top(open)) = {} /\ open # << >> BY <1>5 DEF ForLimit, Emitting, Waits
  <2>5. JumpsFollow /\ StartsFollow BY <1>1, <1>2, <2>2, <2>3, <2>4, FramesReplaced
  <2>6. Waiting(open) = Waiting(Below(open)) /\ Waiting(open') = Waiting(Below(open))
                                                           \cup {Here + 3}
    <3>1. Waiting(open) = Waiting(Below(open)) \cup Waits(Top(open)) BY <1>2, <2>4, WaitingTop
    <3>2. Waiting(open') = Waiting(Below(open)) \cup Waits(b) BY <1>1, <2>3, <2>4, WaitingOpened
    <3> QED BY <2>2, <2>4, <3>1, <3>2
  <2>8. ReadsNames(e, map, Waiting(open')) BY <2>6, <2>a DEF ReadsNames
  <2>9. Waiting(open) \subseteq Waiting(open') BY <2>6
  <2> QED BY <1>1, <2>1, <2>5, <2>a, <2>8, <2>9, OpeningShelters
<1> QED BY <1>3, <1>4, <1>5

-----------------------------------------------------------------------------
(* Statements with blocks end *)

\* Where a slot may be read when the innermost scope is closed, and the code has
\* come to n: its scope stays open, or it may not be read from here on.
StaysOpen(s, lo, k) ==
  /\ lo \in 1..Here /\ k \in 1..(Len(scopes) - 1) /\ locals[s] \in scopes[k] /\ Around(lo, k)
IsClosed(s, lo, hi, n) ==
  /\ lo \in 1..Here /\ hi \in 0..n
  /\ ~(locals[s] \in DOMAIN Outside /\ Outside[locals[s]] = s - 1)
  /\ \A i \in DOMAIN open :
       i # Len(open) \/ Top(open).kind = "for" => open[i].start \notin lo..(hi - 1)
Leaves(s, R, n) ==
  \/ \E lo, k : R = From(lo) /\ StaysOpen(s, lo, k)
  \/ \E lo, hi : R = lo..(hi - 1) /\ IsClosed(s, lo, hi, n)

LEMMA LeavesSettled ==
  ASSUME Inv, BalanceInv, status = "emitting", NEW s, NEW R, NEW n \in Nat, n >= Here, Leaves(s, R, n)
  PROVE  Settled(n, R)
<1>1. Here \in Nat BY Emitted
<1>2. CASE \E lo, k : R = From(lo) /\ StaysOpen(s, lo, k)
  <2>1. PICK lo, k : R = From(lo) /\ StaysOpen(s, lo, k) BY <1>2
  <2> QED BY <1>1, <2>1, SettledIs DEF StaysOpen
<1>3. CASE \E lo, hi : R = lo..(hi - 1) /\ IsClosed(s, lo, hi, n)
  <2>1. PICK lo, hi : R = lo..(hi - 1) /\ IsClosed(s, lo, hi, n) BY <1>3
  <2>2. lo \in Nat /\ hi \in Nat /\ hi <= n BY <1>1, <2>1 DEF IsClosed
  <2> QED BY <2>1, <2>2, SettledIs
<1> QED BY <1>2, <1>3 DEF Leaves

\* A name of the scope that is closed is known no more, but for hoisted ones.
LEMMA NamesLeft ==
  ASSUME Inv, status = "emitting", NEW s, ~Exempt(s), locals[s] \in Top(scopes)
  PROVE  locals[s] \notin DOMAIN Outside
<1> QED BY DEF Outside, Without, Exempt, Inv, NameInv, LoopsHoisted

\* A jump may be emitted first.
JumpsBack(j, Q) ==
  \/ j = << >>
  \/ \E arg \in Int : /\ j = <<I("JMP", arg)>>
                      /\ \/ Here \in Q
                         \/ Here + 1 + arg = Top(open).start /\ Top(open).kind # "for"

LEMMA RegionLeft ==
  ASSUME Inv, BalanceInv, status = "emitting", open # << >>, NEW s \in DOMAIN locals, ~Exempt(s),
         Sheltered(s), NEW Q, Waiting(open) \subseteq Q, NEW j \in Seq(Instruction), JumpsBack(j, Q),
         NEW c, c = code \o j
  PROVE  \E R : Shelter(c, Q, s, R) /\ Leaves(s, R, Len(c))
<1>1. /\ code \in Seq(Instruction) /\ Here = Len(code) /\ Here \in Nat /\ open \in Seq(Block)
      /\ Len(scopes) \in Nat /\ Len(open) \in DOMAIN open /\ Top(open) = open[Len(open)]
  BY Emitted, Typed DEF Top
<1>2. c \in Seq(Instruction) /\ Len(c) \in Nat /\ Len(c) >= Here BY <1>1, JoinTwo
<1>3. /\ \A i \in DOMAIN open : ScopeOf(i) \in Nat
      /\ Top(open).kind # "for" => ScopeOf(Len(open)) = Len(scopes)
      /\ Top(open).kind = "for" => ScopeOf(Len(open)) = Len(scopes) - 1
      /\ \A i \in DOMAIN open : i # Len(open) => ScopeOf(i) < ScopeOf(Len(open))
  BY ScopeNumbers
<1>4. ASSUME NEW R, Shelter(code, Waiting(open), s, R), Settled(Here, R),
             Here \in R \/ \A i \in DOMAIN open : open[i].start \notin R
      PROVE  Shelter(c, Q, s, R)
  <2>1. ASSUME NEW b \in 0..(Len(j) - 1)
        PROVE  /\ At(j, b) # I("GET_LOCAL", s - 1)
               /\ At(j, b).op \in Jumps /\ Len(code) + b \notin Q =>
                    Len(code) \in R \/ Len(code) + b + 1 + At(j, b).arg \notin R
    <3>1. j # << >> BY <2>1
    <3>2. PICK arg \in Int : /\ j = <<I("JMP", arg)>>
                             /\ \/ Here \in Q
                                \/ Here + 1 + arg = Top(open).start /\ Top(open).kind # "for"
      BY <3>1 DEF JumpsBack
    <3>3. b = 0 /\ At(j, b) = I("JMP", arg) BY <3>2 DEF At
    <3>4. At(j, b).op = "JMP" /\ At(j, b).arg = arg /\ I("GET_LOCAL", s - 1).op = "GET_LOCAL"
      BY <3>3 DEF I
    <3>5. Len(code) + b = Here /\ Len(code) + b + 1 + arg = Here + 1 + arg BY <1>1, <3>2, <3>3
    <3> QED BY <1>1, <1>4, <3>2, <3>4, <3>5
  <2> QED BY <1>1, <1>4, <2>1, ShelterOn
<1>5. CASE \E lo, k : AliveAt(s, lo, k)
  <2>1. PICK lo, k : AliveAt(s, lo, k) BY <1>5
  <2>2. /\ lo \in 1..Here /\ k \in 1..Len(scopes) /\ locals[s] \in scopes[k]
        /\ Shelter(code, Waiting(open), s, From(lo)) /\ Around(lo, k)
    BY <2>1 DEF AliveAt
  <2>3. Settled(Here, From(lo)) /\ Here \in From(lo)
    <3>1. lo \in Nat /\ lo <= Here BY <1>1, <2>2
    <3> QED BY <1>1, <3>1, SettledIs
  <2>4. PICK R : R = From(lo) OBVIOUS
  <2>5. Shelter(c, Q, s, R) BY <1>4, <2>2, <2>3, <2>4
  <2>6. CASE k < Len(scopes)
    <3>1. StaysOpen(s, lo, k) BY <1>1, <2>2, <2>6 DEF StaysOpen
    <3> QED BY <2>4, <2>5, <3>1 DEF Leaves
  <2>7. CASE k = Len(scopes)
    <3>1. Shelter(c, Q, s, lo..(Len(c) - 1))
      <4>1. lo \in Int /\ Shelter(c, Q, s, From(lo)) BY <2>2, <2>4, <2>5
      <4> QED BY <1>2, <4>1, ShelterClosed
    <3>2. locals[s] \notin DOMAIN Outside BY <2>2, <2>7, NamesLeft DEF Top
    <3>3. ASSUME NEW i \in DOMAIN open, i # Len(open) \/ Top(open).kind = "for"
          PROVE  open[i].start \notin lo..(Len(c) - 1)
      BY <1>1, <1>3, <2>2, <2>7, <3>3 DEF Around
    <3>4. IsClosed(s, lo, Len(c), Len(c)) BY <1>2, <2>2, <3>2, <3>3 DEF IsClosed
    <3> QED BY <3>1, <3>4 DEF Leaves
  <2> QED BY <1>1, <2>2, <2>6, <2>7
<1>6. CASE \E lo, hi : DeadAt(s, lo, hi)
  <2>1. PICK lo, hi : DeadAt(s, lo, hi) BY <1>6
  <2>2. /\ lo \in 1..Here /\ hi \in 0..Here
        /\ ~(locals[s] \in DOMAIN map /\ map[locals[s]] = s - 1)
        /\ Shelter(code, Waiting(open), s, lo..(hi - 1))
        /\ \A i \in DOMAIN open : open[i].start \notin lo..(hi - 1)
    BY <2>1 DEF DeadAt
  <2>3. Settled(Here, lo..(hi - 1)) /\ Here \notin lo..(hi - 1) BY <1>1, <2>2, SettledIs
  <2>4. PICK R : R = lo..(hi - 1) OBVIOUS
  <2>5. Shelter(c, Q, s, R) BY <1>4, <2>2, <2>3, <2>4
  <2>7. IsClosed(s, lo, hi, Len(c)) BY <1>1, <1>2, <2>2 DEF IsClosed, Outside, Without
  <2> QED BY <2>4, <2>5, <2>7 DEF Leaves
<1> QED BY <1>5, <1>6 DEF Sheltered

\* The jumps that waited for the end lead to it.
LEMMA RegionPatched ==
  ASSUME Inv, BalanceInv, status = "emitting", open # << >>, Top(open).kind # "for",
         NEW s, NEW R, NEW c, NEW P, NEW n, Works(c, P, 0, n), Shelter(c, P, s, R),
         Leaves(s, R, Len(c)), NEW ats, ats \subseteq P, ats \subseteq Waits(Top(open)) \cup {Here},
         NEW Q, P \ ats \subseteq Q, NEW t, t = Len(c)
  PROVE  Shelter(Patch(c, ats, t), Q, s, R)
<1>1. /\ Works(code, Waiting(open), 0, Len(locals)) /\ Here = Len(code) /\ Here \in Nat
      /\ open \in Seq(Block) /\ Len(open) \in DOMAIN open /\ Top(open) = open[Len(open)]
      /\ Len(scopes) \in Nat
  BY Emitted, Typed DEF Top
<1>2. /\ c \in Seq(Instruction) /\ t \in Int
      /\ \A a \in ats : a \in 0..(Len(c) - 1) /\ At(c, a).op \in Jumps
  BY DEF Works
<1>4. ASSUME t \in R PROVE ats \subseteq R
  <2>1. CASE \E lo, k : R = From(lo) /\ StaysOpen(s, lo, k)
    <3>1. PICK lo, k : R = From(lo) /\ StaysOpen(s, lo, k) BY <2>1
    <3>2. lo \in 1..Here /\ k < Len(scopes) /\ Around(lo, k) BY <1>1, <3>1 DEF StaysOpen
    <3>4. \A a \in Waits(Top(open)) : a >= lo BY <1>1, <3>2, ScopeNumbers DEF Around
    <3>5. \A a \in Waits(Top(open)) \cup {Here} : a \in Int /\ a >= lo
      BY <1>1, <3>2, <3>4, WaitingTop DEF Works
    <3> QED BY <3>1, <3>5 DEF From
  <2>2. CASE \E lo, hi : R = lo..(hi - 1) /\ IsClosed(s, lo, hi, Len(c)) BY <1>4, <2>2 DEF IsClosed
  <2> QED BY <2>1, <2>2 DEF Leaves
<1> QED BY <1>2, <1>4, ShelterPatched

\* What is left of the scopes and the open statements.
ScopesKept ==
  /\ Len(scopes') \in Nat /\ Len(scopes) - 1 <= Len(scopes')
  /\ \A k \in 1..(Len(scopes) - 1) : scopes'[k] = scopes[k]
StartsKept ==
  \A i \in DOMAIN open' :
    \/ open'[i].start = 0
    \/ /\ i \in DOMAIN open /\ ScopeOf(i)' = ScopeOf(i) /\ open'[i].start = open[i].start
       /\ i # Len(open) \/ Top(open).kind = "for"

LEMMA RegionStays ==
  ASSUME Inv, BalanceInv, status = "emitting", open # << >>, NEW s \in DOMAIN locals,
         NEW c \in Seq(Instruction), Here <= Len(c), NEW P, NEW R, Shelter(c, P, s, R),
         Leaves(s, R, Len(c)), P \subseteq Waiting(open'),
         NEW e \in Seq(Instruction), code' = c \o e,
         \A b \in 0..(Len(e) - 1) :
           /\ At(e, b).op = "GET_LOCAL" => \E x \in DOMAIN Outside : At(e, b).arg = Outside[x]
           /\ At(e, b).op \in Jumps => Len(c) + b \in Waiting(open'),
         map' = Outside, locals' = locals, ScopesKept, JumpsFollow, StartsKept
  PROVE  Sheltered(s)'
<1>1. /\ Here \in Nat /\ NameInv /\ Len(scopes) \in Nat /\ Len(c) \in Nat
      /\ \A i \in DOMAIN open : ScopeOf(i) \in Nat
  BY Emitted, Typed, ScopeNumbers
<1>2. Here' \in Nat /\ Len(c) <= Here' /\ Here <= Here' BY <1>1, JoinTwo DEF Here
<1>3. CASE \E lo, k : R = From(lo) /\ StaysOpen(s, lo, k)
  <2>1. PICK lo, k : R = From(lo) /\ StaysOpen(s, lo, k) BY <1>3
  <2>2. /\ lo \in 1..Here /\ k \in 1..(Len(scopes) - 1) /\ locals[s] \in scopes[k]
        /\ Around(lo, k)
    BY <2>1 DEF StaysOpen
  <2>3. Settled(Len(c), From(lo)) /\ Len(c) \in From(lo) BY <1>1, <2>2, SettledIs
  <2>4. Shelter(code', Waiting(open'), s, From(lo)) BY <2>1, <2>3, ShelterOn
  <2>5. Around(lo, k)'
    <3>1. ASSUME NEW i \in DOMAIN open', ScopeOf(i)' > k, NEW a \in Waits(open'[i])
          PROVE  a >= lo
      <4>1. CASE a \in Int /\ a >= Here BY <1>1, <2>2, <4>1
      <4>2. CASE i \in DOMAIN open /\ ScopeOf(i)' = ScopeOf(i) /\ a \in Waits(open[i])
        BY <2>2, <3>1, <4>2 DEF Around
      <4> QED BY <3>1, <4>1, <4>2 DEF JumpsFollow
    <3>2. ASSUME NEW i \in DOMAIN open', ScopeOf(i)' < k PROVE open'[i].start < lo
      <4>1. CASE open'[i].start = 0 BY <2>2, <4>1
      <4>2. CASE i \in DOMAIN open /\ ScopeOf(i)' = ScopeOf(i) /\ open'[i].start = open[i].start
        BY <2>2, <3>2, <4>2 DEF Around
      <4> QED BY <4>1, <4>2 DEF StartsKept
    <3> QED BY <3>1, <3>2 DEF Around
  <2>6. lo \in 1..Here' /\ k \in 1..Len(scopes') /\ locals'[s] \in scopes'[k]
    BY <1>1, <1>2, <2>2 DEF ScopesKept
  <2>7. AliveAt(s, lo, k)' BY <2>4, <2>5, <2>6 DEF AliveAt
  <2> QED BY <2>7 DEF Sheltered
<1>4. CASE \E lo, hi : R = lo..(hi - 1) /\ IsClosed(s, lo, hi, Len(c))
  <2>1. PICK lo, hi : R = lo..(hi - 1) /\ IsClosed(s, lo, hi, Len(c)) BY <1>4
  <2>2. /\ lo \in 1..Here /\ hi \in 0..Len(c)
        /\ ~(locals[s] \in DOMAIN Outside /\ Outside[locals[s]] = s - 1)
        /\ \A i \in DOMAIN open :
             i # Len(open) \/ Top(open).kind = "for" => open[i].start \notin lo..(hi - 1)
    BY <2>1 DEF IsClosed
  <2>3. Settled(Len(c), R) /\ Len(c) \notin R BY <1>1, <2>1, <2>2, SettledIs
  <2>4. Shelter(code', Waiting(open'), s, R)
    <3>1. ASSUME NEW b \in 0..(Len(e) - 1) PROVE At(e, b) # I("GET_LOCAL", s - 1)
      BY <1>1, <2>2, SlotNames DEF I, Outside, Without
    <3> QED BY <2>3, <3>1, ShelterOn
  <2>5. \A i \in DOMAIN open' : open'[i].start \notin lo..(hi - 1)
    <3> SUFFICES ASSUME NEW i \in DOMAIN open' PROVE open'[i].start \notin lo..(hi - 1) OBVIOUS
    <3>1. CASE open'[i].start = 0 BY <2>2, <3>1
    <3>2. CASE /\ i \in DOMAIN open /\ open'[i].start = open[i].start
               /\ i # Len(open) \/ Top(open).kind = "for"
      BY <2>2, <3>2
    <3> QED BY <3>1, <3>2 DEF StartsKept
  <2>6. lo \in 1..Here' /\ hi \in 0..Here' BY <1>1, <1>2, <2>2
  <2>7. ~(locals'[s] \in DOMAIN map' /\ map'[locals'[s]] = s - 1) BY <2>2
  <2>8. DeadAt(s, lo, hi)' BY <2>1, <2>4, <2>5, <2>6, <2>7 DEF DeadAt
  <2> QED BY <2>8 DEF Sheltered
<1> QED BY <1>3, <1>4 DEF Leaves

LEMMA PatchLen ==
  ASSUME NEW c \in Seq(Instruction), NEW ats, NEW t \in Int
  PROVE  Patch(c, ats, t) \in Seq(Instruction) /\ Len(Patch(c, ats, t)) = Len(c)
<1> DEFINE f == Patch(c, ats, t)
<1>1. f \in Seq(Instruction) /\ DOMAIN c = 1..Len(c) /\ Len(c) \in Nat BY PatchType
<1>2. DOMAIN f = DOMAIN c BY DEF Patch
<1> HIDE DEF f
<1>3. Len(f) = Len(c) BY <1>1, <1>2
<1> QED BY <1>1, <1>3 DEF f

LEMMA ScopesLeft ==
  ASSUME Inv, status = "emitting", scopes' \in {Below(scopes), scope_push(Below(scopes))}
  PROVE  ScopesKept
<1>1. scopes \in Seq(SUBSET Names) /\ scopes # << >> BY Typed DEF Inv, NameInv, NameTypes
<1>2. PICK ss : ss = Below(scopes) OBVIOUS
<1>3. /\ ss \in Seq(SUBSET Names) /\ Len(ss) = Len(scopes) - 1
      /\ \A i \in 1..(Len(scopes) - 1) : ss[i] = scopes[i]
  BY <1>1, <1>2, BelowIsSeq
<1>4. CASE scopes' = ss BY <1>1, <1>3, <1>4 DEF ScopesKept
<1>5. CASE scopes' = Append(ss, {}) BY <1>1, <1>3, <1>5 DEF ScopesKept
<1> QED BY <1>2, <1>4, <1>5 DEF scope_push

LEMMA FramesClosed ==
  ASSUME Inv, status = "emitting", open # << >>, open' = Below(open)
  PROVE  JumpsFollow /\ StartsKept
<1>1. open \in Seq(Block) BY Typed
<1>3. PICK bs : bs = Below(open) OBVIOUS
<1>4. \A i \in DOMAIN bs : i \in DOMAIN open /\ i # Len(open) /\ bs[i] = open[i]
  BY <1>1, <1>3, BelowIsSeq
<1>6. \A i \in DOMAIN open' : /\ i \in DOMAIN open /\ i # Len(open) /\ open'[i] = open[i]
                              /\ ScopeOf(i)' = ScopeOf(i)
  BY <1>3, <1>4, ScopesStay
<1> QED BY <1>6 DEF JumpsFollow, StartsKept

LEMMA FramesGoOn ==
  ASSUME Inv, status = "emitting", open # << >>, NEW b, open' = Append(Below(open), b),
         \A a \in Waits(b) : (a \in Int /\ a >= Here) \/ a \in Waits(Top(open)),
         b.start = 0 \/ (b.start = Top(open).start /\ Top(open).kind = "for")
  PROVE  JumpsFollow /\ StartsKept
<1>1. /\ JumpsFollow /\ DOMAIN open' = DOMAIN open /\ open'[Len(open)] = b
      /\ \A i \in DOMAIN open : /\ ScopeOf(i)' = ScopeOf(i)
                                /\ i # Len(open) => open'[i] = open[i]
  BY FramesReplaced
<1>3. ASSUME NEW i \in DOMAIN open'
      PROVE  \/ open'[i].start = 0
             \/ /\ i \in DOMAIN open /\ ScopeOf(i)' = ScopeOf(i) /\ open'[i].start = open[i].start
                /\ i # Len(open) \/ Top(open).kind = "for"
  <2>1. CASE i = Len(open) BY <1>1, <2>1 DEF Top
  <2>2. CASE i # Len(open) BY <1>1, <2>2
  <2> QED BY <2>1, <2>2
<1> QED BY <1>1, <1>3 DEF StartsKept

\* The end of a THEN.
LEMMA ThenRegion ==
  ASSUME Inv, BalanceInv, status = "emitting", open # << >>, Top(open).kind = "then",
         NEW s \in DOMAIN locals, ~Exempt(s), Sheltered(s), NEW P, P = Waiting(Below(open)) \cup Ends
  PROVE  \E R : Shelter(ThenClosed, P, s, R) /\ Leaves(s, R, Len(ThenClosed))
<1>1. /\ Works(code, Waiting(open), 0, Len(locals)) /\ Here = Len(code) /\ Here \in Nat
      /\ code \in Seq(Instruction) /\ open \in Seq(Block)
  BY Emitted
<1>3. PICK c : c = Append(code, I("JMP", 0)) OBVIOUS
<1>4. PICK Q : Q = Waiting(open) \cup {Here} OBVIOUS
<1>5. PICK j : j = <<I("JMP", 0)>> OBVIOUS
<1>6. j \in Seq(Instruction) /\ c = code \o j
  BY <1>1, <1>3, <1>5, JoinLast DEF I, Instruction, Opcodes
<1>7. Works(c, Q, 0, Len(locals)) /\ c \in Seq(Instruction) /\ Len(c) = Here + 1
  BY <1>1, <1>3, <1>4, JumpWorks
<1>8. JumpsBack(j, Q) BY <1>4, <1>5 DEF JumpsBack
<1>9. PICK R : Shelter(c, Q, s, R) /\ Leaves(s, R, Len(c)) BY <1>4, <1>6, <1>8, RegionLeft
<1>10. PICK ats : ats = {Top(open).test} OBVIOUS
<1>12. ats \subseteq Q /\ ats \subseteq Waits(Top(open)) \cup {Here} /\ Q \ ats \subseteq P
  BY <1>1, <1>4, <1>10, WaitingTop DEF Ends, Waits
<1>13. PICK t : t = Len(c) OBVIOUS
<1>14. Shelter(Patch(c, ats, t), P, s, R) BY <1>7, <1>9, <1>12, <1>13, RegionPatched
<1>15. ThenClosed = Patch(c, ats, t) /\ t \in Int BY <1>1, <1>3, <1>7, <1>10, <1>13 DEF ThenClosed
<1>16. Len(ThenClosed) = Len(c) BY <1>7, <1>15, PatchLen
<1> QED BY <1>9, <1>14, <1>15, <1>16

\* The end of a loop.
LEMMA LoopRegion ==
  ASSUME Inv, BalanceInv, status = "emitting", open # << >>,
         Top(open).kind \in {"while", "step", "stepped"},
         NEW s \in DOMAIN locals, ~Exempt(s), Sheltered(s), NEW P, P = Waiting(Below(open))
  PROVE  /\ \E R : Shelter(LoopClosed, P, s, R) /\ Leaves(s, R, Len(LoopClosed))
         /\ Len(LoopClosed) = Here + 1
<1>1. /\ Works(code, Waiting(open), 0, Len(locals)) /\ Here = Len(code) /\ Here \in Nat
      /\ code \in Seq(Instruction) /\ open \in Seq(Block) /\ StartsLand
      /\ Len(open) \in DOMAIN open
  BY Emitted, BelowIsSeq
<1>2. ToTest \in Int /\ Lands(code, ToTest) /\ ToTest = Top(open).start
  BY <1>1 DEF StartsLand, Top, ToTest, Lands
<1>3. PICK arg : arg = ToTest - (Here + 1) OBVIOUS
<1>4. arg \in Int /\ Here + 1 + arg = ToTest BY <1>1, <1>2, <1>3
<1>5. I("JMP", arg) \in Instruction BY <1>4 DEF I, Instruction, Opcodes
<1>6. PICK c : c = Append(code, I("JMP", arg)) OBVIOUS
<1>7. PICK Q : Q = Waiting(open) OBVIOUS
<1>8. PICK j : j = <<I("JMP", arg)>> OBVIOUS
<1>9. j \in Seq(Instruction) /\ c = code \o j BY <1>1, <1>5, <1>6, <1>8, JoinLast
<1>10. Works(c, Q, 0, Len(locals)) /\ c \in Seq(Instruction) /\ Len(c) = Here + 1
  BY <1>1, <1>2, <1>4, <1>6, <1>7, JumpWorks
<1>11. JumpsBack(j, Q) BY <1>2, <1>4, <1>8 DEF JumpsBack
<1>12. PICK R : Shelter(c, Q, s, R) /\ Leaves(s, R, Len(c)) BY <1>7, <1>9, <1>11, RegionLeft
<1>13. PICK ats : ats = {Top(open).test} OBVIOUS
<1>15. ats \subseteq Q /\ ats \subseteq Waits(Top(open)) \cup {Here} /\ Q \ ats \subseteq P
  BY <1>1, <1>7, <1>13, WaitingTop DEF Waits
<1>16. PICK t : t = Len(c) OBVIOUS
<1>17. Shelter(Patch(c, ats, t), P, s, R) BY <1>10, <1>12, <1>15, <1>16, RegionPatched
<1>18. LoopClosed = Patch(c, ats, t) /\ t \in Int
  BY <1>1, <1>3, <1>6, <1>10, <1>13, <1>16 DEF LoopClosed
<1>19. Len(LoopClosed) = Len(c) BY <1>10, <1>18, PatchLen
<1> QED BY <1>10, <1>12, <1>17, <1>18, <1>19

LEMMA OutsideSlotted ==
  ASSUME NEW n, Slotted(map, n) PROVE Slotted(Outside, n)
<1>1. /\ DOMAIN map \subseteq Names /\ map \in [DOMAIN map -> Nat]
      /\ \A x \in DOMAIN map : map[x] < n
  BY SlotsAre DEF Slotted
<1> QED BY <1>1, SlotsAre DEF Slotted, Outside, Without

\* Nothing is emitted after the end.
LEMMA RegionEnds ==
  ASSUME Inv, BalanceInv, status = "emitting", open # << >>, NEW s \in DOMAIN locals,
         code' \in Seq(Instruction), Here <= Len(code'), NEW P, NEW R, Shelter(code', P, s, R),
         Leaves(s, R, Len(code')), P \subseteq Waiting(open'),
         map' = Outside, locals' = locals, ScopesKept, JumpsFollow, StartsKept
  PROVE  Sheltered(s)'
<1>1. PICK c \in Seq(Instruction) : c = code' BY Zenon
<1>2. PICK e \in Seq(Instruction) : e = << >> BY NoCode, Zenon
<1>3. code' = c \o e /\ Len(e) = 0 BY <1>1, <1>2
<1>5. \A b \in 0..(Len(e) - 1) :
        /\ At(e, b).op = "GET_LOCAL" => \E x \in DOMAIN Outside : At(e, b).arg = Outside[x]
        /\ At(e, b).op \in Jumps => Len(c) + b \in Waiting(open')
  BY <1>3
<1> QED BY <1>1, <1>3, <1>5, RegionStays

LEMMA ClosingShelters ==
  ASSUME Inv, ShelterInv, status = "emitting", chunk' = chunk, UNCHANGED <<locals, hoisted>>,
         \A s \in DOMAIN locals : ~Exempt(s) /\ Sheltered(s) => Sheltered(s)'
  PROVE  ShelterInv'
<1>1. ASSUME NEW s \in DOMAIN locals PROVE Exempt(s)' \/ Sheltered(s)'
  <2>1. CASE Exempt(s) BY <2>1, ExemptStays
  <2>2. CASE ~Exempt(s) BY <2>2 DEF ShelterInv
  <2> QED BY <2>1, <2>2
<1> QED BY <1>1 DEF ShelterInv

LEMMA ShelterElse ==
  ASSUME Inv, BalanceInv, ShelterInv, Else \/ ElseIf, status' = "emitting" PROVE ShelterInv'
<1>1. Emitting({"then"}) /\ chunk' = chunk BY DEF Else, ElseIf
<1>2. status = "emitting" /\ open # << >> /\ Top(open).kind = "then" BY <1>1, TopOf
<1>3. PICK P : P = Waiting(Below(open)) \cup Ends OBVIOUS
<1>4. /\ ThenClosed \in Seq(Instruction) /\ Len(ThenClosed) = Here + 1 /\ Here \in Nat
      /\ Slotted(map, Len(locals)) /\ Ends \subseteq Waits(Top(open)) \cup {Here}
  BY <1>2, ThenWorks, Emitted DEF Waits, Ends
<1>5. ASSUME NEW s \in DOMAIN locals, ~Exempt(s), Sheltered(s)
      PROVE  \E R : Shelter(ThenClosed, P, s, R) /\ Leaves(s, R, Len(ThenClosed))
  BY <1>2, <1>3, <1>5, ThenRegion
<1>6. CASE Else
  <2> DEFINE b == Opened("else", 0, 0, Ends)
  <2>1. /\ code' = ThenClosed /\ open' = Append(Below(open), b) /\ map' = Outside
        /\ scopes' = scope_push(Below(scopes)) /\ UNCHANGED <<locals, hoisted>>
    BY <1>6 DEF Else
  <2>2. Waits(b) = Ends /\ b.start = 0 BY OpenedIs DEF Waits
  <2> HIDE DEF b
  <2>3. JumpsFollow /\ StartsKept BY <1>2, <1>4, <2>1, <2>2, FramesGoOn
  <2>4. ScopesKept BY <1>2, <2>1, ScopesLeft
  <2>5. P \subseteq Waiting(open') BY <1>2, <1>3, <2>1, <2>2, WaitingOpened
  <2>6. ASSUME NEW s \in DOMAIN locals, ~Exempt(s), Sheltered(s) PROVE Sheltered(s)'
    <3>1. PICK R : Shelter(ThenClosed, P, s, R) /\ Leaves(s, R, Len(ThenClosed)) BY <1>5, <2>6
    <3>2. code' \in Seq(Instruction) /\ Here <= Len(code') BY <1>4, <2>1
    <3>3. Shelter(code', P, s, R) /\ Leaves(s, R, Len(code')) BY <2>1, <3>1
    <3> QED BY <1>2, <2>1, <2>3, <2>4, <2>5, <3>2, <3>3, RegionEnds
  <2> QED BY <1>1, <1>2, <2>1, <2>6, ClosingShelters
<1>7. CASE ElseIf
  <2>1. PICK cond \in Operands :
          /\ Known(Outside, cond) /\ code' = ThenClosed \o Test(Outside, cond)
          /\ open' = Append(Below(open), Opened("then", Here + 2, 0, Ends))
          /\ map' = Outside /\ scopes' = scope_push(Below(scopes))
          /\ UNCHANGED <<locals, hoisted>>
    BY <1>7, Zenon DEF ElseIf, Fail
  <2> DEFINE b == Opened("then", Here + 2, 0, Ends)
  <2>2. Waits(b) = Ends \cup {Here + 2} /\ b.start = 0 BY OpenedIs DEF Waits
  <2> HIDE DEF b
  <2>3. open' = Append(Below(open), b) BY <2>1 DEF b
  <2>4. JumpsFollow /\ StartsKept BY <1>2, <1>4, <2>2, <2>3, FramesGoOn
  <2>5. ScopesKept BY <1>2, <2>1, ScopesLeft
  <2>6. P \subseteq Waiting(open') /\ Here + 2 \in Waiting(open')
    BY <1>2, <1>3, <2>2, <2>3, WaitingOpened
  <2>7. PICK e : e = Test(Outside, cond) OBVIOUS
  <2>8. PICK m : m = Outside OBVIOUS
  <2>9. /\ e \in Seq(Instruction) /\ Len(e) = 2
        /\ \A i \in 0..(Len(e) - 1) :
             /\ At(e, i).op = "GET_LOCAL" => \E x \in DOMAIN m : At(e, i).arg = m[x]
             /\ At(e, i).op \in Jumps => i = 1
    <3>1. Slotted(m, Len(locals)) /\ Known(m, cond) /\ e = Test(m, cond)
      BY <1>4, <2>1, <2>7, <2>8, OutsideSlotted
    <3> QED BY <3>1, TestReads
  <2>10. \A i \in 0..(Len(e) - 1) :
           /\ At(e, i).op = "GET_LOCAL" => \E x \in DOMAIN Outside : At(e, i).arg = Outside[x]
           /\ At(e, i).op \in Jumps => Len(ThenClosed) + i \in Waiting(open')
    BY <1>4, <2>6, <2>8, <2>9
  <2>11. PICK c \in Seq(Instruction) : c = ThenClosed BY <1>4, Zenon
  <2>12. ASSUME NEW s \in DOMAIN locals, ~Exempt(s), Sheltered(s) PROVE Sheltered(s)'
    <3>1. PICK R : Shelter(c, P, s, R) /\ Leaves(s, R, Len(c)) BY <1>5, <2>11, <2>12
    <3>2. Here <= Len(c) /\ code' = c \o e BY <1>4, <2>1, <2>7, <2>11
    <3>3. \A i \in 0..(Len(e) - 1) :
           /\ At(e, i).op = "GET_LOCAL" => \E x \in DOMAIN Outside : At(e, i).arg = Outside[x]
           /\ At(e, i).op \in Jumps => Len(c) + i \in Waiting(open')
      BY <2>10, <2>11, Zenon
    <3> QED BY <1>2, <2>1, <2>4, <2>5, <2>6, <2>9, <2>11, <3>1, <3>2, <3>3, RegionStays
  <2> QED BY <1>1, <1>2, <2>1, <2>12, ClosingShelters
<1> QED BY <1>6, <1>7

LEMMA ShelterCloses ==
  ASSUME Inv, BalanceInv, ShelterInv, EndIf \/ EndWhile \/ EndFor PROVE ShelterInv'
<1>1. PICK kinds : Emitting(kinds) /\ kinds \subseteq BlockKinds
  BY DEF EndIf, EndWhile, EndFor, BlockKinds, LoopKinds
<1>2. /\ status = "emitting" /\ open # << >> /\ open' = Below(open) /\ chunk' = chunk
      /\ map' = Outside /\ scopes' = Below(scopes) /\ UNCHANGED <<locals, hoisted>>
  BY <1>1, TopOf DEF BlockKinds, LoopKinds, EndIf, EndWhile, EndFor, Close
<1>3. JumpsFollow /\ StartsKept /\ ScopesKept BY <1>2, FramesClosed, ScopesLeft
<1>4. /\ code \in Seq(Instruction) /\ Here = Len(code) /\ Here \in Nat /\ open \in Seq(Block)
      /\ Works(code, Waiting(open), 0, Len(locals))
      /\ Waiting(open) = Waiting(Below(open)) \cup Waits(Top(open))
  BY <1>2, Emitted, WaitingTop
<1>5. ASSUME NEW s \in DOMAIN locals, ~Exempt(s), Sheltered(s),
             code' \in Seq(Instruction), Here <= Len(code'),
             \E R : Shelter(code', Waiting(Below(open)), s, R) /\ Leaves(s, R, Len(code'))
      PROVE  Sheltered(s)'
  <2>1. PICK R : Shelter(code', Waiting(Below(open)), s, R) /\ Leaves(s, R, Len(code')) BY <1>5
  <2>2. PICK P : P = Waiting(Below(open)) OBVIOUS
  <2>3. P \subseteq Waiting(open') /\ Shelter(code', P, s, R) BY <1>2, <2>1, <2>2
  <2> QED BY <1>2, <1>3, <1>5, <2>1, <2>3, RegionEnds
<1>6. ASSUME NEW s \in DOMAIN locals, ~Exempt(s), Sheltered(s) PROVE Sheltered(s)'
  <2>1. CASE EndIf /\ Emitting({"then"}) /\ code' = Patch(ThenClosed, Ends, Here + 1)
    <3>1. Top(open).kind = "then" BY <1>2, <2>1 DEF Emitting
    <3>2. PICK P : P = Waiting(Below(open)) \cup Ends OBVIOUS
    <3>3. /\ Works(ThenClosed, P, 0, Len(locals)) /\ ThenClosed \in Seq(Instruction)
          /\ Len(ThenClosed) = Here + 1
      BY <1>2, <3>1, <3>2, ThenWorks
    <3>4. PICK R : Shelter(ThenClosed, P, s, R) /\ Leaves(s, R, Len(ThenClosed))
      BY <1>2, <1>6, <3>1, <3>2, ThenRegion
    <3>5. PICK Q : Q = Waiting(Below(open)) OBVIOUS
    <3>6. PICK ats : ats = Ends OBVIOUS
    <3>7. ats \subseteq P /\ ats \subseteq Waits(Top(open)) \cup {Here} /\ P \ ats \subseteq Q
      BY <3>1, <3>2, <3>5, <3>6 DEF Ends, Waits
    <3>8. PICK t : t = Len(ThenClosed) OBVIOUS
    <3>9. Shelter(Patch(ThenClosed, ats, t), Q, s, R)
      BY <1>2, <3>1, <3>3, <3>4, <3>7, <3>8, RegionPatched
    <3>10. code' = Patch(ThenClosed, ats, t) /\ t \in Int BY <1>4, <2>1, <3>3, <3>6, <3>8
    <3>11. code' \in Seq(Instruction) /\ Len(code') = Len(ThenClosed) BY <3>3, <3>10, PatchLen
    <3>12. Here <= Len(code') /\ Leaves(s, R, Len(code')) BY <1>4, <3>3, <3>4, <3>11
    <3> QED BY <1>5, <1>6, <3>5, <3>9, <3>10, <3>11, <3>12
  <2>2. CASE EndIf /\ Emitting({"else"}) /\ code' = Patch(code, Top(open).ends, Here)
    <3>1. Top(open).kind = "else" /\ Top(open).kind # "for" BY <1>2, <2>2 DEF Emitting
    <3>2. PICK P : P = Waiting(open) OBVIOUS
    <3>3. PICK j \in Seq(Instruction) : j = << >> BY NoCode, Zenon
    <3>4. JumpsBack(j, P) /\ code = code \o j BY <1>4, <3>3 DEF JumpsBack
    <3>5. PICK R : Shelter(code, P, s, R) /\ Leaves(s, R, Len(code))
      BY <1>2, <1>6, <3>2, <3>4, RegionLeft
    <3>6. PICK Q : Q = Waiting(Below(open)) OBVIOUS
    <3>7. PICK ats : ats = Top(open).ends OBVIOUS
    <3>8. ats \subseteq P /\ ats \subseteq Waits(Top(open)) \cup {Here} /\ P \ ats \subseteq Q
      BY <1>4, <3>1, <3>2, <3>6, <3>7 DEF Waits
    <3>9. PICK t : t = Len(code) OBVIOUS
    <3>10. Works(code, P, 0, Len(locals)) BY <1>4, <3>2
    <3>11. Shelter(Patch(code, ats, t), Q, s, R)
      BY <1>2, <3>1, <3>5, <3>8, <3>9, <3>10, RegionPatched
    <3>12. code' = Patch(code, ats, t) /\ t \in Int BY <1>4, <2>2, <3>7, <3>9
    <3>13. code' \in Seq(Instruction) /\ Len(code') = Len(code) BY <1>4, <3>12, PatchLen
    <3>14. Here <= Len(code') /\ Leaves(s, R, Len(code')) BY <1>4, <3>5, <3>13
    <3> QED BY <1>5, <1>6, <3>6, <3>11, <3>12, <3>13, <3>14
  <2>3. CASE EndWhile \/ EndFor
    <3>1. Top(open).kind \in {"while", "step", "stepped"} /\ code' = LoopClosed
      BY <1>2, <2>3 DEF EndWhile, EndFor, Emitting
    <3>2. PICK P : P = Waiting(Below(open)) OBVIOUS
    <3>3. /\ \E R : Shelter(LoopClosed, P, s, R) /\ Leaves(s, R, Len(LoopClosed))
          /\ Len(LoopClosed) = Here + 1
      BY <1>2, <1>6, <3>1, <3>2, LoopRegion
    <3>4. LoopClosed \in Seq(Instruction) BY <1>2, <3>1, LoopWorks
    <3> QED BY <1>4, <1>5, <1>6, <3>1, <3>2, <3>3, <3>4
  <2> QED BY <2>1, <2>2, <2>3 DEF EndIf
<1> QED BY <1>2, <1>6, ClosingShelters

\* The body of a FOR ends; its step has names of the scope around.
LEMMA ShelterBodyEnd ==
  ASSUME Inv, BalanceInv, ShelterInv, ForBodyEnd PROVE ShelterInv'
<1>1. Emitting({"for"}) /\ chunk' = chunk BY DEF ForBodyEnd
<1>2. status = "emitting" /\ open # << >> /\ Top(open).kind = "for" /\ Top(open) \in Block
  BY <1>1, TopOf
<1>3. code \in Seq(Instruction) /\ Here = Len(code) /\ Here \in Nat /\ open \in Seq(Block)
  BY <1>2, Emitted
<1> DEFINE b == [Top(open) EXCEPT !.kind = "step"]
<1>4. /\ open' = Append(Below(open), b) /\ map' = Outside /\ scopes' = Below(scopes)
      /\ UNCHANGED <<code, locals, hoisted>>
  BY DEF ForBodyEnd
<1>5. b.start = Top(open).start /\ Waits(b) = Waits(Top(open)) BY <1>2 DEF Waits, Block
<1> HIDE DEF b
<1>6. JumpsFollow /\ StartsKept BY <1>2, <1>4, <1>5, FramesGoOn
<1>7. ScopesKept BY <1>2, <1>4, ScopesLeft
<1>8. Waiting(open') = Waiting(open) BY <1>2, <1>3, <1>4, <1>5, WaitingTop, WaitingOpened
<1>9. ASSUME NEW s \in DOMAIN locals, ~Exempt(s), Sheltered(s) PROVE Sheltered(s)'
  <2>1. PICK P : P = Waiting(open) OBVIOUS
  <2>2. PICK j \in Seq(Instruction) : j = << >> BY NoCode, Zenon
  <2>3. JumpsBack(j, P) /\ code = code \o j BY <1>3, <2>2 DEF JumpsBack
  <2>4. PICK R : Shelter(code, P, s, R) /\ Leaves(s, R, Len(code))
    BY <1>2, <1>9, <2>1, <2>3, RegionLeft
  <2>5. Shelter(code', P, s, R) /\ Leaves(s, R, Len(code')) BY <1>4, <2>4
  <2>6. code' \in Seq(Instruction) /\ Here <= Len(code') /\ P \subseteq Waiting(open')
    BY <1>3, <1>4, <1>8, <2>1
  <2> QED BY <1>2, <1>4, <1>6, <1>7, <2>5, <2>6, RegionEnds
<1> QED BY <1>1, <1>2, <1>4, <1>9, ClosingShelters

-----------------------------------------------------------------------------
(* Every step keeps the slots sheltered. *)

LEMMA ShelteredRegion ==
  ASSUME Inv, BalanceInv, status = "emitting", NEW s, Sheltered(s)
  PROVE  \E R : Shelter(code, Waiting(open), s, R) /\ Settled(Here, R)
<1>1. Here \in Nat BY Emitted
<1>2. CASE \E lo, k : AliveAt(s, lo, k)
  <2>1. PICK lo, k : AliveAt(s, lo, k) BY <1>2
  <2>2. lo \in 1..Here /\ Shelter(code, Waiting(open), s, From(lo)) BY <2>1 DEF AliveAt
  <2> QED BY <1>1, <2>2, SettledIs
<1>3. CASE \E lo, hi : DeadAt(s, lo, hi)
  <2>1. PICK lo, hi : DeadAt(s, lo, hi) BY <1>3
  <2>2. lo \in 1..Here /\ hi \in 0..Here /\ Shelter(code, Waiting(open), s, lo..(hi - 1))
    BY <2>1 DEF DeadAt
  <2> QED BY <1>1, <2>2, SettledIs
<1> QED BY <1>2, <1>3 DEF Sheltered

LEMMA ShelterEnds ==
  ASSUME Inv, BalanceInv, ShelterInv, EndChunk PROVE ShelterInv' /\ EndShelterInv'
<1>1. /\ status = "emitting" /\ status' = "emitted" /\ Emitting({"list"})
      /\ code' = code \o Return /\ UNCHANGED <<chunk, locals, hoisted>>
  BY DEF EndChunk, Emitting, Return
<1>2. Waiting(open) = {}
  <2>1. CASE open # << >>
    <3>1. Top(open) \in Block /\ Top(open).kind = "list"
      BY <1>1, <2>1, Typed, BelowIsSeq DEF Emitting
    <3> QED BY <3>1 DEF Block, BlockKinds, LoopKinds
  <2> QED BY <2>1 DEF Waiting
<1>3. code \in Seq(Instruction) /\ Here = Len(code) BY <1>1, Emitted
<1>4. /\ Return \in Seq(Instruction) /\ Len(Return) = 3
      /\ Return[1] = I("PUSH_NULL", 0) /\ Return[2] = I("RET", 0) /\ Return[3] = I("HALT", 0)
  BY DEF Return, I, Instruction, Opcodes
<1>5. PICK e : e = Return OBVIOUS
<1>6. ASSUME NEW b \in 0..(Len(e) - 1)
      PROVE  At(e, b).op # "GET_LOCAL" /\ At(e, b).op \notin Jumps
  <2>1. b + 1 = 1 \/ b + 1 = 2 \/ b + 1 = 3
    <3>1. Len(e) = 3 BY <1>4, <1>5
    <3>2. b \in 0..2 BY <3>1
    <3> QED BY <3>2
  <2> QED BY <1>4, <1>5, <2>1 DEF At, I, Jumps
<1>7. ASSUME NEW s \in DOMAIN locals PROVE Exempt(s)' \/ \E R : Shelter(code', {}, s, R)
  <2>1. CASE Exempt(s) BY <1>1, <2>1, ExemptStays
  <2>2. CASE Sheltered(s)
    <3>1. PICK R : Shelter(code, {}, s, R) /\ Settled(Len(code), R)
      BY <1>1, <1>2, <1>3, <2>2, ShelteredRegion
    <3>2. PICK Q : Q = {} OBVIOUS
    <3>3. \A b \in 0..(Len(e) - 1) : At(e, b) # I("GET_LOCAL", s - 1) BY <1>6 DEF I
    <3>4. e \in Seq(Instruction) /\ Shelter(code, Q, s, R) /\ Q \subseteq Q
      BY <1>4, <1>5, <3>1, <3>2
    <3>5. Shelter(code \o e, Q, s, R) BY <1>3, <1>6, <3>1, <3>3, <3>4, ShelterOn
    <3> QED BY <1>1, <1>5, <3>2, <3>5
  <2> QED BY <1>1, <2>1, <2>2 DEF ShelterInv
<1>8. EndShelterInv' BY <1>1, <1>7 DEF EndShelterInv
<1> QED BY <1>1, <1>8 DEF ShelterInv

\* A chunk begins with its parameters.
LEMMA AllExempt ==
  ASSUME locals \in Seq(Names), locals = Params, status = "emitting"
  PROVE  ShelterInv /\ EndShelterInv
<1> QED BY DEF ShelterInv, EndShelterInv, Finished, Exempt

AllExemptBegins ==
  locals \in Seq(Names) /\ locals = Params /\ status = "emitting" => ShelterInv /\ EndShelterInv

LEMMA Exempted == AllExemptBegins
  BY AllExempt DEF AllExemptBegins

ShelteredInv == BalancedInv /\ ShelterInv /\ EndShelterInv

LEMMA InitSheltered == Init => ShelteredInv
<1> SUFFICES ASSUME Init PROVE ShelteredInv OBVIOUS
<1>1. BalancedInv BY InitBalanced
<1>2. locals \in Seq(Names) /\ locals = Functions[1] /\ chunk = 1 /\ status = "emitting"
  BY EmitterAssumption DEF Init
<1>3. Params = Functions[1] BY <1>2, EmitterAssumption DEF Module, Params
<1> QED BY <1>1, <1>2, <1>3, Exempted DEF AllExemptBegins, ShelteredInv

LEMMA NextSheltered == ShelteredInv /\ [Next]_vars => ShelteredInv'
<1> SUFFICES ASSUME BalancedInv, ShelterInv, EndShelterInv, [Next]_vars
             PROVE  BalancedInv' /\ ShelterInv' /\ EndShelterInv'
  BY DEF ShelteredInv
<1>1. BalancedInv' /\ Inv /\ BalanceInv /\ Inv' BY NextBalanced DEF BalancedInv
<1>2. CASE \/ Statement \/ If \/ Else \/ ElseIf \/ EndIf \/ While \/ EndWhile
           \/ For \/ ForInit \/ ForLimit \/ ForBodyEnd \/ ForStep \/ EndFor
  <2>1. status' \in {"emitting"} \cup Errors BY <1>1, <1>2, StaysUnfinished
  <2>2. CASE status' = "emitting"
    <3>1. ShelterInv'
      BY <1>1, <1>2, <2>2, ShelterStatement, ShelterOpens, ShelterElse, ShelterCloses,
         ShelterBodyEnd
    <3>2. ~Finished' BY <2>2 DEF Finished
    <3> QED BY <1>1, <3>1, <3>2 DEF EndShelterInv
  <2>3. CASE status' \in Errors BY <1>1, <2>3 DEF Finished, Errors, ShelterInv, EndShelterInv
  <2> QED BY <2>1, <2>2, <2>3
<1>3. CASE EndChunk BY <1>1, <1>3, ShelterEnds
<1>4. CASE NextChunk
  <2>1. /\ status' = "emitting" /\ chunk' = chunk + 1
        /\ locals' = (IF chunk + 1 = Module THEN << >> ELSE Functions[chunk + 1])
    BY <1>4 DEF NextChunk, Begin
  <2>3. locals' \in Seq(Names) BY <1>1 DEF Inv, NameInv, NameTypes
  <2>4. AllExemptBegins' BY Exempted, PTL
  <2> QED BY <1>1, <2>1, <2>3, <2>4 DEF AllExemptBegins, Params, Module
<1>5. CASE UNCHANGED vars
  <2>1. UNCHANGED <<chunk, code, map, locals, scopes, loops, open, status, source, hoisted>>
    BY <1>5 DEF vars, context
  <2>2. Waiting(open)' = Waiting(open) BY <2>1
  <2>4. \A s : Exempt(s)' <=> Exempt(s) BY <2>1 DEF Exempt, Params, Module
  <2>5. \A lo, k : Around(lo, k)' <=> Around(lo, k) BY <2>1 DEF Around, ScopeOf, OpenOf
  <2>7. \A s, lo, hi : DeadAt(s, lo, hi)' <=> DeadAt(s, lo, hi) BY <2>1, <2>2 DEF DeadAt, Here
  <2>8. \A s : Sheltered(s)' <=> Sheltered(s) BY <2>1, <2>2, <2>5, <2>7 DEF Sheltered, AliveAt, Here
  <2>9. ShelterInv' BY <2>1, <2>4, <2>8 DEF ShelterInv
  <2>10. EndShelterInv' BY <2>1, <2>4 DEF EndShelterInv, Finished
  <2> QED BY <1>1, <2>9, <2>10
<1> QED BY <1>2, <1>3, <1>4, <1>5 DEF Next

\* Control comes into the part where a slot may be read by storing it.
LEMMA FinishedReads ==
  ASSUME Inv, EndShelterInv PROVE StoredBeforeRead
<1> SUFFICES ASSUME Finished, NEW s \in DOMAIN locals, ~Exempt(s)
             PROVE  LET stores == {a \in Addresses : At(code, a) = I("SET_LOCAL", s - 1)} IN
                    \A a \in Reached(stores) \cap Addresses :
                      At(code, a) = I("GET_LOCAL", s - 1) => ReadsItself(a)
  BY DEF StoredBeforeRead, Exempt
<1> DEFINE stores == {a \in Addresses : At(code, a) = I("SET_LOCAL", s - 1)}
<1>1. PICK R : Shelter(code, {}, s, R) BY DEF EndShelterInv
<1>2. code \in Seq(Instruction) /\ Here = Len(code) BY DEF Inv, NameInv, NameTypes, Here
<1>3. Addresses = 0..(Len(code) - 1) BY <1>2 DEF Addresses
<1> DEFINE S == Int \ R
<1>4. 0 \in S BY <1>1 DEF Shelter
<1>5. ASSUME NEW a \in (S \ stores) \cap Addresses PROVE Successors(a) \subseteq S
  <2>1. a \in 0..(Len(code) - 1) /\ a \notin R /\ At(code, a) # I("SET_LOCAL", s - 1) BY <1>3, <1>5
  <2>2. a + 1 \in S BY <1>1, <2>1 DEF Shelter
  <2>3. At(code, a).op \in Jumps => JumpTarget(code, a) \in S
    <3>1. At(code, a) \in Instruction BY <1>2, <2>1, AtType
    <3>2. JumpTarget(code, a) \in Int BY <2>1, <3>1 DEF JumpTarget, Instruction
    <3> QED BY <1>1, <2>1, <3>2 DEF Shelter
  <2>4. "JMP" \in Jumps /\ "JMP_IF_FALSE" \in Jumps BY DEF Jumps
  <2> HIDE DEF S
  <2> QED BY <2>2, <2>3, <2>4 DEF Successors
<1>6. ReachedFrom({0}, stores) \subseteq S
  <2> HIDE DEF S, stores
  <2>1. {0} \in SUBSET S BY <1>4
  <2> QED BY <1>2, <1>5, <2>1, ReachedWithin
<1>7. ASSUME NEW a \in Reached(stores) \cap Addresses, At(code, a) = I("GET_LOCAL", s - 1)
      PROVE  ReadsItself(a)
  BY <1>1, <1>3, <1>6, <1>7 DEF Reached, Shelter, I, ReadsItself
<1> QED BY <1>7

\* Whatever the program, on every path through a finished chunk a variable that no
\* SLET hoists has been given a value before it is read: branches, loops, VOID and
\* redeclaration included (emit.c:100-210, 380-660).
THEOREM ReadsFindValues == Spec => []StoredBeforeRead
<1>1. ShelteredInv => StoredBeforeRead BY FinishedReads DEF ShelteredInv, BalancedInv
<1> QED BY <1>1, InitSheltered, NextSheltered, PTL DEF Spec
-----------------------------------------------------------------------------
(* Where control goes, in the words of the text. *)

Stops == {"RET", "HALT"}
Branches == {"if", "elseif", "while", "for"}
Openers == {"if", "while", "for"}
Closers == {"endif", "endwhile", "endfor"}

\* How many statements with blocks are open after the k-th mark.
Level(src, k) ==
  Cardinality({x \in 1..k : src[x].kind \in Openers})
    - Cardinality({x \in 1..k : src[x].kind \in Closers})

\* The nearest mark of some kind, after or before another, at the same level.
Follows(src, k, kinds, j) ==
  /\ j \in (k + 1)..Len(src) /\ src[j].kind \in kinds /\ Level(src, j - 1) = Level(src, k)
  /\ \A x \in (k + 1)..(j - 1) : ~(src[x].kind \in kinds /\ Level(src, x - 1) = Level(src, k))
Precedes(src, j, kinds, i) ==
  /\ i \in 1..(j - 1) /\ src[i].kind \in kinds /\ Level(src, j - 1) = Level(src, i)
  /\ \A x \in (i + 1)..(j - 1) : ~(src[x].kind \in kinds /\ Level(src, j - 1) = Level(src, x))

\* Where the code of the k-th mark begins; that of the last ends at n.
Place(src, n, k) == IF k > Len(src) THEN n ELSE src[k].at

\* Code through which control passes in the order of the addresses.
Quiet(c, lo, hi) == \A x \in lo..(hi - 1) : At(c, x).op \notin Jumps \cup Stops

\* The code of a mark: the last instruction of a condition jumps, and the first
\* of an ELSE; a RETURN stops.
Piece(c, kind, a, b) ==
  /\ a <= b
  /\ kind \in Openers => a + 2 <= b /\ Quiet(c, a, b - 1) /\ At(c, b - 1).op = "JMP_IF_FALSE"
  /\ kind = "elseif" => /\ a + 3 <= b /\ Quiet(c, a + 1, b - 1) /\ At(c, b - 1).op = "JMP_IF_FALSE"
                        /\ At(c, a).op = "JMP"
  /\ kind \in {"else", "endwhile", "endfor"} => b = a + 1 /\ At(c, a).op = "JMP"
  /\ kind = "endif" => b = a \/ (b = a + 1 /\ At(c, a) = I("JMP", 0))
  /\ kind = "step" => b = a
  /\ kind = "RETURN" => b = a + 2 /\ Quiet(c, a, a + 1) /\ At(c, a + 1).op = "RET"
  /\ kind \notin Branches \cup Closers \cup {"else", "step", "RETURN"} => Quiet(c, a, b)

Pieces(c, src, n) ==
  /\ Place(src, n, 1) = 0
  /\ \A k \in DOMAIN src : Piece(c, src[k].kind, src[k].at, Place(src, n, k + 1))
  /\ \A k \in DOMAIN src, j \in 1..(Len(src) + 1) : k < j => Place(src, n, k + 1) <= Place(src, n, j)

\* What ends the block after a condition, and what an end goes back to.
Ending(kind) ==
  CASE kind = "while" -> {"endwhile"} [] kind = "for" -> {"endfor"}
    [] OTHER -> {"else", "elseif", "endif"}
OpenedBy(kind) == IF kind = "endwhile" THEN {"while"} ELSE {"for"}

\* Jumps that lead where they should.
TestLeads(c, src, n, k) ==
  \E j \in DOMAIN src :
    /\ Follows(src, k, Ending(src[k].kind), j)
    /\ JumpTarget(c, Place(src, n, k + 1) - 1)
         = (IF src[j].kind = "elseif" THEN src[j].at + 1 ELSE Place(src, n, j + 1))
SkipLeads(c, src, n, k) ==
  \E j \in DOMAIN src : Follows(src, k, {"endif"}, j) /\ JumpTarget(c, src[k].at) = Place(src, n, j + 1)
BackLeads(c, src, k) ==
  \E i \in DOMAIN src : Precedes(src, k, OpenedBy(src[k].kind), i) /\ JumpTarget(c, src[k].at) = src[i].at

\* Jumps that the d-th open statement b is to patch.
Tester(kind) ==
  CASE kind = "then" -> {"if", "elseif"} [] kind = "while" -> {"while"}
    [] kind \in {"for", "step", "stepped"} -> {"for"} [] OTHER -> {}
TestWaits(src, n, b, d, k) ==
  /\ src[k].kind \in Tester(b.kind) /\ b.test = Place(src, n, k + 1) - 1
  /\ b.kind # "then" => b.start = src[k].at
  /\ Level(src, k) = d
  /\ \A x \in (k + 1)..Len(src) :
       Level(src, x) >= d /\ (Level(src, x) = d => src[x].kind \notin {"else", "elseif"})
SkipWaits(src, b, d, k) ==
  /\ src[k].kind \in {"else", "elseif"} /\ b.kind \in {"then", "else"} /\ src[k].at \in b.ends
  /\ Level(src, k) = d /\ \A x \in (k + 1)..Len(src) : Level(src, x) >= d

\* A jump of the code is one or the other.
Tests(c, src, n, blocks) ==
  \A k \in DOMAIN src : src[k].kind \in Branches =>
    TestLeads(c, src, n, k) \/ \E d \in DOMAIN blocks : TestWaits(src, n, blocks[d], d, k)
Skips(c, src, n, blocks) ==
  \A k \in DOMAIN src : src[k].kind \in {"else", "elseif"} =>
    SkipLeads(c, src, n, k) \/ \E d \in DOMAIN blocks : SkipWaits(src, blocks[d], d, k)
Backs(c, src) ==
  \A k \in DOMAIN src : src[k].kind \in {"endwhile", "endfor"} => BackLeads(c, src, k)

\* The open statements: which marks they stand for, and how deep the text is in them.
Height(blocks) ==
  IF blocks # << >> /\ Top(blocks).kind \in {"init", "limit"} THEN Len(blocks) - 1 ELSE Len(blocks)
Holds(src, n, b, d) ==
  /\ b.kind \in {"then", "while", "for", "step", "stepped"} =>
       \E k \in DOMAIN src : TestWaits(src, n, b, d, k)
  /\ b.kind \in {"then", "else"} =>
       \A e \in b.ends : \E k \in DOMAIN src : SkipWaits(src, b, d, k) /\ src[k].at = e
  /\ b.kind = "limit" => b.start = n
Holders(src, n, blocks) ==
  /\ Level(src, Len(src)) = Height(blocks)
  /\ \A d \in DOMAIN blocks : /\ Holds(src, n, blocks[d], d)
                              /\ d < Len(blocks) => blocks[d].kind \notin {"init", "limit"}

FlowText(c, src, n, blocks) ==
  Pieces(c, src, n) /\ Tests(c, src, n, blocks) /\ Skips(c, src, n, blocks) /\ Backs(c, src)
    /\ Holders(src, n, blocks)

FlowInv == status = "emitting" => FlowText(code, source, Here, open)

-----------------------------------------------------------------------------
(* How deep the text is *)

Marks(src, kinds, k) == {x \in 1..k : src[x].kind \in kinds}

LEMMA MarksCount ==
  ASSUME NEW src, NEW kinds, NEW k \in Nat
  PROVE  /\ IsFiniteSet(Marks(src, kinds, k)) /\ Cardinality(Marks(src, kinds, k)) \in Nat
         /\ Cardinality(Marks(src, kinds, k + 1))
              = Cardinality(Marks(src, kinds, k)) + (IF src[k + 1].kind \in kinds THEN 1 ELSE 0)
<1>1. \A m \in Nat : IsFiniteSet(Marks(src, kinds, m)) /\ Cardinality(Marks(src, kinds, m)) \in Nat
  <2> SUFFICES ASSUME NEW m \in Nat
               PROVE  IsFiniteSet(Marks(src, kinds, m)) /\ Cardinality(Marks(src, kinds, m)) \in Nat
    OBVIOUS
  <2>1. IsFiniteSet(1..m) BY FS_Interval
  <2>2. Marks(src, kinds, m) \in SUBSET (1..m) BY DEF Marks
  <2> QED BY <2>1, <2>2, FS_Subset, FS_CardinalityType
<1>2. CASE src[k + 1].kind \in kinds
  <2>1. Marks(src, kinds, k + 1) = Marks(src, kinds, k) \cup {k + 1} /\ k + 1 \notin Marks(src, kinds, k)
    BY <1>2 DEF Marks
  <2> QED BY <1>1, <1>2, <2>1, FS_AddElement
<1>3. CASE src[k + 1].kind \notin kinds BY <1>1, <1>3 DEF Marks
<1> QED BY <1>1, <1>2, <1>3

\* What a mark does to the level.
Rise(kind) == IF kind \in Openers THEN 1 ELSE IF kind \in Closers THEN -1 ELSE 0

LEMMA LevelIs ==
  ASSUME NEW src, NEW k \in Nat
  PROVE  /\ Level(src, k) \in Int /\ Level(src, 0) = 0
         /\ Level(src, k + 1) = Level(src, k) + Rise(src[k + 1].kind)
<1>1. \A m : Level(src, m) = Cardinality(Marks(src, Openers, m)) - Cardinality(Marks(src, Closers, m))
  BY DEF Level, Marks
<1>2. Level(src, 0) = 0 BY <1>1, FS_EmptySet DEF Marks
<1>3. Openers \cap Closers = {} BY DEF Openers, Closers
<1> QED BY <1>1, <1>2, <1>3, MarksCount DEF Rise

\* A mark at the end changes nothing before it.
LEMMA LevelSame ==
  ASSUME NEW src, NEW tgt, NEW k, \A x \in 1..k : tgt[x].kind = src[x].kind
  PROVE  Level(tgt, k) = Level(src, k)
<1> QED BY DEF Level

\* The levels are what the marks between count.
LEMMA Between ==
  ASSUME NEW src, NEW kinds, NEW i \in Nat, NEW m \in Nat, i <= m
  PROVE  Cardinality({x \in (i + 1)..m : src[x].kind \in kinds})
           = Cardinality(Marks(src, kinds, m)) - Cardinality(Marks(src, kinds, i))
<1> DEFINE A == Marks(src, kinds, i)
           B == {x \in (i + 1)..m : src[x].kind \in kinds}
<1>1. Marks(src, kinds, m) = A \cup B /\ A \cap B = {} BY DEF Marks
<1>2. IsFiniteSet(A) /\ Cardinality(A) \in Nat BY MarksCount
<1>3. IsFiniteSet(B)
  <2>1. IsFiniteSet((i + 1)..m) /\ B \in SUBSET ((i + 1)..m) BY FS_Interval
  <2> QED BY <2>1, FS_Subset
<1>4. Cardinality(B) \in Nat BY <1>3, FS_CardinalityType
<1> HIDE DEF A, B
<1>5. Cardinality(A \cup B) = Cardinality(A) + Cardinality(B)
  BY <1>1, <1>2, <1>3, <1>4, FS_Union, FS_EmptySet
<1> QED BY <1>1, <1>2, <1>4, <1>5 DEF A, B

LEMMA InnerIs ==
  ASSUME NEW i \in Nat, NEW j \in Nat, i < j
  PROVE  Inner(i, j) = Level(source, j - 1) - Level(source, i)
<1>1. j - 1 \in Nat /\ i <= j - 1 OBVIOUS
<1>2. Inner(i, j) = Cardinality({x \in (i + 1)..(j - 1) : source[x].kind \in Openers})
                      - Cardinality({x \in (i + 1)..(j - 1) : source[x].kind \in Closers})
  BY DEF Inner, Kind, Openers, Closers
<1>3. \A kinds : Cardinality({x \in (i + 1)..(j - 1) : source[x].kind \in kinds})
        = Cardinality(Marks(source, kinds, j - 1)) - Cardinality(Marks(source, kinds, i))
  BY <1>1, Between
<1>4. \A kinds, m : m \in Nat => Cardinality(Marks(source, kinds, m)) \in Nat BY MarksCount
<1>5. \A m : Level(source, m)
        = Cardinality(Marks(source, Openers, m)) - Cardinality(Marks(source, Closers, m))
  BY DEF Level, Marks
<1> QED BY <1>1, <1>2, <1>3, <1>4, <1>5

-----------------------------------------------------------------------------
(* A mark is added. *)

\* The text is one mark longer, and the code too; only jumps at W are patched.
Written(c, d, W, src, tgt, m) ==
  /\ c \in Seq(Instruction) /\ d \in Seq(Instruction) /\ Len(c) <= Len(d)
  /\ \A a \in 0..(Len(c) - 1) : At(d, a).op = At(c, a).op /\ (a \notin W => At(d, a) = At(c, a))
  /\ src \in Seq(Mark) /\ m \in Mark /\ m.at = Len(c) /\ tgt = Append(src, m)

LEMMA WrittenText ==
  ASSUME NEW c, NEW d, NEW W, NEW src, NEW tgt, NEW m, Written(c, d, W, src, tgt, m)
  PROVE  LET L == Len(src) IN
         /\ L \in Nat /\ Len(c) \in Nat /\ Len(d) \in Nat
         /\ DOMAIN src = 1..L /\ DOMAIN tgt = 1..(L + 1) /\ Len(tgt) = L + 1
         /\ tgt \in Seq(Mark) /\ tgt[L + 1] = m /\ \A k \in 1..L : tgt[k] = src[k]
         /\ \A k \in 1..(L + 1) : Place(tgt, Len(d), k) = Place(src, Len(c), k)
         /\ Place(tgt, Len(d), L + 2) = Len(d)
         /\ \A k \in 0..L : Level(tgt, k) = Level(src, k)
         /\ Level(src, L) \in Int /\ Level(tgt, L + 1) = Level(src, L) + Rise(m.kind)
<1> DEFINE L == Len(src)
<1>1. /\ src \in Seq(Mark) /\ m \in Mark /\ m.at = Len(c) /\ tgt = Append(src, m)
      /\ Len(c) \in Nat /\ Len(d) \in Nat
  BY DEF Written
<1>2. /\ L \in Nat /\ DOMAIN src = 1..L /\ DOMAIN tgt = 1..(L + 1) /\ Len(tgt) = L + 1
      /\ tgt \in Seq(Mark) /\ tgt[L + 1] = m /\ \A k \in 1..L : tgt[k] = src[k]
  BY <1>1
<1> HIDE DEF L
<1>3. \A k \in 1..(L + 1) : Place(tgt, Len(d), k) = Place(src, Len(c), k)
  <2> SUFFICES ASSUME NEW k \in 1..(L + 1) PROVE Place(tgt, Len(d), k) = Place(src, Len(c), k)
    OBVIOUS
  <2>1. CASE k = L + 1 BY <1>1, <1>2, <2>1 DEF Place, L
  <2>2. CASE k \in 1..L BY <1>2, <2>2 DEF L, Place
  <2> QED BY <1>2, <2>1, <2>2
<1>4. Place(tgt, Len(d), L + 2) = Len(d) BY <1>2 DEF Place
<1>5. \A k \in 0..L : Level(tgt, k) = Level(src, k)
  <2> SUFFICES ASSUME NEW k \in 0..L PROVE Level(tgt, k) = Level(src, k) OBVIOUS
  <2> QED BY <1>2, LevelSame
<1>6. Level(src, L) \in Int /\ Level(tgt, L + 1) = Level(tgt, L) + Rise(m.kind) BY <1>2, LevelIs
<1>7. Level(tgt, L) = Level(src, L) BY <1>2, <1>5
<1> QED BY <1>1, <1>2, <1>3, <1>4, <1>5, <1>6, <1>7 DEF L

\* Marks that belong together still do.
LEMMA StillFollows ==
  ASSUME NEW c, NEW d, NEW W, NEW src, NEW tgt, NEW m, Written(c, d, W, src, tgt, m),
         NEW k \in DOMAIN src, NEW kinds, NEW j
  PROVE  /\ Follows(src, k, kinds, j) => Follows(tgt, k, kinds, j) /\ j \in DOMAIN src
         /\ Precedes(src, k, kinds, j) => Precedes(tgt, k, kinds, j) /\ j \in DOMAIN src
<1> DEFINE L == Len(src)
<1>1. /\ L \in Nat /\ Len(tgt) = L + 1 /\ k \in 1..L /\ DOMAIN src = 1..L
      /\ \A x \in 1..L : tgt[x] = src[x]
      /\ \A x \in 0..L : Level(tgt, x) = Level(src, x)
  BY WrittenText
<1> HIDE DEF L
<1>2. ASSUME Follows(src, k, kinds, j) PROVE Follows(tgt, k, kinds, j) /\ j \in DOMAIN src
  BY <1>1, <1>2 DEF Follows, L
<1>3. ASSUME Precedes(src, k, kinds, j) PROVE Precedes(tgt, k, kinds, j) /\ j \in DOMAIN src
  BY <1>1, <1>3 DEF Precedes
<1> QED BY <1>2, <1>3

LEMMA PlaceIs ==
  ASSUME NEW src \in Seq(Mark), NEW n \in Nat
  PROVE  /\ DOMAIN src = 1..Len(src) /\ Len(src) \in Nat
         /\ \A x \in DOMAIN src : src[x].at \in Nat /\ Place(src, n, x) = src[x].at
         /\ \A x \in 1..(Len(src) + 1) : Place(src, n, x) \in Nat
         /\ Place(src, n, Len(src) + 1) = n
<1>1. DOMAIN src = 1..Len(src) /\ Len(src) \in Nat /\ \A x \in DOMAIN src : src[x] \in Mark OBVIOUS
<1>4. \A x \in DOMAIN src : Place(src, n, x) = src[x].at BY <1>1 DEF Place
<1>5. Len(src) + 1 > Len(src) BY <1>1
<1>6. Place(src, n, Len(src) + 1) = n BY <1>5 DEF Place
<1>7. \A x \in 1..(Len(src) + 1) : x \in DOMAIN src \/ x = Len(src) + 1 BY <1>1
<1> QED BY <1>1, <1>4, <1>6, <1>7 DEF Mark

\* Each address belongs to one mark.
LEMMA OneMark ==
  ASSUME NEW c, NEW src \in Seq(Mark), NEW n \in Nat, Pieces(c, src, n),
         NEW k \in DOMAIN src, NEW j \in DOMAIN src, NEW a \in Int,
         src[k].at <= a, a < Place(src, n, k + 1), src[j].at <= a, a < Place(src, n, j + 1)
  PROVE  k = j
<1>1. /\ DOMAIN src = 1..Len(src) /\ Len(src) \in Nat
      /\ \A x \in DOMAIN src : src[x].at \in Nat /\ Place(src, n, x) = src[x].at
      /\ \A x \in 1..(Len(src) + 1) : Place(src, n, x) \in Nat
  BY PlaceIs
<1>2. \A x \in DOMAIN src : x + 1 \in 1..(Len(src) + 1) /\ x \in 1..(Len(src) + 1) BY <1>1
<1>3. \A x, y \in DOMAIN src : x < y => Place(src, n, x + 1) <= src[y].at BY <1>1, <1>2 DEF Pieces
<1>4. ~(k < j) BY <1>1, <1>2, <1>3
<1>5. ~(j < k) BY <1>1, <1>2, <1>3
<1> QED BY <1>1, <1>4, <1>5

\* Where a mark has its jumps.
JumpsAt(c, kind, a, b) ==
  /\ a \in Nat /\ b \in Nat /\ a <= b
  /\ kind \in Branches => a <= b - 1 /\ b - 1 < b /\ b - 1 \in Nat /\ At(c, b - 1).op = "JMP_IF_FALSE"
  /\ kind \in {"else", "elseif", "endwhile", "endfor"} => a < b /\ At(c, a).op = "JMP"
  /\ kind = "endif" /\ a # b => a < b /\ At(c, a) = I("JMP", 0) /\ At(c, a).op = "JMP"

LEMMA JumpsOf ==
  ASSUME NEW c, NEW src \in Seq(Mark), NEW n \in Nat, Pieces(c, src, n), NEW k \in DOMAIN src
  PROVE  /\ JumpsAt(c, src[k].kind, src[k].at, Place(src, n, k + 1))
         /\ Place(src, n, k + 1) <= n
<1> DEFINE a == src[k].at
           b == Place(src, n, k + 1)
<1>1. a \in Nat /\ b \in Nat /\ Len(src) \in Nat /\ k \in 1..Len(src)
  <2>1. k + 1 \in 1..(Len(src) + 1) OBVIOUS
  <2> QED BY <2>1, PlaceIs
<1>2. b <= n
  <2>2. b <= Place(src, n, Len(src) + 1) BY <1>1 DEF Pieces
  <2> QED BY <1>1, <2>2, PlaceIs
<1>3. Piece(c, src[k].kind, a, b) BY DEF Pieces
<1> HIDE DEF a, b
<1>4. a <= b BY <1>3 DEF Piece
<1>5. src[k].kind \in Branches =>
        a <= b - 1 /\ b - 1 < b /\ b - 1 \in Nat /\ At(c, b - 1).op = "JMP_IF_FALSE"
  BY <1>1, <1>3 DEF Piece, Branches, Openers
<1>6. src[k].kind \in {"else", "elseif", "endwhile", "endfor"} => a < b /\ At(c, a).op = "JMP"
  BY <1>1, <1>3 DEF Piece
<1>7. src[k].kind = "endif" /\ a # b => a < b /\ At(c, a) = I("JMP", 0) /\ At(c, a).op = "JMP"
  BY <1>1, <1>3 DEF Piece, I
<1> QED BY <1>1, <1>2, <1>4, <1>5, <1>6, <1>7 DEF a, b, JumpsAt

\* A jump that waits for its statement to end does not lead anywhere yet.
LEMMA WaitsOrLeads ==
  ASSUME NEW src \in Seq(Mark), NEW k \in DOMAIN src, NEW d
  PROVE  /\ \A n, b : TestWaits(src, n, b, d, k) =>
              src[k].kind \in Branches /\ ~\E j : Follows(src, k, Ending(src[k].kind), j)
         /\ \A b : SkipWaits(src, b, d, k) => ~\E j : Follows(src, k, {"endif"}, j)
<1>1. /\ DOMAIN src = 1..Len(src) /\ Len(src) \in Nat /\ k \in 1..Len(src)
      /\ \A x \in Nat : Level(src, x) \in Int
  BY LevelIs
<1>2. ASSUME NEW j, NEW kinds, Follows(src, k, kinds, j), Level(src, k) = d
      PROVE  /\ j \in (k + 1)..Len(src) /\ src[j].kind \in kinds
             /\ Level(src, j) = d + Rise(src[j].kind) /\ d \in Int
  <2>1. /\ j \in (k + 1)..Len(src) /\ src[j].kind \in kinds /\ Level(src, j - 1) = Level(src, k)
    BY <1>2 DEF Follows
  <2>2. j - 1 \in Nat /\ (j - 1) + 1 = j BY <1>1, <2>1
  <2>3. Level(src, (j - 1) + 1) = Level(src, j - 1) + Rise(src[(j - 1) + 1].kind) BY <2>2, LevelIs
  <2> QED BY <1>1, <1>2, <2>1, <2>2, <2>3
<1>3. ASSUME NEW n, NEW b, TestWaits(src, n, b, d, k)
      PROVE  src[k].kind \in Branches /\ ~\E j : Follows(src, k, Ending(src[k].kind), j)
  <2>1. /\ src[k].kind \in Tester(b.kind) /\ Level(src, k) = d
        /\ \A x \in (k + 1)..Len(src) :
             Level(src, x) >= d /\ (Level(src, x) = d => src[x].kind \notin {"else", "elseif"})
    BY <1>3 DEF TestWaits
  <2>2. src[k].kind \in Branches BY <2>1 DEF Tester, Branches
  <2>3. ASSUME NEW j, Follows(src, k, Ending(src[k].kind), j) PROVE FALSE
    <3>1. /\ j \in (k + 1)..Len(src) /\ src[j].kind \in Ending(src[k].kind)
          /\ Level(src, j) = d + Rise(src[j].kind) /\ d \in Int
      BY <1>2, <2>1, <2>3
    <3>3. CASE src[j].kind \in Closers BY <2>1, <3>1, <3>3 DEF Rise, Closers, Openers
    <3>4. CASE src[j].kind \in {"else", "elseif"} BY <2>1, <3>1, <3>4 DEF Rise, Closers, Openers
    <3> QED BY <2>2, <3>1, <3>3, <3>4 DEF Ending, Closers, Branches
  <2> QED BY <2>2, <2>3
<1>4. ASSUME NEW b, SkipWaits(src, b, d, k), NEW j, Follows(src, k, {"endif"}, j) PROVE FALSE
  BY <1>2, <1>4 DEF SkipWaits, Rise, Closers, Openers
<1> QED BY <1>3, <1>4

\* Jumps that the open statements have to patch.
Owned(W, src, n, blocks) ==
  \A w \in W : \E k \in DOMAIN src, t \in DOMAIN blocks :
    \/ TestWaits(src, n, blocks[t], t, k) /\ w = Place(src, n, k + 1) - 1
    \/ SkipWaits(src, blocks[t], t, k) /\ w = src[k].at

LEMMA LeadsElsewhere ==
  ASSUME NEW c \in Seq(Instruction), NEW src \in Seq(Mark), NEW n \in Nat, Pieces(c, src, n),
         NEW blocks, NEW W, Owned(W, src, n, blocks), NEW k \in DOMAIN src
  PROVE  /\ src[k].kind \in Branches /\ TestLeads(c, src, n, k) => Place(src, n, k + 1) - 1 \notin W
         /\ src[k].kind \in {"else", "elseif"} /\ SkipLeads(c, src, n, k) => src[k].at \notin W
         /\ src[k].kind \in {"endwhile", "endfor"} => src[k].at \notin W
         /\ src[k].kind = "endif" /\ src[k].at # Place(src, n, k + 1) => src[k].at \notin W
<1> DEFINE Skip == {"else", "elseif", "endwhile", "endfor"}
           E(x) == Place(src, n, x + 1)
           Jumping(x) == src[x].kind \in Skip \/ (src[x].kind = "endif" /\ src[x].at # E(x))
<1>1. \A x \in DOMAIN src :
        /\ src[x].at \in Nat /\ E(x) \in Nat
        /\ src[x].kind \in Branches =>
             src[x].at <= E(x) - 1 /\ E(x) - 1 < E(x) /\ E(x) - 1 \in Nat
               /\ At(c, E(x) - 1).op = "JMP_IF_FALSE"
        /\ Jumping(x) => src[x].at < E(x) /\ At(c, src[x].at).op = "JMP"
  <2> SUFFICES ASSUME NEW x \in DOMAIN src
               PROVE  /\ src[x].at \in Nat /\ E(x) \in Nat
                      /\ src[x].kind \in Branches =>
                           src[x].at <= E(x) - 1 /\ E(x) - 1 < E(x) /\ E(x) - 1 \in Nat
                             /\ At(c, E(x) - 1).op = "JMP_IF_FALSE"
                      /\ Jumping(x) => src[x].at < E(x) /\ At(c, src[x].at).op = "JMP"
    BY Zenon
  <2>1. JumpsAt(c, src[x].kind, src[x].at, E(x)) BY JumpsOf
  <2> HIDE DEF E
  <2> QED BY <2>1 DEF JumpsAt
<1>2. ASSUME NEW x \in DOMAIN src, NEW y \in DOMAIN src, NEW a \in Int,
             src[x].at <= a, a < E(x), src[y].at <= a, a < E(y)
      PROVE  x = y
  BY <1>2, OneMark
<1> HIDE DEF E
<1>3. ASSUME NEW w \in W
      PROVE  \E x \in DOMAIN src :
               \/ /\ src[x].kind \in Branches /\ w = E(x) - 1
                  /\ ~\E j : Follows(src, x, Ending(src[x].kind), j)
               \/ /\ src[x].kind \in {"else", "elseif"} /\ w = src[x].at
                  /\ ~\E j : Follows(src, x, {"endif"}, j)
  <2>1. PICK x \in DOMAIN src, t \in DOMAIN blocks :
          \/ TestWaits(src, n, blocks[t], t, x) /\ w = Place(src, n, x + 1) - 1
          \/ SkipWaits(src, blocks[t], t, x) /\ w = src[x].at
    BY DEF Owned
  <2> QED BY <2>1, WaitsOrLeads DEF E, SkipWaits
<1>4. ASSUME src[k].kind \in Branches, TestLeads(c, src, n, k), E(k) - 1 \in W PROVE FALSE
  <2>2. PICK x \in DOMAIN src :
               \/ /\ src[x].kind \in Branches /\ E(k) - 1 = E(x) - 1
                  /\ ~\E j : Follows(src, x, Ending(src[x].kind), j)
               \/ /\ src[x].kind \in {"else", "elseif"} /\ E(k) - 1 = src[x].at
    BY <1>3, <1>4
  <2>3. CASE src[x].kind \in Branches /\ E(k) - 1 = E(x) - 1
    <3>1. x = k BY <1>1, <1>2, <1>4, <2>3
    <3>2. ~\E j : Follows(src, k, Ending(src[k].kind), j)
      <4>1. CASE src[x].kind \in {"else", "elseif"} /\ E(k) - 1 = src[x].at BY <1>1, <1>4, <4>1
      <4> QED BY <2>2, <3>1, <4>1
    <3> QED BY <1>4, <3>2 DEF TestLeads
  <2>4. CASE src[x].kind \in {"else", "elseif"} /\ E(k) - 1 = src[x].at BY <1>1, <1>4, <2>4
  <2> QED BY <2>2, <2>3, <2>4
<1>5. ASSUME Jumping(k), src[k].at \in W
      PROVE  src[k].kind \in {"else", "elseif"} /\ ~\E j : Follows(src, k, {"endif"}, j)
  <2>1. PICK x \in DOMAIN src :
               \/ /\ src[x].kind \in Branches /\ src[k].at = E(x) - 1
               \/ /\ src[x].kind \in {"else", "elseif"} /\ src[k].at = src[x].at
                  /\ ~\E j : Follows(src, x, {"endif"}, j)
    BY <1>3, <1>5
  <2>2. CASE src[x].kind \in Branches /\ src[k].at = E(x) - 1 BY <1>1, <1>5, <2>2
  <2>3. CASE /\ src[x].kind \in {"else", "elseif"} /\ src[k].at = src[x].at
             /\ ~\E j : Follows(src, x, {"endif"}, j)
    <3>1. Jumping(x) BY <2>3
    <3>2. x = k BY <1>1, <1>2, <1>5, <2>3, <3>1
    <3> QED BY <2>3, <3>2
  <2> QED BY <2>1, <2>2, <2>3
<1>6. ASSUME src[k].kind \in {"else", "elseif"}, SkipLeads(c, src, n, k), src[k].at \in W PROVE FALSE
  BY <1>5, <1>6 DEF SkipLeads
<1>8. src[k].kind = "endif" /\ src[k].at # E(k) => src[k].at \notin W BY <1>5
<1> QED BY <1>4, <1>5, <1>6, <1>8 DEF E

LEMMA PieceKept ==
  ASSUME NEW c, NEW d, NEW W, NEW src, NEW tgt, NEW m, Written(c, d, W, src, tgt, m),
         NEW kind, NEW a \in Nat, NEW b \in Nat, b <= Len(c), Piece(c, kind, a, b),
         kind = "endif" /\ a # b => a \notin W
  PROVE  Piece(d, kind, a, b)
<1>1. /\ \A x \in 0..(Len(c) - 1) :
           At(d, x).op = At(c, x).op /\ (x \notin W => At(d, x) = At(c, x))
      /\ Len(c) \in Nat
  BY DEF Written
<1>2. ASSUME NEW lo \in Nat, NEW hi \in Int, hi <= Len(c), Quiet(c, lo, hi) PROVE Quiet(d, lo, hi)
  BY <1>1, <1>2 DEF Quiet
<1>3. /\ b - 1 \in Int /\ b - 1 <= Len(c) /\ a + 1 \in Nat
      /\ a + 2 <= b \/ a + 3 <= b => b - 1 \in 0..(Len(c) - 1) /\ a \in 0..(Len(c) - 1)
      /\ b = a + 1 => a \in 0..(Len(c) - 1)
      /\ b = a + 2 => a + 1 \in 0..(Len(c) - 1) /\ a + 1 <= Len(c)
  BY <1>1
<1>4. kind \in Openers => a + 2 <= b /\ Quiet(d, a, b - 1) /\ At(d, b - 1).op = "JMP_IF_FALSE"
  BY <1>1, <1>2, <1>3 DEF Piece
<1>5. kind = "elseif" => /\ a + 3 <= b /\ Quiet(d, a + 1, b - 1) /\ At(d, b - 1).op = "JMP_IF_FALSE"
                         /\ At(d, a).op = "JMP"
  BY <1>1, <1>2, <1>3 DEF Piece
<1>6. kind \in {"else", "endwhile", "endfor"} => b = a + 1 /\ At(d, a).op = "JMP"
  BY <1>1, <1>3 DEF Piece
<1>7. kind = "endif" => b = a \/ (b = a + 1 /\ At(d, a) = I("JMP", 0)) BY <1>1, <1>3 DEF Piece
<1>8. kind = "RETURN" => b = a + 2 /\ Quiet(d, a, a + 1) /\ At(d, a + 1).op = "RET"
  BY <1>1, <1>2, <1>3 DEF Piece
<1>9. kind \notin Branches \cup Closers \cup {"else", "step", "RETURN"} => Quiet(d, a, b)
  BY <1>2 DEF Piece
<1>10. a <= b /\ (kind = "step" => b = a) BY DEF Piece
<1> QED BY <1>4, <1>5, <1>6, <1>7, <1>8, <1>9, <1>10 DEF Piece

LEMMA PiecesKept ==
  ASSUME NEW c, NEW d, NEW W, NEW src, NEW tgt, NEW m, Written(c, d, W, src, tgt, m),
         NEW blocks, Owned(W, src, Len(c), blocks), Pieces(c, src, Len(c)),
         Piece(d, m.kind, Len(c), Len(d))
  PROVE  Pieces(d, tgt, Len(d))
<1> DEFINE n == Len(c)
           L == Len(src)
<1>1. /\ L \in Nat /\ n \in Nat /\ Len(d) \in Nat /\ n <= Len(d)
      /\ DOMAIN src = 1..L /\ DOMAIN tgt = 1..(L + 1) /\ Len(tgt) = L + 1
      /\ tgt[L + 1] = m /\ \A k \in 1..L : tgt[k] = src[k]
      /\ \A k \in 1..(L + 1) : Place(tgt, Len(d), k) = Place(src, n, k)
      /\ Place(tgt, Len(d), L + 2) = Len(d)
      /\ src \in Seq(Mark) /\ c \in Seq(Instruction) /\ m.at = n
  <2>1. n <= Len(d) /\ src \in Seq(Mark) /\ c \in Seq(Instruction) /\ m.at = n BY DEF Written
  <2> QED BY <2>1, WrittenText
<1>2. ASSUME NEW k \in 1..L
      PROVE  /\ Piece(d, tgt[k].kind, tgt[k].at, Place(tgt, Len(d), k + 1))
             /\ Place(tgt, Len(d), k + 1) \in Nat /\ Place(tgt, Len(d), k + 1) <= n
  <2> DEFINE a == src[k].at
             b == Place(src, n, k + 1)
  <2>1. JumpsAt(c, src[k].kind, a, b) /\ b <= n BY <1>1, JumpsOf
  <2>2. a \in Nat /\ b \in Nat BY <2>1 DEF JumpsAt
  <2>3. Piece(c, src[k].kind, a, b) BY <1>1 DEF Pieces
  <2>4. src[k].kind = "endif" /\ a # b => a \notin W BY <1>1, LeadsElsewhere
  <2>5. tgt[k] = src[k] /\ Place(tgt, Len(d), k + 1) = b BY <1>1
  <2> HIDE DEF a, b
  <2>6. Piece(d, src[k].kind, a, b) BY <2>1, <2>2, <2>3, <2>4, PieceKept
  <2> QED BY <2>1, <2>2, <2>5, <2>6 DEF a
<1>3. ASSUME NEW k \in DOMAIN tgt
      PROVE  Piece(d, tgt[k].kind, tgt[k].at, Place(tgt, Len(d), k + 1))
  <2>1. CASE k = L + 1 BY <1>1, <2>1
  <2>2. CASE k \in 1..L BY <1>2, <2>2
  <2> QED BY <1>1, <2>1, <2>2
<1>4. ASSUME NEW k \in DOMAIN tgt, NEW j \in 1..(Len(tgt) + 1), k < j
      PROVE  Place(tgt, Len(d), k + 1) <= Place(tgt, Len(d), j)
  <2>1. CASE j = L + 2
    <3>1. CASE k \in 1..L BY <1>1, <1>2, <2>1, <3>1
    <3>2. CASE k = L + 1 BY <1>1, <2>1, <3>2
    <3> QED BY <1>1, <3>1, <3>2
  <2>2. CASE j \in 1..(L + 1) BY <1>1, <1>4, <2>2 DEF Pieces
  <2> QED BY <1>1, <2>1, <2>2
<1> QED BY <1>1, <1>3, <1>4 DEF Pieces

\* What leads somewhere still leads there.
LEMMA LeadsKept ==
  ASSUME NEW c, NEW d, NEW W, NEW src, NEW tgt, NEW m, Written(c, d, W, src, tgt, m),
         NEW blocks, Owned(W, src, Len(c), blocks), Pieces(c, src, Len(c)), NEW k \in DOMAIN src
  PROVE  /\ src[k].kind \in Branches /\ TestLeads(c, src, Len(c), k) => TestLeads(d, tgt, Len(d), k)
         /\ src[k].kind \in {"else", "elseif"} /\ SkipLeads(c, src, Len(c), k) =>
              SkipLeads(d, tgt, Len(d), k)
         /\ src[k].kind \in {"endwhile", "endfor"} /\ BackLeads(c, src, k) => BackLeads(d, tgt, k)
<1> DEFINE n == Len(c)
           L == Len(src)
           a == src[k].at
           b == Place(src, n, k + 1)
<1>1. /\ L \in Nat /\ n \in Nat
      /\ DOMAIN src = 1..L /\ DOMAIN tgt = 1..(L + 1)
      /\ \A x \in 1..L : tgt[x] = src[x]
      /\ \A x \in 1..(L + 1) : Place(tgt, Len(d), x) = Place(src, n, x)
      /\ src \in Seq(Mark) /\ c \in Seq(Instruction)
  <2>1. src \in Seq(Mark) /\ c \in Seq(Instruction) BY DEF Written
  <2> QED BY <2>1, WrittenText
<1>2. \A x \in 1..L : tgt[x] = src[x] /\ Place(tgt, Len(d), x + 1) = Place(src, n, x + 1) BY <1>1
<1>3. JumpsAt(c, src[k].kind, a, b) /\ b <= n BY <1>1, JumpsOf
<1>4. ASSUME NEW x \in 0..(n - 1), x \notin W PROVE JumpTarget(d, x) = JumpTarget(c, x)
  BY <1>4 DEF Written, JumpTarget
<1>5. ASSUME src[k].kind \in Branches, TestLeads(c, src, n, k) PROVE TestLeads(d, tgt, Len(d), k)
  <2>1. PICK j \in DOMAIN src :
          /\ Follows(src, k, Ending(src[k].kind), j)
          /\ JumpTarget(c, b - 1)
               = (IF src[j].kind = "elseif" THEN src[j].at + 1 ELSE Place(src, n, j + 1))
    BY <1>5 DEF TestLeads
  <2>2. b - 1 \notin W BY <1>1, <1>5, LeadsElsewhere
  <2>3. b - 1 \in 0..(n - 1) BY <1>1, <1>3, <1>5 DEF JumpsAt
  <2>4. JumpTarget(d, b - 1) = JumpTarget(c, b - 1) BY <1>4, <2>2, <2>3
  <2>5. Follows(tgt, k, Ending(src[k].kind), j) /\ j \in DOMAIN tgt
    <3>1. PICK kinds : kinds = Ending(src[k].kind) OBVIOUS
    <3>2. Follows(tgt, k, kinds, j) BY <2>1, <3>1, StillFollows
    <3> QED BY <1>1, <2>1, <3>1, <3>2
  <2>6. /\ tgt[k] = src[k] /\ tgt[j] = src[j] /\ Place(tgt, Len(d), k + 1) = b
        /\ Place(tgt, Len(d), j + 1) = Place(src, n, j + 1)
    BY <1>1, <1>2, <2>1
  <2> HIDE DEF b
  <2> QED BY <2>1, <2>4, <2>5, <2>6 DEF TestLeads
<1>6. ASSUME src[k].kind \in {"else", "elseif"}, SkipLeads(c, src, n, k)
      PROVE  SkipLeads(d, tgt, Len(d), k)
  <2>1. PICK j \in DOMAIN src :
          Follows(src, k, {"endif"}, j) /\ JumpTarget(c, a) = Place(src, n, j + 1)
    BY <1>6 DEF SkipLeads
  <2>2. a \notin W BY <1>1, <1>6, LeadsElsewhere
  <2>3. a \in 0..(n - 1) BY <1>1, <1>3, <1>6 DEF JumpsAt
  <2>4. JumpTarget(d, a) = JumpTarget(c, a) BY <1>4, <2>2, <2>3
  <2>5. Follows(tgt, k, {"endif"}, j) /\ j \in DOMAIN tgt BY <1>1, <2>1, StillFollows
  <2>6. tgt[k] = src[k] /\ Place(tgt, Len(d), j + 1) = Place(src, n, j + 1) BY <1>1, <1>2, <2>1
  <2> QED BY <2>1, <2>4, <2>5, <2>6 DEF SkipLeads
<1>7. ASSUME src[k].kind \in {"endwhile", "endfor"}, BackLeads(c, src, k) PROVE BackLeads(d, tgt, k)
  <2>1. PICK i \in DOMAIN src :
          Precedes(src, k, OpenedBy(src[k].kind), i) /\ JumpTarget(c, a) = src[i].at
    BY <1>7 DEF BackLeads
  <2>2. a \notin W BY <1>1, <1>7, LeadsElsewhere
  <2>3. a \in 0..(n - 1) BY <1>1, <1>3, <1>7 DEF JumpsAt
  <2>4. JumpTarget(d, a) = JumpTarget(c, a) BY <1>4, <2>2, <2>3
  <2>5. Precedes(tgt, k, OpenedBy(src[k].kind), i) /\ i \in DOMAIN tgt
    <3>1. PICK kinds : kinds = OpenedBy(src[k].kind) OBVIOUS
    <3>2. Precedes(tgt, k, kinds, i) BY <2>1, <3>1, StillFollows
    <3> QED BY <1>1, <2>1, <3>1, <3>2
  <2>6. tgt[k] = src[k] /\ tgt[i] = src[i] BY <1>1, <1>2, <2>1
  <2> QED BY <2>1, <2>4, <2>5, <2>6 DEF BackLeads
<1> QED BY <1>5, <1>6, <1>7

\* What waits still waits, while the text stays in its statement.
LEMMA WaitsKept ==
  ASSUME NEW c, NEW d, NEW W, NEW src, NEW tgt, NEW m, Written(c, d, W, src, tgt, m),
         NEW k \in DOMAIN src, NEW b, NEW e, NEW t,
         LET l == Level(src, Len(src)) + Rise(m.kind) IN l >= t
  PROVE  /\ /\ TestWaits(src, Len(c), b, t, k) /\ e.test = b.test /\ e.start = b.start
            /\ e.kind = b.kind \/ {e.kind, b.kind} \subseteq {"for", "step", "stepped"}
            /\ Level(src, Len(src)) + Rise(m.kind) = t => m.kind \notin {"else", "elseif"}
            => TestWaits(tgt, Len(d), e, t, k)
         /\ /\ SkipWaits(src, b, t, k) /\ e.kind \in {"then", "else"} /\ b.ends \subseteq e.ends
            => SkipWaits(tgt, e, t, k)
<1> DEFINE n == Len(c)
           L == Len(src)
           l == Level(src, L) + Rise(m.kind)
<1>1. /\ L \in Nat /\ DOMAIN src = 1..L /\ Len(tgt) = L + 1 /\ tgt[L + 1] = m
      /\ \A x \in 1..L : tgt[x] = src[x]
      /\ Place(tgt, Len(d), k + 1) = Place(src, n, k + 1)
      /\ \A x \in 1..L : Level(tgt, x) = Level(src, x)
      /\ Level(tgt, L + 1) = l
  BY WrittenText
<1>2. \A x \in (k + 1)..Len(tgt) : x = L + 1 \/ (x \in (k + 1)..L /\ x \in 1..L) BY <1>1
<1> HIDE DEF l
<1>3. ASSUME TestWaits(src, n, b, t, k), e.test = b.test, e.start = b.start,
             e.kind = b.kind \/ {e.kind, b.kind} \subseteq {"for", "step", "stepped"},
             l = t => m.kind \notin {"else", "elseif"}
      PROVE  TestWaits(tgt, Len(d), e, t, k)
  <2>1. /\ src[k].kind \in Tester(b.kind) /\ b.test = Place(src, n, k + 1) - 1
        /\ b.kind # "then" => b.start = src[k].at
        /\ Level(src, k) = t
        /\ \A x \in (k + 1)..L :
             Level(src, x) >= t /\ (Level(src, x) = t => src[x].kind \notin {"else", "elseif"})
    BY <1>3 DEF TestWaits
  <2>2. Tester(e.kind) = Tester(b.kind) /\ (e.kind # "then" => b.kind # "then") BY <1>3 DEF Tester
  <2>3. \A x \in (k + 1)..Len(tgt) :
          Level(tgt, x) >= t /\ (Level(tgt, x) = t => tgt[x].kind \notin {"else", "elseif"})
    <3> SUFFICES ASSUME NEW x \in (k + 1)..Len(tgt)
                 PROVE  /\ Level(tgt, x) >= t
                        /\ Level(tgt, x) = t => tgt[x].kind \notin {"else", "elseif"}
      OBVIOUS
    <3>1. CASE x = L + 1 BY <1>1, <1>3, <3>1 DEF l
    <3>2. CASE x \in (k + 1)..L /\ x \in 1..L BY <1>1, <2>1, <3>2
    <3> QED BY <1>2, <3>1, <3>2
  <2>4. tgt[k] = src[k] /\ Level(tgt, k) = t BY <1>1, <2>1
  <2> QED BY <1>1, <1>3, <2>1, <2>2, <2>3, <2>4 DEF TestWaits
<1>4. ASSUME SkipWaits(src, b, t, k), e.kind \in {"then", "else"}, b.ends \subseteq e.ends
      PROVE  SkipWaits(tgt, e, t, k)
  <2>1. /\ src[k].kind \in {"else", "elseif"} /\ src[k].at \in b.ends
        /\ Level(src, k) = t /\ \A x \in (k + 1)..L : Level(src, x) >= t
    BY <1>4 DEF SkipWaits
  <2>2. \A x \in (k + 1)..Len(tgt) : Level(tgt, x) >= t
    <3> SUFFICES ASSUME NEW x \in (k + 1)..Len(tgt) PROVE Level(tgt, x) >= t OBVIOUS
    <3>1. CASE x = L + 1 BY <1>1, <3>1 DEF l
    <3>2. CASE x \in (k + 1)..L /\ x \in 1..L BY <1>1, <2>1, <3>2
    <3> QED BY <1>2, <3>1, <3>2
  <2> QED BY <1>1, <1>4, <2>1, <2>2 DEF SkipWaits
<1> QED BY <1>3, <1>4 DEF l

\* The jumps that waited for statement t lead somewhere, or wait for it still.
HandsOn(d, src, n, tgt, blocks, later, t) ==
  t \in DOMAIN blocks =>
    \A k \in DOMAIN src :
      /\ TestWaits(src, n, blocks[t], t, k) =>
           \/ TestLeads(d, tgt, Len(d), k)
           \/ t \in DOMAIN later /\ TestWaits(tgt, Len(d), later[t], t, k)
      /\ SkipWaits(src, blocks[t], t, k) =>
           \/ SkipLeads(d, tgt, Len(d), k)
           \/ t \in DOMAIN later /\ SkipWaits(tgt, later[t], t, k)

\* The last mark has its jumps wait for statement t, or lead back.
Arrives(d, tgt, later, t) ==
  LET k == Len(tgt) IN
  /\ tgt[k].kind \in Branches => t \in DOMAIN later /\ TestWaits(tgt, Len(d), later[t], t, k)
  /\ tgt[k].kind \in {"else", "elseif"} => t \in DOMAIN later /\ SkipWaits(tgt, later[t], t, k)
  /\ tgt[k].kind \in {"endwhile", "endfor"} => BackLeads(d, tgt, k)
  /\ t \in DOMAIN later => Holds(tgt, Len(d), later[t], t)

\* All open statements but one stay as they are.
Apart(blocks, later, t) ==
  /\ t \in Nat \ {0} /\ Len(blocks) \in {t - 1, t} /\ Len(later) \in {t - 1, t}
  /\ DOMAIN blocks = 1..Len(blocks) /\ DOMAIN later = 1..Len(later)
  /\ \A i \in 1..(t - 1) : later[i] = blocks[i] /\ blocks[i].kind \notin {"init", "limit"}

LEMMA HoldsOn ==
  ASSUME NEW c, NEW d, NEW W, NEW src, NEW tgt, NEW m, Written(c, d, W, src, tgt, m),
         NEW b, NEW t \in Int, b.kind \notin {"init", "limit"}, Holds(src, Len(c), b, t),
         LET l == Level(src, Len(src)) + Rise(m.kind) IN
           l >= t /\ (l = t => m.kind \notin {"else", "elseif"})
  PROVE  Holds(tgt, Len(d), b, t)
<1>1. /\ \A k \in DOMAIN src : k \in DOMAIN tgt /\ tgt[k] = src[k] BY WrittenText
<1>2. \A k \in DOMAIN src : /\ TestWaits(src, Len(c), b, t, k) => TestWaits(tgt, Len(d), b, t, k)
                            /\ SkipWaits(src, b, t, k) => SkipWaits(tgt, b, t, k)
  <2> SUFFICES ASSUME NEW k \in DOMAIN src
               PROVE  /\ TestWaits(src, Len(c), b, t, k) => TestWaits(tgt, Len(d), b, t, k)
                      /\ SkipWaits(src, b, t, k) => SkipWaits(tgt, b, t, k)
    OBVIOUS
  <2>1. SkipWaits(src, b, t, k) => b.kind \in {"then", "else"} BY DEF SkipWaits
  <2> QED BY <2>1, WaitsKept
<1>4. b.kind \in {"then", "else"} =>
        \A e \in b.ends : \E k \in DOMAIN tgt : SkipWaits(tgt, b, t, k) /\ tgt[k].at = e
  BY <1>1, <1>2 DEF Holds
<1> QED BY <1>1, <1>2, <1>4 DEF Holds

LEMMA StepText ==
  ASSUME NEW c, NEW d, NEW W, NEW src, NEW tgt, NEW m, Written(c, d, W, src, tgt, m),
         NEW blocks, NEW later, NEW t, Apart(blocks, later, t),
         FlowText(c, src, Len(c), blocks), Owned(W, src, Len(c), blocks),
         Piece(d, m.kind, Len(c), Len(d)),
         LET l == Level(src, Len(src)) + Rise(m.kind) IN
           /\ l >= t - 1 /\ (m.kind \in {"else", "elseif"} => l > t - 1) /\ l = Height(later),
         HandsOn(d, src, Len(c), tgt, blocks, later, t), Arrives(d, tgt, later, t)
  PROVE  FlowText(d, tgt, Len(d), later)
<1> DEFINE n == Len(c)
           L == Len(src)
           l == Level(src, L) + Rise(m.kind)
<1>1. /\ L \in Nat /\ DOMAIN src = 1..L /\ DOMAIN tgt = 1..(L + 1) /\ Len(tgt) = L + 1
      /\ \A k \in 1..L : tgt[k] = src[k]
      /\ tgt[L + 1] = m /\ Level(tgt, L + 1) = l
  BY WrittenText
<1>2. l \in Int BY WrittenText DEF Rise
<1>3. /\ t \in Nat /\ l >= t - 1 /\ (m.kind \in {"else", "elseif"} => l > t - 1)
      /\ l = Height(later)
      /\ DOMAIN blocks = 1..Len(blocks) /\ DOMAIN later = 1..Len(later)
      /\ Len(blocks) \in {t - 1, t} /\ Len(later) \in {t - 1, t}
      /\ \A i \in 1..(t - 1) : later[i] = blocks[i] /\ blocks[i].kind \notin {"init", "limit"}
  BY DEF Apart
<1>13. /\ t \in Nat /\ t - 1 \in Int
       /\ \A i \in DOMAIN blocks : i \in Int /\ 1 <= i /\ i <= t
       /\ \A i \in DOMAIN later : i \in Int /\ 1 <= i /\ i <= t /\ (i = t => i = Len(later))
       /\ \A i \in Int : 1 <= i /\ i <= t - 1 => i \in DOMAIN blocks /\ i \in DOMAIN later
       /\ \A i \in DOMAIN later : i < Len(later) => i <= t - 1
  <2>1. t \in Nat \ {0} /\ DOMAIN blocks = 1..Len(blocks) /\ DOMAIN later = 1..Len(later)
    BY DEF Apart
  <2>3. Len(later) = t - 1 \/ Len(later) = t BY DEF Apart
  <2>4. PICK p : p = Len(blocks) OBVIOUS
  <2>5. PICK q : q = Len(later) OBVIOUS
  <2>6. p \in {t - 1, t} /\ q \in {t - 1, t} /\ DOMAIN blocks = 1..p /\ DOMAIN later = 1..q
    BY <2>1, <2>3, <2>4, <2>5 DEF Apart
  <2>7. \A i \in 1..p : i \in Int /\ 1 <= i /\ i <= t BY <2>1, <2>6
  <2>8. \A i \in 1..q : i \in Int /\ 1 <= i /\ i <= t /\ (i = t => i = q) /\ (i < q => i <= t - 1)
    BY <2>1, <2>6
  <2>9. \A i \in Int : 1 <= i /\ i <= t - 1 => i \in 1..p /\ i \in 1..q BY <2>1, <2>6
  <2>10. t \in Nat /\ t - 1 \in Int BY <2>1
  <2> QED BY <2>5, <2>6, <2>7, <2>8, <2>9, <2>10, Zenon
<1> HIDE DEF l
<1>4. Pieces(d, tgt, Len(d)) BY PiecesKept DEF FlowText
<1>14. \A i \in 1..(t - 1) : i \in Int /\ l >= i /\ (l = i => m.kind \notin {"else", "elseif"})
  <2>1. l >= t - 1 /\ (m.kind \in {"else", "elseif"} => l > t - 1) BY <1>3
  <2>2. t - 1 \in Int BY <1>13
  <2> QED BY <1>2, <2>1, <2>2
<1>15. \A i \in 1..(t - 1) : later[i] = blocks[i] /\ blocks[i].kind \notin {"init", "limit"}
  BY <1>3
<1>5. ASSUME NEW k \in DOMAIN src, NEW i \in 1..(t - 1)
      PROVE  /\ TestWaits(src, n, blocks[i], i, k) => TestWaits(tgt, Len(d), later[i], i, k)
             /\ SkipWaits(src, blocks[i], i, k) => SkipWaits(tgt, later[i], i, k)
  <2>1. l >= i /\ (l = i => m.kind \notin {"else", "elseif"}) BY <1>14
  <2>3. later[i] = blocks[i] BY <1>3
  <2> QED BY <2>1, <2>3, WaitsKept DEF l, SkipWaits
<1>6. \A i \in DOMAIN blocks : i \in 1..(t - 1) \/ i = t BY <1>13
<1>7. \A i \in 1..(t - 1) : i \in DOMAIN later /\ i \in DOMAIN blocks BY <1>13
<1>8. \A k \in DOMAIN tgt : k \in DOMAIN src \/ k = Len(tgt) BY <1>1
<1>9. Tests(d, tgt, Len(d), later)
  <2> SUFFICES ASSUME NEW k \in DOMAIN tgt, tgt[k].kind \in Branches
               PROVE  \/ TestLeads(d, tgt, Len(d), k)
                      \/ \E i \in DOMAIN later : TestWaits(tgt, Len(d), later[i], i, k)
    BY DEF Tests
  <2>1. CASE k \in DOMAIN src
    <3>1. src[k].kind \in Branches BY <1>1, <2>1
    <3>2. CASE TestLeads(c, src, n, k) BY <2>1, <3>1, <3>2, LeadsKept DEF FlowText
    <3>3. CASE ~TestLeads(c, src, n, k)
      <4>1. PICK i \in DOMAIN blocks : TestWaits(src, n, blocks[i], i, k)
        BY <2>1, <3>1, <3>3 DEF FlowText, Tests
      <4>2. CASE i \in 1..(t - 1) BY <1>5, <1>7, <2>1, <4>1, <4>2
      <4>3. CASE i = t BY <2>1, <4>1, <4>3 DEF HandsOn
      <4> QED BY <1>6, <4>2, <4>3
    <3> QED BY <3>2, <3>3
  <2>2. CASE k = Len(tgt) BY <2>2 DEF Arrives
  <2> QED BY <1>8, <2>1, <2>2
<1>10. Skips(d, tgt, Len(d), later)
  <2> SUFFICES ASSUME NEW k \in DOMAIN tgt, tgt[k].kind \in {"else", "elseif"}
               PROVE  \/ SkipLeads(d, tgt, Len(d), k)
                      \/ \E i \in DOMAIN later : SkipWaits(tgt, later[i], i, k)
    BY DEF Skips
  <2>1. CASE k \in DOMAIN src
    <3>1. src[k].kind \in {"else", "elseif"} BY <1>1, <2>1
    <3>2. CASE SkipLeads(c, src, n, k) BY <2>1, <3>1, <3>2, LeadsKept DEF FlowText
    <3>3. CASE ~SkipLeads(c, src, n, k)
      <4>1. PICK i \in DOMAIN blocks : SkipWaits(src, blocks[i], i, k)
        BY <2>1, <3>1, <3>3 DEF FlowText, Skips
      <4>2. CASE i \in 1..(t - 1) BY <1>5, <1>7, <2>1, <4>1, <4>2
      <4>3. CASE i = t BY <2>1, <4>1, <4>3 DEF HandsOn
      <4> QED BY <1>6, <4>2, <4>3
    <3> QED BY <3>2, <3>3
  <2>2. CASE k = Len(tgt) BY <2>2 DEF Arrives
  <2> QED BY <1>8, <2>1, <2>2
<1>11. Backs(d, tgt)
  <2> SUFFICES ASSUME NEW k \in DOMAIN tgt, tgt[k].kind \in {"endwhile", "endfor"}
               PROVE  BackLeads(d, tgt, k)
    BY DEF Backs
  <2>1. CASE k \in DOMAIN src BY <1>1, <2>1, LeadsKept DEF FlowText, Backs
  <2>2. CASE k = Len(tgt) BY <2>2 DEF Arrives
  <2> QED BY <1>8, <2>1, <2>2
<1>12. Holders(tgt, Len(d), later)
  <2>2. ASSUME NEW i \in DOMAIN later
        PROVE  /\ Holds(tgt, Len(d), later[i], i)
               /\ i < Len(later) => later[i].kind \notin {"init", "limit"}
    <3>2. CASE i \in 1..(t - 1)
      <4>1. Holds(src, n, blocks[i], i) BY <1>7, <3>2 DEF FlowText, Holders
      <4>2. l >= i /\ (l = i => m.kind \notin {"else", "elseif"}) BY <1>14, <3>2
      <4>3. later[i] = blocks[i] /\ blocks[i].kind \notin {"init", "limit"} /\ i \in Int
        BY <1>14, <1>15, <3>2, Zenon
      <4> QED BY <4>1, <4>2, <4>3, HoldsOn DEF l
    <3>3. CASE i = t /\ i = Len(later) BY <1>13, <3>3 DEF Arrives
    <3> QED BY <1>13, <3>2, <3>3
  <2> QED BY <1>1, <1>3, <2>2 DEF Holders
<1> QED BY <1>4, <1>9, <1>10, <1>11, <1>12 DEF FlowText

-----------------------------------------------------------------------------
(* The code of statements without a block *)

QuietInstruction == [op : Opcodes \ (Jumps \cup Stops), arg : Int]

LEMMA QuietJoin ==
  ASSUME NEW e \in Seq(QuietInstruction), NEW f \in Seq(QuietInstruction)
  PROVE  e \o f \in Seq(QuietInstruction)
  OBVIOUS

LEMMA QuietOne ==
  ASSUME NEW op \in {"PUSH_INT", "PUSH_NULL", "GET_LOCAL", "SET_LOCAL", "VOID_LOCAL", "INDEX_GET",
                     "INDEX_SET", "ADD", "LT", "POP", "CALL_BUILTIN"},
         NEW arg \in Int
  PROVE  <<I(op, arg)>> \in Seq(QuietInstruction) /\ I(op, arg) \in QuietInstruction
<1> DEFINE i == I(op, arg)
<1> HIDE DEF i
<1>2. i \in QuietInstruction => <<i>> \in Seq(QuietInstruction) OBVIOUS
<1> QED BY <1>2 DEF i, I, QuietInstruction, Opcodes, Jumps, Stops

LEMMA QuietIs ==
  ASSUME NEW e \in Seq(QuietInstruction)
  PROVE  e \in Seq(Instruction) /\ Len(e) \in Nat /\ Quiet(e, 0, Len(e))
<1>1. QuietInstruction \subseteq Instruction BY DEF QuietInstruction, Instruction
<1>2. e \in Seq(Instruction) BY <1>1
<1>3. \A a \in 1..Len(e) : e[a].op \notin Jumps \cup Stops
  <2>1. \A a \in 1..Len(e) : e[a] \in QuietInstruction OBVIOUS
  <2> QED BY <2>1 DEF QuietInstruction
<1> QED BY <1>2, <1>3 DEF Quiet, At

LEMMA QuietExpr ==
  ASSUME NEW n, NEW m, Slotted(m, n), NEW e, Known(m, e)
  PROVE  emit_expr(m, e) \in Seq(QuietInstruction) /\ Len(emit_expr(m, e)) = 1
<1>2. \A i : Len(<<i>>) = 1 OBVIOUS
<1>3. CASE e = Literal BY <1>2, <1>3, QuietOne DEF emit_expr
<1>4. CASE e # Literal BY <1>2, <1>4, QuietOne, SlotsAre DEF emit_expr, Slotted, Known
<1> QED BY <1>3, <1>4

LEMMA QuietAssignment ==
  ASSUME NEW n, Slotted(map, n), NEW target, NEW op, NEW rhs,
         target.kind \in {"name", "index"}, target.base \in DOMAIN map,
         Known(map, target.index), Known(map, rhs)
  PROVE  Assignment(target, op, rhs) \in Seq(QuietInstruction)
<1> DEFINE slot == map[target.base]
           get == <<I("GET_LOCAL", slot)>>
           set == <<I("SET_LOCAL", slot)>>
           add == <<I("ADD", 0)>>
           take == <<I("INDEX_GET", 0)>>
           put == <<I("INDEX_SET", 0)>>
           index == emit_expr(map, target.index)
           value == emit_expr(map, rhs)
           Q == Seq(QuietInstruction)
<1>1. slot \in Int BY SlotsAre DEF Slotted
<1>2. get \in Q /\ set \in Q /\ add \in Q /\ take \in Q /\ put \in Q BY <1>1, QuietOne
<1>3. index \in Q /\ value \in Q BY QuietExpr
<1>4. <<I("ADD", 0), I("SET_LOCAL", slot)>> = add \o set /\ <<I("ADD", 0), I("INDEX_SET", 0)>> = add \o put
  BY Pair
<1>5. /\ value \o set \in Q /\ get \o value \o (add \o set) \in Q
      /\ (get \o index) \o value \o put \in Q
      /\ (get \o index) \o (get \o index) \o take \o value \o (add \o put) \in Q
  <2> HIDE DEF get, set, add, take, put, index, value
  <2> QED BY <1>2, <1>3, QuietJoin
<1>6. Assignment(target, op, rhs)
        \in {value \o set, get \o value \o <<I("ADD", 0), I("SET_LOCAL", slot)>>,
             (get \o index) \o value \o put,
             (get \o index) \o (get \o index) \o take \o value \o <<I("ADD", 0), I("INDEX_SET", 0)>>}
  BY DEF Assignment, emit_assign_math
<1> HIDE DEF get, set, add, take, put, index, value, Q
<1> QED BY <1>4, <1>5, <1>6 DEF Q

\* What a statement adds to the code: nothing that jumps, and what stops ends it.
Adds(kind) ==
  \E e \in Seq(Instruction) :
    /\ code' = code \o e
    /\ IF kind = "RETURN" THEN Len(e) = 2 /\ Quiet(e, 0, 1) /\ At(e, 1).op = "RET"
       ELSE e \in Seq(QuietInstruction)

LEMMA EmitAdds ==
  ASSUME NEW e \in Seq(QuietInstruction), Emit(e), NEW kind, kind # "RETURN" PROVE Adds(kind)
  BY QuietIs DEF Emit, Adds

LEMMA EvaluateAdds ==
  ASSUME NameInv, NEW e, NEW then \in Seq(QuietInstruction), Evaluate(e, then), status' = "emitting",
         NEW kind, kind # "RETURN"
  PROVE  Adds(kind)
<1>1. Known(map, e) /\ Emit(emit_expr(map, e) \o then) BY DEF Evaluate, Fail
<1>2. emit_expr(map, e) \o then \in Seq(QuietInstruction) BY <1>1, MapSlotted, QuietExpr, QuietJoin
<1> QED BY <1>1, <1>2, EmitAdds

LEMMA StoreAdds ==
  ASSUME code \in Seq(Instruction), NEW n, NEW m, Slotted(m, n), NEW slot \in Int, NEW rhs,
         Store(m, slot, rhs), status = "emitting", status' = "emitting", NEW kind, kind # "RETURN"
  PROVE  Adds(kind)
<1> DEFINE value == emit_expr(m, rhs)
           set == <<I("SET_LOCAL", slot)>>
<1>1. Known(m, rhs) /\ code' = (code \o value) \o set BY DEF Store
<1>2. value \in Seq(QuietInstruction) /\ set \in Seq(QuietInstruction) BY <1>1, QuietExpr, QuietOne
<1> HIDE DEF value, set
<1>3. value \in Seq(Instruction) /\ set \in Seq(Instruction) /\ value \o set \in Seq(QuietInstruction)
  BY <1>2, QuietIs, QuietJoin
<1>4. code' = code \o (value \o set) BY <1>1, <1>3, JoinThree
<1>5. value \o set \in Seq(Instruction) BY <1>3, QuietIs
<1> QED BY <1>3, <1>4, <1>5 DEF Adds

LEMMA ReturnAdds ==
  ASSUME NEW e \in Seq(QuietInstruction), Len(e) = 1, code' = code \o (e \o <<I("RET", 0)>>)
  PROVE  Adds("RETURN")
<1> DEFINE r == I("RET", 0)
           f == e \o <<r>>
<1>1. r \in Instruction /\ r.op = "RET" BY DEF I, Instruction, Opcodes
<1> HIDE DEF r
<1>2. e \in Seq(Instruction) /\ Quiet(e, 0, 1) BY QuietIs
<1>3. f \in Seq(Instruction) /\ Len(f) = 2 /\ f[1] = e[1] /\ f[2] = r
  <2>1. r \in Instruction BY <1>1
  <2>2. e \in Seq(Instruction) /\ Len(e) = 1 BY <1>2
  <2>3. <<r>> \in Seq(Instruction) /\ Len(<<r>>) = 1 /\ <<r>>[1] = r BY <2>1
  <2> DEFINE g == <<r>>
  <2> HIDE DEF g
  <2>4. e \o g \in Seq(Instruction) /\ Len(e \o g) = Len(e) + Len(g) BY <2>2, <2>3, JoinTwo DEF g
  <2>6. \A a \in 1..Len(g) : (e \o g)[Len(e) + a] = g[a] BY <2>2, <2>3, JoinAt DEF g
  <2>7. Len(e) = 1 /\ Len(g) = 1 /\ g[1] = r BY <2>2, <2>3 DEF g
  <2>8. (e \o g)[1 + 1] = g[1] BY <2>6, <2>7
  <2>9. (e \o g)[1] = e[1]
    <3>1. 1 \in 1..Len(e) BY <2>7
    <3> QED BY <2>2, <2>3, <3>1, JoinAt DEF g
  <2> QED BY <2>4, <2>7, <2>8, <2>9 DEF g
<1> HIDE DEF f
<1>4. Quiet(f, 0, 1) /\ At(f, 1).op = "RET" BY <1>1, <1>2, <1>3 DEF Quiet, At
<1> QED BY <1>3, <1>4 DEF Adds, f, r

LEMMA StmtAdds ==
  ASSUME NameInv, LoopsSlotted, status = "emitting",
         NEW st \in parse_stmt \cup parse_loop_header_stmt, emit_stmt(st), status' = "emitting"
  PROVE  Adds(st.kind)
<1>0. code \in Seq(Instruction) /\ Slotted(map, Len(locals)) BY MapSlotted DEF NameInv, NameTypes
<1>a. ASSUME st.name \in Names, AddLocal(st.name, st.rhs), st.kind # "RETURN" PROVE Adds(st.kind)
  BY <1>0, <1>a, PutSlotted, MapSlotted, StoreAdds DEF AddLocal, NewSlot
<1>1. CASE st.kind \in {"LET", "VOIDLET"}
  BY <1>1, <1>a DEF emit_stmt, parse_stmt, parse_loop_header_stmt, Declarations, Let, VoidLet, Fail
<1>2. CASE st.kind = "SLET"
  <2>1. Slet(st) /\ st.name \in Names
    BY <1>2 DEF emit_stmt, parse_stmt, parse_loop_header_stmt, Declarations
  <2>2. CASE st.name \in LoopNames /\ loops # << >>
    BY <1>0, <1>2, <2>1, <2>2, LoopSlotSlotted, StoreAdds DEF Slet, NameInv, NameTypes
  <2>3. CASE ~(st.name \in LoopNames /\ loops # << >>) BY <1>2, <2>1, <2>3, <1>a DEF Slet, Fail
  <2> QED BY <2>2, <2>3
<1>3. ASSUME NEW target, NEW op, NEW rhs, Assign(target, op, rhs), st.kind # "RETURN",
             target.kind \in {"unset", "name", "index"}
      PROVE  Adds(st.kind)
  <2>1. CASE target.kind = "unset"
    <3>1. Emit(<< >>) /\ << >> \in Seq(QuietInstruction) BY <1>3, <2>1 DEF Assign
    <3> QED BY <1>3, <3>1, EmitAdds
  <2>2. CASE target.kind # "unset"
    <3>1. /\ target.base \in DOMAIN map /\ Known(map, target.index) /\ Known(map, rhs)
          /\ Emit(Assignment(target, op, rhs))
      BY <1>3, <2>2 DEF Assign, Fail
    <3>2. Assignment(target, op, rhs) \in Seq(QuietInstruction)
      BY <1>0, <1>3, <2>2, <3>1, QuietAssignment
    <3> QED BY <1>3, <3>1, <3>2, EmitAdds
  <2> QED BY <2>1, <2>2
<1>4. CASE st.kind = "SET"
  BY <1>3, <1>4 DEF emit_stmt, parse_stmt, parse_loop_header_stmt, Declarations, parse_target, Unset
<1>5. CASE st.kind = "INCDEC"
  BY <1>3, <1>5 DEF emit_stmt, parse_stmt, parse_loop_header_stmt, Declarations, parse_target
<1>6. CASE st.kind = "VOID"
  <2>1. st.name \in DOMAIN map /\ code' = Append(code, I("VOID_LOCAL", map[st.name]))
    BY <1>6 DEF emit_stmt, Void, Fail
  <2>2. map[st.name] \in Int BY <1>0, <2>1, SlotsAre DEF Slotted
  <2> DEFINE i == I("VOID_LOCAL", map[st.name])
  <2>3. <<i>> \in Seq(QuietInstruction) BY <2>2, QuietOne
  <2> HIDE DEF i
  <2>4. code' = code \o <<i>> BY <1>0, <2>1 DEF i
  <2> QED BY <1>6, <2>3, <2>4, QuietIs DEF Adds
<1>7. SayAndPop \in Seq(QuietInstruction) /\ <<I("POP", 0)>> \in Seq(QuietInstruction)
  BY Pair, QuietOne, QuietJoin DEF SayAndPop
<1>8. CASE st.kind = "SAY_IDENT" BY <1>7, <1>8, EvaluateAdds DEF emit_stmt
<1>9. CASE st.kind \in {"SAY_EXPR", "EXPR"} BY <1>7, <1>9, EvaluateAdds DEF emit_stmt
<1>10. CASE st.kind = "RETURN" /\ st.rhs = NoName
  <2> DEFINE e == <<I("PUSH_NULL", 0)>>
  <2>1. code' = code \o (e \o <<I("RET", 0)>>) BY <1>10, Pair DEF emit_stmt, Emit
  <2>2. e \in Seq(QuietInstruction) /\ Len(e) = 1 BY QuietOne
  <2> HIDE DEF e
  <2> QED BY <1>10, <2>1, <2>2, ReturnAdds
<1>11. CASE st.kind = "RETURN" /\ st.rhs # NoName
  <2> DEFINE e == emit_expr(map, st.rhs)
  <2>1. Known(map, st.rhs) /\ code' = code \o (e \o <<I("RET", 0)>>)
    BY <1>11 DEF emit_stmt, Emit, Evaluate, Fail
  <2>2. e \in Seq(QuietInstruction) /\ Len(e) = 1 BY <1>0, <2>1, QuietExpr
  <2> HIDE DEF e
  <2> QED BY <1>11, <2>1, <2>2, ReturnAdds
<1>12. CASE st.kind = "NOTHING"
  <2>1. Emit(<< >>) /\ << >> \in Seq(QuietInstruction) BY <1>12 DEF emit_stmt
  <2> QED BY <1>12, <2>1, EmitAdds
<1>13. st.kind \in {"LET", "VOIDLET", "SLET", "SET", "INCDEC", "VOID", "SAY_IDENT", "SAY_EXPR",
                    "EXPR", "RETURN", "NOTHING"}
  BY DEF parse_stmt, parse_loop_header_stmt, Declarations
<1> QED BY <1>1, <1>2, <1>4, <1>5, <1>6, <1>8, <1>9, <1>10, <1>11, <1>12, <1>13

-----------------------------------------------------------------------------
(* Every step leaves code that follows the text. *)

\* The open statements before and after a step.
LEMMA ApartIs ==
  ASSUME NEW blocks \in Seq(Block), NEW src, NEW n, Holders(src, n, blocks), NEW b \in Block
  PROVE  /\ blocks # << >> =>
              /\ Apart(blocks, Below(blocks), Len(blocks))
              /\ Apart(blocks, Append(Below(blocks), b), Len(blocks))
              /\ Append(Below(blocks), b)[Len(blocks)] = b
              /\ Len(Append(Below(blocks), b)) = Len(blocks) /\ Len(Below(blocks)) = Len(blocks) - 1
              /\ Len(blocks) \in Nat \ {0} /\ blocks[Len(blocks)] = Top(blocks)
              /\ Height(Below(blocks)) = Len(blocks) - 1
         /\ blocks = << >> \/ Top(blocks).kind \notin {"init", "limit"} =>
              /\ Apart(blocks, blocks, Len(blocks) + 1)
              /\ Apart(blocks, Append(blocks, b), Len(blocks) + 1)
              /\ Append(blocks, b)[Len(blocks) + 1] = b
              /\ Len(Append(blocks, b)) = Len(blocks) + 1 /\ Len(blocks) \in Nat
              /\ Height(blocks) = Len(blocks)
<1> DEFINE n0 == Len(blocks)
<1>1. n0 \in Nat /\ DOMAIN blocks = 1..n0 OBVIOUS
<1>2. \A i \in 1..n0 : i < n0 => blocks[i].kind \notin {"init", "limit"} BY <1>1 DEF Holders
<1>3. ASSUME blocks # << >>
      PROVE  /\ Apart(blocks, Below(blocks), n0)
             /\ Apart(blocks, Append(Below(blocks), b), n0)
             /\ Append(Below(blocks), b)[n0] = b
             /\ Len(Append(Below(blocks), b)) = n0 /\ Len(Below(blocks)) = n0 - 1
             /\ n0 \in Nat \ {0} /\ blocks[n0] = Top(blocks)
             /\ Height(Below(blocks)) = n0 - 1
  <2> DEFINE s == Below(blocks)
  <2>1. /\ s \in Seq(Block) /\ Len(s) = n0 - 1 /\ \A i \in 1..(n0 - 1) : s[i] = blocks[i]
    BY <1>3, BelowIsSeq
  <2>2. n0 \in Nat \ {0} /\ blocks[n0] = Top(blocks) BY <1>3 DEF Top
  <2> HIDE DEF s, n0
  <2>3. /\ DOMAIN s = 1..(n0 - 1) /\ Len(s) = n0 - 1 BY <2>1
  <2>4. /\ DOMAIN Append(s, b) = 1..n0 /\ Len(Append(s, b)) = n0 /\ Append(s, b)[n0] = b
        /\ \A i \in 1..(n0 - 1) : Append(s, b)[i] = s[i]
    BY <2>1, <2>2
  <2>5. \A i \in 1..(n0 - 1) : blocks[i].kind \notin {"init", "limit"} BY <1>2, <2>2
  <2>6. Apart(blocks, s, n0) /\ Apart(blocks, Append(s, b), n0)
    BY <1>1, <2>1, <2>2, <2>3, <2>4, <2>5 DEF Apart, n0
  <2>7. Height(s) = n0 - 1
    <3>1. CASE s # << >> BY <2>1, <2>2, <2>3, <2>5, <3>1 DEF Top, Height
    <3> QED BY <2>3, <3>1 DEF Height
  <2> QED BY <2>2, <2>3, <2>4, <2>6, <2>7 DEF s
<1>4. ASSUME blocks = << >> \/ Top(blocks).kind \notin {"init", "limit"}
      PROVE  /\ Apart(blocks, blocks, n0 + 1)
             /\ Apart(blocks, Append(blocks, b), n0 + 1)
             /\ Append(blocks, b)[n0 + 1] = b
             /\ Len(Append(blocks, b)) = n0 + 1 /\ n0 \in Nat
             /\ Height(blocks) = n0
  <2>1. \A i \in 1..n0 : blocks[i].kind \notin {"init", "limit"}
    <3> HIDE DEF n0
    <3>2. \A i \in 1..n0 : i < n0 \/ (i = n0 /\ blocks # << >>) BY <1>1
    <3> QED BY <1>2, <1>4, <3>2 DEF n0, Top
  <2>2. /\ DOMAIN Append(blocks, b) = 1..(n0 + 1) /\ Len(Append(blocks, b)) = n0 + 1
        /\ Append(blocks, b)[n0 + 1] = b
        /\ \A i \in 1..n0 : Append(blocks, b)[i] = blocks[i]
    OBVIOUS
  <2> HIDE DEF n0
  <2>4. Apart(blocks, blocks, n0 + 1) /\ Apart(blocks, Append(blocks, b), n0 + 1)
    BY <1>1, <2>1, <2>2 DEF Apart, n0
  <2>5. Height(blocks) = n0 BY <1>4 DEF Height, n0
  <2> QED BY <1>1, <2>2, <2>4, <2>5
<1> QED BY <1>3, <1>4

LEMMA HeightIs ==
  ASSUME NEW blocks \in Seq(Block), NEW b \in Block
  PROVE  Height(Append(blocks, b)) = (IF b.kind \in {"init", "limit"} THEN Len(blocks) ELSE Len(blocks) + 1)
<1> DEFINE s == Append(blocks, b)
<1>1. Len(s) = Len(blocks) + 1 /\ s[Len(s)] = b /\ s # << >> /\ Len(blocks) \in Nat OBVIOUS
<1> HIDE DEF s
<1>2. Top(s) = b BY <1>1 DEF Top
<1> QED BY <1>1, <1>2 DEF Height, s

\* What is there before a step.
LEMMA Flowing ==
  ASSUME Inv, BalanceInv, FlowInv, status = "emitting"
  PROVE  /\ code \in Seq(Instruction) /\ source \in Seq(Mark) /\ Here = Len(code) /\ Here \in Nat
         /\ open \in Seq(Block) /\ FlowText(code, source, Len(code), open)
         /\ Holders(source, Len(code), open)
         /\ Level(source, Len(source)) = Height(open)
         /\ \A i \in DOMAIN open : Holds(source, Len(code), open[i], i)
<1>1. /\ code \in Seq(Instruction) /\ Here = Len(code) /\ Here \in Nat /\ open \in Seq(Block)
      /\ MarksLand
  BY Emitted
<1>3. FlowText(code, source, Len(code), open) BY <1>1 DEF FlowInv
<1>4. Holders(source, Len(code), open) BY <1>3 DEF FlowText
<1> QED BY <1>1, <1>3, <1>4 DEF Holders, MarksLand

Noted(kind) == [kind |-> kind, at |-> Here]

LEMMA NoteWritten ==
  ASSUME Inv, BalanceInv, status = "emitting", NEW kind \in MarkKinds, Note(kind),
         code' \in Seq(Instruction), Here <= Len(code'), NEW W,
         \A a \in 0..(Here - 1) :
           At(code', a).op = At(code, a).op /\ (a \notin W => At(code', a) = At(code, a))
  PROVE  /\ Written(code, code', W, source, source', Noted(kind))
         /\ Noted(kind).kind = kind /\ Noted(kind).at = Here
<1>1. code \in Seq(Instruction) /\ Here = Len(code) /\ Here \in Nat /\ MarksLand BY Emitted
<1>3. Noted(kind) \in Mark /\ Noted(kind).kind = kind /\ Noted(kind).at = Here
  BY <1>1 DEF Mark, Noted
<1>4. source' = Append(source, Noted(kind)) BY DEF Note, Noted
<1> QED BY <1>1, <1>3, <1>4 DEF Written, MarksLand

\* Code that is added at the end.
LEMMA AddedWritten ==
  ASSUME Inv, BalanceInv, status = "emitting", NEW kind \in MarkKinds, Note(kind),
         NEW e \in Seq(Instruction), code' = code \o e
  PROVE  /\ Written(code, code', {}, source, source', Noted(kind))
         /\ Noted(kind).kind = kind /\ Noted(kind).at = Here
         /\ code' \in Seq(Instruction) /\ Len(code') = Here + Len(e) /\ Len(e) \in Nat
         /\ \A a \in 0..(Len(e) - 1) : At(code', Here + a) = At(e, a)
<1>1. code \in Seq(Instruction) /\ Here = Len(code) /\ Here \in Nat BY Emitted
<1>2. Len(e) \in Nat OBVIOUS
<1>3. code' \in Seq(Instruction) /\ Len(code') = Here + Len(e) BY <1>1, JoinTwo
<1>6. \A a \in 0..(Here - 1) : At(code', a) = At(code, a) BY <1>1, JoinAt DEF At
<1>7. \A a \in 0..(Len(e) - 1) : At(code', Here + a) = At(e, a)
  <2> SUFFICES ASSUME NEW a \in 0..(Len(e) - 1) PROVE At(code', Here + a) = At(e, a) OBVIOUS
  <2>1. a + 1 \in 1..Len(e) /\ (Here + a) + 1 = Len(code) + (a + 1) BY <1>1, <1>2
  <2>2. code'[Len(code) + (a + 1)] = e[a + 1] BY <1>1, <2>1, JoinAt
  <2> QED BY <2>1, <2>2 DEF At
<1>8. Here <= Len(code') BY <1>1, <1>2, <1>3
<1>9. /\ Written(code, code', {}, source, source', Noted(kind))
      /\ Noted(kind).kind = kind /\ Noted(kind).at = Here
  BY <1>3, <1>6, <1>8, NoteWritten
<1> QED BY <1>2, <1>3, <1>7, <1>9

\* Code that is added is as quiet in its place.
LEMMA QuietPart ==
  ASSUME NEW c, NEW e, NEW a \in Nat, NEW n \in Nat, Quiet(e, 0, n),
         \A x \in 0..(n - 1) : At(c, a + x) = At(e, x)
  PROVE  Quiet(c, a, a + n)
<1> SUFFICES ASSUME NEW y \in a..(a + n - 1) PROVE At(c, y).op \notin Jumps \cup Stops BY DEF Quiet
<1>1. y - a \in 0..(n - 1) /\ a + (y - a) = y OBVIOUS
<1>3. At(e, y - a).op \notin Jumps \cup Stops BY <1>1 DEF Quiet
<1> QED BY <1>1, <1>3

LEMMA AddedPiece ==
  ASSUME Inv, BalanceInv, status = "emitting", NEW kind \in MarkKinds, Adds(kind), Note(kind),
         kind \notin Branches \cup Closers \cup {"else", "step"}
  PROVE  \E e \in Seq(Instruction) : code' = code \o e /\ Piece(code', kind, Here, Len(code'))
<1>1. PICK e \in Seq(Instruction) :
        /\ code' = code \o e
        /\ IF kind = "RETURN" THEN Len(e) = 2 /\ Quiet(e, 0, 1) /\ At(e, 1).op = "RET"
           ELSE e \in Seq(QuietInstruction)
  BY DEF Adds
<1>2. /\ Len(code') = Here + Len(e) /\ Len(e) \in Nat
      /\ \A a \in 0..(Len(e) - 1) : At(code', Here + a) = At(e, a)
  BY <1>1, AddedWritten
<1>3. Here \in Nat BY Emitted
<1>4. ASSUME NEW n \in 0..Len(e), Quiet(e, 0, n) PROVE Quiet(code', Here, Here + n)
  <2>1. n \in Nat /\ \A x \in 0..(n - 1) : At(code', Here + x) = At(e, x) BY <1>2
  <2> QED BY <1>3, <1>4, <2>1, QuietPart
<1>5. kind \notin Openers /\ kind \notin {"else", "elseif", "endwhile", "endfor", "endif", "step"}
  BY DEF Openers, Branches, Closers
<1>6. CASE kind = "RETURN"
  <2>1. Len(e) = 2 /\ Quiet(e, 0, 1) /\ At(e, 1).op = "RET" BY <1>1, <1>6
  <2>2. Quiet(code', Here, Here + 1) /\ At(code', Here + 1) = At(e, 1) /\ Len(code') = Here + 2
    BY <1>2, <1>4, <2>1
  <2>3. Here <= Len(code') BY <1>3, <2>2
  <2>4. Piece(code', kind, Here, Len(code')) BY <1>5, <1>6, <2>1, <2>2, <2>3 DEF Piece
  <2> QED BY <1>1, <2>4
<1>7. CASE kind # "RETURN"
  <2>1. Quiet(e, 0, Len(e)) /\ Len(e) \in 0..Len(e) BY <1>1, <1>2, <1>7, QuietIs
  <2>2. Quiet(code', Here, Len(code')) BY <1>2, <1>4, <2>1
  <2>3. Here <= Len(code') BY <1>2, <1>3
  <2>4. Piece(code', kind, Here, Len(code')) BY <1>5, <1>7, <2>2, <2>3 DEF Piece
  <2> QED BY <1>1, <2>4
<1> QED BY <1>6, <1>7

\* A mark that begins and ends nothing.
LEMMA FlowPlain ==
  ASSUME Inv, BalanceInv, FlowInv, status = "emitting", NEW kind \in MarkKinds, Note(kind),
         kind \notin Branches \cup Closers \cup {"else"},
         NEW e \in Seq(Instruction), code' = code \o e, Piece(code', kind, Here, Len(code')),
         open' = open, open = << >> \/ Top(open).kind \notin {"init", "limit"}
  PROVE  FlowText(code', source', Len(code'), open')
<1> DEFINE t == Len(open) + 1
           m == Noted(kind)
<1>1. /\ Written(code, code', {}, source, source', m) /\ m.kind = kind /\ m.at = Here
  BY AddedWritten
<1>2. /\ FlowText(code, source, Len(code), open) /\ open \in Seq(Block)
      /\ Level(source, Len(source)) = Height(open) /\ Holders(source, Len(code), open)
      /\ Here = Len(code)
  BY Flowing
<1>3. Apart(open, open', t) /\ Height(open) = Len(open) /\ Len(open) \in Nat
  <2>1. PICK b : b \in Block BY OpenedType DEF BlockKinds
  <2> QED BY <1>2, <2>1, ApartIs
<1>4. t \notin DOMAIN open BY <1>2, <1>3
<1> HIDE DEF t, m
<1>5. Rise(m.kind) = 0 /\ m.kind \notin {"else", "elseif"}
  BY <1>1 DEF Rise, Branches, Openers, Closers
<1>7. LET l == Level(source, Len(source)) + Rise(m.kind) IN
        /\ l >= t - 1 /\ (m.kind \in {"else", "elseif"} => l > t - 1) /\ l = Height(open')
  BY <1>2, <1>3, <1>5 DEF t
<1>8. HandsOn(code', source, Len(code), source', open, open', t) BY <1>4 DEF HandsOn
<1>10. Arrives(code', source', open', t) BY <1>1, <1>4, WrittenText DEF Arrives, Closers, Branches
<1>11. Owned({}, source, Len(code), open) BY DEF Owned
<1>12. Piece(code', m.kind, Len(code), Len(code')) BY <1>1, <1>2
<1> QED BY <1>1, <1>2, <1>3, <1>7, <1>8, <1>10, <1>11, <1>12, StepText

\* A FOR goes on to its condition, its step or its end.
LEMMA FlowGoesOn ==
  ASSUME Inv, BalanceInv, FlowInv, status = "emitting", NEW kind \in MarkKinds, Note(kind),
         kind \notin Branches \cup Closers \cup {"else"},
         NEW e \in Seq(Instruction), code' = code \o e, Piece(code', kind, Here, Len(code')),
         open # << >>, NEW b \in Block, open' = Append(Below(open), b),
         \/ Top(open).kind = "init" /\ b.kind = "limit" /\ b.start = Len(code')
         \/ /\ Top(open).kind \in {"for", "step"} /\ b.kind \in {"step", "stepped"}
            /\ b.test = Top(open).test /\ b.start = Top(open).start
  PROVE  FlowText(code', source', Len(code'), open')
<1> DEFINE t == Len(open)
           m == Noted(kind)
           l == Level(source, Len(source)) + Rise(m.kind)
<1>1. /\ Written(code, code', {}, source, source', m) /\ m.kind = kind /\ m.at = Here
  BY AddedWritten
<1>2. /\ FlowText(code, source, Len(code), open) /\ open \in Seq(Block)
      /\ Level(source, Len(source)) = Height(open) /\ Holders(source, Len(code), open)
      /\ Here = Len(code) /\ \A i \in DOMAIN open : Holds(source, Len(code), open[i], i)
  BY Flowing
<1>3. /\ Apart(open, open', t) /\ open'[t] = b /\ open[t] = Top(open) /\ t \in Nat \ {0}
      /\ Len(open') = t /\ Len(Below(open)) = t - 1
  BY <1>2, ApartIs
<1>4. t \in DOMAIN open /\ t \in DOMAIN open'
  <2>2. t \in 1..t BY <1>3
  <2> QED BY <1>3, <2>2 DEF Apart
<1>5. Height(open') = (IF b.kind \in {"init", "limit"} THEN t - 1 ELSE t)
  BY <1>2, <1>3, BelowIsSeq, HeightIs
<1>6. Height(open) = (IF Top(open).kind \in {"init", "limit"} THEN t - 1 ELSE t) BY DEF Height
<1> HIDE DEF t, m
<1>7. Rise(m.kind) = 0 /\ m.kind \notin {"else", "elseif"}
  BY <1>1 DEF Rise, Branches, Openers, Closers
<1>8. l = Height(open') /\ l = Height(open) /\ l >= t - 1 BY <1>2, <1>3, <1>5, <1>6, <1>7
<1> HIDE DEF l
<1> DEFINE Goal == /\ HandsOn(code', source, Len(code), source', open, open', t)
                   /\ Holds(source', Len(code'), open'[t], t)
<1>9. ASSUME Top(open).kind = "init", b.kind = "limit", b.start = Len(code') PROVE Goal
  BY <1>3, <1>9 DEF HandsOn, TestWaits, SkipWaits, Tester, Holds
<1>10. ASSUME Top(open).kind \in {"for", "step"}, b.kind \in {"step", "stepped"},
              b.test = Top(open).test, b.start = Top(open).start
       PROVE  Goal
  <2>1. l = t BY <1>6, <1>8, <1>10
  <2>2. Level(source, Len(source)) + Rise(m.kind) >= t BY <1>3, <2>1 DEF l
  <2>3. \A k \in DOMAIN source :
          /\ TestWaits(source, Len(code), open[t], t, k) => TestWaits(source', Len(code'), open'[t], t, k)
          /\ ~SkipWaits(source, open[t], t, k)
    <3> SUFFICES ASSUME NEW k \in DOMAIN source
                 PROVE  /\ TestWaits(source, Len(code), open[t], t, k) =>
                             TestWaits(source', Len(code'), open'[t], t, k)
                        /\ ~SkipWaits(source, open[t], t, k)
      OBVIOUS
    <3>2. b.kind = Top(open).kind \/ {b.kind, Top(open).kind} \subseteq {"for", "step", "stepped"}
      BY <1>10
    <3>3. TestWaits(source, Len(code), Top(open), t, k) => TestWaits(source', Len(code'), b, t, k)
      BY <1>1, <1>7, <1>10, <2>2, <3>2, WaitsKept
    <3> QED BY <1>3, <1>10, <3>3 DEF SkipWaits
  <2>5. Holds(source', Len(code'), open'[t], t)
    <3>2. PICK k \in DOMAIN source : TestWaits(source, Len(code), open[t], t, k)
      BY <1>2, <1>3, <1>4, <1>10 DEF Holds
    <3>3. k \in DOMAIN source' BY <1>1, WrittenText
    <3> QED BY <1>3, <1>10, <2>3, <3>2, <3>3 DEF Holds
  <2> QED BY <1>4, <2>3, <2>5 DEF HandsOn
<1>11. Goal BY <1>9, <1>10
<1> HIDE DEF Goal
<1>13. HandsOn(code', source, Len(code), source', open, open', t) /\ Holds(source', Len(code'), open'[t], t)
  BY <1>11 DEF Goal
<1>14. Arrives(code', source', open', t) BY <1>1, <1>13, WrittenText DEF Arrives, Closers, Branches
<1>15. Owned({}, source, Len(code), open) BY DEF Owned
<1>16. Piece(code', m.kind, Len(code), Len(code')) BY <1>1, <1>2
<1>17. LET k == Level(source, Len(source)) + Rise(m.kind) IN
        /\ k >= t - 1 /\ (m.kind \in {"else", "elseif"} => k > t - 1) /\ k = Height(open')
  BY <1>7, <1>8 DEF l
<1> QED BY <1>1, <1>2, <1>3, <1>13, <1>14, <1>15, <1>16, <1>17, StepText

LEMMA PartAdds ==
  ASSUME NEW kind, kind # "RETURN", Adds(kind), NEW part, part # "RETURN" PROVE Adds(part)
  BY DEF Adds

LEMMA FlowStatement ==
  ASSUME Inv, BalanceInv, FlowInv, Statement, status' = "emitting" PROVE FlowInv'
<1>1. status = "emitting" /\ open' = open BY DEF Statement, InList, Emitting
<1>2. PICK st \in parse_stmt : emit_stmt(st) /\ Note(st.kind) BY DEF Statement
<1> DEFINE kind == st.kind
<1>3. kind \in MarkKinds /\ kind \notin Branches \cup Closers \cup {"else", "step"}
  BY DEF parse_stmt, Declarations, MarkKinds, Branches, Closers
<1>4. Adds(kind) BY <1>1, <1>2, Emitted, StmtAdds
<1> HIDE DEF kind
<1>5. Note(kind) BY <1>2 DEF kind
<1>6. PICK e \in Seq(Instruction) : code' = code \o e /\ Piece(code', kind, Here, Len(code'))
  BY <1>1, <1>3, <1>4, <1>5, AddedPiece
<1>7. open = << >> \/ Top(open).kind \notin {"init", "limit"} BY DEF Statement, InList, Emitting
<1>8. FlowText(code', source', Len(code'), open') BY <1>1, <1>3, <1>5, <1>6, <1>7, FlowPlain
<1> QED BY <1>8 DEF FlowInv, Here

LEMMA LoopHeaderAdds ==
  ASSUME Inv, BalanceInv, status = "emitting", status' = "emitting",
         NEW st \in parse_loop_header_stmt, emit_stmt(st), NEW part, part # "RETURN"
  PROVE  Adds(part)
<1>1. Adds(st.kind) BY Emitted, StmtAdds
<1>2. st.kind # "RETURN" BY DEF parse_loop_header_stmt, Declarations
<1> QED BY <1>1, <1>2, PartAdds

LEMMA FlowForPart ==
  ASSUME Inv, BalanceInv, FlowInv, ForInit \/ ForBodyEnd \/ ForStep, status' = "emitting"
  PROVE  FlowInv'
<1>2. status = "emitting" /\ open # << >> /\ Top(open) \in Block /\ open \in Seq(Block)
      /\ code \in Seq(Instruction) /\ Here = Len(code) /\ Here \in Nat
  BY TopOf, Emitted DEF ForInit, ForBodyEnd, ForStep, Emitting
<1>3. CASE ForInit
  <2>1. PICK st \in parse_loop_header_stmt, n \in Names \cup {Garbage} :
          /\ emit_stmt(st)
          /\ open' = Append(Below(open),
                            [Opened("limit", 0, Len(code'), {}) EXCEPT !.iter = n])
    BY <1>3 DEF ForInit
  <2> DEFINE b == [Opened("limit", 0, Len(code'), {}) EXCEPT !.iter = n]
  <2>2. Top(open).kind = "init" /\ Note("init") /\ "init" \in MarkKinds
        /\ "init" \notin Branches \cup Closers \cup {"else", "step"}
    BY <1>2, <1>3 DEF ForInit, Emitting, MarkKinds, Branches, Closers
  <2>3. Adds("init") BY <1>2, <2>1, LoopHeaderAdds
  <2>4. PICK e \in Seq(Instruction) : code' = code \o e /\ Piece(code', "init", Here, Len(code'))
    BY <1>2, <2>2, <2>3, AddedPiece
  <2>5. b \in Block /\ b.kind = "limit" /\ b.start = Len(code')
    <3>1. Len(code') \in Int BY <1>2, <2>4, JoinTwo
    <3> DEFINE new == Opened("limit", 0, Len(code'), {})
    <3>3. new \in Block /\ new.kind = "limit" /\ new.start = Len(code')
      BY <3>1, OpenedType, OpenedIs DEF BlockKinds, LoopKinds
    <3> HIDE DEF new
    <3> QED BY <2>1, <3>3 DEF new, Block
  <2> HIDE DEF b
  <2>6. open' = Append(Below(open), b) BY <2>1 DEF b
  <2>7. FlowText(code', source', Len(code'), open') BY <1>2, <2>2, <2>4, <2>5, <2>6, FlowGoesOn
  <2> QED BY <2>7 DEF FlowInv, Here
<1>4. ASSUME NEW part \in {"step", "stepped"}, Note(part), Top(open).kind \in {"for", "step"},
             open' = Append(Below(open), [Top(open) EXCEPT !.kind = part]),
             NEW e \in Seq(Instruction), code' = code \o e, Piece(code', part, Here, Len(code'))
      PROVE  FlowInv'
  <2> DEFINE b == [Top(open) EXCEPT !.kind = part]
  <2>1. b \in Block /\ b.kind = part /\ b.test = Top(open).test /\ b.start = Top(open).start
    BY <1>2 DEF Block, BlockKinds, LoopKinds
  <2> HIDE DEF b
  <2>2. part \in MarkKinds /\ part \notin Branches \cup Closers \cup {"else"}
    BY DEF MarkKinds, Branches, Closers
  <2>3. open' = Append(Below(open), b) BY <1>4 DEF b
  <2>4. FlowText(code', source', Len(code'), open') BY <1>2, <1>4, <2>1, <2>2, <2>3, FlowGoesOn
  <2> QED BY <2>4 DEF FlowInv, Here
<1>5. CASE ForBodyEnd
  <2>1. /\ Note("step") /\ Top(open).kind = "for" /\ code' = code
        /\ open' = Append(Below(open), [Top(open) EXCEPT !.kind = "step"])
    BY <1>2, <1>5 DEF ForBodyEnd, Emitting
  <2>2. << >> \in Seq(Instruction) /\ code' = code \o << >> BY <1>2, <2>1, NoCode
  <2>3. Piece(code', "step", Here, Len(code')) BY <1>2, <2>1 DEF Piece, Openers, Branches, Closers
  <2> QED BY <1>4, <2>1, <2>2, <2>3
<1>6. CASE ForStep
  <2>1. PICK st \in parse_loop_header_stmt : emit_stmt(st) BY <1>6 DEF ForStep
  <2>2. /\ Note("stepped") /\ Top(open).kind = "step"
        /\ open' = Append(Below(open), [Top(open) EXCEPT !.kind = "stepped"])
    BY <1>2, <1>6 DEF ForStep, Emitting
  <2>3. Adds("stepped") BY <1>2, <2>1, LoopHeaderAdds
  <2>5. PICK e \in Seq(Instruction) :
          code' = code \o e /\ Piece(code', "stepped", Here, Len(code'))
    BY <1>2, <2>2, <2>3, AddedPiece DEF MarkKinds, Branches, Closers
  <2> QED BY <1>4, <2>2, <2>5
<1> QED BY <1>3, <1>5, <1>6

\* A condition, and its jump that waits.
LEMMA JumpLast ==
  ASSUME NEW f \in Seq(QuietInstruction), NEW i \in Instruction
  PROVE  /\ f \o <<i>> \in Seq(Instruction) /\ Len(f \o <<i>>) = Len(f) + 1 /\ Len(f) \in Nat
         /\ Quiet(f \o <<i>>, 0, Len(f)) /\ At(f \o <<i>>, Len(f)) = i
<1> DEFINE g == <<i>>
           e == f \o g
<1>1. f \in Seq(Instruction) /\ Len(f) \in Nat /\ Quiet(f, 0, Len(f)) BY QuietIs
<1>2. g \in Seq(Instruction) /\ Len(g) = 1 /\ g[1] = i OBVIOUS
<1> HIDE DEF g
<1>3. e \in Seq(Instruction) /\ Len(e) = Len(f) + 1 BY <1>1, <1>2, JoinTwo
<1>4. (\A a \in 1..Len(f) : e[a] = f[a]) /\ \A a \in 1..Len(g) : e[Len(f) + a] = g[a]
  BY <1>1, <1>2, JoinAt
<1> HIDE DEF e
<1>5. e[Len(f) + 1] = i BY <1>2, <1>4
<1>7. Quiet(e, 0, Len(f)) BY <1>1, <1>4 DEF Quiet, At
<1> QED BY <1>1, <1>3, <1>5, <1>7 DEF At, e, g

LEMMA TestIs ==
  ASSUME NEW n, NEW m, Slotted(m, n), NEW e, Known(m, e)
  PROVE  /\ Test(m, e) \in Seq(Instruction) /\ Len(Test(m, e)) = 2
         /\ Quiet(Test(m, e), 0, 1) /\ At(Test(m, e), 1).op = "JMP_IF_FALSE"
<1> DEFINE f == emit_expr(m, e)
           i == I("JMP_IF_FALSE", 0)
<1>1. f \in Seq(QuietInstruction) /\ Len(f) = 1 BY QuietExpr
<1>2. i \in Instruction /\ i.op = "JMP_IF_FALSE" BY DEF I, Instruction, Opcodes
<1>3. Test(m, e) = f \o <<i>> BY DEF Test
<1> HIDE DEF f, i
<1>4. /\ f \o <<i>> \in Seq(Instruction) /\ Len(f \o <<i>>) = Len(f) + 1
      /\ Quiet(f \o <<i>>, 0, Len(f)) /\ At(f \o <<i>>, Len(f)) = i
  BY <1>1, <1>2, JumpLast
<1> QED BY <1>1, <1>2, <1>3, <1>4

\* The code of a condition of a FOR is added.
Limits(c, d) ==
  \E e \in Seq(Instruction) :
    d = c \o e /\ Len(e) = 4 /\ Quiet(e, 0, 3) /\ At(e, 3).op = "JMP_IF_FALSE"

LEMMA LimitIs ==
  ASSUME NEW c \in Seq(Instruction), NEW x \in Seq(QuietInstruction), Len(x) = 1,
         NEW y \in Seq(QuietInstruction), Len(y) = 1,
         NEW z, z = <<I("LT", 0), I("JMP_IF_FALSE", 0)>>, NEW d, d = c \o x \o y \o z
  PROVE  Limits(c, d)
<1> DEFINE l == <<I("LT", 0)>>
           i == I("JMP_IF_FALSE", 0)
           f == (x \o y) \o l
           e == f \o <<i>>
<1>2. l \in Seq(QuietInstruction) /\ Len(l) = 1 BY QuietOne
<1>3. i \in Instruction /\ i.op = "JMP_IF_FALSE" BY DEF I, Instruction, Opcodes
<1>4. d = ((c \o x) \o y) \o (l \o <<i>>) BY Pair
<1> HIDE DEF l, i
<1>5. x \in Seq(Instruction) /\ y \in Seq(Instruction) /\ l \in Seq(Instruction) BY <1>2, QuietIs
<1>6. f \in Seq(QuietInstruction) /\ x \o y \in Seq(Instruction) BY <1>2, <1>5, QuietJoin, JoinTwo
<1>7. Len(f) = 3
  <2>1. PICK p : p = x \o y OBVIOUS
  <2>2. p \in Seq(Instruction) /\ Len(p) = Len(x) + Len(y) BY <1>5, <2>1, JoinTwo
  <2>3. Len(p \o l) = Len(p) + Len(l) BY <1>5, <2>2, JoinTwo
  <2> QED BY <1>2, <2>1, <2>2, <2>3
<1>8. /\ e \in Seq(Instruction) /\ Len(e) = Len(f) + 1 /\ Quiet(e, 0, Len(f)) /\ At(e, Len(f)) = i
  BY <1>3, <1>6, JumpLast
<1>9. d = c \o e
  <2>1. PICK j : j = <<i>> OBVIOUS
  <2>2. j \in Seq(Instruction) BY <1>3, <2>1
  <2>3. (c \o x) \o y = c \o (x \o y) BY <1>5, JoinThree
  <2>6. PICK p : p = x \o y OBVIOUS
  <2>7. PICK q : q = l \o j OBVIOUS
  <2>8. p \in Seq(Instruction) /\ q \in Seq(Instruction) BY <1>5, <1>6, <2>2, <2>6, <2>7, JoinTwo
  <2>4. c \o (p \o q) = (c \o p) \o q BY <2>8, JoinThree
  <2>5. p \o (l \o j) = (p \o l) \o j
    <3>1. l \in Seq(Instruction) /\ j \in Seq(Instruction) /\ p \in Seq(Instruction)
      BY <1>5, <2>2, <2>8
    <3> QED BY <3>1, JoinThree, Zenon
  <2>9. d = (c \o p) \o q BY <1>4, <2>1, <2>3, <2>6, <2>7, Zenon
  <2>10. e = (p \o l) \o j BY <2>1, <2>6, Zenon
  <2> QED BY <2>4, <2>5, <2>7, <2>9, <2>10, Zenon
<1> HIDE DEF e, f
<1>10. Len(e) = 4 /\ Quiet(e, 0, 3) /\ At(e, 3) = i BY <1>7, <1>8
<1> QED BY <1>3, <1>8, <1>9, <1>10, Zenon DEF Limits

\* A statement with a block begins.
LEMMA FlowOpens ==
  ASSUME Inv, BalanceInv, FlowInv, status = "emitting", NEW kind \in Openers, Note(kind),
         NEW e \in Seq(Instruction), code' = code \o e, Len(e) >= 2,
         Quiet(e, 0, Len(e) - 1), At(e, Len(e) - 1).op = "JMP_IF_FALSE",
         NEW b \in Block, b.kind \in {"then", "while", "for"}, kind \in Tester(b.kind),
         b.test = Here + Len(e) - 1, b.kind # "then" => b.start = Here, b.ends = {},
         \/ /\ open = << >> \/ Top(open).kind \notin {"init", "limit"}
            /\ open' = Append(open, b)
         \/ open # << >> /\ Top(open).kind = "limit" /\ open' = Append(Below(open), b)
  PROVE  FlowText(code', source', Len(code'), open')
<1> DEFINE m == Noted(kind)
           L == Len(source)
<1>0. kind \in MarkKinds /\ kind \in Branches /\ kind \notin {"else", "elseif"} \cup Closers
  BY DEF MarkKinds, Openers, Branches, Closers
<1>1. /\ Written(code, code', {}, source, source', m) /\ m.kind = kind /\ m.at = Here
      /\ Len(code') = Here + Len(e) /\ Len(e) \in Nat
      /\ \A a \in 0..(Len(e) - 1) : At(code', Here + a) = At(e, a)
  BY <1>0, AddedWritten
<1>2. /\ FlowText(code, source, Len(code), open) /\ open \in Seq(Block)
      /\ Level(source, L) = Height(open) /\ Holders(source, Len(code), open)
      /\ Here = Len(code) /\ Here \in Nat
  BY Flowing
<1> HIDE DEF m
<1>3. /\ L \in Nat /\ Len(source') = L + 1 /\ DOMAIN source' = 1..(L + 1) /\ source'[L + 1] = m
      /\ Place(source', Len(code'), L + 2) = Len(code')
      /\ Level(source', L + 1) = Level(source, L) + Rise(m.kind)
  <2>2. PICK c, d, src, tgt, mm :
          c = code /\ d = code' /\ src = source /\ tgt = source' /\ mm = m
    OBVIOUS
  <2>3. Written(c, d, {}, src, tgt, mm) BY <1>1, <2>2
  <2>4. /\ Len(src) \in Nat /\ Len(tgt) = Len(src) + 1 /\ DOMAIN tgt = 1..(Len(src) + 1)
        /\ tgt[Len(src) + 1] = mm /\ Place(tgt, Len(d), Len(src) + 2) = Len(d)
        /\ Level(tgt, Len(src) + 1) = Level(src, Len(src)) + Rise(mm.kind)
    BY <2>3, WrittenText
  <2> QED BY <2>2, <2>4
<1> HIDE DEF L
<1>4. Rise(m.kind) = 1 BY <1>1 DEF Rise
<1>5. Piece(code', m.kind, Len(code), Len(code'))
  <2>1. Len(e) - 1 \in Nat BY <1>1
  <2>2. At(code', Here + (Len(e) - 1)) = At(e, Len(e) - 1) /\ Here + (Len(e) - 1) = Len(code') - 1
    BY <1>1, <1>2, <2>1
  <2>3. Quiet(code', Here, Here + (Len(e) - 1))
    <3>1. PICK n : n = Len(e) - 1 OBVIOUS
    <3>2. n \in Nat /\ Quiet(e, 0, n) /\ \A x \in 0..(n - 1) : At(code', Here + x) = At(e, x)
      BY <1>1, <2>1, <3>1
    <3> QED BY <1>2, <3>1, <3>2, QuietPart
  <2>4. Here + 2 <= Len(code') /\ Here <= Len(code') BY <1>1, <1>2
  <2>5. kind \notin {"elseif", "else", "endwhile", "endfor", "endif", "step", "RETURN"}
    BY DEF Openers
  <2> QED BY <1>0, <1>1, <1>2, <2>2, <2>3, <2>4, <2>5 DEF Piece
<1>6. \E t : /\ Apart(open, open', t) /\ t \in Nat \ {0} /\ open'[t] = b /\ Len(open') = t
             /\ Level(source, L) = t - 1 /\ Height(open') = t
             /\ (t \in DOMAIN open => open[t].kind = "limit")
  <2>1. CASE /\ open = << >> \/ Top(open).kind \notin {"init", "limit"}
             /\ open' = Append(open, b)
    <3> DEFINE t == Len(open) + 1
    <3>1. /\ Apart(open, open', t) /\ open'[t] = b /\ Len(open') = t /\ Len(open) \in Nat
          /\ Height(open) = Len(open)
      BY <1>2, <2>1, ApartIs
    <3>2. Height(open') = t BY <1>2, <2>1, HeightIs
    <3> QED BY <1>2, <3>1, <3>2
  <2>2. CASE open # << >> /\ Top(open).kind = "limit" /\ open' = Append(Below(open), b)
    <3> DEFINE t == Len(open)
    <3>1. /\ Apart(open, open', t) /\ open'[t] = b /\ Len(open') = t /\ t \in Nat \ {0}
          /\ open[t] = Top(open) /\ Len(Below(open)) = t - 1
      BY <1>2, <2>2, ApartIs
    <3>2. Height(open') = t
      <4>1. Below(open) \in Seq(Block) BY <1>2, <2>2, BelowIsSeq
      <4> QED BY <2>2, <3>1, <4>1, HeightIs
    <3> QED BY <1>2, <2>2, <3>1, <3>2 DEF Height
  <2> QED BY <2>1, <2>2
<1>7. PICK t : /\ Apart(open, open', t) /\ t \in Nat \ {0} /\ open'[t] = b /\ Len(open') = t
             /\ Level(source, L) = t - 1 /\ Height(open') = t
             /\ (t \in DOMAIN open => open[t].kind = "limit")
  BY <1>6
<1>8. t \in DOMAIN open'
  <2>2. t \in 1..t BY <1>7
  <2> QED BY <1>7, <2>2 DEF Apart
<1>9. TestWaits(source', Len(code'), b, t, L + 1)
  <2>1. b.test = Len(code') - 1 BY <1>1, <1>2
  <2>2. Level(source', L + 1) = t BY <1>3, <1>4, <1>7
  <2> QED BY <1>1, <1>3, <2>1, <2>2 DEF TestWaits
<1>10. HandsOn(code', source, Len(code), source', open, open', t)
  BY <1>7 DEF HandsOn, TestWaits, SkipWaits, Tester
<1>11. Holds(source', Len(code'), b, t)
  <2>1. L + 1 \in DOMAIN source' BY <1>3
  <2> QED BY <1>9, <2>1 DEF Holds
<1>12. source'[Len(source')].kind = kind BY <1>1, <1>3
<1>13. Arrives(code', source', open', t)
  BY <1>0, <1>3, <1>7, <1>8, <1>9, <1>11, <1>12 DEF Arrives, Closers
<1>14. Owned({}, source, Len(code), open) BY DEF Owned
<1>15. LET l == Level(source, Len(source)) + Rise(m.kind) IN
        /\ l >= t - 1 /\ (m.kind \in {"else", "elseif"} => l > t - 1) /\ l = Height(open')
  BY <1>4, <1>7 DEF L
<1> QED BY <1>1, <1>2, <1>5, <1>7, <1>10, <1>13, <1>14, <1>15, StepText

LEMMA FlowBegins ==
  ASSUME Inv, BalanceInv, FlowInv, If \/ While \/ ForLimit, status' = "emitting" PROVE FlowInv'
<1>1. status = "emitting" BY DEF If, While, ForLimit, Opens, InList, Emitting
<1>2. /\ code \in Seq(Instruction) /\ Here \in Nat /\ Here = Len(code) /\ open \in Seq(Block)
      /\ Slotted(map, Len(locals))
  BY <1>1, Emitted
<1>3. CASE If \/ While
  <2>1. PICK kind \in {"then", "while"}, mark \in {"if", "while"}, cond \in Operands, start \in {0, Here} :
          /\ Known(map, cond) /\ code' = code \o Test(map, cond)
          /\ open' = Append(open, Opened(kind, Here + 1, start, {})) /\ Note(mark)
          /\ mark \in Tester(kind) /\ (kind # "then" => start = Here)
    BY <1>3, Zenon DEF If, While, Fail, Tester
  <2> DEFINE e == Test(map, cond)
             b == Opened(kind, Here + 1, start, {})
  <2>2. e \in Seq(Instruction) /\ Len(e) = 2 /\ Quiet(e, 0, 1) /\ At(e, 1).op = "JMP_IF_FALSE"
    BY <1>2, <2>1, TestIs
  <2>3. b \in Block /\ b.kind = kind /\ b.test = Here + 1 /\ b.start = start /\ b.ends = {}
    BY <1>2, <2>1, OpenedType, OpenedIs DEF BlockKinds, LoopKinds
  <2>4. code' = code \o e /\ open' = Append(open, b) BY <2>1
  <2> HIDE DEF e, b
  <2>5. open = << >> \/ Top(open).kind \notin {"init", "limit"}
    BY <1>3 DEF If, While, Opens, InList, Emitting
  <2>6. Len(e) >= 2 /\ Len(e) - 1 = 1 /\ Here + Len(e) - 1 = Here + 1 BY <1>2, <2>2
  <2>7. mark \in Openers BY <2>1 DEF Openers
  <2>8. FlowText(code', source', Len(code'), open')
    BY <1>1, <2>1, <2>2, <2>3, <2>4, <2>5, <2>6, <2>7, FlowOpens
  <2> QED BY <2>8 DEF FlowInv, Here
<1>4. CASE ForLimit
  <2> DEFINE iter == Top(open).iter
  <2>1. PICK limit \in Operands :
          /\ Known(map, iter) /\ Known(map, limit)
          /\ code' = code \o emit_expr(map, iter) \o emit_expr(map, limit)
                       \o <<I("LT", 0), I("JMP_IF_FALSE", 0)>>
          /\ open' = Append(Below(open), Opened("for", Here + 3, Top(open).start, {}))
    BY <1>4, Zenon DEF ForLimit, Fail
  <2>2. Note("for") /\ open # << >> /\ Top(open).kind = "limit" /\ "for" \in Openers
    BY <1>4 DEF ForLimit, Emitting, Openers
  <2>3. Top(open).start = Here BY <1>1, <1>2, <2>2, Flowing DEF Top, Holds
  <2> DEFINE b == Opened("for", Here + 3, Here, {})
  <2>4. b \in Block /\ b.kind = "for" /\ b.test = Here + 3 /\ b.start = Here /\ b.ends = {}
    BY <1>2, OpenedType, OpenedIs DEF BlockKinds, LoopKinds
  <2>5. PICK e \in Seq(Instruction) :
           code' = code \o e /\ Len(e) = 4 /\ Quiet(e, 0, 3) /\ At(e, 3).op = "JMP_IF_FALSE"
    <3>1. PICK c, d, x, y, z : /\ c = code /\ d = code'
                           /\ z = <<I("LT", 0), I("JMP_IF_FALSE", 0)>>
                           /\ x = emit_expr(map, iter) /\ y = emit_expr(map, limit)
      OBVIOUS
    <3>2. x \in Seq(QuietInstruction) /\ Len(x) = 1 /\ y \in Seq(QuietInstruction) /\ Len(y) = 1
      BY <1>2, <2>1, <3>1, QuietExpr
    <3>3. d = c \o x \o y \o z /\ c \in Seq(Instruction) BY <1>2, <2>1, <3>1, Zenon
    <3>4. Limits(c, d) BY <3>1, <3>2, <3>3, LimitIs
    <3> QED BY <3>1, <3>4 DEF Limits
  <2>6. open' = Append(Below(open), b) BY <2>1, <2>3
  <2> HIDE DEF b, iter
  <2>7. Len(e) >= 2 /\ Len(e) - 1 = 3 /\ Here + Len(e) - 1 = Here + 3 BY <1>2, <2>5
  <2>8. "for" \in Tester(b.kind) BY <2>4 DEF Tester
  <2>9. FlowText(code', source', Len(code'), open')
    BY <1>1, <2>2, <2>4, <2>5, <2>6, <2>7, <2>8, FlowOpens
  <2> QED BY <2>9 DEF FlowInv, Here
<1> QED BY <1>3, <1>4

LEMMA LevelStep ==
  ASSUME NEW src, NEW x \in Nat \ {0}
  PROVE  Level(src, x) = Level(src, x - 1) + Rise(src[x].kind) /\ Level(src, x - 1) \in Int
<1>1. x - 1 \in Nat /\ (x - 1) + 1 = x OBVIOUS
<1> QED BY <1>1, LevelIs

LEMMA RiseIs ==
  /\ \A kind \in Openers : Rise(kind) = 1
  /\ \A kind \in Closers : Rise(kind) = -1
  /\ \A kind \in {"else", "elseif"} : Rise(kind) = 0
  BY DEF Rise, Openers, Closers

\* The last mark ends what waits for it.
LEMMA FollowsLast ==
  ASSUME NEW c, NEW d, NEW W, NEW src, NEW tgt, NEW m, Written(c, d, W, src, tgt, m),
         NEW b, NEW t \in Int, Level(src, Len(src)) = t, NEW k \in DOMAIN src
  PROVE  /\ TestWaits(src, Len(c), b, t, k) /\ m.kind \in Ending(src[k].kind) =>
              Follows(tgt, k, Ending(src[k].kind), Len(src) + 1)
         /\ SkipWaits(src, b, t, k) /\ m.kind = "endif" => Follows(tgt, k, {"endif"}, Len(src) + 1)
<1> DEFINE L == Len(src)
<1>1. /\ L \in Nat /\ DOMAIN src = 1..L /\ Len(tgt) = L + 1 /\ tgt[L + 1] = m
      /\ \A x \in 1..L : tgt[x] = src[x]
      /\ \A x \in 0..L : Level(tgt, x) = Level(src, x)
  BY WrittenText
<1>2. k \in 1..L /\ Level(src, L) = t BY <1>1
<1> HIDE DEF L
<1>3. ASSUME NEW x \in (k + 1)..L
      PROVE  /\ x \in 1..L /\ tgt[x] = src[x] /\ Level(tgt, x - 1) = Level(src, x - 1)
             /\ Level(src, x) = Level(src, x - 1) + Rise(src[x].kind) /\ Level(src, x - 1) \in Int
  <2>1. x \in Nat \ {0} /\ x \in 1..L /\ x - 1 \in 0..L BY <1>1, <1>2
  <2> QED BY <1>1, <2>1, LevelStep
<1>4. ASSUME Level(src, k) = t, NEW kinds, m.kind \in kinds,
             \A x \in (k + 1)..L : ~(src[x].kind \in kinds /\ Level(src, x - 1) = t)
      PROVE  Follows(tgt, k, kinds, L + 1)
  BY <1>1, <1>2, <1>3, <1>4 DEF Follows
<1>5. ASSUME TestWaits(src, Len(c), b, t, k), m.kind \in Ending(src[k].kind)
      PROVE  Follows(tgt, k, Ending(src[k].kind), L + 1)
  <2>1. /\ src[k].kind \in Branches /\ Level(src, k) = t
        /\ \A x \in (k + 1)..L :
             Level(src, x) >= t /\ (Level(src, x) = t => src[x].kind \notin {"else", "elseif"})
    BY <1>5 DEF TestWaits, Tester, Branches, L
  <2>3. ASSUME NEW x \in (k + 1)..L, src[x].kind \in Ending(src[k].kind), Level(src, x - 1) = t
        PROVE  FALSE
    <3>1. CASE src[x].kind \in {"else", "elseif"} BY <1>3, <2>1, <2>3, <3>1, RiseIs
    <3>2. CASE src[x].kind \in Closers BY <1>3, <2>1, <2>3, <3>2, RiseIs
    <3> QED BY <2>1, <2>3, <3>1, <3>2 DEF Ending, Closers, Branches
  <2> QED BY <1>4, <1>5, <2>1, <2>3
<1>6. ASSUME SkipWaits(src, b, t, k), m.kind = "endif" PROVE Follows(tgt, k, {"endif"}, L + 1)
  <2>1. Level(src, k) = t /\ \A x \in (k + 1)..L : Level(src, x) >= t BY <1>6 DEF SkipWaits, L
  <2>2. ASSUME NEW x \in (k + 1)..L, src[x].kind \in {"endif"}, Level(src, x - 1) = t PROVE FALSE
    BY <1>3, <2>1, <2>2, RiseIs DEF Closers
  <2>3. m.kind \in {"endif"} BY <1>6
  <2> QED BY <1>4, <2>1, <2>2, <2>3
<1> QED BY <1>5, <1>6 DEF L

\* The end of a loop goes back to the condition that waits.
LEMMA PrecedesLast ==
  ASSUME NEW c, NEW d, NEW W, NEW src, NEW tgt, NEW m, Written(c, d, W, src, tgt, m),
         NEW b, NEW t \in Int, Level(src, Len(src)) = t, NEW k \in DOMAIN src,
         TestWaits(src, Len(c), b, t, k), src[k].kind \in OpenedBy(m.kind)
  PROVE  Precedes(tgt, Len(src) + 1, OpenedBy(m.kind), k)
<1> DEFINE L == Len(src)
<1>1. /\ L \in Nat /\ DOMAIN src = 1..L /\ Len(tgt) = L + 1 /\ tgt[L + 1] = m
      /\ \A x \in 1..L : tgt[x] = src[x]
      /\ \A x \in 0..L : Level(tgt, x) = Level(src, x)
  BY WrittenText
<1>2. k \in 1..L /\ Level(src, L) = t BY <1>1
<1>3. Level(src, k) = t /\ \A x \in (k + 1)..L : Level(src, x) >= t BY DEF TestWaits
<1> HIDE DEF L
<1>4. ASSUME NEW x \in (k + 1)..L
      PROVE  ~(tgt[x].kind \in OpenedBy(m.kind) /\ Level(tgt, L) = Level(tgt, x))
  <2>1. /\ x \in Nat \ {0} /\ x \in 1..L /\ x \in 0..L /\ L \in 0..L
        /\ x - 1 = k \/ x - 1 \in (k + 1)..L
    BY <1>1, <1>2
  <2>2. tgt[x] = src[x] /\ Level(tgt, x) = Level(src, x) /\ Level(tgt, L) = t BY <1>1, <1>2, <2>1
  <2>3. Level(src, x - 1) >= t BY <1>3, <2>1
  <2>4. /\ Level(src, x) = Level(src, x - 1) + Rise(src[x].kind) /\ Level(src, x - 1) \in Int
    BY <2>1, LevelStep
  <2> QED BY <2>2, <2>3, <2>4, RiseIs DEF OpenedBy, Openers
<1>5. k \in 1..((L + 1) - 1) /\ (L + 1) - 1 = L /\ k \in 0..L /\ L \in 0..L BY <1>1, <1>2
<1>6. Level(tgt, L) = Level(tgt, k) /\ tgt[k].kind \in OpenedBy(m.kind) BY <1>1, <1>2, <1>3, <1>5
<1> QED BY <1>4, <1>5, <1>6 DEF Precedes, L

\* Jumps that are patched lead to the target.
LEMMA PatchAt ==
  ASSUME NEW c \in Seq(Instruction), NEW ats, NEW target \in Int
  PROVE  /\ Patch(c, ats, target) \in Seq(Instruction) /\ Len(Patch(c, ats, target)) = Len(c)
         /\ \A a \in 0..(Len(c) - 1) :
              LET p == Patch(c, ats, target) IN
              /\ At(p, a).op = At(c, a).op /\ (a \notin ats => At(p, a) = At(c, a))
              /\ a \in ats => JumpTarget(p, a) = target /\ At(p, a) = I(At(c, a).op, target - (a + 1))
<1> DEFINE p == Patch(c, ats, target)
<1>2. ASSUME NEW a \in 0..(Len(c) - 1)
      PROVE  /\ At(p, a).op = At(c, a).op /\ (a \notin ats => At(p, a) = At(c, a))
             /\ a \in ats => JumpTarget(p, a) = target /\ At(p, a) = I(At(c, a).op, target - (a + 1))
  <2>1. a + 1 \in DOMAIN c /\ (a + 1) - 1 = a /\ a \in Int OBVIOUS
  <2>2. p[a + 1] = IF (a + 1) - 1 \in ats THEN I(c[a + 1].op, target - (a + 1)) ELSE c[a + 1]
    BY <2>1 DEF Patch
  <2> HIDE DEF p
  <2>3. a \notin ats => p[a + 1] = c[a + 1] BY <2>1, <2>2
  <2>4. a \in ats => p[a + 1] = I(c[a + 1].op, target - (a + 1)) BY <2>1, <2>2
  <2>5. \A op, arg : I(op, arg).op = op /\ I(op, arg).arg = arg BY DEF I
  <2> QED BY <2>1, <2>3, <2>4, <2>5 DEF At, JumpTarget
<1> QED BY <1>2, PatchLen

\* A jump is added, and those at some addresses patched to lead past it.
JumpAdded(c, p, ats) ==
  /\ p \in Seq(Instruction) /\ Len(p) = Len(c) + 1 /\ Len(c) \in Nat
  /\ \A a \in 0..(Len(c) - 1) :
       /\ At(p, a).op = At(c, a).op /\ (a \notin ats => At(p, a) = At(c, a))
       /\ a \in ats => JumpTarget(p, a) = Len(c) + 1
  /\ At(p, Len(c)).op = "JMP"

LEMMA JumpPatched ==
  ASSUME NEW c \in Seq(Instruction), NEW arg \in Int, NEW ats, NEW p,
         p = Patch(Append(c, I("JMP", arg)), ats, Len(c) + 1)
  PROVE  /\ JumpAdded(c, p, ats)
         /\ Len(c) \notin ats => At(p, Len(c)) = I("JMP", arg)
         /\ Len(c) \in ats => At(p, Len(c)) = I("JMP", 0)
<1> DEFINE i == I("JMP", arg)
           e == Append(c, i)
           n == Len(c)
<1>1. i \in Instruction /\ i.op = "JMP" BY DEF I, Instruction, Opcodes
<1> HIDE DEF i
<1>2. e \in Seq(Instruction) /\ Len(e) = n + 1 /\ n \in Nat /\ e[n + 1] = i BY <1>1
<1>3. \A a \in 1..n : e[a] = c[a] BY <1>1
<1> HIDE DEF e
<1>4. /\ \A a \in 0..(n - 1) : At(e, a) = At(c, a)
      /\ At(e, n) = i
  BY <1>2, <1>3 DEF At
<1> HIDE DEF n
<1>5. p = Patch(e, ats, n + 1) /\ n + 1 \in Int BY <1>2 DEF e, i, n
<1>6. /\ p \in Seq(Instruction) /\ Len(p) = Len(e)
      /\ \A a \in 0..(Len(e) - 1) :
           /\ At(p, a).op = At(e, a).op /\ (a \notin ats => At(p, a) = At(e, a))
           /\ a \in ats => /\ JumpTarget(p, a) = n + 1
                           /\ At(p, a) = I(At(e, a).op, (n + 1) - (a + 1))
  BY <1>2, <1>5, PatchAt
<1>7. \A a \in 0..(n - 1) : a \in 0..(Len(e) - 1) BY <1>2
<1>8. n \in 0..(Len(e) - 1) BY <1>2
<1>9. (n + 1) - (n + 1) = 0 BY <1>2
<1>10. JumpAdded(c, p, ats) BY <1>1, <1>2, <1>4, <1>6, <1>7, <1>8 DEF n, JumpAdded
<1> QED BY <1>1, <1>4, <1>6, <1>8, <1>9, <1>10 DEF n, i

\* Jumps that wait are those of the open statement.
LEMMA OwnedIs ==
  ASSUME NEW src, NEW n, NEW blocks, NEW t \in DOMAIN blocks, Holds(src, n, blocks[t], t), NEW W,
         \A w \in W : \/ /\ blocks[t].kind \in {"then", "while", "for", "step", "stepped"}
                         /\ w = blocks[t].test
                      \/ blocks[t].kind \in {"then", "else"} /\ w \in blocks[t].ends
  PROVE  Owned(W, src, n, blocks)
<1> SUFFICES ASSUME NEW w \in W
             PROVE  \E k \in DOMAIN src, i \in DOMAIN blocks :
                      \/ TestWaits(src, n, blocks[i], i, k) /\ w = Place(src, n, k + 1) - 1
                      \/ SkipWaits(src, blocks[i], i, k) /\ w = src[k].at
  BY DEF Owned
<1>1. CASE blocks[t].kind \in {"then", "while", "for", "step", "stepped"} /\ w = blocks[t].test
  <2>1. PICK k \in DOMAIN src : TestWaits(src, n, blocks[t], t, k) BY <1>1 DEF Holds
  <2> QED BY <1>1, <2>1 DEF TestWaits
<1>2. CASE blocks[t].kind \in {"then", "else"} /\ w \in blocks[t].ends
  <2>1. PICK k \in DOMAIN src : SkipWaits(src, blocks[t], t, k) /\ src[k].at = w BY <1>2 DEF Holds
  <2> QED BY <2>1
<1> QED BY <1>1, <1>2

\* A statement with a block ends.
LEMMA EndsText ==
  ASSUME NEW c, NEW d, NEW W, NEW src, NEW tgt, NEW m, Written(c, d, W, src, tgt, m),
         NEW blocks, NEW later, NEW t \in Nat, Apart(blocks, later, t), t \notin DOMAIN later,
         t \in DOMAIN blocks,
         FlowText(c, src, Len(c), blocks), Owned(W, src, Len(c), blocks),
         Piece(d, m.kind, Len(c), Len(d)),
         m.kind \in Closers, Level(src, Len(src)) = t, Height(later) = t - 1,
         \A k \in DOMAIN src :
           /\ TestWaits(src, Len(c), blocks[t], t, k) =>
                m.kind \in Ending(src[k].kind) /\ m.kind \notin {"else", "elseif"}
                  /\ JumpTarget(d, blocks[t].test) = Len(d)
           /\ SkipWaits(src, blocks[t], t, k) =>
                m.kind = "endif" /\ JumpTarget(d, src[k].at) = Len(d),
         m.kind \in {"endwhile", "endfor"} => BackLeads(d, tgt, Len(tgt))
  PROVE  FlowText(d, tgt, Len(d), later)
<1> DEFINE L == Len(src)
<1>1. /\ L \in Nat /\ DOMAIN src = 1..L /\ Len(tgt) = L + 1 /\ tgt[L + 1] = m
      /\ DOMAIN tgt = 1..(L + 1)
      /\ \A x \in 1..L : tgt[x] = src[x]
      /\ \A x \in 1..(L + 1) : Place(tgt, Len(d), x) = Place(src, Len(c), x)
      /\ Place(tgt, Len(d), L + 2) = Len(d)
  BY WrittenText
<1>2. Rise(m.kind) = -1 /\ m.kind \notin Branches \cup {"else", "elseif"}
  BY RiseIs DEF Closers, Branches
<1> HIDE DEF L
<1>3. HandsOn(d, src, Len(c), tgt, blocks, later, t)
  <2>1. ASSUME NEW k \in DOMAIN src
        PROVE  /\ TestWaits(src, Len(c), blocks[t], t, k) => TestLeads(d, tgt, Len(d), k)
               /\ SkipWaits(src, blocks[t], t, k) => SkipLeads(d, tgt, Len(d), k)
    <3>1. /\ k \in 1..L /\ tgt[k] = src[k] /\ k + 1 \in 1..(L + 1)
          /\ Place(tgt, Len(d), k + 1) = Place(src, Len(c), k + 1)
          /\ L + 1 \in DOMAIN tgt /\ (L + 1) + 1 = L + 2
      BY <1>1
    <3>2. ASSUME TestWaits(src, Len(c), blocks[t], t, k) PROVE TestLeads(d, tgt, Len(d), k)
      <4>1. Follows(tgt, k, Ending(tgt[k].kind), L + 1) BY <3>1, <3>2, FollowsLast DEF L
      <4>3. JumpTarget(d, Place(tgt, Len(d), k + 1) - 1) = Place(tgt, Len(d), (L + 1) + 1)
        BY <1>1, <3>1, <3>2 DEF TestWaits
      <4>4. tgt[L + 1].kind # "elseif" BY <1>1, <1>2
      <4> QED BY <3>1, <4>1, <4>3, <4>4 DEF TestLeads
    <3>3. ASSUME SkipWaits(src, blocks[t], t, k) PROVE SkipLeads(d, tgt, Len(d), k)
      <4>2. JumpTarget(d, tgt[k].at) = Place(tgt, Len(d), (L + 1) + 1) BY <1>1, <3>1, <3>3
      <4> QED BY <3>1, <3>3, <4>2, FollowsLast DEF SkipLeads, L
    <3> QED BY <3>2, <3>3
  <2> QED BY <2>1 DEF HandsOn
<1>4. Arrives(d, tgt, later, t) BY <1>1, <1>2 DEF Arrives
<1> QED BY <1>2, <1>3, <1>4, StepText

\* An IF goes on after its block.
LEMMA ElseText ==
  ASSUME NEW c, NEW d, NEW W, NEW src, NEW tgt, NEW m, Written(c, d, W, src, tgt, m),
         NEW blocks, NEW later, NEW t \in Nat, Apart(blocks, later, t), t \in DOMAIN later,
         t \in DOMAIN blocks,
         FlowText(c, src, Len(c), blocks), Owned(W, src, Len(c), blocks),
         Piece(d, m.kind, Len(c), Len(d)),
         Level(src, Len(src)) = t, Height(later) = t,
         blocks[t].kind = "then", Holds(src, Len(c), blocks[t], t),
         later[t].ends = blocks[t].ends \cup {Len(c)}, JumpTarget(d, blocks[t].test) = Len(c) + 1,
         \/ m.kind = "else" /\ later[t].kind = "else" /\ Len(d) = Len(c) + 1
         \/ m.kind = "elseif" /\ later[t].kind = "then" /\ later[t].test = Len(d) - 1
  PROVE  FlowText(d, tgt, Len(d), later)
<1> DEFINE L == Len(src)
           b == blocks[t]
           e == later[t]
<1>1. /\ L \in Nat /\ DOMAIN src = 1..L /\ Len(tgt) = L + 1 /\ tgt[L + 1] = m
      /\ DOMAIN tgt = 1..(L + 1)
      /\ \A x \in 1..L : tgt[x] = src[x]
      /\ \A x \in 1..(L + 1) : Place(tgt, Len(d), x) = Place(src, Len(c), x)
      /\ Place(tgt, Len(d), L + 2) = Len(d)
      /\ Level(tgt, L + 1) = Level(src, L) + Rise(m.kind)
  BY WrittenText
<1>2. Rise(m.kind) = 0 /\ m.kind \in {"else", "elseif"} /\ m.kind \notin {"endwhile", "endfor"}
  BY RiseIs
<1>3. m.at = Len(c) BY DEF Written
<1> HIDE DEF L
<1>4. Level(tgt, L + 1) = t BY <1>1, <1>2 DEF L
<1>5. \A k \in DOMAIN src :
        /\ k \in 1..L /\ tgt[k] = src[k] /\ k + 1 \in 1..(L + 1) /\ k \in DOMAIN tgt
        /\ Place(tgt, Len(d), k + 1) = Place(src, Len(c), k + 1)
  BY <1>1
<1>6. L + 1 \in DOMAIN tgt /\ (L + 1) + 1 = L + 2 /\ ~\E x \in (L + 2)..(L + 1) : TRUE BY <1>1
<1>7. ASSUME NEW k \in DOMAIN src, TestWaits(src, Len(c), b, t, k) PROVE TestLeads(d, tgt, Len(d), k)
  <2>2. m.kind \in Ending(src[k].kind) BY <1>2, <1>7 DEF Ending, TestWaits, Tester
  <2>3. Follows(tgt, k, Ending(tgt[k].kind), L + 1) BY <1>5, <1>7, <2>2, FollowsLast DEF L
  <2>4. b.test = Place(tgt, Len(d), k + 1) - 1 BY <1>5, <1>7 DEF TestWaits
  <2>5. JumpTarget(d, Place(tgt, Len(d), k + 1) - 1)
          = (IF tgt[L + 1].kind = "elseif" THEN tgt[L + 1].at + 1 ELSE Place(tgt, Len(d), (L + 1) + 1))
    BY <1>1, <1>3, <1>6, <2>4
  <2> QED BY <1>6, <2>3, <2>5 DEF TestLeads
<1>8. ASSUME NEW k \in DOMAIN src, SkipWaits(src, b, t, k) PROVE SkipWaits(tgt, e, t, k)
  BY <1>2, <1>8, WaitsKept
<1>9. SkipWaits(tgt, e, t, L + 1) BY <1>1, <1>2, <1>3, <1>4, <1>6 DEF SkipWaits
<1>10. m.kind = "elseif" => TestWaits(tgt, Len(d), e, t, L + 1)
  BY <1>1, <1>4, <1>6 DEF TestWaits, Tester
<1>11. HandsOn(d, src, Len(c), tgt, blocks, later, t) BY <1>7, <1>8 DEF HandsOn
<1>12. Holds(tgt, Len(d), e, t)
  <2>2. \A x \in e.ends : \E k \in DOMAIN tgt : SkipWaits(tgt, e, t, k) /\ tgt[k].at = x
    <3> SUFFICES ASSUME NEW x \in e.ends
                 PROVE  \E k \in DOMAIN tgt : SkipWaits(tgt, e, t, k) /\ tgt[k].at = x
      OBVIOUS
    <3>1. CASE x = Len(c) BY <1>1, <1>3, <1>6, <1>9, <3>1
    <3>2. CASE x \in b.ends
      <4>1. PICK k \in DOMAIN src : SkipWaits(src, b, t, k) /\ src[k].at = x BY <3>2 DEF Holds
      <4> QED BY <1>5, <1>8, <4>1
    <3> QED BY <3>1, <3>2
  <2>3. e.kind \in {"then", "else"} OBVIOUS
  <2> QED BY <1>6, <1>10, <2>2, <2>3 DEF Holds
<1>13. Arrives(d, tgt, later, t) BY <1>1, <1>2, <1>9, <1>10, <1>12 DEF Branches, Arrives
<1> QED BY <1>2, <1>11, <1>13, StepText

\* The statement on top.
LEMMA TopFlow ==
  ASSUME Inv, BalanceInv, FlowInv, status = "emitting", open # << >>,
         Top(open).kind \notin {"init", "limit"}
  PROVE  /\ Len(open) \in Nat \ {0} /\ Len(open) \in DOMAIN open /\ open[Len(open)] = Top(open)
         /\ Holds(source, Len(code), Top(open), Len(open))
         /\ Level(source, Len(source)) = Len(open)
         /\ Apart(open, Below(open), Len(open)) /\ Len(open) \notin DOMAIN Below(open)
         /\ Height(Below(open)) = Len(open) - 1
         /\ \A k \in DOMAIN source :
              /\ TestWaits(source, Len(code), Top(open), Len(open), k) => Top(open).test \in 0..(Here - 1)
              /\ SkipWaits(source, Top(open), Len(open), k) => source[k].at \in 0..(Here - 1)
<1> DEFINE t == Len(open)
<1>1. /\ code \in Seq(Instruction) /\ source \in Seq(Mark) /\ Here = Len(code) /\ Here \in Nat
      /\ open \in Seq(Block) /\ FlowText(code, source, Len(code), open)
      /\ Level(source, Len(source)) = Height(open)
      /\ \A i \in DOMAIN open : Holds(source, Len(code), open[i], i)
      /\ Holders(source, Len(code), open)
  BY Flowing
<1>2. t \in DOMAIN open /\ open[t] = Top(open) /\ t \in Nat \ {0} /\ Below(open) \in Seq(Block)
  BY <1>1, BelowIsSeq DEF Top
<1>3. /\ Apart(open, Below(open), t) /\ Len(Below(open)) = t - 1
      /\ Height(Below(open)) = t - 1 /\ Height(open) = t
  <2>1. PICK b : b \in Block BY <1>2, BelowIsSeq, <1>1
  <2> QED BY <1>1, <2>1, ApartIs
<1>4. t \notin DOMAIN Below(open)
  <2> HIDE DEF t
  <2> QED BY <1>2, <1>3
<1>5. ASSUME NEW k \in DOMAIN source
      PROVE  /\ TestWaits(source, Len(code), Top(open), t, k) => Top(open).test \in 0..(Here - 1)
             /\ SkipWaits(source, Top(open), t, k) => source[k].at \in 0..(Here - 1)
  <2>2. PICK a, b : a = source[k].at /\ b = Place(source, Here, k + 1) OBVIOUS
  <2>3. JumpsAt(code, source[k].kind, a, b) /\ b <= Here BY <1>1, <2>2, JumpsOf DEF FlowText
  <2>4. TestWaits(source, Len(code), Top(open), t, k) =>
          source[k].kind \in Branches /\ Top(open).test = b - 1
    BY <1>1, <2>2 DEF TestWaits, Tester, Branches
  <2> QED BY <1>1, <2>2, <2>3, <2>4 DEF JumpsAt, SkipWaits
<1> QED BY <1>1, <1>2, <1>3, <1>4, <1>5

LEMMA FlowElse ==
  ASSUME Inv, BalanceInv, FlowInv, Else \/ ElseIf, status' = "emitting" PROVE FlowInv'
<1>1. Emitting({"then"}) BY DEF Else, ElseIf
<1>2. status = "emitting" /\ open # << >> /\ Top(open).kind = "then" BY <1>1, TopOf
<1> DEFINE t == Len(open)
           test == Top(open).test
<1>3. /\ t \in Nat \ {0} /\ t \in DOMAIN open /\ open[t] = Top(open)
      /\ Holds(source, Len(code), Top(open), t) /\ Level(source, Len(source)) = t
      /\ \A k \in DOMAIN source :
           TestWaits(source, Len(code), Top(open), t, k) => test \in 0..(Here - 1)
  BY <1>2, TopFlow
<1>4. test \in 0..(Here - 1)
  <2>1. PICK k \in DOMAIN source : TestWaits(source, Len(code), Top(open), t, k)
    BY <1>2, <1>3 DEF Holds
  <2> QED BY <1>3, <2>1
<1>5. /\ code \in Seq(Instruction) /\ source \in Seq(Mark) /\ Here = Len(code) /\ Here \in Nat
      /\ open \in Seq(Block) /\ FlowText(code, source, Len(code), open)
      /\ Holders(source, Len(code), open)
  BY <1>2, Flowing
<1> HIDE DEF t, test
<1>6. PICK then : then = ThenClosed OBVIOUS
<1>7. /\ then \in Seq(Instruction) /\ Len(then) = Here + 1
      /\ \A a \in 0..(Here - 1) :
           /\ At(then, a).op = At(code, a).op /\ (a \notin {test} => At(then, a) = At(code, a))
           /\ a \in {test} => JumpTarget(then, a) = Here + 1
      /\ At(then, Here).op = "JMP"
  <2>2. PICK c, ats : c = code /\ ats = {test} OBVIOUS
  <2>3. c \in Seq(Instruction) /\ then = Patch(Append(c, I("JMP", 0)), ats, Len(c) + 1) /\ 0 \in Int
    BY <1>5, <1>6, <2>2 DEF ThenClosed, test
  <2>4. JumpAdded(c, then, ats) BY <2>3, JumpPatched
  <2> QED BY <1>5, <2>2, <2>4 DEF JumpAdded
<1>8. ASSUME NEW kind \in {"else", "elseif"}, Note(kind), NEW b \in Block, b.ends = Ends,
             open' = Append(Below(open), b), NEW e \in Seq(Instruction), code' = then \o e,
             \/ kind = "else" /\ b.kind = "else" /\ e = << >>
             \/ /\ kind = "elseif" /\ b.kind = "then" /\ Len(e) = 2 /\ b.test = Here + 2
                /\ Quiet(e, 0, 1) /\ At(e, 1).op = "JMP_IF_FALSE"
      PROVE  FlowInv'
  <2> DEFINE m == Noted(kind)
  <2>1. PICK d : d = code' OBVIOUS
  <2>2. /\ d \in Seq(Instruction) /\ Len(d) = Here + 1 + Len(e) /\ Len(e) \in Nat
        /\ \A a \in 0..Here : At(d, a) = At(then, a)
        /\ \A a \in 0..(Len(e) - 1) : At(d, (Here + 1) + a) = At(e, a)
    <3>1. d \in Seq(Instruction) /\ Len(d) = Len(then) + Len(e) /\ Len(e) \in Nat
      BY <1>7, <1>8, <2>1, JoinTwo
    <3>2. \A a \in 1..Len(then) : d[a] = then[a] BY <1>7, <1>8, <2>1, JoinAt
    <3>3. \A a \in 1..Len(e) : d[Len(then) + a] = e[a] BY <1>7, <1>8, <2>1, JoinAt
    <3>4. \A a \in 0..Here : At(d, a) = At(then, a) BY <1>5, <1>7, <3>2 DEF At
    <3>5. ASSUME NEW a \in 0..(Len(e) - 1) PROVE At(d, (Here + 1) + a) = At(e, a)
      <4>1. a + 1 \in 1..Len(e) /\ ((Here + 1) + a) + 1 = Len(then) + (a + 1)
        BY <1>5, <1>7, <3>1
      <4> QED BY <3>3, <4>1 DEF At
    <3> QED BY <1>7, <3>1, <3>4, <3>5
  <2>3. /\ \A a \in 0..(Here - 1) :
             At(d, a).op = At(code, a).op /\ (a \notin {test} => At(d, a) = At(code, a))
        /\ JumpTarget(d, test) = Here + 1 /\ At(d, Here).op = "JMP"
    <3>1. \A a \in 0..(Here - 1) : a \in 0..Here BY <1>5
    <3>2. JumpTarget(d, test) = JumpTarget(then, test) BY <1>4, <2>2, <3>1 DEF JumpTarget
    <3>3. Here \in 0..Here BY <1>5
    <3> QED BY <1>4, <1>7, <2>2, <3>1, <3>2, <3>3
  <2>4. kind \in MarkKinds BY DEF MarkKinds
  <2>5. /\ Written(code, code', {test}, source, source', m) /\ m.kind = kind /\ m.at = Here
    <3>1. Here <= Len(code') /\ code' \in Seq(Instruction) BY <1>5, <2>1, <2>2
    <3>2. \A a \in 0..(Here - 1) :
             At(code', a).op = At(code, a).op /\ (a \notin {test} => At(code', a) = At(code, a))
      BY <2>1, <2>3
    <3> QED BY <1>2, <1>8, <2>4, <3>1, <3>2, NoteWritten
  <2>6. /\ Apart(open, open', t) /\ open'[t] = b /\ Len(open') = t /\ Len(Below(open)) = t - 1
    BY <1>2, <1>5, <1>8, ApartIs DEF t
  <2>7. Height(open') = t /\ t \in DOMAIN open'
    <3>1. Below(open) \in Seq(Block) /\ (t - 1) + 1 = t BY <1>2, <1>3, <1>5, BelowIsSeq
    <3>3. Height(open') = t BY <1>8, <2>6, <3>1, HeightIs
    <3>5. t \in 1..t BY <1>3
    <3> QED BY <2>6, <3>3, <3>5 DEF Apart
  <2>8. Piece(code', m.kind, Len(code), Len(code'))
    <3>1. kind \notin Openers /\ kind \notin {"endwhile", "endfor", "endif", "step", "RETURN"}
          /\ kind \in Branches \cup Closers \cup {"else", "step", "RETURN"}
      BY DEF Openers, Branches, Closers
    <3>3. CASE kind = "else"
      <4>1. Len(d) = Here + 1 BY <1>5, <1>8, <2>2, <3>3
      <4> QED BY <1>5, <2>1, <2>3, <2>5, <3>1, <3>3, <4>1 DEF Piece
    <3>4. CASE kind = "elseif"
      <4>0. Len(e) = 2 /\ Quiet(e, 0, 1) /\ At(e, 1).op = "JMP_IF_FALSE" BY <1>8, <3>4
      <4>1. Len(d) = Here + 3 /\ Len(e) = 2 /\ Quiet(e, 0, 1) /\ At(e, 1).op = "JMP_IF_FALSE"
        BY <1>5, <2>2, <4>0
      <4>2. At(d, Here + 2).op = "JMP_IF_FALSE" BY <1>5, <2>2, <4>1
      <4>3. Quiet(d, Here + 1, Here + 2)
        <5>1. PICK a : a = Here + 1 OBVIOUS
        <5>2. a \in Nat /\ \A x \in 0..(1 - 1) : At(d, a + x) = At(e, x) BY <1>5, <2>2, <4>1, <5>1
        <5>3. Quiet(d, a, a + 1) BY <4>1, <5>2, QuietPart
        <5> QED BY <1>5, <5>1, <5>3
      <4>4. Len(d) - 1 = Here + 2 /\ Here + 3 <= Len(d) /\ Here <= Len(d) BY <1>5, <4>1
      <4> QED BY <1>5, <2>1, <2>3, <2>5, <3>1, <3>4, <4>2, <4>3, <4>4 DEF Piece
    <3> QED BY <3>3, <3>4
  <2> HIDE DEF m
  <2>9. Owned({test}, source, Len(code), open) BY <1>2, <1>3, OwnedIs DEF test
  <2>10. /\ open[t].kind = "then" /\ Holds(source, Len(code), open[t], t)
         /\ open'[t].ends = open[t].ends \cup {Len(code)}
         /\ JumpTarget(code', open[t].test) = Len(code) + 1
    BY <1>2, <1>3, <1>5, <1>8, <2>1, <2>3, <2>6 DEF Ends, test
  <2>11. \/ m.kind = "else" /\ open'[t].kind = "else" /\ Len(code') = Len(code) + 1
         \/ m.kind = "elseif" /\ open'[t].kind = "then" /\ open'[t].test = Len(code') - 1
    <3>1. CASE kind = "else"
      <4>1. b.kind = "else" /\ Len(e) = 0 BY <1>8, <3>1
      <4> QED BY <1>5, <2>1, <2>2, <2>5, <2>6, <3>1, <4>1
    <3>2. CASE kind = "elseif"
      <4>1. b.kind = "then" /\ Len(e) = 2 /\ b.test = Here + 2 BY <1>8, <3>2
      <4> QED BY <1>5, <2>1, <2>2, <2>5, <2>6, <3>2, <4>1
    <3> QED BY <3>1, <3>2
  <2>12. FlowText(code', source', Len(code'), open')
    BY <1>3, <1>5, <2>5, <2>6, <2>7, <2>8, <2>9, <2>10, <2>11, ElseText
  <2> QED BY <2>12 DEF FlowInv, Here
<1>9. Ends \in SUBSET Int /\ Here + 2 \in Int /\ 0 \in Int BY <1>2, <1>5, ClosedCode
<1>10. CASE Else
  <2> DEFINE b == Opened("else", 0, 0, Ends)
  <2>1. b \in Block /\ b.kind = "else" /\ b.ends = Ends BY <1>9, OpenedType, OpenedIs DEF BlockKinds
  <2> HIDE DEF b
  <2>2. Note("else") /\ code' = then /\ open' = Append(Below(open), b) BY <1>6, <1>10 DEF Else, b
  <2>3. << >> \in Seq(Instruction) /\ code' = then \o << >> BY <1>7, <2>2, NoCode
  <2> QED BY <1>8, <2>1, <2>2, <2>3
<1>11. CASE ElseIf
  <2>1. PICK cond \in Operands :
          /\ Known(Outside, cond) /\ code' = ThenClosed \o Test(Outside, cond)
          /\ open' = Append(Below(open), Opened("then", Here + 2, 0, Ends))
    BY <1>11, Zenon DEF ElseIf, Fail
  <2> DEFINE b == Opened("then", Here + 2, 0, Ends)
             e == Test(Outside, cond)
  <2>2. b \in Block /\ b.kind = "then" /\ b.ends = Ends /\ b.test = Here + 2
    BY <1>9, OpenedType, OpenedIs DEF BlockKinds
  <2>3. open' = Append(Below(open), b) /\ code' = then \o e BY <1>6, <2>1
  <2>4. Slotted(Outside, Len(locals)) BY <1>2, Emitted, OutsideSlotted
  <2>5. e \in Seq(Instruction) /\ Len(e) = 2 /\ Quiet(e, 0, 1) /\ At(e, 1).op = "JMP_IF_FALSE"
    BY <2>1, <2>4, TestIs
  <2> HIDE DEF b, e
  <2>6. Note("elseif") BY <1>11 DEF ElseIf
  <2> QED BY <1>8, <2>2, <2>3, <2>5, <2>6
<1> QED BY <1>10, <1>11

\* A block is closed; what its end patched leads past the code.
LEMMA FlowEnds ==
  ASSUME Inv, BalanceInv, FlowInv, status = "emitting", open # << >>, open' = Below(open),
         Top(open).kind \notin {"init", "limit"}, NEW kind \in Closers, Note(kind),
         code' \in Seq(Instruction), Here <= Len(code'), NEW W,
         \A a \in 0..(Here - 1) :
           At(code', a).op = At(code, a).op /\ (a \notin W => At(code', a) = At(code, a)),
         \A a \in W \cap 0..(Here - 1) : JumpTarget(code', a) = Len(code'),
         \A w \in W : \/ /\ Top(open).kind \in {"then", "while", "for", "step", "stepped"}
                         /\ w = Top(open).test
                      \/ Top(open).kind \in {"then", "else"} /\ w \in Top(open).ends,
         Top(open).kind \in {"then", "while", "for", "step", "stepped"} => Top(open).test \in W,
         Top(open).kind \in {"then", "else"} => \A a \in Top(open).ends : a \in W,
         Top(open).kind \in {"then", "else"} => kind = "endif",
         Top(open).kind = "while" => kind = "endwhile",
         Top(open).kind \in {"for", "step", "stepped"} => kind = "endfor",
         Piece(code', kind, Here, Len(code')),
         kind \in {"endwhile", "endfor"} => JumpTarget(code', Here) = Top(open).start
  PROVE  FlowInv'
<1> DEFINE t == Len(open)
           m == Noted(kind)
           b == Top(open)
<1>1. /\ t \in Nat \ {0} /\ t \in DOMAIN open /\ open[t] = b
      /\ Holds(source, Len(code), b, t) /\ Level(source, Len(source)) = t
      /\ Apart(open, open', t) /\ t \notin DOMAIN open' /\ Height(open') = t - 1
      /\ \A k \in DOMAIN source :
           /\ TestWaits(source, Len(code), b, t, k) => b.test \in 0..(Here - 1)
           /\ SkipWaits(source, b, t, k) => source[k].at \in 0..(Here - 1)
  BY TopFlow
<1>2. /\ code \in Seq(Instruction) /\ source \in Seq(Mark) /\ Here = Len(code) /\ Here \in Nat
      /\ FlowText(code, source, Len(code), open)
  BY Flowing
<1>3. kind \in MarkKinds BY DEF Closers, MarkKinds
<1>4. Written(code, code', W, source, source', m) /\ m.kind = kind /\ m.at = Here
  BY <1>3, NoteWritten
<1> HIDE DEF t, m, b
<1>5. Owned(W, source, Len(code), open) BY <1>1, OwnedIs DEF b
<1>6. ASSUME NEW k \in DOMAIN source
      PROVE  /\ TestWaits(source, Len(code), open[t], t, k) =>
                  m.kind \in Ending(source[k].kind) /\ m.kind \notin {"else", "elseif"}
                    /\ JumpTarget(code', open[t].test) = Len(code')
             /\ SkipWaits(source, open[t], t, k) =>
                  m.kind = "endif" /\ JumpTarget(code', source[k].at) = Len(code')
  <2>1. ASSUME TestWaits(source, Len(code), b, t, k)
        PROVE  /\ m.kind \in Ending(source[k].kind) /\ m.kind \notin {"else", "elseif"}
               /\ JumpTarget(code', b.test) = Len(code')
    BY <1>1, <1>4, <2>1 DEF TestWaits, Tester, Ending, b, Closers
  <2>2. ASSUME SkipWaits(source, b, t, k)
        PROVE  m.kind = "endif" /\ JumpTarget(code', source[k].at) = Len(code')
    BY <1>1, <1>4, <2>2 DEF SkipWaits, b
  <2> QED BY <1>1, <2>1, <2>2
<1>7. m.kind \in {"endwhile", "endfor"} => BackLeads(code', source', Len(source'))
  <2> SUFFICES ASSUME m.kind \in {"endwhile", "endfor"} PROVE BackLeads(code', source', Len(source'))
    OBVIOUS
  <2>1. b.kind \in {"while", "for", "step", "stepped"}
    <3>1. b.kind \in {"then", "else", "while", "for", "step", "stepped"}
      <4>1. b \in Block BY <1>2, Flowing, BelowIsSeq DEF b
      <4> QED BY <4>1 DEF Block, BlockKinds, LoopKinds, b
    <3> QED BY <1>4, <3>1 DEF b
  <2>2. PICK k \in DOMAIN source : TestWaits(source, Len(code), b, t, k) BY <1>1, <2>1 DEF Holds
  <2>3. source[k].kind \in OpenedBy(m.kind) /\ b.start = source[k].at
    BY <1>4, <2>1, <2>2 DEF TestWaits, Tester, OpenedBy, b
  <2>4. PICK c, d, src, tgt, mm :
          c = code /\ d = code' /\ src = source /\ tgt = source' /\ mm = m
    OBVIOUS
  <2>5. Written(c, d, W, src, tgt, mm) BY <1>4, <2>4
  <2>6. /\ Len(src) \in Nat /\ Len(tgt) = Len(src) + 1 /\ tgt[Len(src) + 1] = mm
        /\ DOMAIN src = 1..Len(src) /\ DOMAIN tgt = 1..(Len(src) + 1)
        /\ \A x \in 1..Len(src) : tgt[x] = src[x]
    BY <2>5, WrittenText
  <2>7. Precedes(tgt, Len(src) + 1, OpenedBy(mm.kind), k)
    BY <1>1, <2>2, <2>3, <2>4, <2>5, PrecedesLast
  <2>8. /\ k \in DOMAIN tgt /\ tgt[k].at = b.start /\ tgt[Len(tgt)].at = Here
        /\ tgt[Len(tgt)].kind = mm.kind
    BY <1>4, <2>3, <2>4, <2>6
  <2>9. JumpTarget(d, Here) = b.start BY <1>4, <2>4 DEF b
  <2>10. BackLeads(d, tgt, Len(tgt)) BY <2>6, <2>7, <2>8, <2>9 DEF BackLeads
  <2> QED BY <2>4, <2>10
<1>8. Piece(code', m.kind, Len(code), Len(code')) /\ m.kind \in Closers BY <1>2, <1>4
<1>9. FlowText(code', source', Len(code'), open')
  BY <1>1, <1>2, <1>4, <1>5, <1>6, <1>7, <1>8, EndsText
<1> QED BY <1>9 DEF FlowInv, Here

\* The code of an end: where the jumps it patched lead, and its own jump.
EndPatched(c, d, W, kind, start) ==
  LET n == Len(c) IN
  /\ d \in Seq(Instruction) /\ n <= Len(d)
  /\ \A a \in 0..(n - 1) :
       /\ At(d, a).op = At(c, a).op /\ (a \notin W => At(d, a) = At(c, a))
       /\ a \in W => JumpTarget(d, a) = Len(d)
  /\ kind = "endif" => Len(d) = n \/ (Len(d) = n + 1 /\ At(d, n) = I("JMP", 0))
  /\ kind # "endif" => Len(d) = n + 1 /\ At(d, n).op = "JMP" /\ JumpTarget(d, n) = start

LEMMA ThenPatched ==
  ASSUME NEW c \in Seq(Instruction), NEW p, NEW test, JumpAdded(c, p, {test}), NEW ends,
         NEW d, d = Patch(p, ends \cup {Len(c)}, Len(c) + 1), NEW start
  PROVE  EndPatched(c, d, {test} \cup ends, "endif", start)
<1> DEFINE n == Len(c)
           E == ends \cup {n}
<1>1. /\ p \in Seq(Instruction) /\ Len(p) = n + 1 /\ n \in Nat /\ At(p, n).op = "JMP"
      /\ \A a \in 0..(n - 1) :
           /\ At(p, a).op = At(c, a).op /\ (a \notin {test} => At(p, a) = At(c, a))
           /\ a \in {test} => JumpTarget(p, a) = n + 1
  BY DEF JumpAdded
<1>2. d = Patch(p, E, n + 1) OBVIOUS
<1> HIDE DEF n, E
<1>3. n + 1 \in Int /\ \A a \in 0..n : a \in 0..(Len(p) - 1) BY <1>1
<1>4. /\ d \in Seq(Instruction) /\ Len(d) = n + 1
      /\ \A a \in 0..n :
           /\ At(d, a).op = At(p, a).op /\ (a \notin E => At(d, a) = At(p, a))
           /\ a \in E => JumpTarget(d, a) = n + 1 /\ At(d, a) = I(At(p, a).op, (n + 1) - (a + 1))
  <2>1. PICK at, ats : at = n + 1 /\ ats = E OBVIOUS
  <2>2. at \in Int /\ d = Patch(p, ats, at) /\ p \in Seq(Instruction) BY <1>1, <1>2, <1>3, <2>1
  <2>3. PICK q : q = Patch(p, ats, at) OBVIOUS
  <2>4. /\ q \in Seq(Instruction) /\ Len(q) = Len(p)
        /\ \A a \in 0..(Len(p) - 1) :
             /\ At(q, a).op = At(p, a).op /\ (a \notin ats => At(q, a) = At(p, a))
             /\ a \in ats => JumpTarget(q, a) = at /\ At(q, a) = I(At(p, a).op, at - (a + 1))
    BY <2>2, <2>3, PatchAt
  <2>5. /\ d \in Seq(Instruction) /\ Len(d) = Len(p)
        /\ \A a \in 0..(Len(p) - 1) :
             /\ At(d, a).op = At(p, a).op /\ (a \notin ats => At(d, a) = At(p, a))
             /\ a \in ats => JumpTarget(d, a) = at /\ At(d, a) = I(At(p, a).op, at - (a + 1))
    BY <2>2, <2>3, <2>4
  <2> QED BY <1>1, <1>3, <2>1, <2>5
<1>5. ASSUME NEW a \in 0..(n - 1)
      PROVE  /\ At(d, a).op = At(c, a).op
             /\ a \notin {test} \cup ends => At(d, a) = At(c, a)
             /\ a \in {test} \cup ends => JumpTarget(d, a) = n + 1
  <2>1. a \in 0..n /\ a # n BY <1>1
  <2>3. At(d, a) = At(p, a) => JumpTarget(d, a) = JumpTarget(p, a) BY DEF JumpTarget
  <2> QED BY <1>1, <1>4, <2>1, <2>3 DEF E
<1>6. At(d, n) = I("JMP", 0)
  <2>1. n \in 0..n /\ n \in E /\ (n + 1) - (n + 1) = 0 BY <1>1 DEF E
  <2> QED BY <1>1, <1>4, <2>1
<1> QED
  <2>1. n <= Len(d) BY <1>1, <1>4
  <2> QED BY <1>4, <1>5, <1>6, <2>1, Zenon DEF EndPatched, n

LEMMA ElsePatched ==
  ASSUME NEW c \in Seq(Instruction), NEW ends, NEW d, d = Patch(c, ends, Len(c)), NEW start
  PROVE  EndPatched(c, d, ends, "endif", start)
<1>1. Len(c) \in Int /\ Len(c) \in Nat OBVIOUS
<1>2. /\ d \in Seq(Instruction) /\ Len(d) = Len(c)
      /\ \A a \in 0..(Len(c) - 1) :
           /\ At(d, a).op = At(c, a).op /\ (a \notin ends => At(d, a) = At(c, a))
           /\ a \in ends => JumpTarget(d, a) = Len(c)
  BY <1>1, PatchAt
<1> QED BY <1>1, <1>2 DEF EndPatched

LEMMA LoopPatched ==
  ASSUME NEW c \in Seq(Instruction), NEW test, test # Len(c), NEW start \in Int,
         NEW d, d = Patch(Append(c, I("JMP", start - (Len(c) + 1))), {test}, Len(c) + 1),
         NEW kind, kind # "endif"
  PROVE  EndPatched(c, d, {test}, kind, start)
<1>1. start - (Len(c) + 1) \in Int /\ Len(c) \in Nat OBVIOUS
<1>2. JumpAdded(c, d, {test}) /\ At(d, Len(c)) = I("JMP", start - (Len(c) + 1)) BY <1>1, JumpPatched
<1>3. JumpTarget(d, Len(c)) = start BY <1>1, <1>2 DEF JumpTarget, I
<1>4. Len(c) <= Len(d) BY <1>1, <1>2 DEF JumpAdded
<1> QED BY <1>2, <1>3, <1>4, Zenon DEF EndPatched, JumpAdded

LEMMA FlowCloses ==
  ASSUME Inv, BalanceInv, FlowInv, EndIf \/ EndWhile \/ EndFor, status' = "emitting"
  PROVE  FlowInv'
<1>1. status = "emitting" /\ open' = Below(open) BY DEF EndIf, EndWhile, EndFor, Close
<1> DEFINE b == Top(open)
<1>2. /\ EndIf => open # << >> /\ b.kind \in {"then", "else"}
      /\ EndWhile => open # << >> /\ b.kind = "while"
      /\ EndFor => open # << >> /\ b.kind \in {"step", "stepped"}
  BY TopOf DEF EndIf, EndWhile, EndFor
<1>3. open # << >> /\ b.kind \notin {"init", "limit"} BY <1>2
<1>4. /\ Holds(source, Len(code), b, Len(open))
      /\ \A k \in DOMAIN source :
           TestWaits(source, Len(code), b, Len(open), k) => b.test \in 0..(Here - 1)
  BY <1>1, <1>3, TopFlow
<1>5. /\ code \in Seq(Instruction) /\ Here = Len(code) /\ Here \in Nat /\ b \in Block
  BY <1>1, <1>3, Flowing, BelowIsSeq
<1> HIDE DEF b
<1>6. b.start \in Int BY <1>5 DEF Block
<1>7. ASSUME NEW kind \in Closers, Note(kind), NEW W, EndPatched(code, code', W, kind, b.start),
             \A w \in W : \/ b.kind \in {"then", "while", "for", "step", "stepped"} /\ w = b.test
                          \/ b.kind \in {"then", "else"} /\ w \in b.ends,
             b.kind \in {"then", "while", "for", "step", "stepped"} => b.test \in W,
             b.kind \in {"then", "else"} => \A a \in b.ends : a \in W,
             b.kind \in {"then", "else"} => kind = "endif",
             b.kind = "while" => kind = "endwhile",
             b.kind \in {"for", "step", "stepped"} => kind = "endfor"
      PROVE  FlowInv'
  <2>1. PICK d : d = code' OBVIOUS
  <2>2. /\ d \in Seq(Instruction) /\ Here <= Len(d)
        /\ \A a \in 0..(Here - 1) :
             /\ At(d, a).op = At(code, a).op /\ (a \notin W => At(d, a) = At(code, a))
             /\ a \in W => JumpTarget(d, a) = Len(d)
        /\ kind = "endif" => Len(d) = Here \/ (Len(d) = Here + 1 /\ At(d, Here) = I("JMP", 0))
        /\ kind # "endif" => Len(d) = Here + 1 /\ At(d, Here).op = "JMP" /\ JumpTarget(d, Here) = b.start
    BY <1>5, <1>7, <2>1 DEF EndPatched
  <2>3. Piece(d, kind, Here, Len(d)) BY <1>5, <2>2 DEF Piece, Closers, Openers, Branches
  <2>4. kind \in {"endwhile", "endfor"} => JumpTarget(d, Here) = b.start BY <2>2
  <2>5. \A a \in W \cap 0..(Here - 1) : JumpTarget(d, a) = Len(d) BY <2>2
  <2> QED BY <1>1, <1>3, <1>7, <2>1, <2>2, <2>3, <2>4, <2>5, FlowEnds DEF b
<1>8. CASE EndIf
  <2>1. Note("endif") /\ "endif" \in Closers BY <1>8 DEF EndIf, Closers
  <2>2. PICK c, d : c = code /\ d = code' OBVIOUS
  <2>4. CASE b.kind = "then" /\ code' = Patch(ThenClosed, Ends, Here + 1)
    <3>1. PICK p, ats, ends : p = ThenClosed /\ ats = {b.test} /\ ends = b.ends OBVIOUS
    <3>2. p = Patch(Append(c, I("JMP", 0)), ats, Len(c) + 1) /\ 0 \in Int /\ c \in Seq(Instruction)
      BY <1>5, <2>2, <3>1 DEF ThenClosed, b
    <3>3. JumpAdded(c, p, ats) BY <3>2, JumpPatched
    <3>4. d = Patch(p, ends \cup {Len(c)}, Len(c) + 1) BY <1>5, <2>2, <2>4, <3>1 DEF Ends, b
    <3>5. EndPatched(c, d, {b.test} \cup ends, "endif", b.start)
      BY <3>1, <3>2, <3>3, <3>4, ThenPatched
    <3> QED BY <1>7, <2>1, <2>2, <2>4, <3>1, <3>5
  <2>5. CASE b.kind = "else" /\ code' = Patch(code, Top(open).ends, Here)
    BY <1>5, <1>7, <2>1, <2>2, <2>5, ElsePatched DEF b
  <2> QED BY <1>8, <2>4, <2>5, TopOf DEF EndIf, b
<1>9. ASSUME EndWhile \/ EndFor, NEW kind, kind \in {"endwhile", "endfor"}, Note(kind),
             b.kind = "while" => kind = "endwhile",
             b.kind \in {"for", "step", "stepped"} => kind = "endfor"
      PROVE  FlowInv'
  <2>1. b.kind \in {"while", "step", "stepped"} /\ kind \in Closers /\ kind # "endif"
    BY <1>2, <1>9 DEF Closers
  <2>2. b.test \in 0..(Here - 1) BY <1>4, <2>1 DEF Holds
  <2>3. PICK c, d : c = code /\ d = code' OBVIOUS
  <2>4. d = Patch(Append(c, I("JMP", b.start - (Len(c) + 1))), {b.test}, Len(c) + 1)
    BY <1>5, <1>9, <2>3 DEF EndWhile, EndFor, LoopClosed, ToTest, b
  <2>5. b.test # Len(c) /\ c \in Seq(Instruction) BY <1>5, <2>2, <2>3
  <2>6. EndPatched(c, d, {b.test}, kind, b.start) BY <1>6, <2>1, <2>4, <2>5, LoopPatched
  <2> QED BY <1>7, <1>9, <2>1, <2>3, <2>6
<1>10. CASE EndWhile BY <1>2, <1>9, <1>10 DEF EndWhile
<1>11. CASE EndFor BY <1>2, <1>9, <1>11 DEF EndFor
<1> QED BY <1>8, <1>10, <1>11

\* A FOR begins: no code and no mark yet.
LEMMA FlowFor ==
  ASSUME Inv, BalanceInv, FlowInv, For, status' = "emitting" PROVE FlowInv'
<1>1. /\ status = "emitting" /\ code' = code /\ source' = source /\ InList
      /\ open' = Append(open, Opened("init", 0, 0, {}))
  BY DEF For, Opens, InList, Emitting
<1> DEFINE b == Opened("init", 0, 0, {})
<1>2. b \in Block /\ b.kind = "init" BY OpenedType DEF BlockKinds, LoopKinds
<1> HIDE DEF b
<1>3. /\ open \in Seq(Block) /\ FlowText(code, source, Here, open)
      /\ Level(source, Len(source)) = Height(open)
      /\ \A i \in DOMAIN open : Holds(source, Here, open[i], i)
      /\ Holders(source, Here, open)
  BY <1>1, Flowing
<1>4. open = << >> \/ Top(open).kind \notin {"init", "limit"} BY <1>1 DEF InList, Emitting
<1>5. PICK later : later = Append(open, b) OBVIOUS
<1>6. /\ Len(open) \in Nat /\ Len(later) = Len(open) + 1 /\ later[Len(open) + 1] = b
      /\ DOMAIN open = 1..Len(open) /\ DOMAIN later = 1..Len(later)
      /\ \A i \in 1..Len(open) : later[i] = open[i]
  BY <1>2, <1>3, <1>5
<1>7. Height(later) = Len(open) /\ Height(open) = Len(open)
  BY <1>2, <1>3, <1>4, <1>5, HeightIs DEF Height
<1>9. Tests(code, source, Here, later) /\ Skips(code, source, Here, later)
  BY <1>3, <1>6 DEF FlowText, Tests, Skips
<1>10. Holders(source, Here, later)
  <2>1. ASSUME NEW i \in DOMAIN later
        PROVE  /\ Holds(source, Here, later[i], i)
               /\ i < Len(later) => later[i].kind \notin {"init", "limit"}
    <3>1. CASE i \in 1..Len(open) BY <1>3, <1>4, <1>6, <3>1 DEF Holders, Top
    <3>2. CASE i = Len(open) + 1 BY <1>2, <1>6, <3>2 DEF Holds
    <3> QED BY <1>6, <3>1, <3>2
  <2> QED BY <1>3, <1>7, <2>1 DEF Holders
<1>11. FlowText(code, source, Here, later) BY <1>3, <1>9, <1>10 DEF FlowText
<1> QED BY <1>1, <1>5, <1>11 DEF FlowInv, b, Here

\* The code of a finished chunk follows its text up to the implicit return.
EndFlow ==
  Finished => \E c \in Seq(Instruction) :
    /\ source \in Seq(Mark) /\ code = c \o Return /\ FlowText(c, source, Len(c), << >>)

LEMMA FlowChunkEnds ==
  ASSUME Inv, BalanceInv, FlowInv, EndChunk PROVE FlowInv' /\ EndFlow'
<1>1. /\ status = "emitting" /\ status' = "emitted" /\ Emitting({"list"})
      /\ code' = code \o Return /\ source' = source
  BY DEF EndChunk, Emitting, Return
<1>2. open = << >>
  <2>1. CASE open # << >>
    <3>1. Top(open) \in Block /\ Top(open).kind = "list"
      BY <1>1, <2>1, Typed, BelowIsSeq DEF Emitting
    <3> QED BY <3>1 DEF Block, BlockKinds, LoopKinds
  <2> QED BY <2>1
<1>4. EndFlow' BY <1>1, <1>2, Flowing DEF EndFlow
<1> QED BY <1>1, <1>4 DEF FlowInv

\* A chunk begins without code.
LEMMA NoFlow ==
  ASSUME code = << >>, source = << >>, open = << >>, status = "emitting"
  PROVE  FlowInv /\ EndFlow
<1>1. DOMAIN << >> = {} /\ Len(<< >>) = 0 OBVIOUS
<1>2. PICK e : e = << >> OBVIOUS
<1>3. e = << >> /\ DOMAIN e = {} /\ Len(e) = 0 BY <1>1, <1>2
<1>8. Place(e, 0, 1) = 0 BY <1>3 DEF Place
<1>4. Pieces(code, e, 0) /\ Tests(code, e, 0, e) /\ Skips(code, e, 0, e) /\ Backs(code, e)
  BY <1>3, <1>8 DEF Pieces, Tests, Skips, Backs
<1>6. FlowText(code, e, 0, e) BY <1>3, <1>4, LevelIs DEF FlowText, Holders, Height
<1>7. Here = 0 BY <1>1 DEF Here
<1> QED BY <1>2, <1>6, <1>7 DEF FlowInv, EndFlow, Finished

NoFlowBegins ==
  code = << >> /\ source = << >> /\ open = << >> /\ status = "emitting" => FlowInv /\ EndFlow

LEMMA NoneFlows == NoFlowBegins
  BY NoFlow DEF NoFlowBegins

FlowsInv == BalancedInv /\ FlowInv /\ EndFlow

LEMMA InitFlows == Init => FlowsInv
  BY InitBalanced, NoneFlows DEF Init, NoFlowBegins, FlowsInv

LEMMA NextFlows == FlowsInv /\ [Next]_vars => FlowsInv'
<1> SUFFICES ASSUME BalancedInv, FlowInv, EndFlow, [Next]_vars
             PROVE  BalancedInv' /\ FlowInv' /\ EndFlow'
  BY DEF FlowsInv
<1>1. BalancedInv' /\ Inv /\ BalanceInv /\ Inv' BY NextBalanced DEF BalancedInv
<1>2. CASE \/ Statement \/ If \/ Else \/ ElseIf \/ EndIf \/ While \/ EndWhile
           \/ For \/ ForInit \/ ForLimit \/ ForBodyEnd \/ ForStep \/ EndFor
  <2>1. status' \in {"emitting"} \cup Errors BY <1>1, <1>2, StaysUnfinished
  <2>2. CASE status' = "emitting"
    <3>1. FlowInv'
      BY <1>1, <1>2, <2>2, FlowStatement, FlowBegins, FlowElse, FlowCloses, FlowFor, FlowForPart
    <3>2. ~Finished' BY <2>2 DEF Finished
    <3> QED BY <1>1, <3>1, <3>2 DEF EndFlow
  <2>3. CASE status' \in Errors BY <1>1, <2>3 DEF Finished, Errors, FlowInv, EndFlow
  <2> QED BY <2>1, <2>2, <2>3
<1>3. CASE EndChunk BY <1>1, <1>3, FlowChunkEnds
<1>4. CASE NextChunk
  <2>1. /\ code' = << >> /\ open' = open /\ source' = << >>
        /\ status' = "emitting" /\ status = "emitted"
    BY <1>4 DEF NextChunk
  <2>3. NoFlowBegins' BY NoneFlows, PTL
  <2> QED BY <1>1, <2>1, <2>3 DEF NoFlowBegins, Inv, BlockInv, BlockTypes
<1>5. CASE UNCHANGED vars BY <1>1, <1>5 DEF vars, context, FlowInv, EndFlow, Finished, Here
<1> QED BY <1>2, <1>3, <1>4, <1>5 DEF Next

-----------------------------------------------------------------------------
(* Where control stops on its way *)

\* Control goes to higher addresses, unless it comes to a wall.
Forward(wall) == \A a \in Addresses \ wall : \A b \in Successors(a) : b > a \/ b \in wall

\* The walls that control comes to.
Onward(from, wall) == ReachedFrom(from, wall) \cap wall

LEMMA SuccessorsType ==
  ASSUME code \in Seq(Instruction), NEW a \in Addresses
  PROVE  Successors(a) \in SUBSET Int
<1>1. Here = Len(code) BY DEF Here
<1>2. a \in 0..(Len(code) - 1) /\ a \in Int BY <1>1 DEF Addresses
<1>3. At(code, a) \in Instruction BY <1>2, AtType
<1>4. a + 1 \in Int /\ JumpTarget(code, a) \in Int BY <1>2, <1>3 DEF JumpTarget, Instruction
<1> QED BY <1>4 DEF Successors

\* What is reached stays reached, for as many steps as there are addresses
\* are enough.
LEMMA ReachedOn ==
  ASSUME code \in Seq(Instruction), NEW wall, Forward(wall), NEW from \in SUBSET Int
  PROVE  LET R == ReachedFrom(from, wall) IN
         from \subseteq R /\ \A a \in (R \ wall) \cap Addresses : Successors(a) \subseteq R
<1>2. PICK f : /\ Stages(f, from, wall) /\ ReachedFrom(from, wall) = f[Here]
               /\ \A n \in 0..Here : f[n] \in SUBSET Int
  BY ReachedStages, SuccessorsType
<1>3. Here \in Nat /\ Addresses = 0..(Here - 1) BY DEF Here, Addresses
<1>4. /\ f[0] = from
      /\ \A n \in 1..Here :
           f[n] = f[n - 1] \cup UNION {Successors(a) : a \in (f[n - 1] \ wall) \cap Addresses}
  BY <1>2 DEF Stages
<1> DEFINE Well(m) == /\ from \subseteq f[m]
                      /\ \A x \in (f[m] \ wall) \cap Addresses : x < m => Successors(x) \subseteq f[m]
           T == {m \in Nat : m <= Here => Well(m)}
<1>5. 0 \in T BY <1>3, <1>4
<1>6. ASSUME NEW m \in Nat, m \in T PROVE m + 1 \in T
  <2> SUFFICES ASSUME m + 1 <= Here PROVE Well(m + 1) OBVIOUS
  <2>1. Well(m) /\ m + 1 \in 1..Here /\ (m + 1) - 1 = m BY <1>3, <1>6
  <2>2. f[m + 1] = f[m] \cup UNION {Successors(a) : a \in (f[m] \ wall) \cap Addresses}
    BY <1>4, <2>1
  <2> HIDE DEF T
  <2>3. ASSUME NEW x \in (f[m + 1] \ wall) \cap Addresses, x < m + 1
        PROVE  Successors(x) \subseteq f[m + 1]
    <3>1. CASE x \in f[m] BY <2>2, <2>3, <3>1
    <3>2. CASE x \notin f[m]
      <4>1. PICK y \in (f[m] \ wall) \cap Addresses : x \in Successors(y) BY <2>2, <2>3, <3>2
      <4>2. x > y BY <2>3, <4>1 DEF Forward
      <4>3. x \in Nat /\ y \in Nat BY <1>3, <2>3, <4>1
      <4>4. y < m BY <2>3, <4>2, <4>3
      <4> QED BY <2>1, <3>2, <4>1, <4>4
    <3> QED BY <3>1, <3>2
  <2> QED BY <2>1, <2>2, <2>3
<1>7. \A m \in Nat : m \in T
  <2> HIDE DEF T
  <2> QED BY <1>5, <1>6, CountUp
<1> QED BY <1>2, <1>3, <1>7

LEMMA OnwardStops ==
  ASSUME code \in Seq(Instruction), NEW wall, Forward(wall)
  PROVE  Onward({}, wall) = {} /\ \A a \in wall \cap Int : Onward({a}, wall) = {a}
<1>1. ReachedFrom({}, wall) \subseteq {}
  <2>1. PICK S : S = {} OBVIOUS
  <2> QED BY <2>1, ReachedWithin
<1>2. ASSUME NEW a \in wall \cap Int PROVE Onward({a}, wall) = {a}
  <2>1. PICK S : S = {a} OBVIOUS
  <2>3. S \subseteq ReachedFrom(S, wall) BY <2>1, ReachedOn
  <2> QED BY <2>1, <2>3, ReachedWithin DEF Onward
<1> QED BY <1>1, <1>2 DEF Onward

LEMMA OnwardGoes ==
  ASSUME code \in Seq(Instruction), NEW wall, Forward(wall), NEW a \in Addresses, a \notin wall
  PROVE  Onward({a}, wall) = Onward(Successors(a), wall)
<1>1. PICK from, next : from = {a} /\ next = Successors(a) OBVIOUS
<1>2. from \in SUBSET Int /\ next \in SUBSET Int BY <1>1, SuccessorsType DEF Addresses
<1>3. PICK R, S : R = ReachedFrom(from, wall) /\ S = ReachedFrom(next, wall) OBVIOUS
<1>4. /\ from \subseteq R /\ \A x \in (R \ wall) \cap Addresses : Successors(x) \subseteq R
      /\ next \subseteq S /\ \A x \in (S \ wall) \cap Addresses : Successors(x) \subseteq S
  BY <1>2, <1>3, ReachedOn
<1>5. R \subseteq from \cup S
  <2>1. PICK X : X = from \cup S OBVIOUS
  <2>3. ReachedFrom(from, wall) \subseteq X BY <1>1, <1>4, <2>1, ReachedWithin
  <2> QED BY <1>3, <2>1, <2>3
<1>6. S \subseteq R BY <1>1, <1>3, <1>4, ReachedWithin
<1> QED BY <1>1, <1>3, <1>5, <1>6 DEF Onward

LEMMA OnwardBoth ==
  ASSUME code \in Seq(Instruction), NEW wall, Forward(wall), NEW a \in Int, NEW b \in Int
  PROVE  Onward({a, b}, wall) = Onward({a}, wall) \cup Onward({b}, wall)
<1>1. PICK A, B, C : A = {a} /\ B = {b} /\ C = {a, b} OBVIOUS
<1>2. A \in SUBSET Int /\ B \in SUBSET Int /\ C \in SUBSET Int /\ C = A \cup B BY <1>1
<1>3. PICK R, S, T : R = ReachedFrom(A, wall) /\ S = ReachedFrom(B, wall) /\ T = ReachedFrom(C, wall)
  OBVIOUS
<1>4. /\ A \subseteq R /\ \A x \in (R \ wall) \cap Addresses : Successors(x) \subseteq R
      /\ B \subseteq S /\ \A x \in (S \ wall) \cap Addresses : Successors(x) \subseteq S
      /\ C \subseteq T /\ \A x \in (T \ wall) \cap Addresses : Successors(x) \subseteq T
  BY <1>2, <1>3, ReachedOn
<1>5. T \subseteq R \cup S
  <2>1. PICK X : X = R \cup S OBVIOUS
  <2>2. C \in SUBSET X /\ \A x \in (X \ wall) \cap Addresses : Successors(x) \subseteq X
    BY <1>2, <1>4, <2>1
  <2>3. ReachedFrom(C, wall) \subseteq X BY <2>2, ReachedWithin
  <2> QED BY <1>3, <2>1, <2>3
<1>6. R \subseteq T /\ S \subseteq T BY <1>2, <1>3, <1>4, ReachedWithin
<1> QED BY <1>1, <1>3, <1>5, <1>6 DEF Onward

\* Control passes through quiet code.
LEMMA OnwardQuiet ==
  ASSUME code \in Seq(Instruction), NEW wall, Forward(wall), NEW lo \in Nat, NEW hi \in Nat,
         lo <= hi, hi <= Here, Quiet(code, lo, hi), \A x \in lo..(hi - 1) : x \notin wall
  PROVE  Onward({lo}, wall) = Onward({hi}, wall)
<1> DEFINE T == {m \in Nat : lo + m <= hi => Onward({lo}, wall) = Onward({lo + m}, wall)}
<1>1. 0 \in T OBVIOUS
<1>2. ASSUME NEW m \in Nat, m \in T PROVE m + 1 \in T
  <2> SUFFICES ASSUME lo + (m + 1) <= hi
               PROVE  Onward({lo}, wall) = Onward({lo + (m + 1)}, wall)
    OBVIOUS
  <2>1. PICK x : x = lo + m OBVIOUS
  <2>2. x \in lo..(hi - 1) /\ x + 1 = lo + (m + 1) /\ lo + m <= hi /\ x \in Addresses
    BY <2>1 DEF Here, Addresses
  <2>3. Onward({lo}, wall) = Onward({x}, wall) BY <1>2, <2>1, <2>2
  <2> HIDE DEF T
  <2>5. Onward({x}, wall) = Onward(Successors(x), wall) BY <2>2, OnwardGoes
  <2> QED BY <2>2, <2>3, <2>5 DEF Quiet, Successors, Jumps, Stops
<1>3. \A m \in Nat : m \in T
  <2> HIDE DEF T
  <2> QED BY <1>1, <1>2, CountUp
<1>4. PICK m : m \in Nat /\ lo + m = hi
  <2>1. hi - lo \in Nat /\ lo + (hi - lo) = hi OBVIOUS
  <2> QED BY <2>1
<1>5. m \in T BY <1>3, <1>4
<1>6. lo + m <= hi BY <1>4
<1>7. Onward({lo}, wall) = Onward({lo + m}, wall) BY <1>5, <1>6
<1> HIDE DEF T
<1> QED BY <1>4, <1>7

-----------------------------------------------------------------------------
(* A finished chunk *)

\* Where the code of the text ends, and where that of a mark begins.
Text == Here - 3
Begins(k) == Place(source, Text, k)

Followed ==
  /\ code \in Seq(Instruction) /\ source \in Seq(Mark) /\ Text \in Nat /\ Here = Text + 3
  /\ Pieces(code, source, Text)
  /\ \A k \in DOMAIN source :
       /\ source[k].kind \in Branches => TestLeads(code, source, Text, k)
       /\ source[k].kind \in {"else", "elseif"} => SkipLeads(code, source, Text, k)
       /\ source[k].kind \in {"endwhile", "endfor"} => BackLeads(code, source, k)
  /\ \A a \in Text..(Here - 1) : At(code, a).op \notin Jumps

LEMMA FollowedIs ==
  ASSUME EndFlow, Finished PROVE Followed
<1>1. PICK c \in Seq(Instruction) :
        source \in Seq(Mark) /\ code = c \o Return /\ FlowText(c, source, Len(c), << >>)
  BY DEF EndFlow
<1>2. PICK d : d = code OBVIOUS
<1>3. PICK r : r = Return OBVIOUS
<1>4. /\ r \in Seq(Instruction) /\ Len(r) = 3
      /\ r[1] = I("PUSH_NULL", 0) /\ r[2] = I("RET", 0) /\ r[3] = I("HALT", 0)
  BY <1>3 DEF Return, I, Instruction, Opcodes
<1> DEFINE n == Len(c)
<1>5. d \in Seq(Instruction) /\ Len(d) = n + 3 /\ n \in Nat
  <2>1. d = c \o r BY <1>1, <1>2, <1>3
  <2>2. d \in Seq(Instruction) /\ Len(d) = Len(c) + Len(r) BY <1>4, <2>1, JoinTwo, Zenon
  <2> QED BY <1>4, <2>2
<1>6. /\ \A a \in 1..n : d[a] = c[a]
      /\ \A a \in 1..3 : d[n + a] = r[a]
  <2>1. d = c \o r BY <1>1, <1>2, <1>3
  <2>2. /\ \A a \in 1..Len(c) : (c \o r)[a] = c[a]
        /\ \A a \in 1..Len(r) : (c \o r)[Len(c) + a] = r[a]
    BY <1>4, JoinAt
  <2> QED BY <1>4, <2>1, <2>2
<1> HIDE DEF n
<1>7. \A a \in 0..(n - 1) : At(d, a) = At(c, a) BY <1>5, <1>6 DEF At
<1>8. Text = n /\ Here = n + 3 /\ Len(d) = n + 3 BY <1>2, <1>5 DEF Text, Here
<1>9. ASSUME NEW a \in n..(n + 2) PROVE At(d, a).op \notin Jumps
  BY <1>4, <1>5, <1>6 DEF At, I, Jumps
<1>10. PICK src, e : src = source /\ e = << >> OBVIOUS
<1>11. /\ src \in Seq(Mark) /\ Pieces(c, src, n) /\ Tests(c, src, n, e)
       /\ Skips(c, src, n, e) /\ Backs(c, src) /\ DOMAIN e = {}
  BY <1>1, <1>10 DEF FlowText, n
<1>12. Pieces(d, src, n)
  <2>1. PICK m, tgt : m = [kind |-> "NOTHING", at |-> n] /\ tgt = Append(src, m) OBVIOUS
  <2>2. m \in Mark /\ m.at = n BY <1>5, <2>1 DEF Mark, MarkKinds
  <2>3. Written(c, d, {}, src, tgt, m) BY <1>5, <1>7, <1>11, <2>1, <2>2 DEF Written, n
  <2>4. ASSUME NEW k \in DOMAIN src PROVE Piece(d, src[k].kind, src[k].at, Place(src, n, k + 1))
    <3>1. PICK a, b : a = src[k].at /\ b = Place(src, n, k + 1) OBVIOUS
    <3>3. a \in Nat /\ b \in Nat /\ b <= Len(c) /\ Piece(c, src[k].kind, a, b)
      BY <1>5, <1>11, <3>1, JumpsOf DEF JumpsAt, Pieces, n
    <3> QED BY <2>3, <3>1, <3>3, PieceKept
  <2> QED BY <1>11, <2>4 DEF Pieces
<1>13. ASSUME NEW k \in DOMAIN src
       PROVE  /\ src[k].kind \in Branches => TestLeads(d, src, n, k)
              /\ src[k].kind \in {"else", "elseif"} => SkipLeads(d, src, n, k)
              /\ src[k].kind \in {"endwhile", "endfor"} => BackLeads(d, src, k)
  <2>1. PICK a, b : a = src[k].at /\ b = Place(src, n, k + 1) OBVIOUS
  <2>2. JumpsAt(c, src[k].kind, a, b) /\ b <= n BY <1>5, <1>11, <2>1, JumpsOf
  <2>3. /\ src[k].kind \in Branches => JumpTarget(d, b - 1) = JumpTarget(c, b - 1)
        /\ src[k].kind \in {"else", "elseif", "endwhile", "endfor"} =>
             JumpTarget(d, a) = JumpTarget(c, a)
    BY <1>5, <1>7, <2>2 DEF JumpsAt, JumpTarget
  <2>4. /\ src[k].kind \in Branches => TestLeads(c, src, n, k)
        /\ src[k].kind \in {"else", "elseif"} => SkipLeads(c, src, n, k)
        /\ src[k].kind \in {"endwhile", "endfor"} => BackLeads(c, src, k)
    BY <1>11 DEF Tests, Skips, Backs
  <2>5. src[k].kind \in Branches => TestLeads(d, src, n, k) BY <2>1, <2>3, <2>4 DEF TestLeads
  <2>6. src[k].kind \in {"else", "elseif"} => SkipLeads(d, src, n, k)
    BY <2>1, <2>3, <2>4 DEF SkipLeads
  <2>7. src[k].kind \in {"endwhile", "endfor"} => BackLeads(d, src, k)
    BY <2>1, <2>3, <2>4 DEF BackLeads
  <2> QED BY <2>5, <2>6, <2>7
<1>14. \A a \in Text..(Here - 1) : At(code, a).op \notin Jumps BY <1>2, <1>5, <1>8, <1>9
<1> QED BY <1>2, <1>5, <1>8, <1>10, <1>11, <1>12, <1>13, <1>14 DEF Followed

LEMMA PlacesAre ==
  ASSUME Followed
  PROVE  LET L == Len(source) IN
         /\ L \in Nat /\ DOMAIN source = 1..L /\ Text \in Nat /\ Here = Text + 3
         /\ Begins(1) = 0 /\ Begins(L + 1) = Text
         /\ \A k \in DOMAIN source :
              /\ Begins(k) = source[k].at /\ Begins(k) \in Nat /\ Begins(k + 1) \in Nat
              /\ Begins(k) <= Begins(k + 1) /\ Begins(k + 1) <= Text
              /\ Start(k) = Begins(k) + (IF source[k].kind = "elseif" THEN 1 ELSE 0)
              /\ Length(k) = Begins(k + 1) - Start(k)
         /\ \A k \in DOMAIN source, j \in 1..(L + 1) : k < j => Begins(k + 1) <= Begins(j)
<1> DEFINE L == Len(source)
<1>1. /\ source \in Seq(Mark) /\ Text \in Nat /\ Here = Text + 3 /\ Pieces(code, source, Text)
  BY DEF Followed
<1>2. /\ DOMAIN source = 1..L /\ L \in Nat
      /\ \A x \in DOMAIN source : source[x].at \in Nat /\ Place(source, Text, x) = source[x].at
      /\ \A x \in 1..(L + 1) : Place(source, Text, x) \in Nat
      /\ Place(source, Text, L + 1) = Text
  BY <1>1, PlaceIs
<1> HIDE DEF L
<1>3. ASSUME NEW k \in DOMAIN source
      PROVE  /\ Begins(k) = source[k].at /\ Begins(k) \in Nat /\ Begins(k + 1) \in Nat
             /\ Begins(k) <= Begins(k + 1) /\ Begins(k + 1) <= Text
             /\ Start(k) = Begins(k) + (IF source[k].kind = "elseif" THEN 1 ELSE 0)
             /\ Length(k) = Begins(k + 1) - Start(k)
  <2>1. JumpsAt(code, source[k].kind, source[k].at, Begins(k + 1)) /\ Begins(k + 1) <= Text
    BY <1>1, JumpsOf DEF Begins
  <2>2. Begins(k) = source[k].at BY <1>2 DEF Begins
  <2>4. Length(k) = Begins(k + 1) - Start(k)
    <3>1. CASE k = L BY <1>2, <3>1 DEF Length, Begins, L, Text
    <3>2. CASE k # L BY <1>2, <3>2 DEF L, Begins, Length
    <3> QED BY <3>1, <3>2
  <2> QED BY <2>1, <2>2, <2>4 DEF JumpsAt, Start, Kind
<1> QED BY <1>1, <1>2, <1>3 DEF L, Pieces, Begins

\* The code of a mark has at most one start, its own.
LEMMA StartsAre ==
  ASSUME Followed
  PROVE  /\ Starts \in SUBSET Int /\ Text \in Starts
         /\ \A k \in DOMAIN source : Start(k) \in Int
         /\ \A k \in DOMAIN source, x \in Starts :
              Begins(k) <= x /\ x < Begins(k + 1) => x = Start(k) /\ k \in Acting
<1>1. /\ Text \in Nat /\ source \in Seq(Mark) /\ Pieces(code, source, Text)
      /\ \A k \in DOMAIN source :
           /\ Begins(k) = source[k].at /\ Begins(k) \in Nat /\ Begins(k + 1) \in Nat
           /\ Begins(k) <= Begins(k + 1) /\ Begins(k + 1) <= Text
           /\ Start(k) = Begins(k) + (IF source[k].kind = "elseif" THEN 1 ELSE 0)
           /\ Length(k) = Begins(k + 1) - Start(k)
  BY PlacesAre DEF Followed
<1>2. ASSUME NEW k \in DOMAIN source
      PROVE  /\ Start(k) \in Int /\ Begins(k) <= Start(k)
             /\ Length(k) > 0 => Start(k) < Begins(k + 1)
  BY <1>1
<1>3. Starts = {Start(i) : i \in Acting} \cup {Text} /\ Acting \subseteq DOMAIN source
      /\ \A i \in Acting : Length(i) > 0
  BY DEF Starts, Acting, Text
<1>4. ASSUME NEW k \in DOMAIN source, NEW x \in Starts, Begins(k) <= x, x < Begins(k + 1)
      PROVE  x = Start(k) /\ k \in Acting
  <2>1. x # Text BY <1>1, <1>4
  <2>2. PICK i \in Acting : x = Start(i) BY <1>3, <2>1
  <2>3. i \in DOMAIN source /\ source[i].at <= x /\ x < Begins(i + 1) /\ x \in Int
        /\ source[k].at <= x
    BY <1>1, <1>2, <1>3, <1>4, <2>2
  <2>4. i = k BY <1>1, <1>4, <2>3, OneMark DEF Begins
  <2> QED BY <2>2, <2>4
<1> QED BY <1>1, <1>2, <1>3, <1>4

\* Each address of the text belongs to a mark.
LEMMA Belongs ==
  ASSUME Followed, NEW a \in 0..(Text - 1)
  PROVE  \E k \in DOMAIN source : Begins(k) <= a /\ a < Begins(k + 1)
<1> DEFINE L == Len(source)
           S == {k \in 1..L : Begins(k) <= a}
<1>1. /\ L \in Nat /\ DOMAIN source = 1..L /\ Text \in Nat
      /\ Begins(1) = 0 /\ Begins(L + 1) = Text
      /\ \A k \in DOMAIN source : Begins(k) \in Nat /\ Begins(k + 1) \in Nat
  BY PlacesAre
<1> HIDE DEF L
<1>2. L # 0 BY <1>1
<1>3. 1 \in S /\ S \in SUBSET (1..L) BY <1>1, <1>2
<1>4. PICK k \in S : \A y \in S : y <= k
  <2> HIDE DEF S
  <2> QED BY <1>1, <1>3, Greatest
<1>5. k \in DOMAIN source /\ Begins(k) <= a /\ Begins(k + 1) \in Nat BY <1>1, <1>4
<1>6. a < Begins(k + 1)
  <2>1. CASE k = L BY <1>1, <2>1
  <2>2. CASE k # L BY <1>1, <1>4, <1>5, <2>2
  <2> QED BY <2>1, <2>2
<1> QED BY <1>5, <1>6

\* Where the jumps of the marks lead: those of an ELSE, of the end of a loop, of a
\* condition.
Skipping(k, j) ==
  /\ j \in DOMAIN source /\ Follows(source, k, {"endif"}, j)
  /\ Begins(k) \in Addresses \ Starts /\ Successors(Begins(k)) = {Begins(j + 1)}
  /\ Begins(j + 1) > Begins(k)
Backing(k, i) ==
  /\ i \in DOMAIN source /\ Precedes(source, k, OpenedBy(source[k].kind), i)
  /\ Begins(k) \in Addresses \ Starts /\ Successors(Begins(k)) = {source[i].at}
  /\ source[i].at \in Starts
Refusal(j) == IF source[j].kind = "elseif" THEN Start(j) ELSE Begins(j + 1)
Testing(k, j) ==
  LET t == Begins(k + 1) - 1 IN
  /\ j \in DOMAIN source /\ Follows(source, k, Ending(source[k].kind), j)
  /\ k \in Acting /\ Start(k) \in Nat /\ Start(k) < t /\ t \in Addresses
  /\ Quiet(code, Start(k), t) /\ \A x \in (Start(k) + 1)..t : x \notin Starts
  /\ Successors(t) = {t + 1, Refusal(j)} /\ Refusal(j) > t

\* A mark of which a number is known.
MarkIs(k) ==
  LET a == Begins(k)  b == Begins(k + 1) IN
  /\ a \in Nat /\ b \in Nat /\ a <= b /\ b <= Text /\ Text \in Nat /\ Addresses = 0..(Text + 2)
  /\ a = source[k].at /\ Piece(code, source[k].kind, a, b)
  /\ Start(k) = a + (IF source[k].kind = "elseif" THEN 1 ELSE 0)
  /\ k \in Acting <=> source[k].kind \notin Structure /\ Start(k) < b
  /\ k \in Acting => Start(k) \in Starts
  /\ \A x \in Int : a <= x /\ x < b /\ x # Start(k) => x \notin Starts
  /\ k \notin Acting => \A x \in Int : a <= x /\ x < b => x \notin Starts

LEMMA MarkIsSo ==
  ASSUME Followed, NEW k \in DOMAIN source PROVE MarkIs(k)
<1>1. /\ Text \in Nat /\ Here = Text + 3 /\ Begins(k) = source[k].at /\ Begins(k) \in Nat
      /\ Begins(k + 1) \in Nat /\ Begins(k) <= Begins(k + 1) /\ Begins(k + 1) <= Text
      /\ Start(k) = Begins(k) + (IF source[k].kind = "elseif" THEN 1 ELSE 0)
      /\ Length(k) = Begins(k + 1) - Start(k)
  BY PlacesAre
<1>2. \A x \in Starts : Begins(k) <= x /\ x < Begins(k + 1) => x = Start(k) /\ k \in Acting
  BY StartsAre
<1>3. Piece(code, source[k].kind, Begins(k), Begins(k + 1)) BY <1>1 DEF Followed, Pieces, Begins
<1>4. Addresses = 0..(Text + 2) BY <1>1 DEF Addresses
<1>5. k \in Acting => Start(k) \in Starts BY DEF Starts
<1>6. k \in Acting <=> source[k].kind \notin Structure /\ Start(k) < Begins(k + 1)
  BY <1>1 DEF Acting, Kind
<1> QED BY <1>1, <1>2, <1>3, <1>4, <1>5, <1>6 DEF MarkIs

\* What follows a mark begins behind it.
LEMMA FollowsBehind ==
  ASSUME Followed, NEW k \in DOMAIN source, NEW kinds, NEW j, Follows(source, k, kinds, j)
  PROVE  /\ j \in DOMAIN source /\ Begins(k + 1) <= Begins(j) /\ Begins(j) <= Begins(j + 1)
         /\ Begins(j + 1) \in Nat /\ Begins(j) \in Nat /\ source[j].kind \in kinds
<1>1. /\ Len(source) \in Nat /\ DOMAIN source = 1..Len(source)
      /\ \A x \in DOMAIN source : Begins(x) \in Nat /\ Begins(x + 1) \in Nat /\ Begins(x) <= Begins(x + 1)
      /\ \A x \in DOMAIN source, y \in 1..(Len(source) + 1) : x < y => Begins(x + 1) <= Begins(y)
  BY PlacesAre
<1>2. j \in (k + 1)..Len(source) /\ source[j].kind \in kinds BY DEF Follows
<1> QED BY <1>1, <1>2

LEMMA MarkSkips ==
  ASSUME Followed, NEW k \in DOMAIN source, source[k].kind \in {"else", "elseif"}
  PROVE  \E j : Skipping(k, j)
<1>1. PICK j \in DOMAIN source :
        Follows(source, k, {"endif"}, j) /\ JumpTarget(code, source[k].at) = Begins(j + 1)
  BY DEF Followed, SkipLeads, Begins
<1> DEFINE a == Begins(k)
           b == Begins(k + 1)
<1>3. /\ a \in Nat /\ b \in Nat /\ a <= b /\ b <= Text /\ Text \in Nat /\ Addresses = 0..(Text + 2)
      /\ a = source[k].at /\ Piece(code, source[k].kind, a, b)
      /\ Start(k) = a + (IF source[k].kind = "elseif" THEN 1 ELSE 0)
      /\ k \in Acting => source[k].kind \notin Structure
      /\ \A x \in Int : a <= x /\ x < b /\ x # Start(k) => x \notin Starts
      /\ k \notin Acting => \A x \in Int : a <= x /\ x < b => x \notin Starts
  BY MarkIsSo DEF MarkIs
<1> HIDE DEF a, b
<1>4. a < b /\ At(code, a).op = "JMP"
  <2>1. CASE source[k].kind = "else" BY <1>3, <2>1 DEF Piece
  <2>2. CASE source[k].kind = "elseif" BY <1>3, <2>2 DEF Piece
  <2> QED BY <2>1, <2>2
<1>5. a \in Addresses BY <1>3, <1>4
<1>6. a \notin Starts
  <2>1. CASE source[k].kind = "else" BY <1>3, <1>4, <2>1 DEF Structure
  <2>2. CASE source[k].kind = "elseif" BY <1>3, <1>4, <2>2
  <2> QED BY <2>1, <2>2
<1>7. Successors(a) = {Begins(j + 1)} BY <1>1, <1>3, <1>4 DEF Successors
<1>8. Begins(j + 1) > a BY <1>1, <1>3, <1>4, FollowsBehind DEF b
<1> QED BY <1>1, <1>5, <1>6, <1>7, <1>8 DEF Skipping, a

LEMMA MarkBacks ==
  ASSUME Followed, NEW k \in DOMAIN source, source[k].kind \in {"endwhile", "endfor"}
  PROVE  \E i : Backing(k, i)
<1>1. PICK i \in DOMAIN source :
        /\ Precedes(source, k, OpenedBy(source[k].kind), i)
        /\ JumpTarget(code, source[k].at) = source[i].at
  BY DEF Followed, BackLeads
<1> DEFINE a == Begins(k)
           b == Begins(k + 1)
<1>2. /\ a \in Nat /\ b \in Nat /\ a <= b /\ b <= Text /\ Text \in Nat /\ Addresses = 0..(Text + 2)
      /\ a = source[k].at /\ Piece(code, source[k].kind, a, b)
      /\ k \in Acting => source[k].kind \notin Structure
      /\ k \notin Acting => \A x \in Int : a <= x /\ x < b => x \notin Starts
  BY MarkIsSo DEF MarkIs
<1> HIDE DEF a, b
<1>4. source[i].kind \in {"while", "for"} BY <1>1 DEF Precedes, OpenedBy
<1>5. source[i].at \in Starts BY <1>4, MarkIsSo DEF Piece, Openers, Structure, MarkIs
<1>6. b = a + 1 /\ At(code, a).op = "JMP" BY <1>2 DEF Piece
<1>7. a \in Addresses /\ k \notin Acting /\ a < b BY <1>2, <1>6 DEF Structure
<1>8. a \notin Starts BY <1>2, <1>7
<1>9. Successors(a) = {source[i].at} BY <1>1, <1>2, <1>6 DEF Successors
<1> QED BY <1>1, <1>5, <1>7, <1>8, <1>9 DEF Backing, a

LEMMA MarkTests ==
  ASSUME Followed, NEW k \in DOMAIN source, source[k].kind \in Branches
  PROVE  \E j : Testing(k, j)
<1> DEFINE a == Begins(k)
           b == Begins(k + 1)
<1>1. PICK j \in DOMAIN source :
        /\ Follows(source, k, Ending(source[k].kind), j)
        /\ JumpTarget(code, b - 1) = (IF source[j].kind = "elseif" THEN source[j].at + 1 ELSE Begins(j + 1))
  BY DEF Followed, TestLeads, Begins
<1>2. /\ b <= Begins(j) /\ Begins(j) <= Begins(j + 1) /\ Begins(j + 1) \in Nat /\ Begins(j) \in Nat
      /\ Begins(j) = source[j].at
      /\ Start(j) = Begins(j) + (IF source[j].kind = "elseif" THEN 1 ELSE 0)
  BY <1>1, FollowsBehind, PlacesAre
<1>3. /\ a \in Nat /\ b \in Nat /\ a <= b /\ b <= Text /\ Text \in Nat /\ Addresses = 0..(Text + 2)
      /\ Piece(code, source[k].kind, a, b)
      /\ Start(k) = a + (IF source[k].kind = "elseif" THEN 1 ELSE 0)
      /\ source[k].kind \notin Structure /\ Start(k) < b => k \in Acting
      /\ \A x \in Int : a <= x /\ x < b /\ x # Start(k) => x \notin Starts
  BY MarkIsSo DEF MarkIs
<1> HIDE DEF a, b
<1>4. /\ Start(k) \in Nat /\ Start(k) + 2 <= b /\ Quiet(code, Start(k), b - 1) /\ a <= Start(k)
      /\ At(code, b - 1).op = "JMP_IF_FALSE"
  <2>1. CASE source[k].kind \in Openers BY <1>3, <2>1 DEF Piece, Openers
  <2>2. CASE source[k].kind = "elseif" BY <1>3, <2>2 DEF Piece
  <2> QED BY <2>1, <2>2 DEF Branches, Openers
<1>5. PICK t : t = b - 1 OBVIOUS
<1>6. t \in Nat /\ Start(k) < t /\ Start(k) < b /\ t + 1 = b /\ t \in Addresses BY <1>3, <1>4, <1>5
<1>7. k \in Acting BY <1>3, <1>6 DEF Branches, Structure
<1>8. \A x \in (Start(k) + 1)..t : x \notin Starts BY <1>3, <1>4, <1>6
<1>9. Refusal(j) = JumpTarget(code, t) /\ Refusal(j) > t
  <2>1. CASE source[j].kind = "elseif" BY <1>1, <1>2, <1>3, <1>5, <2>1 DEF Refusal
  <2>2. CASE source[j].kind # "elseif" BY <1>1, <1>2, <1>3, <1>5, <2>2 DEF Refusal
  <2> QED BY <2>1, <2>2
<1>10. Successors(t) = {t + 1, Refusal(j)} BY <1>4, <1>5, <1>9 DEF Successors
<1> QED BY <1>1, <1>4, <1>5, <1>6, <1>7, <1>8, <1>9, <1>10 DEF Testing, b

\* Only the ends of loops lead back, to the start of a condition.
LEMMA StartsForward ==
  ASSUME Followed PROVE Forward(Starts)
<1> SUFFICES ASSUME NEW x \in Addresses \ Starts, NEW y \in Successors(x)
             PROVE  y > x \/ y \in Starts
  BY DEF Forward
<1>1. Text \in Nat /\ Here = Text + 3 /\ Addresses = 0..(Here - 1) /\ x \in Int
  BY PlacesAre DEF Addresses
<1>2. CASE At(code, x).op \notin Jumps BY <1>1, <1>2 DEF Successors, Jumps
<1>3. CASE At(code, x).op \in Jumps
  <2>1. x \in 0..(Text - 1) BY <1>1, <1>3 DEF Followed
  <2>2. PICK k \in DOMAIN source : Begins(k) <= x /\ x < Begins(k + 1) BY <2>1, Belongs
  <2> DEFINE a == Begins(k)
             b == Begins(k + 1)
             kind == source[k].kind
  <2>3. a \in Nat /\ b \in Nat /\ Piece(code, kind, a, b) BY MarkIsSo DEF MarkIs
  <2>4. /\ kind \in {"else", "elseif"} => \E j : Skipping(k, j)
        /\ kind \in {"endwhile", "endfor"} => \E i : Backing(k, i)
        /\ kind \in Branches => \E j : Testing(k, j)
    BY MarkSkips, MarkBacks, MarkTests
  <2>5. a <= x /\ x < b BY <2>2
  <2> HIDE DEF a, b, kind
  <2>6. ASSUME NEW lo, NEW hi, Quiet(code, lo, hi) PROVE x \notin lo..(hi - 1)
    BY <1>3, <2>6 DEF Quiet
  <2>7. CASE kind \in {"else", "elseif"} /\ x = a
    <3>1. PICK j : Skipping(k, j) BY <2>4, <2>7
    <3> QED BY <2>7, <3>1 DEF Skipping, a
  <2>8. CASE kind \in {"endwhile", "endfor"} /\ x = a
    <3>1. PICK i : Backing(k, i) BY <2>4, <2>8
    <3> QED BY <2>8, <3>1 DEF Backing, a
  <2>9. CASE kind \in Branches /\ x = b - 1
    <3>1. PICK j : Testing(k, j) BY <2>4, <2>9
    <3> QED BY <1>1, <2>9, <3>1 DEF Testing, b
  <2>10. CASE kind = "endif" BY <1>1, <2>3, <2>5, <2>10 DEF Piece, JumpTarget, I, Successors
  <2>11. CASE kind \in {"else", "endwhile", "endfor"}
    BY <1>1, <2>3, <2>5, <2>7, <2>8, <2>11 DEF Piece
  <2>12. CASE kind \in Openers BY <1>1, <2>3, <2>5, <2>6, <2>9, <2>12 DEF Piece, Openers, Branches
  <2>13. CASE kind = "elseif"
    <3>2. x \notin (a + 1)..((b - 1) - 1) BY <2>3, <2>6, <2>13 DEF Piece
    <3>3. x = b - 1 \/ x = a BY <1>1, <2>3, <2>5, <3>2
    <3> QED BY <2>7, <2>9, <2>13, <3>3 DEF Branches
  <2>14. CASE kind = "RETURN" BY <1>1, <1>3, <2>3, <2>5, <2>6, <2>14 DEF Piece, Jumps
  <2>15. kind # "step" BY <1>1, <2>3, <2>5 DEF Piece
  <2>16. CASE kind \notin Branches \cup Closers \cup {"else", "step", "RETURN"}
    BY <1>1, <2>3, <2>5, <2>6, <2>16 DEF Piece
  <2> QED BY <2>10, <2>11, <2>12, <2>13, <2>14, <2>15, <2>16 DEF Branches, Closers, Openers
<1> QED BY <1>2, <1>3

\* Where control comes to from where a mark begins.
Comes(k) == Onward({Begins(k)}, Starts)

ComesOn(k) ==
  /\ source[k].kind \in {"else", "elseif"} => \E j : Skipping(k, j) /\ Comes(k) = Comes(j + 1)
  /\ source[k].kind \in {"endwhile", "endfor"} => \E i : Backing(k, i) /\ Comes(k) = {source[i].at}
  /\ k \in Acting /\ source[k].kind # "elseif" => Comes(k) = {Start(k)}
  /\ k \notin Acting /\ source[k].kind \notin {"else", "elseif", "endwhile", "endfor"} =>
       Comes(k) = Comes(k + 1)

LEMMA ComesOnSo ==
  ASSUME Followed, NEW k \in DOMAIN source PROVE ComesOn(k)
<1> DEFINE a == Begins(k)
           b == Begins(k + 1)
           kind == source[k].kind
<1>1. /\ code \in Seq(Instruction) /\ Forward(Starts) /\ Starts \in SUBSET Int
  BY StartsForward, StartsAre DEF Followed
<1>2. /\ a \in Nat /\ b \in Nat /\ a <= b /\ b <= Text /\ Text \in Nat /\ Addresses = 0..(Text + 2)
      /\ Piece(code, kind, a, b) /\ Start(k) = a + (IF kind = "elseif" THEN 1 ELSE 0)
      /\ k \in Acting <=> kind \notin Structure /\ Start(k) < b
      /\ k \in Acting => Start(k) \in Starts
      /\ k \notin Acting => \A x \in Int : a <= x /\ x < b => x \notin Starts
  BY MarkIsSo DEF MarkIs
<1>3. \A x \in Starts : Onward({x}, Starts) = {x} BY <1>1, OnwardStops
<1>4. ASSUME NEW x \in Addresses \ Starts PROVE Onward({x}, Starts) = Onward(Successors(x), Starts)
  BY <1>1, OnwardGoes
<1> HIDE DEF a, b, kind
<1>5. CASE kind \in {"else", "elseif"}
  <2>1. PICK j : Skipping(k, j) BY <1>5, MarkSkips DEF kind
  <2>2. Comes(k) = Comes(j + 1) BY <1>4, <2>1 DEF Skipping, a, Comes
  <2> QED BY <1>2, <1>5, <2>1, <2>2 DEF ComesOn, kind, Structure
<1>6. CASE kind \in {"endwhile", "endfor"}
  <2>1. PICK i : Backing(k, i) BY <1>6, MarkBacks DEF kind
  <2>2. Comes(k) = {source[i].at} BY <1>3, <1>4, <2>1 DEF Backing, a, Comes
  <2>3. k \notin Acting BY <1>2, <1>6 DEF Structure
  <2> QED BY <1>6, <2>1, <2>2, <2>3 DEF ComesOn, kind
<1>7. CASE k \in Acting /\ kind \notin {"else", "elseif", "endwhile", "endfor"}
  BY <1>2, <1>3, <1>7 DEF Comes, a, ComesOn, kind
<1>8. CASE k \notin Acting /\ kind \notin {"else", "elseif", "endwhile", "endfor"}
  <2>1. a = b \/ (b = a + 1 /\ kind = "endif" /\ At(code, a) = I("JMP", 0))
    <3>1. CASE kind = "endif" BY <1>2, <3>1 DEF Piece
    <3>2. CASE kind = "step" BY <1>2, <3>2 DEF Piece
    <3>3. CASE kind \notin {"endif", "step"} BY <1>2, <1>8, <3>3 DEF Structure
    <3> QED BY <3>1, <3>2, <3>3
  <2>2. Onward({a}, Starts) = Onward({b}, Starts)
    <3>1. CASE a = b BY <3>1
    <3>2. CASE b = a + 1 /\ kind = "endif" /\ At(code, a) = I("JMP", 0)
      <4>1. a \in Addresses \ Starts BY <1>2, <1>8, <3>2
      <4>3. Successors(a) = {b} BY <1>2, <3>2 DEF Successors, JumpTarget, I
      <4> QED BY <1>4, <4>1, <4>3
    <3> QED BY <2>1, <3>1, <3>2
  <2> QED BY <1>8, <2>2 DEF ComesOn, Comes, a, b, kind
<1> QED BY <1>5, <1>6, <1>7, <1>8

\* The code of a mark leads to the next, or where its condition is refused.
LeadsOn(k) ==
  /\ source[k].kind = "RETURN" => Leads(k) = {}
  /\ source[k].kind \in Branches =>
       \E j : Testing(k, j) /\ Leads(k) = Comes(k + 1) \cup Onward({Refusal(j)}, Starts)
  /\ source[k].kind \notin Branches \cup {"RETURN"} => Leads(k) = Comes(k + 1)

LEMMA LeadsOnSo ==
  ASSUME Followed, NEW k \in Acting PROVE LeadsOn(k)
<1> DEFINE a == Begins(k)
           b == Begins(k + 1)
           kind == source[k].kind
           s == Start(k)
<1>1. /\ code \in Seq(Instruction) /\ Forward(Starts) /\ Starts \in SUBSET Int
  BY StartsForward, StartsAre DEF Followed
<1>2. k \in DOMAIN source BY DEF Acting
<1>3. /\ a \in Nat /\ b \in Nat /\ a <= b /\ b <= Text /\ Text \in Nat /\ Addresses = 0..(Text + 2)
      /\ Piece(code, kind, a, b) /\ s = a + (IF kind = "elseif" THEN 1 ELSE 0)
      /\ kind \notin Structure /\ s < b
      /\ \A x \in Int : a <= x /\ x < b /\ x # s => x \notin Starts
  BY <1>2, MarkIsSo DEF MarkIs
<1>4. ASSUME NEW x \in Addresses \ Starts PROVE Onward({x}, Starts) = Onward(Successors(x), Starts)
  BY <1>1, OnwardGoes
<1>5. Leads(k) = Onward(Successors(s), Starts) BY DEF Leads, Onward
<1>6. Here = Text + 3 BY DEF Followed
<1> HIDE DEF a, b, kind, s
<1>7. ASSUME NEW hi \in Nat, s < hi, hi <= b, Quiet(code, s, hi)
      PROVE  Leads(k) = Onward({hi}, Starts)
  <2>1. s \in Nat /\ s \in s..(hi - 1) /\ a <= s BY <1>3, <1>7
  <2>2. Successors(s) = {s + 1} BY <1>7, <2>1 DEF Quiet, Successors, Jumps, Stops
  <2>3. Quiet(code, s + 1, hi) BY <1>7, <2>1 DEF Quiet
  <2>4. \A x \in (s + 1)..(hi - 1) : x \notin Starts BY <1>3, <1>7, <2>1
  <2>5. PICK lo : lo = s + 1 OBVIOUS
  <2>6. lo \in Nat /\ lo <= hi /\ hi <= Here BY <1>3, <1>6, <1>7, <2>1, <2>5
  <2>7. Onward({lo}, Starts) = Onward({hi}, Starts) BY <1>1, <2>3, <2>4, <2>5, <2>6, OnwardQuiet
  <2> QED BY <1>5, <2>2, <2>5, <2>7
<1>8. CASE kind = "RETURN"
  <2>1. b = a + 2 /\ Quiet(code, a, a + 1) /\ At(code, a + 1).op = "RET" /\ s = a
    BY <1>3, <1>8 DEF Piece
  <2>2. PICK x : x = a + 1 OBVIOUS
  <2>3. x \in Nat /\ s < x /\ x <= b /\ Quiet(code, s, x) /\ x \in Addresses /\ x # s /\ x < b /\ a <= x
    BY <1>3, <2>1, <2>2
  <2>4. Leads(k) = Onward({x}, Starts) BY <1>7, <2>3
  <2>5. x \notin Starts BY <1>3, <2>3
  <2>6. Successors(x) = {} BY <2>1, <2>2 DEF Successors
  <2>7. Onward({}, Starts) = {} BY <1>1, OnwardStops
  <2> QED BY <1>4, <1>8, <2>3, <2>4, <2>5, <2>6, <2>7 DEF LeadsOn, Branches, kind
<1>9. CASE kind \in Branches
  <2>1. PICK j : Testing(k, j) BY <1>2, <1>9, MarkTests DEF kind
  <2>2. PICK t, r : t = b - 1 /\ r = Refusal(j) OBVIOUS
  <2>3. /\ s \in Nat /\ s < t /\ t \in Addresses /\ Quiet(code, s, t)
        /\ \A x \in (s + 1)..t : x \notin Starts
        /\ Successors(t) = {t + 1, r} /\ r > t
    BY <2>1, <2>2 DEF Testing, b, s
  <2>4. t \in Nat /\ t <= b /\ t + 1 = b /\ t \in (s + 1)..t BY <1>3, <2>2, <2>3
  <2>5. Leads(k) = Onward({t}, Starts) BY <1>7, <2>3, <2>4
  <2>6. Onward({t}, Starts) = Onward({b, r}, Starts) BY <1>4, <2>3, <2>4
  <2>7. r \in Int BY <1>1, <2>3, SuccessorsType
  <2>8. Onward({b, r}, Starts) = Onward({b}, Starts) \cup Onward({r}, Starts)
    <3>1. PICK y : y = b OBVIOUS
    <3>2. y \in Int BY <1>3, <3>1
    <3>3. Onward({y, r}, Starts) = Onward({y}, Starts) \cup Onward({r}, Starts)
      BY <1>1, <2>7, <3>2, OnwardBoth
    <3> QED BY <3>1, <3>3
  <2>9. Leads(k) = Comes(k + 1) \cup Onward({Refusal(j)}, Starts)
    BY <2>2, <2>5, <2>6, <2>8 DEF Comes, b
  <2> QED BY <1>9, <2>1, <2>9 DEF LeadsOn, Branches, kind
<1>10. CASE kind \notin Branches \cup {"RETURN"}
  <2>2. Quiet(code, a, b) /\ s = a BY <1>3, <1>10 DEF Piece, Branches, Closers, Structure
  <2>3. Leads(k) = Onward({b}, Starts) BY <1>3, <1>7, <2>2
  <2> QED BY <1>10, <2>3 DEF LeadsOn, Comes, b, kind
<1> QED BY <1>8, <1>9, <1>10

\* The marks that the meaning of a program speaks of are those that are near.
LEMMA InnerZero ==
  ASSUME NEW i \in Nat, NEW j \in Nat, i < j
  PROVE  Inner(i, j) = 0 <=> Level(source, j - 1) = Level(source, i)
<1>1. j - 1 \in Nat OBVIOUS
<1>2. Level(source, j - 1) \in Int /\ Level(source, i) \in Int BY <1>1, LevelIs
<1> QED BY <1>2, InnerIs

LEMMA AfterIs ==
  ASSUME Followed, NEW k \in DOMAIN source, NEW kinds, NEW j, Follows(source, k, kinds, j)
  PROVE  After(k, kinds) = j
<1> DEFINE L == Len(source)
           Near(x) == /\ Kind(x) \in kinds /\ Inner(k, x) = 0
                      /\ \A y \in (k + 1)..(x - 1) : ~(Kind(y) \in kinds /\ Inner(k, y) = 0)
<1>1. L \in Nat /\ k \in 1..L BY PlacesAre
<1>3. /\ j \in (k + 1)..L /\ Kind(j) \in kinds /\ Level(source, j - 1) = Level(source, k)
      /\ \A x \in (k + 1)..(j - 1) : ~(Kind(x) \in kinds /\ Level(source, x - 1) = Level(source, k))
  BY DEF Follows, Kind
<1> HIDE DEF L
<1>4. Near(j) BY <1>1, <1>3, InnerZero
<1>5. ASSUME NEW x \in (k + 1)..L, Near(x) PROVE x = j BY <1>1, <1>3, <1>4, <1>5
<1>6. After(k, kinds) = CHOOSE x \in (k + 1)..L : Near(x) BY DEF After, L
<1> HIDE DEF Near
<1> QED BY <1>3, <1>4, <1>5, <1>6

LEMMA BeforeIs ==
  ASSUME Followed, NEW k \in DOMAIN source, NEW kinds, NEW i, Precedes(source, k, kinds, i)
  PROVE  Before(k, kinds) = i
<1> DEFINE Near(x) == /\ Kind(x) \in kinds /\ Inner(x, k) = 0
                      /\ \A y \in (x + 1)..(k - 1) : ~(Kind(y) \in kinds /\ Inner(y, k) = 0)
<1>1. k \in Nat BY PlacesAre
<1>3. /\ i \in 1..(k - 1) /\ Kind(i) \in kinds /\ Level(source, k - 1) = Level(source, i)
      /\ \A x \in (i + 1)..(k - 1) : ~(Kind(x) \in kinds /\ Level(source, k - 1) = Level(source, x))
  BY DEF Precedes, Kind
<1>4. Near(i) BY <1>1, <1>3, InnerZero
<1>5. ASSUME NEW x \in 1..(k - 1), Near(x) PROVE x = i BY <1>1, <1>3, <1>4, <1>5
<1>6. Before(k, kinds) = CHOOSE x \in 1..(k - 1) : Near(x) BY DEF Before
<1> HIDE DEF Near
<1> QED BY <1>3, <1>4, <1>5, <1>6

\* How the address at which control goes on is found from those behind it.
FallsTo(f, i) ==
  IF i > Len(source) THEN Here - 3 ELSE
  CASE Kind(i) \in {"else", "elseif"} -> f[After(i, {"endif"}) + 1]
    [] Kind(i) = "endwhile" -> source[Before(i, {"while"})].at
    [] Kind(i) = "endfor" -> source[Before(i, {"for"})].at
    [] i \in Acting /\ Kind(i) # "elseif" -> Start(i)
    [] OTHER -> f[i + 1]
IsFalls(f) == f = [i \in 1..(Len(source) + 1) |-> FallsTo(f, i)]

LEMMA ComesFalls ==
  ASSUME Followed, NEW k \in 1..(Len(source) + 1), NEW f,
         \A m \in (k + 1)..(Len(source) + 1) : Comes(m) = {f[m]}
  PROVE  Comes(k) = {FallsTo(f, k)}
<1>1. /\ Len(source) \in Nat /\ DOMAIN source = 1..Len(source) /\ Here - 3 = Text
      /\ Begins(Len(source) + 1) = Text
  BY PlacesAre DEF Text
<1>2. CASE k = Len(source) + 1
  <2>1. FallsTo(f, k) = Text BY <1>1, <1>2 DEF FallsTo
  <2>2. Onward({Text}, Starts) = {Text} BY StartsForward, StartsAre, OnwardStops DEF Followed
  <2> QED BY <1>1, <1>2, <2>1, <2>2 DEF Comes
<1>3. CASE k \in DOMAIN source
  <2>1. /\ ComesOn(k) /\ ~(k > Len(source))
        /\ Kind(k) \in {"else", "endwhile", "endfor"} => k \notin Acting
    BY <1>1, <1>3, ComesOnSo DEF Acting, Structure
  <2>2. CASE Kind(k) \in {"else", "elseif"}
    <3>1. PICK j : Skipping(k, j) /\ Comes(k) = Comes(j + 1) BY <2>1, <2>2 DEF ComesOn, Kind
    <3>2. After(k, {"endif"}) = j BY <1>3, <3>1, AfterIs DEF Skipping
    <3>4. FallsTo(f, k) = f[j + 1] BY <2>1, <2>2, <3>2 DEF FallsTo
    <3> QED BY <1>1, <1>3, <3>1, <3>4 DEF Skipping, Follows
  <2>3. CASE Kind(k) \in {"endwhile", "endfor"}
    <3>1. PICK i : Backing(k, i) /\ Comes(k) = {source[i].at} BY <2>1, <2>3 DEF ComesOn, Kind
    <3>2. Before(k, OpenedBy(Kind(k))) = i BY <1>3, <3>1, BeforeIs DEF Backing, Kind
    <3>3. CASE Kind(k) = "endwhile" BY <2>1, <3>1, <3>2, <3>3 DEF FallsTo, OpenedBy
    <3>4. CASE Kind(k) = "endfor" BY <2>1, <3>1, <3>2, <3>4 DEF FallsTo, OpenedBy
    <3> QED BY <2>3, <3>3, <3>4
  <2>4. CASE Kind(k) \notin {"else", "elseif", "endwhile", "endfor"} /\ k \in Acting
    BY <2>1, <2>4 DEF FallsTo, ComesOn, Kind
  <2>5. CASE Kind(k) \notin {"else", "elseif", "endwhile", "endfor"} /\ k \notin Acting
    BY <1>1, <1>3, <2>1, <2>5 DEF FallsTo, ComesOn, Kind
  <2> QED BY <2>2, <2>3, <2>4, <2>5
<1> QED BY <1>1, <1>2, <1>3

\* What holds for all that comes after a mark holds for every mark.
LEMMA CountDown ==
  ASSUME NEW N \in Nat, NEW S, \A k \in 1..N : (\A m \in (k + 1)..N : m \in S) => k \in S
  PROVE  \A k \in 1..N : k \in S
<1> DEFINE T == {d \in Nat : \A k \in 1..N : k + d >= N => k \in S}
<1>1. 0 \in T
  <2> SUFFICES ASSUME NEW k \in 1..N, k + 0 >= N PROVE k \in S OBVIOUS
  <2> QED OBVIOUS
<1>2. ASSUME NEW d \in Nat, d \in T PROVE d + 1 \in T
  <2> SUFFICES ASSUME NEW k \in 1..N, k + (d + 1) >= N PROVE k \in S OBVIOUS
  <2>1. ASSUME NEW m \in (k + 1)..N PROVE m \in S BY <1>2
  <2> QED BY <2>1
<1>3. \A d \in Nat : d \in T
  <2> HIDE DEF T
  <2> QED BY <1>1, <1>2, CountUp
<1>4. N \in T BY <1>3
<1>5. \A k \in 1..N : k + N >= N OBVIOUS
<1> QED BY <1>4, <1>5

LEMMA FallsAre ==
  ASSUME Followed PROVE \A k \in 1..(Len(source) + 1) : Comes(k) = {Falls(k)}
<1> DEFINE N == Len(source) + 1
           e(k) == CHOOSE x : Comes(k) = {x}
           g == [k \in 1..N |-> e(k)]
<1>1. N \in Nat BY PlacesAre
<1>2. \A f : \A k \in 1..N : (\A m \in (k + 1)..N : Comes(m) = {f[m]}) => Comes(k) = {FallsTo(f, k)}
  BY ComesFalls
<1> HIDE DEF N
<1>3. \A k \in 1..N : Comes(k) = {g[k]}
  <2> DEFINE S == {k \in 1..N : Comes(k) = {g[k]}}
  <2>1. ASSUME NEW k \in 1..N, \A m \in (k + 1)..N : m \in S PROVE k \in S
    <3>1. \A m \in (k + 1)..N : Comes(m) = {g[m]} BY <2>1
    <3> HIDE DEF g, S
    <3>2. Comes(k) = {FallsTo(g, k)} BY <1>2, <3>1
    <3>4. Comes(k) = {g[k]} BY <3>2 DEF g
    <3> QED BY <3>4 DEF S
  <2>2. \A k \in 1..N : k \in S
    <3> HIDE DEF S
    <3> QED BY <1>1, <2>1, CountDown
  <2> QED BY <2>2
<1>4. IsFalls(g)
  <2>1. ASSUME NEW k \in 1..N PROVE g[k] = FallsTo(g, k)
    <3> HIDE DEF g
    <3>2. Comes(k) = {FallsTo(g, k)} /\ Comes(k) = {g[k]} BY <1>1, <1>2, <1>3
    <3> QED BY <3>2
  <2>2. PICK h : h = [k \in 1..N |-> FallsTo(g, k)] OBVIOUS
  <2>3. \A k \in 1..N : g[k] = h[k]
    <3> HIDE DEF g
    <3> QED BY <2>1, <2>2
  <2>4. g = h
    <3>1. \A k \in 1..N : g[k] = e(k)
      <4> HIDE DEF e
      <4> QED OBVIOUS
    <3>3. g = [k \in 1..N |-> g[k]]
      <4> HIDE DEF e
      <4> QED BY Zenon
    <3> HIDE DEF g
    <3> QED BY <2>2, <2>3, <3>3
  <2> QED BY <2>2, <2>4 DEF IsFalls, N
<1> DEFINE f == CHOOSE r : IsFalls(r)
<1> HIDE DEF g
<1>5. IsFalls(f) BY <1>4, Zenon
<1>6. \A k : Falls(k) = f[k] BY Zenon DEF Falls, IsFalls, FallsTo
<1> HIDE DEF f
<1>7. \A k \in 1..N : Comes(k) = {f[k]}
  <2> DEFINE S == {k \in 1..N : Comes(k) = {f[k]}}
  <2>1. ASSUME NEW k \in 1..N, \A m \in (k + 1)..N : m \in S PROVE k \in S
    BY <1>2, <1>5, <2>1 DEF IsFalls, N
  <2>2. \A k \in 1..N : k \in S
    <3> HIDE DEF S
    <3> QED BY <1>1, <2>1, CountDown
  <2> QED BY <2>2
<1> QED BY <1>6, <1>7 DEF N

LEMMA FinishedFlows == ASSUME EndFlow PROVE FlowIsSource
<1> SUFFICES ASSUME Finished, NEW i \in Acting PROVE Leads(i) = Meant(i) BY DEF FlowIsSource
<1>1. Followed BY FollowedIs
<1>2. /\ i \in DOMAIN source /\ LeadsOn(i) /\ Len(source) \in Nat /\ DOMAIN source = 1..Len(source)
  BY <1>1, LeadsOnSo, PlacesAre DEF Acting
<1>3. \A k \in 1..(Len(source) + 1) : Comes(k) = {Falls(k)} BY <1>1, FallsAre
<1>4. Comes(i + 1) = {Falls(i + 1)} BY <1>2, <1>3
<1>5. CASE Kind(i) = "RETURN" BY <1>2, <1>5 DEF LeadsOn, Meant, Kind
<1>6. CASE Kind(i) \in Branches
  <2>1. PICK j : Testing(i, j) /\ Leads(i) = Comes(i + 1) \cup Onward({Refusal(j)}, Starts)
    BY <1>2, <1>6 DEF LeadsOn, Kind
  <2>2. j \in DOMAIN source /\ Follows(source, i, Ending(Kind(i)), j) BY <2>1 DEF Testing, Kind
  <2>3. After(i, Ending(Kind(i))) = j /\ Kind(j) \in Ending(Kind(i))
    BY <1>1, <1>2, <2>2, AfterIs DEF Follows, Kind
  <2>5. Onward({Refusal(j)}, Starts) = {IF Kind(j) = "elseif" THEN Start(j) ELSE Falls(j + 1)}
    <3>1. CASE Kind(j) = "elseif"
      <4>1. PICK k : Testing(j, k) BY <1>1, <2>2, <3>1, MarkTests DEF Kind, Branches
      <4>2. j \in Acting BY <4>1 DEF Testing
      <4>3. Start(j) \in Starts /\ Start(j) \in Int BY <1>1, <2>2, <4>2, StartsAre DEF Starts
      <4>4. Onward({Start(j)}, Starts) = {Start(j)}
        BY <1>1, <4>3, StartsForward, OnwardStops DEF Followed
      <4> QED BY <3>1, <4>4 DEF Refusal, Kind
    <3>2. CASE Kind(j) # "elseif" BY <1>2, <1>3, <2>2, <3>2 DEF Refusal, Comes, Kind
    <3> QED BY <3>1, <3>2
  <2>6. Refused(i) = IF Kind(j) = "elseif" THEN Start(j) ELSE Falls(j + 1)
    <3>1. CASE Kind(i) \in {"if", "elseif"} BY <2>3, <3>1 DEF Ending, Refused
    <3>2. CASE Kind(i) = "while" BY <2>3, <3>2 DEF Ending, Refused
    <3>3. CASE Kind(i) = "for" BY <2>3, <3>3 DEF Ending, Refused
    <3> QED BY <1>6, <3>1, <3>2, <3>3 DEF Branches
  <2>7. Meant(i) = {Falls(i + 1), Refused(i)} BY <1>6 DEF Meant, Branches
  <2> QED BY <1>4, <2>1, <2>5, <2>6, <2>7
<1>7. CASE Kind(i) \notin Branches \cup {"RETURN"}
  BY <1>2, <1>4, <1>7 DEF LeadsOn, Kind, Meant, Branches
<1> QED BY <1>5, <1>6, <1>7

\* Whatever the program, the code of each statement or condition of a finished
\* chunk leads to where the text says: branches join after the whole IF, loops go
\* back to their condition, the step of a FOR runs between, and nothing follows a
\* RETURN (emit_if, emit_while, ST_FOR).
THEOREM JumpsFollowText == Spec => []FlowIsSource
<1>1. FlowsInv => FlowIsSource BY FinishedFlows DEF FlowsInv
<1> QED BY <1>1, InitFlows, NextFlows, PTL DEF Spec
====
