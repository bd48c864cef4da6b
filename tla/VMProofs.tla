------------------------------ MODULE VMProofs ------------------------------
(***************************************************************************)
(* The virtual machine and its collector: what the program can get at is   *)
(* allocated, typed locals hold what they are declared to hold, and a      *)
(* collection frees all the rest.                                          *)
(*                                                                         *)
(* A collection is many steps.  What makes the properties inductive is the *)
(* invariant of mark and sweep: in the one, whatever a marked object holds *)
(* is marked or grey; in the other, the objects passed and the marked ones *)
(* ahead are closed, hold the roots, and are all the program can get at.   *)
(***************************************************************************)
EXTENDS VM, TLAPS

-----------------------------------------------------------------------------
(* Sequences. *)

LEMMA AppendIs ==
  ASSUME NEW V, NEW s \in Seq(V), NEW v \in V
  PROVE  /\ Append(s, v) \in Seq(V) /\ Len(Append(s, v)) = Len(s) + 1
         /\ Elements(Append(s, v)) = Elements(s) \cup {v}
<1>1. Append(s, v) \in Seq(V) /\ Len(Append(s, v)) = Len(s) + 1
  OBVIOUS
<1>2. /\ \A i \in DOMAIN s : i \in DOMAIN Append(s, v) /\ Append(s, v)[i] = s[i]
      /\ Len(s) + 1 \in DOMAIN Append(s, v) /\ Append(s, v)[Len(s) + 1] = v
      /\ \A i \in DOMAIN Append(s, v) : i \in DOMAIN s \/ i = Len(s) + 1
  OBVIOUS
<1>3. Elements(Append(s, v)) \subseteq Elements(s) \cup {v}
  BY <1>2 DEF Elements
<1>4. Elements(s) \cup {v} \subseteq Elements(Append(s, v))
  BY <1>2 DEF Elements
<1> QED
  BY <1>1, <1>3, <1>4

LEMMA ConcatIs ==
  ASSUME NEW V, NEW s \in Seq(V), NEW t \in Seq(V)
  PROVE  /\ s \o t \in Seq(V) /\ Len(s \o t) = Len(s) + Len(t)
         /\ Elements(s \o t) = Elements(s) \cup Elements(t)
<1>1. s \o t \in Seq(V) /\ Len(s \o t) = Len(s) + Len(t)
  OBVIOUS
<1>2. /\ \A i \in DOMAIN s : i \in DOMAIN (s \o t) /\ (s \o t)[i] = s[i]
      /\ \A i \in DOMAIN t : Len(s) + i \in DOMAIN (s \o t) /\ (s \o t)[Len(s) + i] = t[i]
  OBVIOUS
<1>3. \A i \in DOMAIN (s \o t) :
        \/ i \in DOMAIN s /\ (s \o t)[i] = s[i]
        \/ i - Len(s) \in DOMAIN t /\ (s \o t)[i] = t[i - Len(s)]
  OBVIOUS
<1>4. Elements(s \o t) \subseteq Elements(s) \cup Elements(t)
  BY <1>3 DEF Elements
<1>5. Elements(s) \cup Elements(t) \subseteq Elements(s \o t)
  BY <1>2 DEF Elements
<1> QED
  BY <1>1, <1>4, <1>5

LEMMA SubSeqIs ==
  ASSUME NEW V, NEW s \in Seq(V), NEW a \in Nat, NEW b \in Nat, 1 <= a, b <= Len(s)
  PROVE  /\ SubSeq(s, a, b) \in Seq(V)
         /\ Len(SubSeq(s, a, b)) = IF a <= b THEN b - a + 1 ELSE 0
         /\ \A i \in DOMAIN SubSeq(s, a, b) :
              a + i - 1 \in DOMAIN s /\ SubSeq(s, a, b)[i] = s[a + i - 1]
         /\ Elements(SubSeq(s, a, b)) \subseteq Elements(s)
<1>1. /\ SubSeq(s, a, b) \in Seq(V)
      /\ Len(SubSeq(s, a, b)) = IF a <= b THEN b - a + 1 ELSE 0
  OBVIOUS
<1>2. \A i \in DOMAIN SubSeq(s, a, b) :
        a + i - 1 \in DOMAIN s /\ SubSeq(s, a, b)[i] = s[a + i - 1]
  OBVIOUS
<1>3. Elements(SubSeq(s, a, b)) \subseteq Elements(s)
  BY <1>2 DEF Elements
<1> QED
  BY <1>1, <1>2, <1>3

LEMMA ElementsIn == ASSUME NEW V, NEW s \in Seq(V) PROVE Elements(s) \subseteq V
  BY DEF Elements

LEMMA FewElements ==
  ASSUME NEW V, NEW v \in V
  PROVE  /\ << >> \in Seq(V) /\ Len(<< >>) = 0 /\ Elements(<< >>) = {}
         /\ <<v>> \in Seq(V) /\ Len(<<v>>) = 1 /\ Elements(<<v>>) = {v}
  BY DEF Elements

LEMMA SetItemIs ==
  ASSUME NEW V, NEW s \in Seq(V), NEW i \in DOMAIN s, NEW v \in V
  PROVE  /\ [s EXCEPT ![i] = v] \in Seq(V) /\ Len([s EXCEPT ![i] = v]) = Len(s)
         /\ \A j \in DOMAIN s : [s EXCEPT ![i] = v][j] = IF j = i THEN v ELSE s[j]
         /\ Elements([s EXCEPT ![i] = v]) \subseteq Elements(s) \cup {v}
<1> DEFINE t == [s EXCEPT ![i] = v]
<1>1. t \in Seq(V) /\ Len(t) = Len(s) /\ DOMAIN t = DOMAIN s
  OBVIOUS
<1>2. \A j \in DOMAIN s : t[j] = IF j = i THEN v ELSE s[j]
  OBVIOUS
<1> HIDE DEF t
<1>3. Elements(t) \subseteq Elements(s) \cup {v}
  BY <1>1, <1>2 DEF Elements
<1> QED
  BY <1>1, <1>2, <1>3 DEF t

-----------------------------------------------------------------------------
(* Types. *)

ItemLists == UNION {[1..n -> Values] : n \in 0..MaxItems}
Object == [kind : Kinds, items : ItemLists, marked : BOOLEAN]
FrameRecord == [chunk : Chunks, base : 0..MaxStack, locals : Seq(Values)]

HeapTyped ==
  /\ memory \in [Objects -> Object] /\ objects \in Seq(Objects)
  /\ \A i, j \in DOMAIN objects : objects[i] = objects[j] => i = j

StackTyped == stack \in Seq(Values) /\ Len(stack) <= MaxStack

FramesTyped ==
  /\ frames \in Seq(FrameRecord)
  /\ \A i \in DOMAIN frames : Len(frames[i].locals) = Len(Locals[frames[i].chunk])

CollectorTyped ==
  /\ gc \in {"off", "mark", "sweep"} /\ grey \subseteq Objects
  /\ at \in 1..(Len(objects) + 1) /\ (gc # "sweep" => at = 1)
  /\ held \in Seq(Values) /\ Len(stack) + Len(held) <= MaxStack
  /\ gc = "off" => held = << >>
  /\ escaped \in BOOLEAN /\ error \in {"none", "other"}

TypeInv == HeapTyped /\ StackTyped /\ FramesTyped /\ CollectorTyped

-----------------------------------------------------------------------------
(* Safety. *)

Refs(s) == Elements(s) \cap Objects
Allocated(s) == Refs(s) \subseteq Listed

StackSafe == Allocated(stack)
FramesSafe == \A i \in DOMAIN frames : Allocated(frames[i].locals)
HeapClosed == \A o \in Listed : Allocated(memory[o].items)
Unmarked == \A o \in Listed : ~memory[o].marked

LocalsTyped ==
  \A i \in DOMAIN frames : \A n \in DOMAIN frames[i].locals :
    \/ frames[i].locals[n] = "null"
    \/ Fits(frames[i].locals[n], Locals[frames[i].chunk][n].type)

Marked == {o \in Listed : memory[o].marked}

\* What a marked object holds is marked or waits to be, and so are the roots;
\* and nothing else is.
MarkSafe ==
  /\ HeapClosed /\ grey \subseteq Listed
  /\ InUse \subseteq grey \cup Marked
  /\ \A o \in Marked : Refs(memory[o].items) \subseteq grey \cup Marked
  /\ grey \cup Marked \subseteq Reachable

\* What gc_sweep leaves: the objects it has passed, and the marked ones ahead.
Passed == {objects[i] : i \in {j \in DOMAIN objects : j < at}}
Survivors == Passed \cup Marked

SweepSafe ==
  /\ InUse \subseteq Survivors
  /\ \A o \in Survivors : Refs(memory[o].items) \subseteq Survivors
  /\ Survivors \subseteq Reachable
  /\ \A o \in Passed : ~memory[o].marked

SafeInv ==
  /\ StackSafe /\ FramesSafe /\ LocalsTyped /\ Allocated(held)
  /\ gc = "off" => HeapClosed /\ Unmarked
  /\ gc = "mark" => MarkSafe
  /\ gc = "sweep" => SweepSafe

Inv == TypeInv /\ (~escaped => SafeInv)

\* What an instruction finds, and has to leave.
HeapGood == HeapTyped /\ HeapClosed /\ Unmarked
FramesGood == FramesTyped /\ FramesSafe /\ LocalsTyped
StackGood == StackTyped /\ StackSafe

Going ==
  /\ HeapGood /\ FramesGood /\ StackGood /\ CollectorTyped
  /\ gc = "off" /\ ~escaped /\ frames # << >>

LEMMA RunningGoes == Inv /\ Running => Going
  BY DEF Inv, TypeInv, SafeInv, Running, Going, HeapGood, FramesGood, StackGood

LEMMA ItemListIs ==
  /\ \A s \in ItemLists : s \in Seq(Values) /\ Len(s) <= MaxItems
  /\ \A s \in Seq(Values) : Len(s) <= MaxItems => s \in ItemLists
<1>1. ASSUME NEW s \in ItemLists PROVE s \in Seq(Values) /\ Len(s) <= MaxItems
  <2>1. PICK n \in 0..MaxItems : s \in [1..n -> Values]
    BY DEF ItemLists
  <2>2. s \in Seq(Values) /\ Len(s) = n
    BY <2>1, BoundAssumption
  <2> QED
    BY <2>2, BoundAssumption
<1>2. ASSUME NEW s \in Seq(Values), Len(s) <= MaxItems PROVE s \in ItemLists
  <2>1. Len(s) \in 0..MaxItems /\ s \in [1..Len(s) -> Values]
    BY <1>2, BoundAssumption
  <2> QED
    BY <2>1 DEF ItemLists
<1> QED
  BY <1>1, <1>2

LEMMA Operands ==
  ASSUME StackTyped, NEW n \in Nat, n <= Len(stack)
  PROVE  /\ Top(n) \in Seq(Values) /\ Len(Top(n)) = n
         /\ Elements(Top(n)) \subseteq Elements(stack)
         /\ \A i \in 1..n : Top(n)[i] \in Elements(stack) /\ Top(n)[i] \in Values
         /\ Below(n) \in Seq(Values) /\ Len(Below(n)) = Len(stack) - n
         /\ Elements(Below(n)) \subseteq Elements(stack)
<1>1. stack \in Seq(Values) /\ Len(stack) \in Nat
  BY DEF StackTyped
<1>2. CASE n = 0
  <2>1. Top(n) = << >>
    BY <1>1, <1>2 DEF Top
  <2>2. Below(n) \in Seq(Values) /\ Len(Below(n)) = Len(stack) /\ Below(n) = stack
    BY <1>1, <1>2 DEF Below
  <2>3. << >> \in Seq(Values) /\ Len(<< >>) = 0 /\ Elements(<< >>) = {}
    BY DEF Elements
  <2> QED
    <3>1. \A i \in 1..n : FALSE
      BY <1>2
    <3>2. \A i \in 1..n : Top(n)[i] \in Elements(stack) /\ Top(n)[i] \in Values
      BY <3>1, Zenon
    <3> QED
      <4>1. Top(n) \in Seq(Values) /\ Len(Top(n)) = n /\ Elements(Top(n)) \subseteq Elements(stack)
        BY <1>2, <2>1, <2>3
      <4>2. Below(n) \in Seq(Values) /\ Elements(Below(n)) \subseteq Elements(stack)
        BY <2>2, Zenon
      <4>3. Len(Below(n)) = Len(stack) - n
        BY <1>1, <1>2, <2>2
      <4> QED
        BY <3>2, <4>1, <4>2, <4>3
<1>3. CASE n > 0
  <2>1. /\ Top(n) \in Seq(Values) /\ Len(Top(n)) = n /\ DOMAIN Top(n) = 1..n
        /\ \A i \in 1..n : Len(stack) - n + i \in DOMAIN stack
                           /\ Top(n)[i] = stack[Len(stack) - n + i]
    BY <1>1, <1>3 DEF Top
  <2>2. /\ Below(n) \in Seq(Values) /\ Len(Below(n)) = Len(stack) - n
        /\ \A i \in DOMAIN Below(n) : i \in DOMAIN stack /\ Below(n)[i] = stack[i]
    BY <1>1, <1>3 DEF Below
  <2>3. Elements(Top(n)) \subseteq Elements(stack) /\ Elements(Below(n)) \subseteq Elements(stack)
    BY <2>1, <2>2 DEF Elements
  <2>4. \A i \in 1..n : Top(n)[i] \in Elements(stack) /\ Top(n)[i] \in Values
    BY <1>1, <2>1 DEF Elements
  <2> QED
    BY <2>1, <2>2, <2>3, <2>4
<1> QED
  BY <1>2, <1>3

LEMMA TopFrame ==
  ASSUME FramesTyped, StackTyped, frames # << >>
  PROVE  /\ Len(frames) \in DOMAIN frames /\ Len(frames) \in Nat \ {0} /\ Frame \in FrameRecord
         /\ Frame = frames[Len(frames)]
         /\ Len(Frame.locals) = Len(Locals[Frame.chunk])
         /\ \A n \in Nat : Depth >= n => n <= Len(stack)
<1>1. Len(frames) \in DOMAIN frames /\ Len(frames) \in Nat \ {0}
  BY DEF FramesTyped
<1>2. Frame \in FrameRecord /\ Len(Frame.locals) = Len(Locals[Frame.chunk])
  BY <1>1 DEF FramesTyped, Frame
<1>3. Frame.base \in Nat /\ Len(stack) \in Nat
  BY <1>2, BoundAssumption DEF FrameRecord, StackTyped
<1>4. \A n \in Nat : Depth >= n => n <= Len(stack)
  BY <1>3 DEF Depth
<1> QED
  BY <1>1, <1>2, <1>4 DEF Frame

-----------------------------------------------------------------------------
(* The heap. *)

\* An instruction frees nothing, and an object keeps its kind.
Kept == \A o \in Listed : o \in Listed' /\ memory'[o].kind = memory[o].kind

LEMMA ListedNext == Listed' = Elements(objects')
  BY DEF Listed, Elements

LEMMA HeapSame ==
  ASSUME HeapGood, UNCHANGED <<memory, objects>>
  PROVE  HeapGood' /\ Kept
<1>1. Listed' = Listed
  BY DEF Listed, Elements
<1>2. HeapTyped'
  BY DEF HeapGood, HeapTyped
<1>3. HeapClosed' /\ Unmarked'
  BY <1>1 DEF HeapGood, HeapClosed, Unmarked, Allocated
<1>4. Kept
  BY <1>1 DEF Kept
<1> QED
  BY <1>2, <1>3, <1>4 DEF HeapGood

LEMMA HeapNew ==
  ASSUME HeapGood, NEW o, NEW kind \in Kinds, NEW items \in ItemLists,
         Allocated(items), New(o, kind, items)
  PROVE  /\ HeapGood' /\ Kept /\ o \in Objects
         /\ Listed' = Listed \cup {o} /\ memory'[o].kind = kind
<1> DEFINE new == [kind |-> kind, items |-> items, marked |-> FALSE]
<1>1. /\ o \in Objects /\ o \notin Listed /\ new \in Object
      /\ memory' = [memory EXCEPT ![o] = new] /\ objects' = <<o>> \o objects
  BY DEF New, Object
<1>2. objects \in Seq(Objects) /\ <<o>> \in Seq(Objects)
      /\ \A i, j \in DOMAIN objects : objects[i] = objects[j] => i = j
  BY <1>1 DEF HeapGood, HeapTyped
<1>3. objects' \in Seq(Objects) /\ Listed' = Listed \cup {o}
  <2>1. Elements(<<o>>) = {o}
    BY <1>1, FewElements
  <2>2. \A s, t \in Seq(Objects) : /\ s \o t \in Seq(Objects)
                                  /\ Elements(s \o t) = Elements(s) \cup Elements(t)
    BY ConcatIs
  <2> QED
    <3>1. objects' = <<o>> \o objects
      BY <1>1
    <3>2. objects' \in Seq(Objects)
      BY <1>2, <2>2, <3>1
    <3>3. Elements(objects') = Elements(<<o>>) \cup Elements(objects)
      BY <1>2, <2>2, <3>1
    <3> QED
      BY <2>1, <3>2, <3>3, ListedNext DEF Listed
<1>4. \A i, j \in DOMAIN objects' : objects'[i] = objects'[j] => i = j
  <2>1. /\ \A i \in DOMAIN objects' : i = 1 \/ i - 1 \in DOMAIN objects
        /\ \A i \in DOMAIN objects' : i # 1 => objects'[i] = objects[i - 1]
        /\ objects'[1] = o /\ DOMAIN objects' \subseteq Nat
    BY <1>1, <1>2
  <2>2. \A i \in DOMAIN objects : objects[i] # o
    BY <1>1 DEF Listed, Elements
  <2> QED
    BY <1>2, <2>1, <2>2
<1>5. memory \in [Objects -> Object] /\ memory' \in [Objects -> Object]
      /\ memory'[o] = new /\ \A p \in Objects : p # o => memory'[p] = memory[p]
  <2>1. memory \in [Objects -> Object]
    BY DEF HeapGood, HeapTyped
  <2> HIDE DEF new
  <2> QED
    BY <1>1, <2>1
<1>6. new.kind = kind /\ new.items = items /\ new.marked = FALSE
  OBVIOUS
<1> HIDE DEF new
<1>7. Listed \subseteq Objects
  BY <1>2, ElementsIn DEF Listed
<1>8. HeapTyped'
  BY <1>3, <1>4, <1>5 DEF HeapTyped
<1>9. HeapClosed'
  <2>1. SUFFICES ASSUME NEW p, p \in Listed'
                 PROVE  Elements(memory'[p].items) \cap Objects \subseteq Listed'
    BY Zenon DEF HeapClosed, Allocated, Refs
  <2>2. CASE p = o
    BY <1>3, <1>5, <1>6, <2>2 DEF Allocated, Refs
  <2>3. CASE p # o
    BY <1>3, <1>5, <1>7, <2>1, <2>3 DEF HeapGood, HeapClosed, Allocated, Refs
  <2> QED
    BY <2>2, <2>3
<1>10. Unmarked'
  <2>1. SUFFICES ASSUME NEW p, p \in Listed' PROVE ~memory'[p].marked
    BY Zenon DEF Unmarked
  <2> QED
    BY <1>3, <1>5, <1>6, <1>7, <2>1 DEF HeapGood, Unmarked
<1>11. Kept
  BY <1>1, <1>3, <1>5, <1>7 DEF Kept
<1> QED
  BY <1>1, <1>3, <1>5, <1>6, <1>8, <1>9, <1>10, <1>11 DEF HeapGood

\* A list gets other items.
LEMMA HeapItems ==
  ASSUME HeapGood, NEW list \in Listed, NEW items \in ItemLists, Allocated(items),
         memory' = [memory EXCEPT ![list].items = items], UNCHANGED objects
  PROVE  HeapGood' /\ Kept /\ Listed' = Listed
<1>1. Listed' = Listed
  BY DEF Listed, Elements
<1>2. memory \in [Objects -> Object] /\ Listed \subseteq Objects
  BY ElementsIn DEF HeapGood, HeapTyped, Listed
<1>3. \A p \in Objects : /\ memory'[p].kind = memory[p].kind /\ memory'[p].marked = memory[p].marked
                         /\ memory'[p].items = IF p = list THEN items ELSE memory[p].items
  BY <1>2 DEF Object
<1>4. memory' \in [Objects -> Object]
  BY <1>2 DEF Object
<1>5. HeapTyped'
  BY <1>4 DEF HeapGood, HeapTyped
<1>6. HeapClosed'
  <2>1. SUFFICES ASSUME NEW p, p \in Listed'
                 PROVE  Elements(memory'[p].items) \cap Objects \subseteq Listed'
    BY Zenon DEF HeapClosed, Allocated, Refs
  <2>2. CASE p = list
    BY <1>1, <1>2, <1>3, <2>2 DEF Allocated, Refs
  <2>3. CASE p # list
    BY <1>1, <1>2, <1>3, <2>1, <2>3 DEF HeapGood, HeapClosed, Allocated, Refs
  <2> QED
    BY <2>2, <2>3
<1>7. Unmarked' /\ Kept
  BY <1>1, <1>2, <1>3 DEF HeapGood, Unmarked, Kept
<1> QED
  BY <1>1, <1>5, <1>6, <1>7 DEF HeapGood

-----------------------------------------------------------------------------
(* The frames. *)

\* A frame that is right in the next state.
FitsNext(v, type) == type = "any" \/ (IF v \in Objects THEN memory'[v].kind ELSE v) = type

FineNext(frame) ==
  /\ Len(frame.locals) = Len(Locals[frame.chunk])
  /\ Refs(frame.locals) \subseteq Listed'
  /\ \A n \in DOMAIN frame.locals :
       \/ frame.locals[n] = "null"
       \/ FitsNext(frame.locals[n], Locals[frame.chunk][n].type)

LEMMA KeptFits ==
  ASSUME Kept, NEW v \in Values, NEW type, Fits(v, type), v \in Objects => v \in Listed
  PROVE  FitsNext(v, type)
  BY DEF Kept, Fits, TypeOf, FitsNext

\* A call under way stays right: what it holds is not freed.
LEMMA FrameStays ==
  ASSUME FramesGood, Kept, NEW i \in DOMAIN frames
  PROVE  FineNext(frames[i])
<1>1. PICK fr : fr = frames[i]
  OBVIOUS
<1>2. fr \in FrameRecord /\ Len(fr.locals) = Len(Locals[fr.chunk])
  BY <1>1 DEF FramesGood, FramesTyped
<1>3. Refs(fr.locals) \subseteq Listed
  BY <1>1 DEF FramesGood, FramesSafe, Allocated
<1>4. \A n \in DOMAIN fr.locals :
        fr.locals[n] = "null" \/ Fits(fr.locals[n], Locals[fr.chunk][n].type)
  BY <1>1 DEF FramesGood, LocalsTyped
<1>5. \A n \in DOMAIN fr.locals : /\ fr.locals[n] \in Values
                                  /\ fr.locals[n] \in Objects => fr.locals[n] \in Listed
  BY <1>2, <1>3 DEF FrameRecord, Refs, Elements
<1>6. Refs(fr.locals) \subseteq Listed'
  BY <1>3 DEF Kept
<1>7. \A n \in DOMAIN fr.locals :
        fr.locals[n] = "null" \/ FitsNext(fr.locals[n], Locals[fr.chunk][n].type)
  BY <1>4, <1>5, KeptFits
<1> QED
  BY <1>1, <1>2, <1>6, <1>7 DEF FineNext

LEMMA FramesFrom ==
  ASSUME frames' \in Seq(FrameRecord), \A i \in DOMAIN frames' : FineNext(frames'[i])
  PROVE  FramesGood'
<1>1. FramesTyped'
  BY DEF FramesTyped, FineNext
<1>2. FramesSafe'
  <2>1. SUFFICES ASSUME NEW i \in DOMAIN frames'
                 PROVE  Elements(frames'[i].locals) \cap Objects \subseteq Listed'
    BY Zenon DEF FramesSafe, Allocated, Refs
  <2> QED
    BY DEF FineNext, Refs
<1>3. LocalsTyped'
  <2>1. SUFFICES ASSUME NEW i \in DOMAIN frames', NEW n \in DOMAIN frames'[i].locals
                 PROVE  \/ frames'[i].locals[n] = "null"
                        \/ Fits(frames[i].locals[n], Locals[frames[i].chunk][n].type)'
    BY Zenon DEF LocalsTyped
  <2>2. FineNext(frames'[i])
    OBVIOUS
  <2>3. \/ frames'[i].locals[n] = "null"
        \/ FitsNext(frames'[i].locals[n], Locals[frames'[i].chunk][n].type)
    BY <2>2 DEF FineNext
  <2> QED
    BY <2>3 DEF Fits, TypeOf, FitsNext
<1> QED
  BY <1>1, <1>2, <1>3 DEF FramesGood

LEMMA FramesSame ==
  ASSUME FramesGood, Kept, frames' = frames
  PROVE  FramesGood'
<1>1. frames \in Seq(FrameRecord) /\ \A i \in DOMAIN frames : FineNext(frames[i])
  BY FrameStays DEF FramesGood, FramesTyped
<1>2. frames' \in Seq(FrameRecord) /\ \A i \in DOMAIN frames' : FineNext(frames'[i])
  BY <1>1
<1> QED
  BY <1>2, FramesFrom

LEMMA FramesLeft ==
  ASSUME FramesGood, Kept, frames # << >>, frames' = SubSeq(frames, 1, Len(frames) - 1)
  PROVE  FramesGood'
<1>1. frames \in Seq(FrameRecord) /\ \A i \in DOMAIN frames : FineNext(frames[i])
  BY FrameStays DEF FramesGood, FramesTyped
<1>2. /\ frames' \in Seq(FrameRecord)
      /\ \A i \in DOMAIN frames' : i \in DOMAIN frames /\ frames'[i] = frames[i]
  BY <1>1
<1>3. \A i \in DOMAIN frames' : FineNext(frames'[i])
  BY <1>1, <1>2
<1> QED
  BY <1>2, <1>3, FramesFrom

LEMMA FramesEntered ==
  ASSUME FramesGood, Kept, NEW frame \in FrameRecord, FineNext(frame),
         frames' = Append(frames, frame)
  PROVE  FramesGood'
<1>1. frames \in Seq(FrameRecord) /\ \A i \in DOMAIN frames : FineNext(frames[i])
  BY FrameStays DEF FramesGood, FramesTyped
<1>2. /\ frames' \in Seq(FrameRecord)
      /\ \A i \in DOMAIN frames' : (i \in DOMAIN frames /\ frames'[i] = frames[i])
                                   \/ frames'[i] = frame
  BY <1>1
<1>3. \A i \in DOMAIN frames' : FineNext(frames'[i])
  BY <1>1, <1>2
<1> QED
  BY <1>2, <1>3, FramesFrom

LEMMA FramesSet ==
  ASSUME FramesGood, Kept, NEW k \in DOMAIN frames, NEW n \in DOMAIN frames[k].locals,
         NEW v \in Values, v \in Objects => v \in Listed,
         Fits(v, Locals[frames[k].chunk][n].type),
         frames' = [frames EXCEPT ![k].locals[n] = v]
  PROVE  FramesGood'
<1>1. frames \in Seq(FrameRecord) /\ \A i \in DOMAIN frames : FineNext(frames[i])
  BY FrameStays DEF FramesGood, FramesTyped
<1>2. PICK fr : fr = frames[k]
  OBVIOUS
<1>3. fr \in FrameRecord /\ FineNext(fr) /\ n \in DOMAIN fr.locals /\ fr.locals \in Seq(Values)
  <2>1. fr \in FrameRecord /\ n \in DOMAIN fr.locals
    BY <1>1, <1>2
  <2>2. FineNext(fr)
    BY <1>1, <1>2, Zenon
  <2> QED
    BY <2>1, <2>2 DEF FrameRecord
<1> DEFINE new == [fr EXCEPT !.locals[n] = v]
           locals == [fr.locals EXCEPT ![n] = v]
<1>4. /\ new.chunk = fr.chunk /\ new.base = fr.base /\ new.locals = locals
      /\ new = [chunk |-> fr.chunk, base |-> fr.base, locals |-> locals]
  <2>1. fr = [chunk |-> fr.chunk, base |-> fr.base, locals |-> fr.locals]
    BY <1>3 DEF FrameRecord
  <2>2. new = [chunk |-> fr.chunk, base |-> fr.base, locals |-> locals]
    BY <2>1
  <2> HIDE DEF locals, new
  <2> QED
    BY <2>2
<1>5. /\ locals \in Seq(Values) /\ Len(locals) = Len(fr.locals)
      /\ \A j \in DOMAIN fr.locals : locals[j] = IF j = n THEN v ELSE fr.locals[j]
      /\ Elements(locals) \subseteq Elements(fr.locals) \cup {v}
  BY <1>3, SetItemIs
<1>6. DOMAIN locals = DOMAIN fr.locals
  OBVIOUS
<1>7. frames' = [frames EXCEPT ![k] = new]
  BY <1>2
<1> HIDE DEF new, locals
<1>8. new \in FrameRecord
  BY <1>3, <1>4, <1>5 DEF FrameRecord
<1>9. FineNext(new)
  <2>1. Refs(locals) \subseteq Listed'
    BY <1>3, <1>5 DEF Refs, FineNext, Kept
  <2>2. FitsNext(v, Locals[fr.chunk][n].type)
    BY <1>2, KeptFits
  <2>3. \A j \in DOMAIN locals : \/ locals[j] = "null"
                                 \/ FitsNext(locals[j], Locals[fr.chunk][j].type)
    BY <1>3, <1>5, <1>6, <2>2 DEF FineNext
  <2>4. Len(locals) = Len(Locals[fr.chunk])
    BY <1>3, <1>5 DEF FineNext
  <2> QED
    BY <1>4, <2>1, <2>3, <2>4 DEF FineNext
<1>10. /\ frames' \in Seq(FrameRecord)
       /\ \A i \in DOMAIN frames' : (i \in DOMAIN frames /\ frames'[i] = frames[i])
                                    \/ frames'[i] = new
  BY <1>1, <1>7, <1>8
<1>11. \A i \in DOMAIN frames' : FineNext(frames'[i])
  BY <1>1, <1>9, <1>10
<1> QED
  BY <1>10, <1>11, FramesFrom

-----------------------------------------------------------------------------
(* What a step leaves. *)

\* What is in use is allocated, and can be got at.
LEMMA InUseIs ==
  ASSUME StackGood, FramesGood
  PROVE  /\ InUse = Roots(stack, frames) \cap Objects /\ InUse \subseteq Listed
         /\ InUse \subseteq Reachable
<1>1. frames \in Seq(FrameRecord) /\ stack \in Seq(Values)
  BY DEF FramesGood, FramesTyped, StackGood, StackTyped
<1>2. InUse = Roots(stack, frames) \cap Objects
  BY DEF InUse, Roots
<1>3. InUse \subseteq Listed
  BY DEF InUse, StackGood, StackSafe, FramesGood, FramesSafe, Allocated, Refs
<1>4. InUse \subseteq Reachable
  BY DEF InUse, Reachable
<1> QED
  BY <1>2, <1>3, <1>4

\* An instruction that collects nothing.
LEMMA Continues ==
  ASSUME Going, HeapGood', FramesGood', StackGood', UNCHANGED <<collector, error, escaped>>
  PROVE  Inv'
<1>1. /\ gc' = "off" /\ grey' = grey /\ at' = 1 /\ held' = << >> /\ error' = error
      /\ escaped' = FALSE /\ grey \subseteq Objects /\ error \in {"none", "other"}
  BY DEF collector, Going, CollectorTyped
<1>2. objects' \in Seq(Objects) /\ stack' \in Seq(Values) /\ Len(stack') <= MaxStack
  BY DEF HeapGood, HeapTyped, StackGood, StackTyped
<1>3. << >> \in Seq(Values) /\ Len(<< >>) = 0 /\ Elements(<< >>) = {}
  BY DEF Elements
<1>4. CollectorTyped'
  <2>1. held' \in Seq(Values) /\ Len(stack') + Len(held') <= MaxStack
    BY <1>1, <1>2, <1>3, BoundAssumption
  <2>2. at' \in 1..(Len(objects') + 1)
    BY <1>1, <1>2
  <2> QED
    BY <1>1, <2>1, <2>2 DEF CollectorTyped
<1>5. TypeInv'
  BY <1>4 DEF TypeInv, HeapGood, FramesGood, StackGood
<1>6. Allocated(held)'
  BY <1>1, <1>3 DEF Allocated, Refs, Elements
<1>7. SafeInv'
  BY <1>1, <1>6 DEF SafeInv, HeapGood, FramesGood, StackGood
<1> QED
  BY <1>5, <1>7 DEF Inv

\* An instruction that may collect.
LEMMA Collects ==
  ASSUME Going, HeapGood', FramesGood',
         NEW s \in Seq(Values), NEW late \in Seq(Values), NEW fs,
         Refs(s) \subseteq Listed', Refs(late) \subseteq Listed', maybe_gc(s, fs, late)
  PROVE  Inv'
<1>1. /\ frames' = fs /\ error' = error /\ escaped' = FALSE /\ Len(s) + Len(late) <= MaxStack
      /\ error \in {"none", "other"}
  BY DEF maybe_gc, Going, CollectorTyped
<1>2. CASE stack' = s \o late /\ UNCHANGED collector
  <2>1. /\ s \o late \in Seq(Values) /\ Len(s \o late) = Len(s) + Len(late)
        /\ Elements(s \o late) = Elements(s) \cup Elements(late)
    BY ConcatIs
  <2>2. stack' \in Seq(Values) /\ Len(stack') <= MaxStack
        /\ Elements(stack') = Elements(s) \cup Elements(late)
    BY <1>1, <1>2, <2>1
  <2>3. StackTyped' /\ Elements(stack') \cap Objects \subseteq Listed'
    BY <2>2 DEF StackTyped, Refs
  <2>4. StackGood'
    BY <2>3 DEF StackGood, StackSafe, Allocated, Refs, Elements
  <2> QED
    BY <1>1, <1>2, <2>4, Continues DEF maybe_gc
<1>3. CASE /\ stack' = s /\ gc' = "mark" /\ held' = late /\ at' = 1
           /\ grey' = Roots(s, fs) \cap Objects
  <2>1. stack' \in Seq(Values) /\ Len(stack') \in Nat /\ Len(late) \in Nat
        /\ Len(stack') + Len(held') <= MaxStack
    BY <1>1, <1>3
  <2>2. StackTyped'
    BY <2>1, <1>3, BoundAssumption DEF StackTyped
  <2>3. StackGood'
    BY <2>2, <1>3 DEF StackGood, StackSafe, Allocated, Refs, Elements
  <2>4. CollectorTyped'
    <3>1. Len(objects') \in Nat
      BY DEF HeapGood, HeapTyped
    <3>2. at' \in 1..(Len(objects') + 1)
      BY <1>3, <3>1
    <3>3. grey' \subseteq Objects
      BY <1>3
    <3>4. held' \in Seq(Values)
      BY <1>3
    <3> QED
      BY <1>1, <1>3, <2>1, <3>2, <3>3, <3>4 DEF CollectorTyped
  <2>5. TypeInv'
    BY <2>3, <2>4 DEF TypeInv, HeapGood, FramesGood, StackGood
  <2>6. /\ InUse' = (Roots(stack, frames) \cap Objects)' /\ InUse' \subseteq Listed'
        /\ InUse' \subseteq Reachable'
    <3>1. InUse' = (Roots(stack, frames) \cap Objects)'
      BY DEF InUse, Roots, Elements
    <3>2. InUse' \subseteq Listed'
      BY <2>3 DEF InUse, StackGood, StackSafe, FramesGood, FramesSafe, Allocated, Refs
    <3>3. InUse' \subseteq Reachable'
      BY DEF InUse, Reachable
    <3> QED
      BY <3>1, <3>2, <3>3
  <2>7. grey' = InUse'
    BY <1>1, <1>3, <2>6 DEF Roots, Elements
  <2>8. Marked' = {}
    BY DEF Marked, HeapGood, Unmarked
  <2>9. MarkSafe'
    BY <2>6, <2>7, <2>8 DEF MarkSafe, HeapGood
  <2>10. Allocated(held)'
    BY <1>3 DEF Allocated, Refs, Elements
  <2>11. SafeInv'
    BY <1>3, <2>3, <2>9, <2>10 DEF SafeInv, FramesGood, StackGood
  <2> QED
    BY <2>5, <2>11 DEF Inv
<1> QED
  BY <1>2, <1>3 DEF maybe_gc

LEMMA BlankHeap ==
  ASSUME memory' = [o \in Objects |-> Blank], objects' = << >>
  PROVE  HeapGood'
<1>1. Blank \in Object
  <2>1. << >> \in Seq(Values) /\ Len(<< >>) <= MaxItems
    BY BoundAssumption
  <2>2. << >> \in ItemLists
    BY <2>1, ItemListIs
  <2> QED
    BY <2>2 DEF Blank, Object, Kinds
<1>2. Listed' = {}
  BY DEF Listed, Elements
<1>3. HeapTyped'
  BY <1>1 DEF HeapTyped
<1>4. HeapClosed' /\ Unmarked'
  BY <1>2 DEF HeapClosed, Unmarked
<1> QED
  BY <1>3, <1>4 DEF HeapGood

LEMMA FailGood == ASSUME Going, NEW kind, kind = "other", Fail(kind) PROVE Inv'
<1>1. HeapGood'
  BY BlankHeap DEF Fail
<1>2. frames' = << >> /\ stack' = << >>
  BY DEF Fail
<1>3. FramesGood' /\ StackGood'
  BY <1>2, BoundAssumption
  DEF FramesGood, FramesTyped, FramesSafe, LocalsTyped, StackGood, StackTyped, StackSafe,
      Allocated, Refs, Elements
<1>4. /\ gc' = "off" /\ grey' = grey /\ at' = 1 /\ held' = << >> /\ error' = "other"
      /\ escaped' = FALSE /\ grey \subseteq Objects
  BY DEF Fail, collector, Going, CollectorTyped
<1>5. CollectorTyped'
  <2>1. << >> \in Seq(Values) /\ Len(<< >>) = 0
    OBVIOUS
  <2>2. held' \in Seq(Values) /\ Len(stack') + Len(held') <= MaxStack
    BY <1>2, <1>4, <2>1, BoundAssumption
  <2>3. at' \in 1..(Len(objects') + 1)
    BY <1>4 DEF Fail
  <2> QED
    BY <1>4, <2>2, <2>3 DEF CollectorTyped
<1>6. Allocated(held)'
  BY <1>4 DEF Allocated, Refs, Elements
<1>7. TypeInv' /\ SafeInv'
  BY <1>1, <1>3, <1>4, <1>5, <1>6 DEF TypeInv, SafeInv, HeapGood, FramesGood, StackGood
<1> QED
  BY <1>7 DEF Inv

LEMMA GoingIs ==
  ASSUME Going
  PROVE  /\ StackTyped /\ FramesTyped /\ frames # << >> /\ Listed \subseteq Objects
         /\ stack \in Seq(Values) /\ memory \in [Objects -> Object]
         /\ Refs(stack) \subseteq Listed
<1>1. Listed \subseteq Objects
  BY ElementsIn DEF Going, HeapGood, HeapTyped, Listed
<1> QED
  BY <1>1
  DEF Going, StackGood, FramesGood, StackTyped, StackSafe, HeapGood, HeapTyped, Allocated

\* The operands of an instruction.
LEMMA OperandsAre ==
  ASSUME Going, NEW n \in Nat, n <= Len(stack)
  PROVE  /\ Top(n) \in Seq(Values) /\ Len(Top(n)) = n /\ Refs(Top(n)) \subseteq Listed
         /\ \A i \in 1..n : Top(n)[i] \in Values /\ (Top(n)[i] \in Objects => Top(n)[i] \in Listed)
         /\ Below(n) \in Seq(Values) /\ Refs(Below(n)) \subseteq Listed
         /\ Len(Below(n)) = Len(stack) - n
<1>1. /\ Top(n) \in Seq(Values) /\ Len(Top(n)) = n
      /\ Elements(Top(n)) \subseteq Elements(stack)
      /\ \A i \in 1..n : Top(n)[i] \in Elements(stack) /\ Top(n)[i] \in Values
      /\ Below(n) \in Seq(Values) /\ Len(Below(n)) = Len(stack) - n
      /\ Elements(Below(n)) \subseteq Elements(stack)
  BY GoingIs, Operands
<1>2. Elements(stack) \cap Objects \subseteq Listed
  BY GoingIs DEF Refs
<1> QED
  BY <1>1, <1>2 DEF Refs

LEMMA Deep == ASSUME Going PROVE \A n \in Nat : Depth >= n => n <= Len(stack)
  BY GoingIs, TopFrame

LEMMA Replaces ==
  ASSUME Going, HeapGood', Kept, NEW n \in Nat, n <= Len(stack), NEW values \in Seq(Values),
         Refs(values) \subseteq Listed', Replace(n, values)
  PROVE  Inv'
<1>1. FramesGood'
  BY FramesSame DEF Replace, Going
<1>2. Below(n) \in Seq(Values) /\ Refs(Below(n)) \subseteq Listed
  BY OperandsAre
<1>3. /\ Below(n) \o values \in Seq(Values)
      /\ Elements(Below(n) \o values) = Elements(Below(n)) \cup Elements(values)
  <2>1. \A s, t \in Seq(Values) : /\ s \o t \in Seq(Values)
                                  /\ Elements(s \o t) = Elements(s) \cup Elements(t)
    BY ConcatIs
  <2> QED
    BY <1>2, <2>1
<1>4. StackTyped' /\ stack' = Below(n) \o values
  BY <1>3 DEF Replace, StackTyped
<1>5. Elements(stack') \cap Objects \subseteq Listed'
  BY <1>2, <1>3, <1>4 DEF Refs, Kept
<1>6. StackGood'
  BY <1>4, <1>5 DEF StackGood, StackSafe, Allocated, Refs, Elements
<1> QED
  BY <1>1, <1>6, Continues DEF Replace

LEMMA Yields ==
  ASSUME Going, NEW n \in Nat, n <= Len(stack), NEW v \in Values, v \in Objects => v \in Listed,
         Yield(n, v)
  PROVE  Inv'
<1>1. HeapGood' /\ Kept /\ Listed' = Listed
  BY HeapSame DEF Going, Yield, Listed, Elements
<1>2. <<v>> \in Seq(Values) /\ Elements(<<v>>) = {v}
  BY FewElements
<1>3. Refs(<<v>>) \subseteq Listed'
  BY <1>1, <1>2 DEF Refs
<1>4. Replace(n, <<v>>)
  BY DEF Yield
<1> QED
  BY <1>1, <1>2, <1>3, <1>4, Replaces

LEMMA Drops == ASSUME Going, NEW n \in Nat, n <= Len(stack), Drop(n) PROVE Inv'
<1>1. HeapGood' /\ Kept /\ Listed' = Listed
  BY HeapSame DEF Going, Drop, Listed, Elements
<1>2. << >> \in Seq(Values) /\ Refs(<< >>) = {}
  BY DEF Refs, Elements
<1>3. Replace(n, << >>)
  BY DEF Drop
<1> QED
  BY <1>1, <1>2, <1>3, Replaces

\* A tag is no object.
LEMMA TagIs == \A v \in Tags : v \in Values /\ v \notin Objects
  BY ProgramAssumption DEF Values

\* Neither is what is not a list.
LEMMA ListIs ==
  ASSUME Going, NEW v \in Values, IsList(v), v \in Objects => v \in Listed
  PROVE  v \in Listed /\ v \in Objects /\ memory[v].kind = "list"
<1>1. v \in Tags => v # "list"
  BY DEF Tags
<1> QED
  BY <1>1, TagIs DEF IsList, TypeOf, Values

\* The items of a list.
LEMMA ItemsAre ==
  ASSUME Going, NEW list \in Listed
  PROVE  LET items == memory[list].items IN
         /\ items \in ItemLists /\ items \in Seq(Values) /\ Len(items) <= MaxItems
         /\ Refs(items) \subseteq Listed
         /\ \A v \in Elements(items) : v \in Values /\ (v \in Objects => v \in Listed)
<1> DEFINE items == memory[list].items
<1>1. items \in ItemLists
  BY GoingIs DEF Object
<1>2. Refs(items) \subseteq Listed
  BY DEF Going, HeapGood, HeapClosed, Allocated
<1> HIDE DEF items
<1>3. items \in Seq(Values) /\ Len(items) <= MaxItems
  BY <1>1, ItemListIs
<1>4. \A v \in Elements(items) : v \in Values /\ (v \in Objects => v \in Listed)
  BY <1>2, <1>3 DEF Refs, Elements
<1> QED
  BY <1>1, <1>2, <1>3, <1>4 DEF items

-----------------------------------------------------------------------------
(* The instructions. *)

LEMMA PushConstantStep == ASSUME Inv, PushConstant PROVE Inv'
<1>1. Going
  BY RunningGoes DEF PushConstant
<1>2. PICK v \in Consts : Yield(0, v)
  BY DEF PushConstant
<1>3. v \in Values /\ v \notin Objects
  BY TagIs, ProgramAssumption
<1>4. Len(stack) >= 0
  BY <1>1, GoingIs
<1> QED
  BY <1>1, <1>2, <1>3, <1>4, Yields

LEMMA GetLocalStep == ASSUME Inv, GetLocal PROVE Inv'
<1>1. Going
  BY RunningGoes DEF GetLocal
<1>2. PICK i \in DOMAIN Frame.locals : Yield(0, Frame.locals[i])
  BY DEF GetLocal
<1>3. PICK fr : fr = Frame
  OBVIOUS
<1>4. fr \in FrameRecord /\ fr.locals \in Seq(Values) /\ Refs(fr.locals) \subseteq Listed
  <2>1. Frame \in FrameRecord /\ Len(frames) \in DOMAIN frames /\ Frame = frames[Len(frames)]
    BY <1>1, GoingIs, TopFrame
  <2>2. Refs(frames[Len(frames)].locals) \subseteq Listed
    BY <1>1, <2>1 DEF Going, FramesGood, FramesSafe, Allocated
  <2> QED
    BY <1>3, <2>1, <2>2 DEF FrameRecord
<1>5. PICK v : v = fr.locals[i]
  OBVIOUS
<1>6. v \in Values /\ (v \in Objects => v \in Listed)
  BY <1>2, <1>3, <1>4, <1>5 DEF Refs, Elements
<1>7. Len(stack) >= 0 /\ Yield(0, v)
  BY <1>1, <1>2, <1>3, <1>5, GoingIs
<1> QED
  BY <1>1, <1>6, <1>7, Yields

\* A new object on the stack, under the eyes of the collector.
LEMMA MakesObject ==
  ASSUME Going, NEW o, NEW kind \in Kinds, NEW items \in ItemLists, Refs(items) \subseteq Listed,
         NEW s \in Seq(Values), Refs(s) \subseteq Listed,
         New(o, kind, items), maybe_gc(Append(s, o), frames, << >>)
  PROVE  Inv'
<1>1. HeapGood' /\ Kept /\ o \in Objects /\ Listed' = Listed \cup {o}
  BY HeapNew DEF Going, Allocated
<1>2. FramesGood'
  BY <1>1, FramesSame DEF Going, maybe_gc
<1>3. Append(s, o) \in Seq(Values) /\ Elements(Append(s, o)) = Elements(s) \cup {o}
  <2>1. o \in Values
    BY <1>1 DEF Values
  <2> QED
    BY <2>1, AppendIs
<1>4. PICK t \in Seq(Values) : t = Append(s, o)
  BY <1>3
<1>5. Refs(t) \subseteq Listed'
  BY <1>1, <1>3, <1>4 DEF Refs
<1>6. << >> \in Seq(Values) /\ Refs(<< >>) = {}
  BY DEF Refs, Elements
<1>7. maybe_gc(t, frames, << >>)
  BY <1>4
<1> QED
  BY <1>1, <1>2, <1>5, <1>6, <1>7, Collects

\* A new object on no stack while maybe_gc runs.
LEMMA ReturnsObject ==
  ASSUME Going, NEW o, NEW kind \in Kinds, NEW items \in ItemLists, Refs(items) \subseteq Listed,
         NEW s \in Seq(Values), Refs(s) \subseteq Listed,
         New(o, kind, items), maybe_gc(s, frames, <<o>>)
  PROVE  Inv'
<1>1. HeapGood' /\ Kept /\ o \in Objects /\ Listed' = Listed \cup {o}
  BY HeapNew DEF Going, Allocated
<1>2. FramesGood'
  BY <1>1, FramesSame DEF Going, maybe_gc
<1>3. <<o>> \in Seq(Values) /\ Elements(<<o>>) = {o}
  BY <1>1 DEF Values, Elements
<1>4. PICK late \in Seq(Values) : late = <<o>>
  BY <1>3
<1>5. Refs(late) \subseteq Listed' /\ Refs(s) \subseteq Listed'
  BY <1>1, <1>3, <1>4 DEF Refs
<1>6. maybe_gc(s, frames, late)
  BY <1>4
<1> QED
  BY <1>1, <1>2, <1>5, <1>6, Collects

LEMMA NoItems == << >> \in ItemLists /\ Refs(<< >>) = {}
<1>1. << >> \in Seq(Values) /\ Len(<< >>) <= MaxItems
  BY BoundAssumption
<1> QED
  <2>1. << >> \in ItemLists
    BY <1>1, ItemListIs
  <2>2. Refs(<< >>) = {}
    BY DEF Refs, Elements
  <2> QED
    BY <2>1, <2>2

LEMMA PushStrStep == ASSUME Inv, PushStr PROVE Inv'
<1>1. Going
  BY RunningGoes DEF PushStr
<1>2. PICK o \in Objects : New(o, "str", << >>) /\ maybe_gc(Append(stack, o), frames, << >>)
  BY DEF PushStr
<1> QED
  BY <1>1, <1>2, NoItems, GoingIs, MakesObject DEF Kinds

LEMMA MakeListStep == ASSUME Inv, MakeList PROVE Inv'
<1>1. Going
  BY RunningGoes DEF MakeList
<1>2. PICK n \in 0..MaxItems : \E o \in Objects :
         Depth >= n /\ New(o, "list", Top(n)) /\ maybe_gc(Append(Below(n), o), frames, << >>)
  BY DEF MakeList
<1>3. PICK o \in Objects :
         Depth >= n /\ New(o, "list", Top(n)) /\ maybe_gc(Append(Below(n), o), frames, << >>)
  BY <1>2
<1>4. n \in Nat /\ n <= MaxItems /\ n <= Len(stack)
  BY <1>1, <1>3, Deep, BoundAssumption
<1>5. /\ Top(n) \in Seq(Values) /\ Len(Top(n)) = n /\ Refs(Top(n)) \subseteq Listed
      /\ Below(n) \in Seq(Values) /\ Refs(Below(n)) \subseteq Listed
  BY <1>1, <1>4, OperandsAre
<1>6. Top(n) \in ItemLists
  BY <1>4, <1>5, ItemListIs
<1> QED
  BY <1>1, <1>3, <1>5, <1>6, MakesObject DEF Kinds

LEMMA TypeStep == ASSUME Inv, Type PROVE Inv'
<1>1. Going /\ Depth >= 1
  BY RunningGoes DEF Type
<1>2. PICK o \in Objects : New(o, "str", << >>) /\ maybe_gc(Below(1), frames, <<o>>)
  BY DEF Type
<1>3. Below(1) \in Seq(Values) /\ Refs(Below(1)) \subseteq Listed
  BY <1>1, Deep, OperandsAre
<1> QED
  BY <1>1, <1>2, <1>3, NoItems, ReturnsObject DEF Kinds

LEMMA RangeStep == ASSUME Inv, Range PROVE Inv'
<1>1. Going /\ Depth >= 1
  BY RunningGoes DEF Range
<1>2. CASE Fail("other")
  BY <1>1, <1>2, FailGood
<1>3. CASE \E o \in Objects, n \in 0..MaxItems :
             New(o, "list", [i \in 1..n |-> "int"]) /\ maybe_gc(Below(1), frames, <<o>>)
  <2>1. PICK o \in Objects, n \in 0..MaxItems :
             New(o, "list", [i \in 1..n |-> "int"]) /\ maybe_gc(Below(1), frames, <<o>>)
    BY <1>3
  <2>2. Below(1) \in Seq(Values) /\ Refs(Below(1)) \subseteq Listed
    BY <1>1, Deep, OperandsAre
  <2>3. "int" \in Values /\ "int" \notin Objects
    BY TagIs DEF Tags
  <2> DEFINE items == [i \in 1..n |-> "int"]
  <2>4. items \in [1..n -> Values] /\ \A i \in DOMAIN items : items[i] = "int"
    BY <2>3
  <2>5. New(o, "list", items)
    BY <2>1
  <2> HIDE DEF items
  <2>6. items \in ItemLists
    BY <2>4 DEF ItemLists
  <2>7. Refs(items) \subseteq Listed
    BY <2>3, <2>4 DEF Refs, Elements
  <2> QED
    BY <1>1, <2>1, <2>2, <2>5, <2>6, <2>7, ReturnsObject DEF Kinds
<1> QED
  BY <1>2, <1>3 DEF Range

LEMMA JmpIfFalseStep == ASSUME Inv, JmpIfFalse PROVE Inv'
<1>1. Going /\ Depth = 1
  BY RunningGoes DEF JmpIfFalse
<1>2. CASE Fail("other")
  BY <1>1, <1>2, FailGood
<1>3. CASE Drop(1)
  BY <1>1, <1>3, Deep, Drops
<1> QED
  BY <1>2, <1>3 DEF JmpIfFalse

LEMMA PopStep == ASSUME Inv, Pop PROVE Inv'
<1>1. Going /\ Depth = 1 /\ Drop(1)
  BY RunningGoes DEF Pop
<1> QED
  BY <1>1, Deep, Drops

LEMMA OperateStep == ASSUME Inv, Operate PROVE Inv'
<1>1. Going
  BY RunningGoes DEF Operate
<1>2. PICK op \in Operators :
        Depth >= op.takes /\ (Yield(op.takes, op.gives) \/ Fail("other"))
  BY DEF Operate
<1>3. op.takes \in Nat /\ op.gives \in Tags
  BY DEF Operators, Tags
<1>4. CASE Fail("other")
  BY <1>1, <1>4, FailGood
<1>5. CASE Yield(op.takes, op.gives)
  <2>1. PICK n \in Nat, v \in Tags : n = op.takes /\ v = op.gives
    BY <1>3
  <2>2. n <= Len(stack) /\ Yield(n, v)
    BY <1>1, <1>2, <1>5, <2>1, Deep
  <2>3. v \in Values /\ v \notin Objects
    BY TagIs
  <2> QED
    BY <1>1, <2>2, <2>3, Yields
<1> QED
  BY <1>2, <1>4, <1>5

LEMMA LengthStep == ASSUME Inv, Length PROVE Inv'
<1>1. Going /\ Depth >= 1
  BY RunningGoes DEF Length
<1>2. CASE Fail("other")
  BY <1>1, <1>2, FailGood
<1>3. CASE Yield(1, "int")
  <2>1. "int" \in Values /\ "int" \notin Objects
    BY TagIs DEF Tags
  <2> QED
    BY <1>1, <1>3, <2>1, Deep, Yields
<1> QED
  BY <1>2, <1>3 DEF Length

LEMMA SetLocalStep == ASSUME Inv, SetLocal PROVE Inv'
<1>1. Going /\ Depth = 1
  BY RunningGoes DEF SetLocal
<1>2. CASE Fail("other")
  BY <1>1, <1>2, FailGood
<1>3. CASE ~Fail("other")
  <2>1. PICK i \in DOMAIN Frame.locals :
          /\ Storable(Locals[Frame.chunk][i], Top(1)[1])
          /\ frames' = [frames EXCEPT ![Len(frames)].locals[i] = Top(1)[1]] /\ stack' = Below(1)
          /\ UNCHANGED <<memory, objects, collector, error, escaped>>
    BY <1>3, Zenon DEF SetLocal
  <2>2. PICK k : k = Len(frames)
    OBVIOUS
  <2>3. k \in DOMAIN frames /\ Frame = frames[k]
    BY <1>1, <2>2, GoingIs, TopFrame
  <2>4. 1 <= Len(stack)
    BY <1>1, Deep
  <2>5. PICK v : v = Top(1)[1]
    OBVIOUS
  <2>6. /\ v \in Values /\ (v \in Objects => v \in Listed)
        /\ Below(1) \in Seq(Values) /\ Refs(Below(1)) \subseteq Listed
        /\ Len(Below(1)) = Len(stack) - 1
    BY <1>1, <2>4, <2>5, OperandsAre
  <2>7. HeapGood' /\ Kept /\ Listed' = Listed
    BY <1>1, <2>1, HeapSame DEF Going, Listed, Elements
  <2>8. Fits(v, Locals[frames[k].chunk][i].type)
    BY <2>1, <2>3, <2>5 DEF Storable
  <2>9. frames' = [frames EXCEPT ![k].locals[i] = v] /\ i \in DOMAIN frames[k].locals
    BY <2>1, <2>2, <2>3, <2>5
  <2>10. FramesGood'
    BY <1>1, <2>3, <2>6, <2>7, <2>8, <2>9, FramesSet DEF Going
  <2>11. StackGood'
    <3>1. stack' \in Seq(Values) /\ Refs(stack') \subseteq Listed'
      BY <2>1, <2>6, <2>7
    <3>2. Len(stack) \in Nat /\ Len(stack) <= MaxStack
      BY <1>1, GoingIs DEF StackTyped
    <3>3. Len(stack') <= MaxStack
      BY <2>1, <2>6, <3>2, BoundAssumption
    <3> QED
      BY <3>1, <3>3 DEF StackGood, StackTyped, StackSafe, Allocated, Refs, Elements
  <2> QED
    BY <1>1, <2>1, <2>7, <2>10, <2>11, Continues
<1> QED
  BY <1>2, <1>3

LEMMA AbortStep == ASSUME Inv, Abort PROVE Inv'
  BY RunningGoes, FailGood DEF Abort

LEMMA IndexGetStep == ASSUME Inv, IndexGet PROVE Inv'
<1>1. Going /\ Depth >= 2
  BY RunningGoes DEF IndexGet
<1>2. PICK base : base = Top(2)[1]
  OBVIOUS
<1>3. CASE Fail("other")
  BY <1>1, <1>3, FailGood
<1>4. CASE ~Fail("other")
  <2>1. ~BadIndex(base, Top(2)[2]) /\ \E v \in Elements(memory[base].items) : Yield(2, v)
    BY <1>2, <1>4, Zenon DEF IndexGet
  <2>2. 2 <= Len(stack)
    BY <1>1, Deep
  <2>3. base \in Values /\ (base \in Objects => base \in Listed)
    BY <1>1, <1>2, <2>2, OperandsAre
  <2>4. base \in Listed
    BY <1>1, <2>1, <2>3, ListIs DEF BadIndex
  <2>5. PICK v \in Elements(memory[base].items) : Yield(2, v)
    BY <2>1
  <2>6. v \in Values /\ (v \in Objects => v \in Listed)
    BY <1>1, <2>4, ItemsAre
  <2> QED
    BY <1>1, <2>2, <2>5, <2>6, Yields
<1> QED
  BY <1>3, <1>4

\* A list gets other items, and the operands are replaced.
LEMMA SetsItems ==
  ASSUME Going, NEW list \in Listed, NEW items \in ItemLists, Refs(items) \subseteq Listed,
         NEW n \in Nat, n <= Len(stack), NEW values \in Seq(Values), Refs(values) \subseteq Listed,
         memory' = [memory EXCEPT ![list].items = items], UNCHANGED objects, Replace(n, values)
  PROVE  Inv'
<1>1. HeapGood' /\ Kept /\ Listed' = Listed
  BY HeapItems DEF Going, Allocated
<1> QED
  BY <1>1, Replaces

LEMMA IndexSetStep == ASSUME Inv, IndexSet PROVE Inv'
<1>1. Going /\ Depth = 3
  BY RunningGoes DEF IndexSet
<1>2. PICK base : base = Top(3)[1]
  OBVIOUS
<1>3. CASE Fail("other")
  BY <1>1, <1>3, FailGood
<1>4. CASE ~Fail("other")
  <2>1. /\ ~BadIndex(base, Top(3)[2])
        /\ \E i \in DOMAIN memory[base].items :
             memory' = [memory EXCEPT ![base].items[i] = Top(3)[3]]
        /\ Replace(3, << >>) /\ UNCHANGED objects
    BY <1>2, <1>4, Zenon DEF IndexSet
  <2>2. 3 <= Len(stack)
    BY <1>1, Deep
  <2>3. PICK v : v = Top(3)[3]
    OBVIOUS
  <2>4. /\ base \in Values /\ (base \in Objects => base \in Listed)
        /\ v \in Values /\ (v \in Objects => v \in Listed)
    BY <1>1, <1>2, <2>2, <2>3, OperandsAre
  <2>5. base \in Listed
    BY <1>1, <2>1, <2>4, ListIs DEF BadIndex
  <2>6. PICK s : s = memory[base].items
    OBVIOUS
  <2>7. s \in Seq(Values) /\ Len(s) <= MaxItems /\ Refs(s) \subseteq Listed
    BY <1>1, <2>5, <2>6, ItemsAre
  <2>8. PICK i \in DOMAIN s : memory' = [memory EXCEPT ![base].items[i] = v]
    BY <2>1, <2>3, <2>6
  <2> DEFINE items == [s EXCEPT ![i] = v]
  <2>9. memory' = [memory EXCEPT ![base].items = items]
    BY <2>6, <2>8
  <2>10. /\ items \in Seq(Values) /\ Len(items) = Len(s)
         /\ Elements(items) \subseteq Elements(s) \cup {v}
    BY <2>4, <2>7, SetItemIs
  <2> HIDE DEF items
  <2>11. items \in ItemLists /\ Refs(items) \subseteq Listed
    BY <2>4, <2>7, <2>10, ItemListIs DEF Refs
  <2>12. << >> \in Seq(Values) /\ Refs(<< >>) = {}
    BY DEF Refs, Elements
  <2> QED
    BY <1>1, <2>1, <2>2, <2>5, <2>9, <2>11, <2>12, SetsItems
<1> QED
  BY <1>3, <1>4

LEMMA PopItemStep == ASSUME Inv, PopItem PROVE Inv'
<1>1. Going /\ Depth >= 1
  BY RunningGoes DEF PopItem
<1>2. PICK list : list = Top(1)[1]
  OBVIOUS
<1>3. CASE Fail("other")
  BY <1>1, <1>3, FailGood
<1>4. CASE ~Fail("other")
  <2>1. PICK s, n : s = memory[list].items /\ n = Len(s)
    OBVIOUS
  <2>2. /\ IsList(list)
        /\ \/ Yield(1, "null")
           \/ /\ n # 0 /\ Replace(1, <<s[n]>>) /\ UNCHANGED objects
              /\ memory' = [memory EXCEPT ![list].items = SubSeq(s, 1, n - 1)]
    BY <1>2, <1>4, <2>1, Zenon DEF PopItem
  <2>3. 1 <= Len(stack)
    BY <1>1, Deep
  <2>4. list \in Values /\ (list \in Objects => list \in Listed)
    BY <1>1, <1>2, <2>3, OperandsAre
  <2>5. list \in Listed
    BY <1>1, <2>2, <2>4, ListIs
  <2>6. s \in Seq(Values) /\ Len(s) <= MaxItems /\ Refs(s) \subseteq Listed
        /\ \A v \in Elements(s) : v \in Values /\ (v \in Objects => v \in Listed)
    BY <1>1, <2>1, <2>5, ItemsAre
  <2>7. CASE Yield(1, "null")
    <3>1. "null" \in Values /\ "null" \notin Objects
      BY TagIs DEF Tags
    <3> QED
      BY <1>1, <2>3, <2>7, <3>1, Yields
  <2>8. CASE /\ n # 0 /\ Replace(1, <<s[n]>>) /\ UNCHANGED objects
             /\ memory' = [memory EXCEPT ![list].items = SubSeq(s, 1, n - 1)]
    <3> DEFINE items == SubSeq(s, 1, n - 1)
    <3>1. n \in Nat \ {0} /\ n = Len(s)
      BY <2>1, <2>6, <2>8
    <3>2. /\ items \in Seq(Values) /\ Len(items) <= Len(s)
          /\ \A i \in DOMAIN items : i \in DOMAIN s /\ items[i] = s[i]
      BY <2>6, <3>1
    <3>3. memory' = [memory EXCEPT ![list].items = items]
      BY <2>8
    <3> HIDE DEF items
    <3>4. items \in ItemLists
      BY <2>6, <3>1, <3>2, BoundAssumption, ItemListIs
    <3>5. Refs(items) \subseteq Listed
      BY <2>6, <3>2 DEF Refs, Elements
    <3>6. PICK v : v = s[n]
      OBVIOUS
    <3>7. v \in Elements(s)
      BY <2>6, <3>1, <3>6 DEF Elements
    <3>8. v \in Values /\ (v \in Objects => v \in Listed)
      BY <2>6, <3>7
    <3>9. <<v>> \in Seq(Values) /\ Elements(<<v>>) = {v}
      BY <3>8, FewElements
    <3>10. Refs(<<v>>) \subseteq Listed
      BY <3>8, <3>9 DEF Refs
    <3>11. Replace(1, <<v>>) /\ UNCHANGED objects
      BY <2>8, <3>6
    <3> QED
      BY <1>1, <2>3, <2>5, <3>3, <3>4, <3>5, <3>9, <3>10, <3>11, SetsItems
  <2> QED
    BY <2>2, <2>7, <2>8
<1> QED
  BY <1>3, <1>4

LEMMA PushStep == ASSUME Inv, Push PROVE Inv'
<1>1. Going /\ Depth >= 2
  BY RunningGoes DEF Push
<1>2. PICK list : list = Top(2)[1]
  OBVIOUS
<1>3. CASE Fail("other")
  BY <1>1, <1>3, FailGood
<1>4. CASE ~Fail("other")
  <2>1. PICK s, v : s = memory[list].items /\ v = Top(2)[2]
    OBVIOUS
  <2>2. /\ IsList(list) /\ Len(s) < MaxItems
        /\ memory' = [memory EXCEPT ![list].items = Append(@, Top(2)[2])]
        /\ UNCHANGED objects /\ maybe_gc(Below(2), frames, <<"null">>)
    BY <1>2, <1>4, <2>1, Zenon DEF Push
  <2>3. 2 <= Len(stack)
    BY <1>1, Deep
  <2>4. /\ list \in Values /\ (list \in Objects => list \in Listed)
        /\ v \in Values /\ (v \in Objects => v \in Listed)
        /\ Below(2) \in Seq(Values) /\ Refs(Below(2)) \subseteq Listed
    BY <1>1, <1>2, <2>1, <2>3, OperandsAre
  <2>5. list \in Listed
    BY <1>1, <2>2, <2>4, ListIs
  <2>6. s \in Seq(Values) /\ Refs(s) \subseteq Listed
    BY <1>1, <2>1, <2>5, ItemsAre
  <2> DEFINE items == Append(s, v)
  <2>7. memory' = [memory EXCEPT ![list].items = items]
    BY <2>1, <2>2
  <2>8. /\ items \in Seq(Values) /\ Len(items) = Len(s) + 1
        /\ Elements(items) = Elements(s) \cup {v}
    BY <2>4, <2>6, AppendIs
  <2> HIDE DEF items
  <2>9. items \in ItemLists /\ Refs(items) \subseteq Listed
    <3>1. Len(s) \in Nat /\ Len(items) <= MaxItems
      BY <2>2, <2>6, <2>8, BoundAssumption
    <3>2. Refs(items) \subseteq Listed
      BY <2>4, <2>6, <2>8 DEF Refs
    <3> QED
      BY <2>8, <3>1, <3>2, ItemListIs
  <2>10. HeapGood' /\ Kept /\ Listed' = Listed
    BY <1>1, <2>2, <2>5, <2>7, <2>9, HeapItems DEF Going, Allocated
  <2>11. FramesGood'
    BY <1>1, <2>2, <2>10, FramesSame DEF Going, maybe_gc
  <2>12. "null" \in Values /\ "null" \notin Objects
    BY TagIs DEF Tags
  <2>13. PICK late \in Seq(Values) : late = <<"null">> /\ Elements(late) = {"null"}
    BY <2>12, FewElements
  <2>14. Refs(late) \subseteq Listed' /\ maybe_gc(Below(2), frames, late)
    BY <2>2, <2>12, <2>13 DEF Refs
  <2> QED
    BY <1>1, <2>4, <2>10, <2>11, <2>14, Collects
<1> QED
  BY <1>3, <1>4

\* The new frame of a call.
LEMMA EntersFrame ==
  ASSUME FramesGood, Kept, NEW f \in Chunks, NEW base \in 0..MaxStack, NEW args \in Seq(Values),
         Refs(args) \subseteq Listed', Len(args) <= Len(Locals[f]),
         \A i \in DOMAIN args : FitsNext(args[i], Locals[f][i].type),
         frames' = Entered(f, base, args)
  PROVE  FramesGood'
<1> DEFINE locals == [i \in DOMAIN Locals[f] |-> IF i \in DOMAIN args THEN args[i] ELSE "null"]
           frame == [chunk |-> f, base |-> base, locals |-> locals]
<1>1. Locals[f] \in Seq([type : Types, const : BOOLEAN]) /\ Len(Locals[f]) \in Nat
      /\ DOMAIN Locals[f] = 1..Len(Locals[f])
  <2>1. Locals[f] \in Seq([type : Types, const : BOOLEAN])
    BY ProgramAssumption
  <2> QED
    BY ONLY <2>1
<1>2. "null" \in Values /\ "null" \notin Objects
  BY TagIs DEF Tags
<1>3. \A i \in DOMAIN args : args[i] \in Values
  OBVIOUS
<1>4. /\ DOMAIN locals = 1..Len(Locals[f])
      /\ \A i \in DOMAIN locals : \/ i \in DOMAIN args /\ locals[i] = args[i]
                                  \/ locals[i] = "null"
  BY <1>1
<1>5. frames' = Append(frames, frame)
  BY DEF Entered
<1>6. frame.chunk = f /\ frame.base = base /\ frame.locals = locals
  OBVIOUS
<1>7. locals \in Seq(Values) /\ Len(locals) = Len(Locals[f])
  <2> HIDE DEF locals
  <2>1. \A i \in 1..Len(Locals[f]) : locals[i] \in Values
    BY <1>2, <1>3, <1>4
  <2> USE DEF locals
  <2>2. locals \in [1..Len(Locals[f]) -> Values]
    BY <1>1, <2>1
  <2> HIDE DEF locals
  <2> QED
    BY <1>1, <2>2
<1>8. frame \in FrameRecord
  BY <1>7 DEF FrameRecord
<1> HIDE DEF locals, frame
<1>9. Refs(locals) \subseteq Listed'
  BY <1>2, <1>4 DEF Refs, Elements
<1>10. FineNext(frame)
  <2>1. \A n \in DOMAIN locals : locals[n] = "null" \/ FitsNext(locals[n], Locals[f][n].type)
    BY <1>4, Zenon
  <2> QED
    BY <1>6, <1>7, <1>9, <2>1 DEF FineNext
<1> QED
  BY <1>5, <1>8, <1>10, FramesEntered

LEMMA CallStep == ASSUME Inv, Call PROVE Inv'
<1>1. Going
  BY RunningGoes DEF Call
<1>2. CASE Fail("other")
  BY <1>1, <1>2, FailGood
<1>3. CASE ~Fail("other")
  <2>1. PICK f \in Chunks \ {Main}, n \in 0..MaxStack :
          /\ Depth >= n
          /\ LET args == Top(n)  fixed == SubSeq(args, 1, Fixed[f])  base == Len(stack) - n IN
             /\ ~Unbacked(f, args) /\ Acceptable(f, args)
             /\ IF Varargs[f]
                THEN \E o \in Objects :
                       /\ n - Fixed[f] <= MaxItems
                       /\ New(o, "list", SubSeq(args, Fixed[f] + 1, n))
                       /\ maybe_gc(Below(n), Entered(f, base, Append(fixed, o)), << >>)
                ELSE /\ frames' = Entered(f, base, args) /\ stack' = Below(n)
                     /\ UNCHANGED <<memory, objects, collector, error, escaped>>
    BY <1>3, Zenon DEF Call
  <2>2. n \in Nat /\ n <= Len(stack) /\ Len(stack) \in Nat /\ Len(stack) <= MaxStack
    BY <1>1, <2>1, Deep, GoingIs, BoundAssumption DEF StackTyped
  <2>3. PICK args, base : args = Top(n) /\ base = Len(stack) - n
    OBVIOUS
  <2>4. base \in 0..MaxStack
    BY <2>2, <2>3, BoundAssumption
  <2>5. /\ args \in Seq(Values) /\ Len(args) = n /\ Refs(args) \subseteq Listed
        /\ \A i \in DOMAIN args : /\ args[i] \in Values
                                  /\ args[i] \in Objects => args[i] \in Listed
        /\ Below(n) \in Seq(Values) /\ Refs(Below(n)) \subseteq Listed
        /\ Len(Below(n)) = Len(stack) - n
    BY <1>1, <2>2, <2>3, OperandsAre
  <2>6. /\ Fixed[f] \in Nat /\ Len(Locals[f]) >= Fixed[f] /\ f \in Chunks
        /\ Varargs[f] => Len(Locals[f]) > Fixed[f] /\ Locals[f][Fixed[f] + 1].type = "list"
        /\ Len(Locals[f]) \in Nat
    BY <2>1, ProgramAssumption, EmitterAssumption
  <2>7. /\ IF Varargs[f] THEN Len(args) >= Fixed[f] ELSE Len(args) = Fixed[f]
        /\ \A i \in DOMAIN args :
             Fits(args[i], IF i <= Fixed[f] THEN Locals[f][i].type ELSE Rest[f])
    BY <2>1, <2>3 DEF Acceptable
  <2>8. CASE Varargs[f]
    <3> DEFINE fixed == SubSeq(args, 1, Fixed[f])
               items == SubSeq(args, Fixed[f] + 1, n)
    <3>1. PICK o \in Objects :
             /\ n - Fixed[f] <= MaxItems /\ New(o, "list", items)
             /\ maybe_gc(Below(n), Entered(f, base, Append(fixed, o)), << >>)
      BY <2>1, <2>3, <2>8
    <3>2. Fixed[f] <= n
      BY <2>5, <2>7, <2>8
    <3>3. /\ items \in Seq(Values) /\ Elements(items) \subseteq Elements(args)
          /\ Len(items) = IF Fixed[f] + 1 <= n THEN n - (Fixed[f] + 1) + 1 ELSE 0
      BY <2>2, <2>5, <2>6, SubSeqIs
    <3>4. /\ fixed \in Seq(Values) /\ Elements(fixed) \subseteq Elements(args)
          /\ Len(fixed) = Fixed[f]
          /\ \A i \in DOMAIN fixed : i \in DOMAIN args /\ fixed[i] = args[i]
      <4>1. /\ fixed \in Seq(Values) /\ Elements(fixed) \subseteq Elements(args)
            /\ Len(fixed) = IF 1 <= Fixed[f] THEN Fixed[f] - 1 + 1 ELSE 0
            /\ \A i \in DOMAIN fixed : 1 + i - 1 \in DOMAIN args /\ fixed[i] = args[1 + i - 1]
        BY <2>5, <2>6, <3>2, SubSeqIs
      <4> HIDE DEF fixed
      <4> QED
        BY <2>6, <4>1
    <3> HIDE DEF fixed, items
    <3>5. items \in ItemLists /\ Refs(items) \subseteq Listed
      <4>1. Len(items) <= MaxItems
        BY <2>2, <2>6, <3>1, <3>2, <3>3, BoundAssumption
      <4>2. Refs(items) \subseteq Listed
        BY <2>5, <3>3 DEF Refs
      <4> QED
        BY <3>3, <4>1, <4>2, ItemListIs
    <3>6. /\ HeapGood' /\ Kept /\ Listed' = Listed \cup {o} /\ memory'[o].kind = "list"
      BY <1>1, <3>1, <3>5, HeapNew DEF Going, Allocated, Kinds
    <3>7. PICK all : all = Append(fixed, o)
      OBVIOUS
    <3>8. /\ all \in Seq(Values) /\ Len(all) = Fixed[f] + 1
          /\ Elements(all) = Elements(fixed) \cup {o}
      <4>1. o \in Values
        BY DEF Values
      <4> QED
        BY <3>4, <3>7, <4>1, AppendIs
    <3>9. \A i \in DOMAIN all : \/ i = Fixed[f] + 1 /\ all[i] = o
                                \/ i <= Fixed[f] /\ i \in DOMAIN fixed /\ all[i] = fixed[i]
      BY <2>6, <3>4, <3>7
    <3>10. Refs(all) \subseteq Listed'
      BY <2>5, <3>4, <3>6, <3>8 DEF Refs
    <3>11. \A i \in DOMAIN all : FitsNext(all[i], Locals[f][i].type)
      <4>1. SUFFICES ASSUME NEW i \in DOMAIN all PROVE FitsNext(all[i], Locals[f][i].type)
        OBVIOUS
      <4>2. CASE i = Fixed[f] + 1 /\ all[i] = o
        BY <2>6, <2>8, <3>6, <4>2 DEF FitsNext
      <4>3. CASE i <= Fixed[f] /\ i \in DOMAIN fixed /\ all[i] = fixed[i]
        <5>1. i \in DOMAIN args /\ all[i] = args[i]
          BY <3>4, <4>3
        <5>2. PICK v, type : v = args[i] /\ type = Locals[f][i].type
          OBVIOUS
        <5>3. v \in Values /\ (v \in Objects => v \in Listed) /\ Fits(v, type)
          BY <2>5, <2>7, <4>3, <5>1, <5>2
        <5>4. FitsNext(v, type)
          BY <3>6, <5>3, KeptFits
        <5> QED
          BY <5>1, <5>2, <5>4
      <4> QED
        BY <3>9, <4>2, <4>3
    <3>12. maybe_gc(Below(n), Entered(f, base, all), << >>)
      BY <3>1, <3>7
    <3>13. FramesGood'
      <4>1. frames' = Entered(f, base, all)
        BY <3>12 DEF maybe_gc
      <4>2. Len(all) <= Len(Locals[f])
        BY <2>6, <2>8, <3>8
      <4>3. FramesGood
        BY <1>1 DEF Going
      <4> QED
        BY <2>4, <2>6, <3>6, <3>8, <3>10, <3>11, <4>1, <4>2, <4>3, EntersFrame
    <3>14. << >> \in Seq(Values) /\ Refs(<< >>) \subseteq Listed'
      BY NoItems
    <3>15. Refs(Below(n)) \subseteq Listed'
      BY <2>5, <3>6
    <3> QED
      BY <1>1, <2>5, <3>6, <3>12, <3>13, <3>14, <3>15, Collects
  <2>9. CASE ~Varargs[f]
    <3>1. /\ frames' = Entered(f, base, args) /\ stack' = Below(n)
          /\ UNCHANGED <<memory, objects, collector, error, escaped>>
      BY <2>1, <2>3, <2>9
    <3>2. HeapGood' /\ Kept /\ Listed' = Listed
      BY <1>1, <3>1, HeapSame DEF Going, Listed, Elements
    <3>3. Len(args) = Fixed[f]
      BY <2>7, <2>9
    <3>4. \A i \in DOMAIN args : FitsNext(args[i], Locals[f][i].type)
      <4>1. SUFFICES ASSUME NEW i \in DOMAIN args PROVE FitsNext(args[i], Locals[f][i].type)
        OBVIOUS
      <4>2. i <= Fixed[f]
        BY <2>5, <3>3
      <4>3. PICK v, type : v = args[i] /\ type = Locals[f][i].type
        OBVIOUS
      <4>4. v \in Values /\ (v \in Objects => v \in Listed) /\ Fits(v, type)
        BY <2>5, <2>7, <4>2, <4>3
      <4>5. FitsNext(v, type)
        BY <3>2, <4>4, KeptFits
      <4> QED
        BY <4>3, <4>5
    <3>5. FramesGood'
      <4>1. Refs(args) \subseteq Listed' /\ Len(args) <= Len(Locals[f])
        BY <2>5, <2>6, <3>2, <3>3
      <4> QED
        BY <1>1, <2>4, <2>5, <2>6, <3>1, <3>2, <3>4, <4>1, EntersFrame DEF Going
    <3>6. StackGood'
      <4>1. stack' \in Seq(Values) /\ Refs(stack') \subseteq Listed'
        BY <2>5, <3>1, <3>2
      <4>2. Len(stack') <= MaxStack
        BY <2>2, <2>5, <3>1, BoundAssumption
      <4> QED
        BY <4>1, <4>2 DEF StackGood, StackTyped, StackSafe, Allocated, Refs, Elements
    <3> QED
      BY <1>1, <3>1, <3>2, <3>5, <3>6, Continues
  <2> QED
    BY <2>8, <2>9
<1> QED
  BY <1>2, <1>3

LEMMA RetStep == ASSUME Inv, Ret PROVE Inv'
<1>1. Going /\ Depth = 1
  BY RunningGoes DEF Ret
<1>2. CASE Fail("other")
  BY <1>1, <1>2, FailGood
<1>3. CASE ~Fail("other")
  <2>1. /\ frames' = SubSeq(frames, 1, Len(frames) - 1)
        /\ stack' = Below(1) \/ stack' = stack
        /\ UNCHANGED <<memory, objects, collector, error, escaped>>
    BY <1>3, Zenon DEF Ret
  <2>2. HeapGood' /\ Kept /\ Listed' = Listed
    BY <1>1, <2>1, HeapSame DEF Going, Listed, Elements
  <2>3. FramesGood'
    BY <1>1, <2>1, <2>2, FramesLeft DEF Going
  <2>4. 1 <= Len(stack) /\ Len(stack) \in Nat /\ Len(stack) <= MaxStack
    BY <1>1, Deep, GoingIs DEF StackTyped
  <2>5. /\ Below(1) \in Seq(Values) /\ Refs(Below(1)) \subseteq Listed
        /\ Len(Below(1)) = Len(stack) - 1
    BY <1>1, <2>4, OperandsAre
  <2>6. stack' \in Seq(Values) /\ Refs(stack') \subseteq Listed' /\ Len(stack') <= MaxStack
    BY <1>1, <2>1, <2>2, <2>4, <2>5, GoingIs, BoundAssumption
  <2>7. StackGood'
    BY <2>6 DEF StackGood, StackTyped, StackSafe, Allocated, Refs, Elements
  <2> QED
    BY <1>1, <2>1, <2>2, <2>3, <2>7, Continues
<1> QED
  BY <1>2, <1>3

-----------------------------------------------------------------------------
(* The collector. *)

\* What the program can get at is the least closed set that holds the roots.
LEMMA ReachableIs ==
  /\ InUse \subseteq Reachable /\ Reachable \subseteq Objects
  /\ \A o \in Reachable : Refs(memory[o].items) \subseteq Reachable
  /\ \A S \in SUBSET Objects :
       InUse \subseteq S /\ (\A o \in S : Refs(memory[o].items) \subseteq S)
         => Reachable \subseteq S
<1>1. InUse \subseteq Reachable /\ Reachable \subseteq Objects
  BY DEF InUse, Reachable
<1>2. ASSUME NEW o \in Reachable, NEW p \in Refs(memory[o].items) PROVE p \in Reachable
  <2>1. SUFFICES ASSUME NEW S \in SUBSET Objects, InUse \subseteq S, Closed(S) PROVE p \in S
    BY <1>2 DEF Reachable, Refs
  <2>2. o \in S
    BY <2>1 DEF Reachable
  <2> QED
    BY <1>2, <2>1, <2>2 DEF Closed, Refs
<1>3. \A S \in SUBSET Objects :
        InUse \subseteq S /\ (\A o \in S : Refs(memory[o].items) \subseteq S)
         => Reachable \subseteq S
  BY DEF Reachable, Closed, Refs
<1> QED
  BY <1>1, <1>2, <1>3

LEMMA InUseSame == ASSUME UNCHANGED <<stack, frames>> PROVE InUse' = InUse
  BY DEF InUse, Elements

\* Marking changes nothing of it.
LEMMA ReachableSame ==
  ASSUME UNCHANGED <<stack, frames>>, \A o \in Objects : memory'[o].items = memory[o].items
  PROVE  Reachable' = Reachable
<1>1. InUse' = InUse
  BY InUseSame
<1>2. \A S \in SUBSET Objects : (\A o \in S : Elements(memory'[o].items) \cap Objects \subseteq S)
                                <=> Closed(S)
  BY DEF Closed
<1> QED
  BY <1>1, <1>2 DEF Reachable, Closed, Elements

\* Nor does freeing what the program cannot get at.
LEMMA ReachableKept ==
  ASSUME UNCHANGED <<stack, frames>>, NEW o \in Objects, o \notin Reachable,
         \A p \in Objects : p # o => memory'[p].items = memory[p].items
  PROVE  Reachable \subseteq Reachable'
<1>1. InUse' = InUse
  BY InUseSame
<1>2. SUFFICES ASSUME NEW S \in SUBSET Objects, InUse' \subseteq S,
                      \A p \in S : Elements(memory'[p].items) \cap Objects \subseteq S
               PROVE  Reachable \subseteq S
  BY ReachableIs DEF Reachable, Closed, Elements
<1>3. PICK R : R = S \cap Reachable
  OBVIOUS
<1>4. InUse \subseteq R /\ R \subseteq Objects
  BY <1>1, <1>2, <1>3, ReachableIs
<1>5. \A p \in R : Refs(memory[p].items) \subseteq R
  <2>1. SUFFICES ASSUME NEW p \in R PROVE Refs(memory[p].items) \subseteq R
    OBVIOUS
  <2>2. p # o /\ p \in Objects /\ p \in S /\ p \in Reachable
    BY <1>3
  <2>3. memory'[p].items = memory[p].items
    BY <2>2
  <2> QED
    BY <1>2, <1>3, <2>2, <2>3, ReachableIs DEF Refs
<1>6. Reachable \subseteq R
  BY <1>4, <1>5, ReachableIs
<1> QED
  BY <1>3, <1>6

\* While a collection runs, the program stands still.
LEMMA RootsStay ==
  ASSUME StackTyped, FramesTyped, LocalsTyped, UNCHANGED <<stack, frames>>, InUse \subseteq Listed',
         \A o \in InUse : memory'[o].kind = memory[o].kind
  PROVE  StackTyped' /\ FramesTyped' /\ StackSafe' /\ FramesSafe' /\ LocalsTyped'
<1>1. StackTyped' /\ FramesTyped'
  BY DEF StackTyped, FramesTyped
<1>2. Elements(stack) \cap Objects \subseteq InUse
      /\ \A i \in DOMAIN frames : Elements(frames[i].locals) \cap Objects \subseteq InUse
  BY DEF InUse
<1>3. StackSafe'
  BY <1>2 DEF StackSafe, Allocated, Refs, Elements
<1>4. FramesSafe'
  BY <1>2 DEF FramesSafe, Allocated, Refs, Elements
<1>5. LocalsTyped'
  <2>1. SUFFICES ASSUME NEW i \in DOMAIN frames, NEW n \in DOMAIN frames[i].locals
                 PROVE  \/ frames[i].locals[n] = "null"
                        \/ FitsNext(frames[i].locals[n], Locals[frames[i].chunk][n].type)
    BY DEF LocalsTyped, FitsNext, Fits, TypeOf
  <2>2. PICK v, type : v = frames[i].locals[n] /\ type = Locals[frames[i].chunk][n].type
    OBVIOUS
  <2>3. v = "null" \/ Fits(v, type)
    BY <2>2 DEF LocalsTyped
  <2>4. v \in Objects => v \in InUse
    BY <1>2, <2>2 DEF Elements
  <2>5. Fits(v, type) => FitsNext(v, type)
    BY <2>4 DEF Fits, TypeOf, FitsNext
  <2> QED
    BY <2>2, <2>3, <2>5
<1> QED
  BY <1>1, <1>3, <1>4, <1>5

LEMMA MarkStep == ASSUME Inv, Mark PROVE Inv'
<1>1. PICK o \in grey :
        IF memory[o].marked THEN grey' = grey \ {o} /\ UNCHANGED memory
        ELSE /\ memory' = [memory EXCEPT ![o].marked = TRUE]
             /\ grey' = (grey \ {o}) \cup (Elements(memory[o].items) \cap Objects)
  BY DEF Mark
<1>2. gc = "mark" /\ UNCHANGED <<objects, stack, frames, gc, at, held, error, escaped>>
  BY DEF Mark
<1>3. HeapTyped /\ StackTyped /\ FramesTyped /\ CollectorTyped
  BY DEF Inv, TypeInv
<1>4. o \in Objects /\ memory \in [Objects -> Object] /\ Listed' = Listed /\ grey \subseteq Objects
  BY <1>2, <1>3 DEF HeapTyped, CollectorTyped, Listed, Elements
<1>5. /\ memory' \in [Objects -> Object]
      /\ \A p \in Objects : /\ memory'[p].items = memory[p].items
                            /\ memory'[p].kind = memory[p].kind
                            /\ memory'[p].marked = (p = o \/ memory[p].marked)
  <2>1. CASE memory[o].marked
    BY <1>1, <1>4, <2>1 DEF Object
  <2>2. CASE ~memory[o].marked
    <3>1. memory' = [memory EXCEPT ![o].marked = TRUE]
      BY <1>1, <2>2
    <3> QED
      BY <1>4, <3>1 DEF Object
  <2> QED
    BY <2>1, <2>2
<1>6. HeapTyped' /\ StackTyped' /\ FramesTyped'
  BY <1>2, <1>3, <1>5 DEF HeapTyped, StackTyped, FramesTyped
<1>7. grey' \subseteq Objects /\ grey' \subseteq grey \cup Refs(memory[o].items)
      /\ grey \ {o} \subseteq grey'
  BY <1>1, <1>4 DEF Refs
<1>8. TypeInv'
  BY <1>2, <1>3, <1>6, <1>7 DEF TypeInv, CollectorTyped
<1>9. ASSUME ~escaped' PROVE SafeInv'
  <2>1. StackSafe /\ FramesSafe /\ LocalsTyped /\ Allocated(held) /\ MarkSafe
    BY <1>2, <1>9 DEF Inv, SafeInv
  <2>2. HeapClosed /\ grey \subseteq Listed /\ InUse \subseteq grey \cup Marked
        /\ (\A p \in Marked : Refs(memory[p].items) \subseteq grey \cup Marked)
        /\ grey \cup Marked \subseteq Reachable
    BY <2>1 DEF MarkSafe
  <2>3. Listed \subseteq Objects /\ Marked \subseteq Listed
    BY <1>3, ElementsIn DEF HeapTyped, Listed, Marked
  <2>4. Marked' = Marked \cup {o}
    BY <1>4, <1>5, <2>2, <2>3 DEF Marked
  <2>5. InUse' = InUse /\ Reachable' = Reachable
    BY <1>2, <1>5, InUseSame, ReachableSame
  <2>6. Refs(memory[o].items) \subseteq grey' \cup Marked
    <3>1. CASE memory[o].marked
      <4>1. o \in Marked /\ grey' = grey \ {o}
        BY <1>1, <2>2, <3>1 DEF Marked
      <4> QED
        BY <2>2, <4>1
    <3>2. CASE ~memory[o].marked
      BY <1>1, <3>2 DEF Refs
    <3> QED
      BY <3>1, <3>2
  <2>7. grey \cup Marked \subseteq grey' \cup Marked'
    BY <1>7, <2>4
  <2>8. InUse' \subseteq grey' \cup Marked'
    BY <2>2, <2>5, <2>7
  <2>9. grey' \subseteq Listed' /\ HeapClosed'
    <3>1. Refs(memory[o].items) \subseteq Listed
      BY <2>2 DEF HeapClosed, Allocated
    <3>2. HeapClosed'
      BY <1>4, <1>5, <2>2, <2>3 DEF HeapClosed, Allocated, Refs, Elements
    <3> QED
      BY <1>4, <1>7, <2>2, <3>1, <3>2
  <2>10. \A p \in Marked' : Elements(memory'[p].items) \cap Objects \subseteq grey' \cup Marked'
    <3>1. SUFFICES ASSUME NEW p \in Marked'
                   PROVE  Refs(memory[p].items) \subseteq grey' \cup Marked'
      BY <1>5, <2>2, <2>3, <2>4 DEF Refs
    <3> QED
      BY <2>2, <2>4, <2>6, <2>7
  <2>11. grey' \cup Marked' \subseteq Reachable'
    <3>1. Refs(memory[o].items) \subseteq Reachable
      BY <2>2, ReachableIs
    <3> QED
      BY <1>7, <2>2, <2>4, <2>5, <3>1
  <2>12. MarkSafe'
    BY <2>8, <2>9, <2>10, <2>11 DEF MarkSafe, Refs, Elements
  <2>13. StackSafe' /\ FramesSafe' /\ LocalsTyped'
    <3>1. InUse \subseteq Listed' /\ InUse \subseteq Objects
      BY <1>4, <2>2, <2>3
    <3>2. \A p \in InUse : memory'[p].kind = memory[p].kind
      BY <1>5, <3>1
    <3> QED
      BY <1>2, <1>3, <2>1, <3>1, <3>2, RootsStay
  <2>14. Allocated(held)'
    BY <1>2, <1>4, <2>1 DEF Allocated, Refs, Elements
  <2> QED
    BY <1>2, <2>12, <2>13, <2>14 DEF SafeInv
<1> QED
  BY <1>8, <1>9 DEF Inv

LEMMA MarkDoneStep == ASSUME Inv, MarkDone PROVE Inv'
<1>1. /\ gc = "mark" /\ grey = {} /\ gc' = "sweep"
      /\ UNCHANGED <<memory, objects, stack, frames, grey, at, held, error, escaped>>
  BY DEF MarkDone
<1>2. HeapTyped /\ StackTyped /\ FramesTyped /\ CollectorTyped
  BY DEF Inv, TypeInv
<1>3. TypeInv'
  BY <1>1, <1>2 DEF TypeInv, HeapTyped, StackTyped, FramesTyped, CollectorTyped
<1>4. ASSUME ~escaped' PROVE SafeInv'
  <2>1. StackSafe /\ FramesSafe /\ LocalsTyped /\ Allocated(held) /\ MarkSafe
    BY <1>1, <1>4 DEF Inv, SafeInv
  <2>2. Listed' = Listed /\ Marked' = Marked /\ at' = 1
    BY <1>1, <1>2 DEF Listed, Marked, Elements, CollectorTyped
  <2>3. Passed' = {}
    BY <1>1, <1>2, <2>2 DEF Passed, HeapTyped
  <2>4. Survivors' = Marked
    BY <2>2, <2>3 DEF Survivors
  <2>5. InUse' = InUse /\ Reachable' = Reachable
    BY <1>1, InUseSame, ReachableSame
  <2>6. /\ InUse \subseteq Marked /\ Marked \subseteq Reachable
        /\ \A o \in Marked : Refs(memory[o].items) \subseteq Marked
    BY <1>1, <2>1 DEF MarkSafe
  <2>7. \A o \in Survivors' : Elements(memory'[o].items) \cap Objects \subseteq Survivors'
    BY <1>1, <2>4, <2>6 DEF Refs
  <2>8. SweepSafe'
    BY <2>3, <2>4, <2>5, <2>6, <2>7 DEF SweepSafe, Refs, Elements
  <2>9. StackSafe' /\ FramesSafe' /\ LocalsTyped'
    BY <1>1, <2>1, <2>2
    DEF StackSafe, FramesSafe, LocalsTyped, Allocated, Refs, Elements, Fits, TypeOf
  <2>10. Allocated(held)'
    BY <1>1, <2>1, <2>2 DEF Allocated, Refs, Elements
  <2> QED
    BY <1>1, <2>8, <2>9, <2>10 DEF SafeInv
<1> QED
  BY <1>3, <1>4 DEF Inv

\* The sweep leaves what the program can get at, and nothing else.
LEMMA SurvivorsAre ==
  ASSUME HeapTyped, at \in Nat, SweepSafe
  PROVE  Survivors = Reachable /\ Survivors \subseteq Listed /\ Listed \subseteq Objects
<1>1. Listed \subseteq Objects /\ Survivors \subseteq Listed
  BY ElementsIn DEF HeapTyped, Survivors, Passed, Marked, Listed, Elements
<1>2. /\ InUse \subseteq Survivors /\ Survivors \subseteq Reachable
      /\ \A o \in Survivors : Refs(memory[o].items) \subseteq Survivors
  BY DEF SweepSafe
<1>3. Survivors \in SUBSET Objects
  BY <1>1
<1>4. Reachable \subseteq Survivors
  <2>1. PICK S : S = Survivors
    OBVIOUS
  <2> QED
    BY <1>2, <1>3, <2>1, ReachableIs
<1> QED
  BY <1>1, <1>2, <1>4

\* The object under the sweep stays.
LEMMA SweepsMarked ==
  ASSUME Inv, gc = "sweep", NEW o, o = objects[at], at \in DOMAIN objects, memory[o].marked,
         memory' = [memory EXCEPT ![o].marked = FALSE], at' = at + 1,
         UNCHANGED <<objects, stack, frames, gc, grey, held, error, escaped>>
  PROVE  Inv'
<1>1. HeapTyped /\ StackTyped /\ FramesTyped /\ CollectorTyped
  BY DEF Inv, TypeInv
<1>2. /\ objects \in Seq(Objects) /\ memory \in [Objects -> Object] /\ o \in Objects
      /\ at \in Nat /\ Listed' = Listed /\ o \in Listed /\ Len(objects) \in Nat
      /\ \A i, j \in DOMAIN objects : objects[i] = objects[j] => i = j
  BY <1>1 DEF HeapTyped, Listed, Elements
<1>3. /\ memory' \in [Objects -> Object]
      /\ \A p \in Objects : /\ memory'[p].items = memory[p].items
                            /\ memory'[p].kind = memory[p].kind
                            /\ memory'[p].marked = (p # o /\ memory[p].marked)
  BY <1>2 DEF Object
<1>4. HeapTyped' /\ StackTyped' /\ FramesTyped'
  BY <1>1, <1>3 DEF HeapTyped, StackTyped, FramesTyped
<1>5. at' \in 1..(Len(objects') + 1)
  BY <1>2
<1>6. TypeInv'
  BY <1>1, <1>4, <1>5 DEF TypeInv, CollectorTyped
<1>7. ASSUME ~escaped' PROVE SafeInv'
  <2>1. StackSafe /\ FramesSafe /\ LocalsTyped /\ Allocated(held) /\ SweepSafe
    BY <1>7 DEF Inv, SafeInv
  <2>2. Survivors = Reachable /\ Survivors \subseteq Listed /\ Listed \subseteq Objects
    BY <1>1, <1>2, <2>1, SurvivorsAre
  <2>3. Passed' = Passed \cup {o}
    BY <1>2 DEF Passed
  <2>4. Marked' = Marked \ {o} /\ o \in Marked
    BY <1>2, <1>3, <2>2 DEF Marked
  <2>5. Survivors' = Survivors
    BY <2>3, <2>4 DEF Survivors
  <2>6. InUse' = InUse /\ Reachable' = Reachable
    BY <1>3, InUseSame, ReachableSame
  <2>7. /\ InUse \subseteq Survivors
        /\ \A p \in Survivors : Refs(memory[p].items) \subseteq Survivors
        /\ \A p \in Passed : ~memory[p].marked
    BY <2>1 DEF SweepSafe
  <2>8. \A p \in Survivors' : Elements(memory'[p].items) \cap Objects \subseteq Survivors'
    BY <1>3, <2>2, <2>5, <2>7 DEF Refs
  <2>9. \A p \in Passed' : ~memory'[p].marked
    BY <1>2, <1>3, <2>2, <2>3, <2>7 DEF Survivors
  <2>10. SweepSafe'
    BY <2>2, <2>5, <2>6, <2>7, <2>8, <2>9 DEF SweepSafe, Refs, Elements
  <2>11. StackSafe' /\ FramesSafe' /\ LocalsTyped'
    <3>1. InUse \subseteq Listed' /\ InUse \subseteq Objects
      BY <1>2, <2>2, <2>7
    <3>2. \A p \in InUse : memory'[p].kind = memory[p].kind
      BY <1>3, <3>1
    <3> QED
      BY <1>1, <2>1, <3>1, <3>2, RootsStay
  <2>12. Allocated(held)'
    BY <1>2, <2>1 DEF Allocated, Refs, Elements
  <2> QED
    BY <2>10, <2>11, <2>12 DEF SafeInv
<1> QED
  BY <1>6, <1>7 DEF Inv

\* A list without one of its places.
Without(s, a) == SubSeq(s, 1, a - 1) \o SubSeq(s, a + 1, Len(s))

LEMMA RemovedIs ==
  ASSUME NEW V, NEW s \in Seq(V), NEW a \in DOMAIN s, NEW t, t = Without(s, a),
         \A i, j \in DOMAIN s : s[i] = s[j] => i = j
  PROVE  /\ t \in Seq(V) /\ Len(t) = Len(s) - 1 /\ Elements(t) = Elements(s) \ {s[a]}
         /\ \A i, j \in DOMAIN t : t[i] = t[j] => i = j
         /\ \A i : i < a => (i \in DOMAIN t <=> i \in DOMAIN s)
         /\ \A i \in DOMAIN t : i < a => t[i] = s[i]
<1>1. PICK p, q : p = SubSeq(s, 1, a - 1) /\ q = SubSeq(s, a + 1, Len(s))
  OBVIOUS
<1>2. a \in Nat /\ Len(s) \in Nat /\ 1 <= a /\ a <= Len(s) /\ DOMAIN s = 1..Len(s)
  OBVIOUS
<1>3. p \in Seq(V) /\ Len(p) = a - 1 /\ \A i \in 1..(a - 1) : p[i] = s[i]
  BY <1>1, <1>2
<1>4. q \in Seq(V) /\ Len(q) = Len(s) - a /\ \A i \in 1..(Len(s) - a) : q[i] = s[a + i]
  <2>1. PICK b, c : b = a + 1 /\ c = Len(s)
    OBVIOUS
  <2>2. b \in Nat /\ c \in Nat /\ 1 <= b /\ c <= Len(s) /\ q = SubSeq(s, b, c)
    BY <1>1, <1>2, <2>1
  <2>3. /\ q \in Seq(V) /\ Len(q) = IF b <= c THEN c - b + 1 ELSE 0
        /\ \A i \in DOMAIN q : q[i] = s[b + i - 1]
    BY <2>2, SubSeqIs
  <2>4. Len(q) = Len(s) - a
    BY ONLY <1>2, <2>1, <2>3
  <2>5. ASSUME NEW i \in 1..(Len(s) - a) PROVE q[i] = s[a + i]
    <3>1. i \in DOMAIN q /\ b + i - 1 = a + i
      BY ONLY <1>2, <2>1, <2>3, <2>4, i \in 1..(Len(s) - a)
    <3> QED
      BY <2>3, <3>1
  <2> QED
    BY <2>3, <2>4, <2>5
<1>5. t \in Seq(V) /\ Len(t) = Len(s) - 1 /\ DOMAIN t = 1..(Len(s) - 1)
      /\ \A i \in 1..(Len(s) - 1) : t[i] = IF i <= Len(p) THEN p[i] ELSE q[i - Len(p)]
  <2>1. t = p \o q
    BY <1>1 DEF Without
  <2>2. t \in Seq(V) /\ Len(t) = Len(p) + Len(q)
    BY ONLY <2>1, <1>3, <1>4
  <2>3. Len(t) = Len(s) - 1
    BY ONLY <2>2, <1>2, <1>3, <1>4
  <2>4. DOMAIN t = 1..(Len(s) - 1)
    BY ONLY <2>2, <2>3
  <2>5. \A i \in DOMAIN t : t[i] = IF i <= Len(p) THEN p[i] ELSE q[i - Len(p)]
    BY ONLY <2>1, <1>3, <1>4
  <2> QED
    BY ONLY <2>2, <2>3, <2>4, <2>5
<1>6. \A i \in 1..(Len(s) - 1) : t[i] = IF i < a THEN s[i] ELSE s[i + 1]
  <2>1. SUFFICES ASSUME NEW i \in 1..(Len(s) - 1)
                 PROVE  t[i] = IF i < a THEN s[i] ELSE s[i + 1]
    OBVIOUS
  <2>2. CASE i < a
    BY ONLY <1>2, <1>3, <1>5, <2>2, i \in 1..(Len(s) - 1)
  <2>3. CASE ~(i < a)
    <3>1. i - Len(p) \in 1..(Len(s) - a) /\ ~(i <= Len(p)) /\ a + (i - Len(p)) = i + 1
      BY ONLY <1>2, <1>3, <2>3, i \in 1..(Len(s) - 1)
    <3>2. t[i] = q[i - Len(p)]
      BY <1>5, <3>1
    <3>3. q[i - Len(p)] = s[a + (i - Len(p))]
      BY <1>4, <3>1
    <3> QED
      BY <2>3, <3>1, <3>2, <3>3
  <2> QED
    BY <2>2, <2>3
<1>7. \A i \in DOMAIN s : i < a => i \in DOMAIN t /\ t[i] = s[i]
  BY <1>2, <1>5, <1>6
<1>8. ASSUME NEW i \in DOMAIN s, i > a PROVE i - 1 \in DOMAIN t /\ t[i - 1] = s[i]
  <2>1. PICK k : k = i - 1
    OBVIOUS
  <2>2. k \in 1..(Len(s) - 1) /\ ~(k < a) /\ k + 1 = i
    BY ONLY <1>2, <1>8, <2>1, i \in DOMAIN s
  <2>3. t[k] = s[k + 1]
    BY <1>6, <2>2
  <2> QED
    BY <1>5, <2>1, <2>2, <2>3
<1>9. ASSUME NEW i \in DOMAIN t PROVE \E j \in DOMAIN s : j # a /\ t[i] = s[j]
  <2>1. i \in 1..(Len(s) - 1)
    BY <1>5
  <2>2. CASE i < a
    <3>1. i \in DOMAIN s /\ i # a /\ t[i] = s[i]
      BY <1>2, <1>6, <2>1, <2>2
    <3> QED
      BY <3>1
  <2>3. CASE ~(i < a)
    <3>1. i + 1 \in DOMAIN s /\ i + 1 # a
      BY ONLY <1>2, <2>1, <2>3
    <3>2. t[i] = s[i + 1]
      BY <1>6, <2>1, <2>3
    <3> QED
      BY <3>1, <3>2
  <2> QED
    BY <2>2, <2>3
<1>10. Elements(t) = Elements(s) \ {s[a]}
  <2>1. Elements(t) \subseteq Elements(s) \ {s[a]}
    BY <1>9 DEF Elements
  <2>2. Elements(s) \ {s[a]} \subseteq Elements(t)
    <3>1. SUFFICES ASSUME NEW i \in DOMAIN s, s[i] # s[a] PROVE s[i] \in Elements(t)
      BY DEF Elements
    <3>2. i < a \/ i > a
      BY <1>2, <3>1
    <3> QED
      BY <1>7, <1>8, <3>2 DEF Elements
  <2> QED
    BY <2>1, <2>2
<1>11. ASSUME NEW i \in DOMAIN t, NEW j \in DOMAIN t, t[i] = t[j] PROVE i = j
  <2>1. i \in 1..(Len(s) - 1) /\ j \in 1..(Len(s) - 1)
    BY <1>5
  <2>2. PICK k, l : /\ k = IF i < a THEN i ELSE i + 1
                    /\ l = IF j < a THEN j ELSE j + 1
    OBVIOUS
  <2>3. k \in DOMAIN s /\ l \in DOMAIN s
    BY ONLY <1>2, <2>1, <2>2
  <2>4. t[i] = s[k] /\ t[j] = s[l]
    BY <1>6, <2>1, <2>2
  <2>5. k = l
    BY <1>11, <2>3, <2>4
  <2> QED
    BY <1>2, <2>1, <2>2, <2>5
<1>12. \A i : i < a => (i \in DOMAIN t <=> i \in DOMAIN s)
  BY <1>2, <1>5
<1>13. \A i \in DOMAIN t : i < a => t[i] = s[i]
  BY <1>2, <1>7, <1>12
<1> QED
  BY <1>5, <1>10, <1>11, <1>12, <1>13

\* It is freed.
LEMMA SweepsUnmarked ==
  ASSUME Inv, gc = "sweep", NEW o, o = objects[at], at \in DOMAIN objects, ~memory[o].marked,
         objects' = SubSeq(objects, 1, at - 1) \o SubSeq(objects, at + 1, Len(objects)),
         escaped' = (escaped \/ o \in Elements(held)), at' = at,
         memory' = [memory EXCEPT ![o] = Blank],
         UNCHANGED <<stack, frames, gc, grey, held, error>>
  PROVE  Inv'
<1>1. HeapTyped /\ StackTyped /\ FramesTyped /\ CollectorTyped
  BY DEF Inv, TypeInv
<1>2. /\ objects \in Seq(Objects) /\ memory \in [Objects -> Object] /\ o \in Objects
      /\ at \in Nat /\ o \in Listed /\ Len(objects) \in Nat
      /\ \A i, j \in DOMAIN objects : objects[i] = objects[j] => i = j
  BY <1>1 DEF HeapTyped, Listed, Elements
<1>3. /\ objects' \in Seq(Objects) /\ Len(objects') = Len(objects) - 1
      /\ Listed' = Listed \ {o}
      /\ \A i, j \in DOMAIN objects' : objects'[i] = objects'[j] => i = j
      /\ Passed' = Passed
  <2>1. PICK s, t, a : s = objects /\ t = objects' /\ a = at
    OBVIOUS
  <2>2. /\ s \in Seq(Objects) /\ a \in DOMAIN s /\ s[a] = o
        /\ \A i, j \in DOMAIN s : s[i] = s[j] => i = j
        /\ t = SubSeq(s, 1, a - 1) \o SubSeq(s, a + 1, Len(s))
    BY <1>2, <2>1
  <2>3. /\ t \in Seq(Objects) /\ Len(t) = Len(s) - 1 /\ Elements(t) = Elements(s) \ {s[a]}
        /\ \A i, j \in DOMAIN t : t[i] = t[j] => i = j
        /\ \A i : i < a => (i \in DOMAIN t <=> i \in DOMAIN s)
        /\ \A i \in DOMAIN t : i < a => t[i] = s[i]
    <3>1. a \in DOMAIN s /\ s \in Seq(Objects)
      BY <2>2
    <3>2. \A i, j \in DOMAIN s : s[i] = s[j] => i = j
      BY <2>2
    <3>3. t = Without(s, a)
      BY <2>2 DEF Without
    <3> QED
      BY ONLY <3>1, <3>2, <3>3, RemovedIs
  <2>4. Listed' = Elements(t) /\ Listed = Elements(s)
    BY <2>1 DEF Listed, Elements
  <2>5. Passed' = Passed
    <3>1. Passed' = {t[i] : i \in {j \in DOMAIN t : j < a}}
      BY <2>1 DEF Passed
    <3>2. Passed = {s[i] : i \in {j \in DOMAIN s : j < a}}
      BY <2>1 DEF Passed
    <3> QED
      BY <2>3, <3>1, <3>2
  <2> QED
    BY <2>1, <2>3, <2>4, <2>5
<1>4. Blank \in Object
  BY NoItems DEF Blank, Object, Kinds
<1>5. memory' \in [Objects -> Object] /\ memory'[o] = Blank
      /\ \A p \in Objects : p # o => memory'[p] = memory[p]
  BY <1>2, <1>4
<1>6. HeapTyped' /\ StackTyped' /\ FramesTyped'
  BY <1>1, <1>3, <1>5 DEF HeapTyped, StackTyped, FramesTyped
<1>7. at' \in 1..(Len(objects') + 1)
  BY <1>2, <1>3
<1>8. escaped' \in BOOLEAN
  OBVIOUS
<1>9. TypeInv'
  BY <1>1, <1>6, <1>7, <1>8 DEF TypeInv, CollectorTyped
<1>10. ASSUME ~escaped' PROVE SafeInv'
  <2>1. StackSafe /\ FramesSafe /\ LocalsTyped /\ Allocated(held) /\ SweepSafe
        /\ o \notin Elements(held)
    BY <1>1, <1>10 DEF Inv, SafeInv, CollectorTyped
  <2>2. Survivors = Reachable /\ Survivors \subseteq Listed /\ Listed \subseteq Objects
    BY <1>1, <1>2, <2>1, SurvivorsAre
  <2>3. o \notin Marked /\ o \notin Passed
    BY <1>2 DEF Marked, Passed
  <2>4. o \notin Survivors
    BY <2>3 DEF Survivors
  <2>5. Marked' = Marked
    BY <1>3, <1>5, <2>2, <2>3 DEF Marked
  <2>6. Survivors' = Survivors
    BY <1>3, <2>5 DEF Survivors
  <2>7. /\ InUse \subseteq Survivors
        /\ \A p \in Survivors : Refs(memory[p].items) \subseteq Survivors
        /\ \A p \in Passed : ~memory[p].marked
    BY <2>1 DEF SweepSafe
  <2>8. InUse' = InUse /\ Reachable \subseteq Reachable'
    <3>1. \A p \in Objects : p # o => memory'[p].items = memory[p].items
      BY <1>5
    <3> QED
      BY <1>2, <2>2, <2>4, <3>1, InUseSame, ReachableKept
  <2>9. \A p \in Survivors' : Elements(memory'[p].items) \cap Objects \subseteq Survivors'
    BY <1>5, <2>2, <2>4, <2>6, <2>7 DEF Refs
  <2>10. \A p \in Passed' : ~memory'[p].marked
    BY <1>3, <1>5, <2>2, <2>3, <2>7 DEF Survivors
  <2>11. SweepSafe'
    BY <2>2, <2>6, <2>7, <2>8, <2>9, <2>10 DEF SweepSafe, Refs, Elements
  <2>12. StackSafe' /\ FramesSafe' /\ LocalsTyped'
    <3>1. InUse \subseteq Listed' /\ InUse \subseteq Objects
      BY <1>3, <2>2, <2>4, <2>7
    <3>2. \A p \in InUse : memory'[p].kind = memory[p].kind
      BY <1>5, <2>4, <2>7, <3>1
    <3> QED
      BY <1>1, <2>1, <3>1, <3>2, RootsStay
  <2>13. Allocated(held)'
    BY <1>3, <2>1 DEF Allocated, Refs, Elements
  <2> QED
    BY <2>11, <2>12, <2>13 DEF SafeInv
<1> QED
  BY <1>9, <1>10 DEF Inv

LEMMA SweepStep == ASSUME Inv, Sweep PROVE Inv'
<1>1. at \in DOMAIN objects
  BY DEF Sweep, Inv, TypeInv, CollectorTyped, HeapTyped
<1>2. PICK o : o = objects[at]
  OBVIOUS
<1>3. gc = "sweep" /\ UNCHANGED <<stack, frames, gc, grey, held, error>>
  BY DEF Sweep
<1>4. CASE memory[o].marked
  BY <1>1, <1>2, <1>3, <1>4, SweepsMarked DEF Sweep
<1>5. CASE ~memory[o].marked
  BY <1>1, <1>2, <1>3, <1>5, SweepsUnmarked DEF Sweep, NextAfterFree
<1> QED
  BY <1>4, <1>5

\* At the end of the sweep every object has been passed.
LEMMA AllPassed ==
  ASSUME Inv, SweepDone
  PROVE  Passed = Listed /\ (~escaped => Survivors = Listed /\ Listed = Reachable)
<1>1. HeapTyped /\ CollectorTyped
  BY DEF Inv, TypeInv
<1>2. at \in Nat /\ at = Len(objects) + 1 /\ objects \in Seq(Objects)
  BY <1>1 DEF SweepDone, CollectorTyped, HeapTyped
<1>3. Passed = Listed
  BY <1>2 DEF Passed, Listed, Elements
<1>4. ASSUME ~escaped PROVE Survivors = Listed /\ Listed = Reachable
  <2>1. SweepSafe
    BY <1>4 DEF Inv, SafeInv, SweepDone
  <2>2. Survivors = Reachable
    BY <1>1, <1>2, <2>1, SurvivorsAre
  <2>3. Survivors = Listed
    BY <1>3 DEF Survivors, Marked
  <2> QED
    BY <2>2, <2>3
<1> QED
  BY <1>3, <1>4

LEMMA SweepDoneStep == ASSUME Inv, SweepDone PROVE Inv'
<1>1. /\ gc = "sweep" /\ stack' = stack \o held /\ gc' = "off" /\ held' = << >> /\ at' = 1
      /\ UNCHANGED <<memory, objects, frames, grey, error, escaped>>
  BY DEF SweepDone
<1>2. HeapTyped /\ StackTyped /\ FramesTyped /\ CollectorTyped
  BY DEF Inv, TypeInv
<1>3. stack \in Seq(Values) /\ held \in Seq(Values) /\ Len(stack) + Len(held) <= MaxStack
  BY <1>2 DEF StackTyped, CollectorTyped
<1>4. /\ stack \o held \in Seq(Values) /\ Len(stack \o held) = Len(stack) + Len(held)
      /\ Elements(stack \o held) = Elements(stack) \cup Elements(held)
  BY <1>3, ConcatIs
<1>5. StackTyped' /\ Elements(stack') = Elements(stack) \cup Elements(held)
  BY <1>1, <1>3, <1>4 DEF StackTyped
<1>6. HeapTyped' /\ FramesTyped'
  BY <1>1, <1>2 DEF HeapTyped, FramesTyped
<1>7. CollectorTyped'
  <2>1. << >> \in Seq(Values) /\ Len(<< >>) = 0
    OBVIOUS
  <2>2. held' \in Seq(Values) /\ Len(stack') + Len(held') <= MaxStack
    BY <1>1, <1>3, <1>4, <2>1
  <2>3. at' \in 1..(Len(objects') + 1)
    BY <1>1, <1>2 DEF HeapTyped
  <2> QED
    BY <1>1, <1>2, <2>2, <2>3 DEF CollectorTyped
<1>8. ASSUME ~escaped' PROVE SafeInv'
  <2>1. /\ StackSafe /\ FramesSafe /\ LocalsTyped /\ Allocated(held) /\ SweepSafe
        /\ Passed = Listed /\ Survivors = Listed
    BY <1>1, <1>8, AllPassed DEF Inv, SafeInv
  <2>2. Listed' = Listed
    BY <1>1 DEF Listed, Elements
  <2>3. Elements(stack') \cap Objects \subseteq Listed'
    BY <1>5, <2>1, <2>2 DEF StackSafe, Allocated, Refs
  <2>4. StackSafe'
    BY <2>3 DEF StackSafe, Allocated, Refs, Elements
  <2>5. FramesSafe' /\ LocalsTyped'
    BY <1>1, <2>1, <2>2 DEF FramesSafe, LocalsTyped, Allocated, Refs, Elements, Fits, TypeOf
  <2>6. HeapClosed' /\ Unmarked'
    BY <1>1, <2>1, <2>2 DEF SweepSafe, HeapClosed, Unmarked, Allocated, Refs, Elements
  <2>7. Allocated(held)'
    BY <1>1 DEF Allocated, Refs, Elements
  <2> QED
    BY <1>1, <2>4, <2>5, <2>6, <2>7 DEF SafeInv
<1> QED
  BY <1>2, <1>5, <1>6, <1>7, <1>8 DEF Inv, TypeInv

-----------------------------------------------------------------------------
(* The theorems. *)

LEMMA InitInv == Init => Inv
<1> SUFFICES ASSUME Init PROVE Inv
  OBVIOUS
<1>1. /\ memory = [o \in Objects |-> Blank] /\ objects = << >> /\ stack = << >>
      /\ frames = <<MainFrame>> /\ gc = "off" /\ grey = {} /\ at = 1 /\ held = << >>
      /\ error = "none" /\ escaped = FALSE
  BY DEF Init
<1>2. Blank \in Object
  BY NoItems DEF Blank, Object, Kinds
<1>3. << >> \in Seq(Values) /\ << >> \in Seq(Objects) /\ Len(<< >>) = 0
      /\ Elements(<< >>) = {} /\ Refs(<< >>) = {}
  BY NoItems DEF Elements
<1>4. HeapTyped
  BY <1>1, <1>2, <1>3 DEF HeapTyped
<1>5. StackTyped /\ CollectorTyped
  <2>1. held \in Seq(Values) /\ stack \in Seq(Values) /\ Len(stack) <= MaxStack
        /\ Len(stack) + Len(held) <= MaxStack
    BY <1>1, <1>3, BoundAssumption
  <2>2. at \in 1..(Len(objects) + 1)
    BY <1>1, <1>3
  <2> QED
    BY <1>1, <2>1, <2>2 DEF StackTyped, CollectorTyped
<1>6. PICK locals : locals = MainFrame.locals
  OBVIOUS
<1>7. /\ locals \in Seq(Values) /\ Len(locals) = Len(Locals[Main])
      /\ \A i \in DOMAIN locals : locals[i] = "null"
  <2>1. Locals[Main] \in Seq([type : Types, const : BOOLEAN])
    BY ProgramAssumption
  <2>2. DOMAIN Locals[Main] = 1..Len(Locals[Main]) /\ Len(Locals[Main]) \in Nat
    BY ONLY <2>1
  <2>3. "null" \in Values
    BY TagIs DEF Tags
  <2>4. locals \in [1..Len(Locals[Main]) -> Values] /\ \A i \in DOMAIN locals : locals[i] = "null"
    BY <1>6, <2>2, <2>3 DEF MainFrame
  <2> QED
    BY <2>2, <2>4
<1>8. MainFrame \in FrameRecord /\ MainFrame.chunk = Main /\ MainFrame.locals = locals
  BY <1>6, <1>7, ProgramAssumption, BoundAssumption DEF MainFrame, FrameRecord
<1>9. PICK fr : fr = MainFrame
  OBVIOUS
<1>10. /\ frames = <<fr>> /\ fr \in FrameRecord /\ fr.locals = locals
       /\ Len(fr.locals) = Len(Locals[fr.chunk])
  BY <1>1, <1>7, <1>8, <1>9
<1>11. frames \in Seq(FrameRecord) /\ \A i \in DOMAIN frames : frames[i] = fr
  BY ONLY <1>10
<1>12. FramesTyped
  BY <1>10, <1>11 DEF FramesTyped
<1>13. Refs(locals) = {}
  BY <1>7, TagIs DEF Refs, Elements, Tags
<1>14. FramesSafe
  BY <1>10, <1>11, <1>13 DEF FramesSafe, Allocated
<1>15. LocalsTyped
  BY <1>7, <1>10, <1>11 DEF LocalsTyped
<1>16. Listed = {}
  BY <1>1, <1>3 DEF Listed
<1>17. StackSafe /\ Allocated(held) /\ HeapClosed /\ Unmarked
  BY <1>1, <1>3, <1>16 DEF StackSafe, Allocated, HeapClosed, Unmarked
<1> QED
  BY <1>1, <1>4, <1>5, <1>12, <1>14, <1>15, <1>17 DEF Inv, TypeInv, SafeInv

LEMMA StutterInv == ASSUME Inv, UNCHANGED vars PROVE Inv'
<1>1. UNCHANGED <<memory, objects, stack, frames, gc, grey, at, held, error, escaped>>
  BY DEF vars, collector
<1>2. TypeInv'
  BY <1>1 DEF Inv, TypeInv, HeapTyped, StackTyped, FramesTyped, CollectorTyped
<1>3. Listed' = Listed /\ Marked' = Marked /\ Passed' = Passed /\ InUse' = InUse
  BY <1>1 DEF Listed, Elements, Marked, Passed, InUse
<1>4. Reachable' = Reachable
  BY <1>1, ReachableSame
<1>5. (StackSafe /\ FramesSafe /\ LocalsTyped /\ Allocated(held)
       => StackSafe' /\ FramesSafe' /\ LocalsTyped' /\ Allocated(held)')
  BY <1>1, <1>3 DEF StackSafe, FramesSafe, LocalsTyped, Allocated, Refs, Elements, Fits, TypeOf
<1>6. HeapClosed /\ Unmarked => HeapClosed' /\ Unmarked'
  BY <1>1, <1>3 DEF HeapClosed, Unmarked, Allocated, Refs, Elements
<1>7. MarkSafe => MarkSafe'
  BY <1>1, <1>3, <1>4 DEF MarkSafe, HeapClosed, Allocated, Refs, Elements
<1>8. SweepSafe => SweepSafe'
  BY <1>1, <1>3, <1>4 DEF SweepSafe, Survivors, Refs, Elements
<1> QED
  BY <1>1, <1>2, <1>5, <1>6, <1>7, <1>8 DEF Inv, SafeInv

LEMMA StepInv == Inv /\ [Next]_vars => Inv'
<1> SUFFICES ASSUME Inv, [Next]_vars PROVE Inv'
  OBVIOUS
<1>1. CASE Instruction
  <2>1. \/ PushConstant \/ PushStr \/ GetLocal \/ SetLocal \/ Operate \/ JmpIfFalse \/ Pop
        \/ MakeList \/ IndexGet \/ IndexSet \/ Length \/ Type \/ Range \/ Push \/ PopItem
        \/ Call \/ Ret \/ Abort
    BY <1>1 DEF Instruction
  <2> QED
    BY <2>1, PushConstantStep, PushStrStep, GetLocalStep, SetLocalStep, OperateStep,
       JmpIfFalseStep, PopStep, MakeListStep, IndexGetStep, IndexSetStep, LengthStep,
       TypeStep, RangeStep, PushStep, PopItemStep, CallStep, RetStep, AbortStep
<1>2. CASE gc_collect
  BY <1>2, MarkStep, MarkDoneStep, SweepStep, SweepDoneStep DEF gc_collect
<1>3. CASE UNCHANGED vars
  BY <1>3, StutterInv
<1> QED
  BY <1>1, <1>2, <1>3 DEF Next

\* The machine keeps its invariant.
THEOREM MachineInvariant == Spec => []Inv
<1> QED
  BY InitInv, StepInv, PTL DEF Spec

\* Every variable of vm.c's machine keeps its type, whatever the program.
THEOREM TypeCorrect == Spec => []TypeOK
<1>1. Inv => TypeOK
  <2> SUFFICES ASSUME Inv PROVE TypeOK
    OBVIOUS
  <2>1. HeapTyped /\ StackTyped /\ FramesTyped /\ CollectorTyped
    BY DEF Inv, TypeInv
  <2>2. /\ memory \in [Objects -> Object] /\ Listed \subseteq Objects
        /\ \A i, j \in DOMAIN objects : objects[i] = objects[j] => i = j
    BY <2>1, ElementsIn DEF HeapTyped, Listed
  <2>3. Elements(stack) \subseteq Values /\ Len(stack) <= MaxStack
    BY <2>1, ElementsIn DEF StackTyped
  <2>4. ASSUME NEW i \in DOMAIN frames
        PROVE  /\ frames[i].chunk \in Chunks /\ frames[i].base \in 0..MaxStack
               /\ DOMAIN frames[i].locals = DOMAIN Locals[frames[i].chunk]
               /\ Elements(frames[i].locals) \subseteq Values
    <3>1. PICK fr : fr = frames[i]
      OBVIOUS
    <3>2. fr \in FrameRecord /\ Len(fr.locals) = Len(Locals[fr.chunk])
      BY <2>1, <3>1 DEF FramesTyped
    <3>3. fr.chunk \in Chunks /\ fr.base \in 0..MaxStack /\ fr.locals \in Seq(Values)
      BY <3>2 DEF FrameRecord
    <3>4. Locals[fr.chunk] \in Seq([type : Types, const : BOOLEAN])
      BY <3>3, ProgramAssumption
    <3>5. DOMAIN fr.locals = DOMAIN Locals[fr.chunk]
      BY ONLY <3>2, <3>3, <3>4
    <3>6. Elements(fr.locals) \subseteq Values
      BY <3>3, ElementsIn
    <3> QED
      BY <3>1, <3>3, <3>5, <3>6
  <2>5. /\ gc \in {"off", "mark", "sweep"} /\ grey \subseteq Objects
        /\ at \in 1..(Len(objects) + 1) /\ Elements(held) \subseteq Values
        /\ escaped \in BOOLEAN /\ error \in {"none", "other"}
    BY <2>1, ElementsIn DEF CollectorTyped
  <2>6. (gc = "off" /\ ~escaped) => \A o \in Listed : ~memory[o].marked
    BY DEF Inv, SafeInv, Unmarked
  <2> QED
    BY <2>2, <2>3, <2>4, <2>5, <2>6 DEF TypeOK, Object, ItemLists
<1> QED
  BY <1>1, MachineInvariant, PTL

\* gc_collect never frees what the program can still get at.
THEOREM NothingInUseIsFreed == Spec => []ReachableIsAllocated
<1>1. Inv => ReachableIsAllocated
  <2> SUFFICES ASSUME Inv, ~escaped PROVE Reachable \subseteq Listed
    BY DEF ReachableIsAllocated
  <2>1. /\ HeapTyped /\ StackSafe /\ FramesSafe /\ CollectorTyped
        /\ gc = "off" => HeapClosed
        /\ gc = "mark" => MarkSafe
        /\ gc = "sweep" => SweepSafe
    BY DEF Inv, TypeInv, SafeInv
  <2>2. Listed \subseteq Objects
    BY <2>1, ElementsIn DEF HeapTyped, Listed
  <2>3. CASE gc = "sweep"
    <3>1. at \in Nat
      BY <2>1 DEF CollectorTyped, HeapTyped
    <3>2. Survivors = Reachable /\ Survivors \subseteq Listed
      BY <2>1, <2>3, <3>1, SurvivorsAre
    <3> QED
      BY <3>2
  <2>4. CASE gc # "sweep"
    <3>1. HeapClosed
      BY <2>1, <2>4 DEF CollectorTyped, MarkSafe
    <3>2. InUse \subseteq Listed
      BY <2>1 DEF InUse, StackSafe, FramesSafe, Allocated, Refs
    <3>3. PICK S : S = Listed
      OBVIOUS
    <3>4. /\ S \in SUBSET Objects /\ InUse \subseteq S
          /\ \A o \in S : Refs(memory[o].items) \subseteq S
      BY <2>2, <3>1, <3>2, <3>3 DEF HeapClosed, Allocated
    <3>5. Reachable \subseteq S
      BY <3>4, ReachableIs
    <3> QED
      BY <3>3, <3>5
  <2> QED
    BY <2>3, <2>4
<1> QED
  BY <1>1, MachineInvariant, PTL

\* What typecheck_store and enforce_param_types_fixed let into a local is of
\* its type, and stays so.
THEOREM LocalsKeepTypes == Spec => []TypedLocals
<1>1. Inv => TypedLocals
  BY DEF Inv, SafeInv, TypedLocals, LocalsTyped
<1> QED
  BY <1>1, MachineInvariant, PTL

\* When gc_sweep is through, all that is allocated is what the program can
\* get at.
THEOREM CollectionIsComplete == Spec => CollectsAllGarbage
<1>1. Inv /\ [Next]_vars => [(gc = "sweep" /\ gc' = "off" /\ ~escaped) => Listed = Reachable]_vars
  <2> SUFFICES ASSUME Inv, Next, gc = "sweep", gc' = "off", ~escaped PROVE Listed = Reachable
    OBVIOUS
  <2>1. ~Instruction
    BY DEF Instruction, PushConstant, PushStr, GetLocal, SetLocal, Operate, JmpIfFalse, Pop,
       MakeList, IndexGet, IndexSet, Length, Type, Range, Push, PopItem, Call, Ret, Abort, Running
  <2>2. ~Mark /\ ~MarkDone /\ ~Sweep
    BY DEF Mark, MarkDone, Sweep
  <2>3. SweepDone
    BY <2>1, <2>2 DEF Next, gc_collect
  <2> QED
    BY <2>3, AllPassed
<1> QED
  BY <1>1, MachineInvariant, PTL DEF Spec, CollectsAllGarbage
=============================================================================
