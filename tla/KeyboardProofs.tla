--------------------------- MODULE KeyboardProofs ---------------------------
(***************************************************************************)
(* For a ring of every size: kb_pop is safe whatever the interrupt handler *)
(* does between its steps, and the ring is a bounded queue.                *)
(***************************************************************************)
EXTENDS Keyboard, SequenceTheorems, TLAPS

IInv == TypeOK /\ PopIsSafe

-----------------------------------------------------------------------------
(* Going round the ring *)

\* The number of places from t to h, and the k-th of them.
Gap(h, t) == IF h >= t THEN h - t ELSE h + RingSize - t
Place(t, k) == IF t + k - 1 < RingSize THEN t + k - 1 ELSE t + k - 1 - RingSize
\* What a place can hold, and what is in the places from t to h.
Kept == Chars \cup {""}
Buffers == [Ring -> Kept]
Contents(buf, h, t) == [k \in 1..Gap(h, t) |-> buf[Place(t, k)]]

\* Two sequences with the same domain have the same length.
LEMMA SameLength ==
  ASSUME NEW m \in Nat, NEW n \in Nat, 1..m = 1..n
  PROVE  m = n
<1>1. (m > 0 => m \in 1..n) /\ (n > 0 => n \in 1..m)
  BY Z3
<1> QED
  BY <1>1

\* The ring has two places at least.
LEMMA RingBounds == RingSize \in Nat /\ RingSize >= 2
  BY KeyboardAssumption

\* The next place is in the ring, and no other place has the same next one.
LEMMA AdvanceInRing ==
  /\ 0 \in Ring
  /\ \A i \in Ring : i \in Nat /\ i < RingSize /\ Advance(i) \in Ring /\ Advance(i) # i
  /\ \A i, j \in Ring : Advance(i) = Advance(j) => i = j
  BY KeyboardAssumption DEF Ring, Advance

\* The places from t to h, in the ring.
LEMMA GapInRing ==
  ASSUME NEW h \in Ring, NEW t \in Ring
  PROVE  /\ Gap(h, t) \in Nat /\ Gap(h, t) < RingSize
         /\ Gap(h, t) > 0 <=> h # t
         /\ Gap(h, t) = RingSize - 1 <=> Advance(h) = t
         /\ \A k \in 1..Gap(h, t) : Place(t, k) \in Ring /\ Place(t, k) # h
         /\ Place(t, Gap(h, t) + 1) = h
         /\ Place(t, 1) = t
  BY RingBounds DEF Ring, Gap, Place, Advance

\* Pushing adds a place to them, popping takes the first one off, and the
\* others stay in their order.
LEMMA GapMoves ==
  ASSUME NEW h \in Ring, NEW t \in Ring
  PROVE  /\ Advance(h) # t => Gap(Advance(h), t) = Gap(h, t) + 1
         /\ h # t => Gap(h, Advance(t)) = Gap(h, t) - 1
         /\ \A k \in 1..(Gap(h, t) - 1) : Place(Advance(t), k) = Place(t, k + 1)
  BY RingBounds DEF Ring, Gap, Place, Advance

\* Count and Pending in these terms, now and after a step.
LEMMA PendingIsContents ==
  /\ Count = Gap(head, tail) /\ Count' = Gap(head', tail')
  /\ Pending = Contents(keybuf, head, tail) /\ Pending' = Contents(keybuf', head', tail')
  BY DEF Count, Pending, Gap, Place, Contents

\* What is in the ring is a sequence of characters.
LEMMA ContentsIsSeq ==
  ASSUME NEW buf \in Buffers, NEW h \in Ring, NEW t \in Ring
  PROVE  /\ Contents(buf, h, t) \in Seq(Kept) /\ Len(Contents(buf, h, t)) = Gap(h, t)
         /\ \A k \in 1..Gap(h, t) : Contents(buf, h, t)[k] = buf[Place(t, k)]
<1> DEFINE q == Contents(buf, h, t)
<1>1. Gap(h, t) \in Nat /\ \A k \in 1..Gap(h, t) : buf[Place(t, k)] \in Kept
  BY GapInRing DEF Buffers
<1>2. /\ q \in [1..Gap(h, t) -> Kept] /\ DOMAIN q = 1..Gap(h, t)
      /\ \A k \in 1..Gap(h, t) : q[k] = buf[Place(t, k)]
  BY <1>1 DEF Contents
<1>3. q \in Seq(Kept)
  BY <1>1, <1>2, SeqDef
<1>4. Len(q) \in Nat /\ DOMAIN q = 1..Len(q)
  BY <1>3, LenProperties
<1>5. Len(q) = Gap(h, t)
  BY <1>1, <1>2, <1>4, SameLength
<1> QED
  BY <1>2, <1>3, <1>5

\* A character that finds room is put at the end.
LEMMA PushPuts ==
  ASSUME NEW buf \in Buffers, NEW h \in Ring, NEW t \in Ring, NEW c \in Kept,
         NEW buf2 \in Buffers, Advance(h) # t
  PROVE  (buf2[h] = c /\ \A i \in Ring : i # h => buf2[i] = buf[i])
           => Contents(buf2, Advance(h), t) = Append(Contents(buf, h, t), c)
<1>0. SUFFICES ASSUME buf2[h] = c, \A i \in Ring : i # h => buf2[i] = buf[i]
      PROVE  Contents(buf2, Advance(h), t) = Append(Contents(buf, h, t), c)
  OBVIOUS
<1> DEFINE q == Contents(buf, h, t)
           q2 == Contents(buf2, Advance(h), t)
           n == Gap(h, t)
<1>1. Advance(h) \in Ring
  BY AdvanceInRing
<1>2. n \in Nat /\ Gap(Advance(h), t) = n + 1
  BY GapInRing, GapMoves
<1>3. /\ q \in Seq(Kept) /\ Len(q) = n
      /\ q2 \in Seq(Kept) /\ Len(q2) = n + 1
      /\ \A k \in 1..n : q[k] = buf[Place(t, k)]
      /\ \A k \in 1..(n + 1) : q2[k] = buf2[Place(t, k)]
  <2>1. /\ q \in Seq(Kept) /\ Len(q) = n /\ \A k \in 1..n : q[k] = buf[Place(t, k)]
    BY ContentsIsSeq
  <2>2. /\ q2 \in Seq(Kept) /\ Len(q2) = Gap(Advance(h), t)
        /\ \A k \in 1..Gap(Advance(h), t) : q2[k] = buf2[Place(t, k)]
    BY <1>1, ContentsIsSeq
  <2> HIDE DEF q, q2, n
  <2> QED
    BY <1>2, <2>1, <2>2
<1>4. /\ \A k \in 1..n : buf2[Place(t, k)] = buf[Place(t, k)]
      /\ buf2[Place(t, n + 1)] = c
  BY <1>0, GapInRing DEF Buffers
<1>5. /\ Append(q, c) \in Seq(Kept) /\ Len(Append(q, c)) = n + 1
      /\ \A k \in 1..n : Append(q, c)[k] = q[k]
      /\ Append(q, c)[n + 1] = c
  BY <1>3, AppendProperties
<1> HIDE DEF q, q2, n
<1>6. \A k \in 1..(n + 1) : k \in 1..n \/ k = n + 1
  BY <1>2
<1>7. \A k \in 1..(n + 1) : q2[k] = Append(q, c)[k]
  <2>1. \A k \in 1..n : k \in 1..(n + 1)
    BY <1>2
  <2> QED
    BY <2>1, <1>3, <1>4, <1>5, <1>6
<1>8. q2 = Append(q, c)
  BY <1>3, <1>5, <1>7, SeqEqual
<1> QED
  BY <1>8 DEF q, q2

\* Advancing the tail takes the first one.
LEMMA PopTakes ==
  ASSUME NEW buf \in Buffers, NEW h \in Ring, NEW t \in Ring, h # t
  PROVE  /\ Contents(buf, h, t) # << >>
         /\ Head(Contents(buf, h, t)) = buf[t]
         /\ Tail(Contents(buf, h, t)) = Contents(buf, h, Advance(t))
<1> DEFINE q == Contents(buf, h, t)
           q2 == Contents(buf, h, Advance(t))
           n == Gap(h, t)
<1>1. n \in Nat /\ n > 0 /\ Advance(t) \in Ring /\ Gap(h, Advance(t)) = n - 1
  BY GapInRing, GapMoves, AdvanceInRing
<1>2. /\ q \in Seq(Kept) /\ Len(q) = n
      /\ q2 \in Seq(Kept) /\ Len(q2) = n - 1
      /\ \A k \in 1..n : q[k] = buf[Place(t, k)]
      /\ \A k \in 1..(n - 1) : q2[k] = buf[Place(Advance(t), k)]
  <2>1. /\ q \in Seq(Kept) /\ Len(q) = n /\ \A k \in 1..n : q[k] = buf[Place(t, k)]
    BY ContentsIsSeq
  <2>2. /\ q2 \in Seq(Kept) /\ Len(q2) = Gap(h, Advance(t))
        /\ \A k \in 1..Gap(h, Advance(t)) : q2[k] = buf[Place(Advance(t), k)]
    BY <1>1, ContentsIsSeq
  <2> HIDE DEF q, q2, n
  <2> QED
    BY <1>1, <2>1, <2>2
<1>3. Place(t, 1) = t /\ \A k \in 1..(n - 1) : Place(Advance(t), k) = Place(t, k + 1)
  BY GapInRing, GapMoves
<1> HIDE DEF q, q2, n
<1>4. q # << >>
  BY <1>1, <1>2, EmptySeq
<1>5. Head(q) = q[1] /\ q[1] = buf[t]
  BY <1>1, <1>2, <1>3, <1>4
<1>6. /\ Tail(q) \in Seq(Kept) /\ Len(Tail(q)) = n - 1
      /\ \A k \in 1..(n - 1) : Tail(q)[k] = q[k + 1]
  BY <1>2, <1>4, HeadTailProperties
<1>7. \A k \in 1..(n - 1) : Tail(q)[k] = q2[k]
  <2>1. \A k \in 1..(n - 1) : k + 1 \in 1..n
    BY <1>1
  <2> QED
    BY <2>1, <1>2, <1>3, <1>6
<1>8. Tail(q) = q2
  BY <1>2, <1>6, <1>7, SeqEqual
<1> QED
  BY <1>4, <1>5, <1>8 DEF q, q2

\* A line without its last character is a line.
LEMMA ShortenedIsSeq ==
  ASSUME NEW S, NEW s \in Seq(S), s # << >>
  PROVE  SubSeq(s, 1, Len(s) - 1) \in Seq(S)
<1>1. Len(s) \in Nat /\ Len(s) > 0
  BY EmptySeq, LenProperties
<1>2. /\ Len(s) - 1 \in Int /\ Len(s) - 1 <= Len(s)
      /\ \A i \in 1..(Len(s) - 1) : s[i] \in S
  BY <1>1, ElementOfSeq
<1> QED
  BY <1>1, <1>2, SubSeqProperties

-----------------------------------------------------------------------------
(* The invariant *)

\* A key gives a character of the keymap, or none.
LEMMA TypedIsChar == \A k \in Codes : Typed(k) \in Chars
  BY DEF Typed, Chars

\* Pushing leaves the ring a ring, and every pending character in its place.
LEMMA PushKeeps ==
  ASSUME NEW c \in Chars, Push(c), head \in Ring, tail \in Ring, keybuf \in [Ring -> Chars \cup {""}]
  PROVE  /\ keybuf' \in [Ring -> Chars \cup {""}] /\ head' \in Ring
         /\ head # tail => head' # tail /\ keybuf'[tail] = keybuf[tail]
  BY AdvanceInRing DEF Push

\* The ring is empty and the program at its test.
LEMMA InitInv == Init => IInv
<1> SUFFICES ASSUME Init PROVE IInv
  OBVIOUS
<1>1. << >> \in Seq(Printable)
  BY EmptySeq
<1>2. keybuf \in [Ring -> Chars \cup {""}]
  BY DEF Init
<1>3. TypeOK
  BY <1>1, <1>2, AdvanceInRing DEF Init, TypeOK
<1> QED
  BY <1>3 DEF Init, IInv, PopIsSafe

\* A step of the interrupt handler keeps the types and what kb_pop relies on.
LEMMA InterruptStep == IInv /\ Interrupt => IInv'
<1> SUFFICES ASSUME IInv, Interrupt PROVE IInv'
  OBVIOUS
<1>0. /\ head \in Ring /\ tail \in Ring /\ keybuf \in [Ring -> Chars \cup {""}]
      /\ pc \in {"load", "advance"} => head # tail
  BY GapInRing, PendingIsContents DEF IInv, TypeOK, PopIsSafe
<1>a. tail' = tail
  BY DEF Interrupt, KeyPress, ShiftPress, KeyRelease, ring
<1>1. /\ UNCHANGED <<pc, ch, line, taken>> /\ halted' = FALSE
      /\ shift' \in BOOLEAN /\ down' \subseteq Codes \cup {"shift"}
  BY DEF Interrupt, KeyPress, ShiftPress, KeyRelease, Wake, IInv, TypeOK, ring
<1>2. /\ keybuf' \in [Ring -> Chars \cup {""}] /\ head' \in Ring
      /\ head # tail => head' # tail /\ keybuf'[tail] = keybuf[tail]
  <2>1. CASE \E k \in Codes : KeyPress(k)
    <3>1. PICK k \in Codes : KeyPress(k)
      BY <2>1
    <3> QED
      BY <1>0, <3>1, TypedIsChar, PushKeeps DEF KeyPress
  <2>2. CASE ShiftPress \/ KeyRelease
    BY <1>0, <2>2 DEF ring, ShiftPress, KeyRelease
  <2> QED
    BY <2>1, <2>2 DEF Interrupt
<1>3. TypeOK'
  BY <1>0, <1>a, <1>1, <1>2 DEF IInv, TypeOK
<1>4. PopIsSafe'
  <2>1. head # tail => Count' > 0
    BY <1>0, <1>a, <1>2, GapInRing, PendingIsContents
  <2> QED
    BY <1>0, <1>a, <1>1, <1>2, <2>1 DEF IInv, PopIsSafe
<1> QED
  BY <1>3, <1>4 DEF IInv

\* The same for the main loop: only PopTest enters kb_pop, with a character there.
LEMMA MainKeeps == IInv /\ MainStep => IInv'
<1> SUFFICES ASSUME IInv, MainStep PROVE IInv'
  OBVIOUS
<1>0. /\ head \in Ring /\ tail \in Ring /\ keybuf \in [Ring -> Chars \cup {""}]
      /\ ch \in Chars \cup {""} /\ line \in Seq(Printable)
  BY DEF IInv, TypeOK
<1>1. keybuf' = keybuf /\ head' = head /\ shift' = shift /\ down' = down
  BY DEF MainStep, PopTest, PopLoad, PopAdvance, Halt, UseChar, RunCommand, ring
<1>2. tail' \in Ring
  BY <1>0, AdvanceInRing
  DEF MainStep, PopTest, PopLoad, PopAdvance, Halt, UseChar, RunCommand, ring
<1>3. /\ pc' \in {"test", "load", "advance", "use", "hlt", "command"}
      /\ halted' \in BOOLEAN
  BY DEF MainStep, Main, PopTest, PopLoad, PopAdvance, Halt, UseChar, RunCommand, IInv, TypeOK
<1>4. ch' \in Chars \cup {""} /\ taken' \in Chars \cup {""}
  BY <1>0
  DEF MainStep, PopTest, PopLoad, PopAdvance, Halt, UseChar, RunCommand, IInv, TypeOK
<1>5. line' \in Seq(Printable)
  <2>1. CASE UseChar
    BY <1>0, <2>1, AppendProperties, ShortenedIsSeq DEF UseChar
  <2>2. CASE RunCommand
    BY <2>2, EmptySeq DEF RunCommand
  <2>3. CASE PopTest \/ PopLoad \/ PopAdvance \/ Halt
    BY <1>0, <2>3 DEF PopTest, PopLoad, PopAdvance, Halt
  <2> QED
    BY <2>1, <2>2, <2>3 DEF MainStep
<1>6. TypeOK'
  <2>1. /\ keybuf' \in [Ring -> Chars \cup {""}] /\ head' \in Ring
        /\ shift' \in BOOLEAN /\ down' \subseteq Codes \cup {"shift"}
    BY <1>1 DEF IInv, TypeOK
  <2> QED
    BY <1>2, <1>3, <1>4, <1>5, <2>1 DEF TypeOK
<1>7. PopIsSafe'
  <2>1. CASE PopTest
    <3>1. head # tail => Count > 0
      BY <1>0, GapInRing, PendingIsContents
    <3>2. Count' = Count /\ pc' \in {"hlt", "load"} /\ (pc' = "load" => head # tail)
      BY <2>1 DEF PopTest, Main, Count, ring
    <3> QED
      BY <3>1, <3>2 DEF PopIsSafe
  <2>2. CASE PopLoad
    <3>1. Count' = Count /\ Count > 0
      BY <2>2 DEF PopLoad, Main, Count, ring, IInv, PopIsSafe
    <3>2. ch' = keybuf[tail] /\ tail' = tail
      BY <2>2 DEF PopLoad, ring
    <3> QED
      BY <1>1, <3>1, <3>2 DEF PopIsSafe
  <2>3. CASE PopAdvance \/ Halt \/ UseChar \/ RunCommand
    <3>1. pc' \notin {"load", "advance"}
      BY <2>3 DEF PopAdvance, Halt, UseChar, RunCommand, Main
    <3> QED
      BY <3>1 DEF PopIsSafe
  <2> QED
    BY <2>1, <2>2, <2>3 DEF MainStep
<1> QED
  BY <1>6, <1>7 DEF IInv

\* The invariant holds in every state.
THEOREM InvHolds == Spec => []IInv
<1>1. IInv /\ UNCHANGED vars => IInv'
  <2> SUFFICES ASSUME IInv, UNCHANGED vars PROVE IInv'
    OBVIOUS
  <2>1. TypeOK'
    BY DEF IInv, TypeOK, vars, ring, main
  <2>2. Count' = Count
    BY DEF Count, vars, ring
  <2>3. PopIsSafe'
    BY <2>2 DEF IInv, PopIsSafe, vars, ring, main
  <2> QED
    BY <2>1, <2>3 DEF IInv
<1>2. IInv /\ [Next]_vars => IInv'
  BY <1>1, InterruptStep, MainKeeps DEF Next
<1> QED
  BY <1>2, InitInv, PTL DEF Spec

\* Between the test, the load and the advance of kb_pop any number of
\* interrupts may push, and the character is still there.
THEOREM PopSafe == Spec => []PopIsSafe
<1>1. IInv => PopIsSafe
  BY DEF IInv
<1> QED
  BY <1>1, InvHolds, PTL

-----------------------------------------------------------------------------
(* The ring is a bounded queue *)

\* A key that is pressed is put in the queue, or is not in it at all.
LEMMA PressPuts ==
  ASSUME IInv, NEW k \in Codes, KeyPress(k)
  PROVE  \/ \E c \in Chars : Queue!Put(c)
         \/ UNCHANGED <<Pending, taken>>
<1> DEFINE c == Typed(k)
<1>0. keybuf \in Buffers /\ head \in Ring /\ tail \in Ring /\ c \in Chars /\ c \in Kept
  BY TypedIsChar DEF IInv, TypeOK, Buffers, Kept
<1>1. Push(c) /\ tail' = tail /\ taken' = taken
  BY DEF KeyPress, Wake
<1>2. CASE UNCHANGED <<keybuf, head>>
  BY <1>1, <1>2, PendingIsContents
<1>3. CASE /\ Advance(head) # tail /\ head' = Advance(head)
           /\ keybuf' = [keybuf EXCEPT ![head] = c]
  <2>1. Pending' = Append(Pending, c)
    <3>1. Contents(keybuf', Advance(head), tail) = Append(Contents(keybuf, head, tail), c)
      <4>1. Advance(head) # tail /\ keybuf' \in Buffers
        BY <1>0, <1>3 DEF Buffers
      <4>2. /\ keybuf'[head] = c /\ \A i \in Ring : i # head => keybuf'[i] = keybuf[i]
        BY <1>0, <1>3 DEF Buffers
      <4> HIDE DEF c
      <4> QED
        BY <1>0, <4>1, <4>2, PushPuts
    <3> HIDE DEF c
    <3> QED
      BY <1>1, <1>3, <3>1, PendingIsContents
  <2>2. Len(Pending) = Gap(head, tail)
    BY <1>0, ContentsIsSeq, PendingIsContents
  <2>3. Gap(head, tail) < RingSize - 1
    <3>1. /\ Gap(head, tail) \in Nat /\ Gap(head, tail) < RingSize
          /\ Gap(head, tail) # RingSize - 1
      BY <1>0, <1>3, GapInRing
    <3> QED
      BY <3>1, RingBounds
  <2> QED
    BY <1>0, <1>1, <2>1, <2>2, <2>3 DEF Queue!Put
<1> QED
  BY <1>1, <1>2, <1>3 DEF Push

\* Every step of the handler and of the main loop is a step of the queue or
\* leaves it alone: kb_pop takes what it loaded two steps before.
LEMMA StepOfQueue ==
  IInv /\ [Next]_vars => [Queue!Next]_<<Pending, taken>>
<1> SUFFICES ASSUME IInv, [Next]_vars PROVE [Queue!Next]_<<Pending, taken>>
  OBVIOUS
<1>1. CASE \E k \in Codes : KeyPress(k)
  BY <1>1, PressPuts DEF Queue!Next
<1>2. CASE PopAdvance
  <2>1. /\ keybuf \in Buffers /\ head \in Ring /\ tail \in Ring
        /\ head # tail /\ ch = keybuf[tail]
    BY <1>2, GapInRing, PendingIsContents DEF PopAdvance, Main, IInv, TypeOK, PopIsSafe, Buffers, Kept
  <2>2. keybuf' = keybuf /\ head' = head /\ tail' = Advance(tail) /\ taken' = ch
    BY <1>2 DEF PopAdvance
  <2> QED
    BY <2>1, <2>2, PopTakes, PendingIsContents DEF Queue!Next, Queue!Take
<1>3. CASE \/ ShiftPress \/ KeyRelease \/ UNCHANGED vars
           \/ PopTest \/ PopLoad \/ Halt \/ UseChar \/ RunCommand
  <2>1. UNCHANGED <<keybuf, head, tail, taken>>
    BY <1>3 DEF ShiftPress, KeyRelease, Wake, PopTest, PopLoad, Halt, UseChar, RunCommand,
                vars, ring, main
  <2> QED
    BY <2>1, PendingIsContents
<1> QED
  BY <1>1, <1>2, <1>3 DEF Next, Interrupt, MainStep

\* The ring with its two ends moved by two parties is a first-in first-out
\* queue of RingSize - 1 characters.
THEOREM RingIsQueue == Spec => IsQueue
<1>1. Init => Queue!Init
  <2> SUFFICES ASSUME Init PROVE Queue!Init
    OBVIOUS
  <2>1. IInv
    BY InitInv
  <2>2. Pending \in Seq(Kept) /\ Len(Pending) = 0
    <3>1. /\ keybuf \in Buffers /\ head \in Ring /\ tail \in Ring
          /\ head = tail
      BY <2>1 DEF IInv, TypeOK, Init, Buffers, Kept
    <3>2. Gap(head, tail) = 0
      <4>1. Gap(head, tail) \in Nat /\ ~(Gap(head, tail) > 0)
        BY <3>1, GapInRing
      <4> QED
        BY <4>1
    <3> QED
      BY <3>1, <3>2, ContentsIsSeq, PendingIsContents
  <2> QED
    BY <2>2, EmptySeq DEF Init, Queue!Init
<1> QED
  BY <1>1, StepOfQueue, InvHolds, PTL DEF Spec, IsQueue, Queue!Spec
=============================================================================
