------------------------------ MODULE Keyboard ------------------------------
(***************************************************************************)
(* The keyboard: the interrupt handler of src/keyboard.cpp, the ring it    *)
(* shares with the main program, and the loop of the shell's read_line     *)
(* that takes characters out of it and halts when there is none.           *)
(*                                                                         *)
(* The handler runs with interrupts off, so it is one step; it can come    *)
(* between any two steps of kb_pop and between a kb_pop that found the     *)
(* ring empty and the hlt that follows it.                                 *)
(***************************************************************************)
EXTENDS Naturals, Sequences, FiniteSets

CONSTANTS
  RingSize,     \* 64: g_keybuf
  LineSize,     \* max_len of read_line
  Codes,        \* scan codes of the keys other than Shift
  Plain, Upper  \* keymap and keymap_shift: the character of a code, "" for 0

Enter == "enter"
Backspace == "backspace"

Chars == {Plain[k] : k \in Codes} \cup {Upper[k] : k \in Codes}
Printable == Chars \ {"", Enter, Backspace}
Ring == 0..(RingSize - 1)

ASSUME KeyboardAssumption ==
  /\ RingSize \in Nat /\ RingSize >= 2 /\ LineSize \in Nat \ {0}
  /\ DOMAIN Plain = Codes /\ DOMAIN Upper = Codes /\ "shift" \notin Codes

VARIABLES
  keybuf, head, tail,  \* g_keybuf, g_head, g_tail
  shift,               \* g_shift_pressed
  down,                \* the keys held down, whose release is still to come
  pc,                  \* of the main program
  ch,                  \* its local c
  line,                \* the line read_line has collected
  halted,              \* the processor stopped at hlt until an interrupt
  taken                \* history: the last character taken

ring == <<keybuf, head, tail>>
main == <<pc, ch, line, halted, taken>>
vars == <<ring, shift, down, main>>

\* (i + 1) & (RingSize - 1), the size being a power of two.
Advance(i) == IF i = RingSize - 1 THEN 0 ELSE i + 1

-----------------------------------------------------------------------------
(* IRQ1.  Any interrupt ends a hlt. *)

\* Slip: interrupts masked while the processor is halted.
StayHalted == UNCHANGED <<pc, ch, line, halted, taken>>

Wake == halted' = FALSE /\ UNCHANGED <<pc, ch, line, taken>>

\* Slip: a full ring is overwritten.
PushOver(c) ==
  IF c = "" THEN UNCHANGED <<keybuf, head>>
  ELSE keybuf' = [keybuf EXCEPT ![head] = c] /\ head' = Advance(head)

Push(c) ==
  IF c = "" \/ Advance(head) = tail
  THEN UNCHANGED <<keybuf, head>>
  ELSE keybuf' = [keybuf EXCEPT ![head] = c] /\ head' = Advance(head)

Typed(k) == IF shift THEN Upper[k] ELSE Plain[k]

\* A key goes down, or repeats while it is held.
KeyPress(k) ==
  /\ Push(Typed(k))
  /\ down' = down \cup {k}
  /\ Wake /\ UNCHANGED <<tail, shift>>

ShiftPress ==
  /\ shift' = TRUE /\ down' = down \cup {"shift"}
  /\ Wake /\ UNCHANGED ring

KeyRelease ==
  \E k \in down : /\ down' = down \ {k}
                  /\ shift' = IF k = "shift" THEN FALSE ELSE shift
                  /\ Wake /\ UNCHANGED ring

-----------------------------------------------------------------------------
(* kb_pop, and read_line around it. *)

Main(from, to) == ~halted /\ pc = from /\ pc' = to

PopTest ==
  /\ Main("test", IF head = tail THEN "hlt" ELSE "load")
  /\ UNCHANGED <<ring, shift, down, ch, line, halted, taken>>

PopLoad ==
  /\ Main("load", "advance") /\ ch' = keybuf[tail]
  /\ UNCHANGED <<ring, shift, down, line, halted, taken>>

PopAdvance ==
  /\ Main("advance", "use") /\ tail' = Advance(tail) /\ taken' = ch
  /\ UNCHANGED <<keybuf, head, shift, down, ch, line, halted>>

Halt ==
  /\ Main("hlt", "test") /\ halted' = TRUE
  /\ UNCHANGED <<ring, shift, down, ch, line, taken>>

\* read_line returns at Enter; a full line and the other characters are ignored.
UseChar ==
  /\ Main("use", IF ch = Enter THEN "command" ELSE "test")
  /\ line' = IF ch = Backspace /\ line # << >> THEN SubSeq(line, 1, Len(line) - 1)
             ELSE IF ch \in Printable /\ Len(line) + 1 < LineSize THEN Append(line, ch)
             ELSE line
  /\ UNCHANGED <<ring, shift, down, ch, halted, taken>>

\* execute_line: keys go on arriving while a command runs.
RunCommand ==
  /\ Main("command", "test") /\ line' = << >>
  /\ UNCHANGED <<ring, shift, down, ch, halted, taken>>

-----------------------------------------------------------------------------
Init ==
  /\ keybuf = [i \in Ring |-> ""] /\ head = 0 /\ tail = 0 /\ shift = FALSE
  /\ down = {} /\ pc = "test" /\ ch = "" /\ line = << >> /\ halted = FALSE
  /\ taken = ""

Interrupt == (\E k \in Codes : KeyPress(k)) \/ ShiftPress \/ KeyRelease
MainStep == PopTest \/ PopLoad \/ PopAdvance \/ Halt \/ UseChar \/ RunCommand

Next == Interrupt \/ MainStep

Spec == Init /\ [][Next]_vars

\* The processor runs, and a key that went down comes up again: the hardware
\* sends a release code for every key.
FairSpec == Spec /\ WF_vars(MainStep) /\ WF_vars(KeyRelease)

-----------------------------------------------------------------------------
TypeOK ==
  /\ keybuf \in [Ring -> Chars \cup {""}] /\ head \in Ring /\ tail \in Ring
  /\ shift \in BOOLEAN /\ down \subseteq Codes \cup {"shift"}
  /\ pc \in {"test", "load", "advance", "use", "hlt", "command"}
  /\ ch \in Chars \cup {""} /\ line \in Seq(Printable) /\ halted \in BOOLEAN
  /\ taken \in Chars \cup {""}

\* The characters in the ring, from the tail to the head.
Count == IF head >= tail THEN head - tail ELSE head + RingSize - tail
Pending ==
  [k \in 1..Count |-> keybuf[IF tail + k - 1 < RingSize THEN tail + k - 1
                             ELSE tail + k - 1 - RingSize]]

\* A kb_pop under way still has its character where it found it, whatever the
\* interrupt handler has pushed since the test or the load.
PopIsSafe ==
  /\ pc \in {"load", "advance"} => Count > 0
  /\ pc = "advance" => ch = keybuf[tail]

\* The ring is a bounded queue although its two ends move concurrently.
Queue == INSTANCE KeyQueue
           WITH queue <- Pending, last <- taken, Capacity <- RingSize - 1
IsQueue == Queue!Spec

\* What is typed is read as long as interrupts keep coming: a character that
\* arrives between the empty test and the hlt waits for the next one.
TypedIsRead == []<><<Interrupt>>_vars => ((Count > 0) ~> (pc = "advance"))

\* clamshell.cpp:78 "block until we get a char": with a character in the ring
\* read_line does not stay blocked.
BlocksUntilChar == (Count > 0) ~> (pc = "advance")
=============================================================================
