------------------------------ MODULE Terminal ------------------------------
(***************************************************************************)
(* The text console, src/console.cpp, and what the shell writes on it: the *)
(* prompt, the echo of read_line and the output of commands                *)
(* (src/clamshell/clamshell.cpp).                                          *)
(*                                                                         *)
(* One step writes one character.  Nothing else writes to the screen, so   *)
(* the program goes on when its text is out.  Colours are left out; which  *)
(* character comes next from the keyboard is up to module Keyboard.        *)
(***************************************************************************)
EXTENDS Naturals, Sequences

CONSTANTS
  VGA_WIDTH, VGA_HEIGHT,
  Printable,     \* the characters 32 to 126 that are typed
  Prompts,       \* the texts of a prompt, g_cwd_path and " > "
  Outputs,       \* the texts commands write
  LineSize,      \* max_len of read_line
  MaxScrolled    \* bound: rows scrolled off the screen

Blank == " "
Newline == "newline"
Return == "return"
Erase == "erase"

\* Nothing that is printed holds a '\r' or a '\b': texts come from string
\* constants and from what was typed.  A prompt is on one line: read_line
\* ends at the newline, so no path has one.
ASSUME TerminalAssumption ==
  /\ VGA_WIDTH \in Nat \ {0} /\ VGA_HEIGHT \in Nat \ {0} /\ LineSize \in Nat \ {0}
  /\ Printable \cap {Newline, Return, Erase} = {}
  /\ \A t \in Prompts \cup Outputs :
       t \in Seq(STRING) /\ \A i \in DOMAIN t : t[i] \notin {Return, Erase}
  /\ \A t \in Prompts : \A i \in DOMAIN t : t[i] # Newline

\* The characters texts are made of.
Chars == Printable \cup {Blank} \cup UNION {{t[i] : i \in DOMAIN t} : t \in Prompts \cup Outputs}

VARIABLES
  vga,       \* VGA_MEMORY: its rows
  row, col,  \* g_console_row, g_console_col
  output,    \* what is still to be written
  pc,        \* "read" a line, or "run" it
  prompt,    \* the prompt before the line
  line,      \* read_line's buf
  scrolled,  \* history: the rows scrolled off
  stuck      \* history: since the prompt, a backspace came at the left edge

console == <<vga, row, col, scrolled>>
shell == <<pc, prompt, line>>
vars == <<console, output, shell, stuck>>

-----------------------------------------------------------------------------
(* console_putc *)

EmptyRow == [x \in 1..VGA_WIDTH |-> Blank]

\* Slip: the last row is not cleared.
KeptRow == vga[VGA_HEIGHT]

ClearedRow == EmptyRow

\* Slip: one row too late.
RowsLeft == row < VGA_HEIGHT

RoomBelow == row + 1 < VGA_HEIGHT

\* console_put_entry_at the cursor.
PutAt(c, x) == [vga EXCEPT ![row + 1][x + 1] = c]

\* The cursor goes to the start of the next row; at the bottom the rows
\* move up.
NextRow(rows) ==
  /\ col' = 0
  /\ IF RoomBelow
     THEN vga' = rows /\ row' = row + 1 /\ UNCHANGED scrolled
     ELSE /\ vga' = Append(Tail(rows), ClearedRow) /\ UNCHANGED row
          /\ scrolled' = Append(scrolled, Head(rows))

Put(c) ==
  IF col + 1 < VGA_WIDTH
  THEN vga' = PutAt(c, col) /\ col' = col + 1 /\ UNCHANGED <<row, scrolled>>
  ELSE NextRow(PutAt(c, col))

\* A backspace goes back a cell and clears it, unless it is at the left edge.
Backspace ==
  IF col = 0 THEN UNCHANGED console
  ELSE vga' = PutAt(Blank, col - 1) /\ col' = col - 1 /\ UNCHANGED <<row, scrolled>>

console_putc(c) ==
  CASE c = Newline -> NextRow(vga)
    [] c = Return -> col' = 0 /\ UNCHANGED <<vga, row, scrolled>>
    [] c = Erase -> Backspace
    [] OTHER -> Put(c)

-----------------------------------------------------------------------------
(* The shell *)

\* console_write, one character.
Write ==
  /\ output # << >> /\ Len(scrolled) < MaxScrolled
  /\ console_putc(Head(output)) /\ output' = Tail(output)
  /\ stuck' = (stuck \/ (Head(output) = Erase /\ col = 0)) /\ UNCHANGED shell

\* Slip: back, and the old character again.
RubOutOnce == <<Blank, Erase>>

RubOut == <<Erase, Blank, Erase>>

\* read_line takes a character and echoes it.
Enter == pc' = "run" /\ output' = <<Newline>> /\ UNCHANGED <<prompt, line>>

DeleteLast ==
  /\ line # << >> /\ line' = SubSeq(line, 1, Len(line) - 1)
  /\ output' = RubOut /\ UNCHANGED <<pc, prompt>>

Type(c) ==
  /\ Len(line) + 1 < LineSize /\ line' = Append(line, c)
  /\ output' = <<c>> /\ UNCHANGED <<pc, prompt>>

ReadChar ==
  /\ pc = "read" /\ output = << >> /\ UNCHANGED <<console, stuck>>
  /\ Enter \/ DeleteLast \/ \E c \in Printable : Type(c)

\* execute_line, and the next prompt.
RunLine ==
  /\ pc = "run" /\ output = << >> /\ pc' = "read" /\ line' = << >> /\ stuck' = FALSE
  /\ \E text \in Outputs, p \in Prompts : output' = text \o p /\ prompt' = p
  /\ UNCHANGED console

-----------------------------------------------------------------------------

\* console_initialize, and the first prompt.
Init ==
  /\ vga = [y \in 1..VGA_HEIGHT |-> EmptyRow] /\ row = 0 /\ col = 0
  /\ pc = "read" /\ prompt \in Prompts /\ output = prompt /\ line = << >>
  /\ scrolled = << >> /\ stuck = FALSE

Next == Write \/ ReadChar \/ RunLine
Spec == Init /\ [][Next]_vars

-----------------------------------------------------------------------------
(* What the terminal promises *)

\* Every variable has its type, and the cursor is on the screen.
TypeOK ==
  /\ DOMAIN vga = 1..VGA_HEIGHT /\ \A y \in DOMAIN vga : DOMAIN vga[y] = 1..VGA_WIDTH
  /\ row \in 0..(VGA_HEIGHT - 1) /\ col \in 0..(VGA_WIDTH - 1)
  /\ pc \in {"read", "run"} /\ Len(line) < LineSize /\ stuck \in BOOLEAN

\* Everything written so far, and the part of it before the cursor.
Rows == scrolled \o SubSeq(vga, 1, row + 1)
Cells == LET cell[n \in Nat] == Rows[(n \div VGA_WIDTH) + 1][(n % VGA_WIDTH) + 1] IN cell
Cursor == (Len(Rows) - 1) * VGA_WIDTH + col
Shown(n) == [i \in 1..n |-> Cells[Cursor - n + i - 1]]

\* When read_line waits for a character, what stands before the cursor is the
\* prompt and the line that will run, over as many rows as it takes and while
\* the screen scrolls, and nothing stands after it.  It fails from the first
\* backspace at the left edge to the next prompt: console_putc does not go
\* back to the row above, and read_line has dropped the character.
LineIsShown ==
  pc = "read" /\ output = << >> /\ ~stuck =>
    /\ Shown(Len(prompt) + Len(line)) = prompt \o line
    /\ \A x \in (col + 1)..VGA_WIDTH : vga[row + 1][x] = Blank
    /\ \A y \in (row + 2)..VGA_HEIGHT : vga[y] = EmptyRow

\* The screen is the end of a transcript that only grows: scrolling and
\* wrapping lose, repeat and mix no rows.
Sheet == INSTANCE Transcript
           WITH rows <- Rows, Width <- VGA_WIDTH
IsTranscript == Sheet!Spec
=============================================================================
