----------------------------- MODULE Transcript -----------------------------
(***************************************************************************)
(* What the console promises: a sheet of rows that only grows downwards.   *)
(* Text is written at the cursor, which is always on the last row; what is *)
(* on the rows above stays as it was.                                      *)
(***************************************************************************)
EXTENDS Naturals, Sequences

CONSTANTS Chars, Blank, Width

VARIABLES
  rows,  \* the rows so far, each of Width cells
  col    \* cells before the cursor on the last row

Empty == [x \in 1..Width |-> Blank]
Written(c) == [rows EXCEPT ![Len(rows)][col + 1] = c]

Init == rows = <<Empty>> /\ col = 0

Put(c) ==
  IF col + 1 < Width THEN rows' = Written(c) /\ col' = col + 1
  ELSE rows' = Append(Written(c), Empty) /\ col' = 0

NewLine == rows' = Append(rows, Empty) /\ col' = 0

Return == col' = 0 /\ UNCHANGED rows

\* The cell before the cursor; there is no way back to the row above.
Erase == col > 0 /\ col' = col - 1 /\ rows' = [rows EXCEPT ![Len(rows)][col] = Blank]

Next == (\E c \in Chars : Put(c)) \/ NewLine \/ Return \/ Erase

Spec == Init /\ [][Next]_<<rows, col>>
=============================================================================
