------------------------------ MODULE KeyQueue ------------------------------
(***************************************************************************)
(* What the keyboard promises the shell: a bounded first-in first-out      *)
(* queue of characters; what comes when it is full is not in it.           *)
(***************************************************************************)
EXTENDS Naturals, Sequences

CONSTANTS Chars, Capacity

VARIABLES
  queue,    \* characters typed and not yet taken, oldest first
  last      \* the character taken last, "" before the first

Init == queue = << >> /\ last = ""

Put(c) == Len(queue) < Capacity /\ queue' = Append(queue, c) /\ UNCHANGED last

Take == queue # << >> /\ last' = Head(queue) /\ queue' = Tail(queue)

Next == (\E c \in Chars : Put(c)) \/ Take

Spec == Init /\ [][Next]_<<queue, last>>
=============================================================================
