----------------------------- MODULE Allocator -----------------------------
(***************************************************************************)
(* What malloc, free and realloc promise the ClamLang programs: the blocks *)
(* in use lie in the heap, apart from each other, and stay where they are  *)
(* until they are given back or moved.                                     *)
(***************************************************************************)
EXTENDS Naturals

CONSTANTS
  Size,      \* the addresses are 0 .. Size - 1
  Lengths    \* what programs ask for

VARIABLE live   \* from the address of each block in use to the length asked for

Apart(p, n, q, m) == p + n <= q \/ q + m <= p

\* A block of length n at p is in the heap and overlaps none in use, except
\* those at S.
Fits(p, n, S) ==
  /\ p \in Nat /\ n \in Nat /\ p + n <= Size
  /\ \A q \in DOMAIN live \ S : p # q /\ Apart(p, n, q, live[q])

Init == live = [q \in {} |-> 0]

With(p, n, S) == [q \in (DOMAIN live \ S) \cup {p} |-> IF q = p THEN n ELSE live[q]]

Grant(p, n) == Fits(p, n, {}) /\ live' = With(p, n, {})

Release(p) ==
  p \in DOMAIN live /\ live' = [q \in DOMAIN live \ {p} |-> live[q]]

Resize(p, n) == p \in DOMAIN live /\ Fits(p, n, {p}) /\ live' = With(p, n, {})

\* The old block is still there while it is copied.
Move(p, q, n) == p \in DOMAIN live /\ Fits(q, n, {}) /\ live' = With(q, n, {p})

Next ==
  \/ \E q \in 0..Size, n \in Lengths :
       \/ Grant(q, n)
       \/ \E p \in DOMAIN live : Move(p, q, n)
  \/ \E p \in DOMAIN live : Release(p) \/ \E n \in Lengths : Resize(p, n)

Spec == Init /\ [][Next]_live
=============================================================================
