------------------------------- MODULE MCFFS -------------------------------
(* Small instances of FFS for TLC. *)
EXTENDS FFSProps, TLC

CONSTANTS n1, n2

BelowItself == << <<n1>>, <<n1, n1>> >>
NoLayout == << >>
\* A failed transfer or a loss of power, not both, but for the format that a
\* superblock unreadable at the next boot sets off.
OneMishap == faults + crashes <= 1 \/ pc = "fmt_sb" \/ Formatting

Swap == Permutations({n1, n2})
=============================================================================
