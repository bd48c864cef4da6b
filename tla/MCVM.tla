-------------------------------- MODULE MCVM --------------------------------
(* A module with a typed variable, and a function with a typed parameter    *)
(* and "...", for TLC.                                                      *)
EXTENDS VM, TLC

Typed(t) == [type |-> t, const |-> FALSE]

MCChunks == {"main", "f"}
MCLocals == [c \in MCChunks |-> IF c = "main" THEN <<Typed("list")>> ELSE <<Typed("int"), Typed("list")>>]
MCFixed == [c \in MCChunks |-> IF c = "main" THEN 0 ELSE 1]
MCVarargs == [c \in MCChunks |-> c = "f"]
MCRest == [c \in MCChunks |-> "any"]
MCReturn == [c \in MCChunks |-> IF c = "main" THEN "any" ELSE "list"]

Symmetry == Permutations(Objects)
=============================================================================
