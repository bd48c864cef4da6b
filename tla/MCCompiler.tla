----------------------------- MODULE MCCompiler -----------------------------
(* Bounds for TLC: a chunk has two declarations at most, and one other      *)
(* statement without a block; expressions use three operators.              *)
EXTENDS Compiler

MCFunctions == << <<"x">> >>

Marks(kinds) == Cardinality({i \in DOMAIN source : Kind(i) \in kinds})
Small ==
  /\ Marks({"LET", "VOIDLET", "SLET", "VOID", "init", "stepped"}) <= 2
  /\ Marks({"SET", "INCDEC", "SAY_IDENT", "RETURN", "SAY_EXPR", "EXPR", "NOTHING"}) <= 1
=============================================================================
