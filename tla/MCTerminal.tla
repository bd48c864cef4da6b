----------------------------- MODULE MCTerminal -----------------------------
(* A screen of two rows of three cells, for TLC: a prompt and three keys     *)
(* wrap, and two rows more scroll.                                           *)
EXTENDS Terminal

MCPrompts == {<<">">>}
MCOutputs == {<< >>, <<"o", "newline">>, <<"o">>}
=============================================================================
