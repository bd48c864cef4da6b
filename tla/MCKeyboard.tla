----------------------------- MODULE MCKeyboard -----------------------------
(* A small keyboard for TLC: a letter, Enter, Backspace and Control. *)
EXTENDS Keyboard, TLC

CONSTANT Keys

KeyMap == "A" :> "a" @@ "E" :> "enter" @@ "B" :> "backspace" @@ "C" :> ""
ShiftMap == "A" :> "A" @@ "E" :> "enter" @@ "B" :> "backspace" @@ "C" :> ""

MCPlain == [k \in Keys |-> KeyMap[k]]
MCUpper == [k \in Keys |-> ShiftMap[k]]
=============================================================================
