----------------------------- MODULE MCKeyboard -----------------------------
(* An instance of Keyboard for TLC: a letter, a digit on both blocks, shift,   *)
(* backspace and return.                                                       *)
EXTENDS Keyboard

MCKeys    == {"a", "7", "pad7", "shift", "back", "enter"}
MCCode    == [k \in MCKeys |-> CASE k = "pad7"  -> "7"
                                 [] k = "shift" -> "F"
                                 [] k = "back"  -> "BS"
                                 [] k = "enter" -> "NL"
                                 [] OTHER       -> k]
MCShifted == [c \in {"a", "7", "BS", "NL", "F", ""} |->
                CASE c = "a" -> "A" [] c = "7" -> "&" [] OTHER -> c]
=============================================================================
