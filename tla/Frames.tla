------------------------------- MODULE Frames -------------------------------
(***************************************************************************)
(* What struct Scope promises to exec_function and method_let: a stack of  *)
(* frames.  A name is bound in the innermost frame, it means what the      *)
(* innermost frame that binds it says, and leaving a frame brings back     *)
(* what every name meant when it was entered.                              *)
(***************************************************************************)
EXTENDS Naturals, Sequences

CONSTANTS Name, Value, Unbound     \* Unbound is no value

VARIABLE frames

NoNames == [name \in Name |-> Unbound]

Init == frames = <<NoNames>>

Enter == frames' = Append(frames, NoNames)

Bind(name, value) == frames' = [frames EXCEPT ![Len(frames)][name] = value]

Leave ==
    /\ Len(frames) > 1
    /\ frames' = SubSeq(frames, 1, Len(frames) - 1)

Next == Enter \/ Leave \/ \E name \in Name, value \in Value : Bind(name, value)

Spec == Init /\ [][Next]_frames

\* The innermost frame that binds the name, 0 if none does.
FrameOf(name) ==
    LET binding == {i \in 1 .. Len(frames) : frames[i][name] # Unbound}
    IN  IF binding = {} THEN 0
        ELSE CHOOSE i \in binding : \A j \in binding : j <= i

Meaning(name) == IF FrameOf(name) = 0 THEN Unbound ELSE frames[FrameOf(name)][name]
=============================================================================
