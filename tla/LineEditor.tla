----------------------------- MODULE LineEditor -----------------------------
(***************************************************************************)
(* The lisp's prompt (src/usr/lisp/main.c): a key at a time into a line    *)
(* buffer, and a parse at the return key when the brackets balance.        *)
(*                                                                         *)
(* buf_i and balance are unsigned and nothing bounds them.  A backspace    *)
(* only moves buf_i, so what it has taken back stays in the buffer, and at *)
(* the start of the line it takes buf_i before the buffer.  A newline      *)
(* inside brackets is not stored.  What is behind or before the buffer is  *)
(* not known: a store there ends the model, and a load gives anything.     *)
(*                                                                         *)
(* kept, longest, under, line and ast are history variables: what was      *)
(* typed and not taken back, how long that has been, whether buf_i was     *)
(* before the buffer in this line, the text that was parsed last, and what *)
(* came out.                                                               *)
(***************************************************************************)
EXTENDS Integers, Sequences, SequencesExt

CONSTANTS
    Printing,    \* the characters that are typed
    Zero,        \* '\0', which no key gives
    Parse(_),    \* parse (module Parser): what comes of a text
    SIZE,        \* 256
    WORD,        \* 2^32
    Deepest      \* bound: how far buf_i goes before the buffer

ASSUME EditorAssumption ==
    /\ Zero \notin Printing \union {"(", ")"}
    /\ SIZE \in Nat \ {0} /\ WORD \in Nat \ {0, 1}

VARIABLES buf, buf_i, balance, kept, longest, under, line, ast,
          status       \* "ok", or how the program left its buffer

editorVars == <<buf, buf_i, balance, kept, longest, under, line, ast, status>>

Nothing == [res |-> "none"]
Empty   == [n \in 0 .. SIZE - 1 |-> Zero]

EditorInit == /\ buf = Empty /\ buf_i = 0 /\ balance = 0
              /\ kept = <<>> /\ longest = 0 /\ under = FALSE
              /\ line = <<>> /\ ast = Nothing
              /\ status = "ok"

NewKey == status = "ok" /\ line' = <<>> /\ ast' = Nothing

\* What a bracket adds to the balance when it is typed.
Weight(c) == CASE c = "(" -> 1 [] c = ")" -> -1 [] OTHER -> 0

TypeKey(c) ==
    /\ NewKey
    /\ balance' = (balance + Weight(c)) % WORD
    /\ IF buf_i \in DOMAIN buf
       THEN buf' = [buf EXCEPT ![buf_i] = c] /\ UNCHANGED status
       ELSE status' = "stored_outside" /\ UNCHANGED buf
    /\ buf_i' = buf_i + 1
    /\ kept' = Append(kept, c)
    /\ longest' = IF Len(kept) < longest THEN longest ELSE Len(kept) + 1
    /\ UNCHANGED under

\* The byte before buf_i; outside the buffer it may be anything.
Before == IF buf_i - 1 \in DOMAIN buf THEN {buf[buf_i - 1]} ELSE {"(", ")", Zero}

\* Mutant: the brackets taken back still count.
BackspaceBlind == /\ NewKey /\ buf_i > -Deepest
                  /\ buf_i' = buf_i - 1
                  /\ kept' = IF kept = <<>> THEN kept ELSE Front(kept)
                  /\ under' = (under \/ buf_i <= 0)
                  /\ UNCHANGED <<buf, balance, longest, status>>

Backspace == \E c \in Before :
    /\ NewKey /\ buf_i > -Deepest
    /\ balance' = (balance - Weight(c)) % WORD
    /\ buf_i' = buf_i - 1
    /\ kept' = IF kept = <<>> THEN kept ELSE Front(kept)
    /\ under' = (under \/ buf_i <= 0)
    /\ UNCHANGED <<buf, longest, status>>

\* The string at buf; a full buffer has no end.
Text == LET n == CHOOSE n \in 0 .. SIZE : /\ n \in DOMAIN buf => buf[n] = Zero
                                          /\ \A k \in 0 .. n - 1 : buf[k] # Zero
        IN  [k \in 1 .. n |-> buf[k - 1]]
Full == Len(Text) = SIZE

\* Inside brackets the prompt changes and that is all.
GoOn == /\ balance # 0
        /\ NewKey
        /\ UNCHANGED <<buf, buf_i, balance, kept, longest, under, status>>

\* Mutant: only what was parsed is cleared.
EnterKeeps == \E tree \in {Parse(Text)} :
    /\ balance = 0 /\ status = "ok"
    /\ line' = Text /\ ast' = tree
    /\ buf_i' = 0
    /\ kept' = <<>> /\ longest' = 0 /\ under' = FALSE
    /\ status' = IF tree.res = "ran" \/ Full THEN "read_outside" ELSE status
    /\ UNCHANGED <<buf, balance>>

\* parse and scope_exec (module Lisp), then a new line.
Enter == \E tree \in {Parse(Text)} :
    /\ balance = 0 /\ status = "ok"
    /\ line' = Text /\ ast' = tree
    /\ buf' = Empty /\ buf_i' = 0
    /\ kept' = <<>> /\ longest' = 0 /\ under' = FALSE
    /\ status' = IF tree.res = "ran" \/ Full THEN "read_outside" ELSE status
    /\ UNCHANGED balance

EditorNext == (\E c \in Printing : TypeKey(c)) \/ Backspace \/ GoOn \/ Enter

EditorSpec == EditorInit /\ [][EditorNext]_editorVars
-----------------------------------------------------------------------------
\* What the buffer holds up to buf_i is what was typed and not taken back, and
\* balance counts the brackets in it, through every backspace over a bracket.
Count(s, c) == Cardinality({k \in DOMAIN s : s[k] = c})
LineIsKept ==
    status = "ok" /\ ~under =>
        /\ kept = [k \in 1 .. buf_i |-> buf[k - 1]]
        /\ balance = (Count(kept, "(") - Count(kept, ")")) % WORD

\* The text that is parsed begins with the line as it was typed.  It is longer
\* where something was taken back and not typed over, and by nothing else: no
\* character of an earlier line comes back.
ExecutedIsTyped ==
    [][Enter /\ ~under => /\ IsPrefix(kept, line')
                          /\ Len(line') = longest]_editorVars
=============================================================================
