------------------------------ MODULE MCReader ------------------------------
(* An instance of Reader for TLC. *)
EXTENDS Reader

CONSTANTS MaxTyped,    \* bound: characters of a line
          MaxAny,      \* bound: characters of a line that is not of brackets, dots and letters
          MaxRubbed    \* bound: characters of a line that something is taken back from

\* One letter stands for all words, one digit for all numbers.
MCPrinting == {"(", ")", ".", "a", "1", " ", "'", "/", ";", "\""}

Often(c, n) == Cardinality({k \in DOMAIN buf : buf[k] = c}) > n
Rare        == {"\"", ";", "/", "1", "'"}
Plain       == {"(", ")", ".", "a", Zero}
Bounded     == /\ longest <= MaxTyped
               /\ longest > Len(kept) => longest <= MaxRubbed
               /\ longest > MaxAny => \A k \in DOMAIN buf : buf[k] \in Plain
               /\ ~Often(".", 1) /\ ~Often(" ", 1)
               /\ Cardinality({k \in DOMAIN buf : buf[k] \in Rare}) <= 1
=============================================================================
