------------------------------ MODULE Grammar ------------------------------
(***************************************************************************)
(* The lisp's grammar, without an order of trying: which sequences of      *)
(* tokens are values, and which nodes they are.  Module Parser is checked  *)
(* against it.                                                             *)
(***************************************************************************)
EXTENDS Parser

\* The tokens of a text up to its end, or to where it is no text any more.
RECURSIVE TokensFrom(_, _)
TokensFrom(s, p) == LET token == lex(s, p)
                    IN  IF token.type \in {"EOF", "RUNAWAY"} THEN <<>>
                        ELSE <<token>> \o TokensFrom(s, token.end)

\* The nodes that T[i..j] can be as one value, the sequences of nodes it can be
\* as one value or more.
RECURSIVE ValuesOf(_, _, _), ListsOf(_, _, _)

Is(T, i, type) == T[i].type = type

ValuesOf(T, i, j) ==
    IF i > j THEN {}
    ELSE UNION {
        {Node(T[i].type, T[i].start, T[i].end, <<>>) :
            x \in {y \in {i} : i = j /\ T[i].type \in AtomTypes}},
        IF i < j /\ Is(T, i, "LEFT") /\ Is(T, j, "RIGHT")
        THEN {Node("LIST", 0, 0, kids) : kids \in ListsOf(T, i + 1, j - 1)}
             \union UNION {{Node("PAIR", 0, 0, <<v, w>>) :
                               v \in ValuesOf(T, i + 1, k - 1), w \in ValuesOf(T, k + 1, j - 1)}
                           : k \in {n \in i + 1 .. j - 1 : Is(T, n, "DOT")}}
        ELSE {},
        IF i < j /\ Is(T, i, "QUOTE_LEFT") /\ Is(T, j, "RIGHT")
        THEN {Node("QUOTE_LIST", 0, 0, kids) : kids \in ListsOf(T, i + 1, j - 1)}
        ELSE {} }

ListsOf(T, i, j) ==
    {<<v>> : v \in ValuesOf(T, i, j)}
      \union UNION {{<<v>> \o rest : v \in ValuesOf(T, i, k), rest \in ListsOf(T, k + 1, j)}
                    : k \in i .. j - 1}

\* The longest beginning of a text that is a list of values: what it is.
Meanings(s) ==
    LET T    == TokensFrom(s, 1)
        ends == {j \in 1 .. Len(T) : ListsOf(T, 1, j) # {}}
    IN  IF ends = {} THEN {} ELSE ListsOf(T, 1, Max(ends))

\* The text is lexed to its end without running away.
RECURSIVE Ends(_, _)
Ends(s, p) == LET token == lex(s, p)
              IN  CASE token.type = "RUNAWAY" -> FALSE
                    [] token.type = "EOF"     -> TRUE
                    [] OTHER                  -> Ends(s, token.end)
=============================================================================
