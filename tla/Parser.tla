------------------------------- MODULE Parser -------------------------------
(***************************************************************************)
(* The lisp's lexer and parser (src/usr/lisp/lexer.c, parser.c) as         *)
(* operators on a text and a position in it.                               *)
(*                                                                         *)
(* A text is a sequence of characters; behind its end NULs are read.  A    *)
(* character is a string of length one; "a" and "1" stand for the letters  *)
(* and the digits.  A comment without a newline behind it and a string     *)
(* without a closing quote make the lexer read on behind the text: the     *)
(* token is RUNAWAY and the parse ends as Ran.                             *)
(***************************************************************************)
EXTENDS Naturals, Sequences, FiniteSetsExt

NUL == "NUL"
Ch(s, p) == IF p <= Len(s) THEN s[p] ELSE NUL

is_digit(c)                     == c = "1"
is_valid_symbol_char(c)         == c \in {"a", "1", "/", ";"}
is_valid_symbol_start_char(c)   == is_valid_symbol_char(c) /\ ~is_digit(c)

\* The first position from p on whose character is not in a class.
Behind(s, p, InClass(_)) == Min({q \in p .. Len(s) + 1 : ~InClass(Ch(s, q))} \union {Len(s) + 1})
\* The first c from p on; none is 0.
Find(s, p, c) == LET at == {q \in p .. Len(s) : s[q] = c} IN IF at = {} THEN 0 ELSE Min(at)

\* A token from start up to end, where the next one is looked for.
Token(type, start, end) == [type |-> type, start |-> start, end |-> end]

\* switch_label: what is skipped, then the token.  A quote that nothing can
\* follow is no token; the position stays where it is.
RECURSIVE lex(_, _)
lex(s, p) ==
    CASE Ch(s, p) = NUL -> Token("EOF", p, p)
      [] Ch(s, p) = ";" -> LET nl == Find(s, p, "\n")
                           IN  IF nl = 0 THEN Token("RUNAWAY", p, p) ELSE lex(s, nl + 1)
      [] Ch(s, p) = "(" -> Token("LEFT", p, p + 1)
      [] Ch(s, p) = ")" -> Token("RIGHT", p, p + 1)
      [] Ch(s, p) = "." ->
            IF Ch(s, p + 1) = "/"
            THEN Token("PATH", p, Behind(s, p + 1, LAMBDA c : is_valid_symbol_char(c) \/ c = "."))
            ELSE Token("DOT", p, p + 1)
      [] Ch(s, p) = "'" ->
            CASE Ch(s, p + 1) = "(" -> Token("QUOTE_LEFT", p, p + 2)
              [] is_valid_symbol_start_char(Ch(s, p + 1)) ->
                    Token("QUOTE_SYMBOL", p + 1, Behind(s, p + 1, is_valid_symbol_char))
              [] OTHER -> Token("EOF", 0, p)
      [] Ch(s, p) \in {" ", "\n"} -> lex(s, p + 1)
      [] Ch(s, p) = "\"" -> LET close == Find(s, p + 1, "\"")
                            IN  IF close = 0 THEN Token("RUNAWAY", p, p)
                                ELSE Token("STRING", p, close + 1)
      [] is_digit(Ch(s, p)) -> Token("INT", p, Behind(s, p, is_digit))
      [] is_valid_symbol_start_char(Ch(s, p)) ->
            Token("SYMBOL", p, Behind(s, p, is_valid_symbol_char))
      [] OTHER -> Token("EOF", 0, p)

-----------------------------------------------------------------------------
\* A node: its type, the span of an atom, its parts otherwise.
Node(t, start, end, kids) == [t |-> t, start |-> start, end |-> end, kids |-> kids]

\* What a parse function returns: nodes and where it stands, or nothing, and
\* it stands where it started; or it has run away.
Ok(nodes, p) == [res |-> "ok", nodes |-> nodes, at |-> p]
Err(p)       == [res |-> "err", nodes |-> <<>>, at |-> p]
Ran          == [res |-> "ran", nodes |-> <<>>, at |-> 0]

\* A function that has failed inside one that started at p.
Undo(r, p) == [r EXCEPT !.at = p]

\* The next token is a type; then comes this.
Expect(s, p, type, start, then(_)) ==
    LET token == lex(s, p)
    IN  CASE token.type = "RUNAWAY" -> Ran
          [] token.type = type      -> then(token)
          [] OTHER                  -> Err(start)

AtomTypes == {"QUOTE_SYMBOL", "INT", "SYMBOL", "PATH", "STRING"}
parse_atom(s, p, type) ==
    Expect(s, p, type, p, LAMBDA token :
           Ok(<<Node(type, token.start, token.end, <<>>)>>, token.end))

RECURSIVE parse_value(_, _), parse_list_contents(_, _)

\* Mutant: a list that is not closed leaves the position behind its contents.
BracketedStays(s, p, open, t) ==
    Expect(s, p, open, p, LAMBDA left :
      LET contents == parse_list_contents(s, left.end)
      IN  IF contents.res # "ok" THEN Undo(contents, p)
          ELSE Expect(s, contents.at, "RIGHT", contents.at, LAMBDA right :
                      Ok(<<Node(t, 0, 0, contents.nodes)>>, right.end)))

\* parse_list and parse_quote_list: contents in brackets.
Bracketed(s, p, open, t) ==
    Expect(s, p, open, p, LAMBDA left :
      LET contents == parse_list_contents(s, left.end)
      IN  IF contents.res # "ok" THEN Undo(contents, p)
          ELSE Expect(s, contents.at, "RIGHT", p, LAMBDA right :
                      Ok(<<Node(t, 0, 0, contents.nodes)>>, right.end)))

parse_pair(s, p) ==
    Expect(s, p, "LEFT", p, LAMBDA left :
      LET v1 == parse_value(s, left.end)
      IN  IF v1.res # "ok" THEN Undo(v1, p)
          ELSE Expect(s, v1.at, "DOT", p, LAMBDA dot :
            LET v2 == parse_value(s, dot.end)
            IN  IF v2.res # "ok" THEN Undo(v2, p)
                ELSE Expect(s, v2.at, "RIGHT", p, LAMBDA right :
                            Ok(<<Node("PAIR", 0, 0, v1.nodes \o v2.nodes)>>, right.end))))

\* The next alternative, from where the last one stands if that has failed.
OrElse(r, alternative(_)) == IF r.res = "err" THEN alternative(r.at) ELSE r
OrAtom(r, s, type)        == OrElse(r, LAMBDA q : parse_atom(s, q, type))

parse_value(s, p) ==
    LET list  == Bracketed(s, p, "LEFT", "LIST")
        pair  == OrElse(list, LAMBDA q : parse_pair(s, q))
        quote == OrElse(pair, LAMBDA q : Bracketed(s, q, "QUOTE_LEFT", "QUOTE_LIST"))
    IN  OrAtom(OrAtom(OrAtom(OrAtom(OrAtom(quote, s, "QUOTE_SYMBOL"), s, "INT"),
                             s, "SYMBOL"), s, "PATH"), s, "STRING")

\* One value or more.
parse_list_contents(s, p) ==
    LET value == parse_value(s, p)
    IN  IF value.res # "ok" THEN Undo(value, p)
        ELSE LET rest == parse_list_contents(s, value.at)
             IN  CASE rest.res = "ran" -> rest
                   [] rest.res = "err" -> value
                   [] rest.res = "ok"  -> Ok(value.nodes \o rest.nodes, rest.at)

parse(s) == parse_list_contents(s, 1)
=============================================================================
