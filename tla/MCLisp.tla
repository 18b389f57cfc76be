------------------------------- MODULE MCLisp -------------------------------
(***************************************************************************)
(* Lines for module Lisp: definitions and redefinitions of a number and of *)
(* functions, calls with complete and incomplete arguments, recursion with *)
(* and without an end, lists, and every builtin.  x and bx share a bucket. *)
(***************************************************************************)
EXTENDS Lisp

K(k)  == [t |-> "INT", num |-> k]
S(n)  == [t |-> "SYMBOL", name |-> n]
QS(n) == [t |-> "QUOTE_SYMBOL", name |-> n]
L(s)  == [t |-> "LIST", items |-> s]
Q(s)  == [t |-> "QUOTE_LIST", items |-> s]
T     == [t |-> "STRING"]
Dots  == [t |-> "PAIR"]

C(f, args) == L(<<S(f)>> \o args)                      \* a call

MCBuiltins ==
    <<"+", "-", "*", "/", "if", "=", "define", "display", "and", "or", "not", "lambda",
      "<", ">", "<=", ">=", "/=", "string-append", "let", "apply", "map",
      "int->string", "list", "car", "cdr", "quote", "unquote", "range">>

\* pjw_hash(name) % SCOPE_TABLES: the last byte of the name, plus 256 when the
\* byte before it is odd.  x and bx meet, y and apply, and some builtins.
MCBucketOf ==
    ("x" :> 120) @@ ("bx" :> 120) @@ ("y" :> 121) @@ ("f" :> 102) @@ ("g" :> 103) @@
    ("n" :> 110) @@ ("z" :> 122) @@
    ("+" :> 43) @@ ("-" :> 45) @@ ("*" :> 42) @@ ("/" :> 47) @@ ("if" :> 358) @@
    ("=" :> 61) @@ ("<=" :> 61) @@ (">=" :> 61) @@ ("<" :> 60) @@ (">" :> 62) @@
    ("/=" :> 317) @@ ("define" :> 101) @@ ("quote" :> 101) @@ ("unquote" :> 101) @@
    ("display" :> 377) @@ ("and" :> 100) @@ ("string-append" :> 100) @@
    ("or" :> 370) @@ ("car" :> 370) @@ ("not" :> 372) @@ ("let" :> 372) @@
    ("list" :> 372) @@ ("lambda" :> 97) @@ ("apply" :> 121) @@ ("map" :> 368) @@
    ("int->string" :> 103) @@ ("cdr" :> 114) @@ ("range" :> 357)

MCBucket == {MCBucketOf[n] : n \in DOMAIN MCBucketOf}

\* ((lambda (x) (* x 2)) 3)
Example == <<L(<<C("lambda", <<L(<<S("x")>>), C("*", <<S("x"), K(2)>>)>>), K(3)>>)>>

Definitions == {
    <<C("define", <<S("x"), K(5)>>)>>,
    <<C("define", <<S("bx"), C("list", <<K(1), Q(<<K(2), L(<<S("x")>>)>>), S("x")>>)>>)>>,
    \* x twice on a line, the second time from the first
    <<C("define", <<S("x"), K(4)>>), C("define", <<S("x"), C("*", <<S("x"), S("x")>>)>>)>>,
    \* (define (f n) (if n (f (- n 1)) (quote (y n)))): a recursion with an end
    <<C("define", <<L(<<S("f"), S("n")>>),
        C("if", <<S("n"), C("f", <<C("-", <<S("n"), K(1)>>)>>), C("quote", <<L(<<S("y"), S("n")>>)>>)>>)>>)>>,
    \* (define (f n) (f (list n n))): one without
    <<C("define", <<L(<<S("f"), S("n")>>), C("f", <<C("list", <<S("n"), S("n")>>)>>)>>)>>,
    \* (define (g x bx) (let ((z (define x 7))) (+ x z bx))): definitions inside
    <<C("define", <<L(<<S("g"), S("x"), S("bx")>>),
        C("let", <<L(<<L(<<S("z"), C("define", <<S("x"), K(7)>>)>>)>>), C("+", <<S("x"), S("z"), S("bx")>>)>>)>>)>>,
    \* (define (g x 1) x): a parameter that is no symbol
    <<C("define", <<L(<<S("g"), S("x"), K(1)>>), S("x")>>)>>,
    \* (define (y) (lambda (x) (f x))): a function that returns one
    <<C("define", <<L(<<S("y")>>), C("lambda", <<L(<<S("x")>>), C("f", <<S("x")>>)>>)>>)>>,
    \* a definition nobody can call, and one without a name
    <<C("define", <<S("x"), Dots>>), C("define", <<K(1), K(2)>>)>> }

Calls == {
    Example,
    <<S("x"), S("bx")>>,
    <<C("f", <<K(2)>>)>>,
    <<C("f", <<K(0)>>)>>,
    <<C("f", <<>>)>>,
    <<C("g", <<K(3), C("f", <<K(1)>>)>>)>>,
    <<C("g", <<C("g", <<K(1), K(2)>>), K(3)>>)>>,
    <<L(<<C("y", <<>>), K(1)>>)>>,
    <<C("map", <<S("y"), Q(<<K(1), K(2)>>)>>)>>,
    <<C("let", <<L(<<L(<<S("x"), C("f", <<K(1)>>)>>), L(<<S("y")>>)>>), S("x")>>)>> }

\* Every builtin, with values of every type and with too few arguments.
Builtin == {
    <<C("/", <<C("-", <<K(7), S("x")>>), K(2)>>), C("/", <<>>), C("+", <<S("bx")>>)>>,
    <<C("/", <<K(1), K(0)>>)>>,
    <<C("and", <<C("<", <<K(1), S("x")>>), C("or", <<K(0), C("=", <<S("x"), S("x")>>)>>)>>),
      C("and", <<C(">=", <<K(1), K(2)>>), S("x")>>), C("not", <<C("<=", <<S("x"), T>>)>>)>>,
    <<C(">", <<K(1)>>), C("/=", <<K(1), K(2)>>), C("not", <<K(1)>>), C("if", <<K(1), K(2)>>)>>,
    <<C("display", <<C("string-append", <<T, C("int->string", <<K(10)>>)>>)>>)>>,
    <<C("string-append", <<T, K(1)>>), C("int->string", <<T>>), C("lambda", <<S("x"), K(1)>>)>>,
    <<C("apply", <<S("+"), Q(<<K(1), K(2), S("x")>>)>>)>>,
    <<C("apply", <<S("+")>>)>>,
    <<C("map", <<C("lambda", <<L(<<S("x")>>), C("*", <<S("x"), S("x")>>)>>), C("range", <<K(0), K(2)>>)>>)>>,
    <<C("car", <<C("cdr", <<S("bx")>>)>>), C("cdr", <<K(1)>>), C("map", <<S("car"), K(1)>>)>>,
    <<C("unquote", <<C("quote", <<C("+", <<K(1), S("x")>>)>>)>>), C("unquote", <<QS("bx")>>), C("unquote", <<S("x")>>)>>,
    <<C("range", <<K(2), K(1)>>)>>,
    <<C("range", <<S("x"), K(1)>>), C("list", <<>>), C("quote", <<>>)>> }

MCLines  == {Converted(line) : line \in Definitions \union Calls \union Builtin}
MCLocals == {"n", "z"}

ExampleLine == Converted(Example)

\* The example above method_lambda (methods.c:237) is what the program prints,
\* whatever was defined, called, recursed into or leaked before.
ExampleHolds == ~scope.fault => ScopeExec(scope, ExampleLine).shown = <<[type |-> "INT", num |-> 6]>>
=============================================================================
