----------------------------- MODULE Evaluator -----------------------------
(***************************************************************************)
(* The lisp evaluator (src/usr/lisp/exe.c) with its built-in methods       *)
(* (methods.c).                                                            *)
(*                                                                         *)
(* Every operator that runs code takes the scope and returns a result, the *)
(* scope as the code leaves it and the value it returns.  The scope has    *)
(*     data, level                                  (module Scope)         *)
(*     nodes, marked                                (module Nodes)         *)
(*     depth   execution_depth                                             *)
(*     fault   the code read through a wild pointer or divided by zero     *)
(*     leaks   ghost: calls that returned between scope_in and scope_out   *)
(* After a fault nothing that follows counts.                              *)
(*                                                                         *)
(* Address 0 is mapped (memory_init maps from 0 on) and holds the first    *)
(* interrupt vector of the BIOS, so reading n->type of a null n finds none *)
(* of the eight types, while the pointers behind it lead nowhere.          *)
(*                                                                         *)
(* The text of a symbol is its name, the text of a string is left out.     *)
(***************************************************************************)
EXTENDS Nodes

CONSTANTS
    WORD,        \* 2^32: numbers are unsigned
    MAX_DEPTH,   \* 64: the recursion limit of exec_node
    Builtins     \* the names scope_add_methods enters, a sequence

ASSUME EvaluatorAssumption == WORD \in Nat \ {0} /\ MAX_DEPTH \in Nat

Text(type, name)   == [Node(type, NULL, NULL) EXCEPT !.name = name]
Number(k)    == [Node("INT", NULL, NULL) EXCEPT !.num = k]
Blank        == Node("PAIR", NULL, NULL)                \* memset to 0
Str          == Text("STRING", "")
Pair(a, d)   == Node("PAIR", a, d)
Quoted(a, d) == Node("QUOTE_PAIR", a, d)
Lambda(params, body) == Node("METHOD", params, body)
Bool(b)      == Number(IF b THEN 1 ELSE 0)

Nothing(sc)   == Result(sc, NULL)                       \* return 0
Fault(sc)     == Nothing([sc EXCEPT !.fault = TRUE])

IsType(sc, n, type) == n # NULL /\ sc.nodes[n].type = type
IsPair(sc, n)       == IsType(sc, n, "PAIR")
Car(sc, n) == sc.nodes[n].p1
Cdr(sc, n) == sc.nodes[n].p2

-----------------------------------------------------------------------------
(* From what the parser returns to nodes.  A parsed value is a record with   *)
(* its type t and a num, a name or the items, a sequence that is never empty. *)
(* The nodes come as a sequence, in the order in which they are allocated.    *)

RECURSIVE ConvertValue(_, _), ConvertList(_, _, _)

\* convert_value has no case for P_PAIR and P_PATH.
HasCase(value) ==
    value.t \in {"INT", "SYMBOL", "QUOTE_SYMBOL", "STRING", "LIST", "QUOTE_LIST"}

\* convert_value, the first node being the n-th.
ConvertValue(value, n) ==
    CASE value.t = "INT"          -> <<Number(value.num % WORD)>>
      [] value.t = "SYMBOL"       -> <<Text("SYMBOL", value.name)>>
      [] value.t = "QUOTE_SYMBOL" -> <<Text("QUOTE_SYMBOL", value.name)>>
      [] value.t = "STRING"       -> <<Str>>
      [] value.t = "LIST"         -> ConvertList(value.items, n, "PAIR")
      [] value.t = "QUOTE_LIST"   -> ConvertList(value.items, n, "QUOTE_PAIR")
      [] ~HasCase(value)          -> <<Blank>>

\* The loops over a list, and convert_list: a cell, its value, the next cell.
ConvertList(values, n, type) ==
    LET first == ConvertValue(Head(values), n + 1)
        next  == n + 1 + Len(first)
        cell  == Node(type, IF HasCase(Head(values)) THEN n + 1 ELSE NULL,
                            IF Len(values) = 1 THEN NULL ELSE next)
    IN  IF values = <<>> THEN <<>>
        ELSE <<cell>> \o first \o ConvertList(Tail(values), next, type)

\* The nodes of a line; what is executed hangs on the first.
Converted(line) == ConvertList(line, 1, "PAIR")

\* The nodes of a line among those of the scope.
Load(sc, code) ==
    LET all   == [i \in 1 .. Cardinality(DOMAIN sc.nodes) + Len(code) |-> i]
        place == SelectSeq(all, LAMBDA n : n \notin DOMAIN sc.nodes)
        At(n) == IF n = NULL THEN NULL ELSE place[n]
        Placed(node) == [node EXCEPT !.p1 = At(@), !.p2 = At(@)]
        new   == [n \in {place[i] : i \in DOMAIN code} |->
                     Placed(code[CHOOSE i \in DOMAIN code : place[i] = n])]
    IN  Result([sc EXCEPT !.nodes = new @@ @], IF code = <<>> THEN NULL ELSE place[1])

-----------------------------------------------------------------------------
(* exec_node and exec_function.  Call is the method behind a builtin.        *)

RECURSIVE Exec(_, _), ExecFunction(_, _, _), BindParams(_, _, _), Call(_, _, _)

\* scope_in has no scope_out: the early returns behind it.
Leave(sc) == Nothing([sc EXCEPT !.leaks = @ + 1])

ExecType(sc, n) ==
    CASE sc.nodes[n].type = "PAIR" ->
            LET first == Exec(sc, Car(sc, n))
            IN  IF IsType(first.sc, first.v, "METHOD")
                THEN ExecFunction(first.sc, first.v, Cdr(sc, n))
                ELSE Result(first.sc, n)
      [] sc.nodes[n].type = "SYMBOL" ->
            LET r == ScopeLookup(sc, sc.nodes[n].name)
            IN  IF r = NoEntry THEN Nothing(sc) ELSE Exec(sc, r.node)
      [] OTHER -> Result(sc, n)

Exec(sc, n) ==
    IF sc.fault \/ sc.depth >= MAX_DEPTH \/ n = NULL THEN Nothing(sc)
    ELSE LET r == ExecType([sc EXCEPT !.depth = @ + 1], n)
         IN  [r EXCEPT !.sc.depth = sc.depth]

\* Map the arguments to the parameters; the value tells whether it came through.
BindParams(sc, param, arg) ==
    IF param = NULL THEN Result(sc, TRUE)
    ELSE IF ~HasLinks(sc, param) THEN Result([sc EXCEPT !.fault = TRUE], FALSE)
    ELSE IF ~IsType(sc, Car(sc, param), "SYMBOL") THEN Result(sc, FALSE)
    ELSE IF ~HasLinks(sc, arg) THEN Result([sc EXCEPT !.fault = TRUE], FALSE)
    ELSE LET value == Exec(sc, Car(sc, arg))
             bound == ScopeAdd(value.sc, sc.nodes[Car(sc, param)].name, value.v)
         IN  BindParams(bound, Cdr(sc, param), Cdr(sc, arg))

\* Mutant: the arguments are not bound in a level of their own.
ExecFunctionFlat(sc, method, args) ==
    LET m     == sc.nodes[method]
        bound == BindParams(sc, m.p1, args)
    IN  IF m.name # NoBuiltin THEN Call(m.name, sc, args)
        ELSE IF bound.v THEN Exec(bound.sc, m.p2)
        ELSE Leave(bound.sc)

ExecFunction(sc, method, args) ==
    LET m     == sc.nodes[method]
        bound == BindParams(ScopeIn(sc), m.p1, args)
        ret   == Exec(bound.sc, m.p2)
    IN  IF m.name # NoBuiltin THEN Call(m.name, sc, args)
        ELSE IF bound.v THEN Result(ScopeOut(ret.sc), ret.v)
        ELSE Leave(bound.sc)

-----------------------------------------------------------------------------
(* The builtins (methods.c).  The checks PNULL and TCHECK return NULL alike: *)
(* a null pointer has no type.  read and exec, which open files, are left    *)
(* out.                                                                      *)

RECURSIVE HasArgs(_, _, _), Arg(_, _, _)

\* The first k cells of the list args are pairs; the k-th argument.
HasArgs(sc, args, k) == k = 0 \/ (IsPair(sc, args) /\ HasArgs(sc, Cdr(sc, args), k - 1))
Arg(sc, args, k)     == IF k = 1 THEN Car(sc, args) ELSE Arg(sc, Cdr(sc, args), k - 1)

RECURSIVE EvalAll(_, _, _, _, _)

\* The loops over the arguments of +, -, *, /, and, or and string-append: stop
\* behind a value in stops; ok tells that every argument had the type.
EvalAll(sc, args, type, stops, seen) ==
    LET arg == Exec(sc, Car(sc, args))
        val == arg.sc.nodes[arg.v].num
    IN  IF args = NULL THEN [sc |-> sc, ok |-> TRUE, seen |-> seen]
        ELSE IF ~IsPair(sc, args) THEN [sc |-> sc, ok |-> FALSE, seen |-> seen]
        ELSE IF ~IsType(arg.sc, arg.v, type) THEN [sc |-> arg.sc, ok |-> FALSE, seen |-> seen]
        ELSE IF val \in stops THEN [sc |-> arg.sc, ok |-> TRUE, seen |-> Append(seen, val)]
        ELSE EvalAll(arg.sc, Cdr(sc, args), type, stops, Append(seen, val))

\* method_add, method_mul, method_sub, method_div.
Arith(name, sc, args) ==
    LET ret == Alloc(sc, Number(0))
        all == EvalAll(ret.sc, args, "INT", {}, <<>>)
        num == CASE name = "+" -> FoldLeft(LAMBDA a, b : (a + b) % WORD, 0, all.seen)
                 [] name = "*" -> FoldLeft(LAMBDA a, b : (a * b) % WORD, 1, all.seen)
                 [] name = "-" -> FoldLeft(LAMBDA a, b : (a - b) % WORD,
                                           Head(all.seen), Tail(all.seen))
                 [] name = "/" -> FoldLeft(LAMBDA a, b : a \div b,
                                           Head(all.seen), Tail(all.seen))
    IN  IF args = NULL /\ name \in {"-", "/"} THEN Nothing(ret.sc)
        ELSE IF name = "/" /\ \E i \in 2 .. Len(all.seen) : all.seen[i] = 0 THEN Fault(all.sc)
        ELSE IF ~all.ok THEN Nothing(all.sc)
        ELSE Put(Result(all.sc, ret.v), Number(num))

\* method_and, method_or: stop at the first argument that decides.
Junction(name, sc, args) ==
    LET ret   == Alloc(sc, Number(0))
        stops == IF name = "and" THEN {0} ELSE 1 .. WORD - 1
        all   == EvalAll(ret.sc, args, "INT", stops, <<>>)
        met   == \E i \in DOMAIN all.seen : all.seen[i] \in stops
    IN  IF all.ok THEN Put(Result(all.sc, ret.v), Bool(met <=> name = "or"))
        ELSE Nothing(all.sc)

\* method_not.
Not(sc, args) ==
    LET arg == Exec(sc, Arg(sc, args, 1))
    IN  IF HasArgs(sc, args, 1)
        THEN IF IsType(arg.sc, arg.v, "INT")
             THEN Alloc(arg.sc, Bool(arg.sc.nodes[arg.v].num = 0))
             ELSE Nothing(arg.sc)
        ELSE Nothing(sc)

\* method_l, method_g, method_le, method_ge, method_ne; method_eq, which does
\* not evaluate the second argument when the first has no value, and allocates
\* its result before it looks at the types.
Compare(name, sc, args) ==
    LET a   == Exec(sc, Arg(sc, args, 1))
        b   == Exec(a.sc, Arg(sc, args, 2))
        x   == b.sc.nodes[a.v].num
        y   == b.sc.nodes[b.v].num
        ret == Alloc(b.sc, Number(0))
    IN  IF ~HasArgs(sc, args, 2) THEN Nothing(sc)
        ELSE IF name = "=" /\ a.v = NULL THEN Nothing(a.sc)
        ELSE IF ~IsType(b.sc, a.v, "INT") \/ ~IsType(b.sc, b.v, "INT")
        THEN Nothing(IF name = "=" /\ b.v # NULL THEN ret.sc ELSE b.sc)
        ELSE Put(ret, Bool(CASE name = "=" -> x = y   [] name = "/=" -> x # y
                             [] name = "<" -> x < y   [] name = ">"  -> x > y
                             [] name = "<=" -> x <= y [] name = ">=" -> x >= y))

\* method_if.
If(sc, args) ==
    LET cond == Exec(sc, Arg(sc, args, 1))
        then == cond.sc.nodes[cond.v].num # 0
    IN  IF ~HasArgs(sc, args, 3) THEN Nothing(sc)
        ELSE IF ~IsType(cond.sc, cond.v, "INT") THEN Nothing(cond.sc)
        ELSE Exec(cond.sc, Arg(sc, args, IF then THEN 2 ELSE 3))

\* method_define: a name with a value, or a name with parameters.
Define(sc, args) ==
    LET target == Arg(sc, args, 1)
        value  == Exec(sc, Arg(sc, args, 2))
        name   == Car(sc, target)
        exe    == Alloc(sc, Lambda(Cdr(sc, target), Arg(sc, args, 2)))
    IN  IF ~HasArgs(sc, args, 2) THEN Nothing(sc)
        ELSE IF IsType(sc, target, "SYMBOL")
        THEN Result(ScopeAdd(value.sc, sc.nodes[target].name, value.v), value.v)
        ELSE IF IsPair(sc, target) /\ IsType(sc, name, "SYMBOL")
        THEN Nothing(ScopeAdd(exe.sc, sc.nodes[name].name, exe.v))
        ELSE Nothing(sc)

\* method_lambda.
MakeLambda(sc, args) ==
    IF HasArgs(sc, args, 2) /\ IsPair(sc, Arg(sc, args, 1))
    THEN Alloc(sc, Lambda(Arg(sc, args, 1), Arg(sc, args, 2)))
    ELSE Nothing(sc)

\* method_display: the value is evaluated and printed, nothing is returned.
Display(sc, args) ==
    IF HasArgs(sc, args, 1) THEN Nothing(Exec(sc, Arg(sc, args, 1)).sc) ELSE Nothing(sc)

\* method_string_append.
StringAppend(sc, args) ==
    LET all == EvalAll(sc, args, "STRING", {}, <<>>)
    IN  IF args = NULL THEN Nothing(sc)
        ELSE IF all.ok THEN Alloc(all.sc, Str)
        ELSE Nothing(all.sc)

\* method_int_to_string.
IntToString(sc, args) ==
    LET arg == Exec(sc, Arg(sc, args, 1))
    IN  IF ~HasArgs(sc, args, 1) THEN Nothing(sc)
        ELSE IF IsType(arg.sc, arg.v, "INT") THEN Alloc(arg.sc, Str)
        ELSE Nothing(arg.sc)

RECURSIVE BindLet(_, _)

\* The loop of method_let; the value tells whether it came through.
BindLet(sc, bindings) ==
    LET pair  == Car(sc, bindings)
        key   == Car(sc, pair)
        value == Exec(sc, Arg(sc, pair, 2))
    IN  IF bindings = NULL THEN Result(sc, TRUE)
        ELSE IF ~IsPair(sc, bindings) \/ ~HasArgs(sc, pair, 2) THEN Result(sc, FALSE)
        ELSE IF ~IsType(sc, key, "SYMBOL") /\ ~IsType(sc, key, "QUOTE_SYMBOL")
        THEN Result([sc EXCEPT !.fault = TRUE], FALSE)
        ELSE BindLet(ScopeAdd(value.sc, sc.nodes[key].name, value.v), Cdr(sc, bindings))

\* method_let.
Let(sc, args) ==
    LET bound == BindLet(ScopeIn(sc), Arg(sc, args, 1))
        res   == Exec(bound.sc, Arg(sc, args, 2))
    IN  IF ~HasArgs(sc, args, 2) THEN Nothing(sc)
        ELSE IF bound.v THEN Result(ScopeOut(res.sc), res.v)
        ELSE Leave(bound.sc)

RECURSIVE ApplyAll(_, _, _, _), MapAll(_, _, _), EvalList(_, _)
RECURSIVE QuoteNode(_, _), UnquoteNode(_, _), RangeList(_, _, _)

\* The loop of method_apply: method(carry, element), element by element.
ApplyAll(sc, method, carry, data) ==
    LET second == Alloc(sc, Pair(Car(sc, data), NULL))
        first  == Alloc(second.sc, Pair(carry, second.v))
        call   == Alloc(first.sc, Pair(method, first.v))
        next   == Exec(call.sc, call.v)
    IN  IF data = NULL THEN Result(sc, carry)
        ELSE IF ~HasLinks(sc, data) THEN Fault(sc)
        ELSE ApplyAll(next.sc, method, next.v, Cdr(sc, data))

\* method_apply: neither the arguments nor their values are checked.
Apply(sc, args) ==
    LET method == Exec(sc, Car(sc, args))
        data   == Exec(method.sc, Car(sc, Cdr(sc, args)))
    IN  IF ~HasLinks(sc, args) \/ ~HasLinks(sc, Cdr(sc, args)) THEN Fault(sc)
        ELSE IF ~HasLinks(data.sc, data.v) THEN Fault(data.sc)
        ELSE ApplyAll(data.sc, method.v, Car(data.sc, data.v), Cdr(data.sc, data.v))

\* recursive_map: a list of plain pairs.
MapAll(sc, method, args) ==
    LET ret   == Alloc(sc, Blank)
        call  == Alloc(ret.sc, Pair(method, NULL))
        cell  == Alloc(call.sc, Pair(Car(sc, args), NULL))
        first == Exec(Put(Result(cell.sc, call.v), Pair(method, cell.v)).sc, call.v)
        rest  == MapAll(first.sc, method, Cdr(sc, args))
    IN  IF args = NULL THEN Nothing(sc)
        ELSE IF ~IsType(sc, args, "QUOTE_PAIR") THEN Nothing(call.sc)
        ELSE Put(Result(rest.sc, ret.v), Pair(first.v, rest.v))

\* method_map.
Map(sc, args) ==
    LET method == Exec(sc, Arg(sc, args, 1))
        data   == Exec(method.sc, Arg(sc, args, 2))
    IN  IF ~HasArgs(sc, args, 1) THEN Nothing(sc)
        ELSE IF ~HasArgs(sc, args, 2) THEN Nothing(method.sc)
        ELSE MapAll(data.sc, method.v, data.v)

\* method_list: past the first cell nothing is checked.
EvalList(sc, args) ==
    LET ret   == Alloc(sc, Quoted(NULL, NULL))
        first == Exec(ret.sc, Car(sc, args))
        cell  == Result(first.sc, ret.v)
        rest  == EvalList(Put(cell, Quoted(first.v, NULL)).sc, Cdr(sc, args))
    IN  IF Cdr(sc, args) = NULL THEN Put(cell, Quoted(first.v, NULL))
        ELSE IF ~HasLinks(sc, Cdr(sc, args)) THEN Fault(first.sc)
        ELSE Put(Result(rest.sc, ret.v), Quoted(first.v, rest.v))

List(sc, args) == IF HasArgs(sc, args, 1) THEN EvalList(sc, args) ELSE Nothing(sc)

\* method_car, method_cdr: the part is evaluated once more.
Part(name, sc, args) ==
    LET arg == Exec(sc, Arg(sc, args, 1))
    IN  IF ~HasArgs(sc, args, 1) THEN Nothing(sc)
        ELSE IF ~IsType(arg.sc, arg.v, "QUOTE_PAIR") THEN Nothing(arg.sc)
        ELSE Exec(arg.sc, IF name = "car" THEN Car(arg.sc, arg.v) ELSE Cdr(arg.sc, arg.v))

\* _method_quote: a copy with quoted pairs and symbols, that shares the rest.
QuoteNode(sc, n) ==
    LET ret == Alloc(sc, Quoted(NULL, NULL))
        p1  == QuoteNode(ret.sc, Car(sc, n))
        p2  == QuoteNode(p1.sc, Cdr(sc, n))
    IN  IF IsPair(sc, n) THEN Put(Result(p2.sc, ret.v), Quoted(p1.v, p2.v))
        ELSE IF IsType(sc, n, "SYMBOL")
        THEN Alloc(sc, Text("QUOTE_SYMBOL", sc.nodes[n].name))
        ELSE Result(sc, n)

Quote(sc, args) ==
    IF HasArgs(sc, args, 1) THEN QuoteNode(sc, Arg(sc, args, 1)) ELSE Nothing(sc)

\* _method_unquote: the reverse, every pair is evaluated as soon as it is built.
UnquoteNode(sc, n) ==
    LET ret == Alloc(sc, Blank)
        p1  == UnquoteNode(ret.sc, Car(sc, n))
        p2  == UnquoteNode(p1.sc, Cdr(sc, n))
        sym == Alloc(sc, Text("SYMBOL", sc.nodes[n].name))
    IN  IF IsType(sc, n, "QUOTE_PAIR")
        THEN Exec(Put(Result(p2.sc, ret.v), Pair(p1.v, p2.v)).sc, ret.v)
        ELSE IF IsType(sc, n, "QUOTE_SYMBOL") THEN Exec(sym.sc, sym.v)
        ELSE Exec(sc, n)

Unquote(sc, args) ==
    LET arg == Exec(sc, Arg(sc, args, 1))
    IN  IF HasArgs(sc, args, 1) THEN UnquoteNode(arg.sc, arg.v) ELSE Nothing(sc)

\* _method_range: begin, begin + 1, ... until end is met.
RangeList(sc, begin, end) ==
    LET ret   == Alloc(sc, Quoted(NULL, NULL))
        first == Alloc(ret.sc, Number(begin))
        rest  == RangeList(first.sc, begin + 1, end)
    IN  IF begin = end THEN Nothing(sc)
        ELSE Put(Result(rest.sc, ret.v), Quoted(first.v, rest.v))

\* method_range takes two literal numbers; from above the end it would allocate
\* until the numbers have wrapped.
RangeOf(sc, args) ==
    LET begin == Arg(sc, args, 1)
        end   == Arg(sc, args, 2)
    IN  IF ~HasArgs(sc, args, 2) \/ ~IsType(sc, begin, "INT") \/ ~IsType(sc, end, "INT")
        THEN Nothing(sc)
        ELSE IF sc.nodes[begin].num > sc.nodes[end].num THEN Fault(sc)
        ELSE RangeList(sc, sc.nodes[begin].num, sc.nodes[end].num)

Call(name, sc, args) ==
    CASE name \in {"+", "-", "*", "/"} -> Arith(name, sc, args)
      [] name \in {"and", "or"}        -> Junction(name, sc, args)
      [] name \in {"=", "/=", "<", ">", "<=", ">="} -> Compare(name, sc, args)
      [] name \in {"car", "cdr"}       -> Part(name, sc, args)
      [] name = "not"           -> Not(sc, args)
      [] name = "if"            -> If(sc, args)
      [] name = "define"        -> Define(sc, args)
      [] name = "lambda"        -> MakeLambda(sc, args)
      [] name = "display"       -> Display(sc, args)
      [] name = "string-append" -> StringAppend(sc, args)
      [] name = "int->string"   -> IntToString(sc, args)
      [] name = "let"           -> Let(sc, args)
      [] name = "apply"         -> Apply(sc, args)
      [] name = "map"           -> Map(sc, args)
      [] name = "list"          -> List(sc, args)
      [] name = "quote"         -> Quote(sc, args)
      [] name = "unquote"       -> Unquote(sc, args)
      [] name = "range"         -> RangeOf(sc, args)

-----------------------------------------------------------------------------
(* scope_init and scope_exec. *)

\* The scope before anything is in it.
NoScope ==
    [data |-> [b \in Bucket |-> <<>>], level |-> 0, nodes |-> <<>>,
     marked |-> {}, depth |-> 0, fault |-> FALSE, leaks |-> 0]

\* scope_init with scope_add_methods; the order of the builtins in a bucket is
\* the order they are added in.
ScopeInit ==
    FoldLeft(LAMBDA sc, name :
                     LET method == Alloc(sc, Text("METHOD", name))
                     IN  ScopeAdd(method.sc, name, method.v),
             NoScope, Builtins)

\* What output tells of a value: its type, and the number of a number.
Shown(sc, n) ==
    IF n = NULL THEN [type |-> "NULL", num |-> 0]
    ELSE [type |-> sc.nodes[n].type,
          num  |-> IF sc.nodes[n].type = "INT" THEN sc.nodes[n].num ELSE 0]

RECURSIVE ExecAll(_, _, _)

\* The loop of scope_exec over the values on the line.
ExecAll(sc, c, shown) ==
    LET res == Exec([sc EXCEPT !.depth = 0], Car(sc, c))
    IN  IF c = NULL THEN [sc |-> sc, shown |-> shown]
        ELSE ExecAll(res.sc, Cdr(sc, c), Append(shown, Shown(res.sc, res.v)))

\* scope_exec of a line that has been converted, and the collection at its end.
Executed(sc, code)  == LET c == Load(sc, code) IN ExecAll(c.sc, c.v, <<>>)
ScopeExec(sc, code) == LET all == Executed(sc, code)
                       IN  [sc |-> ScopeGc(all.sc), shown |-> all.shown]
=============================================================================
