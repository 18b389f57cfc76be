------------------------------- MODULE Nodes -------------------------------
(***************************************************************************)
(* The lisp's nodes: scope_kmalloc and the collector                       *)
(* (src/usr/lisp/scope.c).                                                 *)
(*                                                                         *)
(* A pointer to a struct ASTNode is a number, NULL is 0.  The scope        *)
(* carries, besides the symbol table,                                      *)
(*     nodes   the allocated nodes, which are also scope->nodes            *)
(*     marked  the nodes whose gc_mark is set                              *)
(* Recursion is written as recursive functions, whose value is only known  *)
(* where the recursion ends.                                               *)
(***************************************************************************)
EXTENDS Scope, FiniteSets, TLC

NULL == 0
NoBuiltin == ""

\* struct ASTNode: p1 and p2 are also the params and the node of a method, which
\* overlay them; num of a number; name is a text, or the builtin of a method.
Node(type, p1, p2) == [type |-> type, p1 |-> p1, p2 |-> p2, num |-> 0, name |-> NoBuiltin]

Result(sc, v) == [sc |-> sc, v |-> v]

\* scope_kmalloc, and the fields the caller fills in.
Alloc(sc, node) ==
    LET used  == DOMAIN sc.nodes
        fresh == CHOOSE n \in 1 .. Cardinality(used) + 1 : n \notin used
    IN  Result([sc EXCEPT !.nodes = [n \in DOMAIN @ \union {fresh} |->
                                         IF n \in DOMAIN @ THEN @[n] ELSE node]], fresh)

\* The fields of the node returned, filled in later.
Put(r, node) == [r EXCEPT !.sc.nodes[r.v] = node]

\* What p1 and p2 of the node can be followed to: its successors.  In a number
\* or a text the memory of p1 is no pointer to a node.
Linked == {"PAIR", "QUOTE_PAIR", "METHOD"}
HasLinks(sc, n) == n # NULL /\ sc.nodes[n].type \in Linked

\* Mutant: the parameter list of a method is not marked.
MarkNodeNoParams(nodes, node) ==
    LET mark[n \in DOMAIN nodes \union {NULL}] ==
            IF n = NULL THEN {}
            ELSE {n} \union (IF nodes[n].type \in Linked \ {"METHOD"}
                             THEN mark[nodes[n].p1] ELSE {})
                     \union (IF nodes[n].type \in Linked THEN mark[nodes[n].p2] ELSE {})
    IN  mark[node]

\* scope_gc_mark_node: what it marks.  It sets marks and looks at none.
MarkNode(nodes, node) ==
    LET mark[n \in DOMAIN nodes \union {NULL}] ==
            IF n = NULL THEN {}
            ELSE {n} \union (IF nodes[n].type \in Linked
                             THEN mark[nodes[n].p1] \union mark[nodes[n].p2] ELSE {})
    IN  mark[node]

\* scope_gc, mark: from every entry of every bucket.
Entries(sc) == UNION {{sc.data[b][i] : i \in DOMAIN sc.data[b]} : b \in Bucket}
Marked(sc)  == sc.marked \union UNION {MarkNode(sc.nodes, e.node) : e \in Entries(sc)}

\* scope_gc: mark, free what is not marked, reset the marks.
ScopeGc(sc) ==
    LET marked == Marked(sc)
    IN  [sc EXCEPT !.nodes = [n \in DOMAIN @ \intersect marked |-> @[n]],
                   !.marked = {}]
-----------------------------------------------------------------------------
Successors(sc, n) ==
    IF HasLinks(sc, n) THEN {sc.nodes[n].p1, sc.nodes[n].p2} \ {NULL} ELSE {}

\* What the nodes of a set lead to, in any number of steps.
Closure(sc, set) ==
    LET closure[S \in SUBSET Nat] ==
            LET more == S \union UNION {Successors(sc, n) : n \in S \intersect DOMAIN sc.nodes}
            IN  IF more = S THEN S ELSE closure[more]
    IN  closure[set]

Roots(sc)     == {e.node : e \in Entries(sc)} \ {NULL}
Reachable(sc) == Closure(sc, Roots(sc))

\* No pointer dangles, and no node leads back to itself: scope_gc_mark_node, which
\* does not look whether a node is marked, comes to an end.
NoDangling(sc) == /\ Roots(sc) \subseteq DOMAIN sc.nodes
                  /\ \A n \in DOMAIN sc.nodes : Successors(sc, n) \subseteq DOMAIN sc.nodes
NoCycle(sc)    == \A n \in DOMAIN sc.nodes : n \notin Closure(sc, Successors(sc, n))
StoreSound(sc) == NoDangling(sc) /\ NoCycle(sc)
=============================================================================
