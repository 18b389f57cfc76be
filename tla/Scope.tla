------------------------------- MODULE Scope -------------------------------
(***************************************************************************)
(* The symbol table of the lisp: struct Scope and its entries              *)
(* (src/usr/lisp/scope.c, scope.h).                                        *)
(*                                                                         *)
(* A scope is a record with the fields data, the buckets, and level, among *)
(* others (module Evaluator adds the nodes).  The chain of a bucket is the *)
(* sequence of its entries, newest first.                                  *)
(***************************************************************************)
EXTENDS Naturals, Sequences, SequencesExt

CONSTANTS
    Bucket,      \* 0 .. SCOPE_TABLES - 1
    BucketOf     \* pjw_hash(name) % SCOPE_TABLES

ASSUME ScopeAssumption == \A name \in DOMAIN BucketOf : BucketOf[name] \in Bucket

NoEntry == [name |-> "", node |-> 0, level |-> 0]

ScopeIn(scope) == [scope EXCEPT !.level = @ + 1]

\* Mutant: the entry is hung in at the end of the chain.
ScopeAddLast(scope, name, node) ==
    [scope EXCEPT !.data[BucketOf[name]] =
        Append(@, [name |-> name, node |-> node, level |-> scope.level])]

\* scope_add: a new entry hides older ones of its name, it replaces none.
ScopeAdd(scope, name, node) ==
    [scope EXCEPT !.data[BucketOf[name]] =
        <<[name |-> name, node |-> node, level |-> scope.level]>> \o @]

\* Mutant: the entries of the level itself stay.
RemainingOwn(chain, level) ==
    LET first == SelectInSeq(chain, LAMBDA e : e.level <= level)
    IN  IF first = 0 THEN <<>> ELSE SubSeq(chain, first, Len(chain))

\* scope_recursively_delete frees entries from the front of a chain up to the
\* first one below the level.
Remaining(chain, level) ==
    LET first == SelectInSeq(chain, LAMBDA e : e.level < level)
    IN  IF first = 0 THEN <<>> ELSE SubSeq(chain, first, Len(chain))

\* Mutants: the level stays; entries of the level below are deleted as well.
ScopeOutStays(scope) ==
    [scope EXCEPT !.data = [b \in Bucket |-> Remaining(@[b], scope.level)]]
ScopeOutDeep(scope) ==
    [scope EXCEPT !.data = [b \in Bucket |-> Remaining(@[b], scope.level - 1)],
                  !.level = @ - 1]

ScopeOut(scope) ==
    [scope EXCEPT !.data = [b \in Bucket |-> Remaining(@[b], scope.level)],
                  !.level = @ - 1]

\* scope_lookup: the newest entry with the name.
ScopeLookup(scope, name) ==
    LET chain == scope.data[BucketOf[name]]
        found == SelectInSeq(chain, LAMBDA e : e.name = name)
    IN  IF found = 0 THEN NoEntry ELSE chain[found]
=============================================================================
