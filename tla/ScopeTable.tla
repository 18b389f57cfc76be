---------------------------- MODULE ScopeTable ----------------------------
(***************************************************************************)
(* struct Scope as its callers drive it: scope_in, scope_add and scope_out *)
(* in any order in which no level is left that was not entered             *)
(* (src/usr/lisp/scope.c; the callers are in exe.c and methods.c).         *)
(***************************************************************************)
EXTENDS Scope

CONSTANTS
    Name,        \* the names in use, none of them empty
    Value,       \* pointers to nodes; NULL is one, when an expression has no value
    Unbound,     \* the meaning of a name that is not in the table
    MaxLevel,    \* bound: the level
    MaxEntries   \* bound: entries in a bucket

ASSUME ScopeTableAssumption ==
    /\ Name \subseteq DOMAIN BucketOf /\ NoEntry.name \notin Name
    /\ Unbound \notin Value
    /\ MaxLevel \in Nat /\ MaxEntries \in Nat

VARIABLE scope

Init == scope = [data |-> [b \in Bucket |-> <<>>], level |-> 0]

In ==
    /\ scope.level < MaxLevel
    /\ scope' = ScopeIn(scope)

Add(name, node) ==
    /\ Len(scope.data[BucketOf[name]]) < MaxEntries
    /\ scope' = ScopeAdd(scope, name, node)

Out ==
    /\ scope.level > 0
    /\ scope' = ScopeOut(scope)

Next == In \/ Out \/ \E name \in Name, node \in Value : Add(name, node)

Spec == Init /\ [][Next]_scope

-----------------------------------------------------------------------------
Entry == [name : Name, node : Value, level : 0 .. MaxLevel]

Table == [data : [Bucket -> Seq(Entry)], level : 0 .. MaxLevel]

TypeOK == scope \in Table

Sorted(chain) ==
    \A i, j \in DOMAIN chain : i < j => chain[i].level >= chain[j].level

UpTo(chain, level) == \A i \in DOMAIN chain : chain[i].level <= level

\* scope_recursively_delete stops at the first entry below the level, so the
\* entries of a bucket have to be sorted by level, newest level first.
BucketsSorted == \A b \in Bucket : Sorted(scope.data[b])

\* No entry outlives its level: nothing is above the current one.
NothingAbove == \A b \in Bucket : UpTo(scope.data[b], scope.level)

\* What scope_out and scope_lookup rely on in every bucket.
ChainsSound == BucketsSorted /\ NothingAbove

\* The newest entry of the name that was made in the level, 0 if there is none.
Position(chain, name, level) ==
    SelectInSeq(chain, LAMBDA e : e.name = name /\ e.level = level)

Bound(chain, name, level) ==
    LET i == Position(chain, name, level)
    IN  IF i = 0 THEN Unbound ELSE chain[i].node

FramesOf(table) ==
    [i \in 1 .. table.level + 1 |->
        [name \in Name |-> Bound(table.data[BucketOf[name]], name, i - 1)]]

Stack == INSTANCE Frames WITH frames <- FramesOf(scope)

\* The table implements a stack of frames, although the frames of all levels
\* share the buckets and names of one bucket are mixed in its chain.
ImplementsFrames == Stack!Spec

\* scope_lookup finds what the innermost frame says.
LookupRight ==
    \A name \in Name :
        LET found == ScopeLookup(scope, name)
        IN  Stack!Meaning(name) = IF found = NoEntry THEN Unbound ELSE found.node
=============================================================================
