-------------------------------- MODULE Lisp --------------------------------
(***************************************************************************)
(* The loop of the lisp shell (src/usr/lisp/main.c) around scope_exec: one *)
(* step is one line typed, parsed, executed and printed, and the           *)
(* collection that follows.                                                *)
(***************************************************************************)
EXTENDS Evaluator

CONSTANTS
    Lines,       \* what may be typed: parsed and converted lines
    Locals,      \* names the lines bind inside functions and let only
    MaxEntries,  \* bound: entries besides those of the builtins
    MaxLeaks     \* bound: levels that are never left

VARIABLE scope   \* the struct Scope of main, with its nodes

EntryCount(sc) == FoldSet(LAMBDA b, n : n + Len(sc.data[b]), 0, Bucket)

Init == scope = ScopeInit

\* A line the code survives.
Enter(line) ==
    \E done \in {ScopeExec(scope, line).sc} :
        /\ ~scope.fault /\ ~done.fault
        /\ EntryCount(done) <= Len(Builtins) + MaxEntries
        /\ done.leaks <= MaxLeaks
        /\ scope' = done

\* A line at which it reads through a wild pointer or divides by zero: what
\* the processor and the kernel do then is not followed.
Crash(line) ==
    /\ ~scope.fault /\ ScopeExec(scope, line).sc.fault
    /\ scope' = [scope EXCEPT !.fault = TRUE]

Next == \E line \in Lines : Enter(line) \/ Crash(line)

Spec == Init /\ [][Next]_scope

-----------------------------------------------------------------------------
\* The types of the scope's parts: every entry is in the bucket of its name.
TypeOK ==
    /\ scope.level \in Nat /\ scope.leaks \in Nat
    /\ scope.depth = 0 /\ scope.marked = {}
    /\ \A b \in Bucket : \A i \in DOMAIN scope.data[b] :
           BucketOf[scope.data[b][i].name] = b

\* scope_gc frees what no entry leads to and nothing else: between two lines
\* the allocated nodes are exactly those that the entries lead to, however
\* they are shared.
CollectorExact == DOMAIN scope.nodes = Reachable(scope)

\* Every level that is entered is left, except by the early returns between
\* scope_in and scope_out, and an entry of a level that was left is gone.
LevelLedger ==
    /\ scope.level = scope.leaks
    /\ \A e \in Entries(scope) : e.level <= scope.level

\* scope_recursively_delete stops at the first entry below the level, so the
\* entries of a bucket have to be sorted by level.
BucketsSorted ==
    \A b \in Bucket : \A i, j \in DOMAIN scope.data[b] :
        i < j => scope.data[b][i].level >= scope.data[b][j].level

\* What a line leaves to scope_gc has no wild pointers and no cycles, on which
\* marking would never end; nor has what scope_gc leaves to the next line.
Collectable ==
    /\ StoreSound(scope)
    /\ \A line \in Lines : \A done \in {Executed(scope, line).sc} :
           scope.fault \/ done.fault \/ StoreSound(done)

\* The scope between two lines, as the next line relies on it.
ScopeSound == TypeOK /\ LevelLedger /\ BucketsSorted /\ Collectable

\* Neither calls nor errors remove a definition made at the prompt.
Kept(chain) == SelectSeq(chain, LAMBDA e : e.level = 0)
GlobalsKept ==
    [][\A b \in Bucket : IsSuffix(Kept(scope.data[b]), Kept(scope'.data[b]))]_scope

\* A line that leaks no level changes the scope by its definitions only, and
\* those are of the level of the prompt: parameters, what let binds, what is
\* defined inside a function and every temporary node are gone, and no old
\* entry or node has changed, also when the recursion limit was met.
LeavesNoTrace ==
    [][~scope'.fault /\ scope'.leaks = scope.leaks =>
          /\ scope'.level = scope.level
          /\ \A b \in Bucket :
                LET old == scope.data[b]
                    new == scope'.data[b]
                IN  /\ IsSuffix(old, new)
                    /\ \A i \in 1 .. Len(new) - Len(old) :
                          new[i].level = scope.level /\ new[i].name \notin Locals
          /\ \A n \in DOMAIN scope.nodes : scope'.nodes[n] = scope.nodes[n]]_scope
=============================================================================
