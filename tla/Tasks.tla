------------------------------- MODULE Tasks -------------------------------
(***************************************************************************)
(* The list of tasks: fork, join and switch_task (src/src/task.s) with     *)
(* move_stack, incr_task and delete_task (task.c).                         *)
(*                                                                         *)
(* The assembly turns interrupts off, but kmalloc and kfree start with     *)
(* lock, which turns them on again: from the first call of either on, fork *)
(* and delete_task are preempted like any other code.  delete_task runs on *)
(* the stack of the task that incr_task found, on top of whatever that     *)
(* task was doing, so what a task is doing is a stack of calls.            *)
(*                                                                         *)
(* Ages are left to Sched: here incr_task may pass over a deprioritized    *)
(* task or stop at it, and stops at the first task of priority 0.          *)
(* kmalloc returns any block that is not allocated.                        *)
(*                                                                         *)
(* members and why are history variables: the tasks forked and not joined, *)
(* and which of the code's assumptions has failed.                         *)
(***************************************************************************)
EXTENDS Naturals, Sequences, FiniteSets, Mutex

CONSTANTS
    Slots,       \* addresses of struct Task
    Root,        \* root_task, which is not on the heap
    Stacks,      \* addresses of stacks
    NULL,
    MaxForks     \* bound: calls of fork in a run

ASSUME SlotsAssumption == /\ IsFiniteSet(Slots) /\ Root \in Slots
                          /\ NULL \notin Slots \union Stacks

VARIABLES
    current,     \* current_task
    to_del,
    next, prev, stack,      \* fields of struct Task
    low,         \* the tasks with priority 15
    structs, stacks,        \* what is allocated, root_task included
    malloc_mtx,
    calls,       \* per task, the calls it is in, innermost last
    forks, members, why,
    status       \* "ok", or what the machine ran into

fields == <<next, prev, stack>>
heap   == <<structs, stacks>>
vars   == <<current, to_del, fields, low, heap, malloc_mtx, calls, forks, members, why,
            status>>

\* A call: where it is, and its locals: a task, a stack, and who has joined.
InFork   == {"want_task", "take_task", "want_stack", "take_stack", "read_next", "write_next"}
Filling  == InFork \ {"want_task", "take_task"}
InDelete == {"want_free_stack", "free_stack", "read_to_del", "want_free_task", "free_task"}
Call(at, task, stk, who) == [at |-> at, task |-> task, stack |-> stk, who |-> who]
Running == Call("run", NULL, NULL, NULL)

\* task_init
Init == /\ current = Root
        /\ to_del = NULL
        /\ next = [s \in Slots |-> Root] /\ prev = [s \in Slots |-> Root]
        /\ stack = [s \in Slots |-> NULL]
        /\ low = {}
        /\ structs = {Root} /\ stacks = {}
        /\ malloc_mtx = Free
        /\ calls = [s \in Slots |-> IF s = Root THEN <<Running>> ELSE <<>>]
        /\ forks = 0 /\ members = {Root} /\ why = {}
        /\ status = "ok"

Top(t)   == calls[t][Len(calls[t])]
At(t, l) == status = "ok" /\ current = t /\ calls[t] # <<>> /\ Top(t).at = l

\* The innermost call goes on as c; it returns.
GoOn(t, c) == calls' = [calls EXCEPT ![t][Len(calls[t])] = c]
PopCall(t) == calls' = [calls EXCEPT ![t] = SubSeq(@, 1, Len(@) - 1)]

Halt(reason) == /\ status' = reason
                /\ UNCHANGED <<current, to_del, fields, low, heap, malloc_mtx, calls, forks,
                               members, why>>

-----------------------------------------------------------------------------
(* lock, on the way into kmalloc and kfree. *)

Waiting == {"want_task", "want_stack", "want_free_stack", "want_free_task"}
Inside(at) == CASE at = "want_task"       -> "take_task"
                [] at = "want_stack"      -> "take_stack"
                [] at = "want_free_stack" -> "free_stack"
                [] at = "want_free_task"  -> "free_task"

\* The priority is lowered when the wait begins, in the step that leads here.
LockWon(t) == \E at \in Waiting :
    /\ At(t, at)
    /\ Lock(malloc_mtx)
    /\ low' = low \ {t}
    /\ GoOn(t, [Top(t) EXCEPT !.at = Inside(at)])
    /\ UNCHANGED <<current, to_del, fields, heap, forks, members, why, status>>

-----------------------------------------------------------------------------
(* fork: move_stack. *)

\* Bound: a fork starts only while the heap has a block for it and for those
\* in progress.
Forking == {t \in Slots : \E i \in DOMAIN calls[t] :
                              calls[t][i].at \in {"want_task", "take_task"}}
StackDue == {t \in Slots : \E i \in DOMAIN calls[t] :
                              calls[t][i].at \in {"want_stack", "take_stack"}}
HeapHasRoom ==
    /\ Cardinality(structs) + Cardinality(Forking) < Cardinality(Slots)
    /\ Cardinality(stacks) + Cardinality(Forking \union StackDue) < Cardinality(Stacks)

Fork(t) == /\ forks < MaxForks /\ HeapHasRoom
           /\ At(t, "run")
           /\ forks' = forks + 1
           /\ low' = low \union {t}
           /\ GoOn(t, Call("want_task", NULL, NULL, NULL))
           /\ UNCHANGED <<current, to_del, fields, heap, malloc_mtx, members, why, status>>

\* Mutant: the block found is not marked as used.
TakeTaskUnmarked(t) == \E s \in Slots \ structs :
    /\ At(t, "take_task")
    /\ Unlock(malloc_mtx)
    /\ low' = low \union {t}
    /\ GoOn(t, Call("want_stack", s, NULL, NULL))
    /\ UNCHANGED <<current, to_del, fields, heap, forks, members, why, status>>

TakeTask(t) == \E s \in Slots \ structs :
    /\ At(t, "take_task")
    /\ structs' = structs \union {s}
    /\ Unlock(malloc_mtx)
    /\ low' = low \union {t}
    /\ GoOn(t, Call("want_stack", s, NULL, NULL))
    /\ UNCHANGED <<current, to_del, fields, stacks, forks, members, why, status>>

TakeStack(t) == \E k \in Stacks \ stacks :
    /\ At(t, "take_stack")
    /\ stacks' = stacks \union {k}
    /\ Unlock(malloc_mtx)
    /\ GoOn(t, Call("read_next", Top(t).task, k, NULL))
    /\ UNCHANGED <<current, to_del, fields, low, structs, forks, members, why, status>>

\* The fields of the new task; the list does not lead to it yet.
ReadNext(t) == LET new == Top(t).task
    IN  /\ At(t, "read_next")
        /\ next' = [next EXCEPT ![new] = next[t]]
        /\ prev' = [prev EXCEPT ![new] = t]
        /\ stack' = [stack EXCEPT ![new] = Top(t).stack]
        /\ GoOn(t, [Top(t) EXCEPT !.at = "write_next"])
        /\ UNCHANGED <<current, to_del, low, heap, malloc_mtx, forks, members, why, status>>

\* current_task->next = new_task; the successor's prev is not set.  The child
\* returns from fork when it is switched to.
WriteNext(t) == LET new == Top(t).task
    IN  /\ At(t, "write_next")
        /\ next' = [next EXCEPT ![t] = new]
        /\ calls' = [calls EXCEPT ![t] = <<Running>>, ![new] = <<Running>>]
        /\ members' = members \union {new}
        /\ why' = why \union (IF next[new] = next[t] THEN {} ELSE {"next"})
        /\ UNCHANGED <<current, to_del, prev, stack, low, heap, malloc_mtx, forks, status>>

-----------------------------------------------------------------------------
(* incr_task. *)

\* Where the loop may stop: it comes to the next task, and from a task of low
\* priority, whose age may be behind or has caught up, to the one behind that.
Visits(S, t) == next[t] \in S /\ \A m \in S \intersect low : next[m] \in S
Picks(t) == {u \in Slots : \A S \in SUBSET Slots : Visits(S, t) => u \in S}

\* The loop meets a task that was joined.
MeetsDead(t) == Picks(t) \ members # {}

\* The timer interrupt: switch_task.
Tick == /\ status = "ok"
        /\ IF MeetsDead(current) THEN Halt("dead_task")
           ELSE /\ current' \in Picks(current)
                /\ UNCHANGED <<to_del, fields, low, heap, malloc_mtx, calls, forks, members,
                               why, status>>

-----------------------------------------------------------------------------
(* join: delete_task. *)

\* Mutant: only the successor is linked back.
UnlinkHalf(t) == /\ prev' = [prev EXCEPT ![next[t]] = prev[t]]
                 /\ UNCHANGED next

\* Both neighbours of t, as its fields name them, are linked to each other.
Unlink(t) == /\ next' = [next EXCEPT ![prev[t]] = next[t]]
             /\ prev' = [prev EXCEPT ![next[t]] = prev[t]]

\* join up to the first lock of delete_task: interrupts are off.  incr_task
\* still finds t on the list, and when every other task waits in lock it may
\* stop there: t then gives away the stack it runs on.  The last task does not
\* join: there would be nothing to switch to.
JoinTo(t, u) ==
    /\ At(t, "run")
    /\ members # {t}
    /\ IF MeetsDead(t) THEN Halt("dead_task")
       ELSE IF prev[t] \notin members
       THEN /\ status' = "dead_task"
            /\ why' = why \union {"prev"}
            /\ UNCHANGED <<current, to_del, fields, low, heap, malloc_mtx, calls, forks,
                           members>>
       ELSE /\ to_del' = t
            /\ current' = u
            /\ Unlink(t)
            /\ members' = members \ {t}
            /\ why' = why \union (IF next[prev[t]] = t THEN {} ELSE {"prev"})
            /\ status' = IF u = t THEN "own_stack" ELSE status
            /\ IF t = Root
               THEN /\ calls' = [calls EXCEPT ![t] = <<>>]
                    /\ UNCHANGED low
               ELSE /\ calls' = [calls EXCEPT
                          ![t] = <<>>,
                          ![u] = Append(@, Call("want_free_stack", NULL, stack[t], t))]
                    /\ low' = low \union {u}
            /\ UNCHANGED <<stack, heap, malloc_mtx, forks>>

Join(t) == \E u \in Picks(t) : JoinTo(t, u)

\* Mutant: kfree returns with the mutex held.
FreeStackKeeps(t) == /\ At(t, "free_stack")
                     /\ IF Top(t).stack \notin stacks THEN Halt("double_free")
                        ELSE /\ stacks' = stacks \ {Top(t).stack}
                             /\ GoOn(t, [Top(t) EXCEPT !.at = "read_to_del"])
                             /\ UNCHANGED <<current, to_del, fields, low, structs, malloc_mtx,
                                            forks, members, why, status>>

FreeStack(t) == /\ At(t, "free_stack")
                /\ IF Top(t).stack \notin stacks THEN Halt("double_free")
                   ELSE /\ stacks' = stacks \ {Top(t).stack}
                        /\ Unlock(malloc_mtx)
                        /\ GoOn(t, [Top(t) EXCEPT !.at = "read_to_del"])
                        /\ UNCHANGED <<current, to_del, fields, low, structs, forks, members,
                                       why, status>>

\* kfree(to_del): the global is read again.
ReadToDel(t) == /\ At(t, "read_to_del")
                /\ low' = low \union {t}
                /\ why' = why \union (IF to_del = Top(t).who THEN {} ELSE {"to_del"})
                /\ GoOn(t, [Top(t) EXCEPT !.at = "want_free_task", !.task = to_del])
                /\ UNCHANGED <<current, to_del, fields, heap, malloc_mtx, forks, members,
                               status>>

FreeTask(t) == /\ At(t, "free_task")
               /\ IF Top(t).task \notin structs \ {Root} THEN Halt("double_free")
                  ELSE /\ structs' = structs \ {Top(t).task}
                       /\ Unlock(malloc_mtx)
                       /\ PopCall(t)
                       /\ UNCHANGED <<current, to_del, fields, low, stacks, forks, members,
                                      why, status>>

-----------------------------------------------------------------------------
Continue(t) == \/ LockWon(t) \/ TakeTask(t) \/ TakeStack(t) \/ ReadNext(t) \/ WriteNext(t)
               \/ FreeStack(t) \/ ReadToDel(t) \/ FreeTask(t)

Next == \/ Tick
        \/ \E t \in Slots : Fork(t) \/ Join(t) \/ Continue(t)

Spec == Init /\ [][Next]_vars

\* Every task on the list gets the CPU again and again (EveryTaskRuns of
\* Sched), and goes on with the call it is in when it has it.  Nothing obliges
\* a task to call fork or join.
Fairness == \A t \in Slots : /\ SF_vars(Tick /\ current' = t)
                             /\ SF_vars(Continue(t))
FairSpec == Spec /\ Fairness

-----------------------------------------------------------------------------
Places   == {"run"} \union InFork \union InDelete
CallType == {c \in [at : Places, task : Slots \union {NULL}, stack : Stacks \union {NULL},
                    who : Slots \union {NULL}] : c.at \in Filling => c.task \in Slots}

TypeOK == /\ current \in Slots /\ to_del \in Slots \union {NULL}
          /\ next \in [Slots -> Slots] /\ prev \in [Slots -> Slots]
          /\ stack \in [Slots -> Stacks \union {NULL}]
          /\ low \subseteq Slots /\ structs \subseteq Slots /\ stacks \subseteq Stacks
          /\ malloc_mtx \in {Free, Held}
          /\ calls \in [Slots -> Seq(CallType)]
          /\ forks \in Nat
          /\ members \subseteq Slots /\ why \subseteq {"next", "prev", "to_del"}
          /\ status \in {"ok", "dead_task", "double_free", "own_stack"}

\* next leads from member to member, and no part of the members is closed
\* under it: they are one ring.
OneRing == /\ \A m \in members : next[m] \in members
           /\ \A S \in SUBSET members :
                  S # {} /\ (\A m \in S : next[m] \in S) => S = members

\* As long as every pointer was up to date when it was used, "tasks are stored
\* in a linked list" (task.c:6): no task is dropped from the list by a fork or
\* a join of another, none stays on it after its join, and the one on the CPU
\* is on it.
RingHolds == why = {} => OneRing /\ (status = "ok" => current \in members)

\* The machine goes wrong for no other reasons than those: a joined task is
\* met, and the heap is given something twice, only after a stale next, prev
\* or to_del was used, and a task frees the stack it runs on only when all
\* others wait in lock.
FailureExplained ==
    /\ status \in {"dead_task", "double_free"} => why # {}
    /\ status = "own_stack" => members \subseteq low \/ why # {}

\* What a call holds: the block that fork fills and that its caller does not
\* know yet, the block and the stack that delete_task has still to free.
HoldsTask(c, s)  == \/ c.at \in Filling /\ c.task = s
                    \/ c.at \in InDelete /\ c.who = s
HoldsStack(c, k) == /\ c.at \in {"read_next", "write_next", "want_free_stack", "free_stack"}
                    /\ c.stack = k

\* What is allocated is what the members and the calls in progress own, and
\* each block has one owner: no task or stack is freed under its owner, and
\* none leaks.
OwnersOfTask(s)  == {<<m, 0>> : m \in {s} \intersect (members \union {Root})}
    \union UNION {{<<t, i>> : i \in {j \in DOMAIN calls[t] : HoldsTask(calls[t][j], s)}}
                  : t \in Slots}
OwnersOfStack(k) == {<<m, 0>> : m \in {n \in members \ {Root} : stack[n] = k}}
    \union UNION {{<<t, i>> : i \in {j \in DOMAIN calls[t] : HoldsStack(calls[t][j], k)}}
                  : t \in Slots}

Owned == why = {} /\ status = "ok" =>
    /\ \A s \in Slots : /\ s \in structs <=> OwnersOfTask(s) # {}
                        /\ \A o, p \in OwnersOfTask(s) : o = p
    /\ \A k \in Stacks : /\ k \in stacks <=> OwnersOfStack(k) # {}
                         /\ \A o, p \in OwnersOfStack(k) : o = p

\* A call that holds the mutex, with a delete_task on top of it that waits for
\* the mutex: it waits for itself.
Holding == {"take_task", "take_stack", "free_stack", "free_task"}
SelfWait == \E t \in Slots : \E i \in 1 .. Len(calls[t]) - 1 : calls[t][i].at \in Holding

\* The mutex of the heap comes free again, unless a delete_task was put on top
\* of its owner.
HeapReleased == malloc_mtx = Held
                    ~> \/ malloc_mtx = Free \/ SelfWait \/ status # "ok" \/ why # {}
=============================================================================
