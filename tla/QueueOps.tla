------------------------------ MODULE QueueOps ------------------------------
(***************************************************************************)
(* The data part of src/src/queue.c: what the critical sections of         *)
(* queue_push and queue_pop do to the fields of a struct Queue.  Locking,  *)
(* and the accesses to data that the code makes outside the lock, are in   *)
(* the modules that use these operators (Queue, Console).                  *)
(***************************************************************************)
EXTENDS Naturals

CONSTANTS
    Cap,       \* the capacity the queue is initialised with (64 for io.c)
    Elem,      \* the values callers push
    Garbage    \* what kmalloc'ed memory holds before its first store

ASSUME QueueAssumption == /\ Cap \in Nat \ {0}
                          /\ Garbage \notin Elem

Slots == 0 .. Cap - 1

QueueType == [size : 0 .. Cap, push_i : Slots, pop_i : Slots,
              data : [Slots -> Elem \union {Garbage}]]

\* queue_init: kmalloc does not clear the array.
EmptyQueue == [size |-> 0, push_i |-> 0, pop_i |-> 0,
               data |-> [i \in Slots |-> Garbage]]

\* Mutant: the capacity test is off by one.
IsFullLate(q) == q.size > Cap

IsFull(q)  == q.size >= Cap
IsEmpty(q) == q.size = 0

\* What queue_push writes to push_i and size, having read i and n in them.  The
\* index wraps at the new size, not at the capacity.
PushUpdate(q, i, n) == [q EXCEPT !.push_i = (i + 1) % (n + 1), !.size = n + 1]

\* What queue_pop writes to pop_i and size.  The index wraps at the old size.
PopUpdate(q, i, n) == [q EXCEPT !.pop_i = (i + 1) % n, !.size = n - 1]

\* Reading and writing at once: nobody comes between them under the queue's mutex
\* (Queue, where they are two steps).
ClaimPush(q) == PushUpdate(q, q.push_i, q.size)
ClaimPop(q)  == PopUpdate(q, q.pop_i, q.size)

\* q->data[i] = elem, which queue_push does after it has unlocked.
Store(q, i, elem) == [q EXCEPT !.data[i] = elem]
=============================================================================
