------------------------------- MODULE Queue -------------------------------
(***************************************************************************)
(* struct Queue (src/src/queue.c, queue.h) used by several threads that    *)
(* push and pop as they like.  A call is cut where another thread can      *)
(* notice: taking the lock, the test of size, the reads of index and size  *)
(* that ++q->size and q->size-- begin with, the writes up to the unlock    *)
(* (or the return that forgets it), and the access to data after the       *)
(* unlock.                                                                 *)
(*                                                                         *)
(* accepted and taken are history variables: the elements whose push       *)
(* returned or will return true, in the order of their critical sections,  *)
(* and the values callers read through the pointers queue_pop gave them.   *)
(***************************************************************************)
EXTENDS QueueOps, Sequences, FiniteSets, Mutex

CONSTANTS
    Threads,
    MaxCalls     \* bound: calls that each thread starts

ASSUME ThreadsAssumption == IsFiniteSet(Threads) /\ MaxCalls \in Nat

VARIABLES
    q,           \* the fields size, push_i, pop_i and data
    m,           \* the mutex field
    pc,          \* where each thread is
    elem,        \* argument of the thread's running queue_push
    old_i,       \* the local old_i of both functions
    old_size,    \* the size that ++q->size or q->size-- has read
    calls,       \* calls started by each thread
    accepted, taken

vars == <<q, m, pc, elem, old_i, old_size, calls, accepted, taken>>

Init == /\ q = EmptyQueue
        /\ m = Free
        /\ pc = [t \in Threads |-> "idle"]
        /\ elem = [t \in Threads |-> Garbage]
        /\ old_i = [t \in Threads |-> 0]
        /\ old_size = [t \in Threads |-> 0]
        /\ calls = [t \in Threads |-> 0]
        /\ accepted = <<>>
        /\ taken = <<>>

Goto(t, from, to) == pc[t] = from /\ pc' = [pc EXCEPT ![t] = to]

-----------------------------------------------------------------------------
Begin(t) == /\ calls[t] < MaxCalls
            /\ calls' = [calls EXCEPT ![t] = @ + 1]

\* A thread calls queue_push with an element of its choice.
CallPush(t, e) == /\ Goto(t, "idle", "push_lock")
                  /\ Begin(t)
                  /\ elem' = [elem EXCEPT ![t] = e]
                  /\ UNCHANGED <<q, m, old_i, old_size, accepted, taken>>

CallPop(t) == /\ Goto(t, "idle", "pop_lock")
              /\ Begin(t)
              /\ UNCHANGED <<q, m, elem, old_i, old_size, accepted, taken>>

\* Mutant: the mutex is taken to be ours without looking at it.
PushLockBlind(t) == /\ Goto(t, "push_lock", "push_cs")
                    /\ m' = Held
                    /\ UNCHANGED <<q, elem, old_i, old_size, calls, accepted, taken>>

PushLock(t) == /\ Goto(t, "push_lock", "push_cs")
               /\ Lock(m)
               /\ UNCHANGED <<q, elem, old_i, old_size, calls, accepted, taken>>

\* A full queue: unlock and return false.
PushRefused(t) == /\ Goto(t, "push_cs", "idle")
                  /\ IsFull(q)
                  /\ Unlock(m)
                  /\ UNCHANGED <<q, elem, old_i, old_size, calls, accepted, taken>>

PushRoom(t) == /\ Goto(t, "push_cs", "push_claim")
               /\ ~IsFull(q)
               /\ UNCHANGED <<q, m, elem, old_i, old_size, calls, accepted, taken>>

\* Mutant: the mutex is released before the fields are written.
PushReadUnlocks(t) == /\ Goto(t, "push_claim", "push_write")
                      /\ old_i' = [old_i EXCEPT ![t] = q.push_i]
                      /\ old_size' = [old_size EXCEPT ![t] = q.size]
                      /\ Unlock(m)
                      /\ UNCHANGED <<q, elem, calls, accepted, taken>>

PushRead(t) == /\ Goto(t, "push_claim", "push_write")
               /\ old_i' = [old_i EXCEPT ![t] = q.push_i]
               /\ old_size' = [old_size EXCEPT ![t] = q.size]
               /\ UNCHANGED <<q, m, elem, calls, accepted, taken>>

PushWrite(t) == /\ Goto(t, "push_write", "push_store")
                /\ q' = PushUpdate(q, old_i[t], old_size[t])
                /\ Unlock(m)
                /\ accepted' = Append(accepted, elem[t])
                /\ UNCHANGED <<elem, old_i, old_size, calls, taken>>

PushStore(t) == /\ Goto(t, "push_store", "idle")
                /\ q' = Store(q, old_i[t], elem[t])
                /\ UNCHANGED <<m, elem, old_i, old_size, calls, accepted, taken>>

PopLock(t) == /\ Goto(t, "pop_lock", "pop_cs")
              /\ Lock(m)
              /\ UNCHANGED <<q, elem, old_i, old_size, calls, accepted, taken>>

\* An empty queue: return NULL.  The mutex stays held.
PopNull(t) == /\ Goto(t, "pop_cs", "idle")
              /\ IsEmpty(q)
              /\ UNCHANGED <<q, m, elem, old_i, old_size, calls, accepted, taken>>

PopSome(t) == /\ Goto(t, "pop_cs", "pop_claim")
              /\ ~IsEmpty(q)
              /\ UNCHANGED <<q, m, elem, old_i, old_size, calls, accepted, taken>>

PopRead(t) == /\ Goto(t, "pop_claim", "pop_write")
              /\ old_i' = [old_i EXCEPT ![t] = q.pop_i]
              /\ old_size' = [old_size EXCEPT ![t] = q.size]
              /\ UNCHANGED <<q, m, elem, calls, accepted, taken>>

PopWrite(t) == /\ Goto(t, "pop_write", "deref")
               /\ q' = PopUpdate(q, old_i[t], old_size[t])
               /\ Unlock(m)
               /\ UNCHANGED <<elem, old_i, old_size, calls, accepted, taken>>

\* The caller reads through the returned pointer &q->data[old_i].
Deref(t) == /\ Goto(t, "deref", "idle")
            /\ taken' = Append(taken, q.data[old_i[t]])
            /\ UNCHANGED <<q, m, elem, old_i, old_size, calls, accepted>>

Step(t) == \/ \E e \in Elem : CallPush(t, e)
           \/ CallPop(t)
           \/ PushLock(t) \/ PushRefused(t) \/ PushRoom(t) \/ PushRead(t)
           \/ PushWrite(t) \/ PushStore(t)
           \/ PopLock(t) \/ PopNull(t) \/ PopSome(t) \/ PopRead(t) \/ PopWrite(t)
           \/ Deref(t)

Next == \E t \in Threads : Step(t)

Spec == Init /\ [][Next]_vars

-----------------------------------------------------------------------------
Inside == {t \in Threads :
             pc[t] \in {"push_cs", "push_claim", "push_write",
                        "pop_cs", "pop_claim", "pop_write"}}
Taking == {t \in Threads : pc[t] = "deref"}

\* Every field and local has its type; in particular both indices stay below
\* the capacity although they wrap at the current size.
TypeOK == /\ q \in QueueType
          /\ m \in {Free, Held}
          /\ pc \in [Threads -> {"idle", "push_lock", "push_cs", "push_claim",
                                 "push_write", "push_store", "pop_lock",
                                 "pop_cs", "pop_claim", "pop_write", "deref"}]
          /\ elem \in [Threads -> Elem \union {Garbage}]
          /\ old_i \in [Threads -> Slots]
          /\ old_size \in [Threads -> 0 .. Cap]
          /\ calls \in [Threads -> 0 .. MaxCalls]
          /\ accepted \in Seq(Elem)
          /\ taken \in Seq(Elem \union {Garbage})

\* What a thread tested under the mutex still holds when it acts on it: no
\* push claims a slot of a full queue and no pop divides by a size of zero,
\* because all four tests and updates exclude each other.
TestStillHolds == \A t \in Threads :
                      /\ pc[t] \in {"push_claim", "push_write"} => ~IsFull(q)
                      /\ pc[t] \in {"pop_claim", "pop_write"} => ~IsEmpty(q)

\* No update of size is lost: it is the elements accepted minus the slots handed
\* out, although ++q->size and q->size-- read it and write it at two times, which
\* all threads may do, and the calls are counted apart from what they write.
SizeIsLedger == q.size = Len(accepted) - Len(taken) - Cardinality(Taking)
=============================================================================
