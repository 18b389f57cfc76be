------------------------------ MODULE Console ------------------------------
(***************************************************************************)
(* write_char (src/src/io.c): any number of tasks print characters on one  *)
(* text device.  A task that finds io_lock taken leaves its character in   *)
(* io_queue for the holder; the holder drains the queue, prints its own    *)
(* character and unlocks.  A task that finds the queue full waits for the  *)
(* lock.                                                                   *)
(*                                                                         *)
(* The timer may preempt a task between any two instructions, so a call is *)
(* cut at every access to shared state: the xchg of each lock, each        *)
(* critical section of queue.c, the unlocked store of queue_push, the      *)
(* unlocked test of io_queue.size and the unlocked dereference of the      *)
(* pointer queue_pop returns.                                              *)
(***************************************************************************)
EXTENDS QueueOps, Sequences, FiniteSets, Mutex

CONSTANTS
    Tasks,
    Nobody,
    MaxChars     \* bound: characters written in a run

ASSUME TasksAssumption == /\ IsFiniteSet(Tasks)
                          /\ Nobody \notin Tasks
                          /\ MaxChars \in Nat

VARIABLES
    io_lock,
    q,           \* the fields of io_queue ...
    q_m,         \* ... and its mutex
    pc,          \* where each task is in write_char
    c,           \* the argument of each task's call
    old_i,       \* the local of queue_push / queue_pop
    handed,      \* calls started so far
    out          \* what the device received

vars == <<io_lock, q, q_m, pc, c, old_i, handed, out>>

Init == /\ io_lock = Free
        /\ q = EmptyQueue
        /\ q_m = Free
        /\ pc = [t \in Tasks |-> "idle"]
        /\ c = [t \in Tasks |-> Garbage]
        /\ old_i = [t \in Tasks |-> 0]
        /\ handed = 0
        /\ out = <<>>

Goto(t, from, to) == pc[t] = from /\ pc' = [pc EXCEPT ![t] = to]

-----------------------------------------------------------------------------
(* Entry: try_lock decides between printing and deferring. *)

WriteChar(t, ch) ==
    /\ handed < MaxChars
    /\ Goto(t, "idle", IF TryLockSucceeds(io_lock) THEN "drain" ELSE "push_lock")
    /\ TryLock(io_lock)
    /\ c' = [c EXCEPT ![t] = ch]
    /\ handed' = handed + 1
    /\ UNCHANGED <<q, q_m, old_i, out>>

-----------------------------------------------------------------------------
(* Deferring: queue_push(&io_queue, c). *)

PushLock(t) == /\ Goto(t, "push_lock", "push_cs")
               /\ Lock(q_m)
               /\ UNCHANGED <<io_lock, q, c, old_i, handed, out>>

\* Mutant: a character that finds the queue full is dropped.
PushRefusedDrops(t) == /\ Goto(t, "push_cs", "idle")
                       /\ IsFull(q)
                       /\ Unlock(q_m)
                       /\ UNCHANGED <<io_lock, q, c, old_i, handed, out>>

PushRefused(t) == /\ Goto(t, "push_cs", "io_wait")
                  /\ IsFull(q)
                  /\ Unlock(q_m)
                  /\ UNCHANGED <<io_lock, q, c, old_i, handed, out>>

PushClaim(t) == /\ Goto(t, "push_cs", "push_store")
                /\ ~IsFull(q)
                /\ old_i' = [old_i EXCEPT ![t] = q.push_i]
                /\ q' = ClaimPush(q)
                /\ Unlock(q_m)
                /\ UNCHANGED <<io_lock, c, handed, out>>

\* The store behind the unlock; then write_char returns.
PushStore(t) == /\ Goto(t, "push_store", "idle")
                /\ q' = Store(q, old_i[t], c[t])
                /\ UNCHANGED <<io_lock, q_m, c, old_i, handed, out>>

\* The queue was full: lock(&io_lock).
WaitForDevice(t) == /\ Goto(t, "io_wait", "drain")
                    /\ Lock(io_lock)
                    /\ UNCHANGED <<q, q_m, c, old_i, handed, out>>

-----------------------------------------------------------------------------
(* The holder of io_lock. *)

\* Mutant: do ... while instead of while.
TestSizeLate(t) == /\ Goto(t, "drain", "pop_lock")
                   /\ UNCHANGED <<io_lock, q, q_m, c, old_i, handed, out>>

\* while (io_queue.size): an unlocked read.
TestSize(t) == /\ Goto(t, "drain", IF IsEmpty(q) THEN "own" ELSE "pop_lock")
               /\ UNCHANGED <<io_lock, q, q_m, c, old_i, handed, out>>

PopLock(t) == /\ Goto(t, "pop_lock", "pop_cs")
              /\ Lock(q_m)
              /\ UNCHANGED <<io_lock, q, c, old_i, handed, out>>

\* The critical section of queue_pop.  On an empty queue it returns NULL with
\* the mutex held, and write_char would read through that pointer.
PopClaim(t) == /\ Goto(t, "pop_cs", IF IsEmpty(q) THEN "null" ELSE "deref")
               /\ IF IsEmpty(q)
                  THEN UNCHANGED <<q, q_m, old_i>>
                  ELSE /\ old_i' = [old_i EXCEPT ![t] = q.pop_i]
                       /\ q' = ClaimPop(q)
                       /\ Unlock(q_m)
               /\ UNCHANGED <<io_lock, c, handed, out>>

\* *queue_pop(...) and _write_char(value).
PrintDeferred(t) == /\ Goto(t, "deref", "drain")
                    /\ out' = Append(out, q.data[old_i[t]])
                    /\ UNCHANGED <<io_lock, q, q_m, c, old_i, handed>>

PrintOwn(t) == /\ Goto(t, "own", "unlock")
               /\ out' = Append(out, c[t])
               /\ UNCHANGED <<io_lock, q, q_m, c, old_i, handed>>

\* Mutant: write_char returns without unlocking.
ReleaseForgotten(t) == /\ Goto(t, "unlock", "idle")
                       /\ UNCHANGED <<io_lock, q, q_m, c, old_i, handed, out>>

Release(t) == /\ Goto(t, "unlock", "idle")
              /\ Unlock(io_lock)
              /\ UNCHANGED <<q, q_m, c, old_i, handed, out>>

-----------------------------------------------------------------------------
\* A call that has started goes on.
Continue(t) == \/ PushLock(t) \/ PushRefused(t) \/ PushClaim(t) \/ PushStore(t)
               \/ WaitForDevice(t)
               \/ TestSize(t) \/ PopLock(t) \/ PopClaim(t) \/ PrintDeferred(t)
               \/ PrintOwn(t) \/ Release(t)

\* Every call has returned and no more are made.
Finished == /\ handed = MaxChars
            /\ \A t \in Tasks : pc[t] = "idle"
            /\ UNCHANGED vars

Next == \/ \E t \in Tasks : (\E ch \in Elem : WriteChar(t, ch)) \/ Continue(t)
        \/ Finished

Spec == Init /\ [][Next]_vars

\* The timer interrupt gives every runnable task its turn.
Fairness == \A t \in Tasks : WF_vars(Continue(t))
FairSpec == Spec /\ Fairness

-----------------------------------------------------------------------------
Printing == {"drain", "pop_lock", "pop_cs", "null", "deref", "own", "unlock"}
Locations == Printing \union {"idle", "push_lock", "push_cs", "push_store", "io_wait"}
\* The call's character is neither in the queue nor printed yet.
InFlight == Locations \ {"idle", "push_store", "unlock"}

Printers == {t \in Tasks : pc[t] \in Printing}
Inside   == {t \in Tasks : pc[t] \in {"push_cs", "pop_cs"}}
At(l)    == {t \in Tasks : pc[t] = l}

\* Every variable has its type; both indices stay below the capacity.
TypeOK == /\ io_lock \in {Free, Held}
          /\ q \in QueueType
          /\ q_m \in {Free, Held}
          /\ pc \in [Tasks -> Locations]
          /\ c \in [Tasks -> Elem \union {Garbage}]
          /\ old_i \in [Tasks -> Slots]
          /\ handed \in Nat
          /\ out \in Seq(Elem \union {Garbage})

\* io_lock protects the device and the queue's mutex protects its fields: the
\* word is Held exactly while one task is inside, whichever way that task
\* came in (try_lock, or lock after a full queue).
Exclusion == /\ \A s, t \in Printers : s = t
             /\ io_lock = Held <=> Printers # {}
             /\ \A s, t \in Inside : s = t
             /\ q_m = Held <=> Inside # {}

\* "We can safely dereference. If the queue was empty, the loop would end."
\* (io.c:47): between the unlocked test of io_queue.size and the pop nobody
\* else can empty the queue, so queue_pop never returns NULL here.
PopNonEmpty == \A t \in Tasks : /\ pc[t] \in {"pop_lock", "pop_cs"} => ~IsEmpty(q)
                                /\ pc[t] # "null"

\* The number of write_char calls is the number of characters printed, counted
\* in size, being popped, or in a call still under way: no call drops its
\* character or prints twice.  Which character is printed is not said: a push
\* may overwrite a slot nobody has read (queue.c:28), so that one character is
\* lost and another is printed in its place.
CharsConserved ==
    handed = Len(out) + q.size + Cardinality(At("deref"))
             + Cardinality({t \in Tasks : pc[t] \in InFlight})

\* Every write_char returns, also one that had to wait for a full queue.
Returns == \A t \in Tasks : pc[t] # "idle" ~> pc[t] = "idle"

-----------------------------------------------------------------------------
(* Console implements the abstract device. *)

Device == INSTANCE CharDevice WITH
    owner    <- IF Printers = {} THEN Nobody ELSE CHOOSE t \in Printers : TRUE,
    ownDone  <- At("unlock") # {},
    backlog  <- q.size,
    accepted <- handed - Cardinality({t \in Tasks : pc[t] \in InFlight}),
    printed  <- Len(out) + Cardinality(At("deref"))

\* The locks and the queue together keep the promise of CharDevice: one owner,
\* a bounded backlog, and a conserved number of characters.
ImplementsDevice == Device!DeviceSpec
=============================================================================
