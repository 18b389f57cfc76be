--------------------------- MODULE Console_proofs ---------------------------
(***************************************************************************)
(* Proofs about Console, for every set of tasks, capacity and number of    *)
(* characters.  The inductive invariant is the conjunction of TypeOK,      *)
(* Exclusion and PopNonEmpty: none of the last two is inductive alone,     *)
(* because a printer that found the queue empty would leave the queue's    *)
(* mutex held, and a second printer could empty the queue between the test *)
(* and the pop of the first.                                               *)
(***************************************************************************)
EXTENDS Console, FiniteSetTheorems, TLAPS

USE DEF Free, Held

IInv == TypeOK /\ Exclusion /\ PopNonEmpty

-----------------------------------------------------------------------------
(* The operators of QueueOps, for every capacity and any elements. *)

\* Adding one and wrapping stays below any positive modulus.
LEMMA WrapBelow ==
    ASSUME NEW i \in Nat, NEW n \in Nat \ {0}
    PROVE  (i + 1) % n \in 0 .. n - 1
  OBVIOUS

\* A queue whose fields are replaced by values of their types is a queue.
LEMMA PushFields ==
    ASSUME NEW r \in QueueType, NEW i \in Slots, NEW n \in 0 .. Cap
    PROVE  /\ [r EXCEPT !.push_i = i, !.size = n] \in QueueType
           /\ [r EXCEPT !.push_i = i, !.size = n].size = n
  BY DEF QueueType

\* The same of the fields a pop replaces.
LEMMA PopFields ==
    ASSUME NEW r \in QueueType, NEW i \in Slots, NEW n \in 0 .. Cap
    PROVE  [r EXCEPT !.pop_i = i, !.size = n] \in QueueType
  BY DEF QueueType

\* The critical section of queue_push keeps a queue a queue, although the
\* index wraps at the new size.
LEMMA ClaimPushType ==
    ASSUME NEW r \in QueueType, ~IsFull(r)
    PROVE  /\ ClaimPush(r) \in QueueType
           /\ ClaimPush(r).size = r.size + 1
  <1>1. r.size + 1 \in 1 .. Cap
    BY QueueAssumption DEF QueueType, IsFull
  <1>2. r.push_i \in Nat
    BY QueueAssumption DEF QueueType, Slots
  <1>3. (r.push_i + 1) % (r.size + 1) \in 0 .. (r.size + 1) - 1
    BY <1>1, <1>2, WrapBelow
  <1>4. (r.push_i + 1) % (r.size + 1) \in Slots
    BY <1>1, <1>3, QueueAssumption DEF Slots
  <1>5. r.size + 1 \in 0 .. Cap
    BY <1>1
  <1> QED
    BY <1>4, <1>5, PushFields, Zenon DEF ClaimPush, PushUpdate

\* The critical section of queue_pop does, on a queue that is not empty.
LEMMA ClaimPopType ==
    ASSUME NEW r \in QueueType, ~IsEmpty(r)
    PROVE  ClaimPop(r) \in QueueType
  <1>1. r.size \in 1 .. Cap
    BY QueueAssumption DEF QueueType, IsEmpty
  <1>2. r.pop_i \in Nat
    BY QueueAssumption DEF QueueType, Slots
  <1>3. (r.pop_i + 1) % r.size \in 0 .. r.size - 1
    BY <1>1, <1>2, WrapBelow
  <1>4. (r.pop_i + 1) % r.size \in Slots
    BY <1>1, <1>3, QueueAssumption DEF Slots
  <1>5. r.size - 1 \in 0 .. Cap
    BY <1>1, QueueAssumption
  <1> QED
    BY <1>4, <1>5, PopFields, Zenon DEF ClaimPop, PopUpdate

\* Writing a slot leaves a queue of the same size.
LEMMA StoreType ==
    ASSUME NEW r \in QueueType, NEW i \in Slots, NEW e \in Elem \union {Garbage}
    PROVE  /\ Store(r, i, e) \in QueueType
           /\ Store(r, i, e).size = r.size
  BY DEF QueueType, Store

-----------------------------------------------------------------------------
LEMMA InitIInv == Init => IInv
  <1> SUFFICES ASSUME Init PROVE IInv
    OBVIOUS
  <1>1. EmptyQueue \in QueueType
    BY QueueAssumption DEF EmptyQueue, QueueType, Slots
  <1>2. TypeOK
    BY <1>1, QueueAssumption DEF Init, TypeOK, Locations, Slots
  <1>3. Exclusion
    BY DEF Init, Exclusion, Printers, Inside, Printing
  <1>4. PopNonEmpty
    BY DEF Init, PopNonEmpty
  <1> QED
    BY <1>2, <1>3, <1>4 DEF IInv

\* Each step keeps the types.  PopNonEmpty is used where a pop divides by the
\* size.
LEMMA TypeStep == IInv /\ [Next]_vars => TypeOK'
  <1> SUFFICES ASSUME IInv, [Next]_vars PROVE TypeOK'
    OBVIOUS
  <1> USE DEF IInv, TypeOK, Goto, Locations, Printing, Lock, Unlock, TryLock
  <1>1. ASSUME NEW t \in Tasks, NEW ch \in Elem, WriteChar(t, ch) PROVE TypeOK'
    BY <1>1 DEF WriteChar
  <1>2. ASSUME NEW t \in Tasks, PushLock(t) PROVE TypeOK'
    BY <1>2 DEF PushLock
  <1>3. ASSUME NEW t \in Tasks, PushRefused(t) PROVE TypeOK'
    BY <1>3 DEF PushRefused
  <1>4. ASSUME NEW t \in Tasks, PushClaim(t) PROVE TypeOK'
    <2>1. q' \in QueueType
      BY <1>4, ClaimPushType DEF PushClaim
    <2>2. old_i' \in [Tasks -> Slots]
      BY <1>4 DEF PushClaim, QueueType
    <2> QED
      BY <1>4, <2>1, <2>2 DEF PushClaim
  <1>5. ASSUME NEW t \in Tasks, PushStore(t) PROVE TypeOK'
    <2>1. q' \in QueueType
      BY <1>5, StoreType DEF PushStore
    <2> QED
      BY <1>5, <2>1 DEF PushStore
  <1>6. ASSUME NEW t \in Tasks, WaitForDevice(t) PROVE TypeOK'
    BY <1>6 DEF WaitForDevice
  <1>7. ASSUME NEW t \in Tasks, TestSize(t) PROVE TypeOK'
    BY <1>7 DEF TestSize
  <1>8. ASSUME NEW t \in Tasks, PopLock(t) PROVE TypeOK'
    BY <1>8 DEF PopLock
  <1>9. ASSUME NEW t \in Tasks, PopClaim(t) PROVE TypeOK'
    <2>1. ~IsEmpty(q)
      BY <1>9 DEF PopClaim, PopNonEmpty
    <2>2. q' \in QueueType
      BY <1>9, <2>1, ClaimPopType DEF PopClaim
    <2>3. old_i' \in [Tasks -> Slots]
      BY <1>9, <2>1 DEF PopClaim, QueueType
    <2> QED
      BY <1>9, <2>1, <2>2, <2>3 DEF PopClaim
  <1>10. ASSUME NEW t \in Tasks, PrintDeferred(t) PROVE TypeOK'
    <2>1. q.data[old_i[t]] \in Elem \union {Garbage}
      BY DEF QueueType
    <2> QED
      BY <1>10, <2>1 DEF PrintDeferred
  <1>11. ASSUME NEW t \in Tasks, PrintOwn(t) PROVE TypeOK'
    BY <1>11 DEF PrintOwn
  <1>12. ASSUME NEW t \in Tasks, Release(t) PROVE TypeOK'
    BY <1>12 DEF Release
  <1>13. CASE UNCHANGED vars
    BY <1>13 DEF vars
  <1> QED
    BY <1>1, <1>2, <1>3, <1>4, <1>5, <1>6, <1>7, <1>8, <1>9, <1>10, <1>11,
       <1>12, <1>13 DEF Next, Continue, Finished

\* Entering the drain, whether by try_lock or by lock, needs io_lock free, so
\* nobody else is printing; the queue's mutex is the same story.
LEMMA ExclusionStep == IInv /\ [Next]_vars => Exclusion'
  <1> SUFFICES ASSUME IInv, [Next]_vars PROVE Exclusion'
    OBVIOUS
  <1> USE DEF IInv, TypeOK, Exclusion, Goto, Lock, Unlock, TryLock,
              Printers, Inside, Printing
  <1>1. ASSUME NEW t \in Tasks, NEW ch \in Elem, WriteChar(t, ch)
        PROVE  Exclusion'
    BY <1>1 DEF WriteChar, TryLockSucceeds
  <1>2. ASSUME NEW t \in Tasks, PushLock(t) PROVE Exclusion'
    BY <1>2 DEF PushLock
  <1>3. ASSUME NEW t \in Tasks, PushRefused(t) PROVE Exclusion'
    BY <1>3 DEF PushRefused
  <1>4. ASSUME NEW t \in Tasks, PushClaim(t) PROVE Exclusion'
    BY <1>4 DEF PushClaim
  <1>5. ASSUME NEW t \in Tasks, PushStore(t) PROVE Exclusion'
    BY <1>5 DEF PushStore
  <1>6. ASSUME NEW t \in Tasks, WaitForDevice(t) PROVE Exclusion'
    BY <1>6 DEF WaitForDevice
  <1>7. ASSUME NEW t \in Tasks, TestSize(t) PROVE Exclusion'
    BY <1>7 DEF TestSize
  <1>8. ASSUME NEW t \in Tasks, PopLock(t) PROVE Exclusion'
    BY <1>8 DEF PopLock
  <1>9. ASSUME NEW t \in Tasks, PopClaim(t) PROVE Exclusion'
    <2>1. ~IsEmpty(q)
      BY <1>9 DEF PopClaim, PopNonEmpty
    <2> QED
      BY <1>9, <2>1 DEF PopClaim
  <1>10. ASSUME NEW t \in Tasks, PrintDeferred(t) PROVE Exclusion'
    BY <1>10 DEF PrintDeferred
  <1>11. ASSUME NEW t \in Tasks, PrintOwn(t) PROVE Exclusion'
    BY <1>11 DEF PrintOwn
  <1>12. ASSUME NEW t \in Tasks, Release(t) PROVE Exclusion'
    BY <1>12 DEF Release
  <1>13. CASE UNCHANGED vars
    BY <1>13 DEF vars
  <1> QED
    BY <1>1, <1>2, <1>3, <1>4, <1>5, <1>6, <1>7, <1>8, <1>9, <1>10, <1>11,
       <1>12, <1>13 DEF Next, Continue, Finished

\* A push only adds elements; a pop is made by the one printer there is, so it
\* cannot be some other task's pop that follows the test.
LEMMA PopNonEmptyStep == IInv /\ [Next]_vars => PopNonEmpty'
  <1> SUFFICES ASSUME IInv, [Next]_vars PROVE PopNonEmpty'
    OBVIOUS
  <1> USE DEF IInv, TypeOK, PopNonEmpty, Goto, IsEmpty
  <1>1. ASSUME NEW t \in Tasks, NEW ch \in Elem, WriteChar(t, ch)
        PROVE  PopNonEmpty'
    BY <1>1 DEF WriteChar
  <1>2. ASSUME NEW t \in Tasks, PushLock(t) PROVE PopNonEmpty'
    BY <1>2 DEF PushLock
  <1>3. ASSUME NEW t \in Tasks, PushRefused(t) PROVE PopNonEmpty'
    BY <1>3 DEF PushRefused
  <1>4. ASSUME NEW t \in Tasks, PushClaim(t) PROVE PopNonEmpty'
    <2>1. q'.size = q.size + 1 /\ q.size \in Nat
      BY <1>4, ClaimPushType DEF PushClaim, QueueType
    <2> QED
      BY <1>4, <2>1 DEF PushClaim
  <1>5. ASSUME NEW t \in Tasks, PushStore(t) PROVE PopNonEmpty'
    <2>1. q'.size = q.size
      BY <1>5, StoreType DEF PushStore
    <2> QED
      BY <1>5, <2>1 DEF PushStore
  <1>6. ASSUME NEW t \in Tasks, WaitForDevice(t) PROVE PopNonEmpty'
    BY <1>6 DEF WaitForDevice
  <1>7. ASSUME NEW t \in Tasks, TestSize(t) PROVE PopNonEmpty'
    BY <1>7 DEF TestSize
  <1>8. ASSUME NEW t \in Tasks, PopLock(t) PROVE PopNonEmpty'
    BY <1>8 DEF PopLock
  <1>9. ASSUME NEW t \in Tasks, PopClaim(t) PROVE PopNonEmpty'
    <2>1. pc'[t] = "deref"
      BY <1>9 DEF PopClaim
    <2>2. ASSUME NEW s \in Tasks, s # t
          PROVE  pc'[s] \notin {"pop_lock", "pop_cs", "null"}
      BY <1>9, <2>2 DEF PopClaim, Exclusion, Printers, Printing
    <2> QED
      BY <2>1, <2>2
  <1>10. ASSUME NEW t \in Tasks, PrintDeferred(t) PROVE PopNonEmpty'
    BY <1>10 DEF PrintDeferred
  <1>11. ASSUME NEW t \in Tasks, PrintOwn(t) PROVE PopNonEmpty'
    BY <1>11 DEF PrintOwn
  <1>12. ASSUME NEW t \in Tasks, Release(t) PROVE PopNonEmpty'
    BY <1>12 DEF Release
  <1>13. CASE UNCHANGED vars
    BY <1>13 DEF vars
  <1> QED
    BY <1>1, <1>2, <1>3, <1>4, <1>5, <1>6, <1>7, <1>8, <1>9, <1>10, <1>11,
       <1>12, <1>13 DEF Next, Continue, Finished

LEMMA Invariance == Spec => []IInv
  <1>1. IInv /\ [Next]_vars => IInv'
    BY TypeStep, ExclusionStep, PopNonEmptyStep DEF IInv
  <1> QED
    BY InitIInv, <1>1, PTL DEF Spec

-----------------------------------------------------------------------------
\* Every variable of write_char and its queue keeps its type; the indices of
\* the queue stay inside the array whatever the interleaving.
THEOREM TypeCorrect == Spec => []TypeOK
  <1>1. IInv => TypeOK
    BY DEF IInv
  <1> QED
    BY Invariance, <1>1, PTL

\* At most one task prints, at most one is inside the queue, and each lock
\* word is Held exactly while somebody is.
THEOREM DeviceExclusion == Spec => []Exclusion
  <1>1. IInv => Exclusion
    BY DEF IInv
  <1> QED
    BY Invariance, <1>1, PTL

\* The comment at io.c:47 is right: write_char never pops an empty queue.
THEOREM SafeDereference == Spec => []PopNonEmpty
  <1>1. IInv => PopNonEmpty
    BY DEF IInv
  <1> QED
    BY Invariance, <1>1, PTL

-----------------------------------------------------------------------------
(* Console implements CharDevice and loses no character.  The sets of      *)
(* tasks whose character is under way are counted: a step takes at most    *)
(* one task into or out of each of them.                                   *)

Flying   == {t \in Tasks : pc[t] \in InFlight}
Owner    == IF Printers = {} THEN Nobody ELSE CHOOSE t \in Printers : TRUE
Accepted == handed - Cardinality(Flying)
Printed  == Len(out) + Cardinality(At("deref"))

-----------------------------------------------------------------------------
\* Sets of tasks are finite, and one task more or less is one more or less.
LEMMA OneMore ==
    ASSUME NEW S \in SUBSET Tasks, NEW t \in Tasks \ S
    PROVE  /\ Cardinality(S) \in Nat
           /\ Cardinality(S \union {t}) = Cardinality(S) + 1
  BY TasksAssumption, FS_Subset, FS_CardinalityType, FS_AddElement

LEMMA OneLess ==
    ASSUME NEW S \in SUBSET Tasks, NEW t \in S
    PROVE  /\ Cardinality(S) \in Nat
           /\ Cardinality(S \ {t}) = Cardinality(S) - 1
  BY TasksAssumption, FS_Subset, FS_CardinalityType, FS_RemoveElement

LEMMA Counted == /\ Cardinality(Flying) \in Nat
                 /\ Cardinality(At("deref")) \in Nat
  BY TasksAssumption, FS_Subset, FS_CardinalityType DEF Flying, At

\* What the device has done, as its abstraction counts it.
Counts(accept, queued, print) == /\ Accepted' = Accepted + accept
                                 /\ q'.size = q.size + queued
                                 /\ Printed' = Printed + print
Quiet == Flying' = Flying /\ At("deref")' = At("deref")

LEMMA QuietCounts ==
    ASSUME IInv, Quiet, handed' = handed, out' = out, q'.size = q.size
    PROVE  Counts(0, 0, 0)
  BY Counted DEF Quiet, Counts, Accepted, Printed, IInv, TypeOK, QueueType

LEMMA CallCounts ==
    ASSUME IInv, NEW t \in Tasks, NEW ch \in Elem, WriteChar(t, ch)
    PROVE  Counts(0, 0, 0)
  <1> USE DEF IInv, TypeOK, Goto, WriteChar
  <1>1. t \notin Flying /\ Flying' = Flying \union {t}
    BY DEF Flying, InFlight, Locations, Printing
  <1>2. At("deref")' = At("deref")
    BY DEF At
  <1>3. Cardinality(Flying') = Cardinality(Flying) + 1 /\ Cardinality(Flying) \in Nat
    BY <1>1, OneMore DEF Flying
  <1>4. handed' = handed + 1 /\ out' = out /\ q' = q /\ handed \in Nat /\ q.size \in Nat
    BY DEF QueueType
  <1>5. Accepted' = Accepted
    BY <1>3, <1>4 DEF Accepted
  <1>6. Accepted \in Int /\ Printed \in Int
    BY <1>3, <1>4, Counted DEF Accepted, Printed
  <1> QED
    BY <1>2, <1>4, <1>5, <1>6 DEF Counts, Printed

LEMMA DeferCounts ==
    ASSUME IInv, NEW t \in Tasks, PushClaim(t)
    PROVE  Counts(1, 1, 0)
  <1> USE DEF IInv, TypeOK, Goto, PushClaim
  <1>1. t \in Flying /\ Flying' = Flying \ {t}
    BY DEF Flying, InFlight, Locations, Printing
  <1>2. At("deref")' = At("deref")
    BY DEF At
  <1>3. Cardinality(Flying') = Cardinality(Flying) - 1 /\ Cardinality(Flying) \in Nat
    BY <1>1, OneLess DEF Flying
  <1>4. handed' = handed /\ out' = out /\ handed \in Nat
    OBVIOUS
  <1>5. q'.size = q.size + 1
    BY ClaimPushType
  <1>6. Accepted' = Accepted + 1
    BY <1>3, <1>4 DEF Accepted
  <1>7. Printed' = Printed /\ Printed \in Int
    BY <1>2, <1>4, Counted DEF Printed
  <1> QED
    BY <1>5, <1>6, <1>7 DEF Counts

LEMMA TakeCounts ==
    ASSUME IInv, NEW t \in Tasks, PopClaim(t)
    PROVE  /\ Counts(0, -1, 1)
           /\ q.size > 0
  <1> USE DEF IInv, TypeOK, Goto, PopClaim
  <1>1. ~IsEmpty(q)
    BY DEF PopNonEmpty
  <1>2. t \notin At("deref") /\ At("deref")' = At("deref") \union {t}
    BY <1>1 DEF At
  <1>3. Flying' = Flying
    BY <1>1 DEF Flying, InFlight, Locations, Printing
  <1>4. Cardinality(At("deref")') = Cardinality(At("deref")) + 1
        /\ Cardinality(At("deref")) \in Nat
    BY <1>2, OneMore DEF At
  <1>5. handed' = handed /\ out' = out /\ handed \in Nat
    OBVIOUS
  <1>6. q'.size = q.size - 1 /\ q.size > 0
    <2> DEFINE i == (q.pop_i + 1) % q.size
    <2>1. q' = [q EXCEPT !.pop_i = i, !.size = q.size - 1]
      BY <1>1 DEF ClaimPop, PopUpdate
    <2> HIDE DEF i
    <2>2. q'.size = q.size - 1
      BY <2>1 DEF QueueType
    <2> QED
      BY <1>1, <2>2, QueueAssumption DEF QueueType, IsEmpty
  <1>7. Printed' = Printed + 1
    BY <1>4, <1>5 DEF Printed
  <1>8. Accepted' = Accepted /\ Accepted \in Int
    BY <1>3, <1>5, Counted DEF Accepted
  <1>9. q.size - 1 = q.size + (-1)
    BY DEF QueueType
  <1> QED
    BY <1>6, <1>7, <1>8, <1>9 DEF Counts

\* A character that was popped counts as printed from then on.
LEMMA DeferredCounts ==
    ASSUME IInv, NEW t \in Tasks, PrintDeferred(t)
    PROVE  Counts(0, 0, 0)
  <1> USE DEF IInv, TypeOK, Goto, PrintDeferred
  <1>1. t \in At("deref") /\ At("deref")' = At("deref") \ {t}
    BY DEF At
  <1>2. Flying' = Flying
    BY DEF Flying, InFlight, Locations, Printing
  <1>3. Cardinality(At("deref")') = Cardinality(At("deref")) - 1
        /\ Cardinality(At("deref")) \in Nat
    BY <1>1, OneLess DEF At
  <1>4. Len(out') = Len(out) + 1 /\ Len(out) \in Nat
    BY DEF QueueType
  <1>5. Printed' = Printed /\ Printed \in Int
    BY <1>3, <1>4 DEF Printed
  <1>6. Accepted' = Accepted /\ Accepted \in Int
    BY <1>2, Counted DEF Accepted
  <1>7. q'.size = q.size /\ q.size \in Int
    BY DEF QueueType
  <1> QED
    BY <1>5, <1>6, <1>7 DEF Counts

LEMMA OwnCounts ==
    ASSUME IInv, NEW t \in Tasks, PrintOwn(t)
    PROVE  Counts(1, 0, 1)
  <1> USE DEF IInv, TypeOK, Goto, PrintOwn
  <1>1. t \in Flying /\ Flying' = Flying \ {t}
    BY DEF Flying, InFlight, Locations, Printing
  <1>2. At("deref")' = At("deref")
    BY DEF At
  <1>3. Cardinality(Flying') = Cardinality(Flying) - 1 /\ Cardinality(Flying) \in Nat
    BY <1>1, OneLess DEF Flying
  <1>4. Len(out') = Len(out) + 1 /\ Len(out) \in Nat
    OBVIOUS
  <1>5. Accepted' = Accepted + 1
    BY <1>3 DEF Accepted
  <1>6. Printed' = Printed + 1
    BY <1>2, <1>4, Counted DEF Printed
  <1>7. q'.size = q.size /\ q.size \in Int
    BY DEF QueueType
  <1> QED
    BY <1>5, <1>6, <1>7 DEF Counts

-----------------------------------------------------------------------------
(* The counts of every step. *)

\* No other step changes a count.
LEMMA RestCounts ==
    ASSUME IInv, NEW t \in Tasks,
           \/ PushLock(t) \/ PushRefused(t) \/ PushStore(t) \/ WaitForDevice(t)
           \/ TestSize(t) \/ PopLock(t) \/ Release(t)
    PROVE  Counts(0, 0, 0)
  <1> USE DEF IInv, TypeOK, Goto
  <1>1. Quiet
    BY DEF Quiet, Flying, At, InFlight, Locations, Printing, PushLock, PushRefused, PushStore,
           WaitForDevice, TestSize, PopLock, Release
  <1>2. handed' = handed /\ out' = out
    BY DEF PushLock, PushRefused, PushStore, WaitForDevice, TestSize, PopLock, Release
  <1>3. q'.size = q.size
    BY StoreType DEF PushLock, PushRefused, PushStore, WaitForDevice, TestSize, PopLock, Release
  <1> QED
    BY <1>1, <1>2, <1>3, QuietCounts

LEMMA StutterCounts == ASSUME IInv, UNCHANGED vars PROVE Counts(0, 0, 0)
  <1>1. Quiet
    BY DEF vars, Quiet, Flying, At
  <1> QED
    BY <1>1, QuietCounts DEF vars

\* Accepted characters are waiting or printed.
Balanced == Accepted = q.size + Printed

LEMMA BalancedIsConserved == IInv => (Balanced <=> CharsConserved)
  <1> SUFFICES ASSUME IInv PROVE Balanced <=> CharsConserved
    OBVIOUS
  <1>1. handed \in Nat /\ q.size \in Nat /\ Len(out) \in Nat
    BY DEF IInv, TypeOK, QueueType
  <1> QED
    BY <1>1, Counted DEF Balanced, CharsConserved, Accepted, Printed, Flying

LEMMA CountsKeepBalance ==
    ASSUME IInv, Balanced, NEW a \in Int, NEW s \in Int, NEW p \in Int, Counts(a, s, p), a = s + p
    PROVE  Balanced'
  <1>1. Accepted \in Int /\ q.size \in Int /\ Printed \in Int
    BY Counted DEF IInv, TypeOK, QueueType, Accepted, Printed
  <1> QED
    BY <1>1 DEF Balanced, Counts

LEMMA InitBalanced == Init => Balanced
  <1> SUFFICES ASSUME Init PROVE Balanced
    OBVIOUS
  <1>1. Flying = {} /\ At("deref") = {}
    BY DEF Init, Flying, At, InFlight, Locations, Printing
  <1>2. Cardinality(Flying) = 0 /\ Cardinality(At("deref")) = 0
    BY <1>1, FS_EmptySet
  <1>3. handed = 0 /\ q.size = 0 /\ Len(out) = 0
    BY DEF Init, EmptyQueue
  <1> QED
    BY <1>2, <1>3 DEF Balanced, Accepted, Printed

LEMMA BalancedStep == IInv /\ Balanced /\ [Next]_vars => Balanced'
  <1> SUFFICES ASSUME IInv, Balanced, [Next]_vars PROVE Balanced'
    OBVIOUS
  <1>1. ASSUME NEW t \in Tasks, NEW ch \in Elem, WriteChar(t, ch) PROVE Balanced'
    BY <1>1, CallCounts, CountsKeepBalance
  <1>2. ASSUME NEW t \in Tasks, PushClaim(t) PROVE Balanced'
    BY <1>2, DeferCounts, CountsKeepBalance
  <1>3. ASSUME NEW t \in Tasks, PopClaim(t) PROVE Balanced'
    BY <1>3, TakeCounts, CountsKeepBalance
  <1>4. ASSUME NEW t \in Tasks, PrintDeferred(t) PROVE Balanced'
    BY <1>4, DeferredCounts, CountsKeepBalance
  <1>5. ASSUME NEW t \in Tasks, PrintOwn(t) PROVE Balanced'
    BY <1>5, OwnCounts, CountsKeepBalance
  <1>6. ASSUME NEW t \in Tasks,
               \/ PushLock(t) \/ PushRefused(t) \/ PushStore(t) \/ WaitForDevice(t)
               \/ TestSize(t) \/ PopLock(t) \/ Release(t)
        PROVE  Balanced'
    BY <1>6, RestCounts, CountsKeepBalance
  <1>7. CASE UNCHANGED vars
    BY <1>7, StutterCounts, CountsKeepBalance
  <1> QED
    BY <1>1, <1>2, <1>3, <1>4, <1>5, <1>6, <1>7 DEF Next, Continue, Finished

\* As many characters are printed, waiting or under way as write_char was called
\* with.  It only counts: the queue may overwrite a slot that nobody has read.
THEOREM CharactersCounted == Spec => []CharsConserved
  <1>1. IInv /\ Balanced /\ [Next]_vars => Balanced'
    BY BalancedStep
  <1>2. IInv /\ Balanced => CharsConserved
    BY BalancedIsConserved
  <1> QED
    BY <1>1, <1>2, InitBalanced, Invariance, PTL DEF Spec

-----------------------------------------------------------------------------
(* The device. *)

\* One at a time: whoever is printing is the owner.
LEMMA OwnerIs ==
    ASSUME Exclusion, NEW t \in Printers
    PROVE  Owner = t
  BY DEF Exclusion, Owner

LEMMA OwnerIsNext ==
    ASSUME Exclusion', NEW t \in Printers'
    PROVE  Owner' = t
  BY DEF Exclusion, Owner

Stays == Printers' = Printers /\ At("unlock")' = At("unlock")

\* A step that changes no count and nobody's place at the device.
LEMMA StaysStutters ==
    ASSUME IInv, Stays, Counts(0, 0, 0)
    PROVE  UNCHANGED Device!deviceVars
  <1>1. Accepted' = Accepted /\ q'.size = q.size /\ Printed' = Printed
    BY Counted DEF Counts, Accepted, Printed, IInv, TypeOK, QueueType
  <1>2. Owner' = Owner
    BY DEF Stays, Owner
  <1> QED
    BY <1>1, <1>2 DEF Stays, Device!deviceVars, Owner, Accepted, Printed, Flying

\* A task comes to the device when nobody is there, by try_lock or by lock.
LEMMA Acquires ==
    ASSUME IInv, IInv', NEW t \in Tasks, Counts(0, 0, 0), io_lock = Free,
           pc' = [pc EXCEPT ![t] = "drain"], pc[t] \notin Printing
    PROVE  Device!Acquire(t)
  <1> USE DEF IInv, TypeOK
  <1>1. Printers = {} /\ At("unlock") = {}
    BY DEF Exclusion, Printers, At, Printing
  <1>2. t \in Printers'
    BY DEF Printers, Printing
  <1>3. At("unlock")' = {}
    BY <1>1 DEF At
  <1>4. Owner = Nobody /\ Owner' = t
    BY <1>1, <1>2, OwnerIsNext DEF Owner
  <1>5. Accepted' = Accepted /\ q'.size = q.size /\ Printed' = Printed
    BY Counted DEF Counts, Accepted, Printed, QueueType
  <1> QED
    BY <1>1, <1>3, <1>4, <1>5 DEF Device!Acquire, Owner, Accepted, Printed, Flying

LEMMA CallStep ==
    ASSUME IInv, IInv', NEW t \in Tasks, NEW ch \in Elem, WriteChar(t, ch)
    PROVE  [Device!DeviceNext]_(Device!deviceVars)
  <1> USE DEF IInv, TypeOK, WriteChar, Goto, TryLockSucceeds
  <1>1. Counts(0, 0, 0)
    BY CallCounts
  <1>2. CASE io_lock = Free
    BY <1>1, <1>2, Acquires DEF Device!DeviceNext, Printing
  <1>3. CASE io_lock # Free
    <2>1. Stays
      BY <1>3 DEF Stays, Printers, At, Printing
    <2> QED
      BY <1>1, <2>1, StaysStutters
  <1> QED
    BY <1>2, <1>3

LEMMA WaitStep ==
    ASSUME IInv, IInv', NEW t \in Tasks, WaitForDevice(t)
    PROVE  [Device!DeviceNext]_(Device!deviceVars)
  <1>1. Counts(0, 0, 0)
    BY RestCounts
  <1>2. Device!Acquire(t)
    BY <1>1, Acquires DEF WaitForDevice, Goto, Lock, Printing
  <1> QED
    BY <1>2 DEF Device!DeviceNext

LEMMA DeferStep ==
    ASSUME IInv, NEW t \in Tasks, PushClaim(t)
    PROVE  [Device!DeviceNext]_(Device!deviceVars)
  <1> USE DEF IInv, TypeOK
  <1>1. Stays
    BY DEF Stays, PushClaim, Goto, Printers, At, Printing
  <1>2. Counts(1, 1, 0)
    BY DeferCounts
  <1>3. Printed' = Printed /\ Owner' = Owner
    BY <1>1, <1>2, Counted DEF Counts, Printed, Stays, Owner
  <1>4. q.size < Cap
    BY QueueAssumption DEF PushClaim, IsFull, QueueType
  <1>5. Device!Defer
    BY <1>1, <1>2, <1>3, <1>4 DEF Device!Defer, Stays, Counts, Owner, Accepted, Printed, Flying
  <1> QED
    BY <1>5 DEF Device!DeviceNext

\* The printer is the only task at the device, so no other is done with it.
LEMMA AtWork ==
    ASSUME IInv, NEW t \in Printers, pc[t] # "unlock"
    PROVE  At("unlock") = {} /\ Owner = t /\ Owner # Nobody
  <1>1. Owner = t
    BY OwnerIs DEF IInv
  <1>2. At("unlock") = {}
    BY DEF IInv, Exclusion, At, Printers, Printing
  <1> QED
    BY <1>1, <1>2, TasksAssumption DEF Printers

LEMMA TakeStep ==
    ASSUME IInv, NEW t \in Tasks, PopClaim(t)
    PROVE  [Device!DeviceNext]_(Device!deviceVars)
  <1> USE DEF IInv, TypeOK
  <1>1. Stays
    BY DEF Stays, PopClaim, Goto, Printers, At, Printing
  <1>2. Counts(0, -1, 1) /\ q.size > 0
    BY TakeCounts
  <1>3. At("unlock") = {} /\ Owner # Nobody
    BY AtWork DEF PopClaim, Goto, Printers, Printing
  <1>4. Accepted' = Accepted /\ q'.size = q.size - 1 /\ Owner' = Owner
    BY <1>1, <1>2, Counted DEF Counts, Accepted, QueueType, Stays, Owner
  <1>5. Device!PrintDeferred
    BY <1>1, <1>2, <1>3, <1>4
       DEF Device!PrintDeferred, Stays, Counts, Owner, Accepted, Printed, Flying
  <1> QED
    BY <1>5 DEF Device!DeviceNext

LEMMA OwnStep ==
    ASSUME IInv, NEW t \in Tasks, PrintOwn(t)
    PROVE  [Device!DeviceNext]_(Device!deviceVars)
  <1> USE DEF IInv, TypeOK
  <1>1. Printers' = Printers /\ t \in At("unlock")'
    BY DEF PrintOwn, Goto, Printers, At, Printing
  <1>2. Counts(1, 0, 1)
    BY OwnCounts
  <1>3. At("unlock") = {} /\ Owner # Nobody
    BY AtWork DEF PrintOwn, Goto, Printers, Printing
  <1>4. q'.size = q.size /\ Owner' = Owner
    BY <1>1, <1>2 DEF Counts, QueueType, Owner
  <1>5. Device!PrintOwn
    BY <1>1, <1>2, <1>3, <1>4
       DEF Device!PrintOwn, Counts, Owner, Accepted, Printed, Flying
  <1> QED
    BY <1>5 DEF Device!DeviceNext

LEMMA ReleaseStep ==
    ASSUME IInv, NEW t \in Tasks, Release(t)
    PROVE  [Device!DeviceNext]_(Device!deviceVars)
  <1> USE DEF IInv, TypeOK
  <1>1. Counts(0, 0, 0)
    BY RestCounts
  <1>2. t \in At("unlock") /\ Printers' = {} /\ At("unlock")' = {}
    BY DEF Release, Goto, Exclusion, Printers, At, Printing
  <1>3. Owner' = Nobody
    BY <1>2 DEF Owner
  <1>4. Accepted' = Accepted /\ q'.size = q.size /\ Printed' = Printed
    BY <1>1, Counted DEF Counts, Accepted, Printed, QueueType
  <1>5. Device!Release
    BY <1>2, <1>3, <1>4 DEF Device!Release, Owner, Accepted, Printed, Flying
  <1> QED
    BY <1>5 DEF Device!DeviceNext

LEMMA RestStep ==
    ASSUME IInv, NEW t \in Tasks,
           \/ PushLock(t) \/ PushRefused(t) \/ PushStore(t)
           \/ TestSize(t) \/ PopLock(t) \/ PrintDeferred(t)
    PROVE  [Device!DeviceNext]_(Device!deviceVars)
  <1>1. Stays
    BY DEF Stays, IInv, TypeOK, Goto, Printers, At, Printing, PushLock, PushRefused, PushStore,
           TestSize, PopLock, PrintDeferred
  <1>2. Counts(0, 0, 0)
    BY RestCounts, DeferredCounts
  <1> QED
    BY <1>1, <1>2, StaysStutters

LEMMA InitDevice == Init => Device!DeviceInit
  <1> SUFFICES ASSUME Init PROVE Device!DeviceInit
    OBVIOUS
  <1>1. Flying = {} /\ At("deref") = {} /\ At("unlock") = {} /\ Printers = {}
    BY DEF Init, Flying, At, InFlight, Locations, Printing, Printers
  <1>2. Cardinality(Flying) = 0 /\ Cardinality(At("deref")) = 0
    BY <1>1, FS_EmptySet
  <1>3. handed = 0 /\ q.size = 0 /\ Len(out) = 0
    BY DEF Init, EmptyQueue
  <1> QED
    BY <1>1, <1>2, <1>3 DEF Device!DeviceInit, Flying

\* The two locks, the backlog and the unlocked test together are a device with
\* one owner, a bounded backlog and a conserved number of characters.
THEOREM ConsoleIsDevice == Spec => ImplementsDevice
  <1>1. ASSUME IInv, IInv', [Next]_vars PROVE [Device!DeviceNext]_(Device!deviceVars)
    <2>1. ASSUME NEW t \in Tasks, NEW ch \in Elem, WriteChar(t, ch)
          PROVE  [Device!DeviceNext]_(Device!deviceVars)
      BY <1>1, <2>1, CallStep
    <2>2. ASSUME NEW t \in Tasks, Continue(t)
          PROVE  [Device!DeviceNext]_(Device!deviceVars)
      BY <1>1, <2>2, WaitStep, DeferStep, TakeStep, OwnStep, ReleaseStep, RestStep DEF Continue
    <2>3. CASE UNCHANGED vars
      <3>1. Stays
        BY <2>3 DEF vars, Stays, Printers, At
      <3> QED
        BY <1>1, <2>3, <3>1, StutterCounts, StaysStutters
    <2> QED
      BY <1>1, <2>1, <2>2, <2>3 DEF Next, Finished
  <1> QED
    BY <1>1, InitDevice, Invariance, PTL DEF Spec, Device!DeviceSpec, ImplementsDevice
=============================================================================
