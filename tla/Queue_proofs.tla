---------------------------- MODULE Queue_proofs ----------------------------
(***************************************************************************)
(* Proofs about Queue, for every set of threads, capacity and number of    *)
(* calls.  What a thread tested still holds, and what it has read of the   *)
(* queue is still there (Fresh), because at most one thread is between the *)
(* lock and the unlock (Alone); the inductive invariant adds the types,    *)
(* which the index of a claimed slot needs.  That size is the ledger of    *)
(* the calls is inductive on top of it: without Fresh an update is lost.   *)
(***************************************************************************)
EXTENDS Queue, FiniteSetTheorems, SequenceTheorems, TLAPS

USE DEF Free, Held

\* Two threads are never between lock and unlock, and who is there holds the
\* mutex.  The converse fails: an empty pop leaves the mutex held.
Alone == /\ Inside # {} => m = Held
         /\ \A s, t \in Inside : s = t

\* A push has an element of its caller in hand.
Loaded == \A t \in Threads :
              pc[t] \in {"push_lock", "push_cs", "push_claim", "push_write",
                        "push_store"} => elem[t] \in Elem

\* The size that a thread is about to write back, one up or one down, is the one
\* it has read.
Fresh == \A t \in Threads :
             pc[t] \in {"push_write", "pop_write"} => old_size[t] = q.size

IInv == TypeOK /\ Alone /\ Loaded /\ TestStillHolds /\ Fresh

-----------------------------------------------------------------------------
(* The operators of QueueOps, for every capacity and any elements. *)

\* Adding one and wrapping stays below any positive modulus.
LEMMA WrapBelow ==
    ASSUME NEW i \in Nat, NEW n \in Nat \ {0}
    PROVE  (i + 1) % n \in 0 .. n - 1
  OBVIOUS

\* What queue_push writes makes a queue of a queue that is not full, with one more
\* element, although the index wraps at the new size.
LEMMA PushUpdateType ==
    ASSUME NEW r \in QueueType, NEW i \in Slots, NEW n \in 0 .. Cap, n < Cap
    PROVE  /\ PushUpdate(r, i, n) \in QueueType
           /\ PushUpdate(r, i, n).size = n + 1
  <1>1. (i + 1) % (n + 1) \in 0 .. (n + 1) - 1
    BY QueueAssumption, WrapBelow DEF Slots
  <1>2. (i + 1) % (n + 1) \in Slots /\ n + 1 \in 0 .. Cap
    BY <1>1, QueueAssumption DEF Slots
  <1> QED
    BY <1>2 DEF PushUpdate, QueueType

\* So does what queue_pop writes of one that is not empty, with one element less.
LEMMA PopUpdateType ==
    ASSUME NEW r \in QueueType, NEW i \in Slots, NEW n \in 0 .. Cap, n # 0
    PROVE  /\ PopUpdate(r, i, n) \in QueueType
           /\ PopUpdate(r, i, n).size = n - 1
  <1>1. (i + 1) % n \in 0 .. n - 1
    BY QueueAssumption, WrapBelow DEF Slots
  <1>2. (i + 1) % n \in Slots /\ n - 1 \in 0 .. Cap
    BY <1>1, QueueAssumption DEF Slots
  <1> QED
    BY <1>2 DEF PopUpdate, QueueType

\* Writing a slot leaves a queue of the same size.
LEMMA StoreType ==
    ASSUME NEW r \in QueueType, NEW i \in Slots, NEW e \in Elem \union {Garbage}
    PROVE  /\ Store(r, i, e) \in QueueType
           /\ Store(r, i, e).size = r.size
  BY DEF QueueType, Store

-----------------------------------------------------------------------------
LEMMA InitIInv == Init => IInv
  <1> SUFFICES ASSUME Init PROVE IInv
    OBVIOUS
  <1>1. EmptyQueue \in QueueType /\ 0 \in Slots
    BY QueueAssumption DEF EmptyQueue, QueueType, Slots
  <1>2. TypeOK
    BY <1>1, ThreadsAssumption, QueueAssumption DEF Init, TypeOK
  <1> QED
    BY <1>2 DEF IInv, Init, Alone, Inside, Loaded, TestStillHolds, Fresh

\* A push that writes makes the queue one longer.
LEMMA PushWritten ==
    ASSUME IInv, NEW t \in Threads, PushWrite(t)
    PROVE  q' \in QueueType /\ q'.size = q.size + 1
  <1>1. pc[t] = "push_write" /\ q' = PushUpdate(q, old_i[t], old_size[t])
    BY DEF PushWrite, Goto
  <1>2. /\ q \in QueueType /\ q.size \in 0 .. Cap
        /\ old_i[t] \in Slots /\ old_size[t] \in 0 .. Cap
    BY DEF IInv, TypeOK, QueueType
  <1>3. old_size[t] = q.size /\ q.size < Cap
    BY <1>1, <1>2, QueueAssumption DEF IInv, Fresh, TestStillHolds, IsFull
  <1> QED
    BY <1>1, <1>2, <1>3, PushUpdateType

\* A pop that writes makes it one shorter.
LEMMA PopWritten ==
    ASSUME IInv, NEW t \in Threads, PopWrite(t)
    PROVE  q' \in QueueType /\ q'.size = q.size - 1
  <1>1. pc[t] = "pop_write" /\ q' = PopUpdate(q, old_i[t], old_size[t])
    BY DEF PopWrite, Goto
  <1>2. /\ q \in QueueType /\ q.size \in 0 .. Cap
        /\ old_i[t] \in Slots /\ old_size[t] \in 0 .. Cap
    BY DEF IInv, TypeOK, QueueType
  <1>3. old_size[t] = q.size /\ q.size # 0
    BY <1>1, <1>2 DEF IInv, Fresh, TestStillHolds, IsEmpty
  <1> QED
    BY <1>1, <1>2, <1>3, PopUpdateType

LEMMA TypeStep == IInv /\ [Next]_vars => TypeOK'
  <1> SUFFICES ASSUME IInv, [Next]_vars PROVE TypeOK'
    OBVIOUS
  <1> USE DEF IInv, TypeOK, Goto, Lock, Unlock
  <1>1. ASSUME NEW t \in Threads, NEW e \in Elem, CallPush(t, e) PROVE TypeOK'
    BY <1>1, ThreadsAssumption DEF CallPush, Begin
  <1>2. ASSUME NEW t \in Threads, CallPop(t) PROVE TypeOK'
    BY <1>2, ThreadsAssumption DEF CallPop, Begin
  <1>3. ASSUME NEW t \in Threads, PushLock(t) PROVE TypeOK'
    BY <1>3 DEF PushLock
  <1>4. ASSUME NEW t \in Threads, PushRefused(t) PROVE TypeOK'
    BY <1>4 DEF PushRefused
  <1>5. ASSUME NEW t \in Threads, PushRoom(t) PROVE TypeOK'
    BY <1>5 DEF PushRoom
  <1>6. ASSUME NEW t \in Threads, PushRead(t) PROVE TypeOK'
    BY <1>6 DEF PushRead, QueueType
  <1>14. ASSUME NEW t \in Threads, PushWrite(t) PROVE TypeOK'
    <2>1. q' \in QueueType
      BY <1>14, PushWritten
    <2>2. accepted' \in Seq(Elem)
      <3>1. elem[t] \in Elem
        BY <1>14 DEF PushWrite, Loaded
      <3> QED
        BY <1>14, <3>1 DEF PushWrite
    <2> QED
      BY <1>14, <2>1, <2>2 DEF PushWrite
  <1>7. ASSUME NEW t \in Threads, PushStore(t) PROVE TypeOK'
    <2>1. q' \in QueueType
      BY <1>7, StoreType DEF PushStore
    <2> QED
      BY <1>7, <2>1 DEF PushStore
  <1>8. ASSUME NEW t \in Threads, PopLock(t) PROVE TypeOK'
    BY <1>8 DEF PopLock
  <1>9. ASSUME NEW t \in Threads, PopNull(t) PROVE TypeOK'
    BY <1>9 DEF PopNull
  <1>10. ASSUME NEW t \in Threads, PopSome(t) PROVE TypeOK'
    BY <1>10 DEF PopSome
  <1>11. ASSUME NEW t \in Threads, PopRead(t) PROVE TypeOK'
    BY <1>11 DEF PopRead, QueueType
  <1>15. ASSUME NEW t \in Threads, PopWrite(t) PROVE TypeOK'
    BY <1>15, PopWritten DEF PopWrite
  <1>12. ASSUME NEW t \in Threads, Deref(t) PROVE TypeOK'
    <2>1. q.data[old_i[t]] \in Elem \union {Garbage}
      BY DEF QueueType
    <2>2. taken' \in Seq(Elem \union {Garbage})
      BY <1>12, <2>1 DEF Deref
    <2> QED
      BY <1>12, <2>2 DEF Deref
  <1>13. CASE UNCHANGED vars
    BY <1>13 DEF vars
  <1> QED
    BY <1>1, <1>2, <1>3, <1>4, <1>5, <1>6, <1>7, <1>8, <1>9, <1>10, <1>11, <1>12, <1>13,
       <1>14, <1>15 DEF Next, Step

\* At most one thread is between lock and unlock.
LEMMA AloneStep == IInv /\ [Next]_vars => Alone'
  <1> SUFFICES ASSUME IInv, [Next]_vars PROVE Alone'
    OBVIOUS
  <1> USE DEF IInv, TypeOK, Alone, Inside, Goto, Lock, Unlock
  <1>1. ASSUME NEW t \in Threads, NEW e \in Elem, CallPush(t, e) PROVE Alone'
    BY <1>1 DEF CallPush
  <1>2. ASSUME NEW t \in Threads, CallPop(t) PROVE Alone'
    BY <1>2 DEF CallPop
  <1>3. ASSUME NEW t \in Threads, PushLock(t) PROVE Alone'
    BY <1>3 DEF PushLock
  <1>4. ASSUME NEW t \in Threads, PushRefused(t) PROVE Alone'
    BY <1>4 DEF PushRefused
  <1>5. ASSUME NEW t \in Threads, PushRoom(t) PROVE Alone'
    BY <1>5 DEF PushRoom
  <1>6. ASSUME NEW t \in Threads, PushRead(t) PROVE Alone'
    BY <1>6 DEF PushRead
  <1>14. ASSUME NEW t \in Threads, PushWrite(t) PROVE Alone'
    BY <1>14 DEF PushWrite
  <1>7. ASSUME NEW t \in Threads, PushStore(t) PROVE Alone'
    BY <1>7 DEF PushStore
  <1>8. ASSUME NEW t \in Threads, PopLock(t) PROVE Alone'
    BY <1>8 DEF PopLock
  <1>9. ASSUME NEW t \in Threads, PopNull(t) PROVE Alone'
    BY <1>9 DEF PopNull
  <1>10. ASSUME NEW t \in Threads, PopSome(t) PROVE Alone'
    BY <1>10 DEF PopSome
  <1>11. ASSUME NEW t \in Threads, PopRead(t) PROVE Alone'
    BY <1>11 DEF PopRead
  <1>15. ASSUME NEW t \in Threads, PopWrite(t) PROVE Alone'
    BY <1>15 DEF PopWrite
  <1>12. ASSUME NEW t \in Threads, Deref(t) PROVE Alone'
    BY <1>12 DEF Deref
  <1>13. CASE UNCHANGED vars
    BY <1>13 DEF vars
  <1> QED
    BY <1>1, <1>2, <1>3, <1>4, <1>5, <1>6, <1>7, <1>8, <1>9, <1>10, <1>11, <1>12, <1>13,
       <1>14, <1>15 DEF Next, Step

LEMMA LoadedStep == IInv /\ [Next]_vars => Loaded'
  <1> SUFFICES ASSUME IInv, [Next]_vars PROVE Loaded'
    OBVIOUS
  <1> USE DEF IInv, TypeOK, Loaded, Goto
  <1>1. ASSUME NEW t \in Threads, NEW e \in Elem, CallPush(t, e) PROVE Loaded'
    BY <1>1 DEF CallPush
  <1>2. ASSUME NEW t \in Threads, CallPop(t) PROVE Loaded'
    BY <1>2 DEF CallPop
  <1>3. ASSUME NEW t \in Threads, PushLock(t) PROVE Loaded'
    BY <1>3 DEF PushLock
  <1>4. ASSUME NEW t \in Threads, PushRefused(t) PROVE Loaded'
    BY <1>4 DEF PushRefused
  <1>5. ASSUME NEW t \in Threads, PushRoom(t) PROVE Loaded'
    BY <1>5 DEF PushRoom
  <1>6. ASSUME NEW t \in Threads, PushRead(t) PROVE Loaded'
    BY <1>6 DEF PushRead
  <1>14. ASSUME NEW t \in Threads, PushWrite(t) PROVE Loaded'
    BY <1>14 DEF PushWrite
  <1>7. ASSUME NEW t \in Threads, PushStore(t) PROVE Loaded'
    BY <1>7 DEF PushStore
  <1>8. ASSUME NEW t \in Threads, PopLock(t) PROVE Loaded'
    BY <1>8 DEF PopLock
  <1>9. ASSUME NEW t \in Threads, PopNull(t) PROVE Loaded'
    BY <1>9 DEF PopNull
  <1>10. ASSUME NEW t \in Threads, PopSome(t) PROVE Loaded'
    BY <1>10 DEF PopSome
  <1>11. ASSUME NEW t \in Threads, PopRead(t) PROVE Loaded'
    BY <1>11 DEF PopRead
  <1>15. ASSUME NEW t \in Threads, PopWrite(t) PROVE Loaded'
    BY <1>15 DEF PopWrite
  <1>12. ASSUME NEW t \in Threads, Deref(t) PROVE Loaded'
    BY <1>12 DEF Deref
  <1>13. CASE UNCHANGED vars
    BY <1>13 DEF vars
  <1> QED
    BY <1>1, <1>2, <1>3, <1>4, <1>5, <1>6, <1>7, <1>8, <1>9, <1>10, <1>11, <1>12, <1>13,
       <1>14, <1>15 DEF Next, Step

\* Where a thread acts on what it has tested.
Acting == {"push_claim", "push_write", "pop_claim", "pop_write"}

\* Nobody else can change the size between the test and the write.
LEMMA TestStep == IInv /\ [Next]_vars => TestStillHolds'
  <1> SUFFICES ASSUME IInv, [Next]_vars PROVE TestStillHolds'
    OBVIOUS
  <1> USE DEF IInv, TypeOK, TestStillHolds, Goto
  <1>1. ASSUME NEW t \in Threads, NEW e \in Elem, CallPush(t, e) PROVE TestStillHolds'
    BY <1>1 DEF CallPush
  <1>2. ASSUME NEW t \in Threads, CallPop(t) PROVE TestStillHolds'
    BY <1>2 DEF CallPop
  <1>3. ASSUME NEW t \in Threads, PushLock(t) PROVE TestStillHolds'
    BY <1>3 DEF PushLock
  <1>4. ASSUME NEW t \in Threads, PushRefused(t) PROVE TestStillHolds'
    BY <1>4 DEF PushRefused
  <1>5. ASSUME NEW t \in Threads, PushRoom(t) PROVE TestStillHolds'
    BY <1>5 DEF PushRoom
  <1>6. ASSUME NEW t \in Threads, PushRead(t) PROVE TestStillHolds'
    BY <1>6 DEF PushRead
  <1>14. ASSUME NEW t \in Threads, PushWrite(t) PROVE TestStillHolds'
    <2>1. \A s \in Threads : pc'[s] \notin Acting
      BY <1>14 DEF PushWrite, Alone, Inside, Acting
    <2> QED
      BY <2>1 DEF Acting
  <1>7. ASSUME NEW t \in Threads, PushStore(t) PROVE TestStillHolds'
    <2>1. q'.size = q.size
      BY <1>7, StoreType DEF PushStore
    <2> QED
      BY <1>7, <2>1 DEF PushStore, IsFull, IsEmpty
  <1>8. ASSUME NEW t \in Threads, PopLock(t) PROVE TestStillHolds'
    BY <1>8 DEF PopLock
  <1>9. ASSUME NEW t \in Threads, PopNull(t) PROVE TestStillHolds'
    BY <1>9 DEF PopNull
  <1>10. ASSUME NEW t \in Threads, PopSome(t) PROVE TestStillHolds'
    BY <1>10 DEF PopSome
  <1>11. ASSUME NEW t \in Threads, PopRead(t) PROVE TestStillHolds'
    BY <1>11 DEF PopRead
  <1>15. ASSUME NEW t \in Threads, PopWrite(t) PROVE TestStillHolds'
    <2>1. \A s \in Threads : pc'[s] \notin Acting
      BY <1>15 DEF PopWrite, Alone, Inside, Acting
    <2> QED
      BY <2>1 DEF Acting
  <1>12. ASSUME NEW t \in Threads, Deref(t) PROVE TestStillHolds'
    BY <1>12 DEF Deref
  <1>13. CASE UNCHANGED vars
    BY <1>13 DEF vars
  <1> QED
    BY <1>1, <1>2, <1>3, <1>4, <1>5, <1>6, <1>7, <1>8, <1>9, <1>10, <1>11, <1>12, <1>13,
       <1>14, <1>15 DEF Next, Step

\* Nor between the read and the write.
LEMMA FreshStep == IInv /\ [Next]_vars => Fresh'
  <1> SUFFICES ASSUME IInv, [Next]_vars PROVE Fresh'
    OBVIOUS
  <1> USE DEF IInv, TypeOK, Fresh, Goto
  <1>1. ASSUME NEW t \in Threads, NEW e \in Elem, CallPush(t, e) PROVE Fresh'
    BY <1>1 DEF CallPush
  <1>2. ASSUME NEW t \in Threads, CallPop(t) PROVE Fresh'
    BY <1>2 DEF CallPop
  <1>3. ASSUME NEW t \in Threads, PushLock(t) PROVE Fresh'
    BY <1>3 DEF PushLock
  <1>4. ASSUME NEW t \in Threads, PushRefused(t) PROVE Fresh'
    BY <1>4 DEF PushRefused
  <1>5. ASSUME NEW t \in Threads, PushRoom(t) PROVE Fresh'
    BY <1>5 DEF PushRoom
  <1>6. ASSUME NEW t \in Threads, PushRead(t) PROVE Fresh'
    BY <1>6 DEF PushRead
  <1>14. ASSUME NEW t \in Threads, PushWrite(t) PROVE Fresh'
    <2>1. \A s \in Threads : pc'[s] \notin Acting
      BY <1>14 DEF PushWrite, Alone, Inside, Acting
    <2> QED
      BY <2>1 DEF Acting
  <1>7. ASSUME NEW t \in Threads, PushStore(t) PROVE Fresh'
    <2>1. q'.size = q.size
      BY <1>7, StoreType DEF PushStore
    <2> QED
      BY <1>7, <2>1 DEF PushStore
  <1>8. ASSUME NEW t \in Threads, PopLock(t) PROVE Fresh'
    BY <1>8 DEF PopLock
  <1>9. ASSUME NEW t \in Threads, PopNull(t) PROVE Fresh'
    BY <1>9 DEF PopNull
  <1>10. ASSUME NEW t \in Threads, PopSome(t) PROVE Fresh'
    BY <1>10 DEF PopSome
  <1>11. ASSUME NEW t \in Threads, PopRead(t) PROVE Fresh'
    BY <1>11 DEF PopRead
  <1>15. ASSUME NEW t \in Threads, PopWrite(t) PROVE Fresh'
    <2>1. \A s \in Threads : pc'[s] \notin Acting
      BY <1>15 DEF PopWrite, Alone, Inside, Acting
    <2> QED
      BY <2>1 DEF Acting
  <1>12. ASSUME NEW t \in Threads, Deref(t) PROVE Fresh'
    BY <1>12 DEF Deref
  <1>13. CASE UNCHANGED vars
    BY <1>13 DEF vars
  <1> QED
    BY <1>1, <1>2, <1>3, <1>4, <1>5, <1>6, <1>7, <1>8, <1>9, <1>10, <1>11, <1>12, <1>13,
       <1>14, <1>15 DEF Next, Step

-----------------------------------------------------------------------------
\* A thread that comes to or leaves the reading of its slot changes Taking by
\* itself.
LEMMA TakingChange ==
    ASSUME TypeOK, NEW t \in Threads
    PROVE  /\ Cardinality(Taking) \in Nat
           /\ Cardinality(Taking \union {t}) = Cardinality(Taking) + IF pc[t] = "deref" THEN 0 ELSE 1
           /\ Cardinality(Taking \ {t}) = Cardinality(Taking) - IF pc[t] = "deref" THEN 1 ELSE 0
  <1>1. IsFiniteSet(Taking)
    BY ThreadsAssumption, FS_Subset DEF Taking
  <1>2. Cardinality(Taking) \in Nat
    BY <1>1, FS_CardinalityType
  <1>3. t \in Taking <=> pc[t] = "deref"
    BY DEF Taking
  <1>4. Cardinality(Taking \union {t}) = IF t \in Taking THEN Cardinality(Taking) ELSE Cardinality(Taking) + 1
    BY <1>1, FS_AddElement
  <1>5. Cardinality(Taking \ {t}) = IF t \in Taking THEN Cardinality(Taking) - 1 ELSE Cardinality(Taking)
    BY <1>1, FS_RemoveElement
  <1> QED
    BY <1>2, <1>3, <1>4, <1>5

\* A step that neither claims nor reads leaves the three counts alone.
LEMMA LedgerKept ==
    ASSUME SizeIsLedger, q'.size = q.size, UNCHANGED <<accepted, taken>>, Taking' = Taking
    PROVE  SizeIsLedger'
  BY DEF SizeIsLedger

LEMMA LedgerStep == IInv /\ SizeIsLedger /\ [Next]_vars => SizeIsLedger'
  <1> SUFFICES ASSUME IInv, SizeIsLedger, [Next]_vars PROVE SizeIsLedger'
    OBVIOUS
  <1> USE DEF IInv, TypeOK, Goto
  <1>1. ASSUME NEW t \in Threads, NEW e \in Elem, CallPush(t, e) PROVE SizeIsLedger'
    <2>1. Taking' = Taking
      BY <1>1 DEF CallPush, Taking
    <2> QED
      BY <1>1, <2>1, LedgerKept DEF CallPush, Begin
  <1>2. ASSUME NEW t \in Threads, CallPop(t) PROVE SizeIsLedger'
    <2>1. Taking' = Taking
      BY <1>2 DEF CallPop, Taking
    <2> QED
      BY <1>2, <2>1, LedgerKept DEF CallPop, Begin
  <1>3. ASSUME NEW t \in Threads, PushLock(t) PROVE SizeIsLedger'
    <2>1. Taking' = Taking
      BY <1>3 DEF PushLock, Taking
    <2> QED
      BY <1>3, <2>1, LedgerKept DEF PushLock
  <1>4. ASSUME NEW t \in Threads, PushRefused(t) PROVE SizeIsLedger'
    <2>1. Taking' = Taking
      BY <1>4 DEF PushRefused, Taking
    <2> QED
      BY <1>4, <2>1, LedgerKept DEF PushRefused
  <1>5. ASSUME NEW t \in Threads, PushRoom(t) PROVE SizeIsLedger'
    <2>1. Taking' = Taking
      BY <1>5 DEF PushRoom, Taking
    <2> QED
      BY <1>5, <2>1, LedgerKept DEF PushRoom
  <1>6. ASSUME NEW t \in Threads, PushRead(t) PROVE SizeIsLedger'
    <2>1. Taking' = Taking
      BY <1>6 DEF PushRead, Taking
    <2> QED
      BY <1>6, <2>1, LedgerKept DEF PushRead
  <1>14. ASSUME NEW t \in Threads, PushWrite(t) PROVE SizeIsLedger'
    <2>1. Taking' = Taking
      BY <1>14 DEF PushWrite, Taking
    <2>2. q'.size = q.size + 1
      BY <1>14, PushWritten
    <2>3. Len(accepted') = Len(accepted) + 1
      BY <1>14 DEF PushWrite
    <2>4. Len(accepted) \in Nat /\ Len(taken) \in Nat /\ taken' = taken
      BY <1>14 DEF PushWrite
    <2>5. Cardinality(Taking) \in Nat
      BY <1>14, TakingChange
    <2> QED
      BY <2>1, <2>2, <2>3, <2>4, <2>5 DEF SizeIsLedger
  <1>7. ASSUME NEW t \in Threads, PushStore(t) PROVE SizeIsLedger'
    <2>1. Taking' = Taking
      BY <1>7 DEF PushStore, Taking
    <2>2. q'.size = q.size
      BY <1>7, StoreType DEF PushStore
    <2> QED
      BY <1>7, <2>1, <2>2, LedgerKept DEF PushStore
  <1>8. ASSUME NEW t \in Threads, PopLock(t) PROVE SizeIsLedger'
    <2>1. Taking' = Taking
      BY <1>8 DEF PopLock, Taking
    <2> QED
      BY <1>8, <2>1, LedgerKept DEF PopLock
  <1>9. ASSUME NEW t \in Threads, PopNull(t) PROVE SizeIsLedger'
    <2>1. Taking' = Taking
      BY <1>9 DEF PopNull, Taking
    <2> QED
      BY <1>9, <2>1, LedgerKept DEF PopNull
  <1>10. ASSUME NEW t \in Threads, PopSome(t) PROVE SizeIsLedger'
    <2>1. Taking' = Taking
      BY <1>10 DEF PopSome, Taking
    <2> QED
      BY <1>10, <2>1, LedgerKept DEF PopSome
  <1>11. ASSUME NEW t \in Threads, PopRead(t) PROVE SizeIsLedger'
    <2>1. Taking' = Taking
      BY <1>11 DEF PopRead, Taking
    <2> QED
      BY <1>11, <2>1, LedgerKept DEF PopRead
  <1>15. ASSUME NEW t \in Threads, PopWrite(t) PROVE SizeIsLedger'
    <2>1. Taking' = Taking \union {t} /\ pc[t] # "deref"
      BY <1>15 DEF PopWrite, Taking
    <2>2. q'.size = q.size - 1
      BY <1>15, PopWritten
    <2>3. Cardinality(Taking') = Cardinality(Taking) + 1 /\ Cardinality(Taking) \in Nat
      BY <2>1, TakingChange
    <2>4. /\ accepted' = accepted /\ taken' = taken
          /\ Len(accepted) \in Nat /\ Len(taken) \in Nat
      BY <1>15 DEF PopWrite
    <2> QED
      BY <2>2, <2>3, <2>4 DEF SizeIsLedger
  <1>12. ASSUME NEW t \in Threads, Deref(t) PROVE SizeIsLedger'
    <2>1. Taking' = Taking \ {t} /\ pc[t] = "deref"
      BY <1>12 DEF Deref, Taking
    <2>2. Cardinality(Taking') = Cardinality(Taking) - 1 /\ Cardinality(Taking) \in Nat
      BY <2>1, TakingChange
    <2>3. Len(taken') = Len(taken) + 1
      BY <1>12 DEF Deref
    <2>4. /\ accepted' = accepted /\ q' = q
          /\ Len(accepted) \in Nat /\ Len(taken) \in Nat
      BY <1>12 DEF Deref
    <2> QED
      BY <2>2, <2>3, <2>4 DEF SizeIsLedger
  <1>13. CASE UNCHANGED vars
    BY <1>13, LedgerKept DEF vars, Taking
  <1> QED
    BY <1>1, <1>2, <1>3, <1>4, <1>5, <1>6, <1>7, <1>8, <1>9, <1>10, <1>11, <1>12, <1>13,
       <1>14, <1>15 DEF Next, Step

LEMMA Invariant == Spec => []IInv
  <1>1. IInv /\ [Next]_vars => IInv'
    BY TypeStep, AloneStep, LoadedStep, TestStep, FreshStep DEF IInv
  <1> QED
    BY InitIInv, <1>1, PTL DEF Spec

\* The type invariant: both indices stay below the capacity, although they
\* wrap at the current size, for every capacity and number of threads.
THEOREM TypeCorrect == Spec => []TypeOK
  BY Invariant, PTL DEF IInv

\* What a thread tested under the mutex holds when it acts on it.
THEOREM TestsHold == Spec => []TestStillHolds
  BY Invariant, PTL DEF IInv

\* No update of size is lost: it counts the elements accepted and not yet handed
\* out, for every interleaving of any number of threads with the reads and the
\* writes of ++q->size and q->size--.
THEOREM Ledger == Spec => []SizeIsLedger
  <1>1. Init => SizeIsLedger
    <2> SUFFICES ASSUME Init PROVE SizeIsLedger
      OBVIOUS
    <2>1. Taking = {}
      BY DEF Init, Taking
    <2>2. Cardinality(Taking) = 0
      BY <2>1, FS_EmptySet
    <2>3. Len(accepted) = 0 /\ Len(taken) = 0 /\ q.size = 0
      BY DEF Init, EmptyQueue
    <2> QED
      BY <2>2, <2>3 DEF SizeIsLedger
  <1> QED
    BY <1>1, LedgerStep, Invariant, PTL DEF Spec
=============================================================================
