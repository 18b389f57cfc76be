---------------------------- MODULE Tasks_proofs ----------------------------
(***************************************************************************)
(* Proofs about the list of tasks, for any number of tasks, stacks and     *)
(* forks.                                                                  *)
(*                                                                         *)
(* Two facts are proved together, because each step needs both.  The ring: *)
(* next is injective on the members and no proper part of them is closed   *)
(* under it.  The ledgers: a task or a stack is allocated exactly if a     *)
(* member or a call in progress has it, and nothing is had twice.  The     *)
(* ledgers keep fork's new task off the ring until it is linked in, which  *)
(* is why filling its fields cannot break the ring; the ring keeps join's  *)
(* task on the list until it is taken out.  Once a stale pointer has been  *)
(* used (why is not empty) nothing of either is left to prove.             *)
(***************************************************************************)
EXTENDS Tasks, SequenceTheorems, TLAPS

\* No stale pointer was used and the machine runs.
Fresh == why = {} /\ status = "ok"

\* No two members lead to the same task.
NextInjective == \A m, n \in members : next[m] = next[n] => m = n

\* What a call in place i of a stack of calls is and knows.
CallSound(c, i, stk) ==
    /\ c.at \in {"run"} \union InFork <=> i = 1
    /\ c.at \in {"read_next", "write_next"} => c.stack \in Stacks
    /\ c.at = "write_next" => stk[c.task] = c.stack
    /\ c.at \in InDelete => c.who \in Slots
    /\ c.at \in {"want_free_stack", "free_stack"} => c.stack \in Stacks
    /\ c.at \in {"want_free_task", "free_task"} => c.task = c.who

CallsSound == \A t \in Slots : /\ t \in members <=> calls[t] # <<>>
                               /\ \A i \in DOMAIN calls[t] : CallSound(calls[t][i], i, stack)

\* The blocks of members.
MembersOwn == /\ \A m \in members \ {Root} : stack[m] \in Stacks
              /\ \A m, n \in members \ {Root} : stack[m] = stack[n] => m = n

\* A block is allocated when a member or a call has it.
TaskLedger == \A s \in Slots : s \in structs <=>
    \/ s \in members \union {Root}
    \/ \E t \in Slots : \E i \in DOMAIN calls[t] : HoldsTask(calls[t][i], s)
StackLedger == \A k \in Stacks : k \in stacks <=>
    \/ \E m \in members \ {Root} : stack[m] = k
    \/ \E t \in Slots : \E i \in DOMAIN calls[t] : HoldsStack(calls[t][i], k)

\* What a call has no member has and no other call.
TaskOnce == \A s, t \in Slots : \A i \in DOMAIN calls[t] : HoldsTask(calls[t][i], s) =>
    /\ s \notin members \union {Root}
    /\ \A u \in Slots : \A j \in DOMAIN calls[u] : HoldsTask(calls[u][j], s) => u = t /\ j = i
StackOnce == \A k \in Stacks, t \in Slots : \A i \in DOMAIN calls[t] : HoldsStack(calls[t][i], k) =>
    /\ \A m \in members \ {Root} : stack[m] # k
    /\ \A u \in Slots : \A j \in DOMAIN calls[u] : HoldsStack(calls[u][j], k) => u = t /\ j = i

Ledgers == /\ CallsSound /\ MembersOwn /\ TaskLedger /\ StackLedger /\ TaskOnce
           /\ StackOnce

Inv == /\ TypeOK /\ RingHolds /\ FailureExplained
       /\ why = {} => NextInjective
       /\ Fresh => Ledgers

-----------------------------------------------------------------------------
(* What the operations on a stack of calls do. *)

\* The innermost call of a task is one of its calls.
LEMMA TopIsCall ==
    ASSUME TypeOK, NEW t \in Slots, calls[t] # <<>>
    PROVE  /\ Len(calls[t]) \in DOMAIN calls[t]
           /\ Top(t) \in CallType
           /\ Top(t) = calls[t][Len(calls[t])]
  <1>1. calls[t] \in Seq(CallType)
    BY DEF TypeOK
  <1> QED
    BY <1>1 DEF Top

\* GoOn changes the innermost call of t, and nothing else.
LEMMA GoOnEffect ==
    ASSUME TypeOK, NEW t \in Slots, calls[t] # <<>>, NEW c \in CallType, GoOn(t, c)
    PROVE  /\ calls' \in [Slots -> Seq(CallType)]
           /\ \A u \in Slots : DOMAIN calls'[u] = DOMAIN calls[u]
           /\ \A u \in Slots : \A i \in DOMAIN calls[u] :
                calls'[u][i] = IF u = t /\ i = Len(calls[t]) THEN c ELSE calls[u][i]
           /\ \A u \in Slots : calls'[u] = <<>> <=> calls[u] = <<>>
  <1> DEFINE n == Len(calls[t])
             s == [calls[t] EXCEPT ![n] = c]
  <1>1. \A u \in Slots : calls[u] \in Seq(CallType)
    BY DEF TypeOK
  <1>2. calls' = [calls EXCEPT ![t] = s]
    BY DEF GoOn
  <1>3. n \in DOMAIN calls[t] /\ DOMAIN calls[t] = 1 .. n
    BY <1>1
  <1>4. s \in Seq(CallType) /\ DOMAIN s = DOMAIN calls[t] /\ s # <<>>
    BY <1>1, <1>3
  <1>5. \A u \in Slots : calls'[u] = IF u = t THEN s ELSE calls[u]
    BY <1>2 DEF TypeOK
  <1>6. calls' \in [Slots -> Seq(CallType)]
    BY <1>1, <1>2, <1>4 DEF TypeOK
  <1>7. \A i \in DOMAIN calls[t] : s[i] = IF i = n THEN c ELSE calls[t][i]
    BY <1>1, <1>3
  <1> HIDE DEF s
  <1> QED
    BY <1>4, <1>5, <1>6, <1>7

\* PopCall drops the innermost call of t and keeps the others in place.
LEMMA PopEffect ==
    ASSUME TypeOK, NEW t \in Slots, calls[t] # <<>>, PopCall(t)
    PROVE  /\ calls' \in [Slots -> Seq(CallType)]
           /\ \A u \in Slots : DOMAIN calls'[u] =
                IF u = t THEN DOMAIN calls[u] \ {Len(calls[t])} ELSE DOMAIN calls[u]
           /\ \A u \in Slots : \A i \in DOMAIN calls'[u] : calls'[u][i] = calls[u][i]
           /\ \A u \in Slots : u # t => calls'[u] = calls[u]
           /\ calls'[t] = <<>> <=> Len(calls[t]) = 1
  <1> DEFINE n == Len(calls[t])
             s == SubSeq(calls[t], 1, n - 1)
  <1>1. \A u \in Slots : calls[u] \in Seq(CallType)
    BY DEF TypeOK
  <1>2. calls' = [calls EXCEPT ![t] = s]
    BY DEF PopCall
  <1>3. n \in Nat \ {0} /\ DOMAIN calls[t] = 1 .. n
    BY <1>1
  <1>4. s \in Seq(CallType) /\ Len(s) = n - 1 /\ \A i \in 1 .. n - 1 : s[i] = calls[t][i]
    BY <1>1, <1>3, SubSeqProperties
  <1>5. DOMAIN s = DOMAIN calls[t] \ {n}
    BY <1>3, <1>4
  <1> HIDE DEF s
  <1>6. s = <<>> <=> n = 1
    <2>1. s = <<>> => Len(s) = 0
      BY EmptySeq
    <2>2. Len(s) = 0 => s = <<>>
      BY <1>4, EmptySeq
    <2> QED
      BY <1>3, <1>4, <2>1, <2>2
  <1>7. \A u \in Slots : calls'[u] = IF u = t THEN s ELSE calls[u]
    BY <1>2 DEF TypeOK
  <1>8. calls' \in [Slots -> Seq(CallType)]
    BY <1>1, <1>2, <1>4 DEF TypeOK
  <1>9. \A i \in DOMAIN s : s[i] = calls[t][i]
    BY <1>3, <1>4
  <1> QED
    BY <1>5, <1>6, <1>7, <1>8, <1>9
-----------------------------------------------------------------------------
(* Types. *)

\* A call is well typed when its locals are, and fork has a task while it fills it.
LEMMA NewCall ==
    ASSUME NEW at \in Places, NEW task \in Slots \union {NULL},
           NEW k \in Stacks \union {NULL}, NEW who \in Slots \union {NULL},
           at \in Filling => task \in Slots
    PROVE  Call(at, task, k, who) \in CallType
  BY DEF Call, CallType

\* A call stays well typed when it goes on to another place.
LEMMA NextCall ==
    ASSUME NEW c \in CallType, NEW at \in Places, at \in Filling => c.at \in Filling
    PROVE  [c EXCEPT !.at = at] \in CallType
  BY DEF CallType

\* A task outside fork and join is in one call.
LEMMA RunningCalls == <<Running>> \in Seq(CallType) /\ Running \in CallType
  <1>1. Running \in CallType
    BY NewCall DEF Running, Places, Filling, InFork
  <1> QED
    BY <1>1

\* Every step keeps the types.
LEMMA TypeStep ==
    ASSUME TypeOK, [Next]_vars
    PROVE  TypeOK'
  <1> USE DEF TypeOK
  <1>1. CASE UNCHANGED vars
    BY <1>1 DEF vars, fields, heap
  <1>2. ASSUME NEW reason \in {"dead_task", "double_free"}, Halt(reason)
        PROVE  TypeOK'
    BY <1>2 DEF Halt, fields, heap
  <1>3. CASE Tick
    <2>1. Picks(current) \subseteq Slots
      BY DEF Picks
    <2> QED
      BY <1>2, <1>3, <2>1 DEF Tick, fields, heap
  <1>4. ASSUME NEW t \in Slots, NEW l, At(t, l)
        PROVE  calls[t] # <<>> /\ Top(t) \in CallType /\ calls[t] \in Seq(CallType)
    BY <1>4, TopIsCall DEF At
  <1>5. ASSUME NEW t \in Slots, Fork(t)
        PROVE  TypeOK'
    <2>1. Call("want_task", NULL, NULL, NULL) \in CallType
      BY NewCall DEF Places, InFork, Filling
    <2>2. calls' \in [Slots -> Seq(CallType)]
      BY <1>4, <1>5, <2>1, GoOnEffect DEF Fork
    <2> QED
      BY <1>5, <2>2 DEF Fork, fields, heap
  <1>6. ASSUME NEW t \in Slots, LockWon(t)
        PROVE  TypeOK'
    <2>1. PICK at \in Waiting : At(t, at) /\ GoOn(t, [Top(t) EXCEPT !.at = Inside(at)])
      BY <1>6 DEF LockWon
    <2>2. Inside(at) \in Places /\ (Inside(at) \in Filling => at \in Filling)
      BY <2>1 DEF Waiting, Inside, Places, InFork, InDelete, Filling
    <2>3. calls' \in [Slots -> Seq(CallType)]
      BY <1>4, <2>1, <2>2, NextCall, GoOnEffect DEF At
    <2> QED
      BY <1>6, <2>3 DEF LockWon, Lock, fields, heap
  <1>7. ASSUME NEW t \in Slots, TakeTask(t)
        PROVE  TypeOK'
    <2>1. PICK s \in Slots \ structs : GoOn(t, Call("want_stack", s, NULL, NULL))
                                      /\ structs' = structs \union {s}
      BY <1>7 DEF TakeTask
    <2>2. Call("want_stack", s, NULL, NULL) \in CallType
      BY NewCall DEF Places, InFork, Filling
    <2>3. calls' \in [Slots -> Seq(CallType)]
      BY <1>4, <1>7, <2>1, <2>2, GoOnEffect DEF TakeTask
    <2> QED
      BY <1>7, <2>1, <2>3 DEF TakeTask, Unlock, fields, heap
  <1>8. ASSUME NEW t \in Slots, TakeStack(t)
        PROVE  TypeOK'
    <2>1. PICK k \in Stacks \ stacks : GoOn(t, Call("read_next", Top(t).task, k, NULL))
                                       /\ stacks' = stacks \union {k}
      BY <1>8 DEF TakeStack
    <2>2. Call("read_next", Top(t).task, k, NULL) \in CallType
      BY <1>4, <1>8, NewCall DEF Places, InFork, Filling, TakeStack, CallType, At
    <2>3. calls' \in [Slots -> Seq(CallType)]
      BY <1>4, <1>8, <2>1, <2>2, GoOnEffect DEF TakeStack
    <2> QED
      BY <1>8, <2>1, <2>3 DEF TakeStack, Unlock, fields, heap
  <1>9. ASSUME NEW t \in Slots, ReadNext(t)
        PROVE  TypeOK'
    <2>1. Top(t) \in CallType
      BY <1>4, <1>9 DEF ReadNext
    <2>2. [Top(t) EXCEPT !.at = "write_next"] \in CallType
      BY <1>9, <2>1, NextCall DEF Places, InFork, Filling, ReadNext, At
    <2>3. calls' \in [Slots -> Seq(CallType)]
      BY <1>4, <1>9, <2>2, GoOnEffect DEF ReadNext
    <2>4. Top(t).stack \in Stacks \union {NULL}
      BY <2>1 DEF CallType
    <2>5. /\ next' \in [Slots -> Slots] /\ prev' \in [Slots -> Slots]
          /\ stack' \in [Slots -> Stacks \union {NULL}]
      BY <1>9, <2>4 DEF ReadNext
    <2> QED
      BY <1>9, <2>3, <2>5 DEF ReadNext, heap
  <1>10. ASSUME NEW t \in Slots, WriteNext(t)
         PROVE  TypeOK'
    <2>1. calls' \in [Slots -> Seq(CallType)]
      BY <1>10, RunningCalls DEF WriteNext
    <2>2. Top(t).task \in Slots
      BY <1>4, <1>10 DEF WriteNext, CallType, At, Filling, InFork
    <2> QED
      BY <1>10, <2>1, <2>2 DEF WriteNext, fields, heap
  <1>11. ASSUME NEW t \in Slots, Join(t)
         PROVE  TypeOK'
    <2>1. PICK u \in Slots : JoinTo(t, u)
      BY <1>11 DEF Join, Picks, JoinTo
    <2>2. CASE Halt("dead_task")
      BY <1>2, <2>2
    <2>3. CASE MeetsDead(t) = FALSE /\ prev[t] \notin members
      BY <2>1, <2>3 DEF JoinTo, fields, heap
    <2>4. CASE MeetsDead(t) = FALSE /\ prev[t] \in members
      <3>1. next' \in [Slots -> Slots] /\ prev' \in [Slots -> Slots]
        BY <2>1, <2>4 DEF JoinTo, Unlink
      <3>2. Call("want_free_stack", NULL, stack[t], t) \in CallType
        BY NewCall DEF Places, InDelete, Filling, InFork
      <3>3. calls' \in [Slots -> Seq(CallType)]
        <4> DEFINE gone == [calls EXCEPT ![t] = <<>>]
                   more == Append(gone[u], Call("want_free_stack", NULL, stack[t], t))
        <4>1. calls' = gone \/ calls' = [gone EXCEPT ![u] = more]
          BY <2>1, <2>4 DEF JoinTo
        <4>2. gone \in [Slots -> Seq(CallType)]
          OBVIOUS
        <4>3. more \in Seq(CallType)
          BY <3>2, <4>2
        <4> HIDE DEF gone, more
        <4>4. [gone EXCEPT ![u] = more] \in [Slots -> Seq(CallType)]
          BY <4>2, <4>3
        <4> QED
          BY <4>1, <4>2, <4>4
      <3> QED
        BY <2>1, <2>4, <3>1, <3>3 DEF JoinTo, heap
    <2> QED
      BY <2>1, <2>2, <2>3, <2>4 DEF JoinTo, MeetsDead
  <1>12. ASSUME NEW t \in Slots, FreeStack(t)
         PROVE  TypeOK'
    <2>1. CASE Halt("double_free")
      BY <1>2, <2>1
    <2>2. CASE ~Halt("double_free")
      <3>1. [Top(t) EXCEPT !.at = "read_to_del"] \in CallType
        BY <1>4, <1>12, NextCall DEF FreeStack, Places, InDelete, Filling, InFork, At
      <3>2. calls' \in [Slots -> Seq(CallType)]
        BY <1>4, <1>12, <2>2, <3>1, GoOnEffect DEF FreeStack
      <3> QED
        BY <1>12, <2>2, <3>2 DEF FreeStack, Unlock, fields, heap
    <2> QED
      BY <2>1, <2>2
  <1>13. ASSUME NEW t \in Slots, ReadToDel(t)
         PROVE  TypeOK'
    <2>1. [Top(t) EXCEPT !.at = "want_free_task", !.task = to_del] \in CallType
      BY <1>4, <1>13 DEF ReadToDel, CallType, Places, InDelete, Filling, InFork
    <2>2. calls' \in [Slots -> Seq(CallType)]
      BY <1>4, <1>13, <2>1, GoOnEffect DEF ReadToDel
    <2> QED
      BY <1>13, <2>2 DEF ReadToDel, fields, heap
  <1>14. ASSUME NEW t \in Slots, FreeTask(t)
         PROVE  TypeOK'
    <2>1. CASE Halt("double_free")
      BY <1>2, <2>1
    <2>2. CASE ~Halt("double_free")
      <3>1. calls' \in [Slots -> Seq(CallType)]
        BY <1>4, <1>14, <2>2, PopEffect DEF FreeTask
      <3> QED
        BY <1>14, <2>2, <3>1 DEF FreeTask, Unlock, fields, heap
    <2> QED
      BY <2>1, <2>2
  <1> QED
    BY <1>1, <1>3, <1>5, <1>6, <1>7, <1>8, <1>9, <1>10, <1>11, <1>12, <1>13, <1>14
    DEF Next, Continue

\* Every variable keeps its type.
THEOREM TypeCorrect == Spec => []TypeOK
  <1>1. Init => TypeOK
    BY SlotsAssumption, RunningCalls DEF Init, TypeOK, Free, Held
  <1>2. TypeOK /\ [Next]_vars => TypeOK'
    BY TypeStep
  <1> QED
    BY <1>1, <1>2, PTL DEF Spec
-----------------------------------------------------------------------------
(* The ring. *)

\* incr_task comes to members only.
LEMMA MeetsMembers ==
    ASSUME TypeOK, OneRing, NEW t \in members
    PROVE  Picks(t) \subseteq members /\ ~MeetsDead(t)
  <1>1. Visits(members, t)
    BY DEF Visits, OneRing
  <1>2. Picks(t) \subseteq members
    BY <1>1 DEF Picks, TypeOK
  <1> QED
    BY <1>2 DEF MeetsDead

\* It comes back to where it started only past tasks of low priority.
LEMMA RoundOnlyPastLow ==
    ASSUME TypeOK, OneRing, NEW t \in members, t \in Picks(t),
           NEW z \in members, z # t
    PROVE  z \in low
  <1> SUFFICES ASSUME z \notin low PROVE FALSE
    OBVIOUS
  <1> DEFINE Closed(S) == t \in S /\ \A m \in members : next[m] \in S /\ m # z => m \in S
             \* from where one comes to t without passing z
             back == {m \in members : \A S \in SUBSET members : Closed(S) => m \in S}
  <1>1. back \in SUBSET members /\ Closed(back)
    OBVIOUS
  <1>2. \A S \in SUBSET members : Closed(S) => back \subseteq S
    OBVIOUS
  <1> HIDE DEF back
  <1>3. z \notin back
    <2>1. Closed(back \ {z})
      BY <1>1
    <2> QED
      BY <1>1, <1>2, <2>1
  <1>4. \A m \in back : m = t \/ next[m] \in back
    <2> DEFINE part == {m \in back : m = t \/ next[m] \in back}
    <2>1. Closed(part)
      BY <1>1
    <2> QED
      BY <1>1, <1>2, <2>1
  <1>5. next[t] \notin back
    <2> SUFFICES ASSUME next[t] \in back PROVE FALSE
      OBVIOUS
    <2>1. \A m \in back : next[m] \in back
      BY <1>4
    <2> QED
      BY <1>1, <1>3, <2>1 DEF OneRing
  <1>6. Visits(members \ back, t)
    BY <1>1, <1>5 DEF Visits, OneRing, TypeOK
  <1> QED
    BY <1>1, <1>6 DEF Picks, TypeOK

\* fork puts a task that is not on the list behind t.
LEMMA InsertKeepsRing ==
    ASSUME TypeOK, OneRing, NextInjective, NEW t \in members, NEW new \in Slots \ members,
           next[new] = next[t], next' = [next EXCEPT ![t] = new],
           members' = members \union {new}
    PROVE  OneRing' /\ NextInjective'
  <1>1. \A m \in members' : next'[m] = IF m = t THEN new ELSE next[m]
    BY DEF TypeOK
  <1>2. \A m \in members : next[m] \in members
    BY DEF OneRing
  <1>3. \A m \in members' : next'[m] \in members'
    BY <1>1, <1>2
  <1>4. NextInjective'
    BY <1>1, <1>2 DEF NextInjective
  <1>5. ASSUME NEW S \in SUBSET members', S # {}, \A m \in S : next'[m] \in S
        PROVE  S = members'
    <2>1. CASE new \in S
      <3>1. \A m \in S \ {new} : next[m] \in S \ {new}
        BY <1>1, <1>2, <1>5, <2>1
      <3>2. next[new] \in S \ {new}
        BY <1>1, <1>2, <1>5, <2>1
      <3>3. S \ {new} = members
        BY <3>1, <3>2, <1>5 DEF OneRing
      <3> QED
        BY <2>1, <3>3
    <2>2. CASE new \notin S
      <3>1. \A m \in S : next[m] \in S
        BY <1>1, <1>5, <2>2
      <3>2. S = members
        BY <1>5, <2>2, <3>1 DEF OneRing
      <3> QED
        BY <1>1, <1>5, <2>2, <3>2
    <2> QED
      BY <2>1, <2>2
  <1> QED
    BY <1>3, <1>4, <1>5 DEF OneRing

\* delete_task takes t out of the list if prev[t] is the task before it.
LEMMA UnlinkKeepsRing ==
    ASSUME TypeOK, OneRing, NextInjective, NEW t \in members, members # {t},
           prev[t] \in members, next[prev[t]] = t,
           next' = [next EXCEPT ![prev[t]] = next[t]], members' = members \ {t}
    PROVE  OneRing' /\ NextInjective'
  <1> DEFINE p == prev[t]
  <1>1. \A m \in members : next[m] \in members
    BY DEF OneRing
  <1>2. next[t] # t
    BY DEF OneRing
  <1>3. p # t
    BY <1>2
  <1>4. \A m \in members' : next'[m] = IF m = p THEN next[t] ELSE next[m]
    BY DEF TypeOK
  <1>5. \A m \in members' : m # p => next[m] # t
    BY DEF NextInjective
  <1>6. \A m \in members' : next'[m] \in members'
    BY <1>1, <1>2, <1>4, <1>5
  <1>7. NextInjective'
    BY <1>3, <1>4 DEF NextInjective
  <1>8. ASSUME NEW S \in SUBSET members', S # {}, \A m \in S : next'[m] \in S
        PROVE  S = members'
    <2>1. CASE p \in S
      <3>1. \A m \in S \union {t} : next[m] \in S \union {t}
        BY <1>4, <1>8, <2>1
      <3>2. S \union {t} \in SUBSET members /\ t \notin S
        BY <1>8
      <3>3. S \union {t} = members
        BY <3>1, <3>2 DEF OneRing
      <3> QED
        BY <3>2, <3>3
    <2>2. CASE p \notin S
      <3>1. \A m \in S : next[m] \in S
        BY <1>4, <1>8, <2>2
      <3>2. S \in SUBSET members /\ t \notin S
        BY <1>8
      <3>3. S = members
        BY <1>8, <3>1, <3>2 DEF OneRing
      <3> QED
        BY <3>2, <3>3
    <2> QED
      BY <2>1, <2>2
  <1> QED
    BY <1>6, <1>7, <1>8 DEF OneRing
-----------------------------------------------------------------------------
(* The ledgers. *)

\* The call on top of t becomes c, gives the tasks of R and the stacks of Q
\* away and gets those of A and B; the members keep theirs.
Becomes(t, c, A, R, B, Q) ==
    /\ calls[t] # <<>> /\ c \in CallType /\ GoOn(t, c)
    /\ CallSound(c, Len(calls[t]), stack')
    /\ members' = members
    /\ \A m \in members : stack'[m] = stack[m]
    /\ \A u \in Slots : \A i \in DOMAIN calls[u] :
           calls[u][i].at \in Filling /\ ~(u = t /\ i = Len(calls[t]))
               => stack'[calls[u][i].task] = stack[calls[u][i].task]
    /\ A \subseteq Slots \ structs /\ \A s \in R : HoldsTask(Top(t), s)
    /\ \A s : HoldsTask(c, s) <=> s \in A \/ (HoldsTask(Top(t), s) /\ s \notin R)
    /\ structs' = (structs \ R) \union A
    /\ B \subseteq Stacks \ stacks /\ \A k \in Q : HoldsStack(Top(t), k)
    /\ \A k : HoldsStack(c, k) <=> k \in B \/ (HoldsStack(Top(t), k) /\ k \notin Q)
    /\ stacks' = (stacks \ Q) \union B

\* A call that changes and settles what it gives and takes keeps the ledgers.
LEMMA TopChanges ==
    ASSUME TypeOK, Ledgers, NEW t \in Slots, NEW c, NEW A, NEW R, NEW B, NEW Q,
           Becomes(t, c, A, R, B, Q)
    PROVE  Ledgers'
  <1> USE DEF Becomes
  <1> DEFINE n == Len(calls[t])
  <1>1. /\ \A u \in Slots : DOMAIN calls'[u] = DOMAIN calls[u]
        /\ \A u \in Slots : \A i \in DOMAIN calls[u] :
             calls'[u][i] = IF u = t /\ i = n THEN c ELSE calls[u][i]
        /\ \A u \in Slots : calls'[u] = <<>> <=> calls[u] = <<>>
    BY GoOnEffect
  <1>2. n \in DOMAIN calls[t] /\ Top(t) = calls[t][n]
    BY TopIsCall
  <1>3. CallsSound'
    <2>1. Len(calls'[t]) = n
      BY <1>1, GoOnEffect DEF TypeOK
    <2>2. CallSound(c, n, stack')
      BY <2>1
    <2>3. ASSUME NEW u \in Slots, NEW i \in DOMAIN calls[u], ~(u = t /\ i = n)
          PROVE  CallSound(calls[u][i], i, stack')
      <3>1. CallSound(calls[u][i], i, stack) /\ calls'[u][i] = calls[u][i]
        BY <1>1, <2>3 DEF Ledgers, CallsSound
      <3>2. calls[u][i].at = "write_next" => stack'[calls[u][i].task] = stack[calls[u][i].task]
        BY <2>3 DEF Filling, InFork
      <3> QED
        BY <3>1, <3>2 DEF CallSound
    <2> QED
      BY <1>1, <1>2, <2>1, <2>2, <2>3 DEF Ledgers, CallsSound
  <1>4. MembersOwn'
    BY DEF Ledgers, MembersOwn
  <1>5. TaskLedger'
    BY <1>1, <1>2 DEF Ledgers, TaskLedger, TaskOnce
  <1>6. StackLedger'
    BY <1>1, <1>2 DEF Ledgers, StackLedger, StackOnce
  <1>7. TaskOnce'
    BY <1>1, <1>2 DEF Ledgers, TaskOnce, TaskLedger
  <1>8. StackOnce'
    BY <1>1, <1>2 DEF Ledgers, StackOnce, StackLedger
  <1> QED
    BY <1>3, <1>4, <1>5, <1>6, <1>7, <1>8 DEF Ledgers

\* The running task's innermost call is sound, and only at the bottom of its
\* stack of calls it is not in delete_task.
LEMMA TopIsSound ==
    ASSUME Inv, Fresh, NEW t \in Slots, NEW l, At(t, l)
    PROVE  /\ t \in members /\ calls[t] # <<>> /\ Top(t) \in CallType /\ Top(t).at = l
           /\ CallSound(Top(t), Len(calls[t]), stack)
           /\ l \in {"run"} \union InFork => Len(calls[t]) = 1
  <1>1. TypeOK /\ CallsSound /\ calls[t] # <<>>
    BY DEF Inv, Ledgers, At
  <1>2. Top(t) = calls[t][Len(calls[t])] /\ Len(calls[t]) \in DOMAIN calls[t]
    BY <1>1, TopIsCall
  <1>3. CallSound(Top(t), Len(calls[t]), stack)
    BY <1>1, <1>2 DEF CallsSound
  <1>4. Top(t).at = l
    BY DEF At
  <1>5. l \in {"run"} \union InFork => Len(calls[t]) = 1
    BY <1>3, <1>4 DEF CallSound
  <1> QED
    BY <1>1, <1>3, <1>4, <1>5, TopIsCall DEF CallsSound

\* A call outside fork and delete_task holds nothing.
LEMMA NothingHeld ==
    ASSUME NEW c, c.at \notin Filling \union InDelete
    PROVE  \A s : ~HoldsTask(c, s) /\ ~HoldsStack(c, s)
  BY DEF HoldsTask, HoldsStack, Filling, InFork, InDelete

\* GoOn leaves the number of calls.
LEMMA TopStays ==
    ASSUME TypeOK, NEW t \in Slots, calls[t] # <<>>, NEW c \in CallType, GoOn(t, c)
    PROVE  Len(calls'[t]) = Len(calls[t])
  BY GoOnEffect DEF TypeOK

\* Each operation keeps the ledgers.  fork begins: nothing changes hands.
LEMMA ForkLedgers ==
    ASSUME Inv, Fresh, NEW t \in Slots, Fork(t)
    PROVE  Ledgers'
  <1> DEFINE c == Call("want_task", NULL, NULL, NULL)
  <1>1. TypeOK /\ Ledgers /\ GoOn(t, c)
    BY DEF Inv, Fork
  <1>2. calls[t] # <<>> /\ Top(t).at = "run" /\ Len(calls[t]) = 1
    BY TopIsSound DEF Fork
  <1>3. c \in CallType /\ c.at = "want_task"
    BY NewCall DEF Places, InFork, Filling, Call
  <1> HIDE DEF c
  <1>4. \A s : ~HoldsTask(Top(t), s) /\ ~HoldsStack(Top(t), s)
    BY <1>2, NothingHeld DEF Filling, InFork, InDelete
  <1>5. \A s : ~HoldsTask(c, s) /\ ~HoldsStack(c, s)
    BY <1>3, NothingHeld DEF Filling, InFork, InDelete
  <1>6. CallSound(c, Len(calls[t]), stack')
    BY <1>1, <1>2, <1>3, TopStays DEF CallSound, InFork, InDelete
  <1> QED
    <2>1. Becomes(t, c, {}, {}, {}, {})
      BY <1>1, <1>2, <1>3, <1>4, <1>5, <1>6 DEF Becomes, Fork, fields, heap
    <2> QED
      BY <1>1, <2>1, TopChanges

\* lock: nothing changes hands.
LEMMA LockLedgers ==
    ASSUME Inv, Fresh, NEW t \in Slots, LockWon(t)
    PROVE  Ledgers'
  <1>1. PICK at \in Waiting : At(t, at) /\ GoOn(t, [Top(t) EXCEPT !.at = Inside(at)])
    BY DEF LockWon
  <1> DEFINE c == [Top(t) EXCEPT !.at = Inside(at)]
  <1>2. TypeOK /\ Ledgers
    BY DEF Inv
  <1>3. /\ calls[t] # <<>> /\ Top(t).at = at /\ Top(t) \in CallType
        /\ CallSound(Top(t), Len(calls[t]), stack)
    BY <1>1, TopIsSound
  <1>4. /\ c \in CallType /\ c.at = Inside(at) /\ c.task = Top(t).task
        /\ c.stack = Top(t).stack /\ c.who = Top(t).who
    BY <1>1, <1>3, NextCall DEF CallType, Waiting, Inside, Places, InFork, InDelete, Filling
  <1> HIDE DEF c
  <1>5. \A s : /\ HoldsTask(c, s) <=> HoldsTask(Top(t), s)
               /\ HoldsStack(c, s) <=> HoldsStack(Top(t), s)
    BY <1>1, <1>3, <1>4 DEF HoldsTask, HoldsStack, Waiting, Inside, Filling, InFork, InDelete
  <1>6. UNCHANGED <<members, stack, structs, stacks>>
    BY DEF LockWon, fields, heap
  <1>7. CallSound(c, Len(calls[t]), stack)
    BY <1>1, <1>3, <1>4 DEF CallSound, Waiting, Inside, InFork, InDelete
  <1>8. GoOn(t, c)
    BY <1>1 DEF c
  <1>9. CallSound(c, Len(calls[t]), stack')
    BY <1>2, <1>3, <1>4, <1>6, <1>7, <1>8, TopStays DEF CallSound
  <1> QED
    <2>1. /\ \A s : HoldsTask(c, s) <=> s \in {} \/ (HoldsTask(Top(t), s) /\ s \notin {})
          /\ \A k : HoldsStack(c, k) <=> k \in {} \/ (HoldsStack(Top(t), k) /\ k \notin {})
      BY <1>5
    <2>2. Becomes(t, c, {}, {}, {}, {})
      BY <1>3, <1>4, <1>6, <1>8, <1>9, <2>1 DEF Becomes
    <2> QED
      BY <1>2, <2>2, TopChanges

\* kmalloc(sizeof(struct Task)): the call gets a block nobody had.
LEMMA TakeTaskLedgers ==
    ASSUME Inv, Fresh, NEW t \in Slots, TakeTask(t)
    PROVE  Ledgers'
  <1>1. PICK s \in Slots \ structs : GoOn(t, Call("want_stack", s, NULL, NULL))
                                    /\ structs' = structs \union {s}
    BY DEF TakeTask
  <1> DEFINE c == Call("want_stack", s, NULL, NULL)
  <1>2. TypeOK /\ Ledgers
    BY DEF Inv
  <1>3. calls[t] # <<>> /\ Top(t).at = "take_task" /\ Len(calls[t]) = 1
    BY TopIsSound DEF TakeTask, InFork
  <1>4. c \in CallType /\ c.at = "want_stack" /\ c.task = s
    BY NewCall DEF Places, InFork, Filling, Call
  <1>5. GoOn(t, c)
    BY <1>1
  <1> HIDE DEF c
  <1>6. \A x : ~HoldsTask(Top(t), x) /\ ~HoldsStack(Top(t), x)
    BY <1>3, NothingHeld DEF Filling, InFork, InDelete
  <1>7. \A x : (HoldsTask(c, x) <=> x = s) /\ ~HoldsStack(c, x)
    BY <1>4 DEF HoldsTask, HoldsStack, Filling, InFork, InDelete
  <1>8. CallSound(c, Len(calls[t]), stack')
    BY <1>2, <1>3, <1>4, <1>5, TopStays DEF CallSound, InFork, InDelete
  <1>9. /\ members' = members /\ stack' = stack /\ stacks' = stacks
        /\ structs' = structs \union {s}
    BY <1>1 DEF TakeTask, fields
  <1>10. Becomes(t, c, {s}, {}, {}, {})
    BY <1>3, <1>4, <1>5, <1>6, <1>7, <1>8, <1>9 DEF Becomes
  <1> QED
    BY <1>2, <1>10, TopChanges

\* kmalloc for the stack: the call gets a stack nobody had.
LEMMA TakeStackLedgers ==
    ASSUME Inv, Fresh, NEW t \in Slots, TakeStack(t)
    PROVE  Ledgers'
  <1>1. PICK k \in Stacks \ stacks : GoOn(t, Call("read_next", Top(t).task, k, NULL))
                                     /\ stacks' = stacks \union {k}
    BY DEF TakeStack
  <1> DEFINE c == Call("read_next", Top(t).task, k, NULL)
  <1>2. TypeOK /\ Ledgers
    BY DEF Inv
  <1>3. /\ calls[t] # <<>> /\ Top(t).at = "take_stack" /\ Len(calls[t]) = 1
        /\ Top(t) \in CallType
    BY TopIsSound DEF TakeStack, InFork
  <1>4. c \in CallType /\ c.at = "read_next" /\ c.task = Top(t).task /\ c.stack = k
    BY <1>3, NewCall DEF Places, InFork, Filling, Call, CallType
  <1>5. GoOn(t, c)
    BY <1>1
  <1> HIDE DEF c
  <1>6. \A x : /\ HoldsTask(c, x) <=> HoldsTask(Top(t), x)
               /\ HoldsStack(c, x) <=> x = k
               /\ ~HoldsStack(Top(t), x)
    BY <1>3, <1>4 DEF HoldsTask, HoldsStack, Filling, InFork, InDelete
  <1>7. CallSound(c, Len(calls[t]), stack')
    BY <1>2, <1>3, <1>4, <1>5, TopStays DEF CallSound, InFork, InDelete
  <1>8. /\ members' = members /\ stack' = stack /\ structs' = structs
        /\ stacks' = stacks \union {k}
    BY <1>1 DEF TakeStack, fields
  <1>9. /\ \A s : HoldsTask(c, s) <=> s \in {} \/ (HoldsTask(Top(t), s) /\ s \notin {})
        /\ \A x : HoldsStack(c, x) <=> x \in {k} \/ (HoldsStack(Top(t), x) /\ x \notin {})
    BY <1>6
  <1>10. Becomes(t, c, {}, {}, {k}, {})
    BY <1>3, <1>4, <1>5, <1>7, <1>8, <1>9 DEF Becomes
  <1> QED
    BY <1>2, <1>10, TopChanges

\* The fields of a block that only this call has are filled: nobody else's stack
\* changes.
LEMMA ReadNextLedgers ==
    ASSUME Inv, Fresh, NEW t \in Slots, ReadNext(t)
    PROVE  Ledgers'
  <1> DEFINE c == [Top(t) EXCEPT !.at = "write_next"]
             new == Top(t).task
             n == Len(calls[t])
  <1>1. TypeOK /\ Ledgers /\ GoOn(t, c)
    BY DEF Inv, ReadNext
  <1>2. /\ calls[t] # <<>> /\ Top(t).at = "read_next" /\ Top(t) \in CallType /\ n = 1
        /\ CallSound(Top(t), n, stack)
    BY TopIsSound DEF ReadNext, InFork
  <1>3. /\ c \in CallType /\ c.at = "write_next" /\ c.task = new
        /\ c.stack = Top(t).stack /\ new \in Slots
    BY <1>2, NextCall DEF CallType, Places, InFork, Filling
  <1> HIDE DEF c
  <1>4. \A s : /\ HoldsTask(c, s) <=> HoldsTask(Top(t), s)
               /\ HoldsStack(c, s) <=> HoldsStack(Top(t), s)
    BY <1>2, <1>3 DEF HoldsTask, HoldsStack, Filling, InFork, InDelete
  <1>5. UNCHANGED <<members, structs, stacks>> /\ stack' = [stack EXCEPT ![new] = Top(t).stack]
    BY DEF ReadNext, heap
  <1>6. n \in DOMAIN calls[t] /\ Top(t) = calls[t][n] /\ HoldsTask(Top(t), new)
    BY <1>1, <1>2, TopIsCall DEF HoldsTask, Filling, InFork
  <1>7. \A m \in members : stack'[m] = stack[m]
    BY <1>1, <1>3, <1>5, <1>6 DEF TypeOK, Ledgers, TaskOnce
  <1>8. ASSUME NEW u \in Slots, NEW i \in DOMAIN calls[u], calls[u][i].at \in Filling,
               ~(u = t /\ i = n)
        PROVE  stack'[calls[u][i].task] = stack[calls[u][i].task]
    <2>1. HoldsTask(calls[u][i], calls[u][i].task)
      BY <1>8 DEF HoldsTask
    <2>2. calls[u][i].task # new
      BY <1>1, <1>3, <1>6, <1>8, <2>1 DEF Ledgers, TaskOnce
    <2> QED
      BY <1>5, <2>2
  <1>9. CallSound(c, n, stack')
    BY <1>1, <1>2, <1>3, <1>5, TopStays DEF CallSound, InFork, InDelete, TypeOK
  <1> HIDE DEF new
  <1> QED
    <2>1. /\ \A s : HoldsTask(c, s) <=> s \in {} \/ (HoldsTask(Top(t), s) /\ s \notin {})
          /\ \A k : HoldsStack(c, k) <=> k \in {} \/ (HoldsStack(Top(t), k) /\ k \notin {})
      BY <1>4
    <2>2. Becomes(t, c, {}, {}, {}, {})
      BY <1>1, <1>2, <1>3, <1>5, <1>7, <1>8, <1>9, <2>1 DEF Becomes
    <2> QED
      BY <1>1, <2>2, TopChanges

\* fork ends: what its caller has filled is a member's now.
LEMMA WriteNextLedgers ==
    ASSUME Inv, Fresh, NEW t \in Slots, WriteNext(t)
    PROVE  Ledgers'
  <1> DEFINE new == Top(t).task
  <1>1. TypeOK /\ Ledgers
    BY DEF Inv
  <1>2. /\ t \in members /\ calls[t] # <<>> /\ Top(t).at = "write_next" /\ Len(calls[t]) = 1
        /\ Top(t) \in CallType /\ CallSound(Top(t), 1, stack)
    BY TopIsSound DEF WriteNext, InFork
  <1>3. DOMAIN calls[t] = {1} /\ Top(t) = calls[t][1]
    BY <1>1, <1>2, TopIsCall DEF TypeOK
  <1>4. /\ new \in Slots /\ HoldsTask(calls[t][1], new)
        /\ Top(t).stack \in Stacks /\ stack[new] = Top(t).stack
        /\ HoldsStack(calls[t][1], stack[new])
    BY <1>2, <1>3 DEF CallType, CallSound, HoldsTask, HoldsStack, Filling, InFork
  <1>5. new \notin members \union {Root} /\ calls[new] = <<>> /\ new # t
    BY <1>1, <1>2, <1>3, <1>4 DEF Ledgers, TaskOnce, CallsSound
  <1>6. \A s : /\ HoldsTask(calls[t][1], s) <=> s = new
               /\ HoldsStack(calls[t][1], s) <=> s = stack[new]
    BY <1>2, <1>3, <1>4 DEF HoldsTask, HoldsStack, Filling, InFork, InDelete
  <1> HIDE DEF new
  <1>7. /\ members' = members \union {new}
        /\ UNCHANGED <<stack, structs, stacks>>
    BY DEF WriteNext, fields, heap, new
  <1>8. \A u \in Slots : calls'[u] = IF u \in {t, new} THEN <<Running>> ELSE calls[u]
    BY <1>1, <1>4 DEF TypeOK, WriteNext, new
  <1>9. \A s : ~HoldsTask(Running, s) /\ ~HoldsStack(Running, s)
    BY NothingHeld DEF Running, Call, Filling, InFork, InDelete
  \* the calls that hold something now are those that held it before, except t's
  <1>10. ASSUME NEW u \in Slots, NEW i \in DOMAIN calls'[u], NEW s
         PROVE  /\ HoldsTask(calls'[u][i], s) =>
                     /\ u \notin {t, new} /\ i \in DOMAIN calls[u]
                     /\ HoldsTask(calls[u][i], s)
                /\ HoldsStack(calls'[u][i], s) =>
                     /\ u \notin {t, new} /\ i \in DOMAIN calls[u]
                     /\ HoldsStack(calls[u][i], s)
    BY <1>8, <1>9
  <1>11. ASSUME NEW u \in Slots, NEW i \in DOMAIN calls[u], NEW s
         PROVE  /\ HoldsTask(calls[u][i], s) /\ s # new =>
                     i \in DOMAIN calls'[u] /\ HoldsTask(calls'[u][i], s)
                /\ HoldsStack(calls[u][i], s) /\ s # stack[new] =>
                     i \in DOMAIN calls'[u] /\ HoldsStack(calls'[u][i], s)
    BY <1>3, <1>5, <1>6, <1>8
  <1>12. CallsSound'
    <2>1. CallSound(Running, 1, stack')
      BY DEF CallSound, Running, Call, InFork, InDelete
    <2>2. ASSUME NEW u \in Slots, NEW i \in DOMAIN calls'[u]
          PROVE  CallSound(calls'[u][i], i, stack')
      <3>1. CASE u \in {t, new}
        BY <1>8, <2>1, <3>1
      <3>2. CASE u \notin {t, new}
        BY <1>1, <1>7, <1>8, <3>2 DEF Ledgers, CallsSound
      <3> QED
        BY <3>1, <3>2
    <2>3. ASSUME NEW u \in Slots
          PROVE  u \in members' <=> calls'[u] # <<>>
      <3>1. CASE u \in {t, new}
        BY <1>2, <1>7, <1>8, <3>1
      <3>2. CASE u \notin {t, new}
        BY <1>1, <1>7, <1>8, <3>2 DEF Ledgers, CallsSound
      <3> QED
        BY <3>1, <3>2
    <2> QED
      BY <2>2, <2>3 DEF CallsSound
  <1>13. MembersOwn'
    BY <1>1, <1>2, <1>3, <1>4, <1>7 DEF Ledgers, MembersOwn, StackOnce
  <1>14. TaskLedger'
    <2> SUFFICES ASSUME NEW s \in Slots
                 PROVE  s \in structs <=>
                          \/ s \in members \union {new, Root}
                          \/ \E u \in Slots : \E i \in DOMAIN calls'[u] : HoldsTask(calls'[u][i], s)
      BY <1>7 DEF TaskLedger
    <2>1. s \in structs <=> \/ s \in members \union {Root}
                            \/ \E u \in Slots : \E i \in DOMAIN calls[u] : HoldsTask(calls[u][i], s)
      BY <1>1 DEF Ledgers, TaskLedger
    <2>2. new \in structs
      BY <1>1, <1>3, <1>4 DEF Ledgers, TaskLedger
    <2> QED
      BY <1>10, <1>11, <2>1, <2>2
  <1>15. StackLedger'
    <2> SUFFICES ASSUME NEW k \in Stacks
                 PROVE  k \in stacks <=>
                          \/ \E m \in (members \union {new}) \ {Root} : stack[m] = k
                          \/ \E u \in Slots : \E i \in DOMAIN calls'[u] : HoldsStack(calls'[u][i], k)
      BY <1>7 DEF StackLedger
    <2>1. k \in stacks <=> \/ \E m \in members \ {Root} : stack[m] = k
                           \/ \E u \in Slots : \E i \in DOMAIN calls[u] : HoldsStack(calls[u][i], k)
      BY <1>1 DEF Ledgers, StackLedger
    <2>2. stack[new] \in stacks
      BY <1>1, <1>3, <1>4 DEF Ledgers, StackLedger
    <2> QED
      BY <1>5, <1>10, <1>11, <2>1, <2>2
  <1>16. TaskOnce'
    <2> SUFFICES ASSUME NEW s \in Slots, NEW u \in Slots, NEW i \in DOMAIN calls'[u],
                        HoldsTask(calls'[u][i], s)
                 PROVE  /\ s \notin members \union {new, Root}
                        /\ \A v \in Slots : \A j \in DOMAIN calls'[v] :
                             HoldsTask(calls'[v][j], s) => v = u /\ j = i
      BY <1>7 DEF TaskOnce
    <2>1. u \notin {t, new} /\ i \in DOMAIN calls[u] /\ HoldsTask(calls[u][i], s)
      BY <1>10
    <2>2. /\ s \notin members \union {Root}
          /\ \A v \in Slots : \A j \in DOMAIN calls[v] :
               HoldsTask(calls[v][j], s) => v = u /\ j = i
      BY <1>1, <2>1 DEF Ledgers, TaskOnce
    <2>3. s # new
      BY <1>3, <1>4, <2>1, <2>2
    <2> QED
      BY <1>10, <2>2, <2>3
  <1>17. StackOnce'
    <2> SUFFICES ASSUME NEW k \in Stacks, NEW u \in Slots, NEW i \in DOMAIN calls'[u],
                        HoldsStack(calls'[u][i], k)
                 PROVE  /\ \A m \in (members \union {new}) \ {Root} : stack[m] # k
                        /\ \A v \in Slots : \A j \in DOMAIN calls'[v] :
                             HoldsStack(calls'[v][j], k) => v = u /\ j = i
      BY <1>7 DEF StackOnce
    <2>1. u \notin {t, new} /\ i \in DOMAIN calls[u] /\ HoldsStack(calls[u][i], k)
      BY <1>10
    <2>2. /\ \A m \in members \ {Root} : stack[m] # k
          /\ \A v \in Slots : \A j \in DOMAIN calls[v] :
               HoldsStack(calls[v][j], k) => v = u /\ j = i
      BY <1>1, <2>1 DEF Ledgers, StackOnce
    <2>3. k # stack[new]
      BY <1>3, <1>4, <2>1, <2>2
    <2> QED
      BY <1>10, <2>2, <2>3
  <1> QED
    BY <1>12, <1>13, <1>14, <1>15, <1>16, <1>17 DEF Ledgers

\* kfree of the stack: the call gives up the stack it had.
LEMMA FreeStackLedgers ==
    ASSUME Inv, Fresh, NEW t \in Slots, FreeStack(t), Fresh'
    PROVE  Ledgers'
  <1> DEFINE c == [Top(t) EXCEPT !.at = "read_to_del"]
             k == Top(t).stack
  <1>1. TypeOK /\ Ledgers /\ GoOn(t, c) /\ UNCHANGED <<members, stack, structs>>
        /\ stacks' = stacks \ {k}
    BY DEF Inv, FreeStack, Halt, Fresh, fields
  <1>2. /\ calls[t] # <<>> /\ Top(t).at = "free_stack" /\ Top(t) \in CallType
        /\ CallSound(Top(t), Len(calls[t]), stack)
    BY TopIsSound DEF FreeStack
  <1>3. /\ c \in CallType /\ c.at = "read_to_del" /\ c.who = Top(t).who
    BY <1>2, NextCall DEF CallType, Places, InDelete, Filling, InFork
  <1>4. CallSound(c, Len(calls[t]), stack')
    BY <1>1, <1>2, <1>3 DEF CallSound, InFork, InDelete
  <1> HIDE DEF c, k
  <1>5. \A s : HoldsTask(c, s) <=> s \in {} \/ (HoldsTask(Top(t), s) /\ s \notin {})
    BY <1>2, <1>3 DEF HoldsTask, Filling, InFork, InDelete
  <1>6. \A s : HoldsStack(c, s) <=> s \in {} \/ (HoldsStack(Top(t), s) /\ s \notin {k})
    BY <1>2, <1>3 DEF HoldsStack, k
  <1>7. HoldsStack(Top(t), k)
    BY <1>2 DEF HoldsStack, k
  <1>8. Becomes(t, c, {}, {}, {}, {k})
    BY <1>1, <1>2, <1>3, <1>4, <1>5, <1>6, <1>7 DEF Becomes
  <1> QED
    BY <1>1, <1>8, TopChanges

\* to_del still names the call's own task, if it is not stale.
LEMMA ReadToDelLedgers ==
    ASSUME Inv, Fresh, NEW t \in Slots, ReadToDel(t), Fresh'
    PROVE  Ledgers'
  <1> DEFINE c == [Top(t) EXCEPT !.at = "want_free_task", !.task = to_del]
  <1>1. TypeOK /\ Ledgers /\ GoOn(t, c) /\ UNCHANGED <<members, stack, structs, stacks>>
        /\ to_del = Top(t).who
    BY DEF Inv, ReadToDel, Fresh, fields, heap
  <1>2. /\ calls[t] # <<>> /\ Top(t).at = "read_to_del" /\ Top(t) \in CallType
        /\ CallSound(Top(t), Len(calls[t]), stack)
    BY TopIsSound DEF ReadToDel
  <1>3. /\ c \in CallType /\ c.at = "want_free_task" /\ c.who = Top(t).who
        /\ c.task = to_del
    BY <1>1, <1>2 DEF CallType, Places, InDelete, Filling, InFork, TypeOK
  <1>4. CallSound(c, Len(calls[t]), stack')
    BY <1>1, <1>2, <1>3 DEF CallSound, InFork, InDelete
  <1> HIDE DEF c
  <1>5. /\ \A s : HoldsTask(c, s) <=> s \in {} \/ (HoldsTask(Top(t), s) /\ s \notin {})
        /\ \A s : HoldsStack(c, s) <=> s \in {} \/ (HoldsStack(Top(t), s) /\ s \notin {})
    BY <1>2, <1>3 DEF HoldsTask, HoldsStack, Filling, InFork, InDelete
  <1>6. Becomes(t, c, {}, {}, {}, {})
    BY <1>1, <1>2, <1>3, <1>4, <1>5 DEF Becomes
  <1> QED
    BY <1>1, <1>6, TopChanges

\* kfree(to_del), and delete_task returns.
LEMMA FreeTaskLedgers ==
    ASSUME Inv, Fresh, NEW t \in Slots, FreeTask(t), Fresh'
    PROVE  Ledgers'
  <1> DEFINE n == Len(calls[t])
             s == Top(t).task
  <1>1. TypeOK /\ Ledgers /\ PopCall(t) /\ UNCHANGED <<members, stack, stacks>>
        /\ structs' = structs \ {s}
    BY DEF Inv, FreeTask, Halt, Fresh, fields
  <1>2. /\ calls[t] # <<>> /\ Top(t).at = "free_task" /\ Top(t) \in CallType
        /\ CallSound(Top(t), n, stack)
    BY TopIsSound DEF FreeTask
  <1>3. n \in DOMAIN calls[t] /\ Top(t) = calls[t][n] /\ n # 1
    BY <1>1, <1>2, TopIsCall DEF CallSound, InFork
  <1>4. \A x : /\ HoldsTask(calls[t][n], x) <=> x = s
               /\ ~HoldsStack(calls[t][n], x)
    BY <1>2, <1>3 DEF HoldsTask, HoldsStack, CallSound, Filling, InFork, InDelete
  <1> HIDE DEF s
  <1>5. /\ \A u \in Slots : \A i \in DOMAIN calls'[u] :
               i \in DOMAIN calls[u] /\ ~(u = t /\ i = n) /\ calls'[u][i] = calls[u][i]
        /\ \A u \in Slots : \A i \in DOMAIN calls[u] :
               ~(u = t /\ i = n) => i \in DOMAIN calls'[u]
        /\ \A u \in Slots : calls'[u] = <<>> <=> calls[u] = <<>>
    BY <1>1, <1>2, <1>3, PopEffect
  <1>6. CallsSound'
    BY <1>1, <1>5 DEF Ledgers, CallsSound
  <1>7. MembersOwn'
    BY <1>1 DEF Ledgers, MembersOwn
  <1>8. TaskLedger'
    BY <1>1, <1>3, <1>4, <1>5 DEF Ledgers, TaskLedger, TaskOnce
  <1>9. StackLedger'
    BY <1>1, <1>3, <1>4, <1>5 DEF Ledgers, StackLedger, StackOnce
  <1>10. TaskOnce'
    BY <1>1, <1>5 DEF Ledgers, TaskOnce
  <1>11. StackOnce'
    BY <1>1, <1>5 DEF Ledgers, StackOnce
  <1> QED
    BY <1>6, <1>7, <1>8, <1>9, <1>10, <1>11 DEF Ledgers

\* What t owned as a member goes to the delete_task that u finds itself in.
LEMMA JoinLedgers ==
    ASSUME Inv, Fresh, NEW t \in Slots, Join(t), Fresh'
    PROVE  Ledgers'
  <1> DEFINE c == Call("want_free_stack", NULL, stack[t], t)
  <1>1. PICK u \in Picks(t) : JoinTo(t, u)
    BY DEF Join
  <1>2. TypeOK /\ Ledgers /\ OneRing
    BY DEF Inv, RingHolds, Fresh
  <1>3. t \in members /\ calls[t] # <<>> /\ Top(t).at = "run" /\ Len(calls[t]) = 1
    BY <1>1, TopIsSound DEF JoinTo
  <1>4. ~MeetsDead(t) /\ u \in members /\ u \in Slots
    BY <1>1, <1>2, <1>3, MeetsMembers DEF TypeOK
  <1>5. /\ u # t /\ members' = members \ {t} /\ UNCHANGED <<stack, structs, stacks>>
        /\ calls' = IF t = Root THEN [calls EXCEPT ![t] = <<>>]
                    ELSE [calls EXCEPT ![t] = <<>>, ![u] = Append(@, c)]
    BY <1>1, <1>4 DEF JoinTo, Fresh, heap
  <1>6. \A v \in Slots : calls[v] \in Seq(CallType)
    BY <1>2 DEF TypeOK
  <1>7. c \in CallType /\ c.at = "want_free_stack" /\ c.stack = stack[t] /\ c.who = t
    BY <1>2, NewCall DEF TypeOK, Places, InDelete, Filling, InFork, Call
  <1> HIDE DEF c
  <1>8. \A s : ~HoldsTask(calls[t][1], s) /\ ~HoldsStack(calls[t][1], s)
    BY <1>2, <1>3, NothingHeld, TopIsCall DEF Filling, InFork, InDelete
  <1>9. DOMAIN calls[t] = {1}
    BY <1>3, <1>6
  <1> DEFINE n == Len(calls[u]) + 1
  <1>10. n \in Nat \ {0, 1} /\ DOMAIN calls[u] = 1 .. n - 1 /\ calls[u] # <<>>
    BY <1>2, <1>4, <1>6 DEF Ledgers, CallsSound
  <1>11. /\ calls'[t] = <<>>
         /\ \A v \in Slots \ {t, u} : calls'[v] = calls[v]
         /\ calls'[u] = IF t = Root THEN calls[u] ELSE Append(calls[u], c)
    BY <1>2, <1>4, <1>5 DEF TypeOK
  <1>12. t # Root => /\ DOMAIN calls'[u] = 1 .. n /\ calls'[u][n] = c
                     /\ \A i \in 1 .. n - 1 : calls'[u][i] = calls[u][i]
    BY <1>6, <1>7, <1>10, <1>11
  <1> HIDE DEF n
  <1>13. ASSUME NEW v \in Slots, NEW i \in DOMAIN calls'[v]
         PROVE  \/ v # t /\ i \in DOMAIN calls[v] /\ calls'[v][i] = calls[v][i]
                \/ t # Root /\ v = u /\ i = n /\ calls'[v][i] = c
    <2>1. CASE v = t
      BY <1>11, <2>1
    <2>2. CASE v = u /\ t # Root
      <3>1. i \in 1 .. n - 1 \/ i = n
        BY <1>10, <1>12, <2>2
      <3> QED
        BY <1>5, <1>10, <1>12, <2>2, <3>1
    <2>3. CASE v # t /\ (v = u => t = Root)
      BY <1>11, <2>3
    <2> QED
      BY <2>1, <2>2, <2>3
  <1>14. ASSUME NEW v \in Slots \ {t}, NEW i \in DOMAIN calls[v]
         PROVE  i \in DOMAIN calls'[v] /\ calls'[v][i] = calls[v][i]
    <2>1. CASE v = u /\ t # Root
      BY <1>10, <1>12, <2>1
    <2>2. CASE v = u => t = Root
      BY <1>11, <2>2
    <2> QED
      BY <2>1, <2>2
  <1>15. t # Root => n \in DOMAIN calls'[u] /\ calls'[u][n] = c
    BY <1>10, <1>12
  <1>16. \A s : /\ HoldsTask(c, s) <=> s = t
                /\ HoldsStack(c, s) <=> s = stack[t]
    BY <1>7 DEF HoldsTask, HoldsStack, Filling, InFork, InDelete
  <1>17. t # Root => stack[t] \in Stacks
    BY <1>2, <1>3 DEF Ledgers, MembersOwn
  <1>18. CallsSound'
    <2>1. t # Root => CallSound(c, n, stack')
      BY <1>7, <1>10, <1>17 DEF CallSound, InFork, InDelete
    <2>2. ASSUME NEW v \in Slots, NEW i \in DOMAIN calls'[v]
          PROVE  CallSound(calls'[v][i], i, stack')
      <3>1. \A j \in DOMAIN calls[v] : CallSound(calls[v][j], j, stack')
        BY <1>2, <1>5 DEF Ledgers, CallsSound
      <3> QED
        BY <1>13, <2>1, <3>1
    <2>3. ASSUME NEW v \in Slots
          PROVE  v \in members' <=> calls'[v] # <<>>
      <3>1. CASE v = t
        BY <1>5, <1>11, <3>1
      <3>2. CASE v = u
        <4>1. calls'[u] # <<>>
          BY <1>10, <1>11, <1>12
        <4> QED
          BY <1>4, <1>5, <3>2, <4>1
      <3>3. CASE v \notin {t, u}
        BY <1>2, <1>5, <1>11, <3>3 DEF Ledgers, CallsSound
      <3> QED
        BY <3>1, <3>2, <3>3
    <2> QED
      BY <2>2, <2>3 DEF CallsSound
  <1>19. MembersOwn'
    BY <1>2, <1>5 DEF Ledgers, MembersOwn
  <1>20. TaskLedger'
    <2> SUFFICES ASSUME NEW s \in Slots
                 PROVE  s \in structs <=>
                          \/ s \in (members \ {t}) \union {Root}
                          \/ \E v \in Slots : \E i \in DOMAIN calls'[v] : HoldsTask(calls'[v][i], s)
      BY <1>5 DEF TaskLedger
    <2>1. s \in structs <=> \/ s \in members \union {Root}
                            \/ \E v \in Slots : \E i \in DOMAIN calls[v] : HoldsTask(calls[v][i], s)
      BY <1>2 DEF Ledgers, TaskLedger
    <2>2. ASSUME NEW v \in Slots, NEW i \in DOMAIN calls[v], HoldsTask(calls[v][i], s)
          PROVE  i \in DOMAIN calls'[v] /\ HoldsTask(calls'[v][i], s)
      BY <1>8, <1>9, <1>14, <2>2
    <2>3. s = t /\ t # Root => HoldsTask(calls'[u][n], s)
      BY <1>15, <1>16
    <2>4. ASSUME NEW v \in Slots, NEW i \in DOMAIN calls'[v], HoldsTask(calls'[v][i], s)
          PROVE  s \in structs
      <3>1. CASE i \in DOMAIN calls[v] /\ calls'[v][i] = calls[v][i]
        BY <2>1, <2>4, <3>1
      <3>2. CASE calls'[v][i] = c
        BY <1>3, <1>16, <2>1, <2>4, <3>2
      <3> QED
        BY <1>13, <3>1, <3>2
    <2> QED
      BY <1>4, <1>15, <2>1, <2>2, <2>3, <2>4
  <1>21. StackLedger'
    <2> SUFFICES ASSUME NEW k \in Stacks
                 PROVE  k \in stacks <=>
                          \/ \E m \in (members \ {t}) \ {Root} : stack[m] = k
                          \/ \E v \in Slots : \E i \in DOMAIN calls'[v] : HoldsStack(calls'[v][i], k)
      BY <1>5 DEF StackLedger
    <2>1. k \in stacks <=> \/ \E m \in members \ {Root} : stack[m] = k
                           \/ \E v \in Slots : \E i \in DOMAIN calls[v] : HoldsStack(calls[v][i], k)
      BY <1>2 DEF Ledgers, StackLedger
    <2>2. ASSUME NEW v \in Slots, NEW i \in DOMAIN calls[v], HoldsStack(calls[v][i], k)
          PROVE  i \in DOMAIN calls'[v] /\ HoldsStack(calls'[v][i], k)
      BY <1>8, <1>9, <1>14, <2>2
    <2>3. k = stack[t] /\ t # Root => HoldsStack(calls'[u][n], k)
      BY <1>15, <1>16
    <2>4. ASSUME NEW v \in Slots, NEW i \in DOMAIN calls'[v], HoldsStack(calls'[v][i], k)
          PROVE  k \in stacks
      <3>1. CASE i \in DOMAIN calls[v] /\ calls'[v][i] = calls[v][i]
        BY <2>1, <2>4, <3>1
      <3>2. CASE calls'[v][i] = c /\ t # Root
        BY <1>3, <1>16, <2>1, <2>4, <3>2
      <3> QED
        BY <1>13, <3>1, <3>2
    <2> QED
      BY <1>4, <1>15, <2>1, <2>2, <2>3, <2>4
  <1>22. TaskOnce'
    <2> SUFFICES ASSUME NEW s \in Slots, NEW v \in Slots, NEW i \in DOMAIN calls'[v],
                        HoldsTask(calls'[v][i], s)
                 PROVE  /\ s \notin members' \union {Root}
                        /\ \A w \in Slots : \A j \in DOMAIN calls'[w] :
                             HoldsTask(calls'[w][j], s) => w = v /\ j = i
      BY DEF TaskOnce
    <2>1. \A w \in Slots : \A j \in DOMAIN calls[w] : HoldsTask(calls[w][j], s) =>
            /\ s \notin members \union {Root}
            /\ \A x \in Slots : \A l \in DOMAIN calls[x] :
                 HoldsTask(calls[x][l], s) => x = w /\ l = j
      BY <1>2 DEF Ledgers, TaskOnce
    <2>2. CASE s = t
      <3>1. \A w \in Slots : \A j \in DOMAIN calls'[w] :
              HoldsTask(calls'[w][j], s) => t # Root /\ w = u /\ j = n
        BY <1>3, <1>13, <2>1, <2>2
      <3> QED
        BY <1>5, <2>2, <3>1
    <2>3. CASE s # t
      <3>1. \A w \in Slots : \A j \in DOMAIN calls'[w] :
              HoldsTask(calls'[w][j], s) => j \in DOMAIN calls[w] /\ HoldsTask(calls[w][j], s)
        BY <1>13, <1>16, <2>3
      <3>2. i \in DOMAIN calls[v] /\ HoldsTask(calls[v][i], s)
        BY <3>1
      <3>3. /\ s \notin members \union {Root}
            /\ \A x \in Slots : \A l \in DOMAIN calls[x] :
                 HoldsTask(calls[x][l], s) => x = v /\ l = i
        BY <2>1, <3>2
      <3>4. s \notin members' \union {Root}
        BY <1>5, <3>3
      <3> QED
        BY <3>1, <3>3, <3>4
    <2> QED
      BY <2>2, <2>3
  <1>23. StackOnce'
    <2> SUFFICES ASSUME NEW k \in Stacks, NEW v \in Slots, NEW i \in DOMAIN calls'[v],
                        HoldsStack(calls'[v][i], k)
                 PROVE  /\ \A m \in (members \ {t}) \ {Root} : stack[m] # k
                        /\ \A w \in Slots : \A j \in DOMAIN calls'[w] :
                             HoldsStack(calls'[w][j], k) => w = v /\ j = i
      BY <1>5 DEF StackOnce
    <2>1. \A w \in Slots : \A j \in DOMAIN calls[w] : HoldsStack(calls[w][j], k) =>
            /\ \A m \in members \ {Root} : stack[m] # k
            /\ \A x \in Slots : \A l \in DOMAIN calls[x] :
                 HoldsStack(calls[x][l], k) => x = w /\ l = j
      BY <1>2 DEF Ledgers, StackOnce
    <2>2. CASE t # Root /\ k = stack[t]
      <3>1. \A w \in Slots : \A j \in DOMAIN calls'[w] :
              HoldsStack(calls'[w][j], k) => w = u /\ j = n
        BY <1>3, <1>13, <2>1, <2>2
      <3>2. \A m \in (members \ {t}) \ {Root} : stack[m] # k
        BY <1>2, <1>3, <2>2 DEF Ledgers, MembersOwn
      <3> QED
        BY <3>1, <3>2
    <2>3. CASE t = Root \/ k # stack[t]
      <3>1. \A w \in Slots : \A j \in DOMAIN calls'[w] :
              HoldsStack(calls'[w][j], k) => j \in DOMAIN calls[w] /\ HoldsStack(calls[w][j], k)
        BY <1>13, <1>16, <2>3
      <3> QED
        BY <2>1, <3>1
    <2> QED
      BY <2>2, <2>3
  <1> QED
    BY <1>18, <1>19, <1>20, <1>21, <1>22, <1>23 DEF Ledgers
-----------------------------------------------------------------------------
(* The invariant. *)

\* The invariant says nothing of next outside the ring.
LEMMA SameRing ==
    ASSUME OneRing, NextInjective, members' = members, \A m \in members : next'[m] = next[m]
    PROVE  OneRing' /\ NextInjective'
  BY DEF OneRing, NextInjective

\* A stale pointer is not forgotten.
LEMMA WhyGrows ==
    ASSUME [Next]_vars, why' = {}
    PROVE  why = {}
  <1>1. \A reason : Halt(reason) => why' = why
    BY DEF Halt
  <1>2. \A t \in Slots : Join(t) => why \subseteq why'
    BY <1>1 DEF Join, JoinTo
  <1>3. \A t \in Slots : Continue(t) => why \subseteq why'
    BY <1>1 DEF Continue, LockWon, TakeTask, TakeStack, ReadNext, WriteNext, FreeStack,
                ReadToDel, FreeTask
  <1> QED
    BY <1>1, <1>2, <1>3 DEF Next, Tick, Fork, vars

\* The step of a task in fork or delete_task on the ring.
LEMMA ContinueRing ==
    ASSUME Inv, Fresh, NEW t \in Slots, Continue(t), why' = {}
    PROVE  OneRing' /\ NextInjective' /\ current' \in members'
  <1>1. TypeOK /\ Ledgers /\ OneRing /\ NextInjective /\ current \in members
    BY DEF Inv, RingHolds, Fresh
  <1>2. ASSUME current' = current, members' = members, next' = next
        PROVE  OneRing' /\ NextInjective' /\ current' \in members'
    BY <1>1, <1>2, SameRing
  <1>3. CASE LockWon(t) \/ TakeTask(t) \/ TakeStack(t) \/ ReadToDel(t)
    BY <1>2, <1>3 DEF LockWon, TakeTask, TakeStack, ReadToDel, fields
  <1>4. CASE FreeStack(t) \/ FreeTask(t)
    BY <1>2, <1>4 DEF FreeStack, FreeTask, Halt, fields
  <1>5. CASE ReadNext(t)
    <2>1. Top(t).at = "read_next" /\ Top(t) \in CallType /\ calls[t] # <<>>
      BY <1>5, TopIsSound DEF ReadNext
    <2>2. /\ Top(t).task \in Slots /\ HoldsTask(Top(t), Top(t).task)
          /\ Len(calls[t]) \in DOMAIN calls[t] /\ Top(t) = calls[t][Len(calls[t])]
      BY <1>1, <2>1, TopIsCall DEF HoldsTask, Filling, InFork, CallType
    <2>3. Top(t).task \notin members
      BY <1>1, <2>2 DEF Ledgers, TaskOnce
    <2>4. \A m \in members : next'[m] = next[m]
      BY <1>1, <1>5, <2>3 DEF ReadNext, TypeOK
    <2> QED
      BY <1>1, <1>5, <2>4, SameRing DEF ReadNext
  <1>6. CASE WriteNext(t)
    <2>1. /\ t \in members /\ Top(t).at = "write_next" /\ Top(t) \in CallType
          /\ calls[t] # <<>>
      BY <1>6, TopIsSound DEF WriteNext
    <2>2. /\ Top(t).task \in Slots /\ HoldsTask(Top(t), Top(t).task)
          /\ Len(calls[t]) \in DOMAIN calls[t] /\ Top(t) = calls[t][Len(calls[t])]
      BY <1>1, <2>1, TopIsCall DEF HoldsTask, Filling, InFork, CallType
    <2>3. Top(t).task \in Slots \ members
      BY <1>1, <2>2 DEF Ledgers, TaskOnce
    <2>4. next[Top(t).task] = next[t]
      BY <1>6 DEF WriteNext
    <2>5. next' = [next EXCEPT ![t] = Top(t).task] /\ members' = members \union {Top(t).task}
      BY <1>6 DEF WriteNext
    <2>6. OneRing' /\ NextInjective'
      BY <1>1, <2>1, <2>3, <2>4, <2>5, InsertKeepsRing
    <2> QED
      BY <1>1, <1>6, <2>5, <2>6 DEF WriteNext
  <1> QED
    BY <1>3, <1>4, <1>5, <1>6 DEF Continue

\* join takes a member out, and the machine stops only if nobody else is awake.
LEMMA JoinRing ==
    ASSUME Inv, Fresh, NEW t \in Slots, Join(t), why' = {}
    PROVE  /\ OneRing' /\ NextInjective'
           /\ \/ status' = "ok" /\ current' \in members'
              \/ status' = "own_stack" /\ members' \subseteq low'
  <1>1. PICK u \in Picks(t) : JoinTo(t, u)
    BY DEF Join
  <1>2. TypeOK /\ OneRing /\ NextInjective
    BY DEF Inv, RingHolds, Fresh
  <1>3. t \in members
    BY <1>1, TopIsSound DEF JoinTo
  <1>4. ~MeetsDead(t) /\ u \in members
    BY <1>1, <1>2, <1>3, MeetsMembers
  <1>5. /\ members # {t} /\ prev[t] \in members /\ next[prev[t]] = t
        /\ Unlink(t) /\ members' = members \ {t} /\ current' = u
        /\ status' = (IF u = t THEN "own_stack" ELSE status)
        /\ low \subseteq low'
    BY <1>1, <1>4 DEF JoinTo
  <1>6. OneRing' /\ NextInjective'
    BY <1>2, <1>3, <1>5, UnlinkKeepsRing DEF Unlink
  <1>7. CASE u = t
    <2>1. \A z \in members : z # t => z \in low
      BY <1>1, <1>2, <1>3, <1>7, RoundOnlyPastLow
    <2> QED
      BY <1>5, <1>6, <1>7, <2>1
  <1>8. CASE u # t
    BY <1>4, <1>5, <1>6, <1>8 DEF Fresh
  <1> QED
    BY <1>7, <1>8

\* What is freed is allocated.
LEMMA FreesWhatIsThere ==
    ASSUME Inv, Fresh, NEW t \in Slots, Continue(t)
    PROVE  status' = "ok"
  <1>1. TypeOK /\ Ledgers /\ status = "ok"
    BY DEF Inv, Fresh
  <1>2. CASE FreeStack(t)
    <2>1. /\ calls[t] # <<>> /\ Top(t).at = "free_stack" /\ CallSound(Top(t), Len(calls[t]), stack)
      BY <1>2, TopIsSound DEF FreeStack
    <2>2. /\ Top(t).stack \in Stacks /\ HoldsStack(Top(t), Top(t).stack)
          /\ Len(calls[t]) \in DOMAIN calls[t] /\ Top(t) = calls[t][Len(calls[t])]
      BY <1>1, <2>1, TopIsCall DEF CallSound, HoldsStack
    <2>3. Top(t).stack \in stacks
      BY <1>1, <2>2 DEF Ledgers, StackLedger
    <2> QED
      BY <1>1, <1>2, <2>3 DEF FreeStack
  <1>3. CASE FreeTask(t)
    <2>1. /\ calls[t] # <<>> /\ Top(t).at = "free_task" /\ CallSound(Top(t), Len(calls[t]), stack)
      BY <1>3, TopIsSound DEF FreeTask
    <2>2. /\ Top(t).task \in Slots /\ HoldsTask(Top(t), Top(t).task)
          /\ Len(calls[t]) \in DOMAIN calls[t] /\ Top(t) = calls[t][Len(calls[t])]
      BY <1>1, <2>1, TopIsCall DEF CallSound, HoldsTask, InDelete
    <2>3. Top(t).task \in structs \ {Root}
      BY <1>1, <2>2 DEF Ledgers, TaskLedger, TaskOnce
    <2> QED
      BY <1>1, <1>3, <2>3 DEF FreeTask
  <1>4. CASE LockWon(t) \/ TakeTask(t) \/ TakeStack(t) \/ ReadNext(t) \/ WriteNext(t)
             \/ ReadToDel(t)
    BY <1>1, <1>4 DEF LockWon, TakeTask, TakeStack, ReadNext, WriteNext, ReadToDel
  <1> QED
    BY <1>2, <1>3, <1>4 DEF Continue

\* Every step of fork and delete_task keeps the ledgers.
LEMMA ContinueLedgers ==
    ASSUME Inv, Fresh, NEW t \in Slots, Continue(t), Fresh'
    PROVE  Ledgers'
  BY LockLedgers, TakeTaskLedgers, TakeStackLedgers, ReadNextLedgers, WriteNextLedgers,
     FreeStackLedgers, ReadToDelLedgers, FreeTaskLedgers DEF Continue

\* The ledgers say nothing of what Tick and Halt change.
LEMMA SameLedgers ==
    ASSUME Ledgers, UNCHANGED <<calls, members, stack, structs, stacks>>
    PROVE  Ledgers'
  BY DEF Ledgers, CallsSound, MembersOwn, TaskLedger, StackLedger, TaskOnce, StackOnce

\* The invariant holds after task_init.
LEMMA InvInit == Init => Inv
  <1> SUFFICES ASSUME Init PROVE Inv
    OBVIOUS
  <1>1. TypeOK
    BY SlotsAssumption, RunningCalls DEF Init, TypeOK, Free, Held
  <1>2. OneRing /\ NextInjective /\ current \in members
    BY SlotsAssumption DEF Init, OneRing, NextInjective
  <1>3. FailureExplained
    BY DEF Init, FailureExplained
  <1>4. \A t \in Slots : \A i \in DOMAIN calls[t] : calls[t][i] = Running /\ i = 1
    BY DEF Init
  <1>5. \A s : ~HoldsTask(Running, s) /\ ~HoldsStack(Running, s)
    BY NothingHeld DEF Running, Call, Filling, InFork, InDelete
  <1>6. CallsSound
    <2>1. CallSound(Running, 1, stack)
      BY DEF CallSound, Running, Call, InFork, InDelete
    <2>2. \A t \in Slots : t \in members <=> calls[t] # <<>>
      BY DEF Init
    <2> QED
      BY <1>4, <2>1, <2>2 DEF CallsSound
  <1>7. Ledgers
    BY <1>4, <1>5, <1>6 DEF Ledgers, Init, MembersOwn, TaskLedger, StackLedger, TaskOnce,
                            StackOnce
  <1> QED
    BY <1>1, <1>2, <1>3, <1>7 DEF Inv, RingHolds

\* Every step keeps the invariant.
LEMMA InvStep ==
    ASSUME Inv, [Next]_vars
    PROVE  Inv'
  <1>1. TypeOK'
    BY TypeStep DEF Inv
  <1>2. CASE why' # {}
    BY <1>1, <1>2 DEF Inv, RingHolds, FailureExplained, Fresh
  <1>3. CASE why' = {} /\ UNCHANGED vars
    BY <1>1, <1>3, SameRing, SameLedgers
    DEF Inv, RingHolds, FailureExplained, Fresh, vars, fields, heap
  <1>4. CASE why' = {} /\ Next
    <2>1. why = {} /\ OneRing /\ NextInjective /\ TypeOK
      BY <1>4, WhyGrows DEF Inv, RingHolds
    <2>2. status = "ok"
      BY <1>4 DEF Next, Tick, Fork, Join, JoinTo, Continue, LockWon, TakeTask, TakeStack,
                  ReadNext, WriteNext, FreeStack, ReadToDel, FreeTask, At
    <2>3. Fresh /\ current \in members /\ Ledgers
      BY <2>1, <2>2 DEF Fresh, Inv, RingHolds
    <2>4. CASE Tick
      <3>1. current' \in members /\ UNCHANGED <<calls, members, next, stack, structs, stacks,
                                                status>>
        BY <2>1, <2>3, <2>4, MeetsMembers DEF Tick, fields, heap
      <3>2. OneRing' /\ NextInjective'
        BY <2>1, <3>1, SameRing
      <3>3. Ledgers'
        BY <2>3, <3>1, SameLedgers
      <3> QED
        BY <1>1, <2>2, <3>1, <3>2, <3>3 DEF Inv, RingHolds, FailureExplained
    <2>5. ASSUME NEW t \in Slots, Fork(t)
          PROVE  Inv'
      <3>1. UNCHANGED <<current, members, next, status>>
        BY <2>5 DEF Fork, fields
      <3>2. OneRing' /\ NextInjective'
        BY <2>1, <3>1, SameRing
      <3>3. Ledgers'
        BY <2>3, <2>5, ForkLedgers
      <3> QED
        BY <1>1, <2>2, <2>3, <3>1, <3>2, <3>3 DEF Inv, RingHolds, FailureExplained
    <2>6. ASSUME NEW t \in Slots, Join(t)
          PROVE  Inv'
      <3>1. /\ OneRing' /\ NextInjective'
            /\ \/ status' = "ok" /\ current' \in members'
               \/ status' = "own_stack" /\ members' \subseteq low'
        BY <1>4, <2>3, <2>6, JoinRing
      <3>2. Fresh' => Ledgers'
        BY <2>3, <2>6, JoinLedgers
      <3> QED
        BY <1>1, <3>1, <3>2 DEF Inv, RingHolds, FailureExplained
    <2>7. ASSUME NEW t \in Slots, Continue(t)
          PROVE  Inv'
      <3>1. OneRing' /\ NextInjective' /\ current' \in members'
        BY <1>4, <2>3, <2>7, ContinueRing
      <3>2. status' = "ok"
        BY <2>3, <2>7, FreesWhatIsThere
      <3>3. Ledgers'
        BY <1>4, <2>3, <2>7, <3>2, ContinueLedgers DEF Fresh
      <3> QED
        BY <1>1, <3>1, <3>2, <3>3 DEF Inv, RingHolds, FailureExplained
    <2> QED
      BY <1>4, <2>4, <2>5, <2>6, <2>7 DEF Next
  <1> QED
    BY <1>2, <1>3, <1>4

\* The invariant holds in every reachable state.
LEMMA InvCorrect == Spec => []Inv
  BY InvInit, InvStep, PTL DEF Spec

\* As long as every pointer was up to date when it was used, the members are
\* one ring of next pointers, whatever the number of tasks, and the task on the
\* CPU is one of them.
THEOREM RingCorrect == Spec => []RingHolds
  <1>1. Inv => RingHolds
    BY DEF Inv
  <1> QED
    BY <1>1, InvCorrect, PTL

\* incr_task meets a joined task and kfree is given a block that is not
\* allocated only after a stale pointer was used; delete_task frees the stack
\* it runs on, without one, only when every other task waits in lock.
THEOREM FailureCorrect == Spec => []FailureExplained
  <1>1. Inv => FailureExplained
    BY DEF Inv
  <1> QED
    BY <1>1, InvCorrect, PTL

\* The owners that Owned counts are those of the ledgers.
LEMMA LedgersOwn ==
    ASSUME Ledgers
    PROVE  /\ \A s \in Slots : /\ s \in structs <=> OwnersOfTask(s) # {}
                               /\ \A o, p \in OwnersOfTask(s) : o = p
           /\ \A k \in Stacks : /\ k \in stacks <=> OwnersOfStack(k) # {}
                                /\ \A o, p \in OwnersOfStack(k) : o = p
  <1>1. ASSUME NEW s \in Slots
        PROVE  /\ s \in structs <=> OwnersOfTask(s) # {}
               /\ \A o, p \in OwnersOfTask(s) : o = p
    <2>1. \A o : o \in OwnersOfTask(s) <=>
                   \/ o = <<s, 0>> /\ s \in members \union {Root}
                   \/ \E t \in Slots : \E i \in DOMAIN calls[t] :
                        HoldsTask(calls[t][i], s) /\ o = <<t, i>>
      BY DEF OwnersOfTask
    <2>2. s \in structs <=> OwnersOfTask(s) # {}
      BY <2>1 DEF Ledgers, TaskLedger
    <2>3. \A o, p \in OwnersOfTask(s) : o = p
      BY <2>1 DEF Ledgers, TaskOnce
    <2> QED
      BY <2>2, <2>3
  <1>2. ASSUME NEW k \in Stacks
        PROVE  /\ k \in stacks <=> OwnersOfStack(k) # {}
               /\ \A o, p \in OwnersOfStack(k) : o = p
    <2>1. \A o : o \in OwnersOfStack(k) <=>
                   \/ \E m \in members \ {Root} : stack[m] = k /\ o = <<m, 0>>
                   \/ \E t \in Slots : \E i \in DOMAIN calls[t] :
                        HoldsStack(calls[t][i], k) /\ o = <<t, i>>
      BY DEF OwnersOfStack
    <2>2. k \in stacks <=> OwnersOfStack(k) # {}
      BY <2>1 DEF Ledgers, StackLedger
    <2>3. \A o, p \in OwnersOfStack(k) : o = p
      BY <2>1 DEF Ledgers, StackOnce, MembersOwn
    <2> QED
      BY <2>2, <2>3
  <1> QED
    BY <1>1, <1>2

\* Nothing that fork allocates leaks, is freed under its owner or is freed
\* twice: every block has one owner, a member or one call of one task.
THEOREM OwnedCorrect == Spec => []Owned
  <1>1. Inv => Owned
    BY LedgersOwn DEF Inv, Fresh, Owned
  <1> QED
    BY <1>1, InvCorrect, PTL
=============================================================================
