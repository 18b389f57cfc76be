---------------------------- MODULE Sched_proofs ----------------------------
(***************************************************************************)
(* Proofs about Sched, for every number of tasks and every low priority.   *)
(* The bound on ages needs that the task on the CPU has age 0: lock raises *)
(* and lowers its priority, and lowering it would leave an older age       *)
(* behind.                                                                 *)
(***************************************************************************)
EXTENDS Sched, TLAPS

USE DEF Free, Held

LEMMA SuccType == ASSUME NEW t \in Tasks PROVE Succ(t) \in Tasks
  BY SchedAssumption DEF Succ, Tasks

IInv == TypeOK /\ AgeBounded /\ Exclusion

LEMMA InitIInv == Init => IInv
  <1> SUFFICES ASSUME Init PROVE IInv
    OBVIOUS
  <1>1. 0 \in Tasks /\ 0 \in 0 .. Low /\ Low # 0
    BY SchedAssumption DEF Tasks
  <1>2. TypeOK
    BY <1>1 DEF Init, TypeOK
  <1>3. AgeBounded
    BY <1>1 DEF Init, AgeBounded
  <1>4. Exclusion
    BY DEF Init, Exclusion, Owners
  <1> QED
    BY <1>2, <1>3, <1>4 DEF IInv

-----------------------------------------------------------------------------
LEMMA TypeStep == IInv /\ [Next]_vars => TypeOK'
  <1> SUFFICES ASSUME IInv, [Next]_vars PROVE TypeOK'
    OBVIOUS
  <1> USE SchedAssumption DEF IInv, TypeOK, Goto, OnCpu, Lock, Unlock
  <1>1. ASSUME NEW t \in Tasks, Deprioritize(t) PROVE TypeOK'
    BY <1>1 DEF Deprioritize
  <1>2. ASSUME NEW t \in Tasks, Xchg(t) PROVE TypeOK'
    BY <1>2 DEF Xchg
  <1>3. ASSUME NEW t \in Tasks, Reprioritize(t) PROVE TypeOK'
    BY <1>3 DEF Reprioritize
  <1>4. ASSUME NEW t \in Tasks, Leave(t) PROVE TypeOK'
    BY <1>4 DEF Leave
  <1>5. CASE Tick
    BY <1>5, SuccType DEF Tick
  <1>6. CASE PassOver
    <2>1. age[current] + 1 \in 0 .. Low
      BY <1>6 DEF PassOver
    <2> QED
      BY <1>6, <2>1, SuccType DEF PassOver
  <1>7. CASE Pick
    <2>1. age' \in [Tasks -> 0 .. Low]
      BY <1>7 DEF Pick
    <2> QED
      BY <1>7, <2>1 DEF Pick
  <1>8. CASE UNCHANGED vars
    BY <1>8 DEF vars
  <1> QED
    BY <1>1, <1>2, <1>3, <1>4, <1>5, <1>6, <1>7, <1>8 DEF Next, Inside, Switch

LEMMA AgeStep == IInv /\ [Next]_vars => AgeBounded'
  <1> SUFFICES ASSUME IInv, [Next]_vars PROVE AgeBounded'
    OBVIOUS
  <1> USE SchedAssumption DEF IInv, TypeOK, AgeBounded, Goto, OnCpu
  <1>1. ASSUME NEW t \in Tasks, Deprioritize(t) PROVE AgeBounded'
    BY <1>1 DEF Deprioritize
  <1>2. ASSUME NEW t \in Tasks, Xchg(t) PROVE AgeBounded'
    BY <1>2 DEF Xchg
  <1>3. ASSUME NEW t \in Tasks, Reprioritize(t) PROVE AgeBounded'
    <2>1. age[t] = 0
      BY <1>3 DEF Reprioritize
    <2> QED
      BY <1>3, <2>1 DEF Reprioritize
  <1>4. ASSUME NEW t \in Tasks, Leave(t) PROVE AgeBounded'
    BY <1>4 DEF Leave
  <1>5. CASE Tick
    BY <1>5 DEF Tick
  <1>6. CASE PassOver
    BY <1>6 DEF PassOver
  <1>7. CASE Pick
    BY <1>7 DEF Pick
  <1>8. CASE UNCHANGED vars
    BY <1>8 DEF vars
  <1> QED
    BY <1>1, <1>2, <1>3, <1>4, <1>5, <1>6, <1>7, <1>8 DEF Next, Inside, Switch

LEMMA ExclusionStep == IInv /\ [Next]_vars => Exclusion'
  <1> SUFFICES ASSUME IInv, [Next]_vars PROVE Exclusion'
    OBVIOUS
  <1> USE DEF IInv, TypeOK, Exclusion, Owners, Goto, Lock, Unlock
  <1>1. ASSUME NEW t \in Tasks, Deprioritize(t) PROVE Exclusion'
    BY <1>1 DEF Deprioritize
  <1>2. ASSUME NEW t \in Tasks, Xchg(t) PROVE Exclusion'
    BY <1>2 DEF Xchg
  <1>3. ASSUME NEW t \in Tasks, Reprioritize(t) PROVE Exclusion'
    BY <1>3 DEF Reprioritize
  <1>4. ASSUME NEW t \in Tasks, Leave(t) PROVE Exclusion'
    BY <1>4 DEF Leave
  <1>5. CASE Switch
    BY <1>5 DEF Switch, Tick, PassOver, Pick
  <1>6. CASE UNCHANGED vars
    BY <1>6 DEF vars
  <1> QED
    BY <1>1, <1>2, <1>3, <1>4, <1>5, <1>6 DEF Next, Inside

LEMMA Invariance == Spec => []IInv
  <1>1. IInv /\ [Next]_vars => IInv'
    BY TypeStep, AgeStep, ExclusionStep DEF IInv
  <1> QED
    BY InitIInv, <1>1, PTL DEF Spec

-----------------------------------------------------------------------------
\* Every variable of the scheduler keeps its type.
THEOREM TypeCorrect == Spec => []TypeOK
  <1>1. IInv => TypeOK
    BY DEF IInv
  <1> QED
    BY Invariance, <1>1, PTL

\* incr_task passes no task over more often than its priority: the bound on
\* waiting behind the low priority.
THEOREM BoundedAge == Spec => []AgeBounded
  <1>1. IInv => AgeBounded
    BY DEF IInv
  <1> QED
    BY Invariance, <1>1, PTL

\* The xchg spin lock excludes under preemption at every instruction.
THEOREM MutualExclusion == Spec => []Exclusion
  <1>1. IInv => Exclusion
    BY DEF IInv
  <1> QED
    BY Invariance, <1>1, PTL
=============================================================================
