------------------------------- MODULE Sched -------------------------------
(***************************************************************************)
(* The scheduler: timer_callback (src/src/timer.c), switch_task and        *)
(* incr_task (src/src/task.s, task.c), with the one thing that changes     *)
(* priorities, lock (src/src/mutex.c).                                     *)
(*                                                                         *)
(* There is one CPU.  The task it runs is current; a timer interrupt may   *)
(* come between any two of its instructions and makes incr_task look for   *)
(* the next task, with interrupts off.  A task that waits in lock has      *)
(* priority Low and is passed over until its age has caught up.  All tasks *)
(* contend for one mutex here, which they may take at any time.            *)
(*                                                                         *)
(* The list of tasks is a ring of N tasks that does not change: fork and   *)
(* join are not part of this module.                                       *)
(***************************************************************************)
EXTENDS Naturals, Mutex

CONSTANTS
    N,           \* number of tasks
    Low          \* the priority of a waiting task (15); running tasks have 0

ASSUME SchedAssumption == N \in Nat \ {0} /\ Low \in Nat \ {0}

Tasks == 0 .. N - 1
Succ(t) == IF t = N - 1 THEN 0 ELSE t + 1      \* t->next

VARIABLES
    current,     \* current_task
    scanning,    \* incr_task is running, interrupts are off
    priority, age,
    pc,          \* "run", then in lock "spin" and "won", then "critical"
    mutex

vars == <<current, scanning, priority, age, pc, mutex>>

\* task_init, and the tasks forked since.
Init == /\ current = 0
        /\ scanning = FALSE
        /\ priority = [t \in Tasks |-> 0]
        /\ age = [t \in Tasks |-> 0]
        /\ pc = [t \in Tasks |-> "run"]
        /\ mutex = Free

\* t executes instructions.
OnCpu(t) == current = t /\ ~scanning
Goto(t, from, to) == OnCpu(t) /\ pc[t] = from /\ pc' = [pc EXCEPT ![t] = to]

-----------------------------------------------------------------------------
(* lock and unlock, by the task that has the CPU. *)

\* cli; current_task->priority = 15; sti
Deprioritize(t) == /\ Goto(t, "run", "spin")
                   /\ priority' = [priority EXCEPT ![t] = Low]
                   /\ UNCHANGED <<current, scanning, age, mutex>>

\* Mutant: the exchange is taken to have succeeded.
XchgBlind(t) == /\ Goto(t, "spin", "won")
                /\ mutex' = Held
                /\ UNCHANGED <<current, scanning, priority, age>>

\* The xchg that finds the mutex free; the others change nothing.
Xchg(t) == /\ Goto(t, "spin", "won")
           /\ Lock(mutex)
           /\ UNCHANGED <<current, scanning, priority, age>>

\* cli; current_task->priority = 0; sti
Reprioritize(t) == /\ Goto(t, "won", "critical")
                   /\ priority' = [priority EXCEPT ![t] = 0]
                   /\ UNCHANGED <<current, scanning, age, mutex>>

\* Mutant: the mutex is not given back.
LeaveKeeps(t) == /\ Goto(t, "critical", "run")
                 /\ UNCHANGED <<current, scanning, priority, age, mutex>>

\* unlock.
Leave(t) == /\ Goto(t, "critical", "run")
            /\ Unlock(mutex)
            /\ UNCHANGED <<current, scanning, priority, age>>

-----------------------------------------------------------------------------
(* The timer interrupt. *)

\* timer_callback calls switch_task; incr_task goes to the next task.
Tick == /\ ~scanning
        /\ scanning' = TRUE
        /\ current' = Succ(current)
        /\ UNCHANGED <<priority, age, pc, mutex>>

\* Mutants: passing over a task does not make it older; a task that is picked
\* keeps its age.
PassOverAgeless == /\ scanning
                   /\ priority[current] > age[current]
                   /\ current' = Succ(current)
                   /\ UNCHANGED <<scanning, priority, age, pc, mutex>>

\* The loop body of incr_task.
PassOver == /\ scanning
            /\ priority[current] > age[current]
            /\ age' = [age EXCEPT ![current] = @ + 1]
            /\ current' = Succ(current)
            /\ UNCHANGED <<scanning, priority, pc, mutex>>

PickKeepsAge == /\ scanning
                /\ priority[current] <= age[current]
                /\ scanning' = FALSE
                /\ UNCHANGED <<current, priority, age, pc, mutex>>

\* The loop ends; switch_task loads the task's stack and interrupts go on.
Pick == /\ scanning
        /\ priority[current] <= age[current]
        /\ age' = [age EXCEPT ![current] = 0]
        /\ scanning' = FALSE
        /\ UNCHANGED <<current, priority, pc, mutex>>

-----------------------------------------------------------------------------
Inside(t) == Xchg(t) \/ Reprioritize(t) \/ Leave(t)
Switch == Tick \/ PassOver \/ Pick

Next == (\E t \in Tasks : Deprioritize(t) \/ Inside(t)) \/ Switch

Spec == Init /\ [][Next]_vars

\* The timer keeps ticking and incr_task keeps executing; a task that gets the
\* CPU again and again gets its next instruction done (a time slice is far
\* longer than an instruction).  Nothing obliges a task to call lock.
Fairness == /\ WF_vars(Switch)
            /\ \A t \in Tasks : SF_vars(Inside(t))
FairSpec == Spec /\ Fairness

-----------------------------------------------------------------------------
Owners == {t \in Tasks : pc[t] \in {"won", "critical"}}

TypeOK == /\ current \in Tasks
          /\ scanning \in BOOLEAN
          /\ priority \in [Tasks -> {0, Low}]
          /\ age \in [Tasks -> 0 .. Low]
          /\ pc \in [Tasks -> {"run", "spin", "won", "critical"}]
          /\ mutex \in {Free, Held}

\* A task is passed over at most priority times in a row: its age never gets
\* ahead of its priority, although a priority drops to 0 while other tasks'
\* ages are being raised, and every task that runs has age 0.
AgeBounded == /\ \A t \in Tasks : age[t] <= priority[t]
              /\ ~scanning => age[current] = 0

\* The mutex excludes, also across preemptions inside lock.
Exclusion == /\ \A s, t \in Owners : s = t
             /\ mutex = Held <=> Owners # {}

\* No task starves: each gets the CPU again and again, waiting or not.  So
\* incr_task comes to an end as well, also when every task waits in lock.
EveryTaskRuns == \A t \in Tasks : []<>OnCpu(t)

\* The owner of the mutex gets far enough to release it, although it may win
\* the mutex while it is still deprioritized.
MutexReleased == mutex = Held ~> mutex = Free
=============================================================================
