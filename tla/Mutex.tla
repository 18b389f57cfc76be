------------------------------- MODULE Mutex -------------------------------
(***************************************************************************)
(* The kernel's spin lock (src/src/mutex.c): a word that holds 0 or 1 and  *)
(* is swapped with 1 by one xchg instruction.  The parameter m is the      *)
(* state variable that holds the word.                                     *)
(*                                                                         *)
(* lock also sets the priority of the calling task to 15 while it spins    *)
(* and back to 0 afterwards, which only changes how often a spinning task  *)
(* is scheduled: that part is a module of its own, Sched.  Here a          *)
(* task may be preempted between any two steps.                            *)
(***************************************************************************)
Free == 0
Held == 1

\* lock: every xchg that reads Held leaves the word unchanged, so the spin
\* is a wait; the one that reads Free takes the lock.
Lock(m) == /\ m = Free
           /\ m' = Held

\* try_lock: one xchg whatever the word holds.  It succeeds if it read Free.
TryLock(m) == m' = Held
\* Mutant: the result of the exchange is not looked at.
TryLockIgnored(m) == TRUE
TryLockSucceeds(m) == m = Free

\* unlock: a plain store, whoever holds the lock.
Unlock(m) == m' = Free
=============================================================================
