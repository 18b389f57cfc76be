----------------------------- MODULE CharDevice -----------------------------
(***************************************************************************)
(* What write_char (src/src/io.c) promises about the text device it        *)
(* guards, without its locks and its queue: one task owns the device at a  *)
(* time, an owner prints any deferred characters it finds and then its     *)
(* own, a task that finds the device taken may defer its character while   *)
(* fewer than Cap are waiting, and no character is printed that was not    *)
(* accepted, nor forgotten.                                                *)
(*                                                                         *)
(* Characters are counted, not named: which bytes come out, and in which   *)
(* order, is a question about struct Queue (module Queue).                 *)
(***************************************************************************)
EXTENDS Naturals

CONSTANTS Tasks, Cap, Nobody

VARIABLES
    owner,      \* the task that may print, or Nobody
    ownDone,    \* it has printed its own character
    backlog,    \* deferred characters
    accepted,   \* characters deferred or printed by their own writer
    printed     \* characters sent to the device

deviceVars == <<owner, ownDone, backlog, accepted, printed>>

DeviceInit == /\ owner = Nobody
              /\ ownDone = FALSE
              /\ backlog = 0
              /\ accepted = 0
              /\ printed = 0

Acquire(t) == /\ owner = Nobody
              /\ owner' = t
              /\ UNCHANGED <<ownDone, backlog, accepted, printed>>

Defer == /\ backlog < Cap
         /\ backlog' = backlog + 1
         /\ accepted' = accepted + 1
         /\ UNCHANGED <<owner, ownDone, printed>>

PrintDeferred == /\ owner # Nobody
                 /\ ~ownDone
                 /\ backlog > 0
                 /\ backlog' = backlog - 1
                 /\ printed' = printed + 1
                 /\ UNCHANGED <<owner, ownDone, accepted>>

PrintOwn == /\ owner # Nobody
            /\ ~ownDone
            /\ ownDone' = TRUE
            /\ accepted' = accepted + 1
            /\ printed' = printed + 1
            /\ UNCHANGED <<owner, backlog>>

Release == /\ ownDone
           /\ owner' = Nobody
           /\ ownDone' = FALSE
           /\ UNCHANGED <<backlog, accepted, printed>>

DeviceNext == \/ \E t \in Tasks : Acquire(t)
              \/ Defer \/ PrintDeferred \/ PrintOwn \/ Release

DeviceSpec == DeviceInit /\ [][DeviceNext]_deviceVars
=============================================================================
