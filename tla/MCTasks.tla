------------------------------ MODULE MCTasks ------------------------------
(* An instance of Tasks for TLC. *)
EXTENDS Tasks

\* The steps after a stale pointer was used are not followed further.
UpToDate == why = {}
=============================================================================
