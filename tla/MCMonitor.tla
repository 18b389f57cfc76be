----------------------------- MODULE MCMonitor -----------------------------
(* An instance of Monitor for TLC. *)
EXTENDS Monitor, FiniteSets

CONSTANTS MaxAbove,    \* bound: rows that scroll off
          MaxMarks     \* bound: cells that are not white blanks

Marked(f) == {i \in DOMAIN f : f[i] # [char |-> Blank, colour |-> White]}
Rows      == {above[r] : r \in DOMAIN above} \union {video_memory}
Bounded   == /\ Len(above) <= MaxAbove
             /\ \A f \in Rows : Cardinality(Marked(f)) <= MaxMarks
=============================================================================
