------------------------------- MODULE MCHeap -------------------------------
(* Instances of Heap for TLC. *)
EXTENDS Heap

\* Beyond a torn state only what an unaligned page table leads to is followed, until
\* the kmalloc that took it returns.
Followed == torn => /\ \E d \in Directory : skewed[d] # NoPointer
                    /\ \E t \in Tasks : pc[t] # "idle"
=============================================================================
