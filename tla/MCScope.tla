------------------------------ MODULE MCScope ------------------------------
(***************************************************************************)
(* Three names in two buckets: x and bx share one, as they do in the       *)
(* program (pjw_hash looks at the last byte and the parity of the one      *)
(* before).                                                                *)
(***************************************************************************)
EXTENDS ScopeTable

MCBucketOf == [name \in {"x", "bx", "f"} |-> IF name = "f" THEN 102 ELSE 120]
MCBucket   == {102, 120}
MCName     == {"x", "bx", "f"}
MCValue    == {0, 1}
=============================================================================
