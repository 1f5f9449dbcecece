------------------------------ MODULE MCAshmem ------------------------------
(* Ashmem with an area in which a hole can be pinned, and a small one.     *)
EXTENDS Ashmem

CONSTANTS large, small

MCSize == [a \in Areas |-> IF a = large THEN 3 ELSE 1]
=============================================================================
