------------------------------ MODULE MCSocket ------------------------------
(* Instances of Socket for TLC. *)
EXTENDS Socket, TLC

\* Whoever has an end open may read from it and write to it.
Anyone == [e \in End |-> Thread]

\* Processes are interchangeable.
Symmetry == Permutations(Thread)
=============================================================================
