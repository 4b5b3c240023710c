----------------------------- MODULE MCProcess -----------------------------
(* Instances of Process for TLC. *)
EXTENDS Process, TLC

\* Frames are interchangeable.
Symmetry == Permutations(Frame)
=============================================================================
