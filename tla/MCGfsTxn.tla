------------------------------ MODULE MCGfsTxn ------------------------------
(* Instances of GfsTxn for TLC. *)
EXTENDS GfsTxn, TLC

\* The root and one file share a table block; other files have another.
CONSTANTS f, t1, t2
OneApart == [n \in File \cup {Root} |-> IF n \in {Root, f} THEN t1 ELSE t2]

\* Values are interchangeable.
Symmetry == Permutations(Value)
=============================================================================
