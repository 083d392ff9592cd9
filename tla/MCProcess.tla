----------------------------- MODULE MCProcess -----------------------------
(* Instances of Process for TLC: see the .cfg files. *)
EXTENDS Process, TLC

Symmetry == Permutations(Procs \ {Root}) \cup Permutations(Sems)
=============================================================================
