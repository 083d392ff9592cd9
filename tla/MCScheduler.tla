---------------------------- MODULE MCScheduler ----------------------------
(* Instances of Scheduler for TLC: see the .cfg files. *)
EXTENDS Scheduler, TLC

\* Cores, with their idle TCBs, are interchangeable, and so are the threads that
\* neither reap nor run kernelMain().
Symmetry == Permutations(Cores) \cup Permutations(Threads \ {Reaper, Main})
=============================================================================
