------------------------ MODULE MCInterruptSafeLock ------------------------
(* Instances of InterruptSafeLock for TLC: see the .cfg files. *)
EXTENDS InterruptSafeLock
=============================================================================
