---------------------------- MODULE MCSemaphore ----------------------------
(* Instances of Semaphore for TLC: see the .cfg file. *)
EXTENDS Semaphore
=============================================================================
