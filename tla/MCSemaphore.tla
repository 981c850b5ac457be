----------------------------- MODULE MCSemaphore ----------------------------
(* Semaphore with named tasks, for TLC. *)
EXTENDS Semaphore, TLC
TaskSymmetry == Permutations(Task)
=============================================================================
