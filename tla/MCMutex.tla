------------------------------ MODULE MCMutex -------------------------------
(* Mutex with named tasks, for TLC. *)
EXTENDS Mutex, TLC
TaskSymmetry == Permutations(Task)
=============================================================================
