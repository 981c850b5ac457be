------------------------------ MODULE MCTasks -------------------------------
(* Instances of Tasks for TLC. *)
EXTENDS Tasks, TLC

(* Structures other than init's are alike. *)
Structures == Permutations(Process \ {init})
=============================================================================
