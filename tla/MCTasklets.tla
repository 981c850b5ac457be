----------------------------- MODULE MCTasklets -----------------------------
(* Instances of Tasklets for TLC. *)
EXTENDS Tasklets

(* A large heap; other tasklets, with and without additions in the window. *)
Separate == {[timers |-> 5, others |-> FALSE, window |-> FALSE],
             [timers |-> 1, others |-> TRUE, window |-> FALSE],
             [timers |-> 1, others |-> TRUE, window |-> TRUE]}
=============================================================================
