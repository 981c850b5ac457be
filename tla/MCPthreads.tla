----------------------------- MODULE MCPthreads -----------------------------
(* Instances of Pthreads for TLC. *)
EXTENDS Pthreads, TLC

Structures == Permutations(Thread)

Separate == {{}, {"detach"}, {"leader"}, {"end"}}
=============================================================================
