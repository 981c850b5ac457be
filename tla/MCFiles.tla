------------------------------ MODULE MCFiles ------------------------------
(* Instances of Files for TLC. *)
EXTENDS Files

Alike == Permutations(Proc \ {First}) \cup Permutations(File)

Programs ==
  {{"open", "pipe", "dup", "vfork"}, {"open", "dup2", "unlink"},
   {"pipe", "share", "dup", "dup2", "vfork"}, {"pipe", "share", "vfork", "write"}}

(* Bound: with dup2 a count may fall below 0, further with every close. *)
CountsBounded == \A n \in Node : usage_count[n] >= -1
=============================================================================
