----------------------------- MODULE MCSignals -----------------------------
(* Instances of Signals for TLC. *)
EXTENDS Signals

SomeMasks == SUBSET {SIGCHLD, SIGUSR1} \cup {{SIGCONT}, {SIGSTOP, SIGUSR1}}
=============================================================================
