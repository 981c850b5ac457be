----------------------------- MODULE Scheduler ------------------------------
(***************************************************************************)
(* What the two models of kernel/scheduler.c share: the tasks, the state   *)
(* of each, the one that has the CPU, and the interrupt that switches.     *)
(*                                                                         *)
(* There is one CPU.  A system call runs with interrupts off, so a handler *)
(* and the task switch that may end it are one action; the PendSV          *)
(* interrupt it asked for is taken before any task runs again.             *)
(***************************************************************************)
CONSTANTS Process,   \* task structures there is memory for
          kernel     \* the kernel's own task, which is never suspended

ASSUME KernelAssumption == kernel \notin Process

VARIABLES state,     \* tb.state
          cur,       \* _cur_task
          pendsv     \* PendSV is pending

Task == Process \cup {kernel}

Ready == {"RUNNABLE", "RUNNING"}

(* A user task is executing and may issue a system call. *)
InUser == ~pendsv /\ cur # kernel
=============================================================================
