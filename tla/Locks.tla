------------------------------- MODULE Locks -------------------------------
(***************************************************************************)
(* What a mutex and a semaphore have in common: both are a struct          *)
(* semaphore (kernel/locks.h), a value and a listener table, and tasks are *)
(* listed, suspended and taken away in the same way.  Mutex and Semaphore  *)
(* add the calls.                                                          *)
(*                                                                         *)
(* A call runs inside a system call with interrupts off, so each is one    *)
(* action.  One that fails lists the task, suspends it and returns         *)
(* SYS_CALL_AGAIN: the C library issues the call again when the task runs  *)
(* next.  A signal handled meanwhile turns that into EINTR.                *)
(***************************************************************************)
EXTENDS Listeners

CONSTANTS MaxSignals,   \* bound: signals delivered to waiting tasks
          MaxKills      \* bound: tasks killed

ASSUME BoundsAssumption == MaxSignals \in Nat /\ MaxKills \in Nat

VARIABLES value,     \* a mutex: 1 unlocked, 0 locked; a semaphore: its count
          table,     \* the listener table
          state,     \* "ready": running or runnable; "waiting"; "dead"
          pc,        \* "idle"; "retry": must issue its call again; "holding"
          dropped,   \* history: tasks suspended without being listed
          signals,   \* signals delivered so far
          kills      \* tasks killed so far

LocksTypeOK ==
  /\ table \in Table
  /\ state \in [Task -> {"ready", "waiting", "dead"}]
  /\ dropped \subseteq Task
  /\ signals \in 0..MaxSignals
  /\ kills \in 0..MaxKills

LocksInit ==
  /\ table = NoListener
  /\ state = [t \in Task |-> "ready"]
  /\ dropped = {}
  /\ signals = 0
  /\ kills = 0

(* The call of task t fails: list it, task_suspend(), SYS_CALL_AGAIN. *)
Suspend(t) ==
  /\ table' = AddListener(table, t)
  /\ dropped' = IF AlreadyLast(table, t) \/ HasRoom(table)
                THEN dropped ELSE dropped \cup {t}
  /\ state' = [state EXCEPT ![t] = "waiting"]
  /\ pc' = [pc EXCEPT ![t] = "retry"]
  /\ UNCHANGED <<value, signals, kills>>

(* catch_signal resumes a waiting task to run its handler; the handler's   *)
(* return makes the pending call fail with EINTR.  The listener stays.     *)
Signal(t) ==
  /\ signals < MaxSignals
  /\ state[t] = "waiting"
  /\ signals' = signals + 1
  /\ state' = [state EXCEPT ![t] = "ready"]
  /\ pc' = [pc EXCEPT ![t] = "idle"]
  /\ dropped' = dropped \ {t}
  /\ UNCHANGED <<value, table, kills>>

(* task_destroy frees the structure; neither the table nor the value of a  *)
(* mutex the task held is touched.                                         *)
Kill(t) ==
  /\ kills < MaxKills
  /\ state[t] # "dead"
  /\ kills' = kills + 1
  /\ state' = [state EXCEPT ![t] = "dead"]
  /\ pc' = [pc EXCEPT ![t] = "idle"]
  /\ dropped' = dropped \ {t}
  /\ UNCHANGED <<value, table, signals>>

(* A new task whose structure is allocated at the address of a dead one:   *)
(* old entries now name it.                                                *)
Create(t) ==
  /\ state[t] = "dead"
  /\ state' = [state EXCEPT ![t] = "ready"]
  /\ UNCHANGED <<value, table, pc, dropped, signals, kills>>
-----------------------------------------------------------------------------
Waiting == {t \in Task : state[t] = "waiting"}

(* A suspended task can be found by mutex_unlock and sem_post: it is in    *)
(* the table, unless the table was full when it was suspended.             *)
EveryWaiterListed == Waiting \subseteq Listed(table) \cup dropped
=============================================================================
