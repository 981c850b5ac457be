------------------------------- MODULE Mutex --------------------------------
(***************************************************************************)
(* Tasks contending for one kernel mutex (kernel/locks.c, kernel/mutex.S), *)
(* as Locks describes the mutex and the tasks.                             *)
(***************************************************************************)
EXTENDS Locks

CONSTANT Kernel       \* the kernel's own task: this_task() = NULL

ASSUME KernelAssumption == Kernel \notin Task

vars == <<value, table, state, pc, dropped, signals, kills>>

Caller == Task \cup {Kernel}

TypeOK ==
  /\ LocksTypeOK
  /\ value \in {0, 1}
  /\ pc \in [Caller -> {"idle", "retry", "holding"}]

Init ==
  /\ LocksInit
  /\ value = 1
  /\ pc = [t \in Caller |-> "idle"]

(* The exclusive load and store of mutex.S: neither changes a value it     *)
(* refuses.                                                                *)
_mutex_lock == value # 0 /\ value' = value - 1

_mutex_unlock == value = 0 /\ value' = value + 1

(* Mutant: the decremented value is not stored. *)
LockNotStored(t) ==
  /\ state[t] = "ready" /\ pc[t] # "holding"
  /\ value # 0
  /\ table' = DelListener(table, t)
  /\ pc' = [pc EXCEPT ![t] = "holding"]
  /\ UNCHANGED <<value, state, dropped, signals, kills>>

(* _mutex_lock succeeds: the caller's first entry leaves the table. *)
LockTaken(t) ==
  /\ state[t] = "ready" /\ pc[t] # "holding"
  /\ _mutex_lock
  /\ table' = DelListener(table, t)
  /\ pc' = [pc EXCEPT ![t] = "holding"]
  /\ UNCHANGED <<state, dropped, signals, kills>>

(* _mutex_lock fails. *)
LockSuspends(t) ==
  /\ state[t] = "ready" /\ pc[t] # "holding"
  /\ value = 0
  /\ Suspend(t)

mutex_lock(t) == LockTaken(t) \/ LockSuspends(t)

(* mutex_trylock leaves the table alone; a failure changes nothing. *)
mutex_trylock(t) ==
  /\ state[t] = "ready" /\ pc[t] = "idle"
  /\ _mutex_lock
  /\ pc' = [pc EXCEPT ![t] = "holding"]
  /\ UNCHANGED <<table, state, dropped, signals, kills>>

(* task_resume_lock: only a waiting task is made runnable. *)
Resumed(t) == IF state[t] = "waiting" THEN [state EXCEPT ![t] = "ready"] ELSE state

(* Mutant: the search for a listener starts at slot 0. *)
UnlockLowest ==
  /\ _mutex_unlock
  /\ IF Occupied(table) = {}
       THEN UNCHANGED <<table, state>>
       ELSE /\ table' = ClearSlot(table, LowestSlot(table))
            /\ state' = Resumed(table.slot[LowestSlot(table)])

(* Mutant: the woken task stays in its slot. *)
UnlockKeeps ==
  /\ _mutex_unlock
  /\ IF Occupied(table) = {}
       THEN UNCHANGED state
       ELSE state' = Resumed(table.slot[NextSlot(table)])
  /\ UNCHANGED table

(* Mutant: nobody is woken. *)
UnlockSilent == _mutex_unlock /\ UNCHANGED <<table, state>>

(* The body of mutex_unlock: wake at most one listener.  It fails, and     *)
(* changes nothing, on an unlocked mutex.                                  *)
UnlockBody ==
  /\ _mutex_unlock
  /\ IF Occupied(table) = {}
       THEN UNCHANGED <<table, state>>
       ELSE /\ table' = ClearSlot(table, NextSlot(table))
            /\ state' = Resumed(table.slot[NextSlot(table)])

mutex_unlock(t) ==
  /\ state[t] = "ready" /\ pc[t] = "holding"
  /\ UnlockBody
  /\ pc' = [pc EXCEPT ![t] = "idle"]
  /\ UNCHANGED <<dropped, signals, kills>>

(* mutex_spinlock: the kernel's own task is never suspended; it spins      *)
(* until the mutex is free.                                                *)
mutex_spinlock ==
  /\ pc[Kernel] = "idle"
  /\ _mutex_lock
  /\ pc' = [pc EXCEPT ![Kernel] = "holding"]
  /\ UNCHANGED <<table, state, dropped, signals, kills>>

KernelUnlock ==
  /\ pc[Kernel] = "holding"
  /\ UnlockBody
  /\ pc' = [pc EXCEPT ![Kernel] = "idle"]
  /\ UNCHANGED <<dropped, signals, kills>>

Next ==
  \/ \E t \in Task : mutex_lock(t) \/ mutex_trylock(t) \/ mutex_unlock(t)
  \/ \E t \in Task : Signal(t) \/ Kill(t) \/ Create(t)
  \/ mutex_spinlock \/ KernelUnlock

(* Round-robin scheduling runs every runnable task again and again, and a  *)
(* holder leaves its critical section; nobody has to ask for the mutex.    *)
Fairness ==
  /\ \A t \in Task : WF_vars(pc[t] = "retry" /\ mutex_lock(t))
  /\ \A t \in Task : WF_vars(mutex_unlock(t))
  /\ WF_vars(KernelUnlock)

Spec == Init /\ [][Next]_vars

FairSpec == Spec /\ Fairness
-----------------------------------------------------------------------------
Holders == {c \in Caller : pc[c] = "holding"}

(* The mutex excludes: at most one caller holds it, and while one does the *)
(* value is 0, whatever signals, kills and stale listeners do meanwhile.   *)
MutualExclusion ==
  /\ \A c, d \in Holders : c = d
  /\ Holders # {} => value = 0

Uninterrupted == signals = 0 /\ kills = 0

(* No lost wake-up: whenever the mutex is free and tasks are suspended on  *)
(* it, one of the suspended tasks has been woken and will try again.  The  *)
(* conditions are needed: once a waiter was interrupted its stale slot can *)
(* use up the only wake-up of an unlock, see the README.                   *)
NoLostWakeup ==
  /\ signals = 0 /\ kills = 0 /\ dropped = {}
  /\ value # 0 /\ Waiting # {}
  => \E t \in Task : state[t] = "ready" /\ pc[t] = "retry"

(* The order in which mutex_unlock will wake: the slots from the one after *)
(* last on, once around, without the free ones they begin with.            *)
Place(l, k) == IF l.last + k < listeners THEN l.last + k ELSE l.last + k - listeners

Around(l, k) == l.slot[Place(l, k)]

FirstPlace(l) == Min({k \in 1..listeners : Around(l, k) # NULL} \cup {listeners + 1})

WaitOrder(l) ==
  [i \in 1..(listeners + 1 - FirstPlace(l)) |-> Around(l, FirstPlace(l) + i - 1)]

Queue == INSTANCE WaitQueue WITH locked <- value = 0, queue <- WaitOrder(table)

(* Uninterrupted, the slots and last form a first-come first-served queue:   *)
(* mutex_unlock wakes the task that has waited longest, wherever the       *)
(* additions and removals have moved last to.                              *)
FirstComeFirstServed ==
  Queue!QueueInit /\ [][Uninterrupted' => [Queue!QueueNext]_(Queue!queueVars)]_vars

(* Uninterrupted, a suspended task is eventually woken: the cyclic search of *)
(* the table passes over nobody for ever.                                  *)
EveryWaiterWoken ==
  []Uninterrupted => \A t \in Task : state[t] = "waiting" ~> state[t] = "ready"
=============================================================================
