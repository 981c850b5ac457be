----------------------------- MODULE Semaphore ------------------------------
(***************************************************************************)
(* Tasks waiting on one semaphore (kernel/locks.c, kernel/semaphore.S), as *)
(* Locks describes the semaphore and the tasks.  A wait may carry an       *)
(* absolute deadline, kept by a kernel timer.                              *)
(***************************************************************************)
EXTENDS Locks

CONSTANTS InitValue,    \* the value given to sem_init
          MaxPosts      \* bound: posts

ASSUME InitValueAssumption == InitValue \in Nat
ASSUME PostsAssumption == MaxPosts \in Nat

VARIABLES timed,     \* tasks whose timer_id is set
          pending,   \* how many deadline timers are running
          faulted,   \* a timer handler dereferenced NULL and the kernel stopped
          posts      \* posts so far

semvars == <<value, table, state, pc, timed, pending, dropped,
             faulted, posts, signals, kills>>

SemTypeOK ==
  /\ LocksTypeOK
  /\ value \in Nat
  /\ pc \in [Task -> {"idle", "retry"}]
  /\ timed \subseteq Task
  /\ pending \in Nat
  /\ faulted \in BOOLEAN
  /\ posts \in 0..MaxPosts

SemInit ==
  /\ LocksInit
  /\ value = InitValue
  /\ pc = [t \in Task |-> "idle"]
  /\ timed = {} /\ pending = 0 /\ faulted = FALSE /\ posts = 0

Counters == <<posts, signals, kills>>

(* The exclusive load and store of semaphore.S; a refusal changes nothing. *)
_sem_wait == value # 0 /\ value' = value - 1

(* _sem_wait succeeds. *)
WaitTaken(t) ==
  /\ state[t] = "ready"
  /\ _sem_wait
  /\ table' = DelListener(table, t)
  /\ pc' = [pc EXCEPT ![t] = "idle"]
  /\ UNCHANGED <<state, timed, pending, dropped, faulted, Counters>>

(* _sem_wait fails and there is no deadline. *)
WaitSuspends(t) ==
  /\ state[t] = "ready" /\ value = 0
  /\ Suspend(t)
  /\ UNCHANGED <<timed, pending, faulted, posts>>

(* _sem_wait fails with a deadline ahead and no timer running: a timer is  *)
(* started, with NULL for the task to wake.                                *)
WaitSetsTimer(t) ==
  /\ state[t] = "ready" /\ value = 0
  /\ t \notin timed
  /\ Suspend(t)
  /\ timed' = timed \cup {t}
  /\ pending' = pending + 1
  /\ UNCHANGED <<faulted, posts>>

(* _sem_wait fails with a deadline and the task is not suspended: because  *)
(* its timer is running, or the deadline is this very tick, the call is    *)
(* issued again; because the deadline has passed it fails with ETIMEDOUT.  *)
WaitSpins(t) ==
  /\ state[t] = "ready" /\ value = 0
  /\ pc' = [pc EXCEPT ![t] = "retry"]
  /\ UNCHANGED <<value, table, state, timed, pending, dropped, faulted, Counters>>

WaitTimesOut(t) ==
  /\ state[t] = "ready" /\ value = 0
  /\ pc' = [pc EXCEPT ![t] = "idle"]
  /\ UNCHANGED <<value, table, state, timed, pending, dropped, faulted, Counters>>

sem_wait(t) ==
  \/ WaitTaken(t) \/ WaitSuspends(t) \/ WaitSetsTimer(t)
  \/ WaitSpins(t) \/ WaitTimesOut(t)

(* sem_trywait does not touch the table. *)
sem_trywait(t) ==
  /\ state[t] = "ready" /\ pc[t] = "idle"
  /\ _sem_wait
  /\ UNCHANGED <<table, state, pc, timed, pending, dropped, faulted, Counters>>

(* The kernel's own task is never suspended: it spins until _sem_wait      *)
(* succeeds.                                                               *)
sem_spinwait ==
  /\ _sem_wait
  /\ UNCHANGED <<table, state, pc, timed, pending, dropped, faulted, Counters>>

(* What sem_post does with the given slots: their tasks are resumed, if    *)
(* they wait, and the slots emptied.  Every post does it: _sem_post, meant *)
(* to tell a post from 0, tests the address of the semaphore instead.      *)
PostWaking(slots) ==
  LET woken == {table.slot[i] : i \in slots} IN
  /\ posts < MaxPosts
  /\ value' = value + 1
  /\ posts' = posts + 1
  /\ state' = [t \in Task |-> IF state[t] = "waiting" /\ t \in woken
                              THEN "ready" ELSE state[t]]
  /\ table' = [table EXCEPT !.slot =
                 [i \in Slot |-> IF i \in slots THEN NULL ELSE table.slot[i]]]
  /\ UNCHANGED <<pc, timed, pending, dropped, faulted, signals, kills>>

(* Mutant: the second loop of sem_post is missing. *)
PostAfterLast == PostWaking(OccupiedAfter(table))

(* Mutant: a post wakes one listener, as mutex_unlock does. *)
PostOne ==
  PostWaking(IF Occupied(table) = {} THEN {} ELSE {NextSlot(table)})

(* sem_post, by a task, an interrupt handler or the kernel: every listener *)
(* is resumed and every slot emptied.                                      *)
sem_post == PostWaking(Occupied(table))

(* A deadline's timer expires: its handler is given NULL for a task, whose *)
(* fields it writes.  Depending on the memory map the kernel stops, or     *)
(* carries on without waking anybody; the task's timer_id stays set.       *)
TimerExpires ==
  /\ pending > 0
  /\ pending' = pending - 1
  /\ faulted' \in BOOLEAN
  /\ UNCHANGED <<value, table, state, pc, timed, dropped, Counters>>

(* What else happens to tasks; a new one has no timer of its own. *)
SemSignal(t) == Signal(t) /\ UNCHANGED <<timed, pending, faulted, posts>>

SemKill(t) == Kill(t) /\ UNCHANGED <<timed, pending, faulted, posts>>

SemCreate(t) ==
  /\ Create(t)
  /\ timed' = timed \ {t}
  /\ UNCHANGED <<pending, faulted, posts>>

SemNext ==
  /\ ~faulted
  /\ \/ \E t \in Task : sem_wait(t) \/ sem_trywait(t)
     \/ \E t \in Task : SemSignal(t) \/ SemKill(t) \/ SemCreate(t)
     \/ sem_spinwait \/ sem_post
     \/ TimerExpires

SemSpec == SemInit /\ [][SemNext]_semvars

(* Somebody keeps posting (up to the bound), and every runnable task whose *)
(* wait failed is scheduled again and issues it again.                     *)
SemFairness == WF_semvars(~faulted /\ sem_post)

SemFairSpec == SemSpec /\ SemFairness
-----------------------------------------------------------------------------
(* While the semaphore can be taken nobody sleeps on it and its table is   *)
(* empty, whatever signals, kills and deadlines do: no wake-up is lost,    *)
(* and no stale entry outlives a post.                                     *)
NobodyWaitsOnPositive ==
  value > 0 => Occupied(table) = {} /\ Waiting \subseteq dropped

(* Only a post from 0 wakes tasks, although _sem_post tells sem_post to    *)
(* signal every time.                                                      *)
OnlyPostFromZeroWakes ==
  [][value # 0 /\ value' = value + 1 => state' = state]_semvars

(* While the table has room for everybody, the next post wakes a suspended *)
(* task.                                                                   *)
EveryWaiterResumed ==
  \A t \in Task : state[t] = "waiting" /\ posts < MaxPosts /\ dropped = {}
                    ~> state[t] # "waiting" \/ faulted
=============================================================================
