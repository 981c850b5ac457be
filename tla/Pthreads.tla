------------------------------ MODULE Pthreads ------------------------------
(***************************************************************************)
(* The POSIX threads of one process (kernel/scheduler.c): the group's      *)
(* table of threads, pthread_create, exit, join, detach, cancel and kill,  *)
(* and the end of the process, which its parent sees in waitpid.           *)
(*                                                                         *)
(* A structure is not freed by the call that ends a thread but by a        *)
(* tasklet later on; other threads act in between.  A call that suspends   *)
(* is issued again by the C library (joining).                             *)
(***************************************************************************)
EXTENDS Integers, Sequences, FiniteSets

CONSTANTS Thread,    \* structures for threads other than the leader
          Leader,    \* the structure of the process, whose tid is 1
          NULL,
          MaxTid,    \* bound: the last thread id given
          MAX_TASKLETS,   \* a call that queues one more stops the kernel
          Settings   \* what programs do in a behaviour: any of "detach" a thread that
                     \* somebody joins, name the "leader" in a call on a thread, "end"

ASSUME ThreadAssumption ==
  IsFiniteSet(Thread) /\ Leader \notin Thread /\ NULL \notin Thread \cup {Leader}

(* The fields of a group are 16 bits wide. *)
UINT16_MAX == 65535
ASSUME MaxTidAssumption == MaxTid \in 2..UINT16_MAX
ASSUME TaskletsAssumption == MAX_TASKLETS \in Nat \ {0}
ASSUME SettingsAssumption == Settings \subseteq SUBSET {"detach", "leader", "end"}

VARIABLES state,           \* tb.state; READY is RUNNABLE or RUNNING
          tid, joiner,     \* tb.tid, tb.joiner_thread_tid
          detached, cancelable, pending_canc,   \* tasks with these flags
          joining,         \* the tid in the pthread_join a task will issue again, or 0
          tgroup,          \* tasks whose tb.tgroup is the group
          threads, max_tid, active_threads,     \* the group's fields
          destroy,         \* the tasklets queued for task_destroy
          setting

flags == <<detached, cancelable, pending_canc>>
group == <<tgroup, threads, max_tid, active_threads>>
vars == <<state, tid, joiner, flags, joining, group, destroy, setting>>

Task == Thread \cup {Leader}
Tid == 0..MaxTid

OneMore == (active_threads + 1) % (UINT16_MAX + 1)
OneLess == (active_threads - 1) % (UINT16_MAX + 1)

TypeOK ==
  /\ state \in [Task -> {"READY", "WAITING", "ZOMBIE", "OVER", "FREE"}]
  /\ tid \in [Task -> Tid] /\ joiner \in [Task -> Tid] /\ joining \in [Task -> Tid]
  /\ detached \subseteq Task /\ cancelable \subseteq Task /\ pending_canc \subseteq Task
  /\ tgroup \subseteq Task
  /\ threads \in Seq(Task \cup {NULL})
  /\ max_tid \in Tid
  /\ active_threads \in 0..UINT16_MAX
  /\ destroy \in Seq(Task)
  /\ setting \in Settings

Init ==
  /\ state = [t \in Task |-> IF t = Leader THEN "READY" ELSE "FREE"]
  /\ tid = [t \in Task |-> IF t = Leader THEN 1 ELSE 0]
  /\ joiner = [t \in Task |-> 0] /\ joining = [t \in Task |-> 0]
  /\ detached = {} /\ cancelable = {} /\ pending_canc = {}
  /\ tgroup = {} /\ threads = <<>> /\ max_tid = 0 /\ active_threads = 0
  /\ destroy = <<>>
  /\ setting \in Settings
-----------------------------------------------------------------------------
Slot == 1..Len(threads)

(* pthread_get_task: the leader whatever its state, while it is on a list; *)
(* else, of a process that has its leader, the thread in the table that is *)
(* not OVER.                                                               *)
pthread_get_task(i) ==
  IF i = 1 THEN {t \in {Leader} : state[t] # "FREE"}
  ELSE {t \in Thread : /\ state[Leader] # "FREE"
                       /\ \E s \in Slot : threads[s] = t
                       /\ tid[t] = i /\ state[t] # "OVER"}

(* A thread that is on the CPU and may issue a new call. *)
Calls(t) == state[t] = "READY" /\ joining[t] = 0

(* The threads a call may name: programs that use threads without the      *)
(* leader as a target are the rule.                                        *)
Named(i) == i > 0 /\ (i = 1 => "leader" \in setting)

(* task_resume of the thread with id i. *)
WakeTid(st, i) ==
  [t \in Task |-> IF t \in pthread_get_task(i) /\ st[t] = "WAITING" THEN "READY" ELSE st[t]]

(* The places of the table that may be given to a new thread. *)
NullSlots == {s \in Slot : threads[s] = NULL}

(* The first thread makes the table; a later one takes the first free      *)
(* place, or a new one.                                                    *)
TakePlace(cur, new) ==
  \/ cur \notin tgroup /\ threads' = <<cur, new>>
  \/ cur \in tgroup /\ NullSlots = {} /\ threads' = Append(threads, new)
  \/ /\ cur \in tgroup
     /\ \E s \in NullSlots : /\ \A r \in NullSlots : s <= r
                             /\ threads' = [threads EXCEPT ![s] = new]

(* Mutant: the leader is not counted. *)
AddUncounted(cur, new) ==
  /\ max_tid < MaxTid
  /\ tgroup' = tgroup \cup {cur, new}
  /\ max_tid' = IF cur \in tgroup THEN max_tid + 1 ELSE 2
  /\ active_threads' = IF cur \in tgroup THEN OneMore ELSE 1
  /\ TakePlace(cur, new)

(* The first thread makes the group.  An id is never used twice. *)
pthread_add(cur, new) ==
  /\ max_tid < MaxTid
  /\ tgroup' = tgroup \cup {cur, new}
  /\ max_tid' = IF cur \in tgroup THEN max_tid + 1 ELSE 2
  /\ active_threads' = IF cur \in tgroup THEN OneMore ELSE 2
  /\ TakePlace(cur, new)

sys_pthread_create_hdlr(cur) ==
  /\ Calls(cur)
  /\ \E new \in Thread :
       /\ state[new] = "FREE"
       /\ pthread_add(cur, new)
       /\ tid' = [tid EXCEPT ![new] = max_tid']
       /\ state' = [state EXCEPT ![new] = "READY"]
       /\ detached' \in {detached, detached \cup {new}}
       /\ cancelable' = cancelable \cup {new}
  /\ UNCHANGED <<joiner, joining, pending_canc, destroy, setting>>
-----------------------------------------------------------------------------
(* A thread ends: detached, it is given to the tasklet; else it stays a    *)
(* zombie and whoever joins it is resumed.                                 *)
Over(t) ==
  /\ Len(destroy) < MAX_TASKLETS
  /\ state' = [state EXCEPT ![t] = "OVER"]
  /\ destroy' = Append(destroy, t)

(* Mutant: the joiner is not resumed. *)
ZombieSilent(t, wakes) == state' = [state EXCEPT ![t] = "ZOMBIE"] /\ UNCHANGED destroy

Zombie(t, wakes) ==
  /\ state' = IF wakes /\ joiner[t] # 0 THEN WakeTid([state EXCEPT ![t] = "ZOMBIE"], joiner[t])
                                        ELSE [state EXCEPT ![t] = "ZOMBIE"]
  /\ UNCHANGED destroy

pthread_destroy_task(t) ==
  IF tid[t] > 1 /\ t \in detached THEN Over(t) ELSE Zombie(t, tid[t] > 1)

(* The thread's function has returned. *)
pthread_end(t) ==
  /\ Calls(t) /\ t \in Thread
  /\ pthread_destroy_task(t)
  /\ active_threads' = OneLess
  /\ UNCHANGED <<tid, joiner, flags, joining, tgroup, threads, max_tid, setting>>

(* A program without threads does not call it.  The SIGCHLD of the last    *)
(* thread is sent to an address that is a process id (scheduler.c:1726).   *)
sys_pthread_exit_hdlr(t) ==
  /\ Calls(t) /\ t \in tgroup /\ Named(tid[t])
  /\ pthread_destroy_task(t)
  /\ active_threads' = IF active_threads = 1 THEN 1 ELSE OneLess
  /\ UNCHANGED <<tid, joiner, flags, joining, tgroup, threads, max_tid, setting>>

(* Whatever the signal is.  A thread that names itself never leaves the    *)
(* handler's loop.                                                         *)
sys_pthread_kill_hdlr(cur, i) ==
  /\ Calls(cur)
  /\ \E t \in pthread_get_task(i) \ {cur} : pthread_destroy_task(t)
  /\ UNCHANGED <<tid, joiner, flags, joining, group, setting>>

(* What cancellation does to a thread that may be cancelled. *)
CancelTask(t) == IF t \in detached THEN Over(t) ELSE Zombie(t, TRUE)

sys_pthread_cancel_hdlr(cur, i) ==
  /\ Calls(cur)
  /\ \E t \in pthread_get_task(i) :
       \/ /\ t \in cancelable
          /\ CancelTask(t)
          /\ UNCHANGED pending_canc
       \/ /\ t \notin cancelable
          /\ pending_canc' = pending_canc \cup {t}
          /\ UNCHANGED <<state, destroy>>
  /\ UNCHANGED <<tid, joiner, detached, cancelable, joining, group, setting>>

(* Enabling cancellation carries out one that is pending. *)
sys_pthread_setcancelstate_hdlr(t, enable) ==
  /\ Calls(t) /\ Named(tid[t])
  /\ cancelable' = IF enable THEN cancelable \cup {t} ELSE cancelable \ {t}
  /\ IF enable /\ t \in pending_canc THEN CancelTask(t) ELSE UNCHANGED <<state, destroy>>
  /\ UNCHANGED <<tid, joiner, detached, pending_canc, joining, group, setting>>

sys_pthread_detach_hdlr(cur, i) ==
  /\ Calls(cur)
  /\ \E t \in pthread_get_task(i) :
       /\ joiner[t] # 0 => "detach" \in setting
       /\ detached' = detached \cup {t}
  /\ UNCHANGED <<state, tid, joiner, cancelable, pending_canc, joining, group, destroy, setting>>
-----------------------------------------------------------------------------
(* A new pthread_join(i), or the suspended one again. *)
Joins(cur, i) == state[cur] = "READY" /\ joining[cur] \in {0, i}

JoinRefused(cur, t) ==
  \/ t \in detached
  \/ t = cur \/ joiner[cur] = tid[t]
  \/ joiner[t] \notin {0, tid[cur]}

JoinFails(cur, i) ==
  /\ Joins(cur, i)
  /\ \A t \in pthread_get_task(i) : JoinRefused(cur, t)
  /\ joining' = [joining EXCEPT ![cur] = 0]
  /\ UNCHANGED <<state, tid, joiner, flags, group, destroy, setting>>

JoinSuspends(cur, i) ==
  /\ Joins(cur, i)
  /\ \E t \in pthread_get_task(i) :
       /\ ~JoinRefused(cur, t)
       /\ state[t] # "ZOMBIE"
       /\ joiner' = [joiner EXCEPT ![t] = tid[cur]]
  /\ state' = [state EXCEPT ![cur] = "WAITING"]
  /\ joining' = [joining EXCEPT ![cur] = i]
  /\ UNCHANGED <<tid, flags, group, destroy, setting>>

(* Mutant: the joined thread stays a zombie. *)
JoinUnmarked(cur, i) ==
  /\ Joins(cur, i)
  /\ \E t \in pthread_get_task(i) :
       /\ ~JoinRefused(cur, t)
       /\ state[t] = "ZOMBIE"
       /\ joiner' = [joiner EXCEPT ![t] = tid[cur]]
       /\ destroy' = Append(destroy, t)
  /\ joining' = [joining EXCEPT ![cur] = 0]
  /\ UNCHANGED <<state, tid, flags, group, setting>>

JoinReturns(cur, i) ==
  /\ Joins(cur, i)
  /\ \E t \in pthread_get_task(i) :
       /\ ~JoinRefused(cur, t)
       /\ state[t] = "ZOMBIE"
       /\ joiner' = [joiner EXCEPT ![t] = tid[cur]]
       /\ Over(t)
  /\ joining' = [joining EXCEPT ![cur] = 0]
  /\ UNCHANGED <<tid, flags, group, setting>>

sys_pthread_join_hdlr(cur, i) == JoinFails(cur, i) \/ JoinSuspends(cur, i) \/ JoinReturns(cur, i)

(* A signal whose handler runs: the join ends with EINTR.  Signals reach   *)
(* the leader only.                                                        *)
Signal ==
  /\ state[Leader] = "WAITING"
  /\ state' = [state EXCEPT ![Leader] = "READY"]
  /\ joining' = [joining EXCEPT ![Leader] = 0]
  /\ UNCHANGED <<tid, joiner, flags, group, destroy, setting>>
-----------------------------------------------------------------------------
(* exit by any thread ends that thread only, and tells no joiner. *)
sys_exit_hdlr(t) ==
  /\ Calls(t) /\ "end" \in setting
  /\ state' = [state EXCEPT ![t] = "ZOMBIE"]
  /\ UNCHANGED <<tid, joiner, flags, joining, group, destroy, setting>>

(* The parent's waitpid(-1): any zombie of the idling list that has its    *)
(* pid for a parent's.  All threads do.                                    *)
sys_waitpid_hdlr(t) ==
  /\ "end" \in setting /\ state[t] = "ZOMBIE"
  /\ Over(t)
  /\ active_threads' = IF t \in tgroup THEN 0 ELSE active_threads
  /\ UNCHANGED <<tid, joiner, flags, joining, tgroup, threads, max_tid, setting>>

(* Mutant: only those that have ended. *)
OthersEnded(t) ==
  {u \in Task : state[u] = "ZOMBIE" /\ tid[u] # tid[t] /\ \E s \in Slot : threads[s] = u}

(* The other threads in the table. *)
Others(t) == {u \in Task : tid[u] # tid[t] /\ \E s \in Slot : threads[s] = u}

(* Mutant: the thread keeps its place in the table. *)
LeaveKept(t) == UNCHANGED group

(* A single thread leaves the table, so that its place can be reused. *)
LeaveGroup(t) ==
  /\ threads' = [s \in Slot |-> IF threads[s] = t THEN NULL ELSE threads[s]]
  /\ UNCHANGED <<tgroup, max_tid, active_threads>>

(* task_destroy.  With no active thread left, or no group, the resources   *)
(* of the process are freed, and destroy_thread_group ends all the others. *)
(* The fields of the freed structure are cleared here, not when the next   *)
(* thread gets it: nobody reads them in between.                           *)
task_destroy ==
  /\ destroy # <<>>
  /\ LET t == Head(destroy) IN
     /\ IF t \in tgroup /\ active_threads > 0
          THEN /\ LeaveGroup(t)
               /\ state' = [state EXCEPT ![t] = "FREE"]
               /\ destroy' = Tail(destroy)
          ELSE /\ state' = [u \in Task |-> IF u = t THEN "FREE"
                                       ELSE IF t \in tgroup /\ u \in Others(t) THEN "OVER"
                                       ELSE state[u]]
               /\ destroy' = Tail(destroy) \o
                    (IF t \in tgroup THEN SelectSeq(threads, LAMBDA u : u \in Others(t)) ELSE <<>>)
               /\ tgroup' = {} /\ threads' = <<>> /\ max_tid' = 0 /\ active_threads' = 0
     /\ tid' = [tid EXCEPT ![t] = 0]
     /\ joiner' = [joiner EXCEPT ![t] = 0] /\ joining' = [joining EXCEPT ![t] = 0]
     /\ detached' = detached \ {t} /\ cancelable' = cancelable \ {t}
     /\ pending_canc' = pending_canc \ {t}
  /\ UNCHANGED setting

Next ==
  \/ \E t \in Task :
       \/ sys_pthread_create_hdlr(t) \/ pthread_end(t) \/ sys_pthread_exit_hdlr(t)
       \/ sys_exit_hdlr(t) \/ sys_waitpid_hdlr(t)
       \/ \E enable \in BOOLEAN : sys_pthread_setcancelstate_hdlr(t, enable)
       \/ \E i \in Tid : /\ Named(i)
                         /\ \/ sys_pthread_kill_hdlr(t, i) \/ sys_pthread_cancel_hdlr(t, i)
                            \/ sys_pthread_detach_hdlr(t, i) \/ sys_pthread_join_hdlr(t, i)
  \/ Signal
  \/ task_destroy

Spec == Init /\ [][Next]_vars
-----------------------------------------------------------------------------
(* A structure is queued for destruction once, and is OVER from then on,   *)
(* however cancellation, kills, joins and the thread's own end follow each *)
(* other before the tasklet runs (tasklet_add(task_destroy, ...) in five   *)
(* places): a second task_destroy would free what somebody else has got.   *)
(* Not claimed for programs that name the leader, which pthread_get_task   *)
(* returns even when it is OVER, and after the parent's waitpid.           *)
FreedOnce ==
  setting \subseteq {"detach"} =>
    /\ \A i, j \in DOMAIN destroy : destroy[i] = destroy[j] => i = j
    /\ \A i \in DOMAIN destroy : state[destroy[i]] = "OVER"

(* Whoever sleeps in pthread_join waits for a thread that has not ended:   *)
(* returning, exit, kill, cancellation, at once or when it is enabled      *)
(* again, all resume the joiner.  Not claimed when a thread that is joined *)
(* is detached or the leader, or ends by exit: then the joiner sleeps on.  *)
NoLostJoin ==
  setting = {} =>
    \A t \in Task : state[t] = "WAITING" =>
      \E u \in Task : tid[u] = joining[t] /\ state[u] \in {"READY", "WAITING"}

(* The table names every thread whose structure is not freed, once, and no *)
(* freed one, though places are given again: pthread_get_task and          *)
(* destroy_thread_group look nowhere else.                                 *)
TableNamesThreads ==
  "end" \notin setting =>
    /\ \A s \in Slot : threads[s] # NULL => state[threads[s]] # "FREE"
    /\ \A t \in tgroup : state[t] # "FREE" =>
         \E s \in Slot : threads[s] = t /\ \A r \in Slot \ {s} : threads[r] # t

(* While a thread can still run the group counts at least it, so that the  *)
(* end of another one does not free the files and the memory of the        *)
(* process (task_destroy tests active_threads > 0).                        *)
ActiveCoversAll ==
  "end" \notin setting /\ tgroup # {} =>
    active_threads >= Cardinality({t \in tgroup : state[t] \in {"READY", "WAITING"}})

(* When the resources of the process are freed no thread of it runs on.    *)
NoThreadOutlives ==
  tgroup = {} => \A t \in Thread : state[t] \in {"OVER", "FREE"}
=============================================================================
