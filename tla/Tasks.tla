------------------------------- MODULE Tasks --------------------------------
(***************************************************************************)
(* The life of processes in kernel/scheduler.c: the two task lists, task   *)
(* switches, suspending and resuming, stop and continue, vfork and exec,   *)
(* exit, kill and waitpid, and the tasklets that notify a parent and free  *)
(* a structure.                                                            *)
(*                                                                         *)
(* Here the lists are sets and task_switch takes any running task; the     *)
(* order of the lists, and real-time processes, which a resumption puts on *)
(* the CPU whatever their state, are the subject of RoundRobin.            *)
(***************************************************************************)
EXTENDS Scheduler, Integers

CONSTANTS init,           \* the structure of the first process
          MaxPid,         \* the highest pid (65535 in the code)
          MAX_TASKLETS

ASSUME ProcessAssumption == init \in Process
ASSUME MaxPidAssumption == MaxPid \in Nat \ {0}
ASSUME MaxTaskletsAssumption == MAX_TASKLETS \in Nat \ {0}

VARIABLES pid, ppid,      \* tb.pid, tb.ppid
          vforked,        \* tasks with TASK_FLAG_VFORK: on the parent's stack
          waiting_for,    \* the suspended call the task will issue again
          tasks_running, tasks_idling,
          tasklet_array,  \* by slot, exe with its arg
          pc, slot,       \* the kernel's task: in its loop, at the last slot it reached in
                          \* a scan of the array, or in the timers' check of that slot
          masked,         \* the scan has interrupts off
          timers          \* setting: kernel timers are in use

lists == <<tasks_running, tasks_idling>>
scan == <<pc, slot, masked, timers>>
tasklets == <<tasklet_array, scan>>
vars == <<state, pid, ppid, vforked, waiting_for, lists, cur, pendsv, tasklets>>

Pid == 0..MaxPid
Slot == 1..MAX_TASKLETS

(* States; a structure that is not allocated is FREE. *)
Suspended == {"WAITING", "FORKED", "STOPPED", "ZOMBIE", "OVER"}

(* What a task waits for: nothing, an event, any child (-1 in the code) or *)
(* the child with that pid.                                                *)
NOTHING == -3
EVENT == -2
ANY == -1
Wait == {NOTHING, EVENT, ANY} \cup Pid

(* An empty slot, the tasklet that each tick leaves, and those of tasks. *)
None == [exe |-> "none", arg |-> kernel]
Check == [exe |-> "check", arg |-> kernel]
Destroy(t) == [exe |-> "destroy", arg |-> t]
Sigchld(t) == [exe |-> "sigchld", arg |-> t]
Tasklet == {None, Check} \cup [exe : {"destroy", "sigchld"}, arg : Process]

TypeOK ==
  /\ state \in [Task -> Ready \cup Suspended \cup {"FREE"}]
  /\ pid \in [Task -> Pid] /\ ppid \in [Task -> Pid]
  /\ vforked \subseteq Process
  /\ waiting_for \in [Process -> Wait]
  /\ tasks_running \subseteq Task /\ tasks_idling \subseteq Process
  /\ cur \in Task
  /\ pendsv \in BOOLEAN
  /\ tasklet_array \in [Slot -> Tasklet]
  /\ pc \in {"idle", "scan", "check"} /\ slot \in 0..MAX_TASKLETS
  /\ masked \in BOOLEAN /\ timers \in BOOLEAN

(* The kernel has created init and turns the scheduler on. *)
Init ==
  /\ state = [t \in Task |-> IF t \in {kernel, init} THEN "RUNNABLE" ELSE "FREE"]
  /\ pid = [t \in Task |-> IF t = init THEN 1 ELSE 0]
  /\ ppid = [t \in Task |-> 0]
  /\ vforked = {}
  /\ waiting_for = [t \in Process |-> NOTHING]
  /\ tasks_running = {kernel, init} /\ tasks_idling = {}
  /\ cur = kernel
  /\ pendsv = FALSE
  /\ tasklet_array = [s \in Slot |-> None]
  /\ pc = "idle" /\ slot = 0 /\ masked = FALSE
  /\ timers \in BOOLEAN
-----------------------------------------------------------------------------
(* tasklist_get, on both lists. *)
Lookup(p) == {t \in tasks_running \cup tasks_idling : pid[t] = p}

(* The pids next_pid may return: those no task has. *)
Unused == {p \in 2..MaxPid : Lookup(p) = {}}

running_to_idling(t) ==
  /\ tasks_running' = tasks_running \ {t}
  /\ tasks_idling' = IF t \in tasks_running THEN tasks_idling \cup {t} ELSE tasks_idling

idling_to_running(t) ==
  /\ tasks_idling' = tasks_idling \ {t}
  /\ tasks_running' = IF t \in tasks_idling THEN tasks_running \cup {t} ELSE tasks_running

(* A task may issue a new system call, not the one it was suspended in. *)
Free == InUser /\ waiting_for[cur] = NOTHING

(* The end of sv_call_handler: st is what the handler made of the states.  *)
(* If the caller is not RUNNING any more, task_switch chooses another.     *)
Return(st) ==
  \/ st[cur] = "RUNNING" /\ state' = st /\ cur' = cur
  \/ /\ st[cur] # "RUNNING"
     /\ \E n \in tasks_running' : cur' = n /\ state' = [st EXCEPT ![n] = "RUNNING"]

(* task_suspend_to(s) by the current task, to the end of its system call. *)
task_suspend_to(s) ==
  /\ running_to_idling(cur)
  /\ pendsv' = TRUE
  /\ Return([state EXCEPT ![cur] = s])

(* schedule() was called, or the time slice ended: save the current task   *)
(* and switch.                                                             *)
pend_sv_handler ==
  /\ ~masked
  /\ pendsv /\ pendsv' = FALSE
  /\ \E n \in tasks_running :
       /\ cur' = n
       /\ state' = [t \in Task |->
                      IF t = n THEN "RUNNING"
                      ELSE IF t = cur /\ state[t] = "RUNNING" THEN "RUNNABLE" ELSE state[t]]
  /\ UNCHANGED <<pid, ppid, vforked, waiting_for, lists, tasklets>>

(* Mutant: the last free slot is taken. *)
AddLast(e) ==
  \E s \in Slot :
    /\ tasklet_array[s] = None /\ \A r \in s + 1..MAX_TASKLETS : tasklet_array[r] # None
    /\ tasklet_array' = [tasklet_array EXCEPT ![s] = e]

(* tasklet_add, into the first free slot; without one the kernel stops,    *)
(* which is no step here.                                                  *)
tasklet_add(e) ==
  \E s \in Slot :
    /\ tasklet_array[s] = None /\ \A r \in 1..s - 1 : tasklet_array[r] # None
    /\ tasklet_array' = [tasklet_array EXCEPT ![s] = e]

(* A tick may end the time slice, and leaves a check of the timers if none *)
(* is left already.                                                        *)
sys_tick_handler ==
  /\ ~masked
  /\ pendsv' \in {pendsv, TRUE}
  /\ IF \E s \in Slot : tasklet_array[s] = Check
       THEN UNCHANGED tasklet_array
       ELSE tasklet_add(Check)
  /\ UNCHANGED <<state, pid, ppid, vforked, waiting_for, lists, cur, scan>>

(* Mutant: a task waiting for its vfork child is resumed as well. *)
ResumeForked(t) ==
  /\ state[t] \in {"WAITING", "FORKED"}
  /\ idling_to_running(t)
  /\ state' = [state EXCEPT ![t] = "RUNNABLE"]

(* task_resume, of a task that waits. *)
task_resume(t) ==
  /\ state[t] = "WAITING"
  /\ idling_to_running(t)
  /\ state' = [state EXCEPT ![t] = "RUNNABLE"]

(* A driver, a timer or a lock wakes the task it has recorded; that record *)
(* may be out of date and the task wait for something else.                *)
Wakeup(t) ==
  /\ task_resume(t)
  /\ UNCHANGED <<pid, ppid, vforked, waiting_for, cur, pendsv, tasklets>>

(* Any call that suspends its caller, and is issued again when the caller  *)
(* runs next, until it succeeds.                                           *)
Suspend ==
  /\ InUser /\ waiting_for[cur] \in {NOTHING, EVENT}
  /\ task_suspend_to("WAITING")
  /\ waiting_for' = [waiting_for EXCEPT ![cur] = EVENT]
  /\ UNCHANGED <<pid, ppid, vforked, tasklets>>

EventDone ==
  /\ InUser /\ waiting_for[cur] = EVENT
  /\ waiting_for' = [waiting_for EXCEPT ![cur] = NOTHING]
  /\ UNCHANGED <<state, pid, ppid, vforked, lists, cur, pendsv, tasklets>>
-----------------------------------------------------------------------------
(* vfork: the child runs on its parent's stack, and the parent is out of   *)
(* the running list until the child's exec.                                *)
sys_vfork_hdlr ==
  /\ Free
  /\ \E new \in Process, p \in Unused :
       /\ state[new] = "FREE"
       /\ pid' = [pid EXCEPT ![new] = p]
       /\ ppid' = [ppid EXCEPT ![new] = pid[cur]]
       /\ vforked' = vforked \cup {new}
       /\ waiting_for' = [waiting_for EXCEPT ![new] = NOTHING]
       /\ tasks_running' = (tasks_running \ {cur}) \cup {new}
       /\ tasks_idling' = tasks_idling \cup {cur}
       /\ pendsv' = TRUE
       /\ Return([state EXCEPT ![new] = "RUNNABLE", ![cur] = "FORKED"])
  /\ UNCHANGED tasklets

(* exec in a vfork child wakes the parent; elsewhere it changes nothing    *)
(* here.                                                                   *)
scheduler_exec ==
  /\ Free /\ cur \in vforked
  /\ vforked' = vforked \ {cur}
  /\ \/ \E pt \in Lookup(ppid[cur]) :
          /\ state[pt] = "FORKED"
          /\ idling_to_running(pt)
          /\ state' = [state EXCEPT ![pt] = "RUNNABLE"]
     \/ /\ \A pt \in Lookup(ppid[cur]) : state[pt] # "FORKED"
        /\ UNCHANGED <<state, lists>>
  /\ UNCHANGED <<pid, ppid, waiting_for, cur, pendsv, tasklets>>

Dead == {"ZOMBIE", "OVER"}

(* The task told of t's end: its parent or, if that is dead, init. *)
Orphan(t) == \A pt \in Lookup(ppid[t]) : state[pt] \in Dead

(* Mutant: init adopts the task, but its dead parent is told. *)
HeirParent(t) == Lookup(ppid[t])

Heir(t) == IF Orphan(t) THEN Lookup(1) ELSE Lookup(ppid[t])

(* task_terminate, to the end of the system call; a dead task issues no    *)
(* call again.  A vfork child's parent is not resumed: task_resume_vfork   *)
(* is given the child.                                                     *)
task_terminate(t) ==
  /\ running_to_idling(t)
  /\ Return([state EXCEPT ![t] = "ZOMBIE"])
  /\ IF ppid[t] = 0
       THEN UNCHANGED <<ppid, vforked, tasklet_array, pendsv>>
       ELSE /\ vforked' = IF Lookup(ppid[t]) = {} THEN vforked ELSE vforked \ {t}
            /\ ppid' = IF Orphan(t) THEN [ppid EXCEPT ![t] = 1] ELSE ppid
            /\ \/ Heir(t) = {} /\ UNCHANGED tasklet_array
               \/ \E h \in Heir(t) : tasklet_add(Sigchld(h))
            /\ pendsv' = TRUE
  /\ waiting_for' = [waiting_for EXCEPT ![t] = NOTHING]
  /\ UNCHANGED <<pid, scan>>

sys_exit_hdlr == Free /\ task_terminate(cur)
-----------------------------------------------------------------------------
(* catch_signal refuses the kernel, dead tasks and tasks in vfork. *)
Catchable(t) ==
  /\ t \in (tasks_running \cup tasks_idling) \ {kernel}
  /\ state[t] \notin Dead \cup {"FORKED"}

(* task_stop, to the end of the system call. *)
task_stop(t) ==
  /\ running_to_idling(t)
  /\ pendsv' = TRUE
  /\ Return([state EXCEPT ![t] = "STOPPED"])
  /\ UNCHANGED <<pid, ppid, vforked, waiting_for, tasklets>>

(* Mutant: the continued task stays in the idling list. *)
ContinueIdling(t) ==
  /\ state[t] = "STOPPED"
  /\ state' = [state EXCEPT ![t] = "RUNNABLE"]
  /\ UNCHANGED <<pid, ppid, vforked, waiting_for, lists, cur, pendsv, tasklets>>

task_continue(t) ==
  /\ state[t] = "STOPPED"
  /\ idling_to_running(t)
  /\ state' = [state EXCEPT ![t] = "RUNNABLE"]
  /\ UNCHANGED <<pid, ppid, vforked, waiting_for, cur, pendsv, tasklets>>

(* A handler runs: the pending call, if there is one, ends with EINTR. *)
sig_trampoline(t) ==
  /\ waiting_for' = [waiting_for EXCEPT ![t] = NOTHING]
  /\ IF state[t] = "WAITING" THEN task_resume(t) ELSE UNCHANGED <<state, lists>>
  /\ UNCHANGED <<pid, ppid, vforked, cur, pendsv, tasklets>>

(* kill: the default actions of a fatal signal, of SIGSTOP, SIGCONT and    *)
(* SIGCHLD, or a handler.                                                  *)
sys_kill_hdlr ==
  /\ Free
  /\ \E t \in Process :
       /\ Catchable(t)
       /\ \/ task_terminate(t)
          \/ task_stop(t)
          \/ task_continue(t)
          \/ Wakeup(t)
          \/ t # cur /\ sig_trampoline(t)
-----------------------------------------------------------------------------
(* The outcomes of waitpid: it fails or returns a stopped child; it reaps  *)
(* a dead one; it suspends the caller.                                     *)
WaitEnds ==
  /\ waiting_for' = [waiting_for EXCEPT ![cur] = NOTHING]
  /\ UNCHANGED <<state, pid, ppid, vforked, lists, cur, pendsv, tasklets>>

(* Mutant: the dead child is not marked. *)
ReapUnmarked(t) ==
  /\ tasklet_add(Destroy(t))
  /\ waiting_for' = [waiting_for EXCEPT ![cur] = NOTHING]
  /\ UNCHANGED <<state, pid, ppid, vforked, lists, cur, pendsv, scan>>

Reap(t) ==
  /\ tasklet_add(Destroy(t))
  /\ state' = [state EXCEPT ![t] = "OVER"]
  /\ waiting_for' = [waiting_for EXCEPT ![cur] = NOTHING]
  /\ UNCHANGED <<pid, ppid, vforked, lists, cur, pendsv, scan>>

Await(p) ==
  /\ task_suspend_to("WAITING")
  /\ waiting_for' = [waiting_for EXCEPT ![cur] = p]
  /\ UNCHANGED <<pid, ppid, vforked, tasklets>>

IdlingChild == {t \in tasks_idling : ppid[t] = pid[cur]}

(* waitpid(-1). *)
WaitAny ==
  /\ waiting_for[cur] \in {NOTHING, ANY}
  /\ \/ \E t \in IdlingChild : state[t] = "STOPPED" /\ WaitEnds
     \/ \E t \in IdlingChild : state[t] = "ZOMBIE" /\ Reap(t)
     \/ (\A t \in IdlingChild : state[t] \notin {"STOPPED", "ZOMBIE"}) /\ Await(ANY)

(* waitpid(p): of a running task with pid p it compares the parent with    *)
(* the caller's parent.                                                    *)
WaitPid(p) ==
  LET runs == {t \in tasks_running : pid[t] = p}
      idles == {t \in IdlingChild : pid[t] = p} IN
  /\ waiting_for[cur] \in {NOTHING, p}
  /\ \/ \E t \in runs : ppid[t] # ppid[cur] /\ WaitEnds
     \/ \E t \in runs : ppid[t] = ppid[cur] /\ Await(p)
     \/ runs = {} /\ idles = {} /\ WaitEnds
     \/ /\ runs = {}
        /\ \E t \in idles : \/ state[t] = "ZOMBIE" /\ Reap(t)
                            \/ state[t] = "STOPPED" /\ WaitEnds
                            \/ state[t] \notin {"ZOMBIE", "STOPPED"} /\ Await(p)

sys_waitpid_hdlr ==
  /\ InUser
  /\ WaitAny \/ \E p \in 1..MaxPid : WaitPid(p)
-----------------------------------------------------------------------------
(* The kernel's task scans the array slot by slot, with interrupts off     *)
(* until a check of the timers turns them on; from then on processes run   *)
(* between the steps of the scan, and may fill slots on both sides of it.  *)
KernelRuns == cur = kernel /\ ~pendsv

StartScan ==
  /\ pc = "idle" /\ \E s \in Slot : tasklet_array[s] # None
  /\ pc' = "scan" /\ masked' = TRUE
  /\ UNCHANGED <<slot, tasklet_array>>

(* The next slot holds exe. *)
Reach(exe) ==
  /\ pc = "scan" /\ slot < MAX_TASKLETS /\ tasklet_array[slot + 1].exe = exe
  /\ slot' = slot + 1

PassEmpty == Reach("none") /\ UNCHANGED <<pc, masked, tasklet_array>>

(* ktimers_check_tasklet, which with a timer in the heap turns interrupts  *)
(* on; the tasks that timers resume are left to Wakeup.                    *)
StartCheck ==
  /\ Reach("check") /\ pc' = "check"
  /\ masked' = masked \/ (timers /\ masked' = FALSE)
  /\ UNCHANGED tasklet_array

EndCheck ==
  /\ pc = "check" /\ pc' = "scan"
  /\ tasklet_array' = [tasklet_array EXCEPT ![slot] = None]
  /\ UNCHANGED <<slot, masked>>

EndScan ==
  /\ pc = "scan" /\ slot = MAX_TASKLETS
  /\ pc' = "idle" /\ slot' = 0 /\ masked' = FALSE
  /\ UNCHANGED tasklet_array

check_tasklets ==
  /\ KernelRuns
  /\ StartScan \/ PassEmpty \/ StartCheck \/ EndCheck \/ EndScan
  /\ UNCHANGED <<state, pid, ppid, vforked, waiting_for, lists, cur, pendsv, timers>>

(* The tasklet of the next slot runs and its slot is cleared, as one step. *)
RunTasklet(exe) ==
  /\ KernelRuns /\ Reach(exe)
  /\ tasklet_array' = [tasklet_array EXCEPT ![slot + 1] = None]
  /\ UNCHANGED <<pc, masked, timers>>

(* task_destroy: the structure leaves its list and is freed, and what it   *)
(* held is lost.                                                           *)
task_destroy ==
  LET t == tasklet_array[slot + 1].arg IN
  /\ RunTasklet("destroy")
  /\ tasks_running' = tasks_running \ {t}
  /\ tasks_idling' = tasks_idling \ {t}
  /\ state' = [state EXCEPT ![t] = "FREE"]
  /\ vforked' = vforked \ {t}
  /\ pid' = [pid EXCEPT ![t] = 0] /\ ppid' = [ppid EXCEPT ![t] = 0]
  /\ waiting_for' = [waiting_for EXCEPT ![t] = NOTHING]
  /\ UNCHANGED <<cur, pendsv>>

(* task_deliver_sigchld looks the parent up again by its pid, which is any *)
(* number if the parent's structure has been freed.  SIGCHLD has its       *)
(* default action or a handler; the model has no parent that blocks or     *)
(* ignores it.                                                             *)
task_deliver_sigchld ==
  LET parent == tasklet_array[slot + 1].arg IN
  /\ RunTasklet("sigchld")
  /\ \E p \in IF state[parent] = "FREE" THEN Pid ELSE {pid[parent]} :
       LET told == {t \in Lookup(p) : Catchable(t)} IN
       /\ \/ /\ \A t \in told : state[t] # "WAITING"
             /\ UNCHANGED <<state, lists>>
          \/ \E t \in told : task_resume(t)
       /\ \/ UNCHANGED waiting_for
          \/ \E t \in told : waiting_for' = [waiting_for EXCEPT ![t] = NOTHING]
  /\ UNCHANGED <<pid, ppid, vforked, cur, pendsv>>

Next ==
  \/ pend_sv_handler \/ sys_tick_handler
  \/ \E t \in Process : Wakeup(t)
  \/ Suspend \/ EventDone
  \/ sys_vfork_hdlr \/ scheduler_exec \/ sys_exit_hdlr
  \/ sys_kill_hdlr
  \/ sys_waitpid_hdlr
  \/ check_tasklets \/ task_destroy \/ task_deliver_sigchld

Spec == Init /\ [][Next]_vars
-----------------------------------------------------------------------------
(* A task is in exactly the list its state says, and in no list twice; the *)
(* CPU is with a running task, and no other task is marked RUNNING.        *)
ListsMatchStates ==
  /\ tasks_running = {t \in Task : state[t] \in Ready}
  /\ tasks_idling = {t \in Task : state[t] \in Suspended}
  /\ cur \in tasks_running
  /\ \A t \in Task : state[t] = "RUNNING" => t = cur

(* A dead task is freed once: its destruction is queued exactly when its   *)
(* parent has reaped it, and never twice.                                  *)
Destructions(t) == {s \in Slot : tasklet_array[s] = Destroy(t)}

DestroyedOnce ==
  \A t \in Process :
    /\ state[t] = "OVER" <=> Destructions(t) # {}
    /\ \A i, j \in Destructions(t) : i = j

(* No SIGCHLD finds its task freed: it is delivered before the structure   *)
(* goes, because it was left in an earlier slot.  Claimed where no timers  *)
(* turn interrupts on during the scan: then SIGCHLD may come to lie in a   *)
(* slot already passed, and the destruction in one ahead of the scan.      *)
NoStaleTasklet ==
  ~timers =>
    \A s \in Slot : tasklet_array[s].exe = "sigchld" => state[tasklet_array[s].arg] # "FREE"

(* While a vfork child runs on its parent's stack the parent does not run. *)
StackNotShared ==
  \A c \in vforked : state[c] \notin Dead =>
    \E p \in tasks_idling : pid[p] = ppid[c] /\ state[p] = "FORKED"

(* No exit goes unnoticed: a parent asleep in waitpid, one of whose        *)
(* awaited children is dead, has a SIGCHLD on the way, wherever the scan   *)
(* is and whatever fills and frees the slots.                              *)
NoLostExit ==
  \A p, c \in Process :
    /\ state[p] = "WAITING" /\ state[c] = "ZOMBIE" /\ ppid[c] = pid[p]
    /\ waiting_for[p] \in {ANY, pid[c]}
    => \E s \in Slot : tasklet_array[s] = Sigchld(p)

=============================================================================
