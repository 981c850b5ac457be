----------------------------- MODULE RoundRobin -----------------------------
(***************************************************************************)
(* The order in which kernel/scheduler.c gives the CPU to tasks.  Tasks    *)
(* lets a switch choose any running task; here tasks_running is the list   *)
(* it is in the code, with task_switch, the forced switch to a real-time   *)
(* task, and the two places that switch: the end of a system call, when    *)
(* its caller is not RUNNING any more, and the PendSV interrupt.           *)
(***************************************************************************)
EXTENDS Scheduler, Integers, FiniteSets, SequencesExt

CONSTANTS RealTime,  \* the processes whose nice value is NICE_RT
          NULL       \* no task

ASSUME ProcessFinite == IsFiniteSet(Process)
ASSUME NullAssumption == NULL \notin Task
ASSUME RealTimeAssumption == RealTime \subseteq Process

VARIABLES running,   \* tasks_running, from its head
          forced,    \* forced_task
          recorded   \* tasks that a driver, a timer or a lock will resume

roundvars == <<running, state, cur, forced, pendsv, recorded>>

RoundTypeOK ==
  /\ running \in Seq(Task)
  /\ state \in [Task -> Ready \cup {"WAITING", "STOPPED"}]
  /\ cur \in Task
  /\ forced \in RealTime \cup {NULL}
  /\ recorded \subseteq Process
  /\ pendsv \in BOOLEAN

(* Tasks are added at the head of the list, the kernel's first. *)
RoundInit ==
  /\ \E order \in Bijection(1..Cardinality(Process), Process) :
       running = Append(order, kernel)
  /\ state = [t \in Task |-> IF t = kernel THEN "RUNNING" ELSE "RUNNABLE"]
  /\ cur = kernel
  /\ forced = NULL /\ recorded = {} /\ pendsv = FALSE
-----------------------------------------------------------------------------
(* Mutant: a switch from a task that left starts after the head.           *)
FollowingSecond(list, st) ==
  IF st[cur] \notin Ready \/ cur = Last(list)
    THEN list[IF Len(list) > 1 THEN 2 ELSE 1]
    ELSE list[CHOOSE i \in 2..Len(list) : list[i - 1] = cur]

(* The task after cur in the list; the head of the list if cur has left it *)
(* or is the last.                                                         *)
Following(list, st) ==
  IF st[cur] \notin Ready \/ cur = Last(list)
    THEN Head(list)
    ELSE list[CHOOSE i \in 2..Len(list) : list[i - 1] = cur]

(* A forced switch does not mark the task RUNNING. *)
task_switch(list, st, f) ==
  /\ forced' = NULL
  /\ \/ f # NULL /\ cur' = f /\ state' = st
     \/ /\ f = NULL
        /\ cur' = Following(list, st)
        /\ state' = [st EXCEPT ![cur'] = "RUNNING"]

(* The end of sv_call_handler. *)
EndCall(list, st, f) ==
  /\ running' = list
  /\ \/ /\ st[cur] = "RUNNING" /\ UNCHANGED cur
        /\ state' = st /\ forced' = f
     \/ st[cur] # "RUNNING" /\ task_switch(list, st, f)

(* PendSV: cur is RUNNING unless it suspended, or the switch to it was     *)
(* forced.                                                                 *)
PendSV ==
  /\ pendsv /\ pendsv' = FALSE
  /\ task_switch(running, IF state[cur] = "RUNNING" THEN [state EXCEPT ![cur] = "RUNNABLE"]
                                                   ELSE state, forced)
  /\ UNCHANGED <<running, recorded>>

(* A tick that ends the time slice, or finds cur not RUNNING. *)
SysTick ==
  /\ ~pendsv /\ pendsv' = TRUE
  /\ UNCHANGED <<running, state, cur, forced, recorded>>

(* task_resume, as it changes list, states and forced_task.  The task may  *)
(* have been stopped, or woken by something else, since it was recorded.   *)
Woken(w) == w # NULL /\ state[w] = "WAITING"
(* Mutant: the resumed task is added at the end of the list. *)
ListAfterTail(w) == IF Woken(w) THEN Append(running, w) ELSE running

ListAfter(w) == IF Woken(w) THEN <<w>> \o running ELSE running

StateAfter(w) == IF Woken(w) THEN [state EXCEPT ![w] = "RUNNABLE"] ELSE state

ForcedAfter(w) == IF w \in RealTime THEN w ELSE forced

(* An interrupt, or the kernel, resumes a task. *)
Resume(w) ==
  /\ running' = ListAfter(w) /\ state' = StateAfter(w) /\ forced' = ForcedAfter(w)
  /\ pendsv' = (pendsv \/ w \in RealTime)
  /\ UNCHANGED <<cur, recorded>>

(* A system call that resumes a task, if w is one. *)
CallResumes(w) ==
  /\ InUser
  /\ EndCall(ListAfter(w), StateAfter(w), ForcedAfter(w))
  /\ pendsv' = (w \in RealTime)
  /\ UNCHANGED recorded

(* A system call that resumes a task, if w is one, and suspends its        *)
(* caller.                                                                 *)
CallSuspends(w) ==
  /\ InUser
  /\ EndCall(RemoveFirst(ListAfter(w), cur), [StateAfter(w) EXCEPT ![cur] = "WAITING"], ForcedAfter(w))
  /\ pendsv' = TRUE
  /\ recorded' = recorded \cup {cur}

(* kill with SIGSTOP and with SIGCONT. *)
CallStops(t) ==
  /\ InUser
  /\ EndCall(RemoveFirst(running, t), [state EXCEPT ![t] = "STOPPED"], forced)
  /\ pendsv' = TRUE
  /\ UNCHANGED recorded

CallContinues(t) ==
  /\ InUser /\ state[t] = "STOPPED"
  /\ EndCall(<<t>> \o running, [state EXCEPT ![t] = "RUNNABLE"], forced)
  /\ UNCHANGED <<pendsv, recorded>>

RoundNext ==
  \/ PendSV \/ SysTick
  \/ \E w \in recorded : Resume(w)
  \/ \E w \in recorded \cup {NULL} : w # cur /\ (CallResumes(w) \/ CallSuspends(w))
  \/ \E t \in Process : CallStops(t) \/ CallContinues(t)

(* The timer always ticks, and a pending interrupt is taken. *)
RoundSpec == RoundInit /\ [][RoundNext]_roundvars /\ WF_roundvars(PendSV) /\ WF_roundvars(SysTick)
-----------------------------------------------------------------------------
(* The list never runs empty and holds a task once: task_switch finds a    *)
(* task at its head, and going round the list meets every ready task.  The *)
(* kernel's task never leaves the last place.                              *)
KernelIsLast ==
  /\ Last(running) = kernel
  /\ ToSet(running) = {t \in Task : state[t] \in Ready}
  /\ \A i, j \in DOMAIN running : running[i] = running[j] => i = j

(* When no task leaves or enters the list any more, and no switch is       *)
(* forced, each task in the list gets the CPU again and again.             *)
EveryoneServed ==
  \A t \in Task :
    <>[][UNCHANGED running]_roundvars /\ <>[](forced = NULL /\ state[t] \in Ready)
      => []<>(cur = t /\ ~pendsv)

=============================================================================
