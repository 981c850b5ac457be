---------------------------- MODULE TasksProofs -----------------------------
(***************************************************************************)
(* Theorems about kernel/scheduler.c: the life of processes (Tasks), for   *)
(* every number of processes and every MaxPid, and, at the end, the order  *)
(* in which they run (RoundRobin).                                         *)
(***************************************************************************)
EXTENDS Tasks, RoundRobin, SequenceTheorems, FiniteSetTheorems, TLAPS

(* Where the kernel's task is: a scan that has interrupts off is not       *)
(* interrupted, and without timers they are off in the whole scan.         *)
Scanning ==
  /\ masked => cur = kernel /\ ~pendsv
  /\ pc = "idle" => slot = 0
  /\ ~timers => (masked <=> pc # "idle")

Plain == TypeOK /\ ListsMatchStates /\ pid[kernel] = 0

Basic == Plain /\ Scanning

QueueTyped ==
  /\ tasklet_array \in [Slot -> Tasklet]
  /\ pc \in {"idle", "scan", "check"} /\ slot \in 0..MAX_TASKLETS
  /\ masked \in BOOLEAN /\ timers \in BOOLEAN

(* The tasks that kill and exit reach. *)
Live(t) == t \in Process /\ state[t] \in {"RUNNABLE", "RUNNING", "WAITING", "STOPPED"}

(* Next, with a call that several handlers make counted once. *)
Step ==
  \/ pend_sv_handler \/ sys_tick_handler
  \/ \E t \in Process : Wakeup(t)
  \/ Suspend \/ EventDone
  \/ sys_vfork_hdlr \/ scheduler_exec
  \/ \E t \in Process : Live(t) /\ InUser /\ task_terminate(t)
  \/ \E t \in Process : Live(t) /\ InUser /\ task_stop(t)
  \/ \E t \in Process : task_continue(t)
  \/ \E t \in Process : Live(t) /\ sig_trampoline(t)
  \/ InUser /\ WaitEnds
  \/ \E t \in IdlingChild : InUser /\ state[t] = "ZOMBIE" /\ Reap(t)
  \/ \E p \in {ANY} \cup 1..MaxPid :
       /\ InUser
       /\ \A c \in Process : state[c] = "ZOMBIE" /\ ppid[c] = pid[cur] /\ p \in {ANY, pid[c]}
            => \E t \in Task \ {c} : state[t] # "FREE" /\ pid[t] = pid[c]
       /\ Await(p)
  \/ check_tasklets \/ task_destroy \/ task_deliver_sigchld

(* The handlers' alternatives cover every step. *)
LEMMA NextIsStep == Basic /\ Next => Step
<1> SUFFICES ASSUME Basic, Next PROVE Step
  OBVIOUS
<1> USE DEF Basic, Plain
<1>1. CASE sys_exit_hdlr
  <2>1. Live(cur) /\ InUser /\ task_terminate(cur) /\ cur \in Process
    BY <1>1 DEF sys_exit_hdlr, Free, InUser, Live, ListsMatchStates, TypeOK, Ready, Task
  <2> QED BY <2>1 DEF Step
<1>2. CASE sys_kill_hdlr
  <2>1. PICK t \in Process :
          /\ Catchable(t)
          /\ \/ task_terminate(t) \/ task_stop(t) \/ task_continue(t) \/ Wakeup(t)
             \/ sig_trampoline(t)
    BY <1>2 DEF sys_kill_hdlr
  <2>2. Live(t)
    BY <2>1 DEF Live, Catchable, ListsMatchStates, Ready, Suspended, Dead, Task, TypeOK
  <2>3. InUser
    BY <1>2 DEF sys_kill_hdlr, Free
  <2> QED BY <2>1, <2>2, <2>3 DEF Step
<1>3. CASE sys_waitpid_hdlr /\ WaitAny
  <2>1. CASE \E t \in IdlingChild : state[t] = "STOPPED" /\ WaitEnds
    BY <1>3, <2>1 DEF Step, sys_waitpid_hdlr
  <2>2. CASE \E t \in IdlingChild : state[t] = "ZOMBIE" /\ Reap(t)
    BY <1>3, <2>2 DEF Step, sys_waitpid_hdlr
  <2>3. CASE (\A t \in IdlingChild : state[t] \notin {"STOPPED", "ZOMBIE"}) /\ Await(ANY)
    <3>1. \A c \in Process : ~(state[c] = "ZOMBIE" /\ ppid[c] = pid[cur])
      BY <2>3 DEF IdlingChild, ListsMatchStates, Suspended, Task
    <3> QED BY <1>3, <2>3, <3>1 DEF Step, sys_waitpid_hdlr
  <2> QED BY <1>3, <2>1, <2>2, <2>3 DEF WaitAny
<1>4. ASSUME NEW p \in 1..MaxPid, sys_waitpid_hdlr, WaitPid(p) PROVE Step
  <2> DEFINE runs == {t \in tasks_running : pid[t] = p}
             idles == {t \in IdlingChild : pid[t] = p}
  <2>1. InUser
    BY <1>4 DEF sys_waitpid_hdlr
  <2>2. CASE \E t \in runs : ppid[t] # ppid[cur] /\ WaitEnds
    BY <2>1, <2>2 DEF Step
  <2>3. CASE \E t \in runs : ppid[t] = ppid[cur] /\ Await(p)
    <3>1. PICK t \in runs : Await(p)
      BY <2>3
    <3>2. t \in Task /\ state[t] \in Ready /\ pid[t] = p
      BY DEF ListsMatchStates
    <3>3. p # ANY
      BY MaxPidAssumption DEF ANY
    <3> QED BY <2>1, <3>1, <3>2, <3>3 DEF Step, Ready
  <2>4. CASE runs = {} /\ idles = {} /\ WaitEnds
    BY <2>1, <2>4 DEF Step
  <2>5. CASE \E t \in idles : state[t] = "ZOMBIE" /\ Reap(t)
    BY <2>1, <2>5 DEF Step
  <2>6. CASE \E t \in idles : state[t] = "STOPPED" /\ WaitEnds
    BY <2>1, <2>6 DEF Step
  <2>7. CASE \E t \in idles : state[t] \notin {"ZOMBIE", "STOPPED"} /\ Await(p)
    <3>1. PICK t \in idles : state[t] \notin {"ZOMBIE", "STOPPED"} /\ Await(p)
      BY <2>7
    <3>2. t \in Task /\ state[t] \in Suspended /\ pid[t] = p
      BY DEF ListsMatchStates, IdlingChild
    <3>3. p # ANY
      BY MaxPidAssumption DEF ANY
    <3> QED BY <2>1, <3>1, <3>2, <3>3 DEF Step, Suspended
  <2>8. \/ \E t \in runs : ppid[t] # ppid[cur] /\ WaitEnds
        \/ \E t \in runs : ppid[t] = ppid[cur] /\ Await(p)
        \/ runs = {} /\ idles = {} /\ WaitEnds
        \/ \E t \in idles : state[t] = "ZOMBIE" /\ Reap(t)
        \/ \E t \in idles : state[t] = "STOPPED" /\ WaitEnds
        \/ \E t \in idles : state[t] \notin {"ZOMBIE", "STOPPED"} /\ Await(p)
    BY <1>4 DEF WaitPid
  <2> QED BY <2>2, <2>3, <2>4, <2>5, <2>6, <2>7, <2>8
<1>5. CASE sys_waitpid_hdlr
  BY <1>3, <1>4, <1>5 DEF sys_waitpid_hdlr
<1> QED BY <1>1, <1>2, <1>5 DEF Next, Step

(* The initial state is well typed, and the lists match it. *)
LEMMA BasicInit == Init => Basic
<1> SUFFICES ASSUME Init PROVE Basic
  OBVIOUS
<1>1. kernel # init /\ init \in Task /\ kernel \in Task /\ init \in Process
  BY KernelAssumption, ProcessAssumption DEF Task
<1>2. \A t \in Task : state[t] = IF t \in {kernel, init} THEN "RUNNABLE" ELSE "FREE"
  BY DEF Init
<1>3. ListsMatchStates
  BY <1>1, <1>2 DEF Init, ListsMatchStates, Ready, Suspended
<1>4. 0 \in Pid /\ 1 \in Pid
  BY MaxPidAssumption DEF Pid
<1>5. state \in [Task -> Ready \cup Suspended \cup {"FREE"}]
  BY DEF Init, Ready
<1>6. tasks_running \subseteq Task /\ tasks_idling \subseteq Process /\ cur \in Task
  BY <1>1 DEF Init
<1>7. tasklet_array \in [Slot -> Tasklet] /\ vforked \subseteq Process
  BY DEF Init, Tasklet
<1>11. pc = "idle" /\ slot = 0 /\ slot \in 0..MAX_TASKLETS
  BY MaxTaskletsAssumption DEF Init
<1>14. masked = FALSE /\ masked \in BOOLEAN
  BY Zenon DEF Init
<1>12. timers \in BOOLEAN
  BY Zenon DEF Init
<1>13. Scanning
  BY <1>11, <1>14, Zenon DEF Scanning
<1>10. pendsv \in BOOLEAN
  BY Zenon DEF Init
<1>8. waiting_for \in [Process -> Wait] /\ pid \in [Task -> Pid] /\ ppid \in [Task -> Pid]
  BY <1>4 DEF Init, Wait
<1>9. pid[kernel] = 0
  BY <1>1 DEF Init
<1> QED BY <1>3, <1>5, <1>6, <1>7, <1>8, <1>9, <1>10, <1>11, <1>12, <1>13, <1>14
       DEF Basic, Plain, TypeOK

(* The tasklets and what they name. *)
LEMMA TaskletFacts ==
  /\ None \in Tasklet /\ Check \in Tasklet /\ None # Check
  /\ None.exe = "none" /\ Check.exe = "check"
  /\ \A t \in Process : /\ Destroy(t) \in Tasklet /\ Sigchld(t) \in Tasklet
                        /\ Destroy(t) \notin {None, Check} /\ Sigchld(t) \notin {None, Check}
                        /\ Sigchld(t).exe = "sigchld" /\ Sigchld(t).arg = t
  /\ \A t, u \in Process : /\ Destroy(t) # Sigchld(u)
                           /\ Destroy(t) = Destroy(u) => t = u
                           /\ Sigchld(t) = Sigchld(u) => t = u
  /\ \A e \in Tasklet : /\ e.exe = "none" => e = None
                        /\ e.exe = "check" => e = Check
                        /\ e.exe = "destroy" => e.arg \in Process /\ e = Destroy(e.arg)
                        /\ e.exe = "sigchld" => e.arg \in Process /\ e = Sigchld(e.arg)
BY DEF Tasklet, None, Check, Destroy, Sigchld

(* tasklet_add takes the first free slot. *)
LEMMA AddFacts ==
  ASSUME tasklet_array \in [Slot -> Tasklet], NEW e \in Tasklet, tasklet_add(e)
  PROVE  /\ tasklet_array' \in [Slot -> Tasklet]
         /\ \E f \in Slot :
              /\ tasklet_array[f] = None
              /\ \A r \in Slot : r < f => tasklet_array[r] # None
              /\ \A s \in Slot : tasklet_array'[s] = IF s = f THEN e ELSE tasklet_array[s]
<1>1. PICK f \in Slot : /\ tasklet_array[f] = None
                        /\ \A r \in 1..f - 1 : tasklet_array[r] # None
                        /\ tasklet_array' = [tasklet_array EXCEPT ![f] = e]
  BY DEF tasklet_add
<1>2. \A r \in Slot : r < f => r \in 1..f - 1
  BY MaxTaskletsAssumption DEF Slot
<1>3. tasklet_array' \in [Slot -> Tasklet]
  BY <1>1, Zenon
<1>4. \A s \in Slot : tasklet_array'[s] = IF s = f THEN e ELSE tasklet_array[s]
  BY <1>1, Zenon
<1>5. \A r \in Slot : r < f => tasklet_array[r] # None
  BY <1>1, <1>2
<1> QED BY <1>1, <1>3, <1>4, <1>5, Zenon

(* The slot that RunTasklet reaches. *)
LEMMA RunFacts ==
  ASSUME QueueTyped, NEW exe, RunTasklet(exe)
  PROVE  /\ slot + 1 \in Slot /\ tasklet_array[slot + 1] \in Tasklet
         /\ tasklet_array[slot + 1].exe = exe
         /\ QueueTyped'
         /\ \A s \in Slot :
              tasklet_array'[s] = IF s = slot + 1 THEN None ELSE tasklet_array[s]
<1>1. slot + 1 \in Slot /\ slot' \in 0..MAX_TASKLETS /\ tasklet_array[slot + 1].exe = exe
  BY MaxTaskletsAssumption DEF RunTasklet, Reach, QueueTyped, Slot
<1>2. tasklet_array' = [tasklet_array EXCEPT ![slot + 1] = None] /\ UNCHANGED <<pc, masked, timers>>
  BY DEF RunTasklet
<1>3. None \in Tasklet
  BY TaskletFacts
<1> QED BY <1>1, <1>2, <1>3 DEF QueueTyped

(* After a handler the CPU is with a task of the running list, if the      *)
(* handler left lists and states in agreement.                             *)
LEMMA ReturnFacts ==
  ASSUME NEW st \in [Task -> Ready \cup Suspended \cup {"FREE"}], Return(st),
         cur \in Task,
         tasks_running' = {t \in Task : st[t] \in Ready},
         tasks_idling' = {t \in Task : st[t] \in Suspended},
         \A t \in Task : st[t] = "RUNNING" => t = cur
  PROVE  /\ ListsMatchStates'
         /\ state' \in [Task -> Ready \cup Suspended \cup {"FREE"}]
         /\ cur' \in Task
         /\ \A t \in Task : st[t] \notin Ready => state'[t] = st[t]
         /\ \A t \in Task : st[t] \in Ready => state'[t] \in Ready
<1>1. CASE st[cur] = "RUNNING" /\ state' = st /\ cur' = cur
  BY <1>1 DEF ListsMatchStates, Ready
<1>2. CASE /\ st[cur] # "RUNNING"
           /\ \E n \in tasks_running' : cur' = n /\ state' = [st EXCEPT ![n] = "RUNNING"]
  <2>1. PICK n \in Task : /\ st[n] \in Ready /\ cur' = n
                          /\ state' = [st EXCEPT ![n] = "RUNNING"]
    BY <1>2
  <2>2. \A t \in Task : state'[t] = IF t = n THEN "RUNNING" ELSE st[t]
    BY <2>1
  <2> QED BY <1>2, <2>1, <2>2 DEF ListsMatchStates, Ready, Suspended
<1> QED BY <1>1, <1>2 DEF Return

(* A task that leaves the CPU or is stopped goes to the other list. *)
LEMMA SuspendFacts ==
  ASSUME Basic, NEW t \in Process, state[t] \in Ready \cup Suspended,
         NEW s \in Suspended, running_to_idling(t), Return([state EXCEPT ![t] = s])
  PROVE  /\ ListsMatchStates'
         /\ state' \in [Task -> Ready \cup Suspended \cup {"FREE"}]
         /\ cur' \in Task
         /\ state'[t] = s
         /\ \A u \in Task \ {t} : state[u] \notin Ready => state'[u] = state[u]
         /\ \A u \in Task \ {t} : state[u] \in Ready => state'[u] \in Ready
<1> DEFINE st == [state EXCEPT ![t] = s]
<1> USE DEF Basic, Plain, TypeOK, Task
<1>1. \A u \in Task : st[u] = IF u = t THEN s ELSE state[u]
  OBVIOUS
<1>2. st \in [Task -> Ready \cup Suspended \cup {"FREE"}]
  OBVIOUS
<1>3. s \notin Ready
  BY DEF Ready, Suspended
<1>4. tasks_running' = {u \in Task : st[u] \in Ready}
  BY <1>1, <1>3 DEF running_to_idling, ListsMatchStates
<1>5. tasks_idling' = {u \in Task : st[u] \in Suspended}
  BY <1>1 DEF running_to_idling, ListsMatchStates
<1>6. \A u \in Task : st[u] = "RUNNING" => u = cur
  BY <1>1, <1>3 DEF ListsMatchStates, Ready
<1>7. Return(st)
  OBVIOUS
<1> HIDE DEF st
<1> QED BY <1>1, <1>2, <1>3, <1>4, <1>5, <1>6, <1>7, ReturnFacts, Zenon

(* A waiting, stopped or forked task that is made runnable. *)
LEMMA ResumeFacts ==
  ASSUME Basic, NEW t \in Process, state[t] \in Suspended, idling_to_running(t),
         state' = [state EXCEPT ![t] = "RUNNABLE"], cur' = cur
  PROVE  /\ ListsMatchStates'
         /\ state' \in [Task -> Ready \cup Suspended \cup {"FREE"}]
         /\ tasks_running' \subseteq Task /\ tasks_idling' \subseteq Process
<1> USE DEF Basic, Plain, TypeOK, Task
<1>1. \A u \in Task : state'[u] = IF u = t THEN "RUNNABLE" ELSE state[u]
  OBVIOUS
<1>2. t \in tasks_idling /\ t # cur
  BY DEF ListsMatchStates, Ready, Suspended
<1> QED BY <1>1, <1>2 DEF idling_to_running, ListsMatchStates, Ready, Suspended

(* Every step keeps the variables typed and the lists in agreement. *)
LEMMA PlainStep == Basic /\ [Step]_vars => Plain'
<1> SUFFICES ASSUME Basic, [Step]_vars PROVE Plain'
  OBVIOUS
<1> USE DEF Basic, Plain, lists, tasklets, scan
<1>0. QueueTyped
  BY DEF QueueTyped, TypeOK
<1>1. CASE pend_sv_handler
  <2>1. PICK n \in Task : /\ state[n] \in Ready /\ cur' = n
          /\ state' = [t \in Task |->
                         IF t = n THEN "RUNNING"
                         ELSE IF t = cur /\ state[t] = "RUNNING" THEN "RUNNABLE" ELSE state[t]]
    BY <1>1 DEF pend_sv_handler, ListsMatchStates
  <2>2. \A t \in Task : state'[t] =
                         IF t = n THEN "RUNNING"
                         ELSE IF t = cur /\ state[t] = "RUNNING" THEN "RUNNABLE" ELSE state[t]
    BY <2>1
  <2>3. UNCHANGED <<tasks_running, tasks_idling>>
    BY <1>1 DEF pend_sv_handler
  <2>4. ListsMatchStates'
    BY <2>1, <2>2, <2>3 DEF ListsMatchStates, Ready, Suspended
  <2>5. TypeOK'
    BY <1>1, <2>1 DEF pend_sv_handler, TypeOK, Ready
  <2> QED BY <1>1, <2>4, <2>5 DEF pend_sv_handler
<1>2. CASE sys_tick_handler
  <2>1. tasklet_array' \in [Slot -> Tasklet]
    BY <1>2, TaskletFacts, AddFacts DEF sys_tick_handler, TypeOK
  <2>2. pendsv' \in BOOLEAN
    BY <1>2 DEF sys_tick_handler, TypeOK
  <2> QED BY <1>2, <2>1, <2>2 DEF sys_tick_handler, TypeOK, ListsMatchStates
<1>3. ASSUME NEW t \in Process, task_resume(t), cur' = cur,
             UNCHANGED <<pid, ppid, vforked, pendsv>>,
             waiting_for' \in [Process -> Wait], QueueTyped'
      PROVE  Plain'
  <2>1. state[t] \in Suspended /\ idling_to_running(t) /\ state' = [state EXCEPT ![t] = "RUNNABLE"]
    BY <1>3 DEF task_resume, Suspended
  <2> QED BY <1>3, <2>1, ResumeFacts DEF TypeOK, QueueTyped
<1>4. ASSUME NEW t \in Process, Wakeup(t) PROVE Plain'
  <2>1. QueueTyped'
    BY <1>0, <1>4 DEF Wakeup, QueueTyped
  <2> QED BY <1>3, <1>4, <2>1 DEF Wakeup, TypeOK
<1>5. ASSUME NEW t \in Process, NEW s \in Suspended, state[t] \in Ready \cup Suspended,
             running_to_idling(t), Return([state EXCEPT ![t] = s]),
             pid' = pid, ppid' \in [Task -> Pid], vforked' \subseteq Process,
             waiting_for' \in [Process -> Wait], pendsv' \in BOOLEAN, QueueTyped'
      PROVE  Plain'
  <2>1. /\ ListsMatchStates'
        /\ state' \in [Task -> Ready \cup Suspended \cup {"FREE"}]
        /\ cur' \in Task
    BY <1>5, SuspendFacts
  <2>2. tasks_running' \subseteq Task /\ tasks_idling' \subseteq Process
    BY <1>5 DEF running_to_idling, TypeOK, Task
  <2> QED BY <1>5, <2>1, <2>2 DEF TypeOK, QueueTyped
<1>6. ASSUME InUser, NEW p \in Wait, task_suspend_to("WAITING"),
             waiting_for' = [waiting_for EXCEPT ![cur] = p],
             UNCHANGED <<pid, ppid, vforked, tasklets>>
      PROVE  Plain'
  <2>1. cur \in Process /\ state[cur] \in Ready
    BY <1>6 DEF InUser, TypeOK, ListsMatchStates, Task
  <2>2. QueueTyped'
    BY <1>0, <1>6 DEF QueueTyped
  <2> QED BY <1>5, <1>6, <2>1, <2>2 DEF task_suspend_to, TypeOK, Suspended
<1>7. CASE Suspend
  BY <1>6, <1>7 DEF Suspend, Wait
<1>8. CASE EventDone
  BY <1>8 DEF EventDone, TypeOK, ListsMatchStates, Wait, InUser, Task
<1>9. CASE sys_vfork_hdlr
  <2>1. PICK new \in Process, p \in Unused :
          /\ state[new] = "FREE"
          /\ pid' = [pid EXCEPT ![new] = p]
          /\ ppid' = [ppid EXCEPT ![new] = pid[cur]]
          /\ vforked' = vforked \cup {new}
          /\ waiting_for' = [waiting_for EXCEPT ![new] = NOTHING]
          /\ tasks_running' = (tasks_running \ {cur}) \cup {new}
          /\ tasks_idling' = tasks_idling \cup {cur}
          /\ pendsv' = TRUE
          /\ Return([state EXCEPT ![new] = "RUNNABLE", ![cur] = "FORKED"])
    BY <1>9 DEF sys_vfork_hdlr
  <2>2. cur \in Process /\ state[cur] \in Ready /\ new # cur
    BY <1>9, <2>1 DEF sys_vfork_hdlr, Free, InUser, TypeOK, ListsMatchStates, Task, Ready
  <2> DEFINE st == [state EXCEPT ![new] = "RUNNABLE", ![cur] = "FORKED"]
  <2>3. \A t \in Task : st[t] = IF t = cur THEN "FORKED" ELSE IF t = new THEN "RUNNABLE" ELSE state[t]
    BY <2>2 DEF TypeOK, Task
  <2>4. st \in [Task -> Ready \cup Suspended \cup {"FREE"}]
    BY DEF TypeOK, Ready, Suspended
  <2>12. Return(st)
    BY <2>1
  <2> HIDE DEF st
  <2>13. cur \in Task /\ new \in Task
    BY <2>2 DEF Task
  <2>5. tasks_running' = {t \in Task : st[t] \in Ready}
    BY <2>1, <2>2, <2>3, <2>13 DEF ListsMatchStates, Ready
  <2>6. tasks_idling' = {t \in Task : st[t] \in Suspended}
    BY <2>1, <2>2, <2>3, <2>13 DEF ListsMatchStates, Suspended, Ready
  <2>7. \A t \in Task : st[t] = "RUNNING" => t = cur
    BY <2>3 DEF ListsMatchStates
  <2>9. /\ ListsMatchStates'
        /\ state' \in [Task -> Ready \cup Suspended \cup {"FREE"}]
        /\ cur' \in Task
    BY <2>4, <2>5, <2>6, <2>7, <2>12, <2>13, ReturnFacts
  <2>10. p \in Pid /\ NOTHING \in Wait
    BY MaxPidAssumption DEF Unused, Pid, Wait
  <2>11. UNCHANGED tasklets
    BY <1>9 DEF sys_vfork_hdlr
  <2>14. TypeOK'
    BY <2>1, <2>2, <2>9, <2>10, <2>11, <2>13 DEF TypeOK, Task
  <2>15. kernel # new
    BY KernelAssumption, ProcessAssumption
  <2> QED BY <2>1, <2>9, <2>14, <2>15 DEF TypeOK, Task
<1>10. CASE scheduler_exec
  <2>1. cur \in Process
    BY <1>10 DEF scheduler_exec, Free, InUser, TypeOK, Task
  <2>2. CASE \E pt \in Lookup(ppid[cur]) :
               /\ state[pt] = "FORKED"
               /\ idling_to_running(pt)
               /\ state' = [state EXCEPT ![pt] = "RUNNABLE"]
    <3>1. PICK pt \in Lookup(ppid[cur]) :
               /\ state[pt] = "FORKED"
               /\ idling_to_running(pt)
               /\ state' = [state EXCEPT ![pt] = "RUNNABLE"]
      BY <2>2
    <3>2. pt \in Process /\ state[pt] \in Suspended
      BY <3>1 DEF Lookup, ListsMatchStates, TypeOK, Ready, Suspended
    <3> QED BY <1>10, <3>1, <3>2, ResumeFacts DEF scheduler_exec, TypeOK
  <2>3. CASE UNCHANGED <<state, lists>>
    BY <1>10, <2>3 DEF scheduler_exec, TypeOK, ListsMatchStates
  <2> QED BY <1>10, <2>2, <2>3 DEF scheduler_exec
<1>11. ASSUME NEW t \in Process, Live(t), task_terminate(t) PROVE Plain'
  <2>1. ppid[t] # 0 => Heir(t) \subseteq Process
    BY DEF Heir, Lookup, TypeOK, Task
  <2>2. 1 \in Pid
    BY MaxPidAssumption DEF Pid
  <2>3. ppid' \in [Task -> Pid] /\ vforked' \subseteq Process /\ pendsv' \in BOOLEAN
    BY <1>11, <2>2 DEF task_terminate, TypeOK
  <2>4. tasklet_array' \in [Slot -> Tasklet]
    <3>1. ASSUME NEW h \in Process, tasklet_add(Sigchld(h)) PROVE tasklet_array' \in [Slot -> Tasklet]
      BY <3>1, TaskletFacts, AddFacts DEF TypeOK
    <3>2. UNCHANGED tasklet_array \/ \E h \in Process : tasklet_add(Sigchld(h))
      BY <1>11, <2>1 DEF task_terminate
    <3> QED BY <3>1, <3>2 DEF TypeOK
  <2>5. QueueTyped'
    BY <1>0, <1>11, <2>4 DEF task_terminate, QueueTyped
  <2>6. waiting_for' \in [Process -> Wait]
    BY <1>11 DEF task_terminate, TypeOK, Wait
  <2>7. /\ state[t] \in Ready \cup Suspended /\ "ZOMBIE" \in Suspended
        /\ running_to_idling(t) /\ Return([state EXCEPT ![t] = "ZOMBIE"]) /\ pid' = pid
    BY <1>11 DEF task_terminate, Live, Ready, Suspended
  <2> QED BY <1>5, <2>3, <2>5, <2>6, <2>7
<1>12. ASSUME NEW t \in Process, Live(t), task_stop(t) PROVE Plain'
  <2>1. /\ state[t] \in Ready \cup Suspended /\ "STOPPED" \in Suspended
        /\ running_to_idling(t) /\ Return([state EXCEPT ![t] = "STOPPED"])
        /\ pendsv' = TRUE /\ UNCHANGED <<pid, ppid, vforked, waiting_for>>
    BY <1>12 DEF task_stop, Live, Ready, Suspended
  <2>2. QueueTyped'
    BY <1>0, <1>12 DEF task_stop, QueueTyped
  <2> QED BY <1>5, <2>1, <2>2 DEF TypeOK
<1>13. ASSUME NEW t \in Process, task_continue(t) PROVE Plain'
  <2>1. /\ state[t] \in Suspended /\ idling_to_running(t)
        /\ state' = [state EXCEPT ![t] = "RUNNABLE"] /\ cur' = cur
    BY <1>13 DEF task_continue, Suspended
  <2> QED BY <1>13, <2>1, ResumeFacts DEF task_continue, TypeOK
<1>14. ASSUME NEW t \in Process, sig_trampoline(t) PROVE Plain'
  <2>1. waiting_for' \in [Process -> Wait]
    BY <1>14 DEF sig_trampoline, TypeOK, Wait
  <2>2. CASE state[t] = "WAITING"
    <3>1. QueueTyped'
      BY <1>0, <1>14 DEF sig_trampoline, QueueTyped
    <3> QED BY <1>3, <1>14, <2>1, <2>2, <3>1 DEF sig_trampoline
  <2>3. CASE state[t] # "WAITING"
    BY <1>14, <2>1, <2>3 DEF sig_trampoline, TypeOK, ListsMatchStates
  <2> QED BY <2>2, <2>3
<1>15. CASE InUser /\ WaitEnds
  BY <1>15 DEF WaitEnds, InUser, TypeOK, ListsMatchStates, Wait, Task
<1>16. ASSUME NEW t \in IdlingChild, InUser, state[t] = "ZOMBIE", Reap(t) PROVE Plain'
  <2>1. t \in Process /\ cur \in Process
    BY <1>16 DEF IdlingChild, InUser, TypeOK, Task
  <2>2. \A u \in Task : state'[u] = IF u = t THEN "OVER" ELSE state[u]
    BY <1>16, <2>1 DEF Reap, TypeOK, Task
  <2>3. ListsMatchStates'
    BY <1>16, <2>1, <2>2 DEF Reap, ListsMatchStates, Ready, Suspended
  <2>5. tasklet_array' \in [Slot -> Tasklet]
    BY <1>16, <2>1, TaskletFacts, AddFacts DEF Reap, TypeOK
  <2>4. TypeOK'
    BY <1>16, <2>1, <2>5 DEF Reap, TypeOK, Suspended, Wait
  <2> QED BY <1>16, <2>3, <2>4 DEF Reap
<1>17. ASSUME NEW p \in {ANY} \cup 1..MaxPid, InUser, Await(p) PROVE Plain'
  <2>1. p \in Wait
    BY MaxPidAssumption DEF Wait, Pid
  <2> QED BY <1>6, <1>17, <2>1 DEF Await
<1>18. CASE task_destroy
  <2> DEFINE t == tasklet_array[slot + 1].arg
  <2>1. RunTasklet("destroy") /\ cur = kernel
    BY <1>18 DEF task_destroy, RunTasklet, KernelRuns
  <2>2. t \in Process /\ QueueTyped'
    BY <1>0, <2>1, RunFacts, TaskletFacts
  <2>7. /\ tasks_running' = tasks_running \ {t} /\ tasks_idling' = tasks_idling \ {t}
        /\ state' = [state EXCEPT ![t] = "FREE"] /\ vforked' = vforked \ {t}
        /\ pid' = [pid EXCEPT ![t] = 0] /\ ppid' = [ppid EXCEPT ![t] = 0]
        /\ waiting_for' = [waiting_for EXCEPT ![t] = NOTHING] /\ UNCHANGED <<cur, pendsv>>
    BY <1>18 DEF task_destroy
  <2> HIDE DEF t
  <2>3. \A u \in Task : state'[u] = IF u = t THEN "FREE" ELSE state[u]
    BY <2>2, <2>7 DEF TypeOK, Task
  <2>4. t # cur /\ t # kernel
    BY <2>1, <2>2, KernelAssumption
  <2>5. ListsMatchStates'
    BY <2>2, <2>3, <2>4, <2>7 DEF ListsMatchStates, Ready, Suspended
  <2>8. 0 \in Pid /\ NOTHING \in Wait
    BY MaxPidAssumption DEF Pid, Wait
  <2>6. TypeOK'
    BY <2>2, <2>7, <2>8 DEF TypeOK, QueueTyped
  <2>9. pid'[kernel] = 0
    BY <2>4, <2>7 DEF TypeOK
  <2> QED BY <2>5, <2>6, <2>9
<1>19. CASE task_deliver_sigchld
  <2>2. QueueTyped'
    BY <1>0, <1>19, RunFacts DEF task_deliver_sigchld
  <2>5. UNCHANGED <<pid, ppid, vforked, cur, pendsv>>
    BY <1>19 DEF task_deliver_sigchld
  <2>1. PICK p \in Pid :
          /\ \/ UNCHANGED <<state, lists>>
             \/ \E t \in {t \in Lookup(p) : Catchable(t)} : task_resume(t)
          /\ \/ UNCHANGED waiting_for
             \/ \E t \in {t \in Lookup(p) : Catchable(t)} :
                  waiting_for' = [waiting_for EXCEPT ![t] = NOTHING]
    <3>1. RunTasklet("sigchld")
      BY <1>19 DEF task_deliver_sigchld
    <3>2. tasklet_array[slot + 1].arg \in Task
      BY <1>0, <3>1, RunFacts, TaskletFacts DEF Task
    <3>3. (IF state[tasklet_array[slot + 1].arg] = "FREE"
             THEN Pid ELSE {pid[tasklet_array[slot + 1].arg]}) \subseteq Pid
      BY <3>2 DEF TypeOK
    <3> QED BY <1>19, <3>3, Zenon DEF task_deliver_sigchld
  <2> DEFINE told == {t \in Lookup(p) : Catchable(t)}
  <2>3. told \subseteq Process
    BY DEF Catchable, TypeOK, Task
  <2>4. waiting_for' \in [Process -> Wait]
    BY <2>1, <2>3 DEF TypeOK, Wait
  <2>6. UNCHANGED <<state, lists>> \/ \E t \in told : task_resume(t)
    BY <2>1
  <2> HIDE DEF told
  <2>7. CASE UNCHANGED <<state, lists>>
    BY <2>2, <2>4, <2>5, <2>7 DEF TypeOK, ListsMatchStates, QueueTyped
  <2>8. ASSUME NEW t \in told, task_resume(t) PROVE Plain'
    BY <1>3, <2>2, <2>3, <2>4, <2>5, <2>8
  <2> QED BY <2>6, <2>7, <2>8
<1>21. CASE check_tasklets
  <2>1. UNCHANGED <<state, pid, ppid, vforked, waiting_for, lists, cur, pendsv, timers>>
    BY <1>21 DEF check_tasklets
  <2>2. QueueTyped'
    <3>1. CASE StartScan
      BY <1>0, <2>1, <3>1 DEF StartScan, QueueTyped
    <3>2. CASE PassEmpty
      BY <1>0, <2>1, <3>2, MaxTaskletsAssumption DEF PassEmpty, Reach, QueueTyped
    <3>3. CASE StartCheck
      <4>1. /\ tasklet_array' = tasklet_array /\ timers' = timers
            /\ pc' \in {"idle", "scan", "check"} /\ slot' \in 0..MAX_TASKLETS
        BY <1>0, <2>1, <3>3, MaxTaskletsAssumption DEF StartCheck, Reach, QueueTyped
      <4>2. masked' = masked \/ masked' = FALSE
        BY <3>3 DEF StartCheck
      <4>3. masked' \in BOOLEAN
        BY <1>0, <4>2, Zenon DEF QueueTyped
      <4> QED BY <1>0, <4>1, <4>3 DEF QueueTyped
    <3>4. CASE EndCheck
      BY <1>0, <2>1, <3>4, TaskletFacts DEF EndCheck, QueueTyped
    <3>5. CASE EndScan
      <4>1. /\ tasklet_array' = tasklet_array /\ timers' = timers
            /\ pc' \in {"idle", "scan", "check"} /\ slot' \in 0..MAX_TASKLETS
        BY <1>0, <2>1, <3>5, MaxTaskletsAssumption DEF EndScan, QueueTyped
      <4>2. masked' \in BOOLEAN
        BY <3>5, Zenon DEF EndScan
      <4> QED BY <1>0, <4>1, <4>2 DEF QueueTyped
    <3> QED BY <1>21, <3>1, <3>2, <3>3, <3>4, <3>5 DEF check_tasklets
  <2> QED BY <2>1, <2>2 DEF TypeOK, ListsMatchStates, QueueTyped
<1>20. CASE UNCHANGED vars
  BY <1>20 DEF vars, TypeOK, ListsMatchStates
<1> QED BY <1>1, <1>2, <1>4, <1>7, <1>8, <1>9, <1>10, <1>11, <1>12, <1>13, <1>14, <1>15,
           <1>16, <1>17, <1>18, <1>19, <1>20, <1>21 DEF Step

(* Only the kernel's own steps come into a scan that has interrupts off.   *)
LEMMA ScanningStep == Basic /\ [Step]_vars => Scanning'
<1> SUFFICES ASSUME Basic, [Step]_vars PROVE Scanning'
  OBVIOUS
<1> USE DEF Basic, scan, tasklets
<1>1. ASSUME UNCHANGED scan, ~masked PROVE Scanning'
  BY <1>1 DEF Scanning
<1>2. ASSUME UNCHANGED <<scan, cur, pendsv>> PROVE Scanning'
  BY <1>2 DEF Scanning
<1>3. InUser => ~masked
  BY DEF Scanning, InUser
<1>4. CASE pend_sv_handler \/ sys_tick_handler
  BY <1>1, <1>4 DEF pend_sv_handler, sys_tick_handler
<1>5. CASE \E t \in Process : Wakeup(t) \/ task_continue(t) \/ sig_trampoline(t)
  BY <1>2, <1>5 DEF Wakeup, task_continue, sig_trampoline
<1>6. CASE Suspend \/ EventDone \/ sys_vfork_hdlr \/ scheduler_exec
  BY <1>1, <1>3, <1>6 DEF Suspend, EventDone, sys_vfork_hdlr, scheduler_exec, Free
<1>7. CASE \E t \in Process : InUser /\ (task_terminate(t) \/ task_stop(t))
  BY <1>1, <1>3, <1>7 DEF task_terminate, task_stop
<1>8. CASE \/ InUser /\ WaitEnds
           \/ \E t \in IdlingChild : InUser /\ Reap(t)
           \/ \E p \in {ANY} \cup 1..MaxPid : InUser /\ Await(p)
  BY <1>1, <1>3, <1>8 DEF WaitEnds, Reap, Await
<1>9. CASE task_destroy \/ task_deliver_sigchld
  <2>1. UNCHANGED <<pc, masked, timers, cur, pendsv>> /\ pc = "scan"
    BY <1>9 DEF task_destroy, task_deliver_sigchld, RunTasklet, Reach
  <2> QED BY <2>1 DEF Scanning
<1>10. CASE check_tasklets
  <2>1. UNCHANGED <<cur, pendsv, timers>> /\ cur = kernel /\ ~pendsv
    BY <1>10 DEF check_tasklets, KernelRuns
  <2>2. CASE StartScan
    BY <2>1, <2>2 DEF StartScan, Scanning
  <2>3. CASE PassEmpty
    BY <2>1, <2>3 DEF PassEmpty, Reach, Scanning
  <2>4. CASE StartCheck
    <3>1. pc = "scan" /\ pc' = "check" /\ (masked' = masked \/ (timers /\ masked' = FALSE))
      BY <2>4 DEF StartCheck, Reach
    <3> QED BY <2>1, <3>1 DEF Scanning
  <2>5. CASE EndCheck
    BY <2>1, <2>5 DEF EndCheck, Scanning
  <2>6. CASE EndScan
    BY <2>1, <2>6 DEF EndScan, Scanning
  <2> QED BY <1>10, <2>2, <2>3, <2>4, <2>5, <2>6 DEF check_tasklets
<1>11. CASE UNCHANGED vars
  BY <1>2, <1>11 DEF vars
<1> QED BY <1>4, <1>5, <1>6, <1>7, <1>8, <1>9, <1>10, <1>11 DEF Step

(* Every step keeps the types, the lists and the scan in order. *)
LEMMA BasicStep == Basic /\ [Step]_vars => Basic'
BY PlainStep, ScanningStep DEF Basic

(* The types of the variables, in every reachable state. *)
THEOREM TypeCorrect == Spec => []TypeOK
<1>1. Basic /\ [Next]_vars => Basic'
  BY BasicStep, NextIsStep
<1>2. Basic => TypeOK
  BY DEF Basic, Plain
<1> QED BY BasicInit, <1>1, <1>2, PTL DEF Spec

(* A task is in the list its state says, and the CPU with a running one. *)
THEOREM ListsCorrect == Spec => []ListsMatchStates
<1>1. Basic /\ [Next]_vars => Basic'
  BY BasicStep, NextIsStep
<1>2. Basic => ListsMatchStates
  BY DEF Basic, Plain
<1> QED BY BasicInit, <1>1, <1>2, PTL DEF Spec
-----------------------------------------------------------------------------
(* The processes that exist have pids of their own and a parent's; init    *)
(* stays, as it has no parent that could reap it.                          *)
Family ==
  /\ \A t \in Process : state[t] # "FREE" => pid[t] # 0
  /\ \A t, u \in Process :
       state[t] # "FREE" /\ state[u] # "FREE" /\ pid[t] = pid[u] => t = u
  /\ pid[init] = 1 /\ ppid[init] = 0 /\ state[init] \notin {"FREE", "OVER"}
  /\ \A t \in Process \ {init} : state[t] # "FREE" => ppid[t] # 0

(* A task is OVER just when its destruction is left in a slot, and it is   *)
(* left in one only; a check of the timers that runs is still in its slot. *)
Queue ==
  /\ \A t \in Process, s \in Slot : tasklet_array[s] = Destroy(t) => state[t] = "OVER"
  /\ \A t \in Process : state[t] = "OVER" => \E s \in Slot : tasklet_array[s] = Destroy(t)
  /\ \A t \in Process, r, s \in Slot :
       tasklet_array[r] = Destroy(t) /\ tasklet_array[s] = Destroy(t) => r = s
  /\ pc = "check" => slot \in Slot /\ tasklet_array[slot] = Check

(* Without timers the scan leaves no tasklet behind it, and those ahead of *)
(* it have no gaps: they lie in the order in which they were added.  So no *)
(* SIGCHLD lies behind the destruction of its task, or names a freed one.  *)
InOrder ==
  /\ \A r \in Slot : r <= slot => tasklet_array[r] = None \/ (pc = "check" /\ r = slot)
  /\ \A r, s \in Slot : slot < r /\ r < s /\ tasklet_array[r] = None => tasklet_array[s] = None
  /\ \A t \in Process, s \in Slot : tasklet_array[s] = Sigchld(t) => state[t] # "FREE"
  /\ \A t \in Process, r, s \in Slot :
       tasklet_array[r] = Sigchld(t) /\ tasklet_array[s] = Destroy(t) => r < s

(* A vfork child that is not dead has a parent in FORKED to itself. *)
Vfork ==
  /\ \A c \in vforked : state[c] \notin Dead =>
       \E p \in Process : pid[p] = ppid[c] /\ state[p] = "FORKED"
  /\ \A c, d \in vforked :
       state[c] \notin Dead /\ state[d] \notin Dead /\ ppid[c] = ppid[d] => c = d

Inv == Family /\ Queue /\ (~timers => InOrder) /\ Vfork /\ NoLostExit

(* A task whose state is one of these has not exited and is not in vfork. *)
L == {"RUNNABLE", "RUNNING", "WAITING", "STOPPED"}

(* A step that only moves tasks between the states of L. *)
Soft == \A t \in Process : state'[t] = state[t] \/ (state[t] \in L /\ state'[t] \in L)

(* Nobody starts to wait for a child. *)
NoNewWait ==
  \A t \in Process : state'[t] = "WAITING" =>
    \/ waiting_for'[t] \in {EVENT, NOTHING}
    \/ state[t] = "WAITING" /\ waiting_for'[t] = waiting_for[t]

(* The initial state has the invariant. *)
LEMMA InvInit == Init => Inv
<1> SUFFICES ASSUME Init PROVE Inv
  OBVIOUS
<1>1. \A t \in Process : state[t] = IF t = init THEN "RUNNABLE" ELSE "FREE"
  BY KernelAssumption, ProcessAssumption DEF Init, Task
<1>2. pid[init] = 1 /\ ppid[init] = 0
  BY KernelAssumption, ProcessAssumption DEF Init, Task
<1>3. vforked = {} /\ \A s \in Slot : tasklet_array[s] = None
  BY DEF Init
<1>7. pc = "idle" /\ slot = 0 /\ \A s \in Slot : ~(s <= slot)
  BY MaxTaskletsAssumption DEF Init, Slot
<1>4. Family
  BY <1>1, <1>2, KernelAssumption, ProcessAssumption DEF Family
<1>5. Queue
  BY <1>1, <1>3, <1>7, TaskletFacts DEF Queue
<1>6. Vfork /\ NoLostExit
  BY <1>1, <1>3 DEF Vfork, NoLostExit
<1>8. InOrder
  BY <1>3, <1>7, TaskletFacts DEF InOrder
<1> QED BY <1>4, <1>5, <1>6, <1>8 DEF Inv

(* A step that leaves the tasklets alone, and frees, reaps and makes no    *)
(* task.                                                                   *)
LEMMA QueueKept ==
  ASSUME Queue, ~timers => InOrder, UNCHANGED tasklets,
         \A t \in Process : state'[t] = "OVER" <=> state[t] = "OVER",
         \A t \in Process : state[t] # "FREE" => state'[t] # "FREE"
  PROVE  Queue' /\ (~timers => InOrder)'
<1>1. UNCHANGED <<tasklet_array, pc, slot, timers>>
  BY DEF tasklets, scan
<1> QED BY <1>1 DEF Queue, InOrder

(* A tasklet is added while the scan can be interrupted, so that without   *)
(* timers there is no scan: it comes to lie behind all others.             *)
LEMMA QueueAdded ==
  ASSUME TypeOK, Scanning, Queue, ~timers => InOrder, ~masked,
         NEW e \in Tasklet, e # None, tasklet_add(e), UNCHANGED scan,
         \A t \in Process : /\ e = Destroy(t) => state[t] # "OVER" /\ state'[t] = "OVER"
                            /\ e = Sigchld(t) => state[t] \notin {"FREE", "OVER"}
                            /\ state'[t] = "OVER" => state[t] = "OVER" \/ e = Destroy(t)
                            /\ state[t] = "OVER" => state'[t] = "OVER"
                            /\ state[t] # "FREE" => state'[t] # "FREE"
  PROVE  /\ Queue' /\ (~timers => InOrder)'
         /\ \A x \in Tasklet \ {None} :
              (\E s \in Slot : tasklet_array[s] = x) => \E s \in Slot : tasklet_array'[s] = x
         /\ \E s \in Slot : tasklet_array'[s] = e
<1>1. PICK f \in Slot :
        /\ tasklet_array[f] = None
        /\ \A r \in Slot : r < f => tasklet_array[r] # None
        /\ \A s \in Slot : tasklet_array'[s] = IF s = f THEN e ELSE tasklet_array[s]
  BY AddFacts DEF TypeOK
<1>2. UNCHANGED <<pc, slot, timers>>
  BY DEF scan
<1>3. \A t \in Process : Destroy(t) # None /\ Sigchld(t) # None
  BY TaskletFacts
<1>4. Queue'
  <2>1. \A t \in Process, s \in Slot : tasklet_array'[s] = Destroy(t) => state'[t] = "OVER"
    BY <1>1 DEF Queue
  <2>2. \A t \in Process : state'[t] = "OVER" => \E s \in Slot : tasklet_array'[s] = Destroy(t)
    <3> SUFFICES ASSUME NEW t \in Process, state'[t] = "OVER"
                 PROVE  \E s \in Slot : tasklet_array'[s] = Destroy(t)
      OBVIOUS
    <3>1. CASE e = Destroy(t)
      BY <1>1, <3>1
    <3>2. CASE state[t] = "OVER"
      <4>1. PICK s \in Slot : tasklet_array[s] = Destroy(t)
        BY <3>2 DEF Queue
      <4> QED BY <1>1, <1>3, <4>1
    <3> QED BY <3>1, <3>2
  <2>3. \A t \in Process, r, s \in Slot :
          tasklet_array'[r] = Destroy(t) /\ tasklet_array'[s] = Destroy(t) => r = s
    BY <1>1 DEF Queue
  <2>4. pc = "check" => slot \in Slot /\ tasklet_array'[slot] = Check
    BY <1>1, TaskletFacts DEF Queue
  <2> QED BY <1>2, <2>1, <2>2, <2>3, <2>4 DEF Queue
<1>5. ASSUME ~timers PROVE InOrder'
  <2>1. pc = "idle" /\ slot = 0 /\ InOrder
    BY <1>5 DEF Scanning
  <2>2. \A r \in Slot : ~(r <= slot) /\ slot < r /\ r \in Nat
    BY <2>1, MaxTaskletsAssumption DEF Slot
  <2>3. \A r \in Slot : r > f => tasklet_array[r] = None
    BY <1>1, <2>1, <2>2 DEF InOrder
  <2>4. \A r \in Slot : tasklet_array[r] # None => r < f
    BY <1>1, <2>2, <2>3
  <2>5. \A r, s \in Slot :
          slot < r /\ r < s /\ tasklet_array'[r] = None => tasklet_array'[s] = None
    BY <1>1, <2>2, <2>3
  <2>6. \A t \in Process, s \in Slot : tasklet_array'[s] = Sigchld(t) => state'[t] # "FREE"
    BY <1>1, <2>1 DEF InOrder
  <2>7. \A t \in Process, r, s \in Slot :
          tasklet_array'[r] = Sigchld(t) /\ tasklet_array'[s] = Destroy(t) => r < s
    <3> SUFFICES ASSUME NEW t \in Process, NEW r \in Slot, NEW s \in Slot,
                        tasklet_array'[r] = Sigchld(t), tasklet_array'[s] = Destroy(t)
                 PROVE  r < s
      OBVIOUS
    <3>1. Sigchld(t) # Destroy(t)
      BY TaskletFacts
    <3>2. CASE s = f
      BY <1>1, <1>3, <2>4, <3>1, <3>2
    <3>3. CASE s # f /\ r = f
      <4>1. tasklet_array[s] = Destroy(t) /\ e = Sigchld(t)
        BY <1>1, <3>3
      <4> QED BY <4>1 DEF Queue
    <3>4. CASE s # f /\ r # f
      BY <1>1, <2>1, <3>4 DEF InOrder
    <3> QED BY <3>2, <3>3, <3>4
  <2> QED BY <1>2, <2>2, <2>5, <2>6, <2>7 DEF InOrder
<1>6. \A x \in Tasklet \ {None} :
        (\E s \in Slot : tasklet_array[s] = x) => \E s \in Slot : tasklet_array'[s] = x
  BY <1>1
<1>7. \E s \in Slot : tasklet_array'[s] = e
  BY <1>1
<1> QED BY <1>2, <1>4, <1>5, <1>6, <1>7

(* The tasklet of the next slot is run: it is the only one of its task if  *)
(* it destroys it, and without timers the first of all.                    *)
LEMMA QueueRun ==
  ASSUME TypeOK, Queue, ~timers => InOrder, NEW exe, RunTasklet(exe),
         \A t \in Process :
           /\ state'[t] = "OVER" <=> state[t] = "OVER" /\ tasklet_array[slot + 1] # Destroy(t)
           /\ state[t] # "FREE" => state'[t] # "FREE" \/ tasklet_array[slot + 1] = Destroy(t)
  PROVE  Queue' /\ (~timers => InOrder)'
<1>1. /\ slot + 1 \in Slot /\ tasklet_array[slot + 1] \in Tasklet
      /\ \A s \in Slot : tasklet_array'[s] = IF s = slot + 1 THEN None ELSE tasklet_array[s]
  BY RunFacts DEF QueueTyped, TypeOK
<1>2. slot' = slot + 1 /\ pc = "scan" /\ pc' = "scan" /\ UNCHANGED timers
  BY DEF RunTasklet, Reach
<1>3. \A t \in Process : Destroy(t) # None /\ Sigchld(t) # None
  BY TaskletFacts
<1>4. Queue'
  <2>1. \A t \in Process, s \in Slot : tasklet_array'[s] = Destroy(t) => state'[t] = "OVER"
    BY <1>1, <1>3 DEF Queue
  <2>2. \A t \in Process : state'[t] = "OVER" => \E s \in Slot : tasklet_array'[s] = Destroy(t)
    BY <1>1 DEF Queue
  <2>3. \A t \in Process, r, s \in Slot :
          tasklet_array'[r] = Destroy(t) /\ tasklet_array'[s] = Destroy(t) => r = s
    BY <1>1, <1>3 DEF Queue
  <2> QED BY <1>2, <2>1, <2>2, <2>3 DEF Queue
<1>5. ASSUME ~timers PROVE InOrder'
  <2>1. slot \in Int /\ \A r \in Slot : r \in Int
    BY DEF TypeOK, Slot
  <2>2. \A r \in Slot : r <= slot + 1 => tasklet_array'[r] = None
    BY <1>1, <1>2, <1>5, <2>1 DEF InOrder
  <2>3. \A r, s \in Slot :
          slot + 1 < r /\ r < s /\ tasklet_array'[r] = None => tasklet_array'[s] = None
    BY <1>1, <1>5, <2>1 DEF InOrder
  <2>4. \A t \in Process, s \in Slot : tasklet_array'[s] = Sigchld(t) => state'[t] # "FREE"
    <3> SUFFICES ASSUME NEW t \in Process, NEW s \in Slot, tasklet_array'[s] = Sigchld(t)
                 PROVE  state'[t] # "FREE"
      OBVIOUS
    <3>1. tasklet_array[s] = Sigchld(t) /\ s > slot + 1
      BY <1>1, <1>3, <2>1, <2>2
    <3>2. tasklet_array[slot + 1] # Destroy(t)
      BY <1>1, <1>5, <2>1, <3>1 DEF InOrder
    <3> QED BY <1>5, <3>1, <3>2 DEF InOrder
  <2>5. \A t \in Process, r, s \in Slot :
          tasklet_array'[r] = Sigchld(t) /\ tasklet_array'[s] = Destroy(t) => r < s
    BY <1>1, <1>3, <1>5 DEF InOrder
  <2> QED BY <1>2, <2>2, <2>3, <2>4, <2>5 DEF InOrder
<1> QED BY <1>2, <1>4, <1>5

(* The steps between the tasklets: what they clear names no task.          *)
LEMMA CheckStep ==
  ASSUME Basic, Inv, check_tasklets
  PROVE  Inv'
<1> USE DEF Basic, Plain
<1>1. UNCHANGED <<state, pid, ppid, vforked, waiting_for, timers>>
  BY DEF check_tasklets
<1>2. slot \in Int /\ \A r \in Slot : r \in Int
  BY DEF TypeOK, Slot
<1>3. \A t \in Process : Destroy(t) \notin {None, Check} /\ Sigchld(t) \notin {None, Check}
  BY TaskletFacts
<1>4. Queue /\ (~timers => InOrder)
  BY DEF Inv
<1>5. ASSUME \A t \in Process, s \in Slot :
               /\ tasklet_array'[s] = Destroy(t) <=> tasklet_array[s] = Destroy(t)
               /\ tasklet_array'[s] = Sigchld(t) <=> tasklet_array[s] = Sigchld(t),
             pc' = "check" => slot' \in Slot /\ tasklet_array'[slot'] = Check,
             ~timers => InOrder'
      PROVE  Inv'
  <2>1. Family' /\ Vfork'
    BY <1>1 DEF Inv, Family, Vfork
  <2>2. Queue'
    BY <1>1, <1>4, <1>5 DEF Queue
  <2>3. NoLostExit'
    BY <1>1, <1>5 DEF Inv, NoLostExit
  <2> QED BY <1>1, <1>5, <2>1, <2>2, <2>3 DEF Inv
<1>6. CASE StartScan
  <2>1. pc = "idle" /\ pc' = "scan" /\ UNCHANGED <<slot, tasklet_array>>
    BY <1>6 DEF StartScan
  <2>2. ~timers => InOrder'
    BY <1>1, <1>4, <2>1 DEF InOrder
  <2> QED BY <1>5, <2>1, <2>2
<1>7. CASE PassEmpty \/ StartCheck
  <2>1. /\ pc = "scan" /\ slot + 1 \in Slot /\ slot' = slot + 1 /\ UNCHANGED tasklet_array
        /\ \/ tasklet_array[slot + 1] = None /\ pc' = "scan"
           \/ tasklet_array[slot + 1] = Check /\ pc' = "check"
    BY <1>7, TaskletFacts, MaxTaskletsAssumption
    DEF PassEmpty, StartCheck, Reach, TypeOK, Slot
  <2>2. ASSUME ~timers PROVE InOrder'
    <3>1. \A r \in Slot : r <= slot + 1 =>
            tasklet_array[r] = None \/ (pc' = "check" /\ r = slot + 1)
      BY <1>2, <1>4, <2>1, <2>2 DEF InOrder
    <3>2. \A r, s \in Slot :
            slot + 1 < r /\ r < s /\ tasklet_array[r] = None => tasklet_array[s] = None
      BY <1>2, <1>4, <2>2 DEF InOrder
    <3> QED BY <1>1, <1>4, <2>1, <2>2, <3>1, <3>2 DEF InOrder
  <2> QED BY <1>5, <2>1, <2>2
<1>8. CASE EndCheck
  <2>1. pc = "check" /\ slot \in Slot /\ tasklet_array[slot] = Check
    BY <1>4, <1>8 DEF EndCheck, Queue
  <2>2. /\ pc' = "scan" /\ slot' = slot
        /\ \A s \in Slot : tasklet_array'[s] = IF s = slot THEN None ELSE tasklet_array[s]
    BY <1>8, <2>1 DEF EndCheck, TypeOK
  <2>3. \A t \in Process, s \in Slot :
          /\ tasklet_array'[s] = Destroy(t) <=> tasklet_array[s] = Destroy(t)
          /\ tasklet_array'[s] = Sigchld(t) <=> tasklet_array[s] = Sigchld(t)
    BY <1>3, <2>1, <2>2
  <2>4. ASSUME ~timers PROVE InOrder'
    <3>1. \A r \in Slot : r <= slot => tasklet_array'[r] = None
      BY <1>2, <1>4, <2>2, <2>4 DEF InOrder
    <3>2. \A r, s \in Slot :
            slot < r /\ r < s /\ tasklet_array'[r] = None => tasklet_array'[s] = None
      BY <1>2, <1>4, <2>2, <2>4 DEF InOrder
    <3> QED BY <1>1, <1>4, <2>2, <2>3, <2>4, <3>1, <3>2 DEF InOrder
  <2> QED BY <1>5, <2>2, <2>3, <2>4
<1>9. CASE EndScan
  <2>1. pc = "scan" /\ slot = MAX_TASKLETS /\ slot' = 0 /\ pc' = "idle" /\ UNCHANGED tasklet_array
    BY <1>9 DEF EndScan
  <2>2. ASSUME ~timers PROVE InOrder'
    <3>1. \A r \in Slot : tasklet_array[r] = None /\ ~(r <= 0)
      BY <1>4, <2>1, <2>2, MaxTaskletsAssumption DEF InOrder, Slot
    <3> QED BY <1>1, <1>3, <2>1, <3>1 DEF InOrder
  <2> QED BY <1>5, <2>1, <2>2
<1> QED BY <1>6, <1>7, <1>8, <1>9 DEF check_tasklets

(* Steps that move tasks among the states of L, with no new waits for      *)
(* children, keep the invariant.                                           *)
LEMMA SoftKeeps ==
  ASSUME Basic, Inv, Soft, NoNewWait, UNCHANGED <<pid, ppid, vforked, tasklets>>
  PROVE  Inv'
<1>1. \A t \in Process : /\ state'[t] = "FREE" <=> state[t] = "FREE"
                         /\ state'[t] = "OVER" <=> state[t] = "OVER"
                         /\ state'[t] = "ZOMBIE" <=> state[t] = "ZOMBIE"
                         /\ state'[t] = "FORKED" <=> state[t] = "FORKED"
  BY DEF Soft, L
<1>2. Family'
  BY <1>1, KernelAssumption, ProcessAssumption DEF Inv, Family
<1>3. Queue /\ (~timers => InOrder)
  BY DEF Inv
<1>4. Queue' /\ (~timers => InOrder)'
  BY <1>1, <1>3, QueueKept
<1>5. Vfork'
  BY <1>1 DEF Inv, Vfork, Dead, Basic, Plain, TypeOK
<1>6. NoLostExit'
  <2>1. \A t \in Process : pid[t] \in Pid
    BY DEF Basic, Plain, TypeOK, Task
  <2>2. \A t \in Process : {EVENT, NOTHING} \cap {ANY, pid[t]} = {}
    BY <2>1, MaxPidAssumption DEF EVENT, NOTHING, ANY, Pid
  <2>3. NoLostExit
    BY DEF Inv
  <2> SUFFICES ASSUME NEW p \in Process, NEW c \in Process,
                      state'[p] = "WAITING", state'[c] = "ZOMBIE", ppid[c] = pid[p],
                      waiting_for'[p] \in {ANY, pid[c]}
               PROVE  \E s \in Slot : tasklet_array[s] = Sigchld(p)
    BY DEF NoLostExit, tasklets
  <2>4. state[c] = "ZOMBIE" /\ state[p] = "WAITING" /\ waiting_for'[p] = waiting_for[p]
    BY <1>1, <2>2, Zenon DEF NoNewWait
  <2> QED BY <2>3, <2>4 DEF NoLostExit
<1> QED BY <1>2, <1>4, <1>5, <1>6 DEF Inv

(* The steps that keep the invariant because they only suspend, resume,    *)
(* stop, continue or switch tasks.                                         *)
LEMMA SoftSteps ==
  ASSUME Basic, Inv,
         \/ pend_sv_handler
         \/ \E t \in Process : Wakeup(t) \/ task_continue(t)
         \/ \E t \in Process : Live(t) /\ (task_stop(t) \/ sig_trampoline(t))
         \/ Suspend \/ EventDone
         \/ InUser /\ WaitEnds
         \/ UNCHANGED vars
  PROVE  Inv'
<1> USE DEF Basic, Plain, lists, tasklets, scan, L
<1>1. ASSUME UNCHANGED <<pid, ppid, vforked, tasklets>>, Soft, NoNewWait PROVE Inv'
  BY <1>1, SoftKeeps
<1>2. CASE pend_sv_handler
  <2>1. \A t \in Process : state'[t] = state[t] \/ (state[t] \in Ready /\ state'[t] \in Ready)
    BY <1>2 DEF pend_sv_handler, ListsMatchStates, TypeOK, Ready, Task
  <2> QED BY <1>1, <1>2, <2>1 DEF pend_sv_handler, Soft, NoNewWait, Ready
<1>3. CASE UNCHANGED vars
  BY <1>1, <1>3 DEF vars, Soft, NoNewWait
<1>4. ASSUME NEW t \in Process, task_resume(t) \/ task_continue(t),
             UNCHANGED <<pid, ppid, vforked, tasklets>>,
             \A u \in Process : waiting_for'[u] \in {waiting_for[u], NOTHING}
      PROVE  Inv'
  <2>1. \A u \in Process : state'[u] = IF u = t THEN "RUNNABLE" ELSE state[u]
    BY <1>4 DEF task_resume, task_continue, TypeOK, Task
  <2>2. Soft /\ NoNewWait
    BY <1>4, <2>1 DEF Soft, NoNewWait, task_resume, task_continue
  <2> QED BY <1>1, <1>4, <2>2
<1>5. ASSUME NEW t \in Process, Wakeup(t) \/ task_continue(t) PROVE Inv'
  BY <1>4, <1>5 DEF Wakeup, task_continue
<1>6. ASSUME NEW t \in Process, Live(t), task_stop(t) PROVE Inv'
  <2>1. /\ state[t] \in Ready \cup Suspended /\ "STOPPED" \in Suspended
        /\ running_to_idling(t) /\ Return([state EXCEPT ![t] = "STOPPED"])
    BY <1>6 DEF Live, task_stop, Ready, Suspended
  <2>2. /\ state'[t] = "STOPPED"
        /\ \A u \in Task \ {t} : state[u] \notin Ready => state'[u] = state[u]
        /\ \A u \in Task \ {t} : state[u] \in Ready => state'[u] \in Ready
    BY <2>1, SuspendFacts
  <2>3. Soft /\ NoNewWait
    BY <1>6, <2>2 DEF Soft, NoNewWait, task_stop, Live, Ready, Task
  <2> QED BY <1>1, <1>6, <2>3 DEF task_stop
<1>7. ASSUME NEW t \in Process, sig_trampoline(t) PROVE Inv'
  <2>1. \A u \in Process : waiting_for'[u] \in {waiting_for[u], NOTHING}
    BY <1>7 DEF sig_trampoline, TypeOK
  <2>2. CASE state[t] = "WAITING"
    BY <1>4, <1>7, <2>1, <2>2 DEF sig_trampoline
  <2>3. CASE state[t] # "WAITING"
    BY <1>1, <1>7, <2>1, <2>3 DEF sig_trampoline, Soft, NoNewWait
  <2> QED BY <2>2, <2>3
<1>8. CASE Suspend
  <2>1. /\ cur \in Process /\ state[cur] \in Ready /\ "WAITING" \in Suspended
        /\ running_to_idling(cur) /\ Return([state EXCEPT ![cur] = "WAITING"])
    BY <1>8 DEF Suspend, task_suspend_to, InUser, ListsMatchStates, TypeOK, Task, Suspended
  <2>2. /\ state'[cur] = "WAITING"
        /\ \A u \in Task \ {cur} : state[u] \notin Ready => state'[u] = state[u]
        /\ \A u \in Task \ {cur} : state[u] \in Ready => state'[u] \in Ready
    BY <2>1, SuspendFacts
  <2>3. \A u \in Process : waiting_for'[u] = IF u = cur THEN EVENT ELSE waiting_for[u]
    BY <1>8 DEF Suspend, TypeOK
  <2>4. Soft /\ NoNewWait
    BY <2>1, <2>2, <2>3 DEF Soft, NoNewWait, Ready, Task
  <2> QED BY <1>1, <1>8, <2>4 DEF Suspend
<1>9. CASE EventDone \/ (InUser /\ WaitEnds)
  <2>1. \A u \in Process : waiting_for'[u] \in {waiting_for[u], NOTHING}
    BY <1>9 DEF EventDone, WaitEnds, TypeOK
  <2> QED BY <1>1, <1>9, <2>1 DEF EventDone, WaitEnds, Soft, NoNewWait
<1> QED BY <1>2, <1>3, <1>5, <1>6, <1>7, <1>8, <1>9

(* A tick may add the check of the timers, which names no task.            *)
LEMMA TickStep ==
  ASSUME Basic, Inv, sys_tick_handler
  PROVE  Inv'
<1> USE DEF Basic, Plain
<1>1. ~masked /\ UNCHANGED <<state, pid, ppid, vforked, waiting_for, scan>>
  BY DEF sys_tick_handler
<1>2. Queue /\ (~timers => InOrder)
  BY DEF Inv
<1>3. /\ Queue' /\ (~timers => InOrder)'
      /\ \A t \in Process :
           (\E s \in Slot : tasklet_array[s] = Sigchld(t)) => \E s \in Slot : tasklet_array'[s] = Sigchld(t)
  <2>1. CASE UNCHANGED tasklet_array
    BY <1>1, <1>2, <2>1, QueueKept DEF tasklets
  <2>2. CASE tasklet_add(Check)
    <3>1. /\ Check \in Tasklet /\ Check # None
          /\ \A t \in Process : Check # Destroy(t) /\ Check # Sigchld(t) /\ Sigchld(t) \in Tasklet \ {None}
      BY TaskletFacts
    <3>2. /\ Queue' /\ (~timers => InOrder)'
          /\ \A x \in Tasklet \ {None} :
               (\E s \in Slot : tasklet_array[s] = x) => \E s \in Slot : tasklet_array'[s] = x
      BY <1>1, <1>2, <2>2, <3>1, QueueAdded
    <3> QED BY <3>1, <3>2
  <2> QED BY <2>1, <2>2 DEF sys_tick_handler
<1>4. Family' /\ Vfork'
  BY <1>1 DEF Inv, Family, Vfork
<1>5. NoLostExit'
  BY <1>1, <1>3 DEF Inv, NoLostExit
<1> QED BY <1>1, <1>3, <1>4, <1>5 DEF Inv

(* A call of waitpid that suspends its caller finds no dead child, so it   *)
(* keeps the invariant.                                                    *)
LEMMA AwaitStep ==
  ASSUME Basic, Inv, InUser, NEW p \in {ANY} \cup 1..MaxPid, Await(p),
         \A c \in Process : state[c] = "ZOMBIE" /\ ppid[c] = pid[cur] /\ p \in {ANY, pid[c]}
            => \E t \in Task \ {c} : state[t] # "FREE" /\ pid[t] = pid[c]
  PROVE  Inv'
<1> USE DEF Basic, Plain
<1>1. /\ cur \in Process /\ state[cur] \in Ready /\ "WAITING" \in Suspended
      /\ running_to_idling(cur) /\ Return([state EXCEPT ![cur] = "WAITING"])
  BY DEF Await, task_suspend_to, InUser, ListsMatchStates, TypeOK, Task, Suspended
<1>2. /\ state'[cur] = "WAITING"
      /\ \A u \in Task \ {cur} : state[u] \notin Ready => state'[u] = state[u]
      /\ \A u \in Task \ {cur} : state[u] \in Ready => state'[u] \in Ready
  BY <1>1, SuspendFacts
<1>3. Soft
  BY <1>1, <1>2 DEF Soft, L, Ready, Task
<1>4. UNCHANGED <<pid, ppid, vforked, tasklets>>
  BY DEF Await
<1>5. \A t \in Process : /\ state'[t] = "FREE" <=> state[t] = "FREE"
                         /\ state'[t] = "OVER" <=> state[t] = "OVER"
                         /\ state'[t] = "ZOMBIE" <=> state[t] = "ZOMBIE"
                         /\ state'[t] = "FORKED" <=> state[t] = "FORKED"
  BY <1>3 DEF Soft, L
<1>6. Family'
  BY <1>4, <1>5, KernelAssumption, ProcessAssumption DEF Inv, Family
<1>7. Queue' /\ (~timers => InOrder)'
  <2>1. Queue /\ (~timers => InOrder)
    BY DEF Inv
  <2> QED BY <1>4, <1>5, <2>1, QueueKept
<1>8. Vfork'
  BY <1>4, <1>5 DEF Inv, Vfork, Dead, TypeOK
<1>9. \A c \in Process :
        ~(state[c] = "ZOMBIE" /\ ppid[c] = pid[cur] /\ p \in {ANY, pid[c]})
  <2> SUFFICES ASSUME NEW c \in Process, state[c] = "ZOMBIE", ppid[c] = pid[cur],
                      p \in {ANY, pid[c]}
               PROVE  FALSE
    OBVIOUS
  <2>1. PICK t \in Task \ {c} : state[t] # "FREE" /\ pid[t] = pid[c]
    OBVIOUS
  <2>2. pid[c] # 0
    BY DEF Inv, Family
  <2> QED BY <2>1, <2>2 DEF Task, Inv, Family
<1>10. \A u \in Process : waiting_for'[u] = IF u = cur THEN p ELSE waiting_for[u]
  BY DEF Await, TypeOK
<1>11. NoLostExit'
  <2> SUFFICES ASSUME NEW u \in Process, NEW c \in Process,
                      state'[u] = "WAITING", state'[c] = "ZOMBIE", ppid'[c] = pid'[u],
                      waiting_for'[u] \in {ANY, pid'[c]}
               PROVE  \E s \in Slot : tasklet_array'[s] = Sigchld(u)
    BY DEF NoLostExit
  <2>1. u # cur
    BY <1>4, <1>5, <1>9, <1>10
  <2>2. state[u] = "WAITING"
    BY <1>2, <2>1 DEF Task, Ready
  <2> QED BY <1>4, <1>5, <1>10, <2>1, <2>2 DEF Inv, NoLostExit, tasklets
<1> QED BY <1>6, <1>7, <1>8, <1>11 DEF Inv

(* The tasks with a given pid. *)
LEMMA LookupFacts ==
  ASSUME Basic, Inv, NEW p \in Pid
  PROVE  /\ Lookup(p) = {t \in Task : state[t] # "FREE" /\ pid[t] = p}
         /\ p # 0 => Lookup(p) \subseteq Process /\ \A t, u \in Lookup(p) : t = u
<1>1. Lookup(p) = {t \in Task : state[t] # "FREE" /\ pid[t] = p}
  BY DEF Basic, Plain, Lookup, ListsMatchStates, TypeOK, Ready, Suspended
<1>2. p # 0 => Lookup(p) \subseteq Process
  BY <1>1 DEF Basic, Plain, Task
<1> QED BY <1>1, <1>2 DEF Inv, Family

(* vfork keeps the invariant. *)
LEMMA VforkStep == Basic /\ Inv /\ sys_vfork_hdlr => Inv'
<1> SUFFICES ASSUME Basic, Inv, sys_vfork_hdlr PROVE Inv'
  OBVIOUS
<1> USE DEF Basic, Plain
<1>1. PICK new \in Process, p \in Unused :
        /\ state[new] = "FREE"
        /\ pid' = [pid EXCEPT ![new] = p]
        /\ ppid' = [ppid EXCEPT ![new] = pid[cur]]
        /\ vforked' = vforked \cup {new}
        /\ waiting_for' = [waiting_for EXCEPT ![new] = NOTHING]
        /\ Return([state EXCEPT ![new] = "RUNNABLE", ![cur] = "FORKED"])
        /\ tasks_running' = (tasks_running \ {cur}) \cup {new}
  BY DEF sys_vfork_hdlr
<1>2. cur \in Process /\ state[cur] \in Ready /\ new # cur
  BY <1>1 DEF sys_vfork_hdlr, Free, InUser, TypeOK, ListsMatchStates, Task, Ready
<1>3. p \in Pid /\ p > 1 /\ Lookup(p) = {}
  BY MaxPidAssumption DEF Unused, Pid
<1>4. new # init
  BY <1>1 DEF Inv, Family
<1> DEFINE st == [state EXCEPT ![new] = "RUNNABLE", ![cur] = "FORKED"]
<1>5. \A t \in Task : st[t] = IF t = cur THEN "FORKED" ELSE IF t = new THEN "RUNNABLE" ELSE state[t]
  BY <1>2 DEF TypeOK, Task
<1>6. Return(st)
  BY <1>1
<1> HIDE DEF st
<1>7. \A t \in tasks_running' : st[t] \in Ready
  BY <1>1, <1>2, <1>5 DEF ListsMatchStates, Ready, Task
<1>8. \A t \in Task : state'[t] = st[t] \/ (st[t] \in Ready /\ state'[t] \in Ready)
  <2>1. CASE state' = st
    BY <2>1
  <2>2. ASSUME NEW n \in tasks_running', state' = [st EXCEPT ![n] = "RUNNING"]
        PROVE  \A t \in Task : state'[t] = st[t] \/ (st[t] \in Ready /\ state'[t] \in Ready)
    BY <1>7, <2>2 DEF Ready, st, TypeOK
  <2> QED BY <1>6, <2>1, <2>2 DEF Return
<1>9. /\ state'[cur] = "FORKED" /\ state'[new] \in Ready
      /\ \A t \in Process \ {cur, new} :
           state'[t] = state[t] \/ (state[t] \in Ready /\ state'[t] \in Ready)
  BY <1>2, <1>5, <1>8 DEF Ready, Task
<1>10. \A t \in Process : pid'[t] = (IF t = new THEN p ELSE pid[t])
                       /\ ppid'[t] = (IF t = new THEN pid[cur] ELSE ppid[t])
                       /\ waiting_for'[t] = (IF t = new THEN NOTHING ELSE waiting_for[t])
  BY <1>1 DEF TypeOK, Task
<1>11. \A t \in Process : state[t] # "FREE" => pid[t] # p
  BY <1>3, LookupFacts DEF Task
<1>12. pid[cur] # 0
  BY <1>2 DEF Inv, Family, Ready
<1>13. Family'
  BY <1>2, <1>3, <1>4, <1>9, <1>10, <1>11, <1>12, KernelAssumption, ProcessAssumption DEF Inv, Family, Ready
<1>14. UNCHANGED tasklets
  BY DEF sys_vfork_hdlr
<1>15. \A t \in Process : /\ state[t] # "FREE" => state'[t] # "FREE"
                          /\ state'[t] = "OVER" <=> state[t] = "OVER"
                          /\ state'[t] = "ZOMBIE" <=> state[t] = "ZOMBIE"
  BY <1>1, <1>2, <1>9 DEF Ready
<1>16. Queue' /\ (~timers => InOrder)'
  <2>1. Queue /\ (~timers => InOrder)
    BY DEF Inv
  <2> QED BY <1>14, <1>15, <2>1, QueueKept
<1>17. \A c \in vforked \ {new} : state'[c] \notin Dead =>
         /\ ppid[c] # pid[cur]
         /\ \E q \in Process \ {cur, new} : pid[q] = ppid[c] /\ state[q] = "FORKED"
  <2> SUFFICES ASSUME NEW c \in vforked \ {new}, state'[c] \notin Dead
               PROVE  /\ ppid[c] # pid[cur]
                      /\ \E q \in Process \ {cur, new} : pid[q] = ppid[c] /\ state[q] = "FORKED"
    OBVIOUS
  <2>1. c \in Process /\ state[c] \notin Dead
    BY <1>15 DEF Dead, TypeOK
  <2>2. PICK q \in Process : pid[q] = ppid[c] /\ state[q] = "FORKED"
    BY <2>1 DEF Inv, Vfork
  <2>3. q # cur /\ q # new
    BY <1>1, <1>2, <2>2 DEF Ready
  <2>4. pid[q] # pid[cur]
    BY <1>2, <2>2, <2>3 DEF Inv, Family, Ready
  <2> QED BY <2>2, <2>3, <2>4
<1>18. Vfork'
  <2>1. \A c \in vforked' : state'[c] \notin Dead =>
          \E q \in Process : pid'[q] = ppid'[c] /\ state'[q] = "FORKED"
    <3>1. CASE TRUE
      <4> SUFFICES ASSUME NEW c \in vforked', state'[c] \notin Dead
                   PROVE  \E q \in Process : pid'[q] = ppid'[c] /\ state'[q] = "FORKED"
        OBVIOUS
      <4>1. CASE c = new
        BY <1>2, <1>9, <1>10, <4>1
      <4>2. CASE c # new
        <5>1. PICK q \in Process \ {cur, new} : pid[q] = ppid[c] /\ state[q] = "FORKED"
          BY <1>1, <1>17, <4>2
        <5>2. state'[q] = "FORKED" /\ c \in Process
          BY <1>1, <1>9, <5>1, <4>2 DEF Ready, TypeOK
        <5> QED BY <1>10, <4>2, <5>1, <5>2
      <4> QED BY <4>1, <4>2
    <3> QED BY <3>1
  <2>2. \A c \in vforked \ {new} : state'[c] \notin Dead => state[c] \notin Dead
    BY <1>15 DEF Dead, TypeOK
  <2>3. \A c, d \in vforked' :
          state'[c] \notin Dead /\ state'[d] \notin Dead /\ ppid'[c] = ppid'[d] => c = d
    BY <1>1, <1>10, <1>17, <2>2 DEF Inv, Vfork, TypeOK
  <2> QED BY <2>1, <2>3 DEF Vfork
<1>19. NoLostExit'
  <2>1. \A t \in Process : state'[t] = "WAITING" => t # new /\ state[t] = "WAITING"
    BY <1>2, <1>9 DEF Ready
  <2>2. \A t \in Process : state'[t] = "ZOMBIE" => t # new /\ state[t] = "ZOMBIE"
    BY <1>9, <1>15 DEF Ready
  <2> QED BY <1>10, <1>14, <2>1, <2>2 DEF Inv, NoLostExit, tasklets
<1> QED BY <1>13, <1>16, <1>18, <1>19 DEF Inv

(* The exec of a vfork child keeps the invariant. *)
LEMMA ExecStep == Basic /\ Inv /\ scheduler_exec => Inv'
<1> SUFFICES ASSUME Basic, Inv, scheduler_exec PROVE Inv'
  OBVIOUS
<1> USE DEF Basic, Plain
<1>1. cur \in Process /\ cur \in vforked /\ state[cur] \in Ready
  BY DEF scheduler_exec, Free, InUser, TypeOK, ListsMatchStates, Task
<1>2. UNCHANGED <<pid, ppid, waiting_for, tasklets>> /\ vforked' = vforked \ {cur}
  BY DEF scheduler_exec
<1>3. \A t \in Process : \/ state'[t] = state[t]
                         \/ pid[t] = ppid[cur] /\ state[t] = "FORKED" /\ state'[t] = "RUNNABLE"
  <2>1. CASE UNCHANGED state
    BY <2>1
  <2>2. ASSUME NEW pt \in Lookup(ppid[cur]), state[pt] = "FORKED",
               state' = [state EXCEPT ![pt] = "RUNNABLE"]
        PROVE  \A t \in Process :
                 \/ state'[t] = state[t]
                 \/ pid[t] = ppid[cur] /\ state[t] = "FORKED" /\ state'[t] = "RUNNABLE"
    BY <2>2 DEF Lookup, TypeOK, Task
  <2> QED BY <2>1, <2>2 DEF scheduler_exec
<1>4. \A t \in Process : /\ state'[t] = "FREE" <=> state[t] = "FREE"
                         /\ state'[t] = "OVER" <=> state[t] = "OVER"
                         /\ state'[t] = "ZOMBIE" <=> state[t] = "ZOMBIE"
                         /\ state'[t] = "WAITING" <=> state[t] = "WAITING"
  BY <1>3
<1>5. Family'
  BY <1>2, <1>4, KernelAssumption, ProcessAssumption DEF Inv, Family
<1>6. Queue' /\ (~timers => InOrder)'
  <2>1. Queue /\ (~timers => InOrder)
    BY DEF Inv
  <2> QED BY <1>2, <1>4, <2>1, QueueKept
<1>7. NoLostExit'
  BY <1>2, <1>4 DEF Inv, NoLostExit, tasklets
<1>8. \A c \in vforked \ {cur} : state[c] \notin Dead => ppid[c] # ppid[cur]
  BY <1>1 DEF Inv, Vfork, Dead, Ready
<1>9. \A c \in vforked' : state'[c] \notin Dead => c \in vforked \ {cur} /\ state[c] \notin Dead
  BY <1>2, <1>4 DEF Dead, TypeOK
<1>10. Vfork'
  BY <1>2, <1>3, <1>8, <1>9 DEF Inv, Vfork
<1> QED BY <1>5, <1>6, <1>7, <1>10 DEF Inv

(* An exit or a kill keeps the invariant: the parent that is told, or init,*)
(* is not about to be freed, and one that waits for the task is told.      *)
LEMMA TerminateStep ==
  ASSUME Basic, Inv, NEW t \in Process, Live(t), InUser, task_terminate(t)
  PROVE  Inv'
<1> USE DEF Basic, Plain
<1>1. /\ state[t] \in Ready \cup Suspended /\ "ZOMBIE" \in Suspended
      /\ running_to_idling(t) /\ Return([state EXCEPT ![t] = "ZOMBIE"])
  BY DEF Live, task_terminate, Ready, Suspended
<1>2. /\ state'[t] = "ZOMBIE"
      /\ \A u \in Task \ {t} : state[u] \notin Ready => state'[u] = state[u]
      /\ \A u \in Task \ {t} : state[u] \in Ready => state'[u] \in Ready
  BY <1>1, SuspendFacts
<1>3. \A u \in Process : /\ state'[u] = "FREE" <=> state[u] = "FREE"
                         /\ state'[u] = "OVER" <=> state[u] = "OVER"
                         /\ state'[u] = "FORKED" <=> state[u] = "FORKED"
                         /\ state'[u] = "WAITING" => state[u] = "WAITING"
                         /\ u # t => (state'[u] = "ZOMBIE" <=> state[u] = "ZOMBIE")
  BY <1>2 DEF Live, Ready, Task
<1>4. /\ UNCHANGED <<pid, scan>>
      /\ \A u \in Process : waiting_for'[u] = IF u = t THEN NOTHING ELSE waiting_for[u]
  BY DEF task_terminate, TypeOK
<1>5. /\ vforked' = vforked \/ vforked' = vforked \ {t}
      /\ \A u \in Process : ppid'[u] = IF u = t /\ ppid[t] # 0 /\ Orphan(t) THEN 1 ELSE ppid[u]
  <2>1. CASE ppid[t] = 0
    BY <2>1 DEF task_terminate
  <2>2. CASE ppid[t] # 0
    <3>1. /\ vforked' = IF Lookup(ppid[t]) = {} THEN vforked ELSE vforked \ {t}
          /\ ppid' = IF Orphan(t) THEN [ppid EXCEPT ![t] = 1] ELSE ppid
      BY <2>2 DEF task_terminate
    <3>2. \A u \in Process : ppid'[u] = IF u = t /\ Orphan(t) THEN 1 ELSE ppid[u]
      BY <3>1 DEF TypeOK, Task
    <3> QED BY <2>2, <3>1, <3>2
  <2> QED BY <2>1, <2>2
<1>6. 0 \in Pid /\ 1 \in Pid /\ ppid[t] \in Pid
  BY MaxPidAssumption DEF Pid, TypeOK, Task
<1>7. Lookup(1) = {init}
  <2>1. init \in Lookup(1)
    BY <1>6, LookupFacts, KernelAssumption, ProcessAssumption DEF Inv, Family, Task
  <2> QED BY <1>6, <2>1, LookupFacts
<1>8. ppid[t] # 0 =>
        /\ Heir(t) \subseteq Process
        /\ \A h \in Heir(t) : state[h] \notin {"FREE", "OVER"}
        /\ \A p \in Process : state[p] # "FREE" /\ ppid'[t] = pid[p] => Heir(t) = {p}
  <2> SUFFICES ASSUME ppid[t] # 0
               PROVE  /\ Heir(t) \subseteq Process
                      /\ \A h \in Heir(t) : state[h] \notin {"FREE", "OVER"}
                      /\ \A p \in Process : state[p] # "FREE" /\ ppid'[t] = pid[p]
                           => Heir(t) = {p}
    OBVIOUS
  <2>1. CASE Orphan(t)
    <3>1. Heir(t) = {init} /\ ppid'[t] = 1
      BY <1>5, <1>7, <2>1 DEF Heir
    <3> QED BY <3>1, KernelAssumption, ProcessAssumption DEF Inv, Family
  <2>2. CASE ~Orphan(t)
    <3>1. Heir(t) = Lookup(ppid[t]) /\ ppid'[t] = ppid[t]
      BY <1>5, <2>2 DEF Heir
    <3>2. PICK h \in Lookup(ppid[t]) : state[h] \notin Dead
      BY <2>2 DEF Orphan
    <3>3. Heir(t) = {h} /\ h \in Process /\ state[h] # "FREE" /\ pid[h] = ppid[t]
      BY <1>6, <3>1, <3>2, LookupFacts
    <3> QED BY <3>1, <3>2, <3>3 DEF Inv, Family, Dead
  <2> QED BY <2>1, <2>2
<1>9. Family'
  BY <1>3, <1>4, <1>5, KernelAssumption, ProcessAssumption DEF Inv, Family
<1>10. \/ tasklet_array' = tasklet_array
       \/ \E h \in Process : state[h] \notin {"FREE", "OVER"} /\ tasklet_add(Sigchld(h))
  BY <1>8 DEF task_terminate
<1>11. ~masked
  BY DEF InUser, Scanning
<1>12. /\ Queue' /\ (~timers => InOrder)'
       /\ \A x \in Tasklet \ {None} :
            (\E s \in Slot : tasklet_array[s] = x) => \E s \in Slot : tasklet_array'[s] = x
       /\ \A h \in Process : tasklet_add(Sigchld(h)) /\ state[h] \notin {"FREE", "OVER"}
            => \E s \in Slot : tasklet_array'[s] = Sigchld(h)
  <2>1. Queue /\ (~timers => InOrder)
    BY DEF Inv
  <2>2. ASSUME tasklet_array' = tasklet_array PROVE Queue' /\ (~timers => InOrder)'
    BY <1>3, <1>4, <2>1, <2>2, QueueKept DEF tasklets
  <2>3. ASSUME NEW h \in Process, state[h] \notin {"FREE", "OVER"}, tasklet_add(Sigchld(h))
        PROVE  /\ Queue' /\ (~timers => InOrder)'
               /\ \A x \in Tasklet \ {None} :
                    (\E s \in Slot : tasklet_array[s] = x) => \E s \in Slot : tasklet_array'[s] = x
               /\ \E s \in Slot : tasklet_array'[s] = Sigchld(h)
    <3>1. /\ Sigchld(h) \in Tasklet /\ Sigchld(h) # None
          /\ \A u \in Process : Sigchld(h) # Destroy(u) /\ (Sigchld(h) = Sigchld(u) => u = h)
      BY TaskletFacts
    <3> QED BY <1>3, <1>4, <1>11, <2>1, <2>3, <3>1, QueueAdded
  <2> QED BY <1>10, <2>2, <2>3
<1>13. Vfork'
  BY <1>2, <1>3, <1>4, <1>5 DEF Inv, Vfork, Dead, TypeOK
<1>14. NoLostExit'
  <2> SUFFICES ASSUME NEW p \in Process, NEW c \in Process,
                      state'[p] = "WAITING", state'[c] = "ZOMBIE", ppid'[c] = pid'[p],
                      waiting_for'[p] \in {ANY, pid'[c]}
               PROVE  \E s \in Slot : tasklet_array'[s] = Sigchld(p)
    BY DEF NoLostExit
  <2>1. CASE c = t
    <3>1. pid[p] # 0 /\ state[p] # "FREE"
      BY <1>3 DEF Inv, Family
    <3>2. ppid[t] # 0
      BY <1>4, <1>5, <2>1, <3>1
    <3>3. Heir(t) = {p}
      BY <1>4, <1>8, <2>1, <3>1, <3>2
    <3>4. tasklet_add(Sigchld(p)) /\ state[p] \notin {"FREE", "OVER"}
      BY <1>8, <3>2, <3>3 DEF task_terminate
    <3> QED BY <1>12, <3>4
  <2>2. CASE c # t
    <3>1. p # t
      BY <1>2
    <3>2. \E s \in Slot : tasklet_array[s] = Sigchld(p)
      BY <1>3, <1>4, <1>5, <2>2, <3>1 DEF Inv, NoLostExit
    <3>3. Sigchld(p) \in Tasklet \ {None}
      BY TaskletFacts
    <3> QED BY <1>12, <3>2, <3>3
  <2> QED BY <2>1, <2>2
<1> QED BY <1>9, <1>12, <1>13, <1>14 DEF Inv

(* Reaping a dead child keeps the invariant. *)
LEMMA ReapStep ==
  ASSUME Basic, Inv, InUser, NEW t \in IdlingChild, state[t] = "ZOMBIE", Reap(t)
  PROVE  Inv'
<1> USE DEF Basic, Plain
<1>1. cur \in Process /\ t \in Process /\ ppid[t] = pid[cur] /\ state[cur] \in Ready
  BY DEF IdlingChild, InUser, TypeOK, ListsMatchStates, Task
<1>2. t # init
  BY <1>1 DEF Inv, Family, Ready
<1>3. \A u \in Process : state'[u] = IF u = t THEN "OVER" ELSE state[u]
  BY <1>1 DEF Reap, TypeOK, Task
<1>4. UNCHANGED <<pid, ppid, vforked>>
  BY DEF Reap
<1>5. \A u \in Process : waiting_for'[u] = IF u = cur THEN NOTHING ELSE waiting_for[u]
  BY <1>1 DEF Reap, TypeOK
<1>6. tasklet_add(Destroy(t)) /\ UNCHANGED scan /\ ~masked
  BY DEF Reap, InUser, Scanning
<1>7. /\ Destroy(t) \in Tasklet /\ Destroy(t) # None
      /\ \A u \in Process : /\ Destroy(t) # Sigchld(u) /\ (Destroy(t) = Destroy(u) => u = t)
                            /\ Sigchld(u) \in Tasklet \ {None}
  BY <1>1, TaskletFacts
<1>8. Queue /\ (~timers => InOrder)
  BY DEF Inv
<1>9. /\ Queue' /\ (~timers => InOrder)'
      /\ \A x \in Tasklet \ {None} :
           (\E s \in Slot : tasklet_array[s] = x) => \E s \in Slot : tasklet_array'[s] = x
  BY <1>1, <1>3, <1>6, <1>7, <1>8, QueueAdded
<1>10. Family'
  BY <1>2, <1>3, <1>4, KernelAssumption, ProcessAssumption DEF Inv, Family
<1>12. Vfork'
  BY <1>3, <1>4 DEF Inv, Vfork, Dead, TypeOK
<1>13. NoLostExit'
  <2> SUFFICES ASSUME NEW p \in Process, NEW c \in Process,
                      state'[p] = "WAITING", state'[c] = "ZOMBIE", ppid'[c] = pid'[p],
                      waiting_for'[p] \in {ANY, pid'[c]}
               PROVE  \E s \in Slot : tasklet_array'[s] = Sigchld(p)
    BY DEF NoLostExit
  <2>1. p # cur /\ state[p] = "WAITING" /\ state[c] = "ZOMBIE"
    BY <1>1, <1>3 DEF Ready
  <2>2. \E s \in Slot : tasklet_array[s] = Sigchld(p)
    BY <1>4, <1>5, <2>1 DEF Inv, NoLostExit
  <2> QED BY <1>7, <1>9, <2>2
<1> QED BY <1>6, <1>9, <1>10, <1>12, <1>13 DEF Inv

(* Freeing a task that is over keeps the invariant. *)
LEMMA DestroyStep == Basic /\ Inv /\ task_destroy => Inv'
<1> SUFFICES ASSUME Basic, Inv, task_destroy PROVE Inv'
  OBVIOUS
<1> USE DEF Basic, Plain
<1> DEFINE t == tasklet_array[slot + 1].arg
<1>1. RunTasklet("destroy")
  BY DEF task_destroy
<1>2. /\ slot + 1 \in Slot /\ tasklet_array[slot + 1] \in Tasklet
      /\ tasklet_array[slot + 1].exe = "destroy"
      /\ \A s \in Slot : tasklet_array'[s] = IF s = slot + 1 THEN None ELSE tasklet_array[s]
  BY <1>1, RunFacts DEF QueueTyped, TypeOK
<1>3. t \in Process /\ tasklet_array[slot + 1] = Destroy(t)
  BY <1>2, TaskletFacts
<1>4. state' = [state EXCEPT ![t] = "FREE"] /\ vforked' = vforked \ {t}
      /\ pid' = [pid EXCEPT ![t] = 0] /\ ppid' = [ppid EXCEPT ![t] = 0]
      /\ waiting_for' = [waiting_for EXCEPT ![t] = NOTHING] /\ timers' = timers
  BY DEF task_destroy, RunTasklet
<1> HIDE DEF t
<1>5. state[t] = "OVER" /\ t # kernel
  BY <1>2, <1>3, KernelAssumption DEF Inv, Queue
<1>6. \A u \in Process : /\ state'[u] = IF u = t THEN "FREE" ELSE state[u]
                         /\ pid'[u] = IF u = t THEN 0 ELSE pid[u]
                         /\ ppid'[u] = IF u = t THEN 0 ELSE ppid[u]
                         /\ waiting_for'[u] = IF u = t THEN NOTHING ELSE waiting_for[u]
  BY <1>3, <1>4 DEF TypeOK, Task
<1>7. t # init
  BY <1>5 DEF Inv, Family
<1>8. Family'
  BY <1>6, <1>7, ProcessAssumption DEF Inv, Family
<1>9. Queue' /\ (~timers => InOrder)'
  <2>1. Queue /\ (~timers => InOrder)
    BY DEF Inv
  <2>2. \A u \in Process : tasklet_array[slot + 1] = Destroy(u) <=> u = t
    BY <1>3, TaskletFacts
  <2> QED BY <1>1, <1>5, <1>6, <2>1, <2>2, QueueRun
<1>10. Vfork'
  <2>1. \A c \in vforked' : state'[c] = state[c] /\ c \in vforked /\ c \in Process \ {t}
    BY <1>4, <1>6 DEF TypeOK
  <2>2. \A p \in Process : state[p] = "FORKED" => state'[p] = "FORKED" /\ p # t
    BY <1>5, <1>6
  <2> QED BY <1>6, <2>1, <2>2 DEF Inv, Vfork
<1>11. NoLostExit'
  <2> SUFFICES ASSUME NEW p \in Process, NEW c \in Process,
                      state'[p] = "WAITING", state'[c] = "ZOMBIE", ppid'[c] = pid'[p],
                      waiting_for'[p] \in {ANY, pid'[c]}
               PROVE  \E s \in Slot : tasklet_array'[s] = Sigchld(p)
    BY DEF NoLostExit
  <2>1. PICK s \in Slot : tasklet_array[s] = Sigchld(p)
    BY <1>6 DEF Inv, NoLostExit
  <2>2. s # slot + 1
    BY <1>3, <2>1, TaskletFacts
  <2> QED BY <1>2, <2>1, <2>2
<1> QED BY <1>8, <1>9, <1>10, <1>11 DEF Inv

(* Delivering SIGCHLD keeps the invariant: its target, if it waits, is     *)
(* resumed, and if the target has been freed, whoever is signalled in its  *)
(* place keeps the SIGCHLD that is left for him.                           *)
LEMMA SigchldStep == Basic /\ Inv /\ task_deliver_sigchld => Inv'
<1> SUFFICES ASSUME Basic, Inv, task_deliver_sigchld PROVE Inv'
  OBVIOUS
<1> USE DEF Basic, Plain
<1> DEFINE x == tasklet_array[slot + 1].arg
<1>1. RunTasklet("sigchld")
  BY DEF task_deliver_sigchld
<1>2. /\ slot + 1 \in Slot /\ tasklet_array[slot + 1] \in Tasklet
      /\ tasklet_array[slot + 1].exe = "sigchld"
      /\ \A s \in Slot : tasklet_array'[s] = IF s = slot + 1 THEN None ELSE tasklet_array[s]
  BY <1>1, RunFacts DEF QueueTyped, TypeOK
<1>3. x \in Process /\ tasklet_array[slot + 1] = Sigchld(x)
  BY <1>2, TaskletFacts
<1>4. UNCHANGED <<pid, ppid, vforked>>
  BY DEF task_deliver_sigchld
<1>5. PICK p \in IF state[x] = "FREE" THEN Pid ELSE {pid[x]} :
        /\ \/ /\ \A u \in {u \in Lookup(p) : Catchable(u)} : state[u] # "WAITING"
              /\ UNCHANGED state
           \/ \E u \in {u \in Lookup(p) : Catchable(u)} : task_resume(u)
        /\ \/ UNCHANGED waiting_for
           \/ \E u \in {u \in Lookup(p) : Catchable(u)} :
                waiting_for' = [waiting_for EXCEPT ![u] = NOTHING]
  BY DEF task_deliver_sigchld
<1> DEFINE told == {u \in Lookup(p) : Catchable(u)}
<1> HIDE DEF x
<1>6. told \subseteq Process
  BY DEF Catchable, TypeOK, Task
<1>7. state[x] = "WAITING" => told = {x}
  <2> SUFFICES ASSUME state[x] = "WAITING" PROVE told = {x}
    OBVIOUS
  <2>1. p = pid[x] /\ p \in Pid /\ p # 0
    BY <1>3 DEF TypeOK, Task, Inv, Family
  <2>2. x \in Lookup(p) /\ Lookup(p) \subseteq {x}
    BY <1>3, <2>1, LookupFacts DEF Task
  <2>3. Catchable(x)
    BY <1>3, <2>2, KernelAssumption DEF Catchable, Dead, Lookup
  <2> QED BY <2>2, <2>3
<1>8. /\ \/ (\A u \in told : state[u] # "WAITING") /\ UNCHANGED state
         \/ \E u \in told : task_resume(u)
      /\ \/ UNCHANGED waiting_for
         \/ \E u \in told : waiting_for' = [waiting_for EXCEPT ![u] = NOTHING]
  BY <1>5
<1> HIDE DEF told
<1>9. \A u \in Process :
        \/ state'[u] = state[u] /\ ~(u = x /\ state[u] = "WAITING")
        \/ state[u] = "WAITING" /\ state'[u] = "RUNNABLE"
  <2>1. CASE (\A u \in told : state[u] # "WAITING") /\ UNCHANGED state
    BY <1>7, <2>1
  <2>2. ASSUME NEW v \in told, task_resume(v)
        PROVE  \A u \in Process :
                 \/ state'[u] = state[u] /\ ~(u = x /\ state[u] = "WAITING")
                 \/ state[u] = "WAITING" /\ state'[u] = "RUNNABLE"
    <3>1. /\ state[v] = "WAITING"
          /\ \A u \in Process : state'[u] = IF u = v THEN "RUNNABLE" ELSE state[u]
      BY <2>2, <1>6 DEF task_resume, TypeOK, Task
    <3> QED BY <1>7, <2>2, <3>1
  <2> QED BY <1>8, <2>1, <2>2
<1>10. \A u \in Process : waiting_for'[u] \in {waiting_for[u], NOTHING}
  BY <1>6, <1>8 DEF TypeOK
<1>11. \A u \in Process : /\ state'[u] = "FREE" <=> state[u] = "FREE"
                          /\ state'[u] = "OVER" <=> state[u] = "OVER"
                          /\ state'[u] = "ZOMBIE" <=> state[u] = "ZOMBIE"
                          /\ state'[u] = "FORKED" <=> state[u] = "FORKED"
                          /\ state'[u] = "WAITING" => state[u] = "WAITING" /\ u # x
  BY <1>9
<1>12. Family'
  BY <1>4, <1>11, KernelAssumption, ProcessAssumption DEF Inv, Family
<1>13. Queue' /\ (~timers => InOrder)'
  <2>1. Queue /\ (~timers => InOrder)
    BY DEF Inv
  <2>2. \A u \in Process : tasklet_array[slot + 1] # Destroy(u)
    BY <1>3, TaskletFacts
  <2> QED BY <1>1, <1>11, <2>1, <2>2, QueueRun
<1>14. Vfork'
  BY <1>4, <1>11 DEF Inv, Vfork, Dead, TypeOK
<1>15. NoLostExit'
  <2> SUFFICES ASSUME NEW q \in Process, NEW c \in Process,
                      state'[q] = "WAITING", state'[c] = "ZOMBIE", ppid'[c] = pid'[q],
                      waiting_for'[q] \in {ANY, pid'[c]}
               PROVE  \E s \in Slot : tasklet_array'[s] = Sigchld(q)
    BY DEF NoLostExit
  <2>1. pid[c] \in Pid
    BY DEF TypeOK, Task
  <2>2. waiting_for[q] \in {ANY, pid[c]}
    BY <1>4, <1>10, <2>1, MaxPidAssumption DEF NOTHING, ANY, Pid
  <2>3. PICK s \in Slot : tasklet_array[s] = Sigchld(q)
    BY <1>4, <1>11, <2>2 DEF Inv, NoLostExit
  <2>4. s # slot + 1
    BY <1>3, <1>11, <2>3, TaskletFacts
  <2> QED BY <1>2, <2>3, <2>4
<1> QED BY <1>12, <1>13, <1>14, <1>15 DEF Inv

(* Every step keeps the invariant. *)
LEMMA InvStep == Basic /\ Inv /\ [Next]_vars => Inv'
<1> SUFFICES ASSUME Basic, Inv, [Next]_vars PROVE Inv'
  OBVIOUS
<1>1. CASE UNCHANGED vars
  BY <1>1, SoftSteps
<1>2. CASE Next
  <2>1. Step
    BY <1>2, NextIsStep
  <2>2. ASSUME \/ pend_sv_handler
               \/ \E t \in Process : Wakeup(t) \/ task_continue(t)
               \/ \E t \in Process : Live(t) /\ (task_stop(t) \/ sig_trampoline(t))
               \/ Suspend \/ EventDone
               \/ InUser /\ WaitEnds
        PROVE  Inv'
    BY <2>2, SoftSteps
  <2>3. ASSUME NEW t \in Process, Live(t), InUser, task_terminate(t) PROVE Inv'
    BY <2>3, TerminateStep
  <2>4. ASSUME NEW t \in IdlingChild, InUser, state[t] = "ZOMBIE", Reap(t) PROVE Inv'
    BY <2>4, ReapStep
  <2>5. ASSUME NEW p \in {ANY} \cup 1..MaxPid, InUser, Await(p),
               \A c \in Process : state[c] = "ZOMBIE" /\ ppid[c] = pid[cur] /\ p \in {ANY, pid[c]}
                 => \E t \in Task \ {c} : state[t] # "FREE" /\ pid[t] = pid[c]
        PROVE  Inv'
    BY <2>5, AwaitStep
  <2> QED BY <2>1, <2>2, <2>3, <2>4, <2>5, TickStep, VforkStep, ExecStep, CheckStep, DestroyStep,
             SigchldStep DEF Step
<1> QED BY <1>1, <1>2

(* What the invariant says of the four properties that the runs check. *)
LEMMA InvImplies ==
  Basic /\ Inv => DestroyedOnce /\ NoStaleTasklet /\ StackNotShared /\ NoLostExit
<1> SUFFICES ASSUME Basic, Inv
             PROVE  DestroyedOnce /\ NoStaleTasklet /\ StackNotShared /\ NoLostExit
  OBVIOUS
<1> USE DEF Basic, Plain
<1>1. DestroyedOnce
  <2> SUFFICES ASSUME NEW t \in Process
               PROVE  /\ state[t] = "OVER" <=> Destructions(t) # {}
                      /\ \A i, j \in Destructions(t) : i = j
    BY DEF DestroyedOnce
  <2>1. state[t] = "OVER" <=> Destructions(t) # {}
    BY DEF Inv, Queue, Destructions
  <2>2. \A i, j \in Destructions(t) : i = j
    BY DEF Inv, Queue, Destructions
  <2> QED BY <2>1, <2>2
<1>2. NoStaleTasklet
  <2> SUFFICES ASSUME ~timers, NEW s \in Slot, tasklet_array[s].exe = "sigchld"
               PROVE  state[tasklet_array[s].arg] # "FREE"
    BY DEF NoStaleTasklet
  <2>1. /\ tasklet_array[s].arg \in Process
        /\ tasklet_array[s] = Sigchld(tasklet_array[s].arg)
    BY TaskletFacts DEF TypeOK
  <2> QED BY <2>1 DEF Inv, InOrder
<1>3. StackNotShared
  <2> SUFFICES ASSUME NEW c \in vforked, state[c] \notin Dead
               PROVE  \E p \in tasks_idling : pid[p] = ppid[c] /\ state[p] = "FORKED"
    BY DEF StackNotShared
  <2>1. PICK p \in Process : pid[p] = ppid[c] /\ state[p] = "FORKED"
    BY DEF Inv, Vfork
  <2>2. p \in tasks_idling
    BY <2>1 DEF ListsMatchStates, Suspended, Task
  <2> QED BY <2>1, <2>2
<1> QED BY <1>1, <1>2, <1>3 DEF Inv

(* The invariant holds in every reachable state. *)
THEOREM InvCorrect == Spec => [](Basic /\ Inv)
<1>1. Basic /\ [Next]_vars => Basic'
  BY BasicStep, NextIsStep
<1>2. Init => Basic /\ Inv
  BY BasicInit, InvInit
<1>3. Basic /\ Inv /\ [Next]_vars => (Basic /\ Inv)'
  BY <1>1, InvStep
<1> QED BY <1>2, <1>3, PTL DEF Spec

(* A dead task is freed exactly once. *)
THEOREM DestroyedOnceCorrect == Spec => []DestroyedOnce
<1> QED BY InvCorrect, InvImplies, PTL

(* Where no timers open the scan, no SIGCHLD finds its task freed. *)
THEOREM NoStaleTaskletCorrect == Spec => []NoStaleTasklet
<1> QED BY InvCorrect, InvImplies, PTL

(* A parent does not run while its vfork child is on its stack. *)
THEOREM StackNotSharedCorrect == Spec => []StackNotShared
<1> QED BY InvCorrect, InvImplies, PTL

(* A parent asleep in waitpid is told of the exit it waits for. *)
THEOREM NoLostExitCorrect == Spec => []NoLostExit
<1> QED BY InvCorrect, InvImplies, PTL
-----------------------------------------------------------------------------
(***************************************************************************)
(* The order of task switches: theorems about RoundRobin, for every number *)
(* of processes and every choice of those that are real-time.              *)
(***************************************************************************)

(* A list of tasks that KernelIsLast allows: every task in it once, the    *)
(* kernel's at the end. *)
KernelEnds(list) ==
  /\ list \in Seq(Task) /\ list # <<>>
  /\ list[Len(list)] = kernel
  /\ \A i, j \in 1..Len(list) : list[i] = list[j] => i = j

Members(list) == {list[i] : i \in 1..Len(list)}

(* tasklist_add of a task that is not in the list. *)
LEMMA AddedAtHead ==
  ASSUME NEW list, KernelEnds(list), NEW t \in Process, t \notin Members(list)
  PROVE  KernelEnds(<<t>> \o list) /\ Members(<<t>> \o list) = Members(list) \cup {t}
<1> DEFINE n == <<t>> \o list
<1>1. list \in Seq(Task) /\ t \in Task /\ Len(list) \in Nat \ {0}
  BY EmptySeq DEF KernelEnds, Task
<1>2. n \in Seq(Task) /\ Len(n) = Len(list) + 1
  BY <1>1
<1>3. n[1] = t /\ \A i \in 2..Len(n) : n[i] = list[i - 1]
  BY <1>1
<1> HIDE DEF n
<1>4. \A i \in 2..Len(n) : i - 1 \in 1..Len(list) /\ n[i] # t
  BY <1>1, <1>2, <1>3 DEF Members
<1>5. n[Len(n)] = kernel /\ n # <<>>
  <2>1. Len(n) \in 2..Len(n) /\ Len(n) - 1 = Len(list)
    BY <1>1, <1>2
  <2> QED BY <1>2, <1>3, <2>1 DEF KernelEnds
<1>6. \A i, j \in 1..Len(n) : n[i] = n[j] => i = j
  <2>1. SUFFICES ASSUME NEW i \in 1..Len(n), NEW j \in 1..Len(n), n[i] = n[j] PROVE i = j
    OBVIOUS
  <2>2. CASE i = 1 \/ j = 1
    BY <1>2, <1>3, <1>4, <2>1, <2>2
  <2>3. CASE i # 1 /\ j # 1
    <3>1. i \in 2..Len(n) /\ j \in 2..Len(n)
      BY <1>1, <1>2, <2>3
    <3>2. list[i - 1] = list[j - 1] /\ i - 1 \in 1..Len(list) /\ j - 1 \in 1..Len(list)
      BY <1>3, <1>4, <2>1, <3>1
    <3>3. i - 1 = j - 1
      BY <3>2 DEF KernelEnds
    <3> QED BY <3>1, <3>3
  <2> QED BY <2>2, <2>3
<1>7. Members(n) = Members(list) \cup {t}
  <2>1. \A i \in 1..Len(n) : n[i] \in Members(list) \cup {t}
    <3>1. SUFFICES ASSUME NEW i \in 1..Len(n) PROVE n[i] \in Members(list) \cup {t}
      OBVIOUS
    <3>2. CASE i = 1
      BY <1>3, <3>2
    <3>3. CASE i # 1
      <4>1. i \in 2..Len(n)
        BY <1>1, <1>2, <3>3
      <4> QED BY <1>3, <1>4, <4>1 DEF Members
    <3> QED BY <3>2, <3>3
  <2>2. t \in Members(n)
    BY <1>1, <1>2, <1>3 DEF Members
  <2>3. \A i \in 1..Len(list) : list[i] \in Members(n)
    <3>1. SUFFICES ASSUME NEW i \in 1..Len(list) PROVE list[i] \in Members(n)
      OBVIOUS
    <3>2. i + 1 \in 2..Len(n) /\ (i + 1) - 1 = i /\ i + 1 \in 1..Len(n)
      BY <1>1, <1>2
    <3>3. n[i + 1] = list[i]
      BY <1>3, <3>2
    <3> QED BY <3>2, <3>3 DEF Members
  <2> QED BY <2>1, <2>2, <2>3 DEF Members
<1> QED BY <1>2, <1>5, <1>6, <1>7 DEF KernelEnds, n

(* tasklist_del of a process. *)
LEMMA RemovedOnce ==
  ASSUME NEW list, KernelEnds(list), NEW t \in Process
  PROVE  /\ KernelEnds(RemoveFirst(list, t))
         /\ Members(RemoveFirst(list, t)) = Members(list) \ {t}
<1>1. list \in Seq(Task) /\ Len(list) \in Nat \ {0} /\ t # kernel
  BY EmptySeq, KernelAssumption DEF KernelEnds
<1>2. CASE t \notin Members(list)
  <2>1. ~\E i \in 1..Len(list) : list[i] = t
    BY <1>2 DEF Members
  <2>2. RemoveFirst(list, t) = list
    BY <2>1 DEF RemoveFirst
  <2> QED BY <1>2, <2>2
<1>3. CASE t \in Members(list)
  <2> DEFINE I == {i \in 1..Len(list) : list[i] = t}
  <2>1. PICK k \in 1..Len(list) : list[k] = t
    BY <1>3 DEF Members
  <2>2. I = {k}
    BY <2>1 DEF KernelEnds
  <2>3. Min(I) = k
    <3>1. k \in I /\ \A y \in I : k <= y
      BY <1>1, <2>1, <2>2
    <3>2. \A x \in I : x = k
      BY <2>2
    <3> HIDE DEF I
    <3> QED BY <3>1, <3>2 DEF Min
  <2>4. SelectInSeq(list, LAMBDA v : v = t) = k
    BY <2>2, <2>3 DEF SelectInSeq
  <2> DEFINE a == SubSeq(list, 1, k - 1)
             b == SubSeq(list, k + 1, Len(list))
             n == a \o b
  <2>5. RemoveFirst(list, t) = n
    BY <2>1, <2>4 DEF RemoveFirst, RemoveAt
  <2>6. k < Len(list)
    BY <1>1, <2>1 DEF KernelEnds
  <2>7. a \in Seq(Task) /\ Len(a) = k - 1 /\ \A i \in 1..(k - 1) : a[i] = list[i]
    BY <1>1, <2>1, <2>6
  <2>8. b \in Seq(Task) /\ Len(b) = Len(list) - k /\ \A i \in 1..(Len(list) - k) : b[i] = list[i + k]
    BY <1>1, <2>1, <2>6
  <2> HIDE DEF a, b
  <2>9. n \in Seq(Task) /\ Len(n) = Len(list) - 1
    <3>1. n \in Seq(Task) /\ Len(n) = Len(a) + Len(b)
      BY <2>7, <2>8, ConcatProperties
    <3> QED BY <1>1, <2>1, <2>7, <2>8, <3>1
  <2>10. \A i \in 1..Len(n) : n[i] = list[IF i < k THEN i ELSE i + 1]
    <3>1. SUFFICES ASSUME NEW i \in 1..Len(n) PROVE n[i] = list[IF i < k THEN i ELSE i + 1]
      OBVIOUS
    <3>2. n[i] = IF i <= Len(a) THEN a[i] ELSE b[i - Len(a)]
      BY <2>7, <2>8, <2>9, ConcatProperties
    <3>3. CASE i < k
      <4>1. i \in 1..(k - 1) /\ i <= Len(a)
        BY <2>7, <2>9, <3>3
      <4> QED BY <2>7, <3>2, <3>3, <4>1
    <3>4. CASE ~(i < k)
      <4>1. ~(i <= Len(a)) /\ i - Len(a) \in 1..(Len(list) - k) /\ (i - Len(a)) + k = i + 1
        BY <1>1, <2>7, <2>9, <3>4
      <4> QED BY <2>8, <3>2, <3>4, <4>1
    <3> QED BY <3>3, <3>4
  <2> HIDE DEF n
  <2>11. n[Len(n)] = kernel /\ n # <<>>
    <3>1. Len(n) \in 1..Len(n) /\ ~(Len(n) < k) /\ Len(n) + 1 = Len(list)
      BY <1>1, <2>1, <2>6, <2>9
    <3>2. n[Len(n)] = list[Len(list)]
      BY <2>10, <3>1
    <3> QED BY <2>9, <3>1, <3>2 DEF KernelEnds
  <2>12. \A i, j \in 1..Len(n) : n[i] = n[j] => i = j
    <3>1. SUFFICES ASSUME NEW i \in 1..Len(n), NEW j \in 1..Len(n), n[i] = n[j] PROVE i = j
      OBVIOUS
    <3> DEFINE p == IF i < k THEN i ELSE i + 1
               q == IF j < k THEN j ELSE j + 1
    <3>2. p \in 1..Len(list) /\ q \in 1..Len(list) /\ (p = q => i = j)
      BY <1>1, <2>1, <2>9
    <3>3. list[p] = list[q]
      BY <2>10, <3>1
    <3> HIDE DEF p, q
    <3>4. p = q
      BY <3>2, <3>3 DEF KernelEnds
    <3> QED BY <3>2, <3>4
  <2>13. Members(n) = Members(list) \ {t}
    <3>1. \A i \in 1..Len(n) : n[i] \in Members(list) \ {t}
      <4>1. SUFFICES ASSUME NEW i \in 1..Len(n) PROVE n[i] \in Members(list) \ {t}
        OBVIOUS
      <4> DEFINE p == IF i < k THEN i ELSE i + 1
      <4>2. p \in 1..Len(list) /\ p # k
        BY <1>1, <2>1, <2>9
      <4>3. n[i] = list[p]
        BY <2>10
      <4> HIDE DEF p
      <4>4. list[p] # t
        BY <2>1, <4>2 DEF KernelEnds
      <4> QED BY <4>2, <4>3, <4>4 DEF Members
    <3>2. \A p \in 1..Len(list) : list[p] # t => list[p] \in Members(n)
      <4>1. SUFFICES ASSUME NEW p \in 1..Len(list), list[p] # t PROVE list[p] \in Members(n)
        OBVIOUS
      <4>2. CASE p < k
        <5>1. p \in 1..Len(n)
          BY <1>1, <2>1, <2>6, <2>9, <4>2
        <5>2. n[p] = list[p]
          BY <2>10, <4>2, <5>1
        <5> QED BY <5>1, <5>2 DEF Members
      <4>3. CASE p > k
        <5>1. p - 1 \in 1..Len(n) /\ ~(p - 1 < k) /\ (p - 1) + 1 = p
          BY <1>1, <2>1, <2>9, <4>3
        <5>2. n[p - 1] = list[p]
          BY <2>10, <5>1
        <5> QED BY <5>1, <5>2 DEF Members
      <4> QED BY <2>1, <4>1, <4>2, <4>3
    <3> QED BY <3>1, <3>2 DEF Members
  <2> QED BY <2>5, <2>9, <2>11, <2>12, <2>13 DEF KernelEnds
<1> QED BY <1>2, <1>3

(* The invariant: the list and the states agree. *)
Agree(list, st) ==
  /\ st \in [Task -> Ready \cup {"WAITING", "STOPPED"}]
  /\ KernelEnds(list)
  /\ Members(list) = {t \in Task : st[t] \in Ready}

RoundInv ==
  /\ Agree(running, state)
  /\ cur \in Task
  /\ forced \in RealTime \cup {NULL}
  /\ recorded \subseteq Process
  /\ pendsv \in BOOLEAN

(* The kernel's own task never leaves the list. *)
LEMMA KernelReady ==
  ASSUME NEW list, NEW st, Agree(list, st)
  PROVE  st[kernel] \in Ready
<1>1. Len(list) \in Nat \ {0} /\ list[Len(list)] = kernel
  BY EmptySeq DEF Agree, KernelEnds
<1>2. kernel \in Members(list)
  BY <1>1 DEF Members
<1> QED BY <1>2 DEF Agree

(* The next task is one of the list. *)
LEMMA FollowingIsListed ==
  ASSUME NEW list, NEW st, Agree(list, st), cur \in Task
  PROVE  Following(list, st) \in Members(list)
<1>1. list \in Seq(Task) /\ Len(list) \in Nat \ {0}
  BY EmptySeq DEF Agree, KernelEnds
<1>2. Head(list) = list[1] /\ Last(list) = list[Len(list)]
  BY <1>1 DEF Last
<1>3. CASE st[cur] \notin Ready \/ cur = Last(list)
  BY <1>1, <1>2, <1>3 DEF Following, Members
<1>4. CASE ~(st[cur] \notin Ready \/ cur = Last(list))
  <2>1. PICK k \in 1..Len(list) : list[k] = cur
    BY <1>4 DEF Agree, Members
  <2>2. k + 1 \in 2..Len(list) /\ list[(k + 1) - 1] = cur
    BY <1>1, <1>2, <1>4, <2>1
  <2> DEFINE i == CHOOSE i \in 2..Len(list) : list[i - 1] = cur
  <2>3. i \in 2..Len(list)
    BY <2>2
  <2>4. Following(list, st) = list[i]
    BY <1>4 DEF Following
  <2> HIDE DEF i
  <2> QED BY <1>1, <2>3, <2>4 DEF Members
<1> QED BY <1>3, <1>4

(* task_switch keeps the list and the states in agreement. *)
LEMMA SwitchKeeps ==
  ASSUME NEW list, NEW st, NEW f \in RealTime \cup {NULL}, Agree(list, st), cur \in Task,
         task_switch(list, st, f)
  PROVE  Agree(list, state') /\ cur' \in Task /\ forced' \in RealTime \cup {NULL}
<1>1. forced' = NULL
  BY DEF task_switch
<1>2. CASE f # NULL /\ cur' = f /\ state' = st
  BY <1>1, <1>2, RealTimeAssumption DEF Task
<1>3. CASE cur' = Following(list, st) /\ state' = [st EXCEPT ![cur'] = "RUNNING"]
  <2>1. cur' \in Members(list)
    BY <1>3, FollowingIsListed
  <2>2. cur' \in Task /\ st[cur'] \in Ready
    BY <2>1 DEF Agree
  <2>3. state' \in [Task -> Ready \cup {"WAITING", "STOPPED"}]
    BY <1>3, <2>2 DEF Agree, Ready
  <2>4. \A t \in Task : state'[t] \in Ready <=> st[t] \in Ready
    BY <1>3, <2>2 DEF Agree, Ready
  <2> QED BY <1>1, <2>2, <2>3, <2>4 DEF Agree
<1> QED BY <1>2, <1>3 DEF task_switch

(* So does the end of a system call. *)
LEMMA EndCallKeeps ==
  ASSUME NEW list, NEW st, NEW f \in RealTime \cup {NULL}, Agree(list, st), cur \in Task,
         EndCall(list, st, f)
  PROVE  Agree(running, state)' /\ cur' \in Task /\ forced' \in RealTime \cup {NULL}
<1>1. running' = list
  BY DEF EndCall
<1>2. CASE UNCHANGED cur /\ state' = st /\ forced' = f
  BY <1>1, <1>2
<1>3. CASE task_switch(list, st, f)
  BY <1>1, <1>3, SwitchKeeps
<1> QED BY <1>2, <1>3 DEF EndCall

(* A process that enters the list as it becomes ready. *)
LEMMA BecomesReady ==
  ASSUME NEW list, NEW st, Agree(list, st), NEW t \in Process, st[t] \notin Ready
  PROVE  Agree(<<t>> \o list, [st EXCEPT ![t] = "RUNNABLE"])
<1>1. t \in Task /\ t \notin Members(list)
  BY DEF Agree, Task
<1>2. KernelEnds(<<t>> \o list) /\ Members(<<t>> \o list) = Members(list) \cup {t}
  BY <1>1, AddedAtHead DEF Agree
<1> QED BY <1>1, <1>2 DEF Agree, Ready

(* A process that leaves the list as it stops being ready. *)
LEMMA BecomesSuspended ==
  ASSUME NEW list, NEW st, Agree(list, st), NEW t \in Process, NEW s \in {"WAITING", "STOPPED"}
  PROVE  Agree(RemoveFirst(list, t), [st EXCEPT ![t] = s])
<1>1. t \in Task
  BY DEF Task
<1>2. /\ KernelEnds(RemoveFirst(list, t))
      /\ Members(RemoveFirst(list, t)) = Members(list) \ {t}
  BY RemovedOnce DEF Agree
<1> HIDE DEF RemoveFirst
<1> QED BY <1>1, <1>2 DEF Agree, Ready

(* What task_resume does to both. *)
LEMMA ResumedAgrees ==
  ASSUME RoundInv, NEW w \in Process \cup {NULL}
  PROVE  Agree(ListAfter(w), StateAfter(w)) /\ ForcedAfter(w) \in RealTime \cup {NULL}
<1>1. CASE Woken(w)
  <2>1. w \in Process /\ state[w] \notin Ready
    BY <1>1 DEF Woken, Ready
  <2> QED BY <1>1, <2>1, BecomesReady DEF RoundInv, ListAfter, StateAfter, ForcedAfter
<1>2. CASE ~Woken(w)
  BY <1>2 DEF RoundInv, ListAfter, StateAfter, ForcedAfter
<1> QED BY <1>1, <1>2

(* The list at the start names every task. *)
LEMMA RoundInvInit == RoundInit => RoundInv
<1> SUFFICES ASSUME RoundInit PROVE RoundInv
  OBVIOUS
<1> DEFINE n == Cardinality(Process)
<1>1. n \in Nat
  BY ProcessFinite, FS_CardinalityType
<1>2. PICK order \in Bijection(1..n, Process) : running = Append(order, kernel)
  BY DEF RoundInit
<1> HIDE DEF n
<1>3. /\ order \in [1..n -> Process]
      /\ \A i, j \in 1..n : order[i] = order[j] => i = j
      /\ \A t \in Process : \E i \in 1..n : order[i] = t
  BY DEF Bijection, Injection, IsInjective, Surjection
<1>4. order \in Seq(Process) /\ order \in Seq(Task) /\ Len(order) = n /\ kernel \in Task
  BY <1>1, <1>3 DEF Task
<1>5. /\ running \in Seq(Task) /\ Len(running) = n + 1 /\ running[n + 1] = kernel
      /\ \A i \in 1..n : running[i] = order[i]
  BY <1>1, <1>2, <1>4
<1>6. \A i \in 1..n : running[i] \in Process /\ running[i] # kernel
  BY <1>3, <1>5, KernelAssumption
<1>7. \A i, j \in 1..Len(running) : running[i] = running[j] => i = j
  <2>1. SUFFICES ASSUME NEW i \in 1..Len(running), NEW j \in 1..Len(running),
                        running[i] = running[j]
                 PROVE  i = j
    OBVIOUS
  <2>2. (i \in 1..n \/ i = n + 1) /\ (j \in 1..n \/ j = n + 1)
    BY <1>1, <1>5
  <2> QED BY <1>3, <1>5, <1>6, <2>1, <2>2
<1>8. KernelEnds(running)
  BY <1>1, <1>5, <1>7 DEF KernelEnds
<1>9. Members(running) = Task
  <2>1. \A i \in 1..Len(running) : running[i] \in Task
    BY <1>5
  <2>2. kernel \in Members(running)
    BY <1>1, <1>5 DEF Members
  <2>3. \A t \in Process : t \in Members(running)
    <3>1. SUFFICES ASSUME NEW t \in Process PROVE t \in Members(running)
      OBVIOUS
    <3>2. PICK i \in 1..n : order[i] = t
      BY <1>3
    <3> QED BY <1>1, <1>5, <3>2 DEF Members
  <2> QED BY <2>1, <2>2, <2>3 DEF Members, Task
<1> QED BY <1>4, <1>8, <1>9 DEF RoundInit, RoundInv, Agree, Ready

(* Every action keeps the list and the states in agreement. *)
LEMMA RoundInvStep == RoundInv /\ [RoundNext]_roundvars => RoundInv'
<1> SUFFICES ASSUME RoundInv, [RoundNext]_roundvars PROVE RoundInv'
  OBVIOUS
<1>1. /\ Agree(running, state) /\ cur \in Task /\ forced \in RealTime \cup {NULL}
      /\ recorded \subseteq Process /\ pendsv \in BOOLEAN
  BY DEF RoundInv
<1>2. CASE PendSV
  <2> DEFINE st == IF state[cur] = "RUNNING" THEN [state EXCEPT ![cur] = "RUNNABLE"] ELSE state
  <2>1. Agree(running, st)
    BY <1>1 DEF Agree, Ready
  <2>2. task_switch(running, st, forced) /\ UNCHANGED <<running, recorded>> /\ pendsv' = FALSE
    BY <1>2 DEF PendSV
  <2> HIDE DEF st
  <2>3. Agree(running, state') /\ cur' \in Task /\ forced' \in RealTime \cup {NULL}
    BY <1>1, <2>1, <2>2, SwitchKeeps
  <2> QED BY <1>1, <2>2, <2>3 DEF RoundInv
<1>3. CASE SysTick
  BY <1>1, <1>3 DEF SysTick, RoundInv
<1>4. ASSUME NEW w \in recorded, Resume(w) PROVE RoundInv'
  <2>1. Agree(ListAfter(w), StateAfter(w)) /\ ForcedAfter(w) \in RealTime \cup {NULL}
    BY <1>1, ResumedAgrees
  <2> QED BY <1>1, <1>4, <2>1 DEF Resume, RoundInv
<1>5. ASSUME NEW w \in recorded \cup {NULL}, CallResumes(w) PROVE RoundInv'
  <2>1. Agree(ListAfter(w), StateAfter(w)) /\ ForcedAfter(w) \in RealTime \cup {NULL}
    BY <1>1, ResumedAgrees
  <2>2. Agree(running, state)' /\ cur' \in Task /\ forced' \in RealTime \cup {NULL}
    BY <1>1, <1>5, <2>1, EndCallKeeps DEF CallResumes
  <2> QED BY <1>1, <1>5, <2>2 DEF CallResumes, RoundInv
<1>6. ASSUME NEW w \in recorded \cup {NULL}, CallSuspends(w) PROVE RoundInv'
  <2> DEFINE list == RemoveFirst(ListAfter(w), cur)
             st == [StateAfter(w) EXCEPT ![cur] = "WAITING"]
  <2>1. Agree(ListAfter(w), StateAfter(w)) /\ ForcedAfter(w) \in RealTime \cup {NULL}
    BY <1>1, ResumedAgrees
  <2>2. cur \in Process
    BY <1>1, <1>6 DEF CallSuspends, InUser, Task
  <2>3. Agree(list, st)
    BY <2>1, <2>2, BecomesSuspended
  <2>4. EndCall(list, st, ForcedAfter(w)) /\ pendsv' = TRUE /\ recorded' = recorded \cup {cur}
    BY <1>6 DEF CallSuspends
  <2> HIDE DEF list, st
  <2>5. Agree(running, state)' /\ cur' \in Task /\ forced' \in RealTime \cup {NULL}
    BY <1>1, <2>1, <2>3, <2>4, EndCallKeeps
  <2> QED BY <1>1, <2>2, <2>4, <2>5 DEF RoundInv
<1>7. ASSUME NEW t \in Process, CallStops(t) PROVE RoundInv'
  <2> DEFINE list == RemoveFirst(running, t)
             st == [state EXCEPT ![t] = "STOPPED"]
  <2>1. Agree(list, st)
    BY <1>1, BecomesSuspended
  <2>2. EndCall(list, st, forced) /\ pendsv' = TRUE /\ recorded' = recorded
    BY <1>7 DEF CallStops
  <2> HIDE DEF list, st
  <2>3. Agree(running, state)' /\ cur' \in Task /\ forced' \in RealTime \cup {NULL}
    BY <1>1, <2>1, <2>2, EndCallKeeps
  <2> QED BY <1>1, <2>2, <2>3 DEF RoundInv
<1>8. ASSUME NEW t \in Process, CallContinues(t) PROVE RoundInv'
  <2> DEFINE list == <<t>> \o running
             st == [state EXCEPT ![t] = "RUNNABLE"]
  <2>1. Agree(list, st)
    BY <1>1, <1>8, BecomesReady DEF CallContinues, Ready
  <2>2. EndCall(list, st, forced) /\ UNCHANGED <<pendsv, recorded>>
    BY <1>8 DEF CallContinues
  <2> HIDE DEF list, st
  <2>3. Agree(running, state)' /\ cur' \in Task /\ forced' \in RealTime \cup {NULL}
    BY <1>1, <2>1, <2>2, EndCallKeeps
  <2> QED BY <1>1, <2>2, <2>3 DEF RoundInv
<1>9. CASE UNCHANGED roundvars
  BY <1>1, <1>9 DEF roundvars, RoundInv
<1> QED BY <1>2, <1>3, <1>4, <1>5, <1>6, <1>7, <1>8, <1>9 DEF RoundNext

(* The types of RoundRobin's variables, in every reachable state. *)
THEOREM RoundTypeCorrect == RoundSpec => []RoundTypeOK
<1>1. RoundInv => RoundTypeOK
  BY DEF RoundInv, Agree, KernelEnds, RoundTypeOK
<1> QED BY <1>1, RoundInvInit, RoundInvStep, PTL DEF RoundSpec

(* tasks_running holds every ready task once and nobody else, and the      *)
(* kernel's own task stays at its end: task_switch always finds a task,    *)
(* and whoever goes round the list meets all that are ready.               *)
THEOREM KernelIsLastHolds == RoundSpec => []KernelIsLast
<1>1. ASSUME RoundInv PROVE KernelIsLast
  <2>1. running \in Seq(Task) /\ KernelEnds(running)
        /\ Members(running) = {t \in Task : state[t] \in Ready}
    BY <1>1 DEF RoundInv, Agree, KernelEnds
  <2>2. DOMAIN running = 1..Len(running)
    BY <2>1
  <2>3. ToSet(running) = Members(running)
    BY <2>2 DEF ToSet, Members
  <2> QED BY <2>1, <2>2, <2>3 DEF KernelIsLast, KernelEnds, Last
<1> QED BY <1>1, RoundInvInit, RoundInvStep, PTL DEF RoundSpec
=============================================================================
