------------------------------- MODULE Timers -------------------------------
(***************************************************************************)
(* Kernel timers as processes use them: sleep, poll and alarm share one    *)
(* tb.timer_id and one flag, TASK_FLAG_TIMEOUT, and the tasklet that runs  *)
(* expired timers turns interrupts on between its steps, so that processes *)
(* run and set or delete timers in between.                                *)
(*                                                                         *)
(* The heap is the set of its timers and its first place, which holds the  *)
(* earliest one: what TimerHeap shows it to be for few timers.  The id of  *)
(* a timer is not used twice (last_id takes 2^31 values); jiffies does not *)
(* wrap.                                                                   *)
(***************************************************************************)
EXTENDS Integers, FiniteSets

CONSTANTS Process,     \* task structures
          Settings,    \* what programs may do: the calls they make, of sleep, poll,
                       \* alarm and exec, and whether signals and other resumes occur
          Delays,      \* the times asked for
          MaxTime,     \* the last value of jiffies looked at
          MaxTimers    \* timers set at once; the code has no bound

ASSUME ProcessAssumption == IsFiniteSet(Process)
ASSUME SettingsAssumption ==
  Settings \subseteq [calls : SUBSET {"sleep", "poll", "alarm", "exec"}, disturbed : BOOLEAN]
ASSUME BoundsAssumption == Delays \subseteq Nat /\ MaxTime \in Nat /\ MaxTimers \in Nat \ {0}

VARIABLES jiffies,
          timers,     \* the timers in the heap
          first,      \* heap->top[1], which outlives the last timer
          checker,    \* where ktimers_check_tasklet stands
          state, timer_id,
          timeout,    \* tasks with TASK_FLAG_TIMEOUT
          call,       \* the suspended call each task will issue again
          setting     \* what programs do in this behaviour

vars == <<jiffies, timers, first, checker, state, timer_id, timeout, call, setting>>

Id == 0..(MaxTimers + Cardinality(Process) - 1)
NoId == -1
Endless == -1
Ktimer == [id : Id, expire_time : 0..MaxTime, task : Process, handler : {"wakeup", "alarm"}]
NoCall == [name |-> "none", since |-> 0, count |-> 0]

TypeOK ==
  /\ jiffies \in 0..MaxTime
  /\ timers \subseteq Ktimer /\ Cardinality(timers) <= MaxTimers
  /\ first \in Ktimer \cup {NoCall}
  /\ checker \in {"idle", "expired", "ran"}
  /\ state \in [Process -> {"READY", "WAITING", "ZOMBIE", "FREE"}]
  /\ timer_id \in [Process -> Id \cup {NoId}]
  /\ timeout \subseteq Process
  /\ setting \in Settings
  /\ call \in [Process -> [name : {"none", "sleep", "poll"}, since : 0..MaxTime,
                           count : Delays \cup {0, Endless}]]

Init ==
  /\ jiffies = 0
  /\ timers = {} /\ first = NoCall /\ checker = "idle"
  /\ state = [t \in Process |-> "READY"]
  /\ timer_id = [t \in Process |-> NoId]
  /\ timeout = {}
  /\ call = [t \in Process |-> NoCall]
  /\ setting \in Settings
-----------------------------------------------------------------------------
(* The heap becomes S: the first stays unless it is removed or a new one   *)
(* is earlier.                                                             *)
Heap(S) ==
  LET Earliest == {e \in S : \A f \in S : e.expire_time <= f.expire_time} IN
  /\ timers' = S
  /\ IF S = {} \/ first \in Earliest THEN first' = first ELSE first' \in Earliest

Without(id) == {e \in timers : e.id # id}

(* Mutant: a tick too early. *)
ktimer_add_early(S, t, count, handler) ==
  LET id == CHOOSE i \in Id : (\A e \in S : e.id # i) /\ (\A u \in Process : timer_id[u] # i)
      time == jiffies + count - 1 IN
  /\ Cardinality(S) < MaxTimers /\ jiffies + count < MaxTime
  /\ Heap(S \cup {[id |-> id, expire_time |-> time, task |-> t, handler |-> handler]})
  /\ timer_id' = [timer_id EXCEPT ![t] = id]

(* ktimer_add to the timers of S, for the running task. *)
ktimer_add(S, t, count, handler) ==
  LET id == CHOOSE i \in Id : (\A e \in S : e.id # i) /\ (\A u \in Process : timer_id[u] # i) IN
  /\ Cardinality(S) < MaxTimers /\ jiffies + count < MaxTime
  /\ Heap(S \cup {[id |-> id, expire_time |-> jiffies + count, task |-> t, handler |-> handler]})
  /\ timer_id' = [timer_id EXCEPT ![t] = id]

(* ktimer_del of the timer that the running task has recorded. *)
DropTimer(t) == Heap(Without(timer_id[t])) /\ timer_id' = [timer_id EXCEPT ![t] = NoId]
-----------------------------------------------------------------------------
(* A process makes a call, or a call it was suspended in again. *)
Issues(t, name) == state[t] = "READY" /\ name \in setting.calls /\ call[t].name \in {"none", name}

Asks(t, name, count) == Issues(t, name) /\ (call[t].name = name => count = call[t].count)

Suspends(t, name, count) ==
  /\ state' = [state EXCEPT ![t] = "WAITING"]
  /\ call' = [call EXCEPT ![t] = IF @ = NoCall
                                   THEN [name |-> name, since |-> jiffies, count |-> count]
                                   ELSE @]

Returns(t) == call' = [call EXCEPT ![t] = NoCall] /\ UNCHANGED <<jiffies, checker, state>>

(* sleep: the flag ends it. *)
SleepReturns(t) ==
  /\ Issues(t, "sleep") /\ t \in timeout
  /\ timeout' = timeout \ {t}
  /\ DropTimer(t)
  /\ Returns(t)

SleepSuspends(t, count) ==
  /\ t \notin timeout /\ Asks(t, "sleep", count)
  /\ ktimer_add(timers, t, count, "wakeup")
  /\ Suspends(t, "sleep", count)
  /\ UNCHANGED <<jiffies, checker, timeout>>

(* poll: the flag ends it; or a file is ready; or a descriptor is bad; or  *)
(* it waits, with a timer if the process has none.                         *)
PollTimesOut(t) ==
  /\ Issues(t, "poll") /\ t \in timeout
  /\ timeout' = timeout \ {t}
  /\ Returns(t)
  /\ UNCHANGED <<timers, first, timer_id>>

PollReady(t) ==
  /\ Issues(t, "poll") /\ t \notin timeout
  /\ DropTimer(t)
  /\ Returns(t)
  /\ UNCHANGED timeout

PollFails(t) ==
  /\ Issues(t, "poll") /\ t \notin timeout
  /\ Returns(t)
  /\ UNCHANGED <<timers, first, timer_id, timeout>>

PollSuspends(t, count) ==
  /\ t \notin timeout /\ Asks(t, "poll", count)
  /\ \/ timer_id[t] = NoId /\ count # Endless /\ ktimer_add(timers, t, count, "wakeup")
     \/ (timer_id[t] # NoId \/ count = Endless) /\ UNCHANGED <<timers, first, timer_id>>
  /\ Suspends(t, "poll", count)
  /\ UNCHANGED <<jiffies, checker, timeout>>

(* alarm and ualarm replace the process's timer, whatever it is for. *)
sys_alarm_hdlr(t, count) ==
  /\ Issues(t, "alarm")
  /\ ktimer_add(Without(timer_id[t]), t, count, "alarm")
  /\ UNCHANGED <<jiffies, checker, state, timeout, call>>

(* exec starts anew in the same structure. *)
scheduler_exec(t) ==
  /\ Issues(t, "exec") /\ call[t] = NoCall
  /\ timer_id' = [timer_id EXCEPT ![t] = NoId]
  /\ UNCHANGED <<jiffies, timers, first, checker, state, timeout, call>>
-----------------------------------------------------------------------------
(* Something else resumes the process: a file that is polled, a driver.    *)
Resumed(t) ==
  /\ setting.disturbed \/ call[t].name = "poll"
  /\ state[t] = "WAITING"
  /\ state' = [state EXCEPT ![t] = "READY"]
  /\ UNCHANGED <<jiffies, timers, first, checker, timer_id, timeout, call>>

(* A signal with a handler: the suspended call ends with EINTR. *)
Signalled(t) ==
  /\ state[t] \in {"READY", "WAITING"}
  /\ state' = [state EXCEPT ![t] = "READY"]
  /\ call' = [call EXCEPT ![t] = NoCall]

Signal(t) ==
  /\ setting.disturbed /\ Signalled(t)
  /\ UNCHANGED <<jiffies, timers, first, checker, timer_id, timeout>>

(* exit, or a fatal signal. *)
Exit(t) ==
  /\ state[t] \in {"READY", "WAITING"}
  /\ state' = [state EXCEPT ![t] = "ZOMBIE"]
  /\ call' = [call EXCEPT ![t] = NoCall]
  /\ UNCHANGED <<jiffies, timers, first, checker, timer_id, timeout>>

(* Mutant: the structure is freed and its timer left in the heap. *)
DestroyKeeps(t) ==
  /\ checker = "idle" /\ state[t] = "ZOMBIE"
  /\ state' = [state EXCEPT ![t] = "FREE"]
  /\ UNCHANGED <<jiffies, timers, first, checker, timer_id, timeout, call>>

(* The reaped process is freed by a tasklet of the same main loop. *)
task_destroy(t) ==
  /\ checker = "idle" /\ state[t] = "ZOMBIE"
  /\ state' = [state EXCEPT ![t] = "FREE"]
  /\ DropTimer(t)
  /\ timeout' = timeout \ {t}
  /\ UNCHANGED <<jiffies, checker, call>>

(* Mutant: the new process keeps the timer_id copied from another task. *)
NewTaskInherits(t) ==
  /\ state[t] = "FREE"
  /\ state' = [state EXCEPT ![t] = "READY"]
  /\ \E u \in Process \ {t} : timer_id' = [timer_id EXCEPT ![t] = timer_id[u]]
  /\ timeout' = timeout \ {t}
  /\ call' = [call EXCEPT ![t] = NoCall]
  /\ UNCHANGED <<jiffies, timers, first, checker>>

(* vfork makes a process in a structure that was freed. *)
NewTask(t) ==
  /\ state[t] = "FREE"
  /\ state' = [state EXCEPT ![t] = "READY"]
  /\ timer_id' = [timer_id EXCEPT ![t] = NoId]
  /\ timeout' = timeout \ {t}
  /\ call' = [call EXCEPT ![t] = NoCall]
  /\ UNCHANGED <<jiffies, timers, first, checker>>
-----------------------------------------------------------------------------
(* Jiffies go on until the last timer has had its time. *)
sys_tick_handler ==
  /\ jiffies < MaxTime /\ jiffies' = jiffies + 1
  /\ UNCHANGED <<timers, first, checker, state, timer_id, timeout, call>>

ktimer_expired == timers # {} /\ first.expire_time < jiffies

(* The tasklet looks at the first timer, then turns interrupts on. *)
StartCheck ==
  /\ checker = "idle" /\ ktimer_expired /\ checker' = "expired"
  /\ UNCHANGED <<jiffies, timers, first, state, timer_id, timeout, call>>

(* Mutant: the process is not resumed. *)
WakeupOnlyFlags(t) ==
  /\ timer_id' = [timer_id EXCEPT ![t] = NoId]
  /\ timeout' = timeout \cup {t}
  /\ UNCHANGED <<state, call>>

sleepy_task_wakeup(t) ==
  /\ timer_id' = [timer_id EXCEPT ![t] = NoId]
  /\ timeout' = timeout \cup {t}
  /\ state' = [state EXCEPT ![t] = IF @ = "WAITING" THEN "READY" ELSE @]
  /\ UNCHANGED call

(* SIGALRM, ignored or to a handler or fatal. *)
alarm_task(t) ==
  /\ timer_id' = [timer_id EXCEPT ![t] = NoId]
  /\ UNCHANGED timeout
  /\ \/ Signalled(t)
     \/ /\ state[t] \in {"READY", "WAITING"}
        /\ state' = [state EXCEPT ![t] = "ZOMBIE"]
        /\ call' = [call EXCEPT ![t] = NoCall]
     \/ UNCHANGED <<state, call>>

(* It runs the handler of the timer that is now in the first place. *)
RunHandler ==
  /\ checker = "expired" /\ checker' = "ran"
  /\ IF first.handler = "wakeup" THEN sleepy_task_wakeup(first.task) ELSE alarm_task(first.task)
  /\ UNCHANGED <<jiffies, timers, first>>

(* With interrupts off, it removes whatever is first, and looks again. *)
RemoveTop ==
  /\ checker = "ran"
  /\ Heap(timers \ {first})
  /\ checker' = IF timers' # {} /\ first'.expire_time < jiffies THEN "expired" ELSE "idle"
  /\ UNCHANGED <<jiffies, state, timer_id, timeout, call>>

Next ==
  \/ \E t \in Process :
       \/ SleepReturns(t) \/ PollTimesOut(t) \/ PollReady(t) \/ PollFails(t)
       \/ \E c \in Delays : SleepSuspends(t, c) \/ sys_alarm_hdlr(t, c)
       \/ \E c \in Delays \cup {Endless} : PollSuspends(t, c)
       \/ scheduler_exec(t) \/ Resumed(t) \/ Signal(t)
       \/ Exit(t) \/ task_destroy(t) \/ NewTask(t)
  \/ sys_tick_handler
  \/ StartCheck \/ RunHandler \/ RemoveTop

Spec == Init /\ [][Next /\ UNCHANGED setting]_vars
-----------------------------------------------------------------------------
(* The timer a process has recorded is not another's, so that no call      *)
(* deletes another's timer.                                                *)
TimerIsOwn == \A t \in Process, e \in timers : e.id = timer_id[t] => e.task = t

(* Three more hold where programs only sleep and are not disturbed.        *)
OnlySleep == setting.calls = {"sleep"} /\ ~setting.disturbed

(* "Get rid of stack space allocation, timer." (scheduler.c:468): no timer *)
(* is left for a structure that task_destroy has freed.                    *)
SleepersTimerGoes == OnlySleep => \A e \in timers : state[e.task] # "FREE"

(* A process waits in sleep only while a timer that has not been run will  *)
(* wake it.                                                                *)
SleeperHasTimer ==
  OnlySleep =>
    \A t \in Process : state[t] = "WAITING" =>
      \E e \in timers : e.task = t /\ e.handler = "wakeup" /\ ~(checker = "ran" /\ e = first)

(* A sleep that returns has slept its time; its flag is not a leftover.    *)
SleepLasts ==
  [][\A t \in Process : OnlySleep /\ SleepReturns(t) =>
        call[t].name = "sleep" /\ jiffies > call[t].since + call[t].count]_vars
=============================================================================
