------------------------------ MODULE Tasklets ------------------------------
(***************************************************************************)
(* Tasklets (kernel/tasklet.c), which interrupts and system calls leave to *)
(* the kernel's own task, and the one that each tick leaves there: it runs *)
(* the expired timers (kernel/systick.c).                                  *)
(*                                                                         *)
(* check_tasklets turns interrupts off, but a tasklet that checks timers   *)
(* or adds a tasklet turns them on; from then on interrupts, and processes *)
(* that get the CPU, come between the steps of the scan.  A deletion of a  *)
(* timer while expired ones are run is in Timers and not here.             *)
(***************************************************************************)
EXTENDS TimerHeap, FiniteSets

CONSTANTS MAX_TASKLETS,
          CountSize,     \* n_tasklets counts modulo this number
          MaxTime,       \* the last value of jiffies looked at
          Counts,        \* the delays asked for
          Settings       \* of behaviours: how many "timers" are set at once (the code has
                         \* no bound), whether there are "others", tasklets that do not
                         \* check timers, and whether somebody adds one in the "window"
                         \* between lines 65 and 67 of tasklet.c

ASSUME TaskletsAssumption ==
  MAX_TASKLETS \in Nat \ {0} /\ CountSize \in Nat /\ CountSize > MAX_TASKLETS
ASSUME TimesAssumption == MaxTime \in Nat /\ Counts \subseteq Nat
ASSUME SettingsAssumption ==
  Settings \subseteq [timers : Nat, others : BOOLEAN, window : BOOLEAN]

VARIABLES jiffies, top,           \* the clock; the heap of timers
          tasklet_array,          \* by slot, exe with its arg
          n_tasklets, ktimer_check_pending,
          pc, slot, count,        \* where the kernel's task is: before its loop, at a slot;
                                  \* the value of n_tasklets it has read
          masked,                 \* it has turned interrupts off
          hung,                   \* the array was full
          setting

queue == <<tasklet_array, n_tasklets, hung>>
kernel == <<pc, slot, count, masked>>
taskletsvars == <<jiffies, top, queue, ktimer_check_pending, kernel, setting>>

Slot == 1..MAX_TASKLETS
Time == 0..MaxTime

TaskletsTypeOK ==
  /\ jiffies \in Time
  /\ top \in Seq(Time) /\ Len(top) <= setting.timers
  /\ tasklet_array \in [Slot -> {"none", "check", "other", "argless"}]
  /\ n_tasklets \in 0..CountSize - 1 /\ count \in 0..CountSize - 1
  /\ ktimer_check_pending \in BOOLEAN /\ masked \in BOOLEAN /\ hung \in BOOLEAN
  /\ pc \in {"idle", "scan", "check", "checked", "ran", "cleared", "counted"}
  /\ slot \in Slot \cup {0}
  /\ setting \in Settings

TaskletsInit ==
  /\ jiffies = 0 /\ top = <<>>
  /\ tasklet_array = [s \in Slot |-> "none"] /\ n_tasklets = 0 /\ hung = FALSE
  /\ ktimer_check_pending = FALSE
  /\ pc = "idle" /\ slot = 0 /\ count = 0 /\ masked = FALSE
  /\ setting \in Settings
-----------------------------------------------------------------------------
(* The first free slot is taken; without one the kernel stops. *)
tasklet_add(exe) ==
  \/ \E s \in Slot :
       /\ tasklet_array[s] = "none" /\ \A r \in 1..s - 1 : tasklet_array[r] # "none"
       /\ tasklet_array' = [tasklet_array EXCEPT ![s] = exe]
       /\ n_tasklets' = (n_tasklets + 1) % CountSize
       /\ UNCHANGED hung
  \/ /\ \A s \in Slot : tasklet_array[s] # "none"
     /\ hung' = TRUE
     /\ UNCHANGED <<tasklet_array, n_tasklets>>

Interruptible == ~masked /\ ~hung

MayAdd == pc \in {"cleared", "counted"} => setting.window

(* An interrupt or a system call adds a tasklet. *)
AddOther ==
  /\ Interruptible /\ MayAdd /\ setting.others
  /\ tasklet_add("other")
  /\ UNCHANGED <<jiffies, top, ktimer_check_pending, kernel, setting>>

(* Bound: at MaxTime the clock stands still, while ticks go on. *)
sys_tick_handler ==
  /\ Interruptible
  /\ jiffies' = IF jiffies < MaxTime THEN jiffies + 1 ELSE jiffies
  /\ \/ ktimer_check_pending /\ UNCHANGED <<queue, ktimer_check_pending>>
     \/ /\ ~ktimer_check_pending /\ MayAdd
        /\ ktimer_check_pending' = TRUE
        /\ tasklet_add("check")
  /\ UNCHANGED <<top, kernel, setting>>

ktimer_add(delay) ==
  /\ Interruptible /\ Len(top) < setting.timers /\ jiffies + delay \in Time
  /\ top' = heap_insert(top, jiffies + delay)
  /\ UNCHANGED <<jiffies, queue, ktimer_check_pending, kernel, setting>>

ktimer_del(place) ==
  /\ Interruptible /\ pc # "check"
  /\ top' = heap_delete(top, place)
  /\ UNCHANGED <<jiffies, queue, ktimer_check_pending, kernel, setting>>
-----------------------------------------------------------------------------
(* The loop of the kernel's task: with something counted, it scans. *)
StartScan ==
  /\ pc = "idle" /\ n_tasklets # 0
  /\ pc' = "scan" /\ masked' = TRUE
  /\ UNCHANGED <<slot, count, queue, jiffies, top, ktimer_check_pending>>

(* The next slot in use. *)
NextSlot(s) ==
  /\ pc = "scan" /\ s > slot /\ tasklet_array[s] # "none"
  /\ \A r \in slot + 1..s - 1 : tasklet_array[r] = "none"
  /\ slot' = s

(* It holds a tasklet that may add another one (destroy_thread_group). *)
RunOther(s) ==
  /\ NextSlot(s) /\ tasklet_array[s] # "check" /\ pc' = "ran"
  /\ \/ UNCHANGED <<queue, masked>>
     \/ tasklet_array[s] = "other" /\ tasklet_add("other") /\ masked' = FALSE
  /\ UNCHANGED <<count, jiffies, top, ktimer_check_pending>>

ktimer_expired == top # <<>> /\ heap_first(top) < jiffies

StartCheck(s) ==
  /\ NextSlot(s) /\ tasklet_array[s] = "check"
  /\ IF top = <<>> THEN pc' = "checked" /\ UNCHANGED masked
                   ELSE pc' = "check" /\ masked' = FALSE
  /\ UNCHANGED <<count, queue, jiffies, top, ktimer_check_pending>>

(* Run the handler of the first timer and remove it.  A heap that becomes  *)
(* empty ends the loop, whatever is added afterwards.                      *)
RunFirst ==
  /\ pc = "check" /\ ktimer_expired
  /\ top' = heap_peek(top)
  /\ pc' = IF top' = <<>> THEN "checked" ELSE "check"
  /\ UNCHANGED <<slot, count, masked, queue, jiffies, ktimer_check_pending>>

EndCheck ==
  /\ pc = "check" /\ ~ktimer_expired /\ pc' = "checked"
  /\ UNCHANGED <<slot, count, masked, queue, jiffies, top, ktimer_check_pending>>

(* Mutant: the tick is not told. *)
LeaveCheckSilently ==
  /\ pc = "checked" /\ pc' = "ran"
  /\ UNCHANGED <<slot, count, masked, queue, jiffies, top, ktimer_check_pending>>

LeaveCheck ==
  /\ pc = "checked" /\ pc' = "ran"
  /\ ktimer_check_pending' = FALSE
  /\ UNCHANGED <<slot, count, masked, queue, jiffies, top>>

(* Lines 65, 66 and 67.  Whoever takes the slot after the first has its    *)
(* argument cleared by the second; an addition to n_tasklets while it is   *)
(* in a register is lost.                                                  *)
ClearExe ==
  /\ pc = "ran" /\ pc' = "cleared"
  /\ tasklet_array' = [tasklet_array EXCEPT ![slot] = "none"]
  /\ UNCHANGED <<slot, count, masked, n_tasklets, hung, jiffies, top, ktimer_check_pending>>

ClearArg ==
  /\ pc = "cleared" /\ pc' = "counted"
  /\ tasklet_array' = [tasklet_array EXCEPT ![slot] = IF @ = "other" THEN "argless" ELSE @]
  /\ count' = n_tasklets
  /\ UNCHANGED <<slot, masked, n_tasklets, hung, jiffies, top, ktimer_check_pending>>

CountDown ==
  /\ pc = "counted" /\ pc' = "scan"
  /\ n_tasklets' = (count - 1) % CountSize
  /\ count' = 0
  /\ UNCHANGED <<slot, masked, tasklet_array, hung, jiffies, top, ktimer_check_pending>>

EndScan ==
  /\ pc = "scan" /\ \A s \in Slot : s > slot => tasklet_array[s] = "none"
  /\ pc' = "idle" /\ slot' = 0 /\ masked' = FALSE
  /\ UNCHANGED <<count, queue, jiffies, top, ktimer_check_pending>>

check_tasklets ==
  /\ ~hung
  /\ \/ StartScan \/ \E s \in Slot : RunOther(s) \/ StartCheck(s)
     \/ RunFirst \/ EndCheck \/ LeaveCheck
     \/ ClearExe \/ ClearArg \/ CountDown \/ EndScan
  /\ UNCHANGED setting

TaskletsNext ==
  \/ check_tasklets \/ AddOther \/ sys_tick_handler
  \/ \E delay \in Counts : ktimer_add(delay)
  \/ \E place \in DOMAIN top : ktimer_del(place)

(* The kernel's task gets the CPU; a tick is served when interrupts are    *)
(* on again.                                                               *)
TaskletsSpec ==
  /\ TaskletsInit /\ [][TaskletsNext]_taskletsvars
  /\ WF_taskletsvars(check_tasklets) /\ SF_taskletsvars(sys_tick_handler)
-----------------------------------------------------------------------------
(* The heap keeps what the timers promise, with ticks and new timers at    *)
(* any time: the first check that ends after its time runs a timer,        *)
(* earliest first, which needs every element to stay behind its parent     *)
(* through insertions, deletions and removals of the first.                *)
Count == [t \in Time |-> Cardinality({p \in DOMAIN top : top[p] = t})]
Queue == INSTANCE TimerQueue WITH pending <- Count, checking <- pc = "check"
ImplementsTimerQueue == Queue!Spec

(* Whatever is left to the kernel's task is run, with its argument, and    *)
(* expired timers with it, though ticks and others add tasklets during the *)
(* scan and the tick leaves it to a flag whether a check is queued.  Not   *)
(* claimed when somebody adds one in the window.                           *)
TaskletsGoOn ==
  /\ \A s \in Slot : ~setting.window /\ tasklet_array[s] = "other"
                       ~> hung \/ (pc = "ran" /\ slot = s /\ tasklet_array[s] = "other")
  /\ ~setting.window /\ ktimer_expired ~> hung \/ ~ktimer_expired
=============================================================================
