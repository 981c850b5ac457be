------------------------------ MODULE Signals ------------------------------
(***************************************************************************)
(* Signals of one process (kernel/scheduler.c): its handlers, its mask and *)
(* the signals that are pending, what catch_signal does to it, the frames  *)
(* that handlers run on, and the SIGCHLD that ends its waitpid.            *)
(*                                                                         *)
(* Between two calls of the process anybody may send it a signal.  A call  *)
(* that suspends has answered SYS_CALL_AGAIN and is issued again by the C  *)
(* library when the process runs next.  What a frame holds is its code and *)
(* the call that is to be issued again.  The process is not traced.  It    *)
(* may be NICE_RT: then task_resume puts it on the CPU whatever its state. *)
(***************************************************************************)
EXTENDS Integers, Sequences, FiniteSetsExt

CONSTANTS SIGKILL, SIGSTOP, SIGCONT, SIGCHLD, SIGUSR1,   \* the headers are not in the tree
          Handled,       \* bound: the signals that handlers are set for
          Masks,         \* bound: the masks the process sets
          MaxHandlers,   \* bound on the calls of sigaction
          MaxFrames      \* bound on the frames in setting "nested"

Sig == {SIGKILL, SIGSTOP, SIGCONT, SIGCHLD, SIGUSR1}
SIG_IGN == "SIG_IGN"     \* and SIG_DFL, which catch_signal treats as SIG_IGN
Function == "function"

ASSUME SigAssumption == Sig \subseteq Nat \ {0} /\ Cardinality(Sig) = 5
ASSUME BoundsAssumption ==
  /\ Handled \subseteq Sig /\ Masks \subseteq SUBSET Sig
  /\ MaxHandlers \in Nat /\ MaxFrames \in Nat

VARIABLES state,       \* tb.state; READY is RUNNABLE or RUNNING
          sighdlr,     \* tb.sighdlr, the newest first
          sigmask, sigpend,
          stack,       \* the frames of the process, tb.sp is at the last
          osp,         \* tb.osp: the frame that SIGRETURN goes back to
          child,       \* of the process: "none", "forked", "alive", "zombie"
          sigchld,     \* whether task_deliver_sigchld is queued
          hung,        \* whether the kernel loops in check_pending_signals
          forced,      \* whether forced_task gives the CPU to the process, not READY
          realtime,    \* setting: tb.nice is NICE_RT
          setting      \* "single": no signal meets a handler's frame; or "nested"

task == <<state, forced>>
masks == <<sigmask, sigpend>>
frames == <<stack, osp>>
family == <<child, sigchld>>
settings == <<realtime, setting>>
vars == <<task, sighdlr, masks, frames, family, hung, settings>>

Main == 0
Frame == [runs : Sig \cup {Main}, again : {"none", "waitpid", "read"}]
NewFrame(code) == [runs |-> code, again |-> "none"]
Top == stack[Len(stack)]

TypeOK ==
  /\ state \in {"READY", "WAITING", "STOPPED", "FORKED", "ZOMBIE"}
  /\ sighdlr \in Seq([signo : Sig, hdlr : {SIG_IGN, Function}])
  /\ sigmask \subseteq Sig /\ sigpend \subseteq Sig
  /\ stack \in Seq(Frame) /\ Len(stack) > 0 /\ osp \in 0..Len(stack)
  /\ child \in {"none", "forked", "alive", "zombie"}
  /\ sigchld \in BOOLEAN /\ hung \in BOOLEAN
  /\ forced \in BOOLEAN /\ realtime \in BOOLEAN
  /\ setting \in {"single", "nested"}

Init ==
  /\ state = "READY" /\ sighdlr = <<>> /\ sigmask = {} /\ sigpend = {}
  /\ stack = <<NewFrame(Main)>> /\ osp = 0
  /\ child = "none" /\ sigchld = FALSE /\ hung = FALSE
  /\ forced = FALSE /\ realtime \in BOOLEAN
  /\ setting \in {"single", "nested"}
-----------------------------------------------------------------------------
(* The search goes through the whole list: the oldest handler is found.    *)
HandlersOf(s) == {i \in DOMAIN sighdlr : sighdlr[i].signo = s}
Default(s) == HandlersOf(s) = {} \/ s = SIGKILL
Ignored(s) == ~Default(s) /\ sighdlr[Max(HandlersOf(s))].hdlr = SIG_IGN
Called(s) == ~Default(s) /\ ~Ignored(s)
Terminates(s) == Default(s) /\ s \notin {SIGSTOP, SIGCHLD, SIGCONT}

Blocked(s) == s \in sigmask

(* Those catch_signal refuses: they have ended or are in vfork.            *)
Refuses == state \in {"ZOMBIE", "FORKED"}

(* One that waits is READY again; of one that does not, task_switch does   *)
(* not ask the state if it is real-time.                                   *)
task_resume ==
  /\ state' = IF state = "WAITING" THEN "READY" ELSE state
  /\ forced' = (realtime /\ state \notin {"READY", "WAITING"})

(* Mutant: the process runs whatever its state. *)
TrampolineRuns(s) ==
  /\ osp' = Len(stack)
  /\ stack' = Append(stack, NewFrame(s))
  /\ state' = "READY" /\ UNCHANGED forced

(* Mutant: the stack pointer is saved after it was moved. *)
TrampolineSavesLate(s) ==
  /\ osp' = Len(stack) + 1
  /\ stack' = Append(stack, NewFrame(s))
  /\ task_resume

(* A frame for the handler below the one the process will go on with.      *)
sig_trampoline(s) ==
  /\ osp' = Len(stack)
  /\ stack' = Append(stack, NewFrame(s))
  /\ task_resume

(* What task_stop, task_continue and task_terminate make of the state. *)
StateFor(s) ==
  CASE s = SIGSTOP -> "STOPPED"
    [] s = SIGCONT -> IF state = "STOPPED" THEN "READY" ELSE state
    [] OTHER -> "ZOMBIE"

(* Mutant: SIGCHLD is ignored by default. *)
DefaultWithoutChild(s) ==
  /\ state' = IF s = SIGCHLD THEN state ELSE StateFor(s)
  /\ UNCHANGED <<forced, frames>>

DefaultAction(s) ==
  /\ \/ s = SIGCHLD /\ task_resume
     \/ s # SIGCHLD /\ state' = StateFor(s) /\ UNCHANGED forced
  /\ UNCHANGED frames

(* A program's signals meet its handlers one at a time, in setting single. *)
MayMeet(s) ==
  Called(s) /\ ~Blocked(s) =>
    Len(stack) < IF setting = "single" THEN 2 ELSE MaxFrames

(* catch_signal for a process that is not on the CPU.                      *)
catch_signal(s) ==
  IF Refuses THEN UNCHANGED <<task, frames, sigpend>>
  ELSE IF Blocked(s) THEN sigpend' = sigpend \cup {s} /\ UNCHANGED <<task, frames>>
  ELSE /\ sigpend' = sigpend \ {s}
       /\ CASE Ignored(s) -> UNCHANGED <<task, frames>>
            [] Called(s) -> sig_trampoline(s)
            [] Default(s) -> DefaultAction(s)

sys_kill_hdlr(s) ==
  /\ ~hung /\ ~forced /\ MayMeet(s)
  /\ catch_signal(s)
  /\ UNCHANGED <<sighdlr, sigmask, family, hung, settings>>

(* Signals of D reach the process on the CPU in the order of their         *)
(* numbers; a handler is called by the kernel itself.  Those after one     *)
(* that terminates the process are not taken.                              *)
NotTaken(D) == IF Refuses THEN D ELSE {s \in D : \E e \in D : Terminates(e) /\ e < s}

Stops(D) == SIGSTOP \in D /\ Default(SIGSTOP)
Continues(D) ==
  SIGCONT \in D /\ Default(SIGCONT) /\ (Stops(D) => SIGCONT > SIGSTOP)
StateAfter(D) ==
  IF Refuses THEN state
  ELSE IF \E s \in D : Terminates(s) THEN "ZOMBIE"
  ELSE IF (state = "STOPPED" \/ Stops(D)) /\ ~Continues(D) THEN "STOPPED"
  ELSE "READY"

(* A call leaves the CPU to others unless the process is READY, or SIGCHLD *)
(* has resumed it in the call.                                             *)
ForcedAfter(D) ==
  realtime /\ SIGCHLD \in D \ NotTaken(D) /\ Default(SIGCHLD) /\ StateAfter(D) # "READY"
-----------------------------------------------------------------------------
(* While the process is forced nobody else is on the CPU. *)
OnCpu == ~hung /\ (state = "READY" \/ forced)

(* The process is on the CPU and has no call to issue again. *)
Calls == OnCpu /\ Top.again = "none"

(* A process that is not READY is preempted, or another is forced first.   *)
Preempted ==
  /\ ~hung /\ forced
  /\ forced' = FALSE
  /\ UNCHANGED <<state, sighdlr, masks, frames, family, hung, settings>>

(* A signal it sends to itself. *)
KillSelf(s) ==
  LET D == IF Blocked(s) THEN {} ELSE {s} IN
  /\ Calls
  /\ sigpend' = IF Refuses THEN sigpend ELSE (sigpend \cup {s}) \ D
  /\ state' = StateAfter(D) /\ forced' = ForcedAfter(D)
  /\ UNCHANGED <<sighdlr, sigmask, frames, family, hung, settings>>

(* Mutant: what has become deliverable is not delivered. *)
PendingKept(m) == UNCHANGED <<state, hung, sigpend>> /\ forced' = FALSE

(* Signals that are still blocked are cleared: sigpend &= ~sigmask.  The   *)
(* loop goes on while a signal is pending, so one that is not taken makes  *)
(* the kernel loop for ever.                                               *)
check_pending_signals(m) ==
  LET D == sigpend \ m
  IN /\ state' = StateAfter(D) /\ forced' = ForcedAfter(D)
     /\ sigpend' = NotTaken(D) /\ hung' = (NotTaken(D) # {})

sys_sigprocmask_hdlr(m) ==
  /\ Calls
  /\ sigmask' = m
  /\ check_pending_signals(m)
  /\ UNCHANGED <<sighdlr, frames, family, settings>>

(* add_handler: the check of pending signals that follows looks handlers   *)
(* up in the new list, which makes no difference: none is deliverable.     *)
sys_sigaction_hdlr(s, h) ==
  /\ Calls /\ Len(sighdlr) < MaxHandlers
  /\ sighdlr' = <<[signo |-> s, hdlr |-> h]>> \o sighdlr
  /\ check_pending_signals(sigmask)
  /\ UNCHANGED <<sigmask, frames, family, settings>>

(* A handler of setting "single" makes no call that suspends it. *)
MaySuspend == Calls /\ (setting = "single" => Len(stack) = 1)

(* The mask is back before the process is suspended; the answer is EINTR.  *)
sys_sigsuspend_hdlr ==
  /\ MaySuspend
  /\ state' = "WAITING" /\ forced' = FALSE
  /\ UNCHANGED <<sighdlr, masks, frames, family, hung, settings>>

(* A call that suspends, or the last one again. *)
Issues(call) == (Top.again = "none" /\ MaySuspend) \/ (OnCpu /\ Top.again = call)
AgainIs(call) == stack' = [stack EXCEPT ![Len(stack)].again = call] /\ UNCHANGED osp

(* A read of a file.  Whoever writes to the file resumes the process that  *)
(* was recorded there, whatever it does by then.                           *)
ReadSuspends ==
  /\ Issues("read")
  /\ state' = "WAITING" /\ forced' = FALSE /\ AgainIs("read")
  /\ UNCHANGED <<sighdlr, masks, family, hung, settings>>
ReadReturns ==
  /\ Issues("read")
  /\ forced' = FALSE /\ AgainIs("none")
  /\ UNCHANGED <<state, sighdlr, masks, family, hung, settings>>
ReadResumed ==
  /\ ~hung /\ ~forced /\ \E i \in DOMAIN stack : stack[i].again = "read"
  /\ task_resume
  /\ UNCHANGED <<sighdlr, masks, frames, family, hung, settings>>

sys_waitpid_hdlr ==
  /\ Issues("waitpid") /\ child # "none"
  /\ IF child = "zombie"
       THEN AgainIs("none") /\ child' = "none" /\ UNCHANGED state
       ELSE AgainIs("waitpid") /\ state' = "WAITING" /\ UNCHANGED child
  /\ forced' = FALSE
  /\ UNCHANGED <<sighdlr, masks, sigchld, hung, settings>>

sys_vfork_hdlr ==
  /\ MaySuspend /\ child = "none"
  /\ child' = "forked" /\ state' = "FORKED" /\ forced' = FALSE
  /\ UNCHANGED <<sighdlr, masks, frames, sigchld, hung, settings>>

(* SIGRETURN: back to the frame that osp names, wherever sp is.  A call    *)
(* that was to be issued again has EINTR for an answer.  The process stays *)
(* on the CPU.                                                             *)
SigReturn ==
  /\ Calls /\ Top.runs # Main
  /\ stack' = [SubSeq(stack, 1, osp) EXCEPT ![osp].again = "none"]
  /\ UNCHANGED <<task, sighdlr, masks, osp, family, hung, settings>>

scheduler_exec ==
  /\ Calls
  /\ sighdlr' = <<>> /\ sigmask' = {} /\ sigpend' = {}
  /\ stack' = <<NewFrame(Main)>> /\ osp' = 0
  /\ state' = "READY" /\ forced' = FALSE
  /\ UNCHANGED <<family, hung, settings>>
-----------------------------------------------------------------------------
(* The child calls exec, which resumes the process; later it ends, and a   *)
(* tasklet sends SIGCHLD.  init adopts the child of one that has ended.    *)
ChildExecs ==
  /\ ~hung /\ ~forced /\ child = "forked"
  /\ child' = "alive" /\ state' = IF state = "FORKED" THEN "READY" ELSE state
  /\ UNCHANGED <<forced, sighdlr, masks, frames, sigchld, hung, settings>>
ChildExits ==
  /\ ~hung /\ ~forced /\ child = "alive"
  /\ \/ state # "ZOMBIE" /\ child' = "zombie" /\ sigchld' = TRUE
     \/ state = "ZOMBIE" /\ child' = "none" /\ UNCHANGED sigchld
  /\ UNCHANGED <<task, sighdlr, masks, frames, hung, settings>>
task_deliver_sigchld ==
  /\ ~hung /\ ~forced /\ sigchld /\ MayMeet(SIGCHLD)
  /\ catch_signal(SIGCHLD)
  /\ sigchld' = FALSE
  /\ UNCHANGED <<sighdlr, sigmask, child, hung, settings>>

Next ==
  \/ Preempted
  \/ \E s \in Sig : sys_kill_hdlr(s) \/ KillSelf(s)
  \/ \E m \in Masks : sys_sigprocmask_hdlr(m)
  \/ \E s \in Handled, h \in {SIG_IGN, Function} : sys_sigaction_hdlr(s, h)
  \/ sys_sigsuspend_hdlr \/ ReadSuspends \/ ReadReturns \/ ReadResumed
  \/ sys_waitpid_hdlr \/ sys_vfork_hdlr \/ SigReturn \/ scheduler_exec
  \/ ChildExecs \/ ChildExits \/ task_deliver_sigchld

(* A handler that runs comes to its end. *)
Spec == Init /\ [][Next]_vars /\ WF_vars(SigReturn)
-----------------------------------------------------------------------------
(* A signal that the mask lets through is never left pending, whatever the *)
(* order of signals, masks and handlers (scheduler.c:846, 896 and 1076).   *)
PendingIsBlocked == ~hung => sigpend \subseteq sigmask

(* A process asleep in waitpid whose child has ended and whose SIGCHLD has *)
(* been delivered has blocked or ignored it: in every other case it was    *)
(* resumed or its handler was, also when it was stopped, running a handler *)
(* or in another call when the child ended.                                *)
ExitSeen ==
  state = "WAITING" /\ Top.again = "waitpid" /\ child = "zombie" /\ ~sigchld =>
    Blocked(SIGCHLD) \/ Ignored(SIGCHLD)

(* A stopped process runs again only by an unblocked SIGCONT without a     *)
(* handler: not by SIGCHLD, by what it waited for, nor for a handler.      *)
(* Claimed of a process that is not NICE_RT: such a one runs, stopped,     *)
(* whenever task_resume is called for it (scheduler.c:2306 and 2117).      *)
StoppedStays ==
  [][~realtime /\ state = "STOPPED" /\ state' # "STOPPED" =>
       state' = "ZOMBIE" \/ (Default(SIGCONT) /\ ~Blocked(SIGCONT) /\ UNCHANGED frames)]_vars

(* A handler that no other signal meets returns to what it interrupted,    *)
(* unless the process is stopped or ends.  Claimed of a process that is    *)
(* not NICE_RT: exec makes one that runs stopped RUNNING but leaves it in  *)
(* the idling list, where it may not get the CPU again.                    *)
HandlerReturns ==
  setting = "single" /\ ~realtime /\ Len(stack) > 1 ~> Len(stack) = 1 \/ state \in {"STOPPED", "ZOMBIE"} \/ hung
=============================================================================
