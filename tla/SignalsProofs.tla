---------------------------- MODULE SignalsProofs ----------------------------
(***************************************************************************)
(* Theorems about Signals, for every numbering of the signals, any number  *)
(* of handlers, masks and frames, in every setting.                        *)
(***************************************************************************)
EXTENDS Signals, TLAPS

(* Only the first frame runs the main program, and osp is 0 only as long   *)
(* as there is no other: so SIGRETURN goes back to a frame.                *)
FramesInv ==
  /\ stack[1].runs = Main
  /\ osp = 0 => Len(stack) = 1

(* A process whose child has not called exec is in vfork, if it is not     *)
(* real-time.                                                              *)
VforkInv == ~realtime /\ child = "forked" => state = "FORKED"

(* Only a real-time process is forced, and only one that is not READY and  *)
(* does not wait.                                                          *)
ForcedInv == forced => realtime /\ state \notin {"READY", "WAITING"}

IInv == TypeOK /\ FramesInv /\ VforkInv /\ ForcedInv

(* The initial state satisfies the inductive invariant. *)
LEMMA InvInit == Init => IInv
<1> SUFFICES ASSUME Init PROVE IInv
  OBVIOUS
<1>1. stack = <<NewFrame(Main)>> /\ NewFrame(Main) \in Frame
  BY DEF Init, Frame, NewFrame
<1>2. stack \in Seq(Frame) /\ Len(stack) = 1 /\ stack[1].runs = Main
  BY <1>1 DEF NewFrame
<1>3. sighdlr \in Seq([signo : Sig, hdlr : {SIG_IGN, Function}])
  BY DEF Init
<1>4. sigmask \subseteq Sig /\ sigpend \subseteq Sig /\ osp \in 0..Len(stack)
  BY <1>2 DEF Init
<1>5. sigchld \in BOOLEAN /\ hung \in BOOLEAN /\ state = "READY" /\ child = "none"
  BY DEF Init
<1>7. forced = FALSE /\ forced \in BOOLEAN /\ realtime \in BOOLEAN
  BY Zenon DEF Init
<1>6. TypeOK
  BY <1>2, <1>3, <1>4, <1>5, <1>7 DEF Init, TypeOK
<1> QED BY <1>2, <1>5, <1>6, <1>7 DEF IInv, FramesInv, VforkInv, ForcedInv

(* The process that is on the CPU does not wait. *)
LEMMA OnCpuFacts ==
  ASSUME IInv, OnCpu
  PROVE  ~hung /\ state # "WAITING" /\ (~realtime => state = "READY")
BY DEF OnCpu, IInv, ForcedInv

(* The states that signals leave it in, and whether it stays there.        *)
LEMMA StateAfterFacts ==
  ASSUME IInv, NEW D
  PROVE  /\ StateAfter(D) \in {"READY", "STOPPED", "ZOMBIE", "FORKED"}
         /\ state = "FORKED" => StateAfter(D) = "FORKED"
         /\ ForcedAfter(D) \in BOOLEAN
         /\ ForcedAfter(D) => realtime /\ StateAfter(D) \notin {"READY", "WAITING"}
<1>1. /\ StateAfter(D) \in {"READY", "STOPPED", "ZOMBIE", "FORKED"}
      /\ state = "FORKED" => StateAfter(D) = "FORKED"
  BY DEF StateAfter, Refuses
<1>2. ForcedAfter(D) \in BOOLEAN
  BY Zenon DEF ForcedAfter
<1>3. ForcedAfter(D) => realtime /\ StateAfter(D) # "READY"
  BY Zenon DEF ForcedAfter
<1> QED BY <1>1, <1>2, <1>3, Zenon

(* What task_resume makes of the state, and whom it forces. *)
LEMMA ResumeFacts ==
  ASSUME TypeOK, task_resume
  PROVE  /\ state' \in {"READY", "STOPPED", "FORKED", "ZOMBIE"}
         /\ state # "WAITING" => state' = state
         /\ forced' \in BOOLEAN
         /\ forced' => realtime /\ state' \notin {"READY", "WAITING"}
<1>1. /\ state' \in {"READY", "STOPPED", "FORKED", "ZOMBIE"}
      /\ state # "WAITING" => state' = state
  BY DEF task_resume, TypeOK
<1>2. forced' = (realtime /\ state \notin {"READY", "WAITING"})
  BY Zenon DEF task_resume
<1>3. forced' \in BOOLEAN
  BY <1>2, Zenon
<1>4. forced' => realtime /\ state' \notin {"READY", "WAITING"}
  <2>1. forced' => realtime /\ state # "READY" /\ state # "WAITING"
    BY <1>2, Zenon
  <2> QED BY <1>1, <2>1, Zenon
<1> QED BY <1>1, <1>3, <1>4, Zenon

(* What catch_signal leaves true of the frames, and how it changes states. *)
LEMMA CatchFacts ==
  ASSUME IInv, ~forced, NEW s \in Sig, catch_signal(s)
  PROVE  /\ state' \in {"READY", "WAITING", "STOPPED", "FORKED", "ZOMBIE"}
         /\ sigpend' \subseteq Sig
         /\ stack' \in Seq(Frame) /\ Len(stack') > 0 /\ osp' \in 0..Len(stack')
         /\ FramesInv'
         /\ state = "FORKED" => state' = "FORKED"
         /\ state' = "WAITING" => state = "WAITING" /\ UNCHANGED frames
         /\ forced' \in BOOLEAN
         /\ forced' => realtime /\ state' \notin {"READY", "WAITING"}
<1> USE DEF IInv, TypeOK, FramesInv, frames, task
<1>1. CASE Refuses
  BY <1>1 DEF catch_signal
<1>2. CASE ~Refuses /\ Blocked(s)
  BY <1>2 DEF catch_signal
<1>3. CASE ~Refuses /\ ~Blocked(s)
  <2>1. sigpend' = sigpend \ {s}
    BY <1>3 DEF catch_signal
  <2>2. \/ Ignored(s) /\ UNCHANGED <<task, frames>>
        \/ sig_trampoline(s)
        \/ DefaultAction(s)
    BY <1>3 DEF catch_signal, Called
  <2>6. state \notin {"ZOMBIE", "FORKED"}
    BY <1>3 DEF Refuses
  <2>3. CASE UNCHANGED <<task, frames>>
    BY <2>1, <2>3
  <2>4. CASE sig_trampoline(s)
    <3>1. NewFrame(s) \in Frame
      BY DEF NewFrame, Frame
    <3>2. /\ stack' \in Seq(Frame) /\ Len(stack') = Len(stack) + 1
          /\ stack'[1] = stack[1] /\ osp' = Len(stack)
      BY <2>4, <3>1 DEF sig_trampoline
    <3>3. /\ state' \in {"READY", "STOPPED", "FORKED", "ZOMBIE"}
          /\ forced' \in BOOLEAN
          /\ forced' => realtime /\ state' \notin {"READY", "WAITING"}
      BY <2>4, ResumeFacts DEF sig_trampoline
    <3> QED BY <2>1, <2>6, <3>2, <3>3
  <2>5. CASE DefaultAction(s)
    <3>1. UNCHANGED frames
      BY <2>5 DEF DefaultAction
    <3>2. CASE task_resume
      BY <2>1, <2>6, <3>1, <3>2, ResumeFacts
    <3>3. CASE state' = StateFor(s) /\ UNCHANGED forced
      <4>1. state' \in {state, "READY", "STOPPED", "ZOMBIE"}
        BY <3>3 DEF StateFor
      <4> QED BY <2>1, <2>6, <3>1, <3>3, <4>1
    <3> QED BY <2>5, <3>2, <3>3 DEF DefaultAction
  <2> QED BY <2>2, <2>3, <2>4, <2>5
<1> QED BY <1>1, <1>2, <1>3

(* A sequence of frames with another frame in one of its places. *)
LEMMA FrameChanged ==
  ASSUME NEW s \in Seq(Frame), NEW i \in 1..Len(s), NEW f \in Frame, NEW t,
         t = [s EXCEPT ![i] = f]
  PROVE  /\ t \in Seq(Frame) /\ Len(t) = Len(s) /\ t[i] = f
         /\ \A j \in 1..Len(s) : j # i => t[j] = s[j]
OBVIOUS

(* What AgainIs does to the frames. *)
LEMMA AgainFacts ==
  ASSUME IInv, NEW call \in {"none", "waitpid", "read"}, AgainIs(call)
  PROVE  /\ stack' \in Seq(Frame) /\ Len(stack') = Len(stack)
         /\ Len(stack') > 0 /\ osp' \in 0..Len(stack') /\ FramesInv'
         /\ Top'.again = call
<1> USE DEF IInv, TypeOK, FramesInv
<1>1. stack' = [stack EXCEPT ![Len(stack)].again = call] /\ osp' = osp
  BY DEF AgainIs
<1>2. stack[Len(stack)] \in Frame
  OBVIOUS
<1>3. [stack[Len(stack)] EXCEPT !.again = call] \in Frame
  BY <1>2 DEF Frame
<1>4. /\ stack' \in Seq(Frame) /\ Len(stack') = Len(stack)
      /\ stack'[Len(stack)] = [stack[Len(stack)] EXCEPT !.again = call]
      /\ \A i \in 1..Len(stack) : i # Len(stack) => stack'[i] = stack[i]
  <2>1. stack' = [stack EXCEPT ![Len(stack)] = [stack[Len(stack)] EXCEPT !.again = call]]
    BY <1>1
  <2> DEFINE last == Len(stack)
             f == [stack[last] EXCEPT !.again = call]
  <2>2. last \in 1..Len(stack) /\ f \in Frame /\ stack' = [stack EXCEPT ![last] = f]
    BY <1>3, <2>1
  <2> HIDE DEF last, f
  <2>3. /\ stack' \in Seq(Frame) /\ Len(stack') = Len(stack) /\ stack'[last] = f
        /\ \A i \in 1..Len(stack) : i # last => stack'[i] = stack[i]
    BY <2>2, FrameChanged DEF IInv, TypeOK
  <2> QED BY <2>3 DEF last, f
<1>5. stack'[1].runs = stack[1].runs
  <2>1. CASE Len(stack) = 1
    BY <1>2, <1>4, <2>1 DEF Frame
  <2>2. CASE Len(stack) # 1
    BY <1>4, <2>2
  <2> QED BY <2>1, <2>2
<1>6. Top' = stack'[Len(stack')]
  BY DEF Top
<1> QED BY <1>1, <1>2, <1>4, <1>5, <1>6 DEF Frame

(* SIGRETURN leaves the frames up to the one it goes back to. *)
LEMMA ReturnFacts ==
  ASSUME IInv, SigReturn
  PROVE  stack' \in Seq(Frame) /\ Len(stack') > 0 /\ osp' \in 0..Len(stack') /\ FramesInv'
<1> USE DEF IInv, TypeOK, FramesInv
<1>1. osp \in 1..Len(stack) /\ osp' = osp
  BY DEF SigReturn, Calls, Top
<1> DEFINE below == SubSeq(stack, 1, osp)
<1>2. /\ below \in Seq(Frame) /\ Len(below) = osp
      /\ \A i \in 1..osp : below[i] = stack[i]
  BY <1>1
<1>3. stack' = [below EXCEPT ![osp].again = "none"]
  BY DEF SigReturn
<1> HIDE DEF below
<1>4. below[osp] \in Frame
  BY <1>1, <1>2
<1>5. [below[osp] EXCEPT !.again = "none"] \in Frame
  BY <1>4 DEF Frame
<1>6. /\ stack' \in Seq(Frame) /\ Len(stack') = osp
      /\ stack'[osp] = [below[osp] EXCEPT !.again = "none"]
      /\ \A i \in 1..osp : i # osp => stack'[i] = below[i]
  BY <1>1, <1>2, <1>3, <1>5
<1>7. stack'[1].runs = stack[1].runs
  <2>1. CASE osp = 1
    BY <1>1, <1>2, <1>4, <1>6, <2>1 DEF Frame
  <2>2. CASE osp # 1
    <3>1. 1 \in 1..osp
      BY <1>1
    <3>2. stack'[1] = stack[1]
      BY <1>2, <1>6, <2>2, <3>1, Zenon
    <3> QED BY <3>2, Zenon
  <2> QED BY <2>1, <2>2
<1> QED BY <1>1, <1>6, <1>7

(* The signals that check_pending_signals leaves are signals. *)
LEMMA PendingFacts ==
  ASSUME IInv, NEW m, check_pending_signals(m)
  PROVE  /\ state' \in {"READY", "STOPPED", "ZOMBIE", "FORKED"}
         /\ state = "FORKED" => state' = "FORKED"
         /\ sigpend' \subseteq Sig
         /\ hung' \in BOOLEAN
         /\ ~hung' => sigpend' = {}
         /\ forced' \in BOOLEAN
         /\ forced' => realtime /\ state' \notin {"READY", "WAITING"}
<1>1. /\ state' = StateAfter(sigpend \ m) /\ forced' = ForcedAfter(sigpend \ m)
      /\ sigpend' = NotTaken(sigpend \ m)
  BY DEF check_pending_signals
<1>4. hung' = (NotTaken(sigpend \ m) # {})
  BY DEF check_pending_signals
<1>2. /\ state' \in {"READY", "STOPPED", "ZOMBIE", "FORKED"}
      /\ state = "FORKED" => state' = "FORKED"
      /\ forced' \in BOOLEAN
      /\ forced' => realtime /\ state' \notin {"READY", "WAITING"}
  BY <1>1, StateAfterFacts
<1>3. NotTaken(sigpend \ m) \subseteq Sig
  BY DEF NotTaken, IInv, TypeOK
<1>5. hung' \in BOOLEAN /\ (~hung' => sigpend' = {})
  BY <1>1, <1>4, Zenon
<1> QED BY <1>1, <1>2, <1>3, <1>5, Zenon
-----------------------------------------------------------------------------
(* Every action keeps the inductive invariant. *)
LEMMA InvStep == IInv /\ [Next]_vars => IInv'
<1> SUFFICES ASSUME IInv, [Next]_vars PROVE IInv'
  OBVIOUS
<1> USE DEF IInv, TypeOK, FramesInv, VforkInv, ForcedInv, task, masks, frames, family, settings
<1>1. ASSUME NEW s \in Sig, sys_kill_hdlr(s) PROVE IInv'
  BY <1>1, CatchFacts DEF sys_kill_hdlr
<1>2. ASSUME NEW s \in Sig, KillSelf(s) PROVE IInv'
  <2> DEFINE D == IF Blocked(s) THEN {} ELSE {s}
  <2>1. state' = StateAfter(D) /\ forced' = ForcedAfter(D) /\ sigpend' \subseteq Sig
    BY <1>2 DEF KillSelf
  <2> HIDE DEF D
  <2>2. /\ state' \in {"READY", "STOPPED", "ZOMBIE", "FORKED"}
        /\ state = "FORKED" => state' = "FORKED"
        /\ forced' \in BOOLEAN
        /\ forced' => realtime /\ state' \notin {"READY", "WAITING"}
    BY <2>1, StateAfterFacts
  <2>3. UNCHANGED <<sighdlr, sigmask, frames, family, hung, settings>>
    BY <1>2 DEF KillSelf
  <2> QED BY <2>1, <2>2, <2>3
<1>3. ASSUME NEW m \in Masks, sys_sigprocmask_hdlr(m) PROVE IInv'
  BY <1>3, PendingFacts, BoundsAssumption DEF sys_sigprocmask_hdlr
<1>4. ASSUME NEW s \in Handled, NEW h \in {SIG_IGN, Function}, sys_sigaction_hdlr(s, h)
      PROVE  IInv'
  <2>1. [signo |-> s, hdlr |-> h] \in [signo : Sig, hdlr : {SIG_IGN, Function}]
    BY <1>4, BoundsAssumption
  <2>2. sighdlr' \in Seq([signo : Sig, hdlr : {SIG_IGN, Function}])
    BY <1>4, <2>1 DEF sys_sigaction_hdlr
  <2> QED BY <1>4, <2>2, PendingFacts DEF sys_sigaction_hdlr
<1>5. CASE sys_sigsuspend_hdlr
  BY <1>5, OnCpuFacts DEF sys_sigsuspend_hdlr, MaySuspend, Calls
<1>6. CASE ReadSuspends
  <2>1. ~realtime => state = "READY"
    BY <1>6, OnCpuFacts DEF ReadSuspends, Issues, MaySuspend, Calls
  <2> QED BY <1>6, <2>1, AgainFacts DEF ReadSuspends
<1>7. CASE ReadReturns
  BY <1>7, AgainFacts DEF ReadReturns
<1>8. CASE ReadResumed
  <2>1. task_resume /\ UNCHANGED <<sighdlr, masks, frames, family, hung, settings>>
    BY <1>8 DEF ReadResumed
  <2> QED BY <2>1, ResumeFacts
<1>9. CASE sys_waitpid_hdlr
  <2>1. /\ ~realtime => state = "READY"
        /\ child # "none" /\ forced' = FALSE
        /\ UNCHANGED <<sighdlr, masks, sigchld, hung, settings>>
    BY <1>9, OnCpuFacts DEF sys_waitpid_hdlr, Issues, MaySuspend, Calls
  <2>2. CASE child = "zombie"
    <3>1. AgainIs("none") /\ child' = "none" /\ UNCHANGED state
      BY <1>9, <2>2 DEF sys_waitpid_hdlr
    <3> QED BY <2>1, <3>1, AgainFacts
  <2>3. CASE child # "zombie"
    <3>1. AgainIs("waitpid") /\ state' = "WAITING" /\ UNCHANGED child
      BY <1>9, <2>3 DEF sys_waitpid_hdlr
    <3> QED BY <2>1, <3>1, AgainFacts
  <2> QED BY <2>2, <2>3
<1>10. CASE sys_vfork_hdlr
  BY <1>10 DEF sys_vfork_hdlr
<1>17. CASE Preempted
  BY <1>17 DEF Preempted
<1>11. CASE SigReturn
  <2>1. UNCHANGED <<task, sighdlr, masks, osp, family, hung, settings>>
    BY <1>11 DEF SigReturn
  <2> QED BY <1>11, <2>1, ReturnFacts
<1>12. CASE scheduler_exec
  <2>1. NewFrame(Main) \in Frame /\ NewFrame(Main).runs = Main
    BY DEF Frame, NewFrame
  <2>2. stack' = <<NewFrame(Main)>> /\ osp' = 0 /\ sighdlr' = <<>>
    BY <1>12 DEF scheduler_exec
  <2>3. stack' \in Seq(Frame) /\ Len(stack') = 1 /\ stack'[1].runs = Main
    BY <2>1, <2>2
  <2>4. sighdlr' \in Seq([signo : Sig, hdlr : {SIG_IGN, Function}])
    BY <2>2
  <2>5. ~realtime => state = "READY"
    BY <1>12, OnCpuFacts DEF scheduler_exec, Calls
  <2>6. /\ sigmask' = {} /\ sigpend' = {} /\ state' = "READY" /\ forced' = FALSE
        /\ UNCHANGED <<family, hung, settings>>
    BY <1>12 DEF scheduler_exec
  <2>7. FramesInv'
    BY <2>2, <2>3
  <2>8. VforkInv' /\ ForcedInv'
    BY <2>5, <2>6
  <2>9. osp' \in 0..Len(stack')
    BY <2>2, <2>3
  <2>10. forced' \in BOOLEAN
    BY <2>6, Zenon
  <2> QED BY <2>3, <2>4, <2>6, <2>7, <2>8, <2>9, <2>10
<1>13. CASE ChildExecs
  BY <1>13 DEF ChildExecs
<1>14. CASE ChildExits
  BY <1>14 DEF ChildExits
<1>15. CASE task_deliver_sigchld
  <2>1. SIGCHLD \in Sig
    BY DEF Sig
  <2> QED BY <1>15, <2>1, CatchFacts DEF task_deliver_sigchld
<1>16. CASE UNCHANGED vars
  BY <1>16 DEF vars
<1> QED BY <1>1, <1>2, <1>3, <1>4, <1>5, <1>6, <1>7, <1>8, <1>9, <1>10, <1>11,
           <1>12, <1>13, <1>14, <1>15, <1>16, <1>17 DEF Next

(* The inductive invariant holds in every reachable state. *)
LEMMA Invariance == Spec => []IInv
BY InvInit, InvStep, PTL DEF Spec

(* The types of the variables, in every reachable state. *)
THEOREM TypeCorrect == Spec => []TypeOK
BY Invariance, PTL DEF IInv
-----------------------------------------------------------------------------
(* What a signal, wherever it comes from, leaves pending. *)
LEMMA CatchPending ==
  ASSUME NEW s, catch_signal(s)
  PROVE  sigpend' \subseteq sigpend \cup (sigmask \cap {s})
BY DEF catch_signal, Blocked

(* Every action keeps PendingIsBlocked. *)
LEMMA PendingStep == IInv /\ PendingIsBlocked /\ [Next]_vars => PendingIsBlocked'
<1> SUFFICES ASSUME IInv, PendingIsBlocked, [Next]_vars PROVE PendingIsBlocked'
  OBVIOUS
<1> USE DEF PendingIsBlocked, masks, frames, family
<1>1. ASSUME NEW s \in Sig, sys_kill_hdlr(s) PROVE PendingIsBlocked'
  BY <1>1, CatchPending DEF sys_kill_hdlr
<1>2. ASSUME NEW s \in Sig, KillSelf(s) PROVE PendingIsBlocked'
  <2>1. sigpend' \subseteq sigpend \cup (sigmask \cap {s}) /\ UNCHANGED <<sigmask, hung>>
    BY <1>2 DEF KillSelf, Blocked
  <2> QED BY <2>1
<1>3. ASSUME NEW m \in Masks, sys_sigprocmask_hdlr(m) PROVE PendingIsBlocked'
  BY <1>3, PendingFacts DEF sys_sigprocmask_hdlr
<1>4. ASSUME NEW s \in Handled, NEW h \in {SIG_IGN, Function}, sys_sigaction_hdlr(s, h)
      PROVE  PendingIsBlocked'
  BY <1>4, PendingFacts DEF sys_sigaction_hdlr
<1>5. CASE scheduler_exec
  BY <1>5 DEF scheduler_exec
<1>6. CASE task_deliver_sigchld
  BY <1>6, CatchPending DEF task_deliver_sigchld
<1>7. CASE UNCHANGED <<masks, hung>>
  BY <1>7
<1> QED
  <2>1. CASE UNCHANGED vars
    BY <1>7, <2>1 DEF vars
  <2>2. CASE \/ sys_sigsuspend_hdlr \/ ReadSuspends \/ ReadReturns \/ ReadResumed
             \/ sys_waitpid_hdlr \/ sys_vfork_hdlr \/ SigReturn \/ ChildExecs \/ ChildExits
             \/ Preempted
    BY <1>7, <2>2 DEF sys_sigsuspend_hdlr, ReadSuspends, ReadReturns, ReadResumed,
       sys_waitpid_hdlr, sys_vfork_hdlr, SigReturn, ChildExecs, ChildExits, Preempted
  <2> QED BY <1>1, <1>2, <1>3, <1>4, <1>5, <1>6, <2>1, <2>2 DEF Next

(* A signal that the mask lets through is never left pending, whatever the *)
(* order of signals, masks, handlers and calls that issue again.           *)
THEOREM PendingIsBlockedHolds == Spec => []PendingIsBlocked
<1>1. Init => PendingIsBlocked
  BY DEF Init, PendingIsBlocked
<1> QED BY <1>1, Invariance, PendingStep, PTL DEF Spec
-----------------------------------------------------------------------------
(* What the kernel does to a stopped process for a signal it catches. *)
LEMMA CatchStopped ==
  ASSUME NEW s \in Sig, state = "STOPPED", catch_signal(s), state' # "STOPPED"
  PROVE  \/ state' = "ZOMBIE"
         \/ s = SIGCONT /\ Default(s) /\ ~Blocked(s) /\ UNCHANGED frames
<1>1. ~Blocked(s)
  BY DEF catch_signal, Refuses, task
<1>5. ~Refuses
  BY DEF Refuses
<1>4. ~Ignored(s)
  <2>1. Ignored(s) => UNCHANGED <<task, frames>>
    BY <1>1, <1>5 DEF catch_signal, Called, Ignored
  <2> QED BY <2>1 DEF task
<1>6. ~task_resume
  BY DEF task_resume
<1>2. ~sig_trampoline(s)
  BY <1>6 DEF sig_trampoline
<1>3. Default(s) /\ DefaultAction(s)
  BY <1>1, <1>2, <1>4, <1>5 DEF catch_signal, Called
<1> QED BY <1>1, <1>3, <1>6 DEF DefaultAction, StateFor

(* A stopped process that is not real-time runs again only by an unblocked *)
(* SIGCONT without a handler, and then in the frame it was stopped in.     *)
THEOREM StoppedStaysHolds == Spec => StoppedStays
<1> DEFINE Stays == ~realtime /\ state = "STOPPED" /\ state' # "STOPPED" =>
              state' = "ZOMBIE" \/ (Default(SIGCONT) /\ ~Blocked(SIGCONT) /\ UNCHANGED frames)
<1>1. IInv /\ [Next]_vars => [Stays]_vars
  <2> SUFFICES ASSUME IInv, Next, ~realtime, state = "STOPPED", state' # "STOPPED" PROVE Stays
    OBVIOUS
  <2>7. ~OnCpu
    BY OnCpuFacts
  <2>8. ~task_resume
    BY DEF task_resume
  <2> USE <2>7, <2>8 DEF Calls, MaySuspend, Issues
  <2>1. ASSUME NEW s \in Sig, sys_kill_hdlr(s) PROVE Stays
    BY <2>1, CatchStopped DEF sys_kill_hdlr
  <2>2. CASE task_deliver_sigchld
    BY <2>2, CatchStopped DEF task_deliver_sigchld, Sig
  <2>3. ~ChildExecs
    BY DEF ChildExecs, IInv, VforkInv
  <2>4. ~ChildExits /\ ~Preempted
    BY DEF ChildExits, Preempted, task
  <2>5. /\ \A s \in Sig : ~KillSelf(s)
        /\ \A m \in Masks : ~sys_sigprocmask_hdlr(m)
        /\ \A s \in Handled, h \in {SIG_IGN, Function} : ~sys_sigaction_hdlr(s, h)
    BY DEF KillSelf, sys_sigprocmask_hdlr, sys_sigaction_hdlr
  <2>6. /\ ~sys_sigsuspend_hdlr /\ ~ReadSuspends /\ ~ReadReturns /\ ~ReadResumed
        /\ ~sys_waitpid_hdlr /\ ~sys_vfork_hdlr /\ ~SigReturn /\ ~scheduler_exec
    BY DEF sys_sigsuspend_hdlr, ReadSuspends, ReadReturns, ReadResumed,
       sys_waitpid_hdlr, sys_vfork_hdlr, SigReturn, scheduler_exec
  <2> QED BY <2>1, <2>2, <2>3, <2>4, <2>5, <2>6 DEF Next
<1> QED BY <1>1, Invariance, PTL DEF Spec, StoppedStays
-----------------------------------------------------------------------------
(* A process that catch_signal leaves asleep was asleep in the same call;  *)
(* and SIGCHLD leaves it so only if it is blocked or ignored.              *)
LEMMA CatchAsleep ==
  ASSUME IInv, ~forced, NEW s \in Sig, catch_signal(s), state' = "WAITING"
  PROVE  /\ state = "WAITING" /\ Top' = Top
         /\ s = SIGCHLD => Blocked(s) \/ Ignored(s)
<1>1. state = "WAITING" /\ UNCHANGED frames
  BY CatchFacts
<1>2. Top' = Top
  BY <1>1 DEF Top, frames
<1>3. ASSUME s = SIGCHLD, ~Blocked(s), ~Ignored(s) PROVE FALSE
  <2>1. sig_trampoline(s) \/ DefaultAction(s)
    BY <1>1, <1>3 DEF catch_signal, Called, Refuses
  <2>4. ~task_resume
    BY <1>1 DEF task_resume
  <2>2. ~sig_trampoline(s)
    BY <2>4 DEF sig_trampoline
  <2>3. ~DefaultAction(s)
    BY <1>3, <2>4 DEF DefaultAction
  <2> QED BY <2>1, <2>2, <2>3
<1> QED BY <1>1, <1>2, <1>3

(* Every action keeps ExitSeen. *)
LEMMA ExitStep == IInv /\ ExitSeen /\ [Next]_vars => ExitSeen'
<1> SUFFICES ASSUME IInv, ExitSeen, [Next]_vars,
                    state' = "WAITING", Top'.again = "waitpid", child' = "zombie", ~sigchld'
             PROVE  (Blocked(SIGCHLD) \/ Ignored(SIGCHLD))'
  BY DEF ExitSeen
<1> USE DEF ExitSeen, task, masks, frames, family
<1>1. ASSUME UNCHANGED <<sighdlr, sigmask>>, Blocked(SIGCHLD) \/ Ignored(SIGCHLD)
      PROVE  (Blocked(SIGCHLD) \/ Ignored(SIGCHLD))'
  BY <1>1 DEF Blocked, Ignored, Default, HandlersOf
<1>2. ASSUME NEW s \in Sig, sys_kill_hdlr(s) PROVE (Blocked(SIGCHLD) \/ Ignored(SIGCHLD))'
  BY <1>1, <1>2, CatchAsleep DEF sys_kill_hdlr
<1>3. CASE task_deliver_sigchld
  BY <1>1, <1>3, CatchAsleep DEF task_deliver_sigchld, Sig
<1>4. /\ \A s \in Sig : ~KillSelf(s)
      /\ \A m \in Masks : ~sys_sigprocmask_hdlr(m)
      /\ \A s \in Handled, h \in {SIG_IGN, Function} : ~sys_sigaction_hdlr(s, h)
  BY StateAfterFacts DEF KillSelf, sys_sigprocmask_hdlr, sys_sigaction_hdlr,
     check_pending_signals
<1>10. OnCpu => state # "WAITING"
  BY OnCpuFacts
<1>5. ~sys_sigsuspend_hdlr
  BY DEF sys_sigsuspend_hdlr, MaySuspend, Calls, Top
<1>6. ~ReadSuspends
  BY AgainFacts DEF ReadSuspends
<1>7. /\ ~ReadReturns /\ ~sys_vfork_hdlr /\ ~SigReturn /\ ~scheduler_exec
      /\ ~ChildExecs /\ ~ChildExits
  BY <1>10 DEF ReadReturns, sys_vfork_hdlr, SigReturn, scheduler_exec, ChildExecs,
     ChildExits, Issues, MaySuspend, Calls
<1>11. ~ReadResumed
  BY ResumeFacts DEF ReadResumed, IInv
<1>12. CASE Preempted
  BY <1>1, <1>12 DEF Preempted, Top
<1>8. ~sys_waitpid_hdlr
  BY DEF sys_waitpid_hdlr
<1>9. CASE UNCHANGED vars
  BY <1>1, <1>9 DEF vars, Top
<1> QED BY <1>2, <1>3, <1>4, <1>5, <1>6, <1>7, <1>8, <1>9, <1>11, <1>12 DEF Next

(* A process asleep in waitpid after its child has ended and SIGCHLD was   *)
(* delivered has blocked or ignored SIGCHLD.                               *)
THEOREM ExitSeenHolds == Spec => []ExitSeen
<1>1. Init => ExitSeen
  BY DEF Init, ExitSeen
<1> QED BY <1>1, Invariance, ExitStep, PTL DEF Spec
=============================================================================
