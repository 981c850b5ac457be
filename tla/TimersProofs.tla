---------------------------- MODULE TimersProofs ----------------------------
(***************************************************************************)
(* Theorems about Timers, for every number of processes and timers, all    *)
(* delays and every setting.                                               *)
(***************************************************************************)
EXTENDS Timers, FiniteSetTheorems, TLAPS

(* What ktimer_add is given to choose from: an id that no timer of S has   *)
(* and no process has recorded.                                            *)
Fresh(S, i) == (\A e \in S : e.id # i) /\ (\A u \in Process : timer_id[u] # i)

(* While there is room for a timer, there is such an id: there are more    *)
(* ids than timers and processes.                                          *)
LEMMA FreshExists ==
  ASSUME TypeOK, NEW S \in SUBSET timers, IsFiniteSet(timers), Cardinality(S) < MaxTimers
  PROVE  \E i \in Id : Fresh(S, i)
<1> DEFINE A == {e.id : e \in S}
           B == {timer_id[u] : u \in Process}
           f == [e \in S |-> e.id]
           g == [u \in Process |-> timer_id[u]]
           p == Cardinality(Process)
           n == Cardinality(S)
<1>1. IsFiniteSet(S) /\ n \in Nat
  BY FS_Subset, FS_CardinalityType
<1>2. IsFiniteSet(Process) /\ p \in Nat
  BY ProcessAssumption, FS_CardinalityType
<1>3. IsFiniteSet(A) /\ Cardinality(A) <= n
  <2>1. f \in Surjection(S, A)
    BY DEF Surjection
  <2> QED BY <1>1, <2>1, FS_Surjection
<1>4. IsFiniteSet(B) /\ Cardinality(B) <= p
  <2>1. g \in Surjection(Process, B)
    BY DEF Surjection
  <2> QED BY <1>2, <2>1, FS_Surjection
<1>5. /\ IsFiniteSet(A \cup B)
      /\ Cardinality(A \cup B) = Cardinality(A) + Cardinality(B) - Cardinality(A \cap B)
  BY <1>3, <1>4, FS_Union
<1>6. Cardinality(A \cap B) \in Nat /\ Cardinality(A) \in Nat /\ Cardinality(B) \in Nat
  BY <1>3, <1>4, FS_Intersection, FS_CardinalityType
<1>7. Cardinality(A \cup B) \in Nat /\ Cardinality(A \cup B) <= n + p
  <2>1. Cardinality(A \cup B) \in Nat
    BY <1>5, FS_CardinalityType
  <2> HIDE DEF A, B, n, p
  <2> QED BY <1>1, <1>2, <1>3, <1>4, <1>5, <1>6, <2>1
<1>8. IsFiniteSet(Id) /\ Cardinality(Id) = MaxTimers + p
  <2> DEFINE b == MaxTimers + p - 1
  <2>1. 0 \in Int /\ b \in Int /\ ~(0 > b)
    BY <1>2, BoundsAssumption
  <2>2. Id = 0..b
    BY DEF Id
  <2> HIDE DEF b
  <2>3. IsFiniteSet(Id) /\ Cardinality(Id) = b - 0 + 1
    BY <2>1, <2>2, FS_Interval
  <2> QED BY <1>2, <2>3, BoundsAssumption DEF b
<1>9. SUFFICES ASSUME \A i \in Id : ~Fresh(S, i) PROVE FALSE
  OBVIOUS
<1>10. Id \subseteq A \cup B
  BY <1>9 DEF Fresh
<1>11. Cardinality(Id) <= Cardinality(A \cup B) /\ n < MaxTimers
  BY <1>5, <1>10, FS_Subset
<1> HIDE DEF A, B, n, p
<1> QED BY <1>1, <1>2, <1>7, <1>8, <1>11, BoundsAssumption

(* What a change of the heap does. *)
LEMMA HeapFacts ==
  ASSUME NEW S, Heap(S)
  PROVE  /\ timers' = S
         /\ S = {} => first' = first
         /\ S # {} => first' \in S /\ \A e \in S : first'.expire_time <= e.expire_time
         /\ first \in S /\ (\A e \in S : first.expire_time <= e.expire_time) => first' = first
<1> DEFINE Earliest == {e \in S : \A f \in S : e.expire_time <= f.expire_time}
<1>1. timers' = S /\ IF S = {} \/ first \in Earliest THEN first' = first ELSE first' \in Earliest
  BY DEF Heap
<1> QED BY <1>1

(* Timer i is set for task t, next to the timers of S. *)
NewTimer(t, count, handler, i) ==
  [id |-> i, expire_time |-> jiffies + count, task |-> t, handler |-> handler]

Sets(S, t, count, handler, i) ==
  /\ Fresh(S, i) /\ timer_id' = [timer_id EXCEPT ![t] = i]
  /\ Heap(S \cup {NewTimer(t, count, handler, i)})
  /\ NewTimer(t, count, handler, i) \in Ktimer
  /\ Cardinality(S) < MaxTimers

(* ktimer_add sets one timer, under an id that was free. *)
LEMMA AddFacts ==
  ASSUME TypeOK, NEW S \in SUBSET timers, IsFiniteSet(timers),
         NEW t \in Process, NEW count \in Delays, NEW handler \in {"wakeup", "alarm"},
         ktimer_add(S, t, count, handler)
  PROVE  \E i \in Id : Sets(S, t, count, handler, i)
<1> DEFINE i == CHOOSE i \in Id : (\A e \in S : e.id # i) /\ (\A u \in Process : timer_id[u] # i)
<1>1. Cardinality(S) < MaxTimers
  BY DEF ktimer_add
<1>2. i \in Id /\ Fresh(S, i)
  <2>1. \E j \in Id : (\A e \in S : e.id # j) /\ (\A u \in Process : timer_id[u] # j)
    BY <1>1, FreshExists DEF Fresh
  <2> QED BY <2>1 DEF Fresh
<1>3. jiffies + count \in 0..MaxTime
  BY BoundsAssumption DEF ktimer_add, TypeOK
<1>4. /\ timer_id' = [timer_id EXCEPT ![t] = i]
      /\ Heap(S \cup {[id |-> i, expire_time |-> jiffies + count,
                       task |-> t, handler |-> handler]})
  BY DEF ktimer_add
<1> HIDE DEF i
<1> QED BY <1>1, <1>2, <1>3, <1>4 DEF Ktimer, Sets, NewTimer
-----------------------------------------------------------------------------
(* The types, with what they rest on: the heap is finite, its first place  *)
(* holds one of its timers, and the tasklet runs the handler of a timer.   *)
HeapTyped ==
  /\ timers \subseteq Ktimer /\ IsFiniteSet(timers) /\ Cardinality(timers) <= MaxTimers
  /\ first \in Ktimer \cup {NoCall}
  /\ timers # {} => first \in timers
  /\ checker # "idle" => first \in Ktimer

TypeInv == TypeOK /\ HeapTyped

(* The calls that can be issued again. *)
CallRecord == [name : {"none", "sleep", "poll"}, since : 0..MaxTime, count : Delays \cup {0, Endless}]

(* Being suspended, and giving a call up, keep states and calls typed. *)
LEMMA CallsTyped ==
  ASSUME TypeInv, NEW t \in Process
  PROVE  /\ [call EXCEPT ![t] = NoCall] \in [Process -> CallRecord]
         /\ \A name \in {"sleep", "poll"}, count \in Delays \cup {Endless} :
              Suspends(t, name, count) =>
                /\ call' \in [Process -> CallRecord]
                /\ state' \in [Process -> {"READY", "WAITING", "ZOMBIE", "FREE"}]
<1>1. call \in [Process -> CallRecord] /\ jiffies \in 0..MaxTime
  BY DEF TypeInv, TypeOK, CallRecord
<1>2. NoCall \in CallRecord
  BY BoundsAssumption DEF NoCall, CallRecord
<1>3. ASSUME NEW name \in {"sleep", "poll"}, NEW count \in Delays \cup {Endless}
      PROVE  [name |-> name, since |-> jiffies, count |-> count] \in CallRecord
  BY <1>1 DEF CallRecord
<1>4. ASSUME NEW name \in {"sleep", "poll"}, NEW count \in Delays \cup {Endless},
             Suspends(t, name, count)
      PROVE  call' \in [Process -> CallRecord]
  <2> DEFINE r == [name |-> name, since |-> jiffies, count |-> count]
  <2>1. r \in CallRecord
    BY <1>3
  <2>2. call' = [call EXCEPT ![t] = IF call[t] = NoCall THEN r ELSE call[t]]
    BY <1>4 DEF Suspends
  <2> HIDE DEF r
  <2> QED BY <1>1, <2>1, <2>2
<1>5. ASSUME NEW name \in {"sleep", "poll"}, NEW count \in Delays \cup {Endless},
             Suspends(t, name, count)
      PROVE  state' \in [Process -> {"READY", "WAITING", "ZOMBIE", "FREE"}]
  BY <1>5 DEF Suspends, TypeInv, TypeOK
<1> QED BY <1>1, <1>2, <1>4, <1>5

(* Removing timers and setting one keep the heap typed. *)
LEMMA HeapKeepsTypes ==
  ASSUME TypeInv, NEW S \in SUBSET Ktimer, IsFiniteSet(S), Cardinality(S) <= MaxTimers,
         Heap(S), checker' = "idle" \/ first' \in Ktimer \/ checker' = checker
  PROVE  HeapTyped'
<1>1. /\ timers' = S
      /\ S = {} => first' = first
      /\ S # {} => first' \in S
  BY HeapFacts
<1> QED BY <1>1 DEF TypeInv, HeapTyped

(* A subset of the timers is as good as the timers. *)
LEMMA FewerTimers ==
  ASSUME TypeInv, NEW S \in SUBSET timers
  PROVE  S \in SUBSET Ktimer /\ IsFiniteSet(S) /\ Cardinality(S) <= MaxTimers
<1>1. IsFiniteSet(S) /\ Cardinality(S) <= Cardinality(timers)
  BY FS_Subset DEF TypeInv, HeapTyped
<1>2. Cardinality(S) \in Nat /\ Cardinality(timers) \in Nat
  BY <1>1, FS_CardinalityType DEF TypeInv, HeapTyped
<1> QED BY <1>1, <1>2, BoundsAssumption DEF TypeInv, HeapTyped

(* ktimer_del keeps heap and recorded ids typed. *)
LEMMA DropTyped ==
  ASSUME TypeInv, NEW t \in Process, DropTimer(t), checker' = checker
  PROVE  HeapTyped' /\ timer_id' = [timer_id EXCEPT ![t] = NoId]
<1>1. Without(timer_id[t]) \in SUBSET timers
  BY DEF Without
<1> QED BY <1>1, FewerTimers, HeapKeepsTypes DEF DropTimer

(* ktimer_add keeps heap and recorded ids typed. *)
LEMMA AddTyped ==
  ASSUME TypeInv, NEW S \in SUBSET timers, NEW t \in Process, NEW count \in Delays,
         NEW handler \in {"wakeup", "alarm"}, ktimer_add(S, t, count, handler),
         checker' = checker
  PROVE  HeapTyped' /\ \E i \in Id : timer_id' = [timer_id EXCEPT ![t] = i]
<1>1. PICK i \in Id : Sets(S, t, count, handler, i)
  <2>1. TypeOK /\ IsFiniteSet(timers)
    BY DEF TypeInv, HeapTyped
  <2> QED BY <2>1, AddFacts
<1> DEFINE e == NewTimer(t, count, handler, i)
<1>2. Heap(S \cup {e}) /\ e \in Ktimer /\ Cardinality(S) < MaxTimers
  BY <1>1 DEF Sets
<1> HIDE DEF e
<1>3. S \in SUBSET Ktimer /\ IsFiniteSet(S) /\ Cardinality(S) \in Nat
  BY FewerTimers, FS_CardinalityType
<1>4. /\ IsFiniteSet(S \cup {e})
      /\ Cardinality(S \cup {e}) = IF e \in S THEN Cardinality(S) ELSE Cardinality(S) + 1
  BY <1>3, FS_AddElement
<1>5. Cardinality(S \cup {e}) <= MaxTimers
  BY <1>2, <1>3, <1>4, BoundsAssumption
<1>6. HeapTyped'
  BY <1>2, <1>3, <1>4, <1>5, HeapKeepsTypes
<1> QED BY <1>1, <1>6 DEF Sets

(* The types of the next state, part by part. *)
LEMMA TypesFromParts ==
  ASSUME HeapTyped', jiffies' \in 0..MaxTime, checker' \in {"idle", "expired", "ran"},
         state' \in [Process -> {"READY", "WAITING", "ZOMBIE", "FREE"}],
         timer_id' \in [Process -> Id \cup {NoId}], timeout' \subseteq Process,
         call' \in [Process -> CallRecord], setting' \in Settings
  PROVE  TypeInv'
BY DEF TypeInv, TypeOK, HeapTyped, CallRecord

(* The initial state is typed. *)
LEMMA TypeInit == Init => TypeInv
BY FS_EmptySet, BoundsAssumption DEF Init, TypeInv, TypeOK, HeapTyped, NoCall

(* Every step keeps the types. *)
LEMMA TypeStep == TypeInv /\ [Next /\ UNCHANGED setting]_vars => TypeInv'
<1> SUFFICES ASSUME TypeInv, [Next /\ UNCHANGED setting]_vars PROVE TypeInv'
  OBVIOUS
<1>0. /\ jiffies \in 0..MaxTime /\ checker \in {"idle", "expired", "ran"}
      /\ state \in [Process -> {"READY", "WAITING", "ZOMBIE", "FREE"}]
      /\ timer_id \in [Process -> Id \cup {NoId}] /\ timeout \subseteq Process
      /\ call \in [Process -> CallRecord] /\ setting \in Settings /\ HeapTyped
  BY DEF TypeInv, TypeOK, CallRecord
<1>c. \A t \in Process : [call EXCEPT ![t] = NoCall] \in [Process -> CallRecord]
  BY CallsTyped
<1>1. CASE UNCHANGED vars
  <2>1. HeapTyped'
    BY <1>0, <1>1 DEF vars, HeapTyped, Ktimer, Id
  <2> QED BY <1>0, <1>1, <2>1, TypesFromParts DEF vars
<1>2. CASE Next /\ UNCHANGED setting
  <2>0. setting' \in Settings
    BY <1>0, <1>2
  <2>1. ASSUME NEW t \in Process, SleepReturns(t) PROVE TypeInv'
    <3>1. HeapTyped' /\ timer_id' = [timer_id EXCEPT ![t] = NoId]
      BY <2>1, DropTyped DEF SleepReturns, Returns
    <3> QED BY <1>0, <1>c, <2>0, <2>1, <3>1, TypesFromParts DEF SleepReturns, Returns
  <2>2. ASSUME NEW t \in Process, PollTimesOut(t) \/ PollFails(t) PROVE TypeInv'
    <3>1. UNCHANGED <<timers, first, checker>>
      BY <2>2 DEF PollTimesOut, PollFails, Returns
    <3>2. HeapTyped'
      BY <1>0, <3>1 DEF HeapTyped, Ktimer, Id
    <3> QED BY <1>0, <1>c, <2>0, <2>2, <3>2, TypesFromParts DEF PollTimesOut, PollFails, Returns
  <2>3. ASSUME NEW t \in Process, PollReady(t) PROVE TypeInv'
    <3>1. HeapTyped' /\ timer_id' = [timer_id EXCEPT ![t] = NoId]
      BY <2>3, DropTyped DEF PollReady, Returns
    <3> QED BY <1>0, <1>c, <2>0, <2>3, <3>1, TypesFromParts DEF PollReady, Returns
  <2>4. ASSUME NEW t \in Process, NEW c \in Delays, SleepSuspends(t, c) PROVE TypeInv'
    <3>1. HeapTyped' /\ \E i \in Id : timer_id' = [timer_id EXCEPT ![t] = i]
      BY <2>4, AddTyped DEF SleepSuspends
    <3>2. call' \in [Process -> CallRecord] /\ state' \in [Process -> {"READY", "WAITING", "ZOMBIE", "FREE"}]
      BY <2>4, CallsTyped DEF SleepSuspends
    <3> QED BY <1>0, <2>0, <2>4, <3>1, <3>2, TypesFromParts DEF SleepSuspends
  <2>5. ASSUME NEW t \in Process, NEW c \in Delays \cup {Endless}, PollSuspends(t, c) PROVE TypeInv'
    <3>1. HeapTyped' /\ (timer_id' = timer_id \/ \E i \in Id : timer_id' = [timer_id EXCEPT ![t] = i])
      <4>1. CASE c # Endless /\ ktimer_add(timers, t, c, "wakeup")
        <5>1. c \in Delays /\ checker' = checker
          BY <2>5, <4>1 DEF PollSuspends
        <5> QED BY <4>1, <5>1, AddTyped
      <4>2. CASE UNCHANGED <<timers, first, timer_id>>
        <5>1. UNCHANGED <<timers, first, checker>>
          BY <2>5, <4>2 DEF PollSuspends
        <5>2. HeapTyped'
          BY <1>0, <5>1 DEF HeapTyped, Ktimer, Id
        <5> QED BY <4>2, <5>2
      <4> QED BY <2>5, <4>1, <4>2 DEF PollSuspends
    <3>2. call' \in [Process -> CallRecord] /\ state' \in [Process -> {"READY", "WAITING", "ZOMBIE", "FREE"}]
      BY <2>5, CallsTyped DEF PollSuspends
    <3> QED BY <1>0, <2>0, <2>5, <3>1, <3>2, TypesFromParts DEF PollSuspends
  <2>6. ASSUME NEW t \in Process, NEW c \in Delays, sys_alarm_hdlr(t, c) PROVE TypeInv'
    <3>0. Without(timer_id[t]) \in SUBSET timers
      BY DEF Without
    <3>1. HeapTyped' /\ \E i \in Id : timer_id' = [timer_id EXCEPT ![t] = i]
      BY <2>6, <3>0, AddTyped DEF sys_alarm_hdlr
    <3> QED BY <1>0, <2>0, <2>6, <3>1, TypesFromParts DEF sys_alarm_hdlr
  <2>7. ASSUME NEW t \in Process, scheduler_exec(t) \/ Resumed(t) \/ Signal(t) \/ Exit(t) \/ NewTask(t)
        PROVE  TypeInv'
    <3>1. UNCHANGED <<timers, first, checker>>
      BY <2>7 DEF scheduler_exec, Resumed, Signal, Exit, NewTask
    <3>2. HeapTyped'
      BY <1>0, <3>1 DEF HeapTyped, Ktimer, Id
    <3> QED BY <1>0, <1>c, <2>0, <2>7, <3>2, TypesFromParts
            DEF scheduler_exec, Resumed, Signal, Signalled, Exit, NewTask
  <2>8. ASSUME NEW t \in Process, task_destroy(t) PROVE TypeInv'
    <3>1. HeapTyped' /\ timer_id' = [timer_id EXCEPT ![t] = NoId]
      BY <2>8, DropTyped DEF task_destroy
    <3> QED BY <1>0, <1>c, <2>0, <2>8, <3>1, TypesFromParts DEF task_destroy
  <2>9. CASE sys_tick_handler
    <3>2. HeapTyped'
      BY <1>0, <2>9 DEF sys_tick_handler, HeapTyped, Ktimer, Id
    <3>3. jiffies' \in 0..MaxTime
      BY <1>0, <2>9, BoundsAssumption DEF sys_tick_handler
    <3> QED BY <1>0, <2>0, <2>9, <3>2, <3>3, TypesFromParts DEF sys_tick_handler
  <2>10. CASE StartCheck
    <3>2. HeapTyped'
      BY <1>0, <2>10 DEF StartCheck, ktimer_expired, HeapTyped, Ktimer, Id
    <3> QED BY <1>0, <2>0, <2>10, <3>2, TypesFromParts DEF StartCheck
  <2>11. CASE RunHandler
    <3>1. first \in Ktimer /\ first.task \in Process
      BY <1>0, <2>11 DEF RunHandler, HeapTyped, Ktimer
    <3>2. HeapTyped'
      BY <1>0, <2>11, <3>1 DEF RunHandler, HeapTyped, Ktimer, Id
    <3>3. CASE sleepy_task_wakeup(first.task)
      BY <1>0, <2>0, <2>11, <3>1, <3>2, <3>3, TypesFromParts DEF RunHandler, sleepy_task_wakeup
    <3>4. CASE alarm_task(first.task)
      BY <1>0, <1>c, <2>0, <2>11, <3>1, <3>2, <3>4, TypesFromParts DEF RunHandler, alarm_task, Signalled
    <3> QED BY <2>11, <3>3, <3>4 DEF RunHandler
  <2>12. CASE RemoveTop
    <3>1. Heap(timers \ {first}) /\ first \in Ktimer
      BY <1>0, <2>12 DEF RemoveTop, HeapTyped
    <3>2. first' \in Ktimer
      BY <1>0, <3>1, HeapFacts DEF HeapTyped
    <3>3. HeapTyped'
      BY <3>1, <3>2, FewerTimers, HeapKeepsTypes
    <3> QED BY <1>0, <2>0, <2>12, <3>3, TypesFromParts DEF RemoveTop
  <2> QED BY <1>2, <2>1, <2>2, <2>3, <2>4, <2>5, <2>6, <2>7, <2>8, <2>9, <2>10, <2>11, <2>12 DEF Next
<1> QED BY <1>1, <1>2

(* The types, and what they rest on, in every reachable state. *)
LEMMA Typed == Spec => []TypeInv
BY TypeInit, TypeStep, PTL DEF Spec

(* The variables keep their types; above all, ktimer_add never fails to    *)
(* find an id, and the tasklet never runs the handler of what is no timer. *)
THEOREM TypeCorrect == Spec => []TypeOK
<1>1. TypeInv => TypeOK
  BY DEF TypeInv
<1> QED BY <1>1, Typed, PTL
-----------------------------------------------------------------------------
(* What a process records is the id of a timer of its own: no step gives   *)
(* the id it has recorded to another's timer, or records another's.        *)
LEMMA OwnStep == TypeInv /\ TimerIsOwn /\ [Next /\ UNCHANGED setting]_vars => TimerIsOwn'
<1> SUFFICES ASSUME TypeInv, TimerIsOwn, [Next /\ UNCHANGED setting]_vars PROVE TimerIsOwn'
  OBVIOUS
<1>0. /\ \A e \in timers : e.id \in Id /\ e.id # NoId /\ e.task \in Process
      /\ timer_id \in [Process -> Id \cup {NoId}] /\ first \in Ktimer \cup {NoCall}
  BY BoundsAssumption DEF TypeInv, TypeOK, HeapTyped, Ktimer, Id, NoId
<1>1. ASSUME timers' \subseteq timers,
             \A u \in Process : timer_id'[u] = timer_id[u] \/ timer_id'[u] = NoId
      PROVE  TimerIsOwn'
  BY <1>0, <1>1 DEF TimerIsOwn
<1>2. ASSUME NEW t \in Process, DropTimer(t) PROVE TimerIsOwn'
  <2>1. timers' \subseteq timers
    BY <1>2, HeapFacts DEF DropTimer, Without
  <2> QED BY <1>0, <1>1, <1>2, <2>1 DEF DropTimer
<1>3. ASSUME NEW t \in Process, NEW S \in SUBSET timers, NEW count \in Delays,
             NEW handler \in {"wakeup", "alarm"}, ktimer_add(S, t, count, handler)
      PROVE  TimerIsOwn'
  <2>1. PICK i \in Id : Sets(S, t, count, handler, i)
    <3>1. TypeOK /\ IsFiniteSet(timers)
      BY DEF TypeInv, HeapTyped
    <3> QED BY <1>3, <3>1, AddFacts
  <2> DEFINE n == NewTimer(t, count, handler, i)
  <2>2. Heap(S \cup {n})
    BY <2>1 DEF Sets
  <2>3. n.id = i /\ n.task = t
    BY DEF NewTimer
  <2> HIDE DEF n
  <2>4. timers' = S \cup {n}
    BY <2>2, HeapFacts
  <2>5. /\ timer_id' = [timer_id EXCEPT ![t] = i]
        /\ \A e \in S : e.id # i
        /\ \A u \in Process : timer_id[u] # i
    BY <2>1 DEF Sets, Fresh
  <2> QED BY <1>0, <2>3, <2>4, <2>5 DEF TimerIsOwn
<1>4. CASE UNCHANGED vars
  BY <1>1, <1>4 DEF vars
<1>5. ASSUME NEW t \in Process, SleepReturns(t) \/ PollReady(t) \/ task_destroy(t) PROVE TimerIsOwn'
  BY <1>2, <1>5 DEF SleepReturns, PollReady, task_destroy
<1>6. ASSUME NEW t \in Process, PollTimesOut(t) \/ PollFails(t) \/ Resumed(t) \/ Signal(t) \/ Exit(t)
      PROVE  TimerIsOwn'
  BY <1>1, <1>6 DEF PollTimesOut, PollFails, Resumed, Signal, Exit
<1>7. ASSUME NEW t \in Process, scheduler_exec(t) \/ NewTask(t) PROVE TimerIsOwn'
  BY <1>0, <1>1, <1>7 DEF scheduler_exec, NewTask
<1>8. ASSUME NEW t \in Process, NEW c \in Delays, SleepSuspends(t, c) PROVE TimerIsOwn'
  BY <1>3, <1>8 DEF SleepSuspends
<1>9. ASSUME NEW t \in Process, NEW c \in Delays, sys_alarm_hdlr(t, c) PROVE TimerIsOwn'
  <2>1. Without(timer_id[t]) \in SUBSET timers
    BY DEF Without
  <2> QED BY <1>3, <1>9, <2>1 DEF sys_alarm_hdlr
<1>10. ASSUME NEW t \in Process, NEW c \in Delays \cup {Endless}, PollSuspends(t, c) PROVE TimerIsOwn'
  <2>1. CASE c # Endless /\ ktimer_add(timers, t, c, "wakeup")
    BY <1>3, <2>1
  <2>2. CASE UNCHANGED <<timers, first, timer_id>>
    BY <1>1, <2>2
  <2> QED BY <1>10, <2>1, <2>2 DEF PollSuspends
<1>11. CASE sys_tick_handler \/ StartCheck
  BY <1>1, <1>11 DEF sys_tick_handler, StartCheck
<1>12. CASE RunHandler
  <2>1. first.task \in Process
    BY <1>12 DEF RunHandler, TypeInv, HeapTyped, Ktimer
  <2>2. timers' = timers /\ timer_id' = [timer_id EXCEPT ![first.task] = NoId]
    BY <1>12 DEF RunHandler, sleepy_task_wakeup, alarm_task
  <2> QED BY <1>0, <1>1, <2>1, <2>2
<1>13. CASE RemoveTop
  <2>1. timers' \subseteq timers /\ timer_id' = timer_id
    BY <1>13, HeapFacts DEF RemoveTop
  <2> QED BY <1>1, <2>1
<1> QED BY <1>4, <1>5, <1>6, <1>7, <1>8, <1>9, <1>10, <1>11, <1>12, <1>13 DEF Next

(* No call and no end of a process deletes another process's timer,        *)
(* whatever programs do: ktimer_del is given timer_id.                     *)
THEOREM TimerIsOwnHolds == Spec => []TimerIsOwn
<1>1. Init => TimerIsOwn
  BY DEF Init, TimerIsOwn
<1> QED BY <1>1, OwnStep, Typed, PTL DEF Spec
-----------------------------------------------------------------------------
(* The timer whose handler has been run is still in the heap until the     *)
(* tasklet goes on; every other one is pending.                            *)
Pending(e) == e \in timers /\ ~(checker = "ran" /\ e = first)

(* The first place holds an earliest timer, and the one that the tasklet   *)
(* is about to run, or has run, is expired.                                *)
FirstInv ==
  /\ timers # {} => first \in timers /\ \A e \in timers : first.expire_time <= e.expire_time
  /\ checker # "idle" => first \in timers /\ first.expire_time < jiffies

(* No two timers have the same id. *)
IdsDiffer == \A e, f \in timers : e.id = f.id => e = f

(* A pending timer is the one its process has recorded; the process waits  *)
(* for it, or has ended since.                                             *)
PendingIsRecorded ==
  /\ \A e \in timers : e.handler = "wakeup"
  /\ \A e \in timers : Pending(e) =>
       timer_id[e.task] = e.id /\ state[e.task] \in {"WAITING", "ZOMBIE"}
  /\ checker = "ran" => state[first.task] # "FREE"

(* What a process has recorded, and what it is to call again, by its state. *)
Waits(t) ==
  /\ t \notin timeout /\ call[t].name = "sleep"
  /\ \E e \in timers : /\ Pending(e) /\ e.task = t
                       /\ e.expire_time >= call[t].since + call[t].count

Runs(t) ==
  /\ timer_id[t] = NoId
  /\ IF t \in timeout THEN call[t].name = "sleep" /\ jiffies > call[t].since + call[t].count
                      ELSE call[t] = NoCall

SleeperInv ==
  \A t \in Process :
    /\ state[t] = "WAITING" => Waits(t)
    /\ state[t] = "READY" => Runs(t)
    /\ t \in timeout => timer_id[t] = NoId

SleepInv == FirstInv /\ IdsDiffer /\ PendingIsRecorded /\ SleeperInv

(* Numbers, ids and tasks, as the steps below need them. *)
LEMMA TypesOfSleep ==
  ASSUME TypeInv
  PROVE  /\ \A e \in timers : e.id \in Id /\ e.id # NoId /\ e.task \in Process /\ e.expire_time \in Int
         /\ jiffies \in Int
         /\ \A t \in Process : call[t].since \in Int /\ call[t].count \in Int
         /\ state \in [Process -> {"READY", "WAITING", "ZOMBIE", "FREE"}]
         /\ timer_id \in [Process -> Id \cup {NoId}]
         /\ DOMAIN call = Process
<1>1. /\ timers \subseteq Ktimer /\ call \in [Process -> CallRecord]
      /\ jiffies \in 0..MaxTime
      /\ state \in [Process -> {"READY", "WAITING", "ZOMBIE", "FREE"}]
      /\ timer_id \in [Process -> Id \cup {NoId}]
  BY DEF TypeInv, TypeOK, CallRecord
<1>2. \A e \in Ktimer : e.id \in Id /\ e.id # NoId /\ e.task \in Process /\ e.expire_time \in Int
  BY BoundsAssumption DEF Ktimer, Id, NoId
<1>3. \A r \in CallRecord : r.since \in Int /\ r.count \in Int
  <2>1. ASSUME NEW r \in CallRecord PROVE r.since \in 0..MaxTime /\ r.count \in Delays \cup {0, Endless}
    BY DEF CallRecord
  <2>2. Delays \cup {0, Endless} \subseteq Int
    BY BoundsAssumption DEF Endless
  <2> QED BY <2>1, <2>2
<1> QED BY <1>1, <1>2, <1>3

(* A sleep that is suspended sets a timer for its end, and leaves every    *)
(* other timer and the first place of a check that is going on alone.      *)
LEMMA SleepSuspendsKeeps ==
  ASSUME TypeInv, SleepInv, NEW t \in Process, NEW c \in Delays, SleepSuspends(t, c)
  PROVE  SleepInv'
<1>0. TypeOK /\ IsFiniteSet(timers)
  BY DEF TypeInv, HeapTyped
<1>1. PICK i \in Id : Sets(timers, t, c, "wakeup", i)
  BY <1>0, AddFacts DEF SleepSuspends
<1> DEFINE n == NewTimer(t, c, "wakeup", i)
<1>2. /\ n.id = i /\ n.task = t /\ n.expire_time = jiffies + c /\ n.handler = "wakeup"
      /\ c \in Nat
  BY BoundsAssumption DEF NewTimer
<1>3. Heap(timers \cup {n}) /\ n \in Ktimer
  BY <1>1 DEF Sets
<1> HIDE DEF n
<1>4. /\ timers' = timers \cup {n}
      /\ first' \in timers' /\ \A e \in timers' : first'.expire_time <= e.expire_time
      /\ first \in timers' /\ (\A e \in timers' : first.expire_time <= e.expire_time) => first' = first
  BY <1>3, HeapFacts
<1>5. /\ timer_id' = [timer_id EXCEPT ![t] = i]
      /\ \A e \in timers : e.id # i
      /\ \A u \in Process : timer_id[u] # i
  BY <1>1 DEF Sets, Fresh
<1>6. /\ state[t] = "READY" /\ t \notin timeout
      /\ checker' = checker /\ jiffies' = jiffies /\ timeout' = timeout
      /\ state' = [state EXCEPT ![t] = "WAITING"]
      /\ call' = [call EXCEPT ![t] = IF call[t] = NoCall
                                       THEN [name |-> "sleep", since |-> jiffies, count |-> c]
                                       ELSE call[t]]
  BY DEF SleepSuspends, Asks, Issues, Suspends
<1>7. timer_id[t] = NoId /\ call[t] = NoCall
  BY <1>6 DEF SleepInv, SleeperInv, Runs
<1>8. /\ call'[t].name = "sleep" /\ call'[t].since = jiffies /\ call'[t].count = c
      /\ \A u \in Process \ {t} : call'[u] = call[u]
  BY <1>6, <1>7, TypesOfSleep
<1>9. checker # "idle" => first' = first /\ n # first
  BY <1>2, <1>4, <1>6, TypesOfSleep DEF SleepInv, FirstInv
<1>10. n \notin timers
  BY <1>2, <1>5
<1>11. \A e \in timers : Pending(e)' <=> Pending(e)
  BY <1>4, <1>6, <1>9 DEF Pending
<1>12. n \in timers' /\ ~(checker' = "ran" /\ n = first')
  BY <1>4, <1>6, <1>9
<1>13. FirstInv'
  BY <1>4, <1>6, <1>9, TypesOfSleep DEF FirstInv, SleepInv
<1>14. IdsDiffer'
  BY <1>2, <1>4, <1>5 DEF IdsDiffer, SleepInv
<1>15. PendingIsRecorded'
  <2>1. \A e \in timers : Pending(e) => e.task # t
    BY <1>7, TypesOfSleep DEF SleepInv, PendingIsRecorded
  <2>2. \A e \in timers' : Pending(e)' =>
           timer_id'[e.task] = e.id /\ state'[e.task] \in {"WAITING", "ZOMBIE"}
    BY <1>2, <1>4, <1>5, <1>6, <1>11, <2>1, TypesOfSleep DEF SleepInv, PendingIsRecorded
  <2>3. checker' = "ran" => state'[first'.task] # "FREE"
    BY <1>6, <1>9, TypesOfSleep DEF SleepInv, PendingIsRecorded, FirstInv
  <2> QED BY <1>2, <1>4, <2>2, <2>3 DEF SleepInv, PendingIsRecorded
<1>16. SleeperInv'
  <2>1. Waits(t)'
    <3>1. n.expire_time >= call'[t].since + call'[t].count
      BY <1>2, <1>8, TypesOfSleep
    <3> QED BY <1>2, <1>6, <1>8, <1>12, <3>1 DEF Waits, Pending
  <2>2. ASSUME NEW u \in Process \ {t}, Waits(u) PROVE Waits(u)'
    <3>1. PICK e \in timers : Pending(e) /\ e.task = u /\ e.expire_time >= call[u].since + call[u].count
      BY <2>2 DEF Waits
    <3>2. e \in timers' /\ Pending(e)'
      BY <1>4, <1>11, <3>1
    <3> QED BY <1>6, <1>8, <2>2, <3>1, <3>2 DEF Waits
  <2>3. ASSUME NEW u \in Process \ {t}, Runs(u) PROVE Runs(u)'
    BY <1>5, <1>6, <1>8, <2>3, TypesOfSleep DEF Runs
  <2> QED BY <1>5, <1>6, <2>1, <2>2, <2>3, TypesOfSleep DEF SleepInv, SleeperInv
<1> QED BY <1>13, <1>14, <1>15, <1>16 DEF SleepInv

(* A sleep that returns finds no timer to delete. *)
LEMMA SleepReturnsKeeps ==
  ASSUME TypeInv, SleepInv, NEW t \in Process, SleepReturns(t)
  PROVE  SleepInv' /\ call[t].name = "sleep" /\ jiffies > call[t].since + call[t].count
<1>1. /\ state[t] = "READY" /\ t \in timeout /\ timeout' = timeout \ {t}
      /\ call' = [call EXCEPT ![t] = NoCall] /\ UNCHANGED <<jiffies, checker, state>>
      /\ Heap(Without(timer_id[t])) /\ timer_id' = [timer_id EXCEPT ![t] = NoId]
  BY DEF SleepReturns, Issues, Returns, DropTimer
<1>2. timer_id[t] = NoId /\ call[t].name = "sleep" /\ jiffies > call[t].since + call[t].count
  BY <1>1 DEF SleepInv, SleeperInv, Runs
<1>3. Without(timer_id[t]) = timers /\ timer_id' = timer_id
  BY <1>1, <1>2, TypesOfSleep DEF Without
<1>4. timers' = timers /\ first' = first
  BY <1>1, <1>3, HeapFacts DEF SleepInv, FirstInv
<1>5. FirstInv' /\ IdsDiffer' /\ PendingIsRecorded'
  BY <1>1, <1>3, <1>4 DEF SleepInv, FirstInv, IdsDiffer, PendingIsRecorded, Pending
<1>6. SleeperInv'
  <2>1. Runs(t)'
    BY <1>1, <1>2, <1>3, TypesOfSleep DEF Runs
  <2>2. ASSUME NEW u \in Process \ {t} PROVE (Waits(u) => Waits(u)') /\ (Runs(u) => Runs(u)')
    <3>1. call'[u] = call[u] /\ (u \in timeout' <=> u \in timeout)
      BY <1>1, TypesOfSleep
    <3> QED BY <1>1, <1>3, <1>4, <3>1 DEF Waits, Runs, Pending
  <2> QED BY <1>1, <1>3, <2>1, <2>2 DEF SleepInv, SleeperInv
<1> QED BY <1>2, <1>5, <1>6 DEF SleepInv

(* A process that ends leaves its timer to the tasklet that frees it, and  *)
(* the tasklet, which does not interrupt the check, deletes it; a new      *)
(* process has none.                                                       *)
LEMMA EndKeeps ==
  ASSUME TypeInv, TimerIsOwn, SleepInv, NEW t \in Process, Exit(t) \/ task_destroy(t) \/ NewTask(t)
  PROVE  SleepInv'
<1>1. CASE Exit(t)
  <2>1. /\ state' = [state EXCEPT ![t] = "ZOMBIE"] /\ call' = [call EXCEPT ![t] = NoCall]
        /\ UNCHANGED <<jiffies, timers, first, checker, timer_id, timeout>>
        /\ state[t] \in {"READY", "WAITING"}
    BY <1>1 DEF Exit
  <2>2. FirstInv' /\ IdsDiffer'
    BY <2>1 DEF SleepInv, FirstInv, IdsDiffer
  <2>3. PendingIsRecorded'
    BY <2>1, TypesOfSleep DEF SleepInv, PendingIsRecorded, Pending, FirstInv
  <2>4. ASSUME NEW u \in Process \ {t} PROVE (Waits(u) => Waits(u)') /\ (Runs(u) => Runs(u)')
    <3>1. call'[u] = call[u]
      BY <2>1, TypesOfSleep
    <3> QED BY <2>1, <3>1 DEF Waits, Runs, Pending
  <2>5. SleeperInv'
    BY <2>1, <2>4, TypesOfSleep DEF SleepInv, SleeperInv
  <2> QED BY <2>2, <2>3, <2>5 DEF SleepInv
<1>2. CASE task_destroy(t)
  <2>1. /\ checker = "idle" /\ state[t] = "ZOMBIE"
        /\ state' = [state EXCEPT ![t] = "FREE"]
        /\ Heap(Without(timer_id[t])) /\ timer_id' = [timer_id EXCEPT ![t] = NoId]
        /\ timeout' = timeout \ {t} /\ UNCHANGED <<jiffies, checker, call>>
    BY <1>2 DEF task_destroy, DropTimer
  <2>2. /\ timers' = {e \in timers : e.id # timer_id[t]}
        /\ timers' # {} => first' \in timers' /\ \A e \in timers' : first'.expire_time <= e.expire_time
    BY <2>1, HeapFacts DEF Without
  <2>3. \A e \in timers : Pending(e) /\ timer_id[e.task] = e.id /\ state[e.task] \in {"WAITING", "ZOMBIE"}
    BY <2>1 DEF Pending, SleepInv, PendingIsRecorded
  <2>4. \A e \in timers : e \in timers' <=> e.task # t
    <3>1. ASSUME NEW e \in timers, e.task # t PROVE e.id # timer_id[t]
      BY <3>1 DEF TimerIsOwn
    <3> QED BY <2>2, <2>3, <3>1
  <2>5. FirstInv' /\ IdsDiffer'
    BY <2>1, <2>2 DEF SleepInv, FirstInv, IdsDiffer
  <2>6. PendingIsRecorded'
    BY <2>1, <2>2, <2>3, <2>4, TypesOfSleep DEF SleepInv, PendingIsRecorded, Pending
  <2>7. ASSUME NEW u \in Process \ {t} PROVE (Waits(u) => Waits(u)') /\ (Runs(u) => Runs(u)')
    <3>1. timer_id'[u] = timer_id[u] /\ (u \in timeout' <=> u \in timeout)
      BY <2>1, TypesOfSleep
    <3>2. \A e \in timers : e.task = u => e \in timers' /\ Pending(e)'
      BY <2>1, <2>4 DEF Pending
    <3> QED BY <2>1, <3>1, <3>2 DEF Waits, Runs
  <2>8. SleeperInv'
    BY <2>1, <2>7, TypesOfSleep DEF SleepInv, SleeperInv
  <2> QED BY <2>5, <2>6, <2>8 DEF SleepInv
<1>3. CASE NewTask(t)
  <2>1. /\ state[t] = "FREE" /\ state' = [state EXCEPT ![t] = "READY"]
        /\ timer_id' = [timer_id EXCEPT ![t] = NoId] /\ timeout' = timeout \ {t}
        /\ call' = [call EXCEPT ![t] = NoCall] /\ UNCHANGED <<jiffies, timers, first, checker>>
    BY <1>3 DEF NewTask
  <2>2. FirstInv' /\ IdsDiffer'
    BY <2>1 DEF SleepInv, FirstInv, IdsDiffer
  <2>3. \A e \in timers : Pending(e) => e.task # t
    BY <2>1 DEF SleepInv, PendingIsRecorded
  <2>4. PendingIsRecorded'
    BY <2>1, <2>3, TypesOfSleep DEF SleepInv, PendingIsRecorded, Pending, FirstInv
  <2>5. ASSUME NEW u \in Process \ {t} PROVE (Waits(u) => Waits(u)') /\ (Runs(u) => Runs(u)')
    <3>1. call'[u] = call[u] /\ timer_id'[u] = timer_id[u] /\ (u \in timeout' <=> u \in timeout)
      BY <2>1, TypesOfSleep
    <3> QED BY <2>1, <3>1 DEF Waits, Runs, Pending
  <2>6. Runs(t)' /\ state'[t] = "READY"
    BY <2>1, TypesOfSleep DEF Runs
  <2>7. SleeperInv'
    BY <2>1, <2>5, <2>6, TypesOfSleep DEF SleepInv, SleeperInv
  <2> QED BY <2>2, <2>4, <2>7 DEF SleepInv
<1> QED BY <1>1, <1>2, <1>3

(* The tasklet runs the handler of the first timer: that wakes the task    *)
(* which waits for it, after its time, and no other.                       *)
LEMMA RunHandlerKeeps ==
  ASSUME TypeInv, SleepInv, RunHandler
  PROVE  SleepInv'
<1>1. /\ checker = "expired" /\ checker' = "ran" /\ UNCHANGED <<jiffies, timers, first>>
      /\ first \in timers /\ first.expire_time < jiffies /\ first.handler = "wakeup"
  BY DEF RunHandler, SleepInv, FirstInv, PendingIsRecorded
<1>0. PICK u \in Process : u = first.task
  BY <1>1, TypesOfSleep
<1>2. timer_id[u] = first.id /\ state[u] \in {"WAITING", "ZOMBIE"}
  BY <1>0, <1>1, TypesOfSleep DEF SleepInv, PendingIsRecorded, Pending
<1>3. /\ timer_id' = [timer_id EXCEPT ![u] = NoId] /\ timeout' = timeout \cup {u}
      /\ state' = [state EXCEPT ![u] = IF state[u] = "WAITING" THEN "READY" ELSE state[u]]
      /\ call' = call
  BY <1>0, <1>1 DEF RunHandler, sleepy_task_wakeup
<1>4. \A e \in timers : Pending(e)
  BY <1>1 DEF Pending
<1>5. \A e \in timers : e.task = u => e = first
  BY <1>0, <1>1, <1>2, <1>4 DEF SleepInv, PendingIsRecorded, IdsDiffer
<1>6. FirstInv' /\ IdsDiffer'
  BY <1>1 DEF SleepInv, FirstInv, IdsDiffer
<1>7. PendingIsRecorded'
  <2>1. \A e \in timers : e # first => e.task # u
    BY <1>5
  <2>2. state'[first.task] # "FREE"
    BY <1>0, <1>2, <1>3, TypesOfSleep
  <2> QED BY <1>1, <1>3, <1>4, <2>1, <2>2, TypesOfSleep DEF SleepInv, PendingIsRecorded, Pending
<1>8. state[u] = "WAITING" => Runs(u)'
  <2>1. SUFFICES ASSUME state[u] = "WAITING" PROVE Runs(u)'
    OBVIOUS
  <2>2. call[u].name = "sleep" /\ \E e \in timers : e.task = u /\ e.expire_time >= call[u].since + call[u].count
    BY <1>2, <2>1 DEF SleepInv, SleeperInv, Waits
  <2>3. first.expire_time >= call[u].since + call[u].count
    BY <1>5, <2>2
  <2>4. jiffies > call[u].since + call[u].count
    BY <1>1, <1>2, <2>3, TypesOfSleep
  <2>5. timer_id'[u] = NoId /\ u \in timeout'
    BY <1>2, <1>3, TypesOfSleep
  <2> QED BY <1>1, <1>3, <2>2, <2>4, <2>5 DEF Runs
<1>9. ASSUME NEW v \in Process \ {u} PROVE (Waits(v) => Waits(v)') /\ (Runs(v) => Runs(v)')
  <2>1. timer_id'[v] = timer_id[v] /\ (v \in timeout' <=> v \in timeout)
    BY <1>3, TypesOfSleep
  <2>2. \A e \in timers : e.task = v => Pending(e)'
    BY <1>0, <1>1, <1>9 DEF Pending
  <2> QED BY <1>1, <1>3, <2>1, <2>2 DEF Waits, Runs
<1>10. SleeperInv'
  <2>1. state'[u] = "READY" => state[u] = "WAITING"
    BY <1>2, <1>3, TypesOfSleep
  <2>2. state'[u] # "WAITING" /\ timer_id'[u] = NoId
    BY <1>2, <1>3, TypesOfSleep
  <2>3. \A v \in Process \ {u} : state'[v] = state[v] /\ timer_id'[v] = timer_id[v]
    BY <1>3, TypesOfSleep
  <2> QED BY <1>3, <1>8, <1>9, <2>1, <2>2, <2>3 DEF SleepInv, SleeperInv
<1> QED BY <1>6, <1>7, <1>10 DEF SleepInv

(* The tick and the other steps of the tasklet leave every process alone.  *)
LEMMA CheckKeeps ==
  ASSUME TypeInv, SleepInv, sys_tick_handler \/ StartCheck \/ RemoveTop
  PROVE  SleepInv'
<1>1. UNCHANGED <<state, timer_id, timeout, call>>
  BY DEF sys_tick_handler, StartCheck, RemoveTop
<1>2. \A e \in timers : Pending(e) => e \in timers' /\ Pending(e)'
  <2>1. CASE sys_tick_handler \/ StartCheck
    BY <2>1 DEF sys_tick_handler, StartCheck, Pending
  <2>2. CASE RemoveTop
    BY <2>2, HeapFacts DEF RemoveTop, Pending
  <2> QED BY <2>1, <2>2
<1>3. timers' \subseteq timers /\ \A e \in timers' : Pending(e)' => Pending(e)
  <2>1. CASE sys_tick_handler \/ StartCheck
    BY <2>1 DEF sys_tick_handler, StartCheck, Pending
  <2>2. CASE RemoveTop
    BY <2>2, HeapFacts DEF RemoveTop, Pending
  <2> QED BY <2>1, <2>2
<1>4. jiffies' >= jiffies /\ jiffies' \in Int
  BY TypesOfSleep DEF sys_tick_handler, StartCheck, RemoveTop
<1>5. FirstInv'
  <2>1. CASE sys_tick_handler
    BY <2>1, TypesOfSleep DEF sys_tick_handler, FirstInv, SleepInv
  <2>2. CASE StartCheck
    BY <2>2 DEF StartCheck, ktimer_expired, FirstInv, SleepInv
  <2>3. CASE RemoveTop
    <3>1. /\ timers' # {} => first' \in timers' /\ \A e \in timers' : first'.expire_time <= e.expire_time
          /\ checker' # "idle" => timers' # {} /\ first'.expire_time < jiffies
          /\ jiffies' = jiffies
      BY <2>3, HeapFacts DEF RemoveTop
    <3> QED BY <3>1 DEF FirstInv
  <2> QED BY <2>1, <2>2, <2>3
<1>6. checker' = "ran" => checker = "ran" /\ first' = first
  BY DEF sys_tick_handler, StartCheck, RemoveTop
<1>7. IdsDiffer' /\ PendingIsRecorded'
  BY <1>1, <1>3, <1>6 DEF SleepInv, IdsDiffer, PendingIsRecorded
<1>8. ASSUME NEW t \in Process PROVE (Waits(t) => Waits(t)') /\ (Runs(t) => Runs(t)')
  <2>1. Waits(t) => Waits(t)'
    <3>1. SUFFICES ASSUME Waits(t) PROVE Waits(t)'
      OBVIOUS
    <3>2. PICK e \in timers : Pending(e) /\ e.task = t /\ e.expire_time >= call[t].since + call[t].count
      BY <3>1 DEF Waits
    <3>3. e \in timers' /\ Pending(e)'
      BY <1>2, <3>2
    <3> QED BY <1>1, <3>1, <3>2, <3>3 DEF Waits
  <2>2. Runs(t) => Runs(t)'
    BY <1>1, <1>4, TypesOfSleep DEF Runs
  <2> QED BY <2>1, <2>2
<1>9. SleeperInv'
  BY <1>1, <1>8 DEF SleepInv, SleeperInv
<1> QED BY <1>5, <1>7, <1>9 DEF SleepInv

(* Where programs only sleep and are not disturbed, these are all steps.   *)
LEMMA SleepStep ==
  TypeInv /\ TimerIsOwn /\ (OnlySleep => SleepInv) /\ [Next /\ UNCHANGED setting]_vars
    => (OnlySleep => SleepInv)'
<1> SUFFICES ASSUME TypeInv, TimerIsOwn, OnlySleep => SleepInv, [Next /\ UNCHANGED setting]_vars,
                    OnlySleep'
             PROVE  SleepInv'
  OBVIOUS
<1>1. setting' = setting /\ OnlySleep /\ SleepInv
  BY DEF OnlySleep, vars
<1>2. CASE UNCHANGED vars
  <2>1. UNCHANGED <<jiffies, timers, first, checker, state, timer_id, timeout, call>>
    BY <1>2 DEF vars
  <2>2. FirstInv' /\ IdsDiffer' /\ PendingIsRecorded' /\ SleeperInv'
    BY <1>1, <2>1 DEF SleepInv, FirstInv, IdsDiffer, PendingIsRecorded, Pending, SleeperInv, Waits, Runs
  <2> QED BY <2>2 DEF SleepInv
<1>3. CASE Next
  <2>1. \A name : name \in setting.calls => name = "sleep"
    BY <1>1 DEF OnlySleep
  <2>2. ASSUME NEW t \in Process, NEW c \in Delays \cup {Endless}
        PROVE  ~ (PollTimesOut(t) \/ PollReady(t) \/ PollFails(t) \/ PollSuspends(t, c)
                   \/ sys_alarm_hdlr(t, c) \/ scheduler_exec(t))
    BY <2>1 DEF PollTimesOut, PollReady, PollFails, PollSuspends, Asks, sys_alarm_hdlr, scheduler_exec, Issues
  <2>3. ASSUME NEW t \in Process PROVE ~ (Resumed(t) \/ Signal(t))
    BY <1>1 DEF OnlySleep, Resumed, Signal, SleepInv, SleeperInv, Waits
  <2> QED BY <1>1, <1>3, <2>2, <2>3, SleepReturnsKeeps, SleepSuspendsKeeps, EndKeeps,
             RunHandlerKeeps, CheckKeeps DEF Next
<1> QED BY <1>2, <1>3

(* The invariant of sleepers, in every reachable state. *)
LEMMA SleepInvariant == Spec => [](OnlySleep => SleepInv)
<1>1. Init => SleepInv
  BY DEF Init, SleepInv, FirstInv, IdsDiffer, PendingIsRecorded, Pending, SleeperInv, Runs
<1> QED BY <1>1, SleepStep, Typed, TimerIsOwnHolds, PTL DEF Spec

(* task_destroy leaves no timer for the structure it frees: a tasklet      *)
(* cannot wake or signal what is no task.                                  *)
THEOREM SleepersTimerGoesHolds == Spec => []SleepersTimerGoes
<1>1. TypeInv /\ (OnlySleep => SleepInv) => SleepersTimerGoes
  <2> SUFFICES ASSUME TypeInv, OnlySleep, SleepInv, NEW e \in timers PROVE state[e.task] # "FREE"
    BY DEF SleepersTimerGoes
  <2> QED BY DEF SleepInv, PendingIsRecorded, Pending
<1> QED BY <1>1, SleepInvariant, Typed, PTL

(* Nobody sleeps for ever because its timer was lost, deleted by another,  *)
(* or run while it was on its way to sleep.                                *)
THEOREM SleeperHasTimerHolds == Spec => []SleeperHasTimer
<1>1. TypeInv /\ (OnlySleep => SleepInv) => SleeperHasTimer
  <2> SUFFICES ASSUME TypeInv, OnlySleep, SleepInv, NEW t \in Process, state[t] = "WAITING"
               PROVE  \E e \in timers : e.task = t /\ e.handler = "wakeup" /\ ~(checker = "ran" /\ e = first)
    BY DEF SleeperHasTimer
  <2> QED BY DEF SleepInv, PendingIsRecorded, Pending, SleeperInv, Waits
<1> QED BY <1>1, SleepInvariant, Typed, PTL

(* A sleep ends after its time: the flag that ends it is the one that its  *)
(* own timer has set.                                                      *)
THEOREM SleepLastsHolds == Spec => SleepLasts
<1>1. TypeInv /\ (OnlySleep => SleepInv) /\ [Next /\ UNCHANGED setting]_vars
        => [\A t \in Process : OnlySleep /\ SleepReturns(t) =>
              call[t].name = "sleep" /\ jiffies > call[t].since + call[t].count]_vars
  BY SleepReturnsKeeps
<1> QED BY <1>1, SleepInvariant, Typed, PTL DEF Spec, SleepLasts
=============================================================================
