---------------------------- MODULE PthreadsProofs ---------------------------
(***************************************************************************)
(* Theorems about Pthreads, for every finite set of threads, every bound   *)
(* on thread ids and tasklets and every choice of settings.                *)
(***************************************************************************)
EXTENDS Pthreads, FiniteSetTheorems, SequenceTheorems, TLAPS

Alive(t) == state[t] \in {"READY", "WAITING"}
Living == {t \in tgroup : Alive(t)}

(* The types that the proofs rest on.  The queue of tasklets has none here: *)
(* Members says what is in it as long as it matters.                        *)
Typed ==
  /\ state \in [Task -> {"READY", "WAITING", "ZOMBIE", "OVER", "FREE"}]
  /\ tid \in [Task -> Nat]
  /\ tgroup \subseteq Task /\ threads \in Seq(Task \cup {NULL})
  /\ max_tid \in 0..MaxTid /\ active_threads \in 0..UINT16_MAX
  /\ setting \in Settings

(* Who runs is a member of the group, if there is one, and so is whoever   *)
(* the table or a tasklet names; without a group only the leader may run.  *)
Members ==
  /\ \A t \in Task : Alive(t) => t \in tgroup \/ (tgroup = {} /\ t = Leader)
  /\ tgroup = {} => threads = <<>> /\ (Alive(Leader) => destroy = <<>>)
  /\ tgroup # {} => Leader \in tgroup /\ destroy \in Seq(tgroup) /\ active_threads <= max_tid
  /\ \A s \in Slot : threads[s] # NULL => threads[s] \in tgroup
  /\ Alive(Leader) => tid[Leader] = 1

(* A program that does not name its leader keeps it running. *)
LeaderRuns == setting \subseteq {"detach"} => Alive(Leader)

IInv ==
  /\ Typed
  /\ "end" \notin setting => Members
  /\ TableNamesThreads /\ ActiveCoversAll
  /\ LeaderRuns /\ FreedOnce
-----------------------------------------------------------------------------
(* The largest number of a group's fields is one. *)
LEMMA WidthFacts == UINT16_MAX \in Nat
BY DEF UINT16_MAX

(* The group is a finite set. *)
LEMMA FiniteTask == IsFiniteSet(Task) /\ \A S \in SUBSET Task : IsFiniteSet(S)
<1>1. IsFiniteSet(Task)
  BY ThreadAssumption, FS_AddElement DEF Task
<1> QED BY <1>1, FS_Subset

(* A sequence of members is one of members of a larger group too. *)
LEMMA SeqOfMore ==
  ASSUME NEW A, NEW B, A \subseteq B, NEW s \in Seq(A)
  PROVE  s \in Seq(B)
OBVIOUS

(* The first in a sequence is a member, and so are the others. *)
LEMMA HeadTailFacts ==
  ASSUME NEW A, NEW s \in Seq(A), s # <<>>
  PROVE  /\ Head(s) \in A /\ Head(s) = s[1] /\ Tail(s) \in Seq(A)
         /\ Len(Tail(s)) = Len(s) - 1 /\ Len(s) \in Nat \ {0}
         /\ \A i \in 1..Len(s) - 1 : Tail(s)[i] = s[i + 1]
OBVIOUS

(* A sequence of two. *)
LEMMA PairFacts ==
  ASSUME NEW A, NEW a \in A, NEW b \in A
  PROVE  <<a, b>> \in Seq(A) /\ Len(<<a, b>>) = 2
OBVIOUS

(* A sequence with something else in a place. *)
LEMMA PlaceFacts ==
  ASSUME NEW A, NEW s \in Seq(A), NEW c \in 1..Len(s), NEW a \in A,
         NEW r, r = [s EXCEPT ![c] = a]
  PROVE  /\ r \in Seq(A) /\ Len(r) = Len(s)
         /\ \A i \in 1..Len(s) : r[i] = IF i = c THEN a ELSE s[i]
OBVIOUS

(* What pthread_add leaves in the table: the new thread in a place that    *)
(* was free or is new, and what was in the others.                         *)
LEMMA AddFacts ==
  ASSUME Typed, NEW cur \in tgroup, NEW new \in Thread, pthread_add(cur, new)
  PROVE  /\ threads' \in Seq(Task \cup {NULL})
         /\ \E c \in Slot' :
              /\ c \in Slot => threads[c] = NULL
              /\ \A s \in Slot' : threads'[s] = IF s = c THEN new ELSE threads[s]
              /\ Slot' = Slot \cup {c}
<1> DEFINE A == Task \cup {NULL}
<1>1. threads \in Seq(A) /\ new \in A
  BY DEF Typed, Task
<1> HIDE DEF A
<1>2. CASE NullSlots = {} /\ threads' = Append(threads, new)
  <2>2. /\ threads' \in Seq(A) /\ Len(threads') = Len(threads) + 1
        /\ threads'[Len(threads) + 1] = new
        /\ \A s \in 1..Len(threads) : threads'[s] = threads[s]
    BY <1>1, <1>2
  <2>3. Slot' = Slot \cup {Len(threads) + 1} /\ Len(threads) + 1 \notin Slot
    BY <1>1, <2>2 DEF Slot
  <2> QED BY <2>2, <2>3 DEF Slot, A
<1>3. ASSUME NEW c \in NullSlots, threads' = [threads EXCEPT ![c] = new]
      PROVE  /\ threads' \in Seq(A)
             /\ c \in Slot' /\ threads[c] = NULL /\ Slot' = Slot \cup {c}
             /\ \A s \in Slot' : threads'[s] = IF s = c THEN new ELSE threads[s]
  <2>1. c \in 1..Len(threads) /\ threads[c] = NULL
    BY DEF NullSlots, Slot
  <2>2. /\ threads' \in Seq(A) /\ Len(threads') = Len(threads)
        /\ \A s \in 1..Len(threads) : threads'[s] = IF s = c THEN new ELSE threads[s]
    BY <1>1, <1>3, <2>1, PlaceFacts
  <2> QED BY <2>1, <2>2 DEF Slot
<1>4. \/ NullSlots = {} /\ threads' = Append(threads, new)
      \/ \E c \in NullSlots : threads' = [threads EXCEPT ![c] = new]
  BY DEF pthread_add, TakePlace
<1> QED BY <1>2, <1>3, <1>4 DEF A

(* Task t ends: it stays a zombie, or its structure is queued.             *)
Ends(t) ==
  /\ state' \in [Task -> {"READY", "WAITING", "ZOMBIE", "OVER", "FREE"}]
  /\ \/ state'[t] = "ZOMBIE" /\ destroy' = destroy
     \/ state'[t] = "OVER" /\ destroy' = Append(destroy, t)
  /\ \A u \in Task \ {t} :
       \/ state'[u] = state[u]
       \/ state[u] = "WAITING" /\ state'[u] = "READY"

(* What is common to all the ways a task can end. *)
LEMMA OverEnds ==
  ASSUME Typed, NEW t \in Task, Over(t)
  PROVE  Ends(t)
BY DEF Over, Ends, Typed

(* A zombie may resume its joiner. *)
LEMMA ZombieEnds ==
  ASSUME Typed, NEW t \in Task, NEW wakes, Zombie(t, wakes)
  PROVE  Ends(t)
<1> DEFINE st == [state EXCEPT ![t] = "ZOMBIE"]
<1>1. st \in [Task -> {"READY", "WAITING", "ZOMBIE", "OVER", "FREE"}]
  BY DEF Typed
<1>2. /\ st[t] = "ZOMBIE" /\ \A u \in Task \ {t} : st[u] = state[u]
  BY DEF Typed
<1>3. /\ state' = st \/ state' = WakeTid(st, joiner[t])
      /\ destroy' = destroy
  BY DEF Zombie
<1> HIDE DEF st
<1>4. CASE state' = WakeTid(st, joiner[t])
  <2>1. \A u \in Task : state'[u] = IF u \in pthread_get_task(joiner[t]) /\ st[u] = "WAITING"
                                      THEN "READY" ELSE st[u]
    BY <1>4 DEF WakeTid
  <2>2. state' \in [Task -> {"READY", "WAITING", "ZOMBIE", "OVER", "FREE"}]
    BY <1>1, <1>4 DEF WakeTid
  <2> QED BY <1>2, <1>3, <2>1, <2>2 DEF Ends
<1> QED BY <1>1, <1>2, <1>3, <1>4 DEF Ends

(* The calls that end a task. *)
LEMMA CallEnds ==
  ASSUME Typed, NEW t \in Task, pthread_destroy_task(t) \/ CancelTask(t)
  PROVE  Ends(t)
BY OverEnds, ZombieEnds DEF pthread_destroy_task, CancelTask

(* Every action keeps the types. *)
LEMMA TypedStep == Typed /\ [Next]_vars => Typed'
<1> SUFFICES ASSUME Typed, [Next]_vars PROVE Typed'
  OBVIOUS
<1> DEFINE SameGroup == UNCHANGED <<tgroup, threads, max_tid, active_threads>>
<1>1. ASSUME NEW t \in Task, Ends(t), UNCHANGED <<tid, tgroup, threads, max_tid, setting>>,
             active_threads' \in 0..UINT16_MAX
      PROVE  Typed'
  BY <1>1 DEF Typed, Ends
<1>2. active_threads \in 0..UINT16_MAX /\ OneLess \in 0..UINT16_MAX
  BY WidthFacts DEF Typed, OneLess
<1>3. ASSUME NEW cur \in Task, sys_pthread_create_hdlr(cur) PROVE Typed'
  <2>1. PICK new \in Thread : /\ state[new] = "FREE" /\ pthread_add(cur, new)
                               /\ tid' = [tid EXCEPT ![new] = max_tid']
                               /\ state' = [state EXCEPT ![new] = "READY"]
    BY <1>3 DEF sys_pthread_create_hdlr
  <2>2. max_tid' \in 0..MaxTid /\ max_tid' \in Nat
    BY <2>1, MaxTidAssumption DEF pthread_add, Typed
  <2>3. active_threads' \in 0..UINT16_MAX /\ tgroup' \subseteq Task
    <3>1. OneMore \in 0..UINT16_MAX /\ 2 \in 0..UINT16_MAX
      BY WidthFacts, MaxTidAssumption DEF Typed, OneMore
    <3> QED BY <2>1, <3>1 DEF pthread_add, Typed, Task
  <2>4. threads' \in Seq(Task \cup {NULL})
    <3>1. cur \in Task \cup {NULL} /\ new \in Task \cup {NULL}
      BY DEF Task
    <3>2. CASE cur \notin tgroup
      <4>1. threads' = <<cur, new>>
        BY <2>1, <3>2 DEF pthread_add, TakePlace
      <4>2. <<cur, new>> \in Seq(Task \cup {NULL})
        BY <3>1, PairFacts
      <4> QED BY <4>1, <4>2
    <3>3. CASE cur \in tgroup
      BY <2>1, <3>3, AddFacts
    <3> QED BY <3>2, <3>3
  <2>5. tid' \in [Task -> Nat] /\ setting' = setting
    BY <1>3, <2>1, <2>2 DEF Typed, sys_pthread_create_hdlr
  <2>6. state' \in [Task -> {"READY", "WAITING", "ZOMBIE", "OVER", "FREE"}]
    BY <2>1 DEF Typed
  <2> QED BY <2>2, <2>3, <2>4, <2>5, <2>6 DEF Typed
<1>4. ASSUME NEW t \in Task, pthread_end(t) \/ sys_pthread_exit_hdlr(t) PROVE Typed'
  BY <1>1, <1>2, <1>4, CallEnds DEF pthread_end, sys_pthread_exit_hdlr
<1>5. ASSUME NEW t \in Task, sys_exit_hdlr(t) PROVE Typed'
  BY <1>5 DEF sys_exit_hdlr, Typed, group
<1>6. ASSUME NEW t \in Task, sys_waitpid_hdlr(t) PROVE Typed'
  <2>1. active_threads' \in 0..UINT16_MAX
    BY <1>2, <1>6, WidthFacts DEF sys_waitpid_hdlr
  <2> QED BY <1>1, <1>6, <2>1, OverEnds DEF sys_waitpid_hdlr
<1>7. ASSUME NEW t \in Task, NEW enable \in BOOLEAN, sys_pthread_setcancelstate_hdlr(t, enable)
      PROVE  Typed'
  <2>1. CancelTask(t) \/ UNCHANGED <<state, destroy>>
    BY <1>7 DEF sys_pthread_setcancelstate_hdlr
  <2>2. UNCHANGED <<tid, group, setting>>
    BY <1>7 DEF sys_pthread_setcancelstate_hdlr
  <2> QED BY <1>1, <1>2, <2>1, <2>2, CallEnds DEF group, Typed
<1>8. ASSUME NEW cur \in Task, NEW i \in Tid, sys_pthread_kill_hdlr(cur, i) PROVE Typed'
  <2>1. PICK t \in Task : pthread_destroy_task(t)
    BY <1>8 DEF sys_pthread_kill_hdlr, pthread_get_task, Task
  <2> QED BY <1>1, <1>2, <1>8, <2>1, CallEnds DEF sys_pthread_kill_hdlr, group
<1>9. ASSUME NEW cur \in Task, NEW i \in Tid, sys_pthread_cancel_hdlr(cur, i) PROVE Typed'
  <2>1. PICK t \in Task : CancelTask(t) \/ UNCHANGED <<state, destroy>>
    BY <1>9 DEF sys_pthread_cancel_hdlr, pthread_get_task, Task
  <2>2. UNCHANGED <<tid, group, setting>>
    BY <1>9 DEF sys_pthread_cancel_hdlr
  <2> QED BY <1>1, <1>2, <2>1, <2>2, CallEnds DEF group, Typed
<1>10. ASSUME NEW cur \in Task, NEW i \in Tid, sys_pthread_detach_hdlr(cur, i) PROVE Typed'
  BY <1>10 DEF sys_pthread_detach_hdlr, group, Typed
<1>11. ASSUME NEW cur \in Task, NEW i \in Tid, sys_pthread_join_hdlr(cur, i) PROVE Typed'
  <2>1. CASE JoinFails(cur, i)
    BY <2>1 DEF JoinFails, group, Typed
  <2>2. CASE JoinSuspends(cur, i)
    BY <2>2 DEF JoinSuspends, group, Typed
  <2>3. CASE JoinReturns(cur, i)
    <3>1. PICK t \in Task : Over(t)
      BY <2>3 DEF JoinReturns, pthread_get_task, Task
    <3> QED BY <1>1, <1>2, <2>3, <3>1, OverEnds DEF JoinReturns, group
  <2> QED BY <1>11, <2>1, <2>2, <2>3 DEF sys_pthread_join_hdlr
<1>12. CASE Signal
  BY <1>12 DEF Signal, group, Typed
<1>13. CASE task_destroy
  <2> DEFINE t == Head(destroy)
  <2>1. tid' = [tid EXCEPT ![t] = 0] /\ setting' = setting
    BY <1>13 DEF task_destroy
  <2>2. CASE t \in tgroup /\ active_threads > 0
    <3>1. /\ LeaveGroup(t) /\ state' = [state EXCEPT ![t] = "FREE"]
      BY <1>13, <2>2 DEF task_destroy
    <3>2. threads' \in Seq(Task \cup {NULL})
      BY <3>1 DEF LeaveGroup, Slot, Typed
    <3> QED BY <2>1, <3>1, <3>2 DEF LeaveGroup, Typed
  <2>3. CASE ~(t \in tgroup /\ active_threads > 0)
    <3>1. /\ tgroup' = {} /\ threads' = <<>> /\ max_tid' = 0 /\ active_threads' = 0
          /\ state' = [u \in Task |-> IF u = t THEN "FREE"
                                      ELSE IF t \in tgroup /\ u \in Others(t) THEN "OVER"
                                      ELSE state[u]]
      BY <1>13, <2>3 DEF task_destroy
    <3>2. state' \in [Task -> {"READY", "WAITING", "ZOMBIE", "OVER", "FREE"}]
      BY <3>1 DEF Typed
    <3>3. 0 \in 0..MaxTid /\ 0 \in 0..UINT16_MAX
      BY MaxTidAssumption, WidthFacts
    <3>4. tid' \in [Task -> Nat]
      BY <2>1 DEF Typed
    <3>5. threads' \in Seq(Task \cup {NULL}) /\ setting' \in Settings
      BY <2>1, <3>1 DEF Typed
    <3> QED BY <3>1, <3>2, <3>3, <3>4, <3>5 DEF Typed
  <2> QED BY <2>2, <2>3
<1>14. CASE UNCHANGED vars
  BY <1>14 DEF vars, group, Typed
<1> QED BY <1>3, <1>4, <1>5, <1>6, <1>7, <1>8, <1>9, <1>10, <1>11, <1>12, <1>13, <1>14 DEF Next
-----------------------------------------------------------------------------
(* What the calls find, in a process whose threads end by themselves, by   *)
(* pthread_exit, a kill or a cancellation.                                 *)
LEMMA FoundFacts ==
  ASSUME IInv, "end" \notin setting, NEW i \in Tid, Named(i), NEW t \in pthread_get_task(i)
  PROVE  /\ t \in Task /\ state[t] # "FREE"
         /\ t \in tgroup \/ (tgroup = {} /\ t = Leader)
         /\ setting \subseteq {"detach"} => t # Leader /\ state[t] # "OVER"
<1>1. CASE i = 1
  <2>1. t = Leader /\ state[t] # "FREE" /\ "leader" \in setting
    BY <1>1 DEF pthread_get_task, Named
  <2> QED BY <2>1 DEF Task, IInv, Members
<1>2. CASE i # 1
  <2>1. PICK s \in Slot : t = threads[s]
    BY <1>2 DEF pthread_get_task
  <2>2. t \in Thread /\ t # NULL /\ t # Leader /\ state[t] # "OVER"
    BY <1>2, ThreadAssumption DEF pthread_get_task
  <2>3. state[t] # "FREE" /\ t \in tgroup
    BY <2>1, <2>2 DEF IInv, TableNamesThreads, Members
  <2> QED BY <2>2, <2>3 DEF Task
<1> QED BY <1>1, <1>2

(* The number of those that may run on, one of them less, and one more.    *)
LEMMA LivingFacts ==
  ASSUME Typed
  PROVE  /\ IsFiniteSet(Living) /\ Cardinality(Living) \in Nat
         /\ \A S \in SUBSET Living : Cardinality(S) \in Nat /\ Cardinality(S) <= Cardinality(Living)
         /\ \A t \in Living : /\ Cardinality(Living) >= 1
                              /\ Cardinality(Living \ {t}) = Cardinality(Living) - 1
         /\ \A t : Cardinality(Living \cup {t}) <= Cardinality(Living) + 1
<1>1. Living \subseteq Task
  BY DEF Living, Typed
<1>2. IsFiniteSet(Living)
  BY <1>1, FiniteTask
<1>3. Cardinality(Living) \in Nat
  BY <1>2, FS_CardinalityType
<1>4. ASSUME NEW S \in SUBSET Living
      PROVE  Cardinality(S) \in Nat /\ Cardinality(S) <= Cardinality(Living)
  BY <1>2, FS_Subset, FS_CardinalityType
<1>5. ASSUME NEW t \in Living
      PROVE  /\ Cardinality(Living) >= 1
             /\ Cardinality(Living \ {t}) = Cardinality(Living) - 1
  <2>1. Cardinality(Living \ {t}) = Cardinality(Living) - 1
    BY <1>2, FS_RemoveElement
  <2>2. Cardinality(Living \ {t}) \in Nat
    BY <1>4
  <2> QED BY <1>3, <2>1, <2>2
<1>6. ASSUME NEW t PROVE Cardinality(Living \cup {t}) <= Cardinality(Living) + 1
  <2>1. CASE t \in Living
    <3>1. Living \cup {t} = Living
      BY <2>1
    <3> QED BY <1>3, <3>1
  <2>2. CASE t \notin Living
    BY <1>2, <1>3, <2>2, FS_AddElement
  <2> QED BY <2>1, <2>2
<1> QED BY <1>2, <1>3, <1>4, <1>5, <1>6

(* As long as programs do not end by exit nothing runs uncounted. *)
LEMMA CountedFacts ==
  ASSUME IInv, "end" \notin setting
  PROVE  tgroup # {} => active_threads >= Cardinality(Living)
BY DEF IInv, ActiveCoversAll, Living, Alive

(* The properties that are proved together. *)
Kept == Members /\ TableNamesThreads /\ ActiveCoversAll /\ LeaderRuns /\ FreedOnce

(* The end of a task keeps the properties. *)
LEMMA EndsKeeps ==
  ASSUME IInv, "end" \notin setting, Typed', NEW t \in Task, Ends(t),
         state[t] # "FREE", t \in tgroup \/ (tgroup = {} /\ t = Leader),
         setting \subseteq {"detach"} => t # Leader /\ state[t] # "OVER",
         UNCHANGED <<tid, tgroup, threads, max_tid, setting>>,
         \/ active_threads' = active_threads
         \/ Alive(t) /\ tgroup # {} /\ active_threads' = OneLess
  PROVE  Kept'
<1> USE DEF IInv
<1>1. /\ state'[t] \in {"ZOMBIE", "OVER"}
      /\ \A u \in Task \ {t} : /\ Alive(u)' <=> Alive(u)
                               /\ (state'[u] = "FREE") <=> (state[u] = "FREE")
                               /\ state[u] = "OVER" => state'[u] = "OVER"
  BY DEF Ends, Alive
<1>2. destroy' = destroy \/ (destroy' = Append(destroy, t) /\ state'[t] = "OVER")
  BY DEF Ends
<1>3. Living' \subseteq Living \ {t}
  BY <1>1 DEF Living, Alive, Typed
<1>4. tgroup # {} => active_threads' >= Cardinality(Living') /\ active_threads' <= max_tid'
  <2> SUFFICES ASSUME tgroup # {}
               PROVE  active_threads' >= Cardinality(Living') /\ active_threads' <= max_tid'
    OBVIOUS
  <2>1. active_threads >= Cardinality(Living) /\ active_threads <= max_tid
    BY CountedFacts DEF Members
  <2>2. /\ Cardinality(Living') <= Cardinality(Living) /\ Cardinality(Living') \in Nat
        /\ Cardinality(Living) \in Nat
    BY <1>3, LivingFacts
  <2>3. active_threads \in 0..UINT16_MAX /\ max_tid \in Nat /\ max_tid' = max_tid
    BY MaxTidAssumption DEF Typed
  <2>4. CASE active_threads' = active_threads
    BY <2>1, <2>2, <2>3, <2>4
  <2>5. CASE Alive(t) /\ active_threads' = OneLess
    <3>1. t \in Living
      BY <2>5 DEF Living
    <3>2. Cardinality(Living') <= Cardinality(Living) - 1 /\ Cardinality(Living) >= 1
      <4>1. /\ Cardinality(Living \ {t}) = Cardinality(Living) - 1 /\ Cardinality(Living) >= 1
            /\ IsFiniteSet(Living)
        BY <3>1, LivingFacts
      <4>2. IsFiniteSet(Living \ {t})
        BY <4>1, FS_Subset
      <4>3. Cardinality(Living') <= Cardinality(Living \ {t})
        BY <1>3, <4>2, FS_Subset
      <4> QED BY <4>1, <4>3
    <3>3. active_threads - 1 \in 0..UINT16_MAX
      BY <2>1, <2>2, <2>3, <3>2, WidthFacts
    <3>4. OneLess = active_threads - 1
      BY <3>3, WidthFacts DEF OneLess
    <3> QED BY <2>1, <2>2, <2>3, <2>5, <3>2, <3>4
  <2> QED BY <2>4, <2>5
<1>5. Members'
  <2>1. \A u \in Task : Alive(u)' => u \in tgroup' \/ (tgroup' = {} /\ u = Leader)
    BY <1>1 DEF Members, Alive
  <2>2. tgroup' = {} => threads' = <<>> /\ (Alive(Leader)' => destroy' = <<>>)
    BY <1>1 DEF Members, Alive
  <2>3. tgroup' # {} => destroy' \in Seq(tgroup')
    BY <1>2 DEF Members
  <2>4. Alive(Leader)' => tid'[Leader] = 1
    BY <1>1 DEF Members, Task, Alive
  <2>5. \A s \in Slot' : threads'[s] # NULL => threads'[s] \in tgroup'
    BY DEF Members, Slot
  <2> QED BY <1>4, <2>1, <2>2, <2>3, <2>4, <2>5 DEF Members
<1>6. TableNamesThreads'
  <2>1. \A u \in Task : (state'[u] = "FREE") <=> (state[u] = "FREE")
    BY <1>1
  <2>2. \A s \in Slot : threads[s] # NULL => threads[s] \in Task
    BY DEF Members, Typed
  <2>3. \A s \in Slot : threads[s] # NULL => state'[threads[s]] # "FREE"
    BY <2>1, <2>2 DEF TableNamesThreads
  <2>4. \A u \in tgroup : state'[u] # "FREE" =>
           \E s \in Slot : threads[s] = u /\ \A r \in Slot \ {s} : threads[r] # u
    BY <2>1 DEF TableNamesThreads, Typed
  <2> QED BY <2>3, <2>4 DEF TableNamesThreads, Slot
<1>7. ActiveCoversAll'
  BY <1>4 DEF ActiveCoversAll, Living, Alive
<1>8. LeaderRuns'
  BY <1>1 DEF LeaderRuns, Task
<1>9. FreedOnce'
  <2> SUFFICES ASSUME setting \subseteq {"detach"}
               PROVE  /\ \A i, j \in DOMAIN destroy' : destroy'[i] = destroy'[j] => i = j
                      /\ \A i \in DOMAIN destroy' : state'[destroy'[i]] = "OVER"
    BY DEF FreedOnce
  <2>1. /\ \A i, j \in DOMAIN destroy : destroy[i] = destroy[j] => i = j
        /\ \A i \in DOMAIN destroy : state[destroy[i]] = "OVER"
    BY DEF FreedOnce
  <2>2. t # Leader /\ tgroup # {} /\ state[t] # "OVER"
    OBVIOUS
  <2>3. destroy \in Seq(tgroup) /\ tgroup \subseteq Task
    BY <2>2 DEF Members, Typed
  <2>4. \A i \in 1..Len(destroy) : destroy[i] # t /\ state'[destroy[i]] = "OVER"
    BY <1>1, <2>1, <2>2, <2>3
  <2>5. CASE destroy' = destroy
    BY <2>1, <2>3, <2>4, <2>5
  <2>6. CASE destroy' = Append(destroy, t) /\ state'[t] = "OVER"
    <3>1. /\ DOMAIN destroy' = 1..Len(destroy) + 1
          /\ \A i \in 1..Len(destroy) : destroy'[i] = destroy[i]
          /\ destroy'[Len(destroy) + 1] = t
      BY <2>2, <2>3, <2>6
    <3> QED BY <2>1, <2>3, <2>4, <2>6, <3>1
  <2> QED BY <1>2, <2>5, <2>6
<1> QED BY <1>5, <1>6, <1>7, <1>8, <1>9 DEF Kept

(* So does a step in which nobody starts or ends. *)
LEMMA QuietKeeps ==
  ASSUME IInv, "end" \notin setting,
         \A u \in Task : \/ state'[u] = state[u]
                         \/ Alive(u) /\ Alive(u)',
         UNCHANGED <<tid, group, destroy, setting>>
  PROVE  Kept'
<1> USE DEF IInv, group
<1>1. \A u \in Task : /\ Alive(u)' <=> Alive(u)
                      /\ (state'[u] = "FREE") <=> (state[u] = "FREE")
                      /\ state[u] = "OVER" => state'[u] = "OVER"
  BY DEF Alive
<1>2. Leader \in Task /\ tgroup \subseteq Task
  BY DEF Task, Typed
<1>3. Members'
  <2>1. \A u \in Task : Alive(u)' => u \in tgroup' \/ (tgroup' = {} /\ u = Leader)
    BY <1>1 DEF Members
  <2>2. tgroup' = {} => threads' = <<>> /\ (Alive(Leader)' => destroy' = <<>>)
    BY <1>1, <1>2 DEF Members
  <2>3. /\ tgroup' # {} => Leader \in tgroup' /\ destroy' \in Seq(tgroup')
                            /\ active_threads' <= max_tid'
        /\ \A s \in Slot' : threads'[s] # NULL => threads'[s] \in tgroup'
    BY DEF Members, Slot
  <2>4. Alive(Leader)' => tid'[Leader] = 1
    BY <1>1, <1>2 DEF Members
  <2> QED BY <2>1, <2>2, <2>3, <2>4 DEF Members
<1>4. TableNamesThreads'
  <2>1. \A s \in Slot : threads[s] # NULL => threads[s] \in Task
    BY <1>2 DEF Members
  <2>2. \A s \in Slot : threads[s] # NULL => state'[threads[s]] # "FREE"
    BY <1>1, <2>1 DEF TableNamesThreads
  <2>3. \A u \in tgroup : state'[u] # "FREE" =>
           \E s \in Slot : threads[s] = u /\ \A r \in Slot \ {s} : threads[r] # u
    BY <1>1, <1>2 DEF TableNamesThreads
  <2> QED BY <2>2, <2>3 DEF TableNamesThreads, Slot
<1>5. ActiveCoversAll'
  <2>1. Living' = Living
    BY <1>1, <1>2 DEF Living
  <2>2. tgroup # {} => active_threads >= Cardinality(Living')
    BY <2>1, CountedFacts
  <2> QED BY <2>2 DEF ActiveCoversAll, Living, Alive
<1>6. LeaderRuns'
  BY <1>1, <1>2 DEF LeaderRuns
<1>7. FreedOnce'
  <2> SUFFICES ASSUME setting \subseteq {"detach"}
               PROVE  /\ \A i, j \in DOMAIN destroy : destroy[i] = destroy[j] => i = j
                      /\ \A i \in DOMAIN destroy : state'[destroy[i]] = "OVER"
    BY DEF FreedOnce
  <2>1. /\ \A i, j \in DOMAIN destroy : destroy[i] = destroy[j] => i = j
        /\ \A i \in DOMAIN destroy : state[destroy[i]] = "OVER"
    BY DEF FreedOnce
  <2>2. destroy = <<>> \/ destroy \in Seq(Task)
    BY <1>2, SeqOfMore DEF Members, LeaderRuns
  <2>3. \A i \in DOMAIN destroy : destroy[i] \in Task
    BY <2>2
  <2> QED BY <1>1, <2>1, <2>3
<1> QED BY <1>3, <1>4, <1>5, <1>6, <1>7 DEF Kept

(* A new thread is counted and is in the table. *)
LEMMA CreateKeeps ==
  ASSUME IInv, "end" \notin setting, Typed', NEW cur \in Task, sys_pthread_create_hdlr(cur)
  PROVE  Kept'
<1> USE DEF IInv
<1>1. PICK new \in Thread : /\ state[new] = "FREE" /\ pthread_add(cur, new)
                             /\ tid' = [tid EXCEPT ![new] = max_tid']
                             /\ state' = [state EXCEPT ![new] = "READY"]
  BY DEF sys_pthread_create_hdlr
<1>2. /\ destroy' = destroy /\ setting' = setting /\ Alive(cur)
  BY DEF sys_pthread_create_hdlr, Calls, Alive
<1>3. /\ new \in Task /\ Leader \in Task /\ new # Leader /\ new # NULL /\ ~Alive(new)
      /\ new # cur /\ cur # NULL
  BY <1>1, <1>2, ThreadAssumption DEF Task, Alive
<1>4. /\ state'[new] = "READY" /\ \A u \in Task \ {new} : state'[u] = state[u]
      /\ tid'[Leader] = tid[Leader]
  BY <1>1, <1>3 DEF Typed
<1>5. /\ Alive(new)' /\ \A u \in Task \ {new} : Alive(u)' <=> Alive(u)
  BY <1>4 DEF Alive
<1>6. /\ tgroup' = tgroup \cup {cur, new} /\ tgroup \subseteq Task
      /\ Leader \in tgroup'
      /\ cur \notin tgroup => tgroup = {} /\ cur = Leader /\ destroy = <<>>
  BY <1>1, <1>2 DEF pthread_add, Members, Typed
<1>7. CASE cur \notin tgroup
  <2>1. /\ threads' = <<cur, new>> /\ Slot' = {1, 2}
        /\ max_tid' = 2 /\ active_threads' = 2 /\ tgroup' = {cur, new}
        /\ threads'[1] = cur /\ threads'[2] = new
    <3>1. /\ threads' = <<cur, new>> /\ max_tid' = 2 /\ active_threads' = 2
          /\ tgroup' = {cur, new}
      BY <1>1, <1>6, <1>7 DEF pthread_add, TakePlace
    <3>2. Len(<<cur, new>>) = 2 /\ <<cur, new>>[1] = cur /\ <<cur, new>>[2] = new
      OBVIOUS
    <3>3. Slot' = 1..2
      BY <3>1, <3>2 DEF Slot
    <3> QED BY <3>1, <3>2, <3>3
  <2>2. Members'
    <3>1. \A u \in Task : Alive(u)' => u \in tgroup'
      BY <1>5, <1>6, <2>1 DEF Members
    <3>2. destroy' \in Seq(tgroup')
      BY <1>2, <1>6, <1>7
    <3>3. Alive(Leader) => tid[Leader] = 1
      BY DEF Members
    <3> QED BY <1>3, <1>4, <1>5, <1>6, <2>1, <3>1, <3>2, <3>3 DEF Members
  <2>3. TableNamesThreads'
    <3>1. state'[cur] # "FREE" /\ state'[new] # "FREE"
      BY <1>2, <1>3, <1>4 DEF Alive
    <3> QED BY <1>3, <2>1, <3>1 DEF TableNamesThreads
  <2>4. ActiveCoversAll'
    <3>1. Living' \subseteq {cur, new} /\ IsFiniteSet({cur} \cup {new})
          /\ Cardinality({cur} \cup {new}) <= 2 /\ IsFiniteSet({cur, new})
      <4>1. IsFiniteSet({cur}) /\ Cardinality({cur}) = 1
        BY FS_Singleton
      <4>2. IsFiniteSet({cur} \cup {new}) /\ Cardinality({cur} \cup {new}) <= 2
        <5>1. PICK S : S = {cur} /\ IsFiniteSet(S) /\ Cardinality(S) = 1
          BY <4>1
        <5>2. /\ IsFiniteSet(S \cup {new})
              /\ Cardinality(S \cup {new}) = IF new \in S THEN Cardinality(S) ELSE Cardinality(S) + 1
          BY <5>1, FS_AddElement, Zenon
        <5> QED BY <5>1, <5>2
      <4>3. {cur} \cup {new} = {cur, new}
        OBVIOUS
      <4> QED BY <2>1, <4>2, <4>3 DEF Living
    <3>2. {cur} \cup {new} = {cur, new}
      OBVIOUS
    <3>3. Cardinality(Living') <= 2
      <4>1. Cardinality(Living') <= Cardinality({cur, new})
        BY <3>1, FS_Subset
      <4>2. Cardinality({cur, new}) <= 2 /\ Cardinality({cur, new}) \in Nat
        BY <3>1, <3>2, FS_CardinalityType
      <4>3. Cardinality(Living') \in Nat
        BY <3>1, FS_Subset, FS_CardinalityType
      <4> QED BY <4>1, <4>2, <4>3
    <3>4. Living' = {u \in tgroup' : state'[u] \in {"READY", "WAITING"}}
      BY DEF Living, Alive
    <3>5. Cardinality(Living') \in Nat
      BY <3>1, FS_Subset, FS_CardinalityType
    <3> QED BY <2>1, <3>3, <3>4, <3>5 DEF ActiveCoversAll
  <2>5. FreedOnce'
    BY <1>2, <1>6, <1>7 DEF FreedOnce
  <2>6. LeaderRuns'
    BY <1>2, <1>3, <1>5 DEF LeaderRuns
  <2> QED BY <2>2, <2>3, <2>4, <2>5, <2>6 DEF Kept
<1>8. CASE cur \in tgroup
  <2>1. PICK c \in Slot' :
          /\ c \in Slot => threads[c] = NULL
          /\ \A s \in Slot' : threads'[s] = IF s = c THEN new ELSE threads[s]
          /\ Slot' = Slot \cup {c}
    BY <1>1, <1>8, AddFacts
  <2>2. /\ max_tid' = max_tid + 1 /\ active_threads' = active_threads + 1
        /\ active_threads <= max_tid /\ active_threads \in Nat /\ max_tid \in Nat
    <3>1. max_tid < MaxTid /\ max_tid' = max_tid + 1 /\ active_threads' = OneMore
      BY <1>1, <1>8 DEF pthread_add
    <3>2. active_threads <= max_tid /\ active_threads \in Nat /\ max_tid \in Nat
      BY <1>8, MaxTidAssumption, WidthFacts DEF Members, Typed
    <3>3. active_threads + 1 \in 0..UINT16_MAX
      BY <3>1, <3>2, MaxTidAssumption, WidthFacts
    <3>4. OneMore = active_threads + 1
      BY <3>3, WidthFacts DEF OneMore
    <3> QED BY <3>1, <3>2, <3>4
  <2>3. \A s \in Slot : threads[s] # NULL => threads[s] \in tgroup /\ threads[s] # new
    BY <1>1 DEF Members, TableNamesThreads
  <2>4. Members'
    <3>1. \A u \in Task : Alive(u)' => u \in tgroup'
      BY <1>5, <1>6, <1>8 DEF Members
    <3>2. destroy' \in Seq(tgroup')
      BY <1>2, <1>6, <1>8, SeqOfMore DEF Members
    <3>3. \A s \in Slot' : threads'[s] # NULL => threads'[s] \in tgroup'
      BY <1>6, <2>1, <2>3
    <3>4. Alive(Leader) => tid[Leader] = 1
      BY DEF Members
    <3> QED BY <1>3, <1>4, <1>5, <1>6, <2>2, <3>1, <3>2, <3>3, <3>4 DEF Members
  <2>5. TableNamesThreads'
    <3>1. \A s \in Slot' : threads'[s] # NULL => state'[threads'[s]] # "FREE"
      <4> SUFFICES ASSUME NEW s \in Slot', threads'[s] # NULL PROVE state'[threads'[s]] # "FREE"
        OBVIOUS
      <4>1. CASE s = c
        BY <1>4, <2>1, <4>1
      <4>2. CASE s # c
        <5>1. s \in Slot /\ threads'[s] = threads[s]
          BY <2>1, <4>2
        <5>2. threads[s] \in Task \ {new} /\ state[threads[s]] # "FREE"
          BY <1>6, <2>3, <5>1 DEF TableNamesThreads
        <5> QED BY <1>4, <5>1, <5>2
      <4> QED BY <4>1, <4>2
    <3>2. ASSUME NEW u \in tgroup', state'[u] # "FREE"
          PROVE  \E s \in Slot' : threads'[s] = u /\ \A r \in Slot' \ {s} : threads'[r] # u
      <4>1. CASE u = new
        <5>1. \A r \in Slot' \ {c} : threads'[r] # new
          BY <1>3, <2>1, <2>3
        <5> QED BY <2>1, <4>1, <5>1
      <4>2. CASE u # new
        <5>1. u \in tgroup /\ state[u] # "FREE" /\ u # NULL
          BY <1>4, <1>6, <1>8, <3>2, <4>2, ThreadAssumption DEF Task
        <5>2. PICK s \in Slot : threads[s] = u /\ \A r \in Slot \ {s} : threads[r] # u
          BY <5>1 DEF TableNamesThreads
        <5>3. s \in Slot' /\ s # c
          BY <2>1, <5>1, <5>2
        <5>4. threads'[s] = u /\ \A r \in Slot' \ {s} : threads'[r] # u
          BY <2>1, <4>2, <5>2, <5>3
        <5> QED BY <5>3, <5>4
      <4> QED BY <4>1, <4>2
    <3> QED BY <3>1, <3>2 DEF TableNamesThreads
  <2>6. ActiveCoversAll'
    <3>1. Living' \subseteq Living \cup {new}
      BY <1>5, <1>6, <1>8 DEF Living
    <3>2. /\ Cardinality(Living \cup {new}) <= Cardinality(Living) + 1
          /\ IsFiniteSet(Living \cup {new}) /\ Cardinality(Living) \in Nat
      BY LivingFacts, FS_AddElement
    <3>3. Cardinality(Living') <= Cardinality(Living \cup {new}) /\ IsFiniteSet(Living')
      BY <3>1, <3>2, FS_Subset
    <3>4. Cardinality(Living') \in Nat /\ Cardinality(Living \cup {new}) \in Nat
      BY <3>2, <3>3, FS_CardinalityType
    <3>5. active_threads >= Cardinality(Living)
      BY <1>8, CountedFacts
    <3>6. active_threads' >= Cardinality(Living')
      BY <2>2, <3>2, <3>3, <3>4, <3>5
    <3>7. Living' = {u \in tgroup' : state'[u] \in {"READY", "WAITING"}}
      BY DEF Living, Alive
    <3> QED BY <3>6, <3>7 DEF ActiveCoversAll
  <2>7. FreedOnce'
    <3> SUFFICES ASSUME setting \subseteq {"detach"}
                 PROVE  /\ \A i, j \in DOMAIN destroy : destroy[i] = destroy[j] => i = j
                        /\ \A i \in DOMAIN destroy : state'[destroy[i]] = "OVER"
      BY <1>2 DEF FreedOnce
    <3>1. /\ \A i, j \in DOMAIN destroy : destroy[i] = destroy[j] => i = j
          /\ \A i \in DOMAIN destroy : state[destroy[i]] = "OVER"
      BY DEF FreedOnce
    <3>2. \A i \in DOMAIN destroy : destroy[i] \in Task
      BY <1>6, <1>8 DEF Members
    <3> QED BY <1>1, <1>4, <3>1, <3>2
  <2>8. LeaderRuns'
    BY <1>2, <1>3, <1>5 DEF LeaderRuns
  <2> QED BY <2>4, <2>5, <2>6, <2>7, <2>8 DEF Kept
<1> QED BY <1>7, <1>8

(* The tasklet keeps the properties: either one thread leaves the group,   *)
(* or nobody runs any more.                                                *)
LEMMA DestroyKeeps ==
  ASSUME IInv, "end" \notin setting, Typed', task_destroy
  PROVE  Kept'
<1> USE DEF IInv
<1>4. PICK t : t = Head(destroy)
  OBVIOUS
<1>1. /\ destroy # <<>> /\ setting' = setting
      /\ tid' = [tid EXCEPT ![t] = 0]
  BY <1>4 DEF task_destroy
<1>2. CASE t \in tgroup /\ active_threads > 0
  <2>1. /\ LeaveGroup(t) /\ state' = [state EXCEPT ![t] = "FREE"] /\ destroy' = Tail(destroy)
    BY <1>2, <1>4 DEF task_destroy
  <2>2. /\ UNCHANGED <<tgroup, max_tid, active_threads>>
        /\ threads' = [s \in Slot |-> IF threads[s] = t THEN NULL ELSE threads[s]]
    BY <2>1 DEF LeaveGroup
  <2>3. Slot' = Slot /\ \A s \in Slot : threads'[s] = IF threads[s] = t THEN NULL ELSE threads[s]
    BY <2>2 DEF Slot, Typed
  <2>4. /\ tgroup \subseteq Task /\ t \in Task /\ t # NULL /\ destroy \in Seq(tgroup)
        /\ Leader \in tgroup /\ active_threads <= max_tid
    BY <1>2, ThreadAssumption DEF Members, Typed, Task
  <2>5. /\ t = destroy[1] /\ Tail(destroy) \in Seq(tgroup)
        /\ Len(Tail(destroy)) = Len(destroy) - 1 /\ Len(destroy) \in Nat \ {0}
        /\ \A i \in 1..Len(destroy) - 1 : Tail(destroy)[i] = destroy[i + 1]
    BY <1>1, <1>4, <2>4, HeadTailFacts
  <2>6. state'[t] = "FREE" /\ \A u \in Task \ {t} : state'[u] = state[u]
    BY <2>1, <2>4 DEF Typed
  <2>7. ~Alive(t)' /\ \A u \in Task \ {t} : Alive(u)' <=> Alive(u)
    BY <2>6 DEF Alive
  <2>8. Members'
    <3>1. \A u \in Task : Alive(u)' => u \in tgroup
      BY <2>4, <2>7 DEF Members
    <3>2. \A s \in Slot : threads'[s] # NULL => threads'[s] \in tgroup
      BY <2>3 DEF Members
    <3>3. Alive(Leader)' => tid'[Leader] = 1
      <4> SUFFICES ASSUME Alive(Leader)' PROVE tid'[Leader] = 1
        OBVIOUS
      <4>1. Leader # t /\ Leader \in Task
        BY <2>4, <2>7
      <4>2. Alive(Leader) /\ tid'[Leader] = tid[Leader]
        BY <1>1, <2>7, <4>1 DEF Typed
      <4> QED BY <4>2 DEF Members
    <3> QED BY <2>1, <2>2, <2>3, <2>4, <2>5, <3>1, <3>2, <3>3 DEF Members
  <2>9. TableNamesThreads'
    <3>1. \A s \in Slot : threads'[s] # NULL => state'[threads'[s]] # "FREE"
      <4> SUFFICES ASSUME NEW s \in Slot, threads'[s] # NULL PROVE state'[threads'[s]] # "FREE"
        OBVIOUS
      <4>1. threads[s] # t /\ threads'[s] = threads[s] /\ threads[s] # NULL
        BY <2>3
      <4>2. threads[s] \in Task /\ state[threads[s]] # "FREE"
        BY <2>4, <4>1 DEF Members, TableNamesThreads
      <4> QED BY <2>6, <4>1, <4>2
    <3>2. ASSUME NEW u \in tgroup, state'[u] # "FREE"
          PROVE  \E s \in Slot : threads'[s] = u /\ \A r \in Slot \ {s} : threads'[r] # u
      <4>1. u # t /\ u # NULL /\ state[u] # "FREE"
        BY <2>4, <2>6, <3>2, ThreadAssumption DEF Task
      <4>2. PICK s \in Slot : threads[s] = u /\ \A r \in Slot \ {s} : threads[r] # u
        BY <4>1 DEF TableNamesThreads
      <4> QED BY <2>3, <4>1, <4>2
    <3> QED BY <2>2, <2>3, <3>1, <3>2 DEF TableNamesThreads
  <2>10. ActiveCoversAll'
    <3>1. Living' \subseteq Living
      BY <2>2, <2>4, <2>7 DEF Living
    <3>2. /\ Cardinality(Living') <= Cardinality(Living) /\ Cardinality(Living') \in Nat
          /\ Cardinality(Living) \in Nat
      BY <3>1, LivingFacts
    <3>3. active_threads' >= Cardinality(Living')
      BY <2>2, <2>4, <3>2, CountedFacts, WidthFacts DEF Typed
    <3>4. Living' = {u \in tgroup' : state'[u] \in {"READY", "WAITING"}}
      BY DEF Living, Alive
    <3> QED BY <3>3, <3>4 DEF ActiveCoversAll
  <2>11. ASSUME setting \subseteq {"detach"}
         PROVE  /\ \A i, j \in DOMAIN destroy : destroy[i] = destroy[j] => i = j
                /\ \A i \in DOMAIN destroy : state[destroy[i]] = "OVER"
    BY <2>11 DEF FreedOnce
  <2>12. FreedOnce'
    <3> SUFFICES ASSUME setting \subseteq {"detach"}
                 PROVE  /\ \A i, j \in DOMAIN destroy' : destroy'[i] = destroy'[j] => i = j
                        /\ \A i \in DOMAIN destroy' : state'[destroy'[i]] = "OVER"
      BY <1>1 DEF FreedOnce
    <3>1. DOMAIN destroy = 1..Len(destroy) /\ DOMAIN destroy' = 1..Len(destroy) - 1
      BY <2>1, <2>4, <2>5
    <3>2. ASSUME NEW i \in 1..Len(destroy) - 1
          PROVE  /\ destroy'[i] = destroy[i + 1] /\ i + 1 \in 1..Len(destroy)
                 /\ destroy[i + 1] # t /\ destroy[i + 1] \in Task
      <4>1. destroy'[i] = destroy[i + 1] /\ i + 1 \in 1..Len(destroy) /\ 1 \in 1..Len(destroy)
        BY <2>1, <2>5
      <4>2. destroy[i + 1] # destroy[1]
        BY <2>5, <2>11, <3>1, <4>1
      <4>3. destroy[i + 1] \in tgroup
        BY <2>4, <4>1
      <4> QED BY <2>4, <2>5, <4>1, <4>2, <4>3
    <3>3. \A i \in DOMAIN destroy' : state'[destroy'[i]] = "OVER"
      BY <2>6, <2>11, <3>1, <3>2
    <3>4. \A i, j \in DOMAIN destroy' : destroy'[i] = destroy'[j] => i = j
      <4> SUFFICES ASSUME NEW i \in 1..Len(destroy) - 1, NEW j \in 1..Len(destroy) - 1,
                          destroy'[i] = destroy'[j]
                   PROVE  i = j
        BY <3>1
      <4>1. destroy[i + 1] = destroy[j + 1] /\ i + 1 \in 1..Len(destroy) /\ j + 1 \in 1..Len(destroy)
        BY <3>2
      <4>2. i + 1 = j + 1
        BY <2>11, <3>1, <4>1
      <4> QED BY <2>5, <4>2
    <3> QED BY <3>3, <3>4
  <2>13. LeaderRuns'
    <3>1. ASSUME setting \subseteq {"detach"} PROVE Alive(Leader)'
      <4>1. state[t] = "OVER" /\ Alive(Leader)
        BY <2>4, <2>5, <2>11, <3>1 DEF LeaderRuns
      <4>2. Leader # t /\ Leader \in Task
        BY <2>4, <4>1 DEF Alive
      <4> QED BY <2>7, <4>1, <4>2
    <3> QED BY <1>1, <3>1 DEF LeaderRuns
  <2> QED BY <2>8, <2>9, <2>10, <2>12, <2>13 DEF Kept
<1>3. CASE ~(t \in tgroup /\ active_threads > 0)
  <2>1. /\ tgroup' = {} /\ threads' = <<>> /\ max_tid' = 0 /\ active_threads' = 0
        /\ state' = [u \in Task |-> IF u = t THEN "FREE"
                                      ELSE IF t \in tgroup /\ u \in Others(t) THEN "OVER"
                                      ELSE state[u]]
    BY <1>3, <1>4 DEF task_destroy
  <2>2. \A u \in Task : ~Alive(u)
    <3>1. CASE tgroup = {}
      BY <1>1, <3>1 DEF Members
    <3>2. CASE tgroup # {}
      <4>1. destroy \in Seq(tgroup)
        BY <3>2 DEF Members
      <4>2. t \in tgroup
        BY <1>1, <1>4, <4>1, HeadTailFacts
      <4>3. active_threads = 0
        BY <1>3, <4>2, WidthFacts DEF Typed
      <4>4. ASSUME NEW u \in Living PROVE FALSE
        <5>1. Cardinality(Living) >= 1 /\ Cardinality(Living) \in Nat
          BY LivingFacts
        <5> QED BY <3>2, <4>3, <5>1, CountedFacts
      <4> QED BY <3>2, <4>4 DEF Members, Living
    <3> QED BY <3>1, <3>2
  <2>3. \A u \in Task : state'[u] \in {"FREE", "OVER", state[u]}
    BY <2>1
  <2>4. \A u \in Task : ~Alive(u)'
    BY <2>2, <2>3 DEF Alive
  <2>5. Leader \in Task /\ ~(setting \subseteq {"detach"})
    BY <2>2 DEF LeaderRuns, Task
  <2>6. Slot' = {}
    BY <2>1 DEF Slot
  <2>8. Members'
    BY <2>1, <2>4, <2>5, <2>6 DEF Members
  <2>9. TableNamesThreads' /\ ActiveCoversAll'
    BY <2>1, <2>6 DEF TableNamesThreads, ActiveCoversAll
  <2>10. LeaderRuns' /\ FreedOnce'
    BY <1>1, <2>5 DEF LeaderRuns, FreedOnce
  <2> QED BY <2>8, <2>9, <2>10 DEF Kept
<1> QED BY <1>2, <1>3
-----------------------------------------------------------------------------
(* What programs do in a behaviour stays the same. *)
LEMMA SettingStays == [Next]_vars => setting' = setting
<1> SUFFICES ASSUME [Next]_vars PROVE setting' = setting
  OBVIOUS
<1>1. ASSUME NEW t \in Task,
             \/ sys_pthread_create_hdlr(t) \/ pthread_end(t) \/ sys_pthread_exit_hdlr(t)
             \/ sys_exit_hdlr(t) \/ sys_waitpid_hdlr(t)
             \/ \E enable \in BOOLEAN : sys_pthread_setcancelstate_hdlr(t, enable)
      PROVE  setting' = setting
  BY <1>1 DEF sys_pthread_create_hdlr, pthread_end, sys_pthread_exit_hdlr, sys_exit_hdlr,
     sys_waitpid_hdlr, sys_pthread_setcancelstate_hdlr
<1>2. ASSUME NEW t \in Task, NEW i \in Tid,
             \/ sys_pthread_kill_hdlr(t, i) \/ sys_pthread_cancel_hdlr(t, i)
             \/ sys_pthread_detach_hdlr(t, i) \/ sys_pthread_join_hdlr(t, i)
      PROVE  setting' = setting
  BY <1>2 DEF sys_pthread_kill_hdlr, sys_pthread_cancel_hdlr, sys_pthread_detach_hdlr,
     sys_pthread_join_hdlr, JoinFails, JoinSuspends, JoinReturns
<1>3. CASE Signal \/ task_destroy \/ UNCHANGED vars
  BY <1>3 DEF Signal, task_destroy, vars
<1> QED BY <1>1, <1>2, <1>3 DEF Next

(* Every step of a process that does not end by exit keeps the properties. *)
LEMMA KeptStep == IInv /\ "end" \notin setting /\ [Next]_vars => Kept'
<1> SUFFICES ASSUME IInv, "end" \notin setting, [Next]_vars PROVE Kept'
  OBVIOUS
<1>1. Typed /\ Typed'
  BY TypedStep DEF IInv
<1>2. ASSUME NEW t \in Task, Calls(t), ~(setting \subseteq {"detach"} /\ t = Leader), Ends(t),
             UNCHANGED <<tid, tgroup, threads, max_tid, setting>>,
             \/ active_threads' = active_threads
             \/ tgroup # {} /\ active_threads' = OneLess
      PROVE  Kept'
  <2>1. Alive(t) /\ state[t] \notin {"FREE", "OVER"}
    BY <1>2 DEF Calls, Alive
  <2>2. t \in tgroup \/ (tgroup = {} /\ t = Leader)
    BY <2>1 DEF IInv, Members
  <2> QED BY <1>1, <1>2, <2>1, <2>2, EndsKeeps
<1>3. ASSUME NEW t \in Task, Calls(t), Named(tid[t]), setting \subseteq {"detach"}
      PROVE  t # Leader
  <2> SUFFICES ASSUME t = Leader PROVE FALSE
    OBVIOUS
  <2>1. Alive(Leader)
    BY <1>3 DEF Calls, Alive
  <2>2. tid[Leader] = 1
    BY <2>1 DEF IInv, Members
  <2> QED BY <1>3, <2>2 DEF Named
<1>4. ASSUME NEW t \in Task, pthread_end(t) PROVE Kept'
  <2>1. /\ Calls(t) /\ t # Leader /\ active_threads' = OneLess
        /\ UNCHANGED <<tid, tgroup, threads, max_tid, setting>>
    BY <1>4, ThreadAssumption DEF pthread_end
  <2>2. Ends(t)
    BY <1>1, <1>4, CallEnds DEF pthread_end
  <2>3. tgroup # {}
    BY <2>1 DEF Calls, IInv, Members, Alive
  <2> QED BY <1>2, <2>1, <2>2, <2>3
<1>5. ASSUME NEW t \in Task, sys_pthread_exit_hdlr(t) PROVE Kept'
  <2>1. /\ Calls(t) /\ Named(tid[t]) /\ tgroup # {}
        /\ active_threads' = active_threads \/ active_threads' = OneLess
        /\ UNCHANGED <<tid, tgroup, threads, max_tid, setting>>
    BY <1>5 DEF sys_pthread_exit_hdlr
  <2>2. Ends(t)
    BY <1>1, <1>5, CallEnds DEF sys_pthread_exit_hdlr
  <2> QED BY <1>2, <1>3, <2>1, <2>2
<1>6. ASSUME NEW t \in Task, sys_exit_hdlr(t) \/ sys_waitpid_hdlr(t) PROVE Kept'
  BY <1>6 DEF sys_exit_hdlr, sys_waitpid_hdlr
<1>7. ASSUME NEW t \in Task, NEW enable \in BOOLEAN, sys_pthread_setcancelstate_hdlr(t, enable)
      PROVE  Kept'
  <2>1. /\ Calls(t) /\ Named(tid[t]) /\ UNCHANGED <<tid, group, setting>>
        /\ CancelTask(t) \/ UNCHANGED <<state, destroy>>
    BY <1>7 DEF sys_pthread_setcancelstate_hdlr
  <2>2. CASE CancelTask(t)
    <3>1. Ends(t)
      BY <1>1, <2>2, CallEnds
    <3> QED BY <1>2, <1>3, <2>1, <3>1 DEF group
  <2>3. CASE UNCHANGED <<state, destroy>>
    BY <2>1, <2>3, QuietKeeps
  <2> QED BY <2>1, <2>2, <2>3
<1>8. ASSUME NEW i \in Tid, Named(i), NEW t \in pthread_get_task(i), Ends(t),
             UNCHANGED <<tid, group, setting>>
      PROVE  Kept'
  <2>1. /\ t \in Task /\ state[t] # "FREE"
        /\ t \in tgroup \/ (tgroup = {} /\ t = Leader)
        /\ setting \subseteq {"detach"} => t # Leader /\ state[t] # "OVER"
    BY <1>8, FoundFacts
  <2>2. UNCHANGED <<tid, tgroup, threads, max_tid, active_threads, setting>>
    BY <1>8 DEF group
  <2> QED BY <1>1, <1>8, <2>1, <2>2, EndsKeeps
<1>9. ASSUME NEW cur \in Task, NEW i \in Tid, Named(i), sys_pthread_kill_hdlr(cur, i) PROVE Kept'
  <2>1. PICK t \in pthread_get_task(i) : pthread_destroy_task(t)
    BY <1>9 DEF sys_pthread_kill_hdlr
  <2>2. t \in Task
    BY <1>9, FoundFacts
  <2>3. Ends(t) /\ UNCHANGED <<tid, group, setting>>
    BY <1>1, <1>9, <2>1, <2>2, CallEnds DEF sys_pthread_kill_hdlr
  <2> QED BY <1>8, <1>9, <2>3
<1>10. ASSUME NEW cur \in Task, NEW i \in Tid, Named(i), sys_pthread_cancel_hdlr(cur, i)
       PROVE  Kept'
  <2>1. PICK t \in pthread_get_task(i) : CancelTask(t) \/ UNCHANGED <<state, destroy>>
    BY <1>10 DEF sys_pthread_cancel_hdlr
  <2>2. t \in Task /\ UNCHANGED <<tid, group, setting>>
    BY <1>10, FoundFacts DEF sys_pthread_cancel_hdlr
  <2>3. CASE CancelTask(t)
    <3>1. Ends(t)
      BY <1>1, <2>2, <2>3, CallEnds
    <3> QED BY <1>8, <1>10, <2>2, <3>1
  <2>4. CASE UNCHANGED <<state, destroy>>
    BY <2>2, <2>4, QuietKeeps
  <2> QED BY <2>1, <2>3, <2>4
<1>11. ASSUME NEW cur \in Task, NEW i \in Tid, sys_pthread_detach_hdlr(cur, i) PROVE Kept'
  BY <1>11, QuietKeeps DEF sys_pthread_detach_hdlr
<1>12. ASSUME NEW cur \in Task, NEW i \in Tid, Named(i), sys_pthread_join_hdlr(cur, i)
       PROVE  Kept'
  <2>1. CASE JoinFails(cur, i)
    BY <2>1, QuietKeeps DEF JoinFails
  <2>2. CASE JoinSuspends(cur, i)
    <3>1. \A u \in Task : state'[u] = state[u] \/ (Alive(u) /\ Alive(u)')
      BY <1>1, <2>2 DEF JoinSuspends, Joins, Alive, Typed
    <3> QED BY <2>2, <3>1, QuietKeeps DEF JoinSuspends
  <2>3. CASE JoinReturns(cur, i)
    <3>1. PICK t \in pthread_get_task(i) : Over(t)
      BY <2>3 DEF JoinReturns
    <3>2. t \in Task
      BY <1>12, FoundFacts
    <3>3. Ends(t) /\ UNCHANGED <<tid, group, setting>>
      BY <1>1, <2>3, <3>1, <3>2, OverEnds DEF JoinReturns
    <3> QED BY <1>8, <1>12, <3>3
  <2> QED BY <1>12, <2>1, <2>2, <2>3 DEF sys_pthread_join_hdlr
<1>13. CASE Signal
  <2>1. \A u \in Task : state'[u] = state[u] \/ (Alive(u) /\ Alive(u)')
    BY <1>1, <1>13 DEF Signal, Alive, Typed
  <2> QED BY <1>13, <2>1, QuietKeeps DEF Signal
<1>14. CASE UNCHANGED vars
  BY <1>14, QuietKeeps DEF vars
<1> QED BY <1>1, <1>4, <1>5, <1>6, <1>7, <1>9, <1>10, <1>11, <1>12, <1>13, <1>14,
           CreateKeeps, DestroyKeeps DEF Next

(* Every step keeps the inductive invariant. *)
LEMMA InvStep == IInv /\ [Next]_vars => IInv'
<1> SUFFICES ASSUME IInv, [Next]_vars PROVE IInv'
  OBVIOUS
<1>1. Typed' /\ setting' = setting
  BY TypedStep, SettingStays DEF IInv
<1>2. CASE "end" \notin setting
  BY <1>1, <1>2, KeptStep DEF IInv, Kept
<1>3. CASE "end" \in setting
  BY <1>1, <1>3 DEF IInv, TableNamesThreads, ActiveCoversAll, LeaderRuns, FreedOnce
<1> QED BY <1>2, <1>3

(* The initial state satisfies the inductive invariant. *)
LEMMA InvInit == Init => IInv
<1> SUFFICES ASSUME Init PROVE IInv
  OBVIOUS
<1> USE ThreadAssumption, MaxTidAssumption, WidthFacts DEF Init
<1>1. Leader \in Task /\ state[Leader] = "READY" /\ tid[Leader] = 1
      /\ \A t \in Task \ {Leader} : state[t] = "FREE"
  BY DEF Task
<1>2. threads \in Seq(Task \cup {NULL}) /\ Slot = {}
  BY DEF Slot
<1>3. state \in [Task -> {"READY", "WAITING", "ZOMBIE", "OVER", "FREE"}] /\ tid \in [Task -> Nat]
  OBVIOUS
<1>4. Typed
  BY <1>2, <1>3, SettingsAssumption DEF Typed
<1>5. Members /\ LeaderRuns
  BY <1>1, <1>2 DEF Members, LeaderRuns, Alive
<1>6. TableNamesThreads /\ ActiveCoversAll /\ FreedOnce
  BY <1>2 DEF TableNamesThreads, ActiveCoversAll, FreedOnce
<1> QED BY <1>4, <1>5, <1>6 DEF IInv

(* The inductive invariant holds in every reachable state. *)
LEMMA Invariance == Spec => []IInv
BY InvInit, InvStep, PTL DEF Spec

(* A structure is queued for destruction once, and is OVER from then on.   *)
THEOREM FreedOnceHolds == Spec => []FreedOnce
BY Invariance, PTL DEF IInv

(* The table names every thread that is not freed, once, and no other.     *)
THEOREM TableNamesThreadsHolds == Spec => []TableNamesThreads
BY Invariance, PTL DEF IInv

(* The group counts at least the threads that can still run.               *)
THEOREM ActiveCoversAllHolds == Spec => []ActiveCoversAll
BY Invariance, PTL DEF IInv
-----------------------------------------------------------------------------
(* Joining, in programs that neither detach a joined thread, nor name the  *)
(* leader, nor end by exit.                                                *)
JoinTyped == joiner \in [Task -> Nat] /\ joining \in [Task -> Nat]

(* Ids are 1 for the leader, 0 in a freed structure, and else distinct and *)
(* given by the group.                                                     *)
Ids ==
  /\ tid[Leader] = 1
  /\ \A t \in Thread : IF state[t] = "FREE" THEN tid[t] = 0
                       ELSE tid[t] \in 2..max_tid /\ t \in tgroup
  /\ \A t, u \in Thread : tid[t] = tid[u] /\ tid[t] # 0 => t = u

(* Task t sleeps until u ends, and u will resume it then: it names t as    *)
(* its joiner and is not detached.                                         *)
WaitsFor(t, u) == tid[u] = joining[t] /\ Alive(u) /\ joiner[u] = tid[t] /\ u \notin detached

JoinersWait == \A t \in Task : state[t] = "WAITING" => \E u \in Thread : WaitsFor(t, u)

JoinInv == JoinTyped /\ (setting = {} => Ids /\ JoinersWait)

(* A task that has not ended is found by its id. *)
LEMMA AliveIsFound ==
  ASSUME IInv, Ids, setting = {}, NEW t \in Task, Alive(t)
  PROVE  t \in pthread_get_task(tid[t]) /\ tid[t] # 0
<1>1. state[t] # "FREE" /\ state[t] # "OVER" /\ state[Leader] # "FREE"
  BY DEF Alive, IInv, LeaderRuns
<1>2. CASE t = Leader
  BY <1>1, <1>2 DEF Ids, pthread_get_task
<1>3. CASE t \in Thread
  <2>1. tid[t] # 1 /\ tid[t] # 0 /\ t \in tgroup
    <3>1. max_tid \in Nat /\ tid[t] \in 2..max_tid /\ t \in tgroup
      BY <1>1, <1>3 DEF Ids, IInv, Typed
    <3> QED BY <3>1
  <2>2. \E s \in Slot : threads[s] = t
    BY <1>1, <2>1 DEF IInv, TableNamesThreads
  <2> QED BY <1>1, <1>3, <2>1, <2>2 DEF pthread_get_task
<1> QED BY <1>2, <1>3 DEF Task

(* What is found by an id that is not the leader's. *)
LEMMA FoundThread ==
  ASSUME IInv, setting = {}, NEW i \in Tid, Named(i), NEW t \in pthread_get_task(i)
  PROVE  t \in Thread /\ tid[t] = i /\ i # 0 /\ state[t] # "OVER" /\ state[t] # "FREE"
<1>1. i # 1 /\ i # 0
  BY DEF Named
<1> QED BY <1>1, FoundFacts DEF pthread_get_task

(* Ids stay what they are as long as none is given and no structure freed. *)
LEMMA SameIds ==
  ASSUME Ids, UNCHANGED <<tid, max_tid, tgroup>>,
         \A t \in Thread : state'[t] = "FREE" <=> state[t] = "FREE"
  PROVE  Ids'
BY DEF Ids

(* Whoever waits goes on waiting for the same thread, if that one goes on. *)
LEMMA SameWaits ==
  ASSUME NEW t, NEW u, WaitsFor(t, u), Alive(u)', tid'[u] = tid[u], tid'[t] = tid[t],
         joining'[t] = joining[t], joiner'[u] = joiner[u], u \notin detached'
  PROVE  WaitsFor(t, u)'
BY DEF WaitsFor

(* A thread ends: its joiner is resumed. *)
LEMMA EndJoins ==
  ASSUME IInv, Ids, JoinersWait, setting = {}, NEW e \in Thread, state[e] # "FREE", CancelTask(e),
         UNCHANGED <<tid, joiner, detached, joining, max_tid, tgroup>>
  PROVE  Ids' /\ JoinersWait'
<1> DEFINE st == [state EXCEPT ![e] = "ZOMBIE"]
<1>1. Ends(e) /\ e \in Task
  BY CallEnds DEF IInv, Task
<1>2. Ids'
  <2>1. \A t \in Thread : state'[t] = "FREE" <=> state[t] = "FREE"
    BY <1>1 DEF Ends, Task
  <2> QED BY <2>1, SameIds
<1>3. ASSUME NEW t \in Task, state'[t] = "WAITING" PROVE \E u \in Thread : WaitsFor(t, u)'
  <2>1. t # e /\ state[t] = "WAITING" /\ Alive(t)
    BY <1>1, <1>3 DEF Ends, Alive
  <2>2. PICK u \in Thread : WaitsFor(t, u)
    BY <2>1 DEF JoinersWait
  <2>3. CASE u # e
    <3>1. Alive(u)'
      BY <1>1, <2>2, <2>3 DEF Ends, WaitsFor, Alive, Task
    <3> QED BY <2>2, <3>1, SameWaits DEF WaitsFor
  <2>4. CASE u = e
    <3>1. t \in pthread_get_task(joiner[e]) /\ joiner[e] # 0
      BY <2>1, <2>2, <2>4, AliveIsFound DEF WaitsFor
    <3>2. e \notin detached
      BY <2>2, <2>4 DEF WaitsFor
    <3>3. state' = WakeTid(st, joiner[e])
      BY <3>1, <3>2 DEF CancelTask, Zombie
    <3>4. st[t] = "WAITING"
      BY <2>1 DEF IInv, Typed
    <3> HIDE DEF st
    <3>5. state'[t] = "READY"
      BY <3>1, <3>3, <3>4 DEF WakeTid
    <3> QED BY <1>3, <3>5
  <2> QED BY <2>3, <2>4
<1> QED BY <1>2, <1>3 DEF JoinersWait

(* Any thread's end is one like that. *)
LEMMA DestroyIsCancel ==
  ASSUME Typed, Ids, NEW e \in Thread, state[e] # "FREE", pthread_destroy_task(e)
  PROVE  CancelTask(e)
<1>1. max_tid \in Nat /\ tid[e] \in 2..max_tid
  BY DEF Ids, Typed
<1>2. tid[e] > 1 /\ (tid[e] > 1) = TRUE
  BY <1>1
<1> QED BY <1>2 DEF pthread_destroy_task, CancelTask

(* Whoever waited before a call of somebody else still does. *)
LEMMA QuietJoins ==
  ASSUME Ids, JoinersWait, UNCHANGED <<tid, joiner, max_tid, tgroup>>,
         \A t \in Thread : (state'[t] = "FREE" <=> state[t] = "FREE") /\ (Alive(t) => Alive(t)'),
         \A t \in Task : state'[t] = "WAITING" => state[t] = "WAITING" /\ joining'[t] = joining[t],
         \A t \in Thread : joiner[t] # 0 /\ t \notin detached => t \notin detached',
         \A t \in Task : state[t] = "WAITING" => tid[t] # 0
  PROVE  Ids' /\ JoinersWait'
<1>1. Ids'
  BY SameIds
<1>2. ASSUME NEW t \in Task, state'[t] = "WAITING" PROVE \E u \in Thread : WaitsFor(t, u)'
  <2>1. state[t] = "WAITING" /\ joining'[t] = joining[t] /\ tid[t] # 0
    BY <1>2
  <2>2. PICK u \in Thread : WaitsFor(t, u)
    BY <2>1 DEF JoinersWait
  <2>3. Alive(u)' /\ u \notin detached'
    BY <2>1, <2>2 DEF WaitsFor
  <2> QED BY <2>1, <2>2, <2>3, SameWaits
<1> QED BY <1>1, <1>2 DEF JoinersWait

(* Two tasks that are alive have two ids. *)
LEMMA IdsDistinct ==
  ASSUME IInv, Ids, setting = {}, NEW t \in Task, NEW u \in Task, Alive(t), Alive(u), tid[t] = tid[u]
  PROVE  t = u
<1>1. \A v \in Thread : Alive(v) => tid[v] # 1 /\ tid[v] # 0
  BY AliveIsFound DEF Ids, Alive, IInv, Typed
<1> QED BY <1>1 DEF Ids, Task

(* A new thread waits for nobody, and nobody for it. *)
LEMMA CreateJoins ==
  ASSUME IInv, Ids, JoinersWait, setting = {}, NEW cur \in Task, sys_pthread_create_hdlr(cur)
  PROVE  Ids' /\ JoinersWait'
<1>1. PICK new \in Thread : /\ state[new] = "FREE" /\ pthread_add(cur, new)
                             /\ tid' = [tid EXCEPT ![new] = max_tid']
                             /\ state' = [state EXCEPT ![new] = "READY"]
                             /\ detached' \in {detached, detached \cup {new}}
                             /\ joiner' = joiner /\ joining' = joining
  BY DEF sys_pthread_create_hdlr
<1>2. /\ new \in Task /\ new # Leader /\ Leader \in Task
      /\ state'[new] = "READY" /\ \A t \in Task \ {new} : state'[t] = state[t]
      /\ tid'[new] = max_tid' /\ \A t \in Task \ {new} : tid'[t] = tid[t]
  BY <1>1, ThreadAssumption DEF IInv, Typed, Task
<1>3. Alive(cur)
  BY DEF sys_pthread_create_hdlr, Calls, Alive
<1>4. \/ tgroup # {} /\ max_tid' = max_tid + 1
      \/ tgroup = {} /\ max_tid' = 2
  BY <1>1, <1>3 DEF pthread_add, IInv, Members
<1>5. tgroup' = tgroup \cup {cur, new}
  BY <1>1 DEF pthread_add
<1>6. ASSUME NEW t \in Thread, state[t] # "FREE"
      PROVE  tid[t] \in 2..max_tid /\ max_tid' = max_tid + 1
  BY <1>4, <1>6 DEF Ids
<1>7. max_tid \in Nat /\ max_tid' \in Nat /\ max_tid' >= 2
  <2>1. max_tid \in Nat
    BY DEF IInv, Typed
  <2>2. CASE tgroup # {}
    <3>1. max_tid >= 1
      <4>1. active_threads <= max_tid /\ active_threads \in Nat
        BY <2>2 DEF IInv, Members, Typed
      <4>2. Leader \in Living
        BY <2>2 DEF IInv, Members, LeaderRuns, Living
      <4>3. Cardinality(Living) >= 1 /\ Cardinality(Living) \in Nat
        BY <4>2, LivingFacts DEF IInv
      <4>4. active_threads >= Cardinality(Living)
        BY <2>2, CountedFacts
      <4> QED BY <2>1, <4>1, <4>3, <4>4
    <3> QED BY <1>4, <2>1, <2>2, <3>1
  <2> QED BY <1>4, <2>1, <2>2
<1>8. Ids'
  <2>1. tid'[Leader] = 1
    BY <1>2 DEF Ids
  <2>2. ASSUME NEW t \in Thread
        PROVE  IF state'[t] = "FREE" THEN tid'[t] = 0 ELSE tid'[t] \in 2..max_tid' /\ t \in tgroup'
    <3>1. CASE t = new
      BY <1>2, <1>5, <1>7, <3>1
    <3>2. CASE t # new
      <4>1. state'[t] = state[t] /\ tid'[t] = tid[t]
        BY <1>2, <3>2 DEF Task
      <4>2. CASE state[t] = "FREE"
        BY <4>1, <4>2 DEF Ids
      <4>3. CASE state[t] # "FREE"
        <5>1. tid[t] \in 2..max_tid /\ max_tid' = max_tid + 1 /\ t \in tgroup
          BY <1>6, <4>3 DEF Ids
        <5> QED BY <1>5, <1>7, <4>1, <4>3, <5>1
      <4> QED BY <4>2, <4>3
    <3> QED BY <3>1, <3>2
  <2>3. ASSUME NEW t \in Thread, t # new PROVE tid'[t] = tid[t] /\ tid[t] # max_tid'
    <3>1. tid'[t] = tid[t]
      BY <1>2, <2>3 DEF Task
    <3>2. CASE state[t] = "FREE"
      <4>1. tid[t] = 0
        BY <3>2 DEF Ids
      <4> QED BY <1>7, <3>1, <4>1
    <3>3. CASE state[t] # "FREE"
      BY <1>6, <1>7, <3>1, <3>3
    <3> QED BY <3>2, <3>3
  <2>4. \A t, u \in Thread : tid'[t] = tid'[u] /\ tid'[t] # 0 => t = u
    BY <1>2, <2>3 DEF Ids
  <2> QED BY <2>1, <2>2, <2>4 DEF Ids
<1>9. ASSUME NEW t \in Task, state'[t] = "WAITING" PROVE \E u \in Thread : WaitsFor(t, u)'
  <2>1. state[t] = "WAITING" /\ t # new
    BY <1>2, <1>9
  <2>2. PICK u \in Thread : WaitsFor(t, u)
    BY <2>1 DEF JoinersWait
  <2>3. u # new /\ Alive(u)' /\ u \notin detached'
    BY <1>1, <1>2, <2>2 DEF WaitsFor, Alive, Task
  <2>4. u \in Task
    BY DEF Task
  <2> QED BY <1>1, <1>2, <2>1, <2>2, <2>3, <2>4, SameWaits
<1> QED BY <1>8, <1>9 DEF JoinersWait

(* While the leader runs, the tasklet frees one thread and no more. *)
LEMMA OneIsFreed ==
  ASSUME IInv, setting = {}, destroy # <<>>
  PROVE  /\ Head(destroy) \in tgroup /\ active_threads > 0
         /\ state[Head(destroy)] = "OVER" /\ Head(destroy) # Leader
<1>1. Alive(Leader) /\ Leader \in Task
  BY DEF IInv, LeaderRuns, Task
<1>2. tgroup # {}
  BY <1>1 DEF IInv, Members
<1>3. destroy \in Seq(tgroup) /\ Leader \in tgroup
  BY <1>2 DEF IInv, Members
<1>4. Head(destroy) \in tgroup /\ Head(destroy) = destroy[1] /\ 1 \in DOMAIN destroy
  BY <1>3, HeadTailFacts
<1>5. state[Head(destroy)] = "OVER"
  BY <1>4 DEF IInv, FreedOnce
<1>6. active_threads > 0
  <2>1. Cardinality(Living) >= 1 /\ Cardinality(Living) \in Nat
    BY <1>1, <1>3, LivingFacts DEF Living, IInv
  <2>2. active_threads \in Nat
    BY WidthFacts DEF IInv, Typed
  <2> QED BY <1>2, <2>1, <2>2, CountedFacts
<1> QED BY <1>1, <1>4, <1>5, <1>6 DEF Alive

(* Freeing a structure ends nobody's join. *)
LEMMA DestroyJoins ==
  ASSUME IInv, Ids, JoinersWait, JoinTyped, setting = {}, task_destroy
  PROVE  Ids' /\ JoinersWait'
<1>1. PICK t : t = Head(destroy)
  OBVIOUS
<1>2. t \in tgroup /\ active_threads > 0 /\ state[t] = "OVER" /\ t # Leader /\ t \in Task
  BY <1>1, OneIsFreed DEF task_destroy, IInv, Typed
<1>3. /\ state' = [state EXCEPT ![t] = "FREE"] /\ tid' = [tid EXCEPT ![t] = 0]
      /\ joiner' = [joiner EXCEPT ![t] = 0] /\ joining' = [joining EXCEPT ![t] = 0]
      /\ detached' = detached \ {t} /\ tgroup' = tgroup /\ max_tid' = max_tid
  BY <1>1, <1>2 DEF task_destroy, LeaveGroup
<1>4. /\ state'[t] = "FREE" /\ tid'[t] = 0
      /\ \A u \in Task \ {t} : /\ state'[u] = state[u] /\ tid'[u] = tid[u]
                               /\ joiner'[u] = joiner[u] /\ joining'[u] = joining[u]
  BY <1>2, <1>3 DEF IInv, Typed, JoinTyped
<1>5. Ids'
  <2>1. \A u \in Thread : u # t => state'[u] = state[u] /\ tid'[u] = tid[u]
    BY <1>4 DEF Task
  <2>2. tid'[Leader] = 1
    BY <1>2, <1>4 DEF Ids, Task
  <2> QED BY <1>3, <1>4, <2>1, <2>2 DEF Ids
<1>6. ASSUME NEW x \in Task, state'[x] = "WAITING" PROVE \E u \in Thread : WaitsFor(x, u)'
  <2>1. state[x] = "WAITING" /\ x # t
    BY <1>4, <1>6
  <2>2. PICK u \in Thread : WaitsFor(x, u)
    BY <2>1 DEF JoinersWait
  <2>3. u # t /\ u \in Task
    BY <1>2, <2>2 DEF WaitsFor, Alive, Task
  <2>4. Alive(u)' /\ u \notin detached'
    BY <1>3, <1>4, <2>2, <2>3 DEF WaitsFor, Alive
  <2> QED BY <1>4, <2>1, <2>2, <2>3, <2>4, SameWaits
<1> QED BY <1>5, <1>6 DEF JoinersWait

(* A call of pthread_join: the caller waits, or a zombie is reaped. *)
LEMMA JoinJoins ==
  ASSUME IInv, Ids, JoinersWait, JoinTyped, setting = {}, NEW cur \in Task, NEW i \in Tid, Named(i),
         sys_pthread_join_hdlr(cur, i)
  PROVE  Ids' /\ JoinersWait'
<1>1. \A t \in Task : state[t] = "WAITING" => tid[t] # 0
  BY AliveIsFound DEF Alive
<1>2. state[cur] = "READY" /\ \A t \in Task \ {cur} : joining'[t] = joining[t]
  BY DEF sys_pthread_join_hdlr, JoinFails, JoinSuspends, JoinReturns, Joins, JoinTyped
<1>3. CASE JoinFails(cur, i)
  BY <1>1, <1>2, <1>3, QuietJoins DEF JoinFails, flags, group, Alive
<1>4. CASE JoinSuspends(cur, i)
  <2>1. PICK e \in pthread_get_task(i) : /\ ~JoinRefused(cur, e) /\ state[e] # "ZOMBIE"
                                         /\ joiner' = [joiner EXCEPT ![e] = tid[cur]]
    BY <1>4 DEF JoinSuspends
  <2>2. /\ state' = [state EXCEPT ![cur] = "WAITING"] /\ joining' = [joining EXCEPT ![cur] = i]
        /\ UNCHANGED <<tid, detached, max_tid, tgroup>>
    BY <1>4 DEF JoinSuspends, flags, group
  <2>3. e \in Thread /\ e \in Task /\ tid[e] = i /\ e # cur /\ e \notin detached
        /\ joiner[e] \in {0, tid[cur]}
    BY <2>1, FoundThread DEF JoinRefused, Task
  <2>4. Alive(e)
    <3>1. state[e] # "OVER" /\ state[e] # "FREE" /\ state[e] \in {"READY", "WAITING", "ZOMBIE", "OVER", "FREE"}
      BY <2>1, <2>3, FoundThread DEF IInv, Typed
    <3> QED BY <2>1, <3>1 DEF Alive
  <2>5. /\ state'[cur] = "WAITING" /\ joining'[cur] = i /\ joiner'[e] = tid[cur]
        /\ \A t \in Task : (t # cur => state'[t] = state[t]) /\ (t # e => joiner'[t] = joiner[t])
    BY <2>1, <2>2, <2>3 DEF IInv, Typed, JoinTyped
  <2>6. \A t \in Task : Alive(t) => Alive(t)'
    BY <2>5 DEF Alive
  <2>7. Ids'
    <3>1. \A t \in Thread : state'[t] = "FREE" <=> state[t] = "FREE"
      BY <1>2, <2>5 DEF Task
    <3> QED BY <2>2, <3>1, SameIds
  <2>8. WaitsFor(cur, e)'
    BY <2>2, <2>3, <2>4, <2>5, <2>6 DEF WaitsFor
  <2>9. ASSUME NEW t \in Task, t # cur, state'[t] = "WAITING" PROVE \E u \in Thread : WaitsFor(t, u)'
    <3>1. state[t] = "WAITING" /\ joining'[t] = joining[t]
      BY <1>2, <2>5, <2>9
    <3>2. PICK u \in Thread : WaitsFor(t, u)
      BY <3>1 DEF JoinersWait
    <3>3. u # e
      <4> SUFFICES ASSUME u = e PROVE FALSE
        OBVIOUS
      <4>1. tid[t] = tid[cur]
        BY <1>1, <2>3, <3>1, <3>2 DEF WaitsFor
      <4> QED BY <1>2, <2>9, <3>1, <4>1, IdsDistinct DEF Alive
    <3>4. Alive(u)' /\ u \in Task /\ u \notin detached'
      BY <2>2, <2>6, <3>2 DEF WaitsFor, Task
    <3> QED BY <2>2, <2>5, <3>1, <3>2, <3>3, <3>4, SameWaits
  <2> QED BY <2>3, <2>7, <2>8, <2>9 DEF JoinersWait
<1>5. CASE JoinReturns(cur, i)
  <2>1. PICK e \in pthread_get_task(i) : /\ state[e] = "ZOMBIE" /\ Over(e)
                                         /\ joiner' = [joiner EXCEPT ![e] = tid[cur]]
    BY <1>5 DEF JoinReturns
  <2>2. UNCHANGED <<tid, detached, max_tid, tgroup>>
    BY <1>5 DEF JoinReturns, flags, group
  <2>3. e \in Thread /\ e \in Task
    BY <2>1, FoundThread DEF Task
  <2>4. /\ state'[e] = "OVER"
        /\ \A t \in Task : t # e => state'[t] = state[t] /\ joiner'[t] = joiner[t]
    BY <2>1, <2>3 DEF Over, IInv, Typed, JoinTyped
  <2>5. Ids'
    <3>1. \A t \in Thread : state'[t] = "FREE" <=> state[t] = "FREE"
      BY <2>1, <2>3, <2>4 DEF Task
    <3> QED BY <2>2, <3>1, SameIds
  <2>6. ASSUME NEW t \in Task, state'[t] = "WAITING" PROVE \E u \in Thread : WaitsFor(t, u)'
    <3>1. state[t] = "WAITING" /\ t # cur /\ t # e
      BY <1>2, <2>4, <2>6
    <3>2. PICK u \in Thread : WaitsFor(t, u)
      BY <3>1 DEF JoinersWait
    <3>3. u # e /\ u \in Task
      BY <2>1, <3>2 DEF WaitsFor, Alive, Task
    <3>4. Alive(u)' /\ u \notin detached'
      BY <2>2, <2>4, <3>2, <3>3 DEF WaitsFor, Alive
    <3> QED BY <1>2, <2>2, <2>4, <3>1, <3>2, <3>3, <3>4, SameWaits
  <2> QED BY <2>5, <2>6 DEF JoinersWait
<1> QED BY <1>3, <1>4, <1>5 DEF sys_pthread_join_hdlr

(* The numbers of the threads that are joined, and join, are numbers. *)
LEMMA JoinTypedStep == Typed /\ JoinTyped /\ [Next]_vars => JoinTyped'
<1> SUFFICES ASSUME Typed, JoinTyped, [Next]_vars PROVE JoinTyped'
  OBVIOUS
<1>1. ASSUME NEW t \in Task,
             \/ sys_pthread_create_hdlr(t) \/ pthread_end(t) \/ sys_pthread_exit_hdlr(t)
             \/ sys_exit_hdlr(t) \/ sys_waitpid_hdlr(t)
             \/ \E enable \in BOOLEAN : sys_pthread_setcancelstate_hdlr(t, enable)
      PROVE  JoinTyped'
  BY <1>1 DEF sys_pthread_create_hdlr, pthread_end, sys_pthread_exit_hdlr, sys_exit_hdlr,
     sys_waitpid_hdlr, sys_pthread_setcancelstate_hdlr, JoinTyped
<1>2. ASSUME NEW t \in Task, NEW i \in Tid,
             \/ sys_pthread_kill_hdlr(t, i) \/ sys_pthread_cancel_hdlr(t, i)
             \/ sys_pthread_detach_hdlr(t, i)
      PROVE  JoinTyped'
  BY <1>2 DEF sys_pthread_kill_hdlr, sys_pthread_cancel_hdlr, sys_pthread_detach_hdlr, JoinTyped
<1>3. ASSUME NEW t \in Task, NEW i \in Tid, sys_pthread_join_hdlr(t, i) PROVE JoinTyped'
  <2>1. i \in Nat /\ tid[t] \in Nat
    BY DEF Tid, Typed
  <2>2. CASE JoinFails(t, i)
    BY <2>2 DEF JoinFails, JoinTyped
  <2>3. CASE JoinSuspends(t, i)
    BY <2>1, <2>3 DEF JoinSuspends, JoinTyped
  <2>4. CASE JoinReturns(t, i)
    BY <2>1, <2>4 DEF JoinReturns, JoinTyped
  <2> QED BY <1>3, <2>2, <2>3, <2>4 DEF sys_pthread_join_hdlr
<1>4. CASE Signal \/ UNCHANGED vars
  BY <1>4 DEF Signal, vars, JoinTyped
<1>5. CASE task_destroy
  <2>1. PICK t : t = Head(destroy)
    OBVIOUS
  <2>2. joiner' = [joiner EXCEPT ![t] = 0] /\ joining' = [joining EXCEPT ![t] = 0]
    BY <1>5, <2>1 DEF task_destroy
  <2> QED BY <2>2 DEF JoinTyped
<1> QED BY <1>1, <1>2, <1>3, <1>4, <1>5 DEF Next

(* Every step of a program without these habits keeps the joins. *)
LEMMA JoinStep == IInv /\ JoinInv /\ [Next]_vars => JoinInv'
<1> SUFFICES ASSUME IInv, JoinInv, [Next]_vars PROVE JoinInv'
  OBVIOUS
<1>1. JoinTyped' /\ setting' = setting
  BY JoinTypedStep, SettingStays DEF IInv, JoinInv
<1>2. SUFFICES ASSUME setting = {} PROVE Ids' /\ JoinersWait'
  BY <1>1 DEF JoinInv
<1>3. Typed /\ JoinTyped /\ Ids /\ JoinersWait
  BY <1>2 DEF IInv, JoinInv
<1>4. \A t \in Task : Alive(t) => tid[t] # 0
  BY <1>2, <1>3, AliveIsFound
<1>5. ASSUME NEW t \in Task, Calls(t), Named(tid[t]) PROVE t \in Thread /\ state[t] # "FREE"
  BY <1>2, <1>3, <1>5 DEF Named, Ids, Calls, Task
<1>6. ASSUME NEW t \in Task, sys_pthread_create_hdlr(t) PROVE Ids' /\ JoinersWait'
  BY <1>2, <1>3, <1>6, CreateJoins
<1>7. ASSUME NEW t \in Task, pthread_end(t) \/ sys_pthread_exit_hdlr(t) PROVE Ids' /\ JoinersWait'
  <2>1. t \in Thread /\ state[t] # "FREE" /\ pthread_destroy_task(t)
    BY <1>5, <1>7 DEF pthread_end, sys_pthread_exit_hdlr, Calls
  <2>2. UNCHANGED <<tid, joiner, detached, joining, max_tid, tgroup>>
    BY <1>7 DEF pthread_end, sys_pthread_exit_hdlr, flags
  <2> QED BY <1>2, <1>3, <2>1, <2>2, DestroyIsCancel, EndJoins
<1>8. ASSUME NEW t \in Task, sys_exit_hdlr(t) \/ sys_waitpid_hdlr(t) PROVE Ids' /\ JoinersWait'
  BY <1>2, <1>8 DEF sys_exit_hdlr, sys_waitpid_hdlr
<1>9. ASSUME UNCHANGED <<state, tid, joiner, joining, max_tid, tgroup>>,
             \A t \in Thread : joiner[t] # 0 /\ t \notin detached => t \notin detached'
      PROVE  Ids' /\ JoinersWait'
  BY <1>3, <1>4, <1>9, QuietJoins DEF Alive
<1>10. ASSUME NEW t \in Task, NEW enable \in BOOLEAN, sys_pthread_setcancelstate_hdlr(t, enable)
       PROVE  Ids' /\ JoinersWait'
  <2>1. /\ t \in Thread /\ state[t] # "FREE"
        /\ UNCHANGED <<tid, joiner, detached, joining, max_tid, tgroup>>
        /\ CancelTask(t) \/ UNCHANGED <<state, destroy>>
    BY <1>5, <1>10 DEF sys_pthread_setcancelstate_hdlr, group
  <2> QED BY <1>2, <1>3, <1>9, <2>1, EndJoins
<1>11. ASSUME NEW cur \in Task, NEW i \in Tid, Named(i), sys_pthread_kill_hdlr(cur, i)
       PROVE  Ids' /\ JoinersWait'
  <2>1. PICK t \in pthread_get_task(i) : pthread_destroy_task(t)
    BY <1>11 DEF sys_pthread_kill_hdlr
  <2>2. t \in Thread /\ state[t] # "FREE"
    BY <1>2, <1>11, FoundThread
  <2>3. UNCHANGED <<tid, joiner, detached, joining, max_tid, tgroup>>
    BY <1>11 DEF sys_pthread_kill_hdlr, flags, group
  <2> QED BY <1>2, <1>3, <2>1, <2>2, <2>3, DestroyIsCancel, EndJoins
<1>12. ASSUME NEW cur \in Task, NEW i \in Tid, Named(i), sys_pthread_cancel_hdlr(cur, i)
       PROVE  Ids' /\ JoinersWait'
  <2>1. PICK t \in pthread_get_task(i) : CancelTask(t) \/ UNCHANGED <<state, destroy>>
    BY <1>12 DEF sys_pthread_cancel_hdlr
  <2>2. t \in Thread /\ state[t] # "FREE"
    BY <1>2, <1>12, FoundThread
  <2>3. UNCHANGED <<tid, joiner, detached, joining, max_tid, tgroup>>
    BY <1>12 DEF sys_pthread_cancel_hdlr, group
  <2> QED BY <1>2, <1>3, <1>9, <2>1, <2>2, <2>3, EndJoins
<1>13. ASSUME NEW cur \in Task, NEW i \in Tid, Named(i), sys_pthread_detach_hdlr(cur, i)
       PROVE  Ids' /\ JoinersWait'
  <2>1. PICK t \in pthread_get_task(i) : /\ joiner[t] # 0 => "detach" \in setting
                                         /\ detached' = detached \cup {t}
    BY <1>13 DEF sys_pthread_detach_hdlr
  <2>2. \A u \in Thread : joiner[u] # 0 /\ u \notin detached => u \notin detached'
    BY <1>2, <2>1
  <2> QED BY <1>9, <1>13, <2>2 DEF sys_pthread_detach_hdlr, group
<1>14. ASSUME NEW cur \in Task, NEW i \in Tid, Named(i), sys_pthread_join_hdlr(cur, i)
       PROVE  Ids' /\ JoinersWait'
  BY <1>2, <1>3, <1>14, JoinJoins
<1>15. CASE Signal
  <2>1. /\ state' = [state EXCEPT ![Leader] = "READY"] /\ joining' = [joining EXCEPT ![Leader] = 0]
        /\ UNCHANGED <<tid, joiner, detached, max_tid, tgroup>> /\ state[Leader] = "WAITING"
    BY <1>15 DEF Signal, flags, group
  <2>2. \A t \in Thread : state'[t] = state[t]
    BY <2>1, ThreadAssumption DEF IInv, Typed, Task
  <2>3. \A t \in Task : state'[t] = "WAITING" => state[t] = "WAITING" /\ joining'[t] = joining[t]
    BY <1>3, <2>1 DEF Typed, JoinTyped
  <2> QED BY <1>3, <1>4, <2>1, <2>2, <2>3, QuietJoins DEF Alive
<1>16. CASE task_destroy
  BY <1>2, <1>3, <1>16, DestroyJoins
<1>17. CASE UNCHANGED vars
  BY <1>9, <1>17 DEF vars, flags, group
<1> QED BY <1>6, <1>7, <1>8, <1>10, <1>11, <1>12, <1>13, <1>14, <1>15, <1>16, <1>17 DEF Next

(* Whoever sleeps in pthread_join waits for a thread that has not ended.   *)
THEOREM NoLostJoinHolds == Spec => []NoLostJoin
<1>1. Init => JoinInv
  BY ThreadAssumption DEF Init, JoinInv, JoinTyped, Ids, JoinersWait, Task
<1>2. JoinInv => NoLostJoin
  BY DEF JoinInv, JoinersWait, WaitsFor, NoLostJoin, Alive, Task
<1> QED BY <1>1, <1>2, JoinStep, Invariance, PTL DEF Spec
-----------------------------------------------------------------------------
(* The end of a group, whatever programs do.  Grouped: every structure     *)
(* that is not free is in the table, under an id of its own, so that       *)
(* destroy_thread_group finds it.                                          *)
Grouped ==
  tgroup # {} =>
    /\ destroy \in Seq(tgroup)
    /\ \A t \in Task : state[t] # "FREE" =>
         t \in tgroup /\ tid[t] \in 1..max_tid /\ \E s \in Slot : threads[s] = t
    /\ \A t \in Task : state[t] = "FREE" => tid[t] = 0
    /\ \A t, u \in Task : tid[t] = tid[u] /\ tid[t] # 0 => t = u

(* Before there is a group the leader is alone; afterwards nobody runs. *)
Alone ==
  tgroup = {} =>
    /\ threads = <<>> /\ \A t \in Thread : state[t] \in {"OVER", "FREE"}
    /\ state[Leader] \notin {"OVER", "FREE"} =>
         /\ destroy = <<>> /\ tid[Leader] = 1
         /\ \A t \in Thread : state[t] = "FREE" /\ tid[t] = 0

OutInv == Typed /\ Grouped /\ Alone

(* Who runs is in the group, or alone. *)
LEMMA AliveFacts ==
  ASSUME OutInv, NEW t \in Task, state[t] \notin {"OVER", "FREE"}
  PROVE  t \in tgroup \/ (tgroup = {} /\ t = Leader)
BY DEF OutInv, Grouped, Alone, Task

(* Whom a call can name: somebody whose structure is not free. *)
LEMMA NamedFacts ==
  ASSUME OutInv, NEW cur \in Task, state[cur] \notin {"OVER", "FREE"}, NEW i \in Tid, Named(i), NEW t \in pthread_get_task(i)
  PROVE  t \in Task /\ state[t] # "FREE" /\ (tgroup = {} => t = cur)
<1>1. CASE i = 1
  BY <1>1, AliveFacts DEF pthread_get_task, Task
<1>2. CASE i # 1
  <2>1. PICK s \in Slot : threads[s] = t
    BY <1>2 DEF pthread_get_task
  <2>2. t \in Thread /\ tid[t] = i /\ state[t] # "OVER" /\ tgroup # {}
    BY <1>2, <2>1 DEF pthread_get_task, Slot, OutInv, Alone
  <2>3. i # 0 /\ t \in Task
    BY <2>2 DEF Named, Tid, Task
  <2> QED BY <2>2, <2>3 DEF OutInv, Grouped
<1> QED BY <1>1, <1>2

(* The end of a task. *)
LEMMA EndsOut ==
  ASSUME OutInv, NEW e \in Task, state[e] # "FREE", Ends(e), Typed',
         tgroup = {} => state[e] # "OVER",
         UNCHANGED <<tid, tgroup, threads, max_tid>>
  PROVE  OutInv'
<1>1. /\ state'[e] # "FREE" /\ \A t \in Task : state'[t] = "FREE" <=> state[t] = "FREE"
      /\ \A t \in Task \ {e} : state'[t] \in {"OVER", "FREE"} <=> state[t] \in {"OVER", "FREE"}
  BY DEF Ends
<1>2. Grouped'
  <2> SUFFICES ASSUME tgroup # {} PROVE Grouped'
    BY DEF Grouped
  <2>1. e \in tgroup /\ destroy \in Seq(tgroup)
    BY DEF OutInv, Grouped
  <2>2. destroy' \in Seq(tgroup)
    BY <2>1 DEF Ends
  <2>3. Slot' = Slot
    BY DEF Slot
  <2> QED BY <1>1, <2>2, <2>3 DEF OutInv, Grouped
<1>3. Alone'
  <2> SUFFICES ASSUME tgroup = {} PROVE Alone'
    BY DEF Alone
  <2>1. e = Leader /\ destroy = <<>> /\ tid[Leader] = 1 /\ \A t \in Thread : state[t] = "FREE" /\ tid[t] = 0
    BY AliveFacts DEF OutInv, Alone
  <2>2. \A t \in Thread : state'[t] = "FREE"
    BY <1>1, <2>1, ThreadAssumption DEF Task
  <2>3. state'[Leader] \notin {"OVER", "FREE"} => destroy' = <<>>
    BY <2>1 DEF Ends
  <2> QED BY <2>1, <2>2, <2>3 DEF OutInv, Alone
<1> QED BY <1>2, <1>3 DEF OutInv

(* Calls that end nobody. *)
LEMMA QuietOut ==
  ASSUME OutInv, Typed', UNCHANGED <<tid, tgroup, threads, max_tid, destroy>>,
         \A t \in Task : state'[t] = state[t] \/ (Alive(t) /\ Alive(t)')
  PROVE  OutInv'
<1>1. /\ \A t \in Task : state'[t] = "FREE" <=> state[t] = "FREE"
      /\ \A t \in Task : state'[t] \in {"OVER", "FREE"} <=> state[t] \in {"OVER", "FREE"}
  BY DEF Alive
<1>2. Slot' = Slot /\ Leader \in Task /\ \A t \in Thread : t \in Task
  BY DEF Slot, Task
<1>3. Grouped'
  BY <1>1, <1>2 DEF OutInv, Grouped
<1>4. Alone'
  BY <1>1, <1>2 DEF OutInv, Alone
<1> QED BY <1>3, <1>4 DEF OutInv

(* A new thread gets an id and a place of its own. *)
LEMMA CreateOut ==
  ASSUME OutInv, Typed', NEW cur \in Task, sys_pthread_create_hdlr(cur)
  PROVE  OutInv'
<1>1. PICK new \in Thread : /\ state[new] = "FREE" /\ pthread_add(cur, new)
                             /\ tid' = [tid EXCEPT ![new] = max_tid']
                             /\ state' = [state EXCEPT ![new] = "READY"]
                             /\ destroy' = destroy
  BY DEF sys_pthread_create_hdlr
<1>2. /\ new \in Task /\ new # Leader /\ Leader \in Task /\ new # NULL
      /\ state'[new] = "READY" /\ \A t \in Task \ {new} : state'[t] = state[t]
      /\ tid'[new] = max_tid' /\ \A t \in Task \ {new} : tid'[t] = tid[t]
  BY <1>1, ThreadAssumption DEF OutInv, Typed, Task
<1>3. state[cur] \notin {"OVER", "FREE"}
  BY DEF sys_pthread_create_hdlr, Calls
<1>4. cur \in tgroup \/ (tgroup = {} /\ cur = Leader)
  BY <1>3, AliveFacts
<1>5. tgroup' = tgroup \cup {cur, new}
  BY <1>1 DEF pthread_add
<1>6. tgroup' # {} /\ Alone'
  BY <1>5 DEF Alone
<1>7. max_tid \in Nat /\ max_tid' \in Nat
  BY DEF OutInv, Typed
<1>8. \A t \in Task \ {new} : tid[t] # max_tid' /\ (state[t] # "FREE" => tid[t] \in 1..max_tid')
  <2>1. CASE cur \in tgroup
    <3>1. max_tid' = max_tid + 1
      BY <1>1, <2>1 DEF pthread_add
    <3>2. \A t \in Task : IF state[t] = "FREE" THEN tid[t] = 0 ELSE tid[t] \in 1..max_tid
      BY <2>1 DEF OutInv, Grouped
    <3> QED BY <1>7, <3>1, <3>2
  <2>2. CASE tgroup = {} /\ cur = Leader
    <3>1. max_tid' = 2
      BY <1>1, <2>2 DEF pthread_add
    <3>2. tid[Leader] = 1 /\ \A t \in Thread : state[t] = "FREE" /\ tid[t] = 0
      BY <1>3, <2>2 DEF OutInv, Alone
    <3> QED BY <3>1, <3>2 DEF Task
  <2> QED BY <1>4, <2>1, <2>2
<1>9. destroy' \in Seq(tgroup')
  <2>1. CASE cur \in tgroup
    BY <1>1, <1>5, <2>1, SeqOfMore DEF OutInv, Grouped
  <2>2. CASE tgroup = {} /\ cur = Leader
    <3>1. destroy' = <<>>
      BY <1>1, <1>3, <2>2 DEF OutInv, Alone
    <3> QED BY <3>1
  <2> QED BY <1>4, <2>1, <2>2
<1>10. ASSUME NEW t \in Task, state'[t] # "FREE"
       PROVE  t \in tgroup' /\ \E s \in Slot' : threads'[s] = t
  <2>1. CASE cur \in tgroup
    <3>1. PICK c \in Slot' :
               /\ c \in Slot => threads[c] = NULL
               /\ \A s \in Slot' : threads'[s] = IF s = c THEN new ELSE threads[s]
               /\ Slot' = Slot \cup {c}
      BY <1>1, <2>1, AddFacts DEF OutInv
    <3>2. CASE t = new
      BY <1>5, <3>1, <3>2
    <3>3. CASE t # new
      <4>1. state[t] # "FREE" /\ t # NULL
        BY <1>2, <1>10, <3>3, ThreadAssumption DEF Task
      <4>2. t \in tgroup
        BY <2>1, <4>1 DEF OutInv, Grouped
      <4>3. PICK s \in Slot : threads[s] = t
        BY <2>1, <4>1 DEF OutInv, Grouped
      <4> QED BY <1>5, <3>1, <4>1, <4>2, <4>3
    <3> QED BY <3>2, <3>3
  <2>2. CASE tgroup = {} /\ cur = Leader
    <3>1. threads' = <<cur, new>> /\ 1 \in Slot' /\ 2 \in Slot'
      <4>1. threads' = <<cur, new>>
        BY <1>1, <2>2, Zenon DEF pthread_add, TakePlace
      <4>2. Len(<<cur, new>>) = 2 /\ 1 \in 1..2 /\ 2 \in 1..2
        OBVIOUS
      <4> QED BY <4>1, <4>2, Zenon DEF Slot
    <3>2. t \in {cur, new}
      BY <1>2, <1>3, <1>10, <2>2 DEF OutInv, Alone, Task
    <3> QED BY <1>5, <3>1, <3>2
  <2> QED BY <1>4, <2>1, <2>2
<1>11. \A t \in Task \ {new} : state[t] = "FREE" => tid[t] = 0
  BY <1>3, <1>4 DEF OutInv, Grouped, Alone, Task
<1>12. \A t, u \in Task \ {new} : tid[t] = tid[u] /\ tid[t] # 0 => t = u
  BY <1>3, <1>4 DEF OutInv, Grouped, Alone, Task
<1>13. max_tid' # 0 /\ max_tid' \in 1..max_tid'
  <2>1. max_tid' # 0
    BY <1>1, <1>7 DEF pthread_add
  <2> QED BY <1>7, <2>1
<1>14. \A t \in Task : state'[t] # "FREE" => tid'[t] \in 1..max_tid'
  BY <1>2, <1>8, <1>13
<1>15. \A t \in Task : state'[t] = "FREE" => tid'[t] = 0
  BY <1>2, <1>11
<1>16. \A t, u \in Task : tid'[t] = tid'[u] /\ tid'[t] # 0 => t = u
  BY <1>2, <1>8, <1>12
<1>17. Grouped'
  BY <1>9, <1>10, <1>14, <1>15, <1>16 DEF Grouped
<1> QED BY <1>6, <1>17 DEF OutInv

(* The tasklet frees one structure, or ends the group with all its threads. *)
LEMMA DestroyOut ==
  ASSUME OutInv, Typed', task_destroy
  PROVE  OutInv'
<1>1. PICK t : t = Head(destroy)
  OBVIOUS
<1>2. destroy # <<>> /\ tid' = [tid EXCEPT ![t] = 0]
  BY <1>1 DEF task_destroy
<1>3. CASE t \in tgroup /\ active_threads > 0
  <2>1. /\ state' = [state EXCEPT ![t] = "FREE"] /\ destroy' = Tail(destroy)
        /\ threads' = [s \in Slot |-> IF threads[s] = t THEN NULL ELSE threads[s]]
        /\ UNCHANGED <<tgroup, max_tid>>
    BY <1>1, <1>3 DEF task_destroy, LeaveGroup
  <2>2. t \in Task
    BY <1>3 DEF OutInv, Typed
  <2>3. /\ state'[t] = "FREE" /\ tid'[t] = 0
        /\ \A u \in Task \ {t} : state'[u] = state[u] /\ tid'[u] = tid[u]
    BY <1>2, <2>1, <2>2 DEF OutInv, Typed
  <2>4. Slot' = Slot
    <3>1. Len(threads) \in Nat /\ DOMAIN threads' = 1..Len(threads) /\ threads' \in Seq(Task \cup {NULL})
      BY <2>1 DEF OutInv, Typed, Slot
    <3>2. Len(threads') = Len(threads)
      BY <3>1
    <3> QED BY <3>2 DEF Slot
  <2>5. destroy' \in Seq(tgroup')
    BY <1>2, <1>3, <2>1, HeadTailFacts DEF OutInv, Grouped
  <2>6. ASSUME NEW u \in Task, state'[u] # "FREE"
        PROVE  u \in tgroup' /\ tid'[u] \in 1..max_tid' /\ \E s \in Slot' : threads'[s] = u
    <3>1. u # t /\ state[u] # "FREE"
      BY <2>3, <2>6
    <3>2. u \in tgroup /\ tid[u] \in 1..max_tid
      BY <1>3, <3>1 DEF OutInv, Grouped
    <3>3. PICK s \in Slot : threads[s] = u
      BY <1>3, <3>1 DEF OutInv, Grouped
    <3> QED BY <2>1, <2>3, <2>4, <3>1, <3>2, <3>3
  <2>7. \A u \in Task : state'[u] = "FREE" => tid'[u] = 0
    BY <1>3, <2>3 DEF OutInv, Grouped
  <2>8. \A u, v \in Task : tid'[u] = tid'[v] /\ tid'[u] # 0 => u = v
    BY <1>3, <2>3 DEF OutInv, Grouped
  <2>9. Grouped'
    BY <2>5, <2>6, <2>7, <2>8 DEF Grouped
  <2> QED BY <1>3, <2>1, <2>9 DEF OutInv, Alone
<1>4. CASE ~(t \in tgroup /\ active_threads > 0)
  <2>1. /\ tgroup' = {} /\ threads' = <<>>
        /\ state' = [u \in Task |-> IF u = t THEN "FREE"
                                    ELSE IF t \in tgroup /\ u \in Others(t) THEN "OVER"
                                    ELSE state[u]]
    BY <1>1, <1>4 DEF task_destroy
  <2>2. ASSUME NEW u \in Task PROVE state'[u] \in {"OVER", "FREE"}
    <3>1. CASE u = t
      BY <2>1, <3>1
    <3>2. CASE u # t /\ tgroup = {}
      <4>1. state[u] \in {"OVER", "FREE"}
        BY <1>2, <3>2 DEF OutInv, Alone, Task
      <4> QED BY <2>1, <3>2, <4>1
    <3>3. CASE u # t /\ tgroup # {} /\ state[u] # "FREE"
      <4>1. t \in tgroup /\ t \in Task
        BY <1>1, <1>2, <3>3, HeadTailFacts DEF OutInv, Grouped, Typed
      <4>2. /\ \E s \in Slot : threads[s] = u
            /\ tid[u] # 0 /\ tid[u] # tid[t]
        BY <3>3, <4>1 DEF OutInv, Grouped
      <4>3. u \in Others(t)
        BY <4>2 DEF Others
      <4> QED BY <2>1, <3>3, <4>1, <4>3
    <3>4. CASE u # t /\ state[u] = "FREE"
      BY <2>1, <3>4
    <3> QED BY <3>1, <3>2, <3>3, <3>4
  <2>3. Alone'
    BY <2>1, <2>2 DEF Alone, Task
  <2> QED BY <2>1, <2>3 DEF OutInv, Grouped
<1> QED BY <1>3, <1>4

(* Every step keeps it. *)
LEMMA OutStep == OutInv /\ [Next]_vars => OutInv'
<1> SUFFICES ASSUME OutInv, [Next]_vars PROVE OutInv'
  OBVIOUS
<1>1. Typed /\ Typed'
  BY TypedStep DEF OutInv
<1>2. ASSUME NEW t \in Task, pthread_end(t) \/ sys_pthread_exit_hdlr(t) PROVE OutInv'
  <2>1. /\ state[t] \notin {"OVER", "FREE"} /\ Ends(t)
        /\ UNCHANGED <<tid, tgroup, threads, max_tid>>
    BY <1>1, <1>2, CallEnds DEF pthread_end, sys_pthread_exit_hdlr, Calls
  <2> QED BY <1>1, <2>1, EndsOut
<1>3. ASSUME NEW t \in Task, sys_exit_hdlr(t) PROVE OutInv'
  <2>1. /\ state[t] \notin {"OVER", "FREE"} /\ Ends(t)
        /\ UNCHANGED <<tid, tgroup, threads, max_tid>>
    BY <1>1, <1>3 DEF sys_exit_hdlr, Calls, Ends, Typed, group
  <2> QED BY <1>1, <2>1, EndsOut
<1>4. ASSUME NEW t \in Task, sys_waitpid_hdlr(t) PROVE OutInv'
  <2>1. /\ state[t] \notin {"OVER", "FREE"} /\ Ends(t)
        /\ UNCHANGED <<tid, tgroup, threads, max_tid>>
    BY <1>1, <1>4, OverEnds DEF sys_waitpid_hdlr
  <2> QED BY <1>1, <2>1, EndsOut
<1>5. ASSUME UNCHANGED <<state, destroy, tid, tgroup, threads, max_tid>> PROVE OutInv'
  BY <1>1, <1>5, QuietOut
<1>6. ASSUME NEW t \in Task, NEW enable \in BOOLEAN, sys_pthread_setcancelstate_hdlr(t, enable)
      PROVE  OutInv'
  <2>1. /\ state[t] \notin {"OVER", "FREE"} /\ UNCHANGED <<tid, tgroup, threads, max_tid>>
        /\ Ends(t) \/ UNCHANGED <<state, destroy>>
    BY <1>1, <1>6, CallEnds DEF sys_pthread_setcancelstate_hdlr, Calls, group
  <2> QED BY <1>1, <1>5, <2>1, EndsOut
<1>7. ASSUME NEW cur \in Task, state[cur] = "READY", NEW i \in Tid, Named(i),
             NEW t \in pthread_get_task(i), Ends(t), UNCHANGED <<tid, group>>
      PROVE  OutInv'
  <2>1. t \in Task /\ state[t] # "FREE" /\ (tgroup = {} => state[t] # "OVER")
    BY <1>7, NamedFacts
  <2>2. UNCHANGED <<tid, tgroup, threads, max_tid>>
    BY <1>7 DEF group
  <2> QED BY <1>1, <1>7, <2>1, <2>2, EndsOut
<1>8. ASSUME NEW cur \in Task, NEW i \in Tid, Named(i), sys_pthread_kill_hdlr(cur, i) PROVE OutInv'
  <2>1. PICK t \in pthread_get_task(i) : pthread_destroy_task(t)
    BY <1>8 DEF sys_pthread_kill_hdlr
  <2>2. state[cur] = "READY" /\ UNCHANGED <<tid, group>>
    BY <1>8 DEF sys_pthread_kill_hdlr, Calls
  <2>3. Ends(t)
    BY <1>1, <2>1, CallEnds DEF pthread_get_task, Task
  <2> QED BY <1>7, <1>8, <2>2, <2>3
<1>9. ASSUME NEW cur \in Task, NEW i \in Tid, Named(i), sys_pthread_cancel_hdlr(cur, i) PROVE OutInv'
  <2>1. PICK t \in pthread_get_task(i) : CancelTask(t) \/ UNCHANGED <<state, destroy>>
    BY <1>9 DEF sys_pthread_cancel_hdlr
  <2>2. state[cur] = "READY" /\ UNCHANGED <<tid, group>>
    BY <1>9 DEF sys_pthread_cancel_hdlr, Calls
  <2>3. Ends(t) \/ UNCHANGED <<state, destroy>>
    BY <1>1, <2>1, CallEnds DEF pthread_get_task, Task
  <2> QED BY <1>5, <1>7, <1>9, <2>2, <2>3 DEF group
<1>10. ASSUME NEW cur \in Task, NEW i \in Tid, sys_pthread_detach_hdlr(cur, i) PROVE OutInv'
  BY <1>5, <1>10 DEF sys_pthread_detach_hdlr, group
<1>11. ASSUME NEW cur \in Task, NEW i \in Tid, Named(i), sys_pthread_join_hdlr(cur, i) PROVE OutInv'
  <2>1. CASE JoinFails(cur, i)
    BY <1>5, <2>1 DEF JoinFails, group
  <2>2. CASE JoinSuspends(cur, i)
    <3>1. \A t \in Task : state'[t] = state[t] \/ (Alive(t) /\ Alive(t)')
      BY <1>1, <2>2 DEF JoinSuspends, Joins, Alive, Typed
    <3> QED BY <1>1, <2>2, <3>1, QuietOut DEF JoinSuspends, group
  <2>3. CASE JoinReturns(cur, i)
    <3>1. PICK t \in pthread_get_task(i) : Over(t)
      BY <2>3 DEF JoinReturns
    <3>2. state[cur] = "READY" /\ UNCHANGED <<tid, group>>
      BY <2>3 DEF JoinReturns, Joins
    <3>3. Ends(t)
      BY <1>1, <3>1, OverEnds DEF pthread_get_task, Task
    <3> QED BY <1>7, <1>11, <3>2, <3>3
  <2> QED BY <1>11, <2>1, <2>2, <2>3 DEF sys_pthread_join_hdlr
<1>12. CASE Signal
  <2>1. \A t \in Task : state'[t] = state[t] \/ (Alive(t) /\ Alive(t)')
    BY <1>1, <1>12 DEF Signal, Alive, Typed
  <2> QED BY <1>1, <1>12, <2>1, QuietOut DEF Signal, group
<1>13. CASE UNCHANGED vars
  BY <1>5, <1>13 DEF vars, group
<1> QED BY <1>1, <1>2, <1>3, <1>4, <1>6, <1>8, <1>9, <1>10, <1>11, <1>12, <1>13, CreateOut, DestroyOut
        DEF Next

(* When the resources of the process are freed no thread of it runs on,    *)
(* whatever programs do.                                                   *)
THEOREM NoThreadOutlivesHolds == Spec => []NoThreadOutlives
<1>1. Init => OutInv
  <2> SUFFICES ASSUME Init PROVE OutInv
    OBVIOUS
  <2>1. Typed
    BY InvInit DEF IInv
  <2>2. Grouped
    BY DEF Init, Grouped
  <2>3. Alone
    BY ThreadAssumption DEF Init, Alone, Task
  <2> QED BY <2>1, <2>2, <2>3 DEF OutInv
<1>2. OutInv => NoThreadOutlives
  BY DEF OutInv, Alone, NoThreadOutlives
<1> QED BY <1>1, <1>2, OutStep, PTL DEF Spec
=============================================================================
