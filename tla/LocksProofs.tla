----------------------------- MODULE LocksProofs ----------------------------
(***************************************************************************)
(* Theorems about Mutex and Semaphore, for every number of tasks and slots *)
(* and any number of signals, kills and posts.                             *)
(***************************************************************************)
EXTENDS Mutex, Semaphore, SequenceTheorems, WellFoundedInduction, TLAPS

(* Facts about the listener table of kernel/locks.c, for every number of   *)
(* slots and every set of tasks.                                           *)

(* A non-empty set of naturals has a least element, and Min returns it. *)
LEMMA MinExists ==
  ASSUME NEW S \in SUBSET Nat, S # {}
  PROVE  Min(S) \in S /\ \A y \in S : Min(S) <= y
<1>1. PICK x \in S : \A y \in S : ~(<<y, x>> \in OpToRel(<, Nat))
  BY NatLessThanWellFounded, WFMin
<1>2. ASSUME NEW y \in S PROVE ~(y < x)
  <2>1. SUFFICES ASSUME y < x PROVE FALSE
    OBVIOUS
  <2>2. <<y, x>> \in Nat \X Nat
    OBVIOUS
  <2>3. <<y, x>>[1] < <<y, x>>[2]
    BY <2>1
  <2>4. <<y, x>> \in OpToRel(<, Nat)
    BY <2>2, <2>3, Zenon DEF OpToRel
  <2> QED BY <1>1, <2>4, Zenon
<1>3. \A y \in S : x <= y
  BY <1>2
<1> QED BY <1>3 DEF Min

(* A table update keeps the table well formed. *)
LEMMA PutType ==
  ASSUME NEW l \in Table, NEW i \in Slot, NEW x \in Task \cup {NULL}, NEW j \in Slot
  PROVE  /\ [slot |-> [l.slot EXCEPT ![i] = x], last |-> j] \in Table
         /\ [l EXCEPT !.slot[i] = x] \in Table
BY ListenersAssumption DEF Table, Slot

(* A new table is well formed and names nobody. *)
LEMMA EmptyTable == NoListener \in Table /\ Occupied(NoListener) = {}
BY ListenersAssumption DEF NoListener, Table, Slot, Occupied

(* The slot _add_listener takes is free. *)
LEMMA FreeSlotIsFree ==
  ASSUME NEW l \in Table, HasRoom(l)
  PROVE  FreeSlot(l) \in Slot /\ l.slot[FreeSlot(l)] = NULL
<1>1. CASE FreeAfter(l) # {}
  <2>1. FreeAfter(l) \in SUBSET Nat
    BY DEF FreeAfter, Slot
  <2>2. FreeSlot(l) \in FreeAfter(l)
    BY <1>1, <2>1, MinExists DEF FreeSlot
  <2> QED BY <2>2 DEF FreeAfter
<1>2. CASE FreeAfter(l) = {}
  <2>1. FreeBefore(l) \in SUBSET Nat /\ FreeBefore(l) # {}
    BY <1>2 DEF FreeBefore, Slot, HasRoom
  <2>2. FreeSlot(l) \in FreeBefore(l)
    BY <1>2, <2>1, MinExists DEF FreeSlot
  <2> QED BY <2>2 DEF FreeBefore
<1> QED BY <1>1, <1>2

(* The slot mutex_unlock wakes holds a task. *)
LEMMA NextSlotIsOccupied ==
  ASSUME NEW l \in Table, Occupied(l) # {}
  PROVE  NextSlot(l) \in Occupied(l)
<1>1. OccupiedAfter(l) \in SUBSET Nat /\ Occupied(l) \in SUBSET Nat
  BY DEF OccupiedAfter, Occupied, Slot
<1>2. CASE OccupiedAfter(l) # {}
  <2>1. NextSlot(l) \in OccupiedAfter(l)
    BY <1>1, <1>2, MinExists DEF NextSlot
  <2> QED BY <2>1 DEF OccupiedAfter
<1>3. CASE OccupiedAfter(l) = {}
  BY <1>1, <1>3, MinExists DEF NextSlot
<1> QED BY <1>2, <1>3

(* Only tasks are listed. *)
LEMMA ListedIsTask ==
  ASSUME NEW l \in Table
  PROVE  Listed(l) \subseteq Task
BY DEF Table, Listed, Occupied

(* _add_listener: the table stays well formed; if it had room, or named    *)
(* the task in slot last, the task is listed; nobody is lost; and a slot   *)
(* that changes was free and now names the task.                           *)
LEMMA AddListenerFacts ==
  ASSUME NEW l \in Table, NEW t \in Task
  PROVE  /\ AddListener(l, t) \in Table
         /\ Listed(l) \subseteq Listed(AddListener(l, t))
         /\ AlreadyLast(l, t) \/ HasRoom(l) => t \in Listed(AddListener(l, t))
         /\ Listed(AddListener(l, t)) \subseteq Listed(l) \cup {t}
<1>1. CASE AlreadyLast(l, t)
  <2>1. AddListener(l, t) = l
    BY <1>1 DEF AddListener
  <2>2. l.last \in Slot /\ l.slot[l.last] = t
    BY <1>1, ListenersAssumption DEF AlreadyLast, Table, Slot
  <2>3. l.last \in Occupied(l)
    BY <2>2, NullAssumption DEF Occupied
  <2>4. t \in Listed(l)
    BY <2>2, <2>3 DEF Listed
  <2> QED BY <2>1, <2>4
<1>2. CASE ~AlreadyLast(l, t) /\ ~HasRoom(l)
  <2>1. AddListener(l, t) = l
    BY <1>2 DEF AddListener
  <2> QED BY <1>2, <2>1
<1>3. CASE ~AlreadyLast(l, t) /\ HasRoom(l)
  <2> DEFINE k == FreeSlot(l)
             n == AddListener(l, t)
  <2>1. k \in Slot /\ l.slot[k] = NULL
    BY <1>3, FreeSlotIsFree
  <2>2. n = [slot |-> [l.slot EXCEPT ![k] = t], last |-> k]
    BY <1>3 DEF AddListener
  <2> HIDE DEF k, n
  <2>3. n \in Table
    <3>1. t \in Task \cup {NULL}
      OBVIOUS
    <3>2. [slot |-> [l.slot EXCEPT ![k] = t], last |-> k] \in Table
      BY <2>1, <3>1, PutType
    <3> QED BY <2>2, <3>2
  <2>4. \A i \in Slot : n.slot[i] = IF i = k THEN t ELSE l.slot[i]
    BY <2>1, <2>2 DEF Table
  <2>5. Occupied(n) = Occupied(l) \cup {k}
    BY <2>1, <2>4, NullAssumption DEF Occupied
  <2>6. Listed(n) = Listed(l) \cup {t}
    <3>1. \A i \in Occupied(l) : i \in Slot /\ i # k
      BY <2>1 DEF Occupied
    <3>2. \A i \in Occupied(n) : n.slot[i] \in Listed(l) \cup {t}
      BY <2>1, <2>4, <2>5, <3>1 DEF Listed
    <3>3. \A i \in Occupied(l) : l.slot[i] \in Listed(n)
      BY <2>4, <2>5, <3>1 DEF Listed
    <3>4. t \in Listed(n)
      BY <2>1, <2>4, <2>5 DEF Listed
    <3> QED BY <3>2, <3>3, <3>4 DEF Listed
  <2> QED BY <2>3, <2>6 DEF n
<1> QED BY <1>1, <1>2, <1>3

(* Emptying a slot removes at most the task it named. *)
LEMMA ClearSlotFacts ==
  ASSUME NEW l \in Table, NEW i \in Slot
  PROVE  /\ ClearSlot(l, i) \in Table
         /\ Listed(ClearSlot(l, i)) \subseteq Listed(l)
         /\ Listed(l) \subseteq Listed(ClearSlot(l, i)) \cup {l.slot[i]}
<1> DEFINE n == ClearSlot(l, i)
<1>1. n \in Table
  BY PutType DEF ClearSlot
<1>2. \A j \in Slot : n.slot[j] = IF j = i THEN NULL ELSE l.slot[j]
  BY DEF ClearSlot, Table
<1> HIDE DEF n
<1>3. Occupied(n) = Occupied(l) \ {i}
  BY <1>2 DEF Occupied
<1>4. \A j \in Occupied(l) : j \in Slot
  BY DEF Occupied
<1>5. \A j \in Occupied(n) : n.slot[j] \in Listed(l)
  BY <1>2, <1>3, <1>4 DEF Listed
<1>6. \A j \in Occupied(l) : l.slot[j] \in Listed(n) \cup {l.slot[i]}
  BY <1>2, <1>3, <1>4 DEF Listed
<1>7. Listed(n) \subseteq Listed(l)
  BY <1>5 DEF Listed
<1>8. Listed(l) \subseteq Listed(n) \cup {l.slot[i]}
  BY <1>6 DEF Listed
<1> QED BY <1>1, <1>7, <1>8 DEF n

(* _del_listener removes at most the calling task. *)
LEMMA DelListenerFacts ==
  ASSUME NEW l \in Table, NEW t \in Task
  PROVE  /\ DelListener(l, t) \in Table
         /\ Listed(DelListener(l, t)) \subseteq Listed(l)
         /\ Listed(l) \subseteq Listed(DelListener(l, t)) \cup {t}
<1>1. CASE SlotsOf(l, t) = {}
  BY <1>1 DEF DelListener
<1>2. CASE SlotsOf(l, t) # {}
  <2> DEFINE i == Min(SlotsOf(l, t))
  <2>1. SlotsOf(l, t) \in SUBSET Nat
    BY DEF SlotsOf, Slot
  <2>2. i \in SlotsOf(l, t)
    BY <1>2, <2>1, MinExists
  <2>3. i \in Slot /\ l.slot[i] = t
    BY <2>2 DEF SlotsOf
  <2>4. DelListener(l, t) = ClearSlot(l, i)
    BY <1>2 DEF DelListener, ClearSlot
  <2> HIDE DEF i
  <2> QED BY <2>3, <2>4, ClearSlotFacts
<1> QED BY <1>1, <1>2

(* Listing a task that is not listed, or emptying a slot, gives no task a  *)
(* second slot; and the task of the emptied slot is listed no more.        *)
LEMMA AddDistinct ==
  ASSUME NEW l \in Table, NEW t \in Task, Distinct(l), t \notin Listed(l)
  PROVE  Distinct(AddListener(l, t))
<1>1. CASE AddListener(l, t) = l
  BY <1>1
<1>2. CASE HasRoom(l) /\ ~AlreadyLast(l, t)
  <2> DEFINE k == FreeSlot(l)
             n == AddListener(l, t)
  <2>1. k \in Slot /\ l.slot[k] = NULL
    BY <1>2, FreeSlotIsFree
  <2>2. n = [slot |-> [l.slot EXCEPT ![k] = t], last |-> k]
    BY <1>2 DEF AddListener
  <2> HIDE DEF k, n
  <2>3. \A i \in Slot : n.slot[i] = IF i = k THEN t ELSE l.slot[i]
    BY <2>1, <2>2 DEF Table
  <2>4. \A i \in Occupied(l) : l.slot[i] # t
    BY DEF Listed
  <2> QED BY <2>1, <2>3, <2>4 DEF n, Distinct, Occupied
<1> QED BY <1>1, <1>2 DEF AddListener

(* Emptying a slot takes its task off the table. *)
LEMMA ClearDistinct ==
  ASSUME NEW l \in Table, NEW i \in Occupied(l), Distinct(l)
  PROVE  /\ Distinct(ClearSlot(l, i))
         /\ l.slot[i] \notin Listed(ClearSlot(l, i))
<1> DEFINE n == ClearSlot(l, i)
<1>1. \A j \in Slot : n.slot[j] = IF j = i THEN NULL ELSE l.slot[j]
  BY DEF ClearSlot, Table, Occupied
<1> HIDE DEF n
<1>2. Occupied(n) = Occupied(l) \ {i}
  BY <1>1 DEF Occupied
<1>3. \A j \in Occupied(n) : n.slot[j] = l.slot[j] /\ j \in Occupied(l) /\ j # i
  BY <1>1, <1>2 DEF Occupied
<1>4. Distinct(n)
  BY <1>3 DEF Distinct
<1>5. \A j \in Occupied(n) : n.slot[j] # l.slot[i]
  BY <1>3 DEF Distinct
<1>6. l.slot[i] \notin Listed(n)
  BY <1>5 DEF Listed
<1> QED BY <1>4, <1>6 DEF n

(* Deleting a task that is not listed changes nothing. *)
LEMMA DelUnlisted ==
  ASSUME NEW l \in Table, NEW t \in Task, t \notin Listed(l)
  PROVE  DelListener(l, t) = l
<1>1. SlotsOf(l, t) = {}
  BY NullAssumption DEF SlotsOf, Listed, Occupied
<1> QED BY <1>1 DEF DelListener
-----------------------------------------------------------------------------
(* The initial state is well typed. *)
LEMMA TypeInit == Init => TypeOK
BY BoundsAssumption, EmptyTable DEF Init, LocksInit, TypeOK, LocksTypeOK, Caller

(* What the body of mutex_unlock does to the table and the tasks. *)
LEMMA UnlockFacts ==
  ASSUME TypeOK, UnlockBody
  PROVE  /\ value = 0 /\ value' = 1
         /\ table' \in Table
         /\ state' \in [Task -> {"ready", "waiting", "dead"}]
         /\ \/ /\ Occupied(table) = {}
               /\ UNCHANGED <<table, state>>
            \/ \E i \in Occupied(table) :
                 /\ table.slot[i] \in Task
                 /\ table' = ClearSlot(table, i)
                 /\ state' = Resumed(table.slot[i])
<1>1. CASE Occupied(table) = {}
  BY <1>1 DEF _mutex_unlock, UnlockBody, TypeOK, LocksTypeOK
<1>2. CASE Occupied(table) # {}
  <2> DEFINE i == NextSlot(table)
  <2>1. i \in Occupied(table) /\ i \in Slot
    BY <1>2, NextSlotIsOccupied DEF TypeOK, LocksTypeOK, Occupied
  <2>2. table.slot[i] \in Task
    BY <2>1 DEF TypeOK, LocksTypeOK, Table, Occupied
  <2>3. table' = ClearSlot(table, i) /\ state' = Resumed(table.slot[i])
    BY <1>2 DEF _mutex_unlock, UnlockBody
  <2> HIDE DEF i
  <2>4. table' \in Table
    BY <2>1, <2>3, ClearSlotFacts DEF TypeOK, LocksTypeOK
  <2>5. state' \in [Task -> {"ready", "waiting", "dead"}]
    BY <2>2, <2>3 DEF TypeOK, LocksTypeOK, Resumed
  <2> QED BY <2>1, <2>2, <2>3, <2>4, <2>5 DEF _mutex_unlock, UnlockBody, TypeOK, LocksTypeOK
<1> QED BY <1>1, <1>2

(* Every action keeps the variables typed. *)
LEMMA TypeStep == TypeOK /\ [Next]_vars => TypeOK'
<1> SUFFICES ASSUME TypeOK, [Next]_vars PROVE TypeOK'
  OBVIOUS
<1> USE BoundsAssumption DEF TypeOK, LocksTypeOK, Caller
<1>1. ASSUME NEW t \in Task, mutex_lock(t) PROVE TypeOK'
  <2>1. CASE LockTaken(t)
    <3>1. table' \in Table
      BY <2>1, DelListenerFacts DEF _mutex_lock, LockTaken
    <3> QED BY <2>1, <3>1 DEF _mutex_lock, LockTaken
  <2>2. CASE LockSuspends(t)
    <3>1. table' \in Table
      BY <2>2, AddListenerFacts DEF LockSuspends, Suspend
    <3> QED BY <2>2, <3>1 DEF LockSuspends, Suspend
  <2> QED BY <1>1, <2>1, <2>2 DEF mutex_lock
<1>2. ASSUME NEW t \in Task, mutex_trylock(t) PROVE TypeOK'
  BY <1>2 DEF _mutex_lock, mutex_trylock
<1>3. ASSUME NEW t \in Task, mutex_unlock(t) PROVE TypeOK'
  <2>1. UnlockBody
    BY <1>3 DEF mutex_unlock
  <2> QED BY <1>3, <2>1, UnlockFacts DEF mutex_unlock
<1>4. CASE mutex_spinlock
  BY <1>4 DEF _mutex_lock, mutex_spinlock
<1>5. CASE KernelUnlock
  <2>1. UnlockBody
    BY <1>5 DEF KernelUnlock
  <2> QED BY <1>5, <2>1, UnlockFacts DEF KernelUnlock
<1>6. ASSUME NEW t \in Task, Signal(t) PROVE TypeOK'
  BY <1>6 DEF Signal
<1>7. ASSUME NEW t \in Task, Kill(t) PROVE TypeOK'
  BY <1>7 DEF Kill
<1>8. ASSUME NEW t \in Task, Create(t) PROVE TypeOK'
  BY <1>8 DEF Create
<1>9. CASE UNCHANGED vars
  BY <1>9 DEF vars
<1> QED BY <1>1, <1>2, <1>3, <1>4, <1>5, <1>6, <1>7, <1>8, <1>9 DEF Next

(* The types of the variables, in every reachable state. *)
THEOREM TypeCorrect == Spec => []TypeOK
BY TypeInit, TypeStep, PTL DEF Spec
-----------------------------------------------------------------------------
(* A caller that stops or does not start holding the mutex. *)
LEMMA ExclusionStep == TypeOK /\ MutualExclusion /\ [Next]_vars => MutualExclusion'
<1> SUFFICES ASSUME TypeOK, MutualExclusion, [Next]_vars PROVE MutualExclusion'
  OBVIOUS
<1> USE DEF TypeOK, LocksTypeOK, MutualExclusion, Holders, Caller
<1>1. ASSUME NEW t \in Task, mutex_lock(t) PROVE MutualExclusion'
  <2>1. CASE LockTaken(t)
    BY <2>1 DEF _mutex_lock, LockTaken
  <2>2. CASE LockSuspends(t)
    BY <2>2 DEF LockSuspends, Suspend
  <2> QED BY <1>1, <2>1, <2>2 DEF mutex_lock
<1>2. ASSUME NEW t \in Task, mutex_trylock(t) PROVE MutualExclusion'
  BY <1>2 DEF _mutex_lock, mutex_trylock
<1>3. ASSUME NEW t \in Task, mutex_unlock(t) PROVE MutualExclusion'
  BY <1>3 DEF mutex_unlock
<1>4. CASE mutex_spinlock
  BY <1>4 DEF _mutex_lock, mutex_spinlock
<1>5. CASE KernelUnlock
  BY <1>5, KernelAssumption DEF KernelUnlock
<1>6. ASSUME NEW t \in Task, Signal(t) PROVE MutualExclusion'
  BY <1>6 DEF Signal
<1>7. ASSUME NEW t \in Task, Kill(t) PROVE MutualExclusion'
  BY <1>7 DEF Kill
<1>8. ASSUME NEW t \in Task, Create(t) PROVE MutualExclusion'
  BY <1>8 DEF Create
<1>9. CASE UNCHANGED vars
  BY <1>9 DEF vars
<1> QED BY <1>1, <1>2, <1>3, <1>4, <1>5, <1>6, <1>7, <1>8, <1>9 DEF Next

(* At most one caller holds the mutex, whatever signals, kills, reused     *)
(* task structures and stale listeners do.                                 *)
THEOREM Exclusion == Spec => []MutualExclusion
<1>1. Init => MutualExclusion
  BY DEF Init, LocksInit, MutualExclusion, Holders, Caller
<1> QED BY <1>1, TypeCorrect, ExclusionStep, PTL DEF Spec
-----------------------------------------------------------------------------
(* Every action keeps the suspended tasks listed. *)
LEMMA ListedStep ==
  TypeOK /\ EveryWaiterListed /\ [Next]_vars => EveryWaiterListed'
<1> SUFFICES ASSUME TypeOK, EveryWaiterListed, [Next]_vars PROVE EveryWaiterListed'
  OBVIOUS
<1> USE DEF TypeOK, LocksTypeOK, EveryWaiterListed, Waiting
<1>1. ASSUME NEW t \in Task, mutex_lock(t) PROVE EveryWaiterListed'
  <2>1. CASE LockTaken(t)
    <3>1. Listed(table) \subseteq Listed(table') \cup {t}
      BY <2>1, DelListenerFacts DEF _mutex_lock, LockTaken
    <3> QED BY <2>1, <3>1 DEF _mutex_lock, LockTaken
  <2>2. CASE LockSuspends(t)
    <3>1. /\ Listed(table) \subseteq Listed(table')
          /\ AlreadyLast(table, t) \/ HasRoom(table) => t \in Listed(table')
      BY <2>2, AddListenerFacts DEF LockSuspends, Suspend
    <3>2. t \in Listed(table') \cup dropped' /\ dropped \subseteq dropped'
      BY <2>2, <3>1 DEF LockSuspends, Suspend
    <3>3. {u \in Task : state'[u] = "waiting"} = {u \in Task : state[u] = "waiting"} \cup {t}
      BY <2>2 DEF LockSuspends, Suspend
    <3> QED BY <3>1, <3>2, <3>3
  <2> QED BY <1>1, <2>1, <2>2 DEF mutex_lock
<1>2. ASSUME UnlockBody, UNCHANGED dropped PROVE EveryWaiterListed'
  <2>1. CASE Occupied(table) = {} /\ UNCHANGED <<table, state>>
    BY <1>2, <2>1
  <2>2. ASSUME NEW i \in Occupied(table), table.slot[i] \in Task,
               table' = ClearSlot(table, i), state' = Resumed(table.slot[i])
        PROVE  EveryWaiterListed'
    <3>1. i \in Slot
      BY DEF Occupied
    <3>2. Listed(table) \subseteq Listed(table') \cup {table.slot[i]}
      BY <2>2, <3>1, ClearSlotFacts
    <3>3. {u \in Task : state'[u] = "waiting"}
            = {u \in Task : state[u] = "waiting"} \ {table.slot[i]}
      BY <2>2 DEF Resumed
    <3> QED BY <1>2, <3>2, <3>3
  <2> QED BY <1>2, <2>1, <2>2, UnlockFacts
<1>3. ASSUME NEW t \in Task, mutex_trylock(t) PROVE EveryWaiterListed'
  BY <1>3 DEF _mutex_lock, mutex_trylock
<1>4. ASSUME NEW t \in Task, mutex_unlock(t) PROVE EveryWaiterListed'
  BY <1>2, <1>4 DEF mutex_unlock
<1>5. CASE mutex_spinlock
  BY <1>5 DEF _mutex_lock, mutex_spinlock
<1>6. CASE KernelUnlock
  BY <1>2, <1>6 DEF KernelUnlock
<1>7. ASSUME NEW t \in Task, Signal(t) PROVE EveryWaiterListed'
  BY <1>7 DEF Signal
<1>8. ASSUME NEW t \in Task, Kill(t) PROVE EveryWaiterListed'
  BY <1>8 DEF Kill
<1>9. ASSUME NEW t \in Task, Create(t) PROVE EveryWaiterListed'
  BY <1>9 DEF Create
<1>10. CASE UNCHANGED vars
  BY <1>10 DEF vars
<1> QED BY <1>1, <1>3, <1>4, <1>5, <1>6, <1>7, <1>8, <1>9, <1>10 DEF Next

(* Every suspended task can be found by mutex_unlock, except one that met  *)
(* a full table when it was suspended.                                     *)
THEOREM WaitersListed == Spec => []EveryWaiterListed
<1>1. Init => EveryWaiterListed
  BY DEF Init, LocksInit, EveryWaiterListed, Waiting
<1> QED BY <1>1, TypeCorrect, ListedStep, PTL DEF Spec
-----------------------------------------------------------------------------
(* The strengthening behind NoLostWakeup: until somebody is interrupted    *)
(* the table names nobody but suspended tasks, each once, so that the one  *)
(* wake-up of an unlock goes to a suspended task; and that task will try   *)
(* again.                                                                  *)
OnlyWaitersListed == Listed(table) \subseteq Waiting /\ Distinct(table)

WaitersRetry == \A t \in Task : state[t] = "waiting" => pc[t] = "retry"

WakeInv ==
  /\ TypeOK /\ MutualExclusion /\ EveryWaiterListed /\ WaitersRetry
  /\ Uninterrupted => OnlyWaitersListed
  /\ NoLostWakeup

(* The strengthened invariant holds initially. *)
LEMMA WakeInit == Init => WakeInv
<1> SUFFICES ASSUME Init PROVE WakeInv
  OBVIOUS
<1>1. Listed(table) = {} /\ Distinct(table)
  BY EmptyTable DEF Init, LocksInit, Listed, Distinct
<1>2. Waiting = {} /\ Holders = {}
  BY DEF Init, LocksInit, Waiting, Holders
<1> QED BY <1>1, <1>2, TypeInit
        DEF Init, LocksInit, WakeInv, MutualExclusion, EveryWaiterListed, WaitersRetry,
            OnlyWaitersListed, NoLostWakeup, Waiting

(* An undisturbed unlock that finds a suspended task wakes it. *)
LEMMA UnlockWakes ==
  ASSUME WakeInv, UnlockBody, UNCHANGED <<dropped, signals, kills>>,
         \A t \in Task : state[t] = "waiting" => pc'[t] = pc[t]
  PROVE  /\ Uninterrupted' => OnlyWaitersListed'
         /\ NoLostWakeup'
<1> SUFFICES ASSUME Uninterrupted'
             PROVE  /\ OnlyWaitersListed'
                    /\ dropped = {} /\ Waiting' # {} =>
                         \E t \in Task : state'[t] = "ready" /\ pc'[t] = "retry"
  BY DEF Uninterrupted, NoLostWakeup
<1>1. Uninterrupted /\ OnlyWaitersListed /\ TypeOK /\ WaitersRetry
  BY DEF Uninterrupted, WakeInv
<1>2. CASE Occupied(table) = {} /\ UNCHANGED <<table, state>>
  <2>1. OnlyWaitersListed'
    BY <1>1, <1>2 DEF OnlyWaitersListed, Waiting
  <2>2. dropped = {} => Waiting' = {}
    BY <1>1, <1>2 DEF WakeInv, EveryWaiterListed, Listed, Waiting
  <2> QED BY <2>1, <2>2
<1>3. ASSUME NEW i \in Occupied(table), table.slot[i] \in Task,
             table' = ClearSlot(table, i), state' = Resumed(table.slot[i])
      PROVE  /\ OnlyWaitersListed'
             /\ \E t \in Task : state'[t] = "ready" /\ pc'[t] = "retry"
  <2> DEFINE t == table.slot[i]
  <2>1. i \in Slot /\ table \in Table
    BY <1>1 DEF Occupied, TypeOK, LocksTypeOK
  <2>2. t \in Listed(table)
    BY DEF Listed
  <2>3. state[t] = "waiting"
    BY <1>1, <2>2 DEF OnlyWaitersListed, Waiting
  <2>4. state'[t] = "ready" /\ pc'[t] = "retry"
    BY <1>1, <1>3, <2>3 DEF Resumed, WaitersRetry, TypeOK, LocksTypeOK
  <2>5. Distinct(table') /\ t \notin Listed(table')
    BY <1>1, <1>3, <2>1, ClearDistinct DEF OnlyWaitersListed
  <2>6. Listed(table') \subseteq Listed(table)
    BY <1>3, <2>1, ClearSlotFacts
  <2>7. Waiting' = Waiting \ {t}
    BY <1>1, <1>3, <2>3 DEF Waiting, Resumed, TypeOK, LocksTypeOK
  <2>8. OnlyWaitersListed'
    BY <1>1, <2>5, <2>6, <2>7 DEF OnlyWaitersListed
  <2> QED BY <1>3, <2>4, <2>8
<1>4. TypeOK
  BY <1>1
<1> QED BY <1>2, <1>3, <1>4, UnlockFacts

(* Every action keeps the strengthened invariant. *)
LEMMA WakeStep == WakeInv /\ [Next]_vars => WakeInv'
<1> SUFFICES ASSUME WakeInv, [Next]_vars PROVE WakeInv'
  OBVIOUS
<1>1. TypeOK' /\ MutualExclusion' /\ EveryWaiterListed'
  BY TypeStep, ExclusionStep, ListedStep DEF WakeInv
<1> DEFINE Goal == WaitersRetry' /\ (Uninterrupted' => OnlyWaitersListed') /\ NoLostWakeup'
<1> SUFFICES Goal
  BY <1>1 DEF WakeInv
<1>2. TypeOK /\ WaitersRetry /\ NoLostWakeup /\ (Uninterrupted => OnlyWaitersListed)
  BY DEF WakeInv
<1>3. ASSUME NEW t \in Task, mutex_lock(t) PROVE Goal
  <2>1. CASE LockTaken(t)
    <3>1. WaitersRetry'
      BY <1>2, <2>1 DEF _mutex_lock, LockTaken, WaitersRetry, TypeOK, LocksTypeOK
    <3>2. NoLostWakeup'
      BY <1>2, <2>1 DEF _mutex_lock, LockTaken, NoLostWakeup, TypeOK, LocksTypeOK
    <3>3. ASSUME Uninterrupted' PROVE OnlyWaitersListed'
      <4>1. OnlyWaitersListed
        BY <1>2, <2>1, <3>3 DEF _mutex_lock, LockTaken, Uninterrupted
      <4>2. t \notin Listed(table)
        BY <2>1, <4>1 DEF _mutex_lock, OnlyWaitersListed, LockTaken, Waiting
      <4>3. table' = table /\ state' = state
        BY <1>2, <2>1, <4>2, DelUnlisted DEF _mutex_lock, LockTaken, TypeOK, LocksTypeOK
      <4> QED BY <4>1, <4>3 DEF OnlyWaitersListed, Waiting
    <3> QED BY <3>1, <3>2, <3>3
  <2>2. CASE LockSuspends(t)
    <3>1. WaitersRetry'
      BY <1>2, <2>2 DEF LockSuspends, Suspend, WaitersRetry, TypeOK, LocksTypeOK, Caller
    <3>2. NoLostWakeup'
      BY <2>2 DEF LockSuspends, Suspend, NoLostWakeup
    <3>3. ASSUME Uninterrupted' PROVE OnlyWaitersListed'
      <4>1. OnlyWaitersListed /\ table \in Table
        BY <1>2, <2>2, <3>3 DEF LockSuspends, Suspend, Uninterrupted, TypeOK, LocksTypeOK
      <4>2. t \notin Listed(table)
        BY <2>2, <4>1 DEF OnlyWaitersListed, LockSuspends, Suspend, Waiting
      <4>3. Distinct(table')
        BY <2>2, <4>1, <4>2, AddDistinct DEF LockSuspends, Suspend, OnlyWaitersListed
      <4>4. Listed(table') \subseteq Listed(table) \cup {t}
        BY <2>2, <4>1, AddListenerFacts DEF LockSuspends, Suspend
      <4>5. Waiting' = Waiting \cup {t}
        BY <1>2, <2>2 DEF Waiting, LockSuspends, Suspend, TypeOK, LocksTypeOK
      <4> QED BY <4>1, <4>3, <4>4, <4>5 DEF OnlyWaitersListed
    <3> QED BY <3>1, <3>2, <3>3
  <2> QED BY <1>3, <2>1, <2>2 DEF mutex_lock
<1>4. ASSUME NEW t \in Task, mutex_trylock(t) PROVE Goal
  BY <1>2, <1>4 DEF _mutex_lock, mutex_trylock, TypeOK, LocksTypeOK, WaitersRetry, NoLostWakeup, Uninterrupted,
                   OnlyWaitersListed, Waiting
<1>5. CASE mutex_spinlock
  BY <1>2, <1>5, KernelAssumption
  DEF _mutex_lock, mutex_spinlock, TypeOK, LocksTypeOK, WaitersRetry, NoLostWakeup, Uninterrupted,
      OnlyWaitersListed, Waiting, Caller
<1>6. ASSUME NEW t \in Task, mutex_unlock(t) PROVE Goal
  <2>1. UnlockBody /\ UNCHANGED <<dropped, signals, kills>>
    BY <1>6 DEF mutex_unlock
  <2>2. \A u \in Task : state[u] = "waiting" => pc'[u] = pc[u]
    BY <1>2, <1>6 DEF mutex_unlock, TypeOK, LocksTypeOK
  <2>3. \A u \in Task : state'[u] = "waiting" => state[u] = "waiting"
    BY <1>2, <2>1, UnlockFacts DEF Resumed, TypeOK, LocksTypeOK
  <2>4. WaitersRetry'
    BY <1>2, <2>2, <2>3 DEF WaitersRetry
  <2> QED BY <2>1, <2>2, <2>4, UnlockWakes
<1>7. CASE KernelUnlock
  <2>1. UnlockBody /\ UNCHANGED <<dropped, signals, kills>>
    BY <1>7 DEF KernelUnlock
  <2>2. \A u \in Task : state[u] = "waiting" => pc'[u] = pc[u]
    BY <1>2, <1>7, KernelAssumption DEF KernelUnlock, TypeOK, LocksTypeOK, Caller
  <2>3. \A u \in Task : state'[u] = "waiting" => state[u] = "waiting"
    BY <1>2, <2>1, UnlockFacts DEF Resumed, TypeOK, LocksTypeOK
  <2>4. WaitersRetry'
    BY <1>2, <2>2, <2>3 DEF WaitersRetry
  <2> QED BY <2>1, <2>2, <2>4, UnlockWakes
<1>8. ASSUME NEW t \in Task, Signal(t) PROVE Goal
  BY <1>2, <1>8 DEF Signal, TypeOK, LocksTypeOK, WaitersRetry, NoLostWakeup, Uninterrupted
<1>9. ASSUME NEW t \in Task, Kill(t) PROVE Goal
  BY <1>2, <1>9 DEF Kill, TypeOK, LocksTypeOK, WaitersRetry, NoLostWakeup, Uninterrupted
<1>10. ASSUME NEW t \in Task, Create(t) PROVE Goal
  BY <1>2, <1>10 DEF Create, TypeOK, LocksTypeOK, WaitersRetry, NoLostWakeup, Uninterrupted,
                   OnlyWaitersListed, Waiting
<1>11. CASE UNCHANGED vars
  BY <1>2, <1>11 DEF vars, WaitersRetry, NoLostWakeup, Uninterrupted,
                   OnlyWaitersListed, Waiting
<1> QED BY <1>3, <1>4, <1>5, <1>6, <1>7, <1>8, <1>9, <1>10, <1>11 DEF Next

(* Until a waiter is interrupted or left out of a full table, a free mutex *)
(* with suspended tasks always has one that was woken and will try again.  *)
THEOREM WakeupsKept == Spec => []NoLostWakeup
<1>1. WakeInv => NoLostWakeup
  BY DEF WakeInv
<1> QED BY <1>1, WakeInit, WakeStep, PTL DEF Spec
-----------------------------------------------------------------------------
(* The refinement of WaitQueue.  Read once around from the slot after      *)
(* last, the table of an uninterrupted mutex is a run of free slots and    *)
(* then a run of occupied ones: h is the first place in use.               *)
CompactFrom(l, h) == \A k \in 1..listeners : Around(l, k) # NULL <=> k >= h

Compact(l) == \E h \in 1..(listeners + 1) : CompactFrom(l, h)

(* Going once around from the slot after last meets each slot once. *)
LEMMA PlaceFacts ==
  ASSUME NEW l \in Table
  PROVE  /\ \A k \in 1..listeners : Place(l, k) \in Slot
         /\ \A j, k \in 1..listeners : Place(l, j) = Place(l, k) => j = k
         /\ \A i \in Slot : \E k \in 1..listeners : Place(l, k) = i
<1>1. l.last \in -1..(listeners - 1) /\ listeners \in Nat \ {0}
  BY ListenersAssumption DEF Table
<1>2. \A k \in 1..listeners : Place(l, k) \in Slot
  BY <1>1 DEF Place, Slot
<1>3. \A j, k \in 1..listeners : Place(l, j) = Place(l, k) => j = k
  BY <1>1 DEF Place
<1>4. ASSUME NEW i \in Slot PROVE \E k \in 1..listeners : Place(l, k) = i
  <2>1. CASE i > l.last
    <3>1. i - l.last \in 1..listeners /\ Place(l, i - l.last) = i
      BY <1>1, <2>1 DEF Place, Slot
    <3> QED BY <3>1
  <2>2. CASE i <= l.last
    <3>1. i - l.last + listeners \in 1..listeners /\ Place(l, i - l.last + listeners) = i
      BY <1>1, <2>2 DEF Place, Slot
    <3> QED BY <3>1
  <2> QED BY <1>1, <2>1, <2>2 DEF Slot
<1> QED BY <1>2, <1>3, <1>4

(* The order in which a compact table is read. *)
LEMMA OrderIs ==
  ASSUME NEW l \in Table, NEW h \in 1..(listeners + 1), CompactFrom(l, h)
  PROVE  /\ FirstPlace(l) = h
         /\ WaitOrder(l) = [i \in 1..(listeners + 1 - h) |-> Around(l, h + i - 1)]
<1> DEFINE S == {k \in 1..listeners : Around(l, k) # NULL} \cup {listeners + 1}
<1>1. listeners \in Nat \ {0}
  BY ListenersAssumption
<1>2. S \in SUBSET Nat /\ listeners + 1 \in S
  BY <1>1
<1>3. h \in S
  BY <1>1 DEF CompactFrom
<1>4. \A k \in S : h <= k
  BY <1>1 DEF CompactFrom
<1>5. Min(S) \in S /\ \A k \in S : Min(S) <= k
  BY <1>2, MinExists
<1>6. FirstPlace(l) = Min(S)
  BY DEF FirstPlace
<1> HIDE DEF S
<1>7. h \in Nat /\ Min(S) \in Nat /\ h <= Min(S) /\ Min(S) <= h
  BY <1>2, <1>3, <1>4, <1>5
<1>8. FirstPlace(l) = h
  BY <1>6, <1>7
<1> QED BY <1>8 DEF WaitOrder

(* It is a sequence. *)
LEMMA WaitOrderType ==
  ASSUME NEW l \in Table, NEW h \in 1..(listeners + 1), CompactFrom(l, h)
  PROVE  WaitOrder(l) \in Seq(Task \cup {NULL})
<1> DEFINE m == listeners + 1 - h
<1>1. listeners \in Nat \ {0} /\ m \in Nat /\ l.slot \in [Slot -> Task \cup {NULL}]
  BY ListenersAssumption DEF Table
<1>2. \A i \in 1..m : Around(l, h + i - 1) \in Task \cup {NULL}
  <2>1. SUFFICES ASSUME NEW i \in 1..m PROVE Around(l, h + i - 1) \in Task \cup {NULL}
    OBVIOUS
  <2>2. h + i - 1 \in 1..listeners
    BY <1>1
  <2>3. Place(l, h + i - 1) \in Slot
    BY <2>2, PlaceFacts
  <2> QED BY <1>1, <2>3 DEF Around
<1>3. WaitOrder(l) = [i \in 1..m |-> Around(l, h + i - 1)]
  BY OrderIs
<1> HIDE DEF m
<1> QED BY <1>1, <1>2, <1>3

(* A task that is listed goes to the end of the queue: the slot it gets is *)
(* the one after last. *)
LEMMA AddIsLast ==
  ASSUME NEW l \in Table, NEW t \in Task, NEW h \in 1..(listeners + 1), CompactFrom(l, h),
         ~AlreadyLast(l, t), HasRoom(l)
  PROVE  /\ h - 1 \in 1..(listeners + 1)
         /\ CompactFrom(AddListener(l, t), h - 1)
         /\ WaitOrder(AddListener(l, t)) = Append(WaitOrder(l), t)
<1> DEFINE n == AddListener(l, t)
           s == Place(l, 1)
<1>1. l.last \in -1..(listeners - 1) /\ listeners \in Nat \ {0} /\ l.slot \in [Slot -> Task \cup {NULL}]
  BY ListenersAssumption DEF Table
<1>2. h > 1
  <2>1. SUFFICES ASSUME h = 1 PROVE FALSE
    BY <1>1
  <2>2. \A k \in 1..listeners : Around(l, k) # NULL
    BY <1>1, <2>1 DEF CompactFrom
  <2>3. \A i \in Slot : l.slot[i] # NULL
    BY <2>2, PlaceFacts DEF Around
  <2> QED BY <2>3 DEF HasRoom, FreeAfter, FreeBefore
<1>3. s \in Slot /\ l.slot[s] = NULL
  BY <1>1, <1>2, PlaceFacts DEF CompactFrom, Around
<1>4. FreeSlot(l) = s
  <2>1. CASE l.last + 1 < listeners
    <3>1. s = l.last + 1
      BY <1>1, <2>1 DEF Place
    <3>2. s \in FreeAfter(l) /\ FreeAfter(l) \in SUBSET Nat /\ \A i \in FreeAfter(l) : s <= i
      BY <1>1, <1>3, <3>1 DEF FreeAfter, Slot
    <3>3. Min(FreeAfter(l)) \in FreeAfter(l) /\ Min(FreeAfter(l)) <= s
      BY <3>2, MinExists
    <3>4. Min(FreeAfter(l)) = s
      BY <3>2, <3>3
    <3> QED BY <3>2, <3>4 DEF FreeSlot
  <2>2. CASE l.last = listeners - 1
    <3>1. s = 0 /\ FreeAfter(l) = {}
      BY <1>1, <2>2 DEF Place, FreeAfter, Slot
    <3>2. FreeBefore(l) \in SUBSET Nat /\ FreeBefore(l) # {}
      BY <3>1 DEF FreeBefore, Slot, HasRoom
    <3>3. 0 \in FreeBefore(l)
      <4>1. PICK i \in FreeBefore(l) : TRUE
        BY <3>2
      <4>2. 0 < l.last
        BY <1>1, <1>3, <2>2, <3>1, <4>1 DEF FreeBefore, Slot
      <4> QED BY <1>3, <3>1, <4>2 DEF FreeBefore
    <3>4. Min(FreeBefore(l)) \in FreeBefore(l) /\ Min(FreeBefore(l)) <= 0
      BY <3>2, <3>3, MinExists
    <3>5. Min(FreeBefore(l)) = 0
      BY <3>2, <3>4
    <3> QED BY <3>1, <3>5 DEF FreeSlot
  <2> QED BY <1>1, <2>1, <2>2
<1>5. n = [slot |-> [l.slot EXCEPT ![s] = t], last |-> s]
  BY <1>4 DEF AddListener
<1>6. n \in Table
  BY AddListenerFacts
<1> HIDE DEF n
<1>7. Place(n, listeners) = s /\ \A k \in 1..(listeners - 1) : Place(n, k) = Place(l, k + 1)
  BY <1>1, <1>5 DEF Place
<1>8. \A i \in Slot : n.slot[i] = IF i = s THEN t ELSE l.slot[i]
  BY <1>1, <1>3, <1>5
<1> HIDE DEF s
<1>9. Around(n, listeners) = t
  BY <1>3, <1>7, <1>8 DEF Around
<1>10. \A k \in 1..(listeners - 1) : Around(n, k) = Around(l, k + 1)
  <2>1. SUFFICES ASSUME NEW k \in 1..(listeners - 1) PROVE Around(n, k) = Around(l, k + 1)
    OBVIOUS
  <2>2. k + 1 \in 1..listeners /\ 1 \in 1..listeners /\ k + 1 # 1
    BY <1>1
  <2>3. Place(l, k + 1) \in Slot /\ Place(l, k + 1) # s
    BY <2>2, PlaceFacts DEF s
  <2> QED BY <1>7, <1>8, <2>3 DEF Around
<1>11. h - 1 \in 1..(listeners + 1)
  BY <1>1, <1>2
<1>12. CompactFrom(n, h - 1)
  <2>1. SUFFICES ASSUME NEW k \in 1..listeners PROVE Around(n, k) # NULL <=> k >= h - 1
    BY DEF CompactFrom
  <2>2. CASE k = listeners
    BY <1>1, <1>9, <2>2, NullAssumption
  <2>3. CASE k < listeners
    <3>1. k \in 1..(listeners - 1) /\ k + 1 \in 1..listeners
      BY <1>1, <2>3
    <3>2. Around(l, k + 1) # NULL <=> k + 1 >= h
      BY <3>1 DEF CompactFrom
    <3> QED BY <1>10, <3>1, <3>2
  <2> QED BY <1>1, <2>2, <2>3
<1>13. WaitOrder(n) = [i \in 1..(listeners + 2 - h) |-> Around(n, h + i - 2)]
  <2>1. WaitOrder(n) = [i \in 1..(listeners + 1 - (h - 1)) |-> Around(n, (h - 1) + i - 1)]
    BY <1>6, <1>11, <1>12, OrderIs
  <2>2. listeners + 1 - (h - 1) = listeners + 2 - h /\ \A i \in Int : (h - 1) + i - 1 = h + i - 2
    BY <1>1
  <2> QED BY <2>1, <2>2
<1>14. WaitOrder(l) = [i \in 1..(listeners + 1 - h) |-> Around(l, h + i - 1)]
  BY OrderIs
<1>15. WaitOrder(n) = Append(WaitOrder(l), t)
  <2> DEFINE m == listeners + 1 - h
             A == Task \cup {NULL}
             q == WaitOrder(l)
             r == Append(q, t)
  <2>1. m \in Nat /\ listeners + 2 - h = m + 1
    BY <1>1
  <2>2. Len(q) = m /\ q \in Seq(A) /\ \A i \in 1..m : q[i] = Around(l, h + i - 1)
    BY <1>14, <2>1, WaitOrderType
  <2>3. WaitOrder(n) \in Seq(A) /\ Len(WaitOrder(n)) = m + 1
    <3>1. WaitOrder(n) \in Seq(A)
      BY <1>6, <1>11, <1>12, WaitOrderType
    <3>2. WaitOrder(n) = [i \in 1..(m + 1) |-> Around(n, h + i - 2)]
      BY <1>13, <2>1
    <3> QED BY <2>1, <3>1, <3>2
  <2> HIDE DEF q, A
  <2>4. t \in A
    BY DEF A
  <2>5. r \in Seq(A) /\ Len(r) = m + 1
    BY <2>1, <2>2, <2>4
  <2>6. r[m + 1] = t /\ \A i \in 1..m : r[i] = q[i]
    BY <2>1, <2>2, <2>4
  <2>7. \A i \in 1..(m + 1) : WaitOrder(n)[i] = r[i]
    <3>1. SUFFICES ASSUME NEW i \in 1..(m + 1) PROVE WaitOrder(n)[i] = r[i]
      OBVIOUS
    <3>2. WaitOrder(n)[i] = Around(n, h + i - 2)
      BY <1>13, <2>1
    <3>3. CASE i <= m
      <4>1. h + i - 2 \in 1..(listeners - 1) /\ (h + i - 2) + 1 = h + i - 1 /\ i \in 1..m
        BY <1>1, <1>2, <3>3
      <4>2. Around(n, h + i - 2) = Around(l, h + i - 1)
        BY <1>10, <4>1
      <4>3. q[i] = Around(l, h + i - 1) /\ r[i] = q[i]
        BY <2>2, <2>6, <4>1
      <4> QED BY <3>2, <4>2, <4>3
    <3>4. CASE i = m + 1
      <4>1. h + i - 2 = listeners
        BY <1>1, <3>4
      <4> QED BY <1>9, <2>6, <3>2, <3>4, <4>1
    <3>5. i <= m \/ i = m + 1
      BY <2>1
    <3> QED BY <3>3, <3>4, <3>5
  <2> HIDE DEF r
  <2>8. WaitOrder(n) = r
    BY <2>3, <2>5, <2>7, SeqEqual
  <2> QED BY <2>8 DEF r, q
<1> QED BY <1>11, <1>12, <1>15 DEF n

(* mutex_unlock takes the task at the head of the queue. *)
LEMMA ClearIsFirst ==
  ASSUME NEW l \in Table, NEW h \in 1..(listeners + 1), CompactFrom(l, h), Occupied(l) # {}
  PROVE  /\ h + 1 \in 1..(listeners + 1)
         /\ CompactFrom(ClearSlot(l, NextSlot(l)), h + 1)
         /\ WaitOrder(l) # <<>>
         /\ WaitOrder(ClearSlot(l, NextSlot(l))) = Tail(WaitOrder(l))
<1> DEFINE s == Place(l, h)
           n == ClearSlot(l, NextSlot(l))
<1>1. l.last \in -1..(listeners - 1) /\ listeners \in Nat \ {0} /\ l.slot \in [Slot -> Task \cup {NULL}]
  BY ListenersAssumption DEF Table
<1>2. h <= listeners
  <2>1. PICK i \in Slot : l.slot[i] # NULL
    BY DEF Occupied
  <2>2. PICK k \in 1..listeners : Place(l, k) = i
    BY <2>1, PlaceFacts
  <2>3. k >= h
    BY <2>1, <2>2 DEF CompactFrom, Around
  <2> QED BY <1>1, <2>3
<1>3. s \in Occupied(l)
  BY <1>1, <1>2, PlaceFacts DEF CompactFrom, Around, Occupied
<1>4. \A i \in Occupied(l) : \E k \in h..listeners : Place(l, k) = i
  <2>1. SUFFICES ASSUME NEW i \in Occupied(l) PROVE \E k \in h..listeners : Place(l, k) = i
    OBVIOUS
  <2>2. PICK k \in 1..listeners : Place(l, k) = i
    BY PlaceFacts DEF Occupied
  <2>3. k >= h
    BY <2>2 DEF CompactFrom, Around, Occupied
  <2> QED BY <1>1, <2>2, <2>3
<1>5. NextSlot(l) = s
  <2>1. OccupiedAfter(l) \in SUBSET Nat /\ Occupied(l) \in SUBSET Nat
    BY DEF OccupiedAfter, Occupied, Slot
  <2>2. CASE l.last + h < listeners
    <3>1. s = l.last + h
      BY <1>1, <2>2 DEF Place
    <3>2. s \in OccupiedAfter(l)
      BY <1>1, <1>3, <3>1 DEF OccupiedAfter
    <3>3. \A i \in OccupiedAfter(l) : s <= i
      <4>1. SUFFICES ASSUME NEW i \in OccupiedAfter(l) PROVE s <= i
        OBVIOUS
      <4>2. i \in Occupied(l) /\ i > l.last
        BY DEF OccupiedAfter
      <4>3. PICK k \in h..listeners : Place(l, k) = i
        BY <1>4, <4>2
      <4>4. CASE l.last + k < listeners
        BY <1>1, <3>1, <4>3, <4>4 DEF Place
      <4>5. CASE ~(l.last + k < listeners)
        BY <1>1, <4>2, <4>3, <4>5 DEF Place
      <4> QED BY <4>4, <4>5
    <3>4. Min(OccupiedAfter(l)) \in OccupiedAfter(l) /\ Min(OccupiedAfter(l)) <= s
      BY <2>1, <3>2, MinExists
    <3>5. Min(OccupiedAfter(l)) = s
      BY <2>1, <3>2, <3>3, <3>4
    <3> QED BY <3>2, <3>5 DEF NextSlot
  <2>3. CASE ~(l.last + h < listeners)
    <3>1. s = l.last + h - listeners
      BY <1>1, <2>3 DEF Place
    <3>2. \A i \in Occupied(l) : s <= i /\ ~(i > l.last)
      <4>1. SUFFICES ASSUME NEW i \in Occupied(l) PROVE s <= i /\ ~(i > l.last)
        OBVIOUS
      <4>2. PICK k \in h..listeners : Place(l, k) = i
        BY <1>4
      <4>3. i = l.last + k - listeners
        BY <1>1, <2>3, <4>2 DEF Place
      <4> QED BY <1>1, <3>1, <4>3
    <3>3. OccupiedAfter(l) = {}
      BY <3>2 DEF OccupiedAfter
    <3>4. Min(Occupied(l)) \in Occupied(l) /\ Min(Occupied(l)) <= s
      BY <1>3, <2>1, MinExists
    <3>5. Min(Occupied(l)) = s
      BY <1>3, <2>1, <3>2, <3>4
    <3> QED BY <3>3, <3>5 DEF NextSlot
  <2> QED BY <2>2, <2>3
<1>6. s \in Slot
  BY <1>3 DEF Occupied
<1>7. n \in Table
  BY <1>5, <1>6, ClearSlotFacts
<1>8. n.last = l.last /\ \A i \in Slot : n.slot[i] = IF i = s THEN NULL ELSE l.slot[i]
  BY <1>1, <1>5, <1>6 DEF ClearSlot, Table
<1> HIDE DEF n
<1>9. \A k \in 1..listeners : Place(n, k) = Place(l, k)
  BY <1>8 DEF Place
<1>10. \A k \in 1..listeners : Around(n, k) = IF k = h THEN NULL ELSE Around(l, k)
  <2>1. SUFFICES ASSUME NEW k \in 1..listeners
                 PROVE  Around(n, k) = IF k = h THEN NULL ELSE Around(l, k)
    OBVIOUS
  <2>2. Place(l, k) \in Slot /\ (Place(l, k) = s <=> k = h)
    BY <1>1, <1>2, PlaceFacts
  <2> QED BY <1>8, <1>9, <2>2 DEF Around
<1>11. h + 1 \in 1..(listeners + 1)
  BY <1>1, <1>2
<1>12. CompactFrom(n, h + 1)
  BY <1>1, <1>10 DEF CompactFrom
<1>13. WaitOrder(n) = [i \in 1..(listeners - h) |-> Around(n, h + i)]
  <2>1. WaitOrder(n) = [i \in 1..(listeners + 1 - (h + 1)) |-> Around(n, (h + 1) + i - 1)]
    BY <1>7, <1>11, <1>12, OrderIs
  <2>2. listeners + 1 - (h + 1) = listeners - h /\ \A i \in Int : (h + 1) + i - 1 = h + i
    BY <1>1
  <2> QED BY <2>1, <2>2
<1>14. WaitOrder(l) = [i \in 1..(listeners + 1 - h) |-> Around(l, h + i - 1)]
  BY OrderIs
<1>15. WaitOrder(l) # <<>> /\ WaitOrder(n) = Tail(WaitOrder(l))
  <2> DEFINE m == listeners - h
             A == Task \cup {NULL}
             q == WaitOrder(l)
             r == Tail(q)
  <2>1. m \in Nat /\ listeners + 1 - h = m + 1
    BY <1>1, <1>2
  <2>2. Len(q) = m + 1 /\ q \in Seq(A) /\ \A i \in 1..(m + 1) : q[i] = Around(l, h + i - 1)
    BY <1>14, <2>1, WaitOrderType
  <2>3. WaitOrder(n) \in Seq(A) /\ Len(WaitOrder(n)) = m
    <3>1. WaitOrder(n) \in Seq(A)
      BY <1>7, <1>11, <1>12, WaitOrderType
    <3>2. WaitOrder(n) = [i \in 1..m |-> Around(n, h + i)]
      BY <1>13
    <3> QED BY <2>1, <3>1, <3>2
  <2> HIDE DEF q, A
  <2>4. q # <<>>
    BY <2>1, <2>2
  <2>5. r \in Seq(A) /\ Len(r) = m /\ \A i \in 1..Len(r) : r[i] = q[i + 1]
    BY <2>1, <2>2, <2>4, HeadTailProperties
  <2>6. \A i \in 1..m : WaitOrder(n)[i] = r[i]
    <3>1. SUFFICES ASSUME NEW i \in 1..m PROVE WaitOrder(n)[i] = r[i]
      OBVIOUS
    <3>2. h + i \in 1..listeners /\ h + i # h /\ i + 1 \in 1..(m + 1) /\ h + (i + 1) - 1 = h + i
      BY <1>1, <1>2
    <3>3. q[i + 1] = Around(l, h + i)
      BY <2>2, <3>2
    <3> QED BY <1>10, <1>13, <2>5, <3>2, <3>3
  <2> HIDE DEF r
  <2>7. WaitOrder(n) = r
    BY <2>3, <2>5, <2>6, SeqEqual
  <2> QED BY <2>4, <2>7 DEF r, q
<1> QED BY <1>11, <1>12, <1>15 DEF n

(* The table of an uninterrupted mutex stays compact, and each step of the *)
(* mutex is one of the queue or leaves the queue alone. *)
FifoInv == WakeInv /\ (Uninterrupted => Compact(table))

QueueKept == Compact(table)' /\ UNCHANGED Queue!queueVars

QueueMoves == Compact(table)' /\ Queue!QueueNext

(* What takes the mutex without waiting acquires. *)
LEMMA TakeAcquires ==
  ASSUME TypeOK, Compact(table), _mutex_lock, table' = table
  PROVE  QueueMoves
<1>1. value = 1 /\ value' = 0
  BY DEF TypeOK, _mutex_lock
<1>2. Queue!Acquire
  BY <1>1 DEF Queue!Acquire
<1> QED BY <1>2 DEF QueueMoves, Queue!QueueNext, Compact

(* What waits goes to the end, unless there is no room for it. *)
LEMMA SuspendEnqueues ==
  ASSUME NEW t \in Task, TypeOK, Compact(table), value = 0, t \notin Listed(table), Suspend(t)
  PROVE  QueueKept \/ QueueMoves
<1>1. table \in Table /\ table' = AddListener(table, t) /\ value' = value
  BY DEF TypeOK, LocksTypeOK, Suspend
<1>2. PICK h \in 1..(listeners + 1) : CompactFrom(table, h)
  BY DEF Compact
<1>3. ~AlreadyLast(table, t)
  BY <1>1, NullAssumption DEF AlreadyLast, Listed, Occupied, Table, Slot
<1>4. CASE ~HasRoom(table)
  <2>1. table' = table
    BY <1>1, <1>4 DEF AddListener
  <2> QED BY <1>1, <2>1 DEF QueueKept, Queue!queueVars, Compact
<1>5. CASE HasRoom(table)
  <2>1. /\ h - 1 \in 1..(listeners + 1)
        /\ CompactFrom(table', h - 1)
        /\ WaitOrder(table') = Append(WaitOrder(table), t)
    BY <1>1, <1>2, <1>3, <1>5, AddIsLast
  <2>2. \A i \in 1..Len(WaitOrder(table)) : WaitOrder(table)[i] # t
    <3> DEFINE m == listeners + 1 - h
    <3>1. WaitOrder(table) = [i \in 1..m |-> Around(table, h + i - 1)]
      BY <1>1, <1>2, OrderIs
    <3>2. m \in Nat /\ Len(WaitOrder(table)) = m
      BY <3>1, ListenersAssumption
    <3>3. SUFFICES ASSUME NEW i \in 1..m PROVE Around(table, h + i - 1) # t
      BY <3>1, <3>2
    <3>4. h + i - 1 \in 1..listeners
      BY ListenersAssumption
    <3>5. Place(table, h + i - 1) \in Slot
      BY <1>1, <3>4, PlaceFacts
    <3> QED BY <3>5, NullAssumption DEF Around, Listed, Occupied
  <2>3. Queue!Enqueue(t)
    BY <1>1, <2>1, <2>2 DEF Queue!Enqueue
  <2> QED BY <2>1, <2>3 DEF QueueMoves, Queue!QueueNext, Compact
<1> QED BY <1>4, <1>5

(* An unlock releases, and wakes the task at the head. *)
LEMMA UnlockReleases ==
  ASSUME TypeOK, Compact(table), UnlockBody
  PROVE  QueueMoves
<1>1. table \in Table /\ value = 0 /\ value' = 1
  BY DEF TypeOK, LocksTypeOK, UnlockBody, _mutex_unlock
<1>2. PICK h \in 1..(listeners + 1) : CompactFrom(table, h)
  BY DEF Compact
<1>3. CASE Occupied(table) = {}
  <2>1. table' = table
    BY <1>3 DEF UnlockBody
  <2>2. h = listeners + 1
    <3>1. \A k \in 1..listeners : Around(table, k) = NULL
      BY <1>1, <1>3, PlaceFacts DEF Around, Occupied
    <3> QED BY <1>2, <3>1, ListenersAssumption DEF CompactFrom
  <2>3. WaitOrder(table) = [i \in 1..(listeners + 1 - h) |-> Around(table, h + i - 1)]
    BY <1>1, <1>2, OrderIs
  <2>4. WaitOrder(table) = <<>>
    BY <2>2, <2>3, ListenersAssumption
  <2>5. Queue!Release
    BY <1>1, <2>1, <2>4 DEF Queue!Release
  <2> QED BY <2>1, <2>5 DEF QueueMoves, Queue!QueueNext, Compact
<1>4. CASE Occupied(table) # {}
  <2>1. table' = ClearSlot(table, NextSlot(table))
    BY <1>4 DEF UnlockBody
  <2>2. /\ h + 1 \in 1..(listeners + 1)
        /\ CompactFrom(table', h + 1)
        /\ WaitOrder(table) # <<>>
        /\ WaitOrder(table') = Tail(WaitOrder(table))
    BY <1>1, <1>2, <1>4, <2>1, ClearIsFirst
  <2>3. Queue!Release
    BY <1>1, <2>2 DEF Queue!Release
  <2> QED BY <2>2, <2>3 DEF QueueMoves, Queue!QueueNext, Compact
<1> QED BY <1>3, <1>4

(* Every step of an uninterrupted mutex maps to the queue. *)
LEMMA QueueStep ==
  FifoInv /\ [Next]_vars /\ Uninterrupted' => QueueKept \/ QueueMoves
<1> SUFFICES ASSUME FifoInv, [Next]_vars, Uninterrupted' PROVE QueueKept \/ QueueMoves
  OBVIOUS
<1>1. TypeOK /\ WakeInv
  BY DEF FifoInv, WakeInv
<1>2. Uninterrupted => Compact(table) /\ OnlyWaitersListed
  BY DEF FifoInv, WakeInv
<1>3. ASSUME UNCHANGED <<value, table, signals, kills>> PROVE QueueKept
  BY <1>2, <1>3 DEF QueueKept, Queue!queueVars, Compact, Uninterrupted
<1>4. ASSUME UNCHANGED <<signals, kills>>
      PROVE  Compact(table) /\ OnlyWaitersListed
  BY <1>2, <1>4 DEF Uninterrupted
<1>5. ASSUME NEW t \in Task, mutex_lock(t) PROVE QueueKept \/ QueueMoves
  <2>1. state[t] = "ready" /\ Compact(table) /\ OnlyWaitersListed
    BY <1>4, <1>5 DEF mutex_lock, LockTaken, LockSuspends, Suspend
  <2>2. t \notin Listed(table)
    BY <2>1 DEF OnlyWaitersListed, Waiting
  <2>3. CASE LockTaken(t)
    <3>1. _mutex_lock /\ table' = table
      BY <1>1, <2>2, <2>3, DelUnlisted DEF LockTaken, TypeOK, LocksTypeOK
    <3> QED BY <1>1, <2>1, <3>1, TakeAcquires
  <2>4. CASE LockSuspends(t)
    BY <1>1, <2>1, <2>2, <2>4, SuspendEnqueues DEF LockSuspends
  <2> QED BY <1>5, <2>3, <2>4 DEF mutex_lock
<1>6. ASSUME NEW t \in Task, mutex_trylock(t) PROVE QueueMoves
  <2>1. Compact(table) /\ _mutex_lock /\ table' = table
    BY <1>4, <1>6 DEF mutex_trylock
  <2> QED BY <1>1, <2>1, TakeAcquires
<1>7. CASE mutex_spinlock
  <2>1. Compact(table) /\ _mutex_lock /\ table' = table
    BY <1>4, <1>7 DEF mutex_spinlock
  <2> QED BY <1>1, <2>1, TakeAcquires
<1>8. ASSUME NEW t \in Task, mutex_unlock(t) PROVE QueueMoves
  BY <1>1, <1>4, <1>8, UnlockReleases DEF mutex_unlock
<1>9. CASE KernelUnlock
  BY <1>1, <1>4, <1>9, UnlockReleases DEF KernelUnlock
<1>10. ASSUME NEW t \in Task, Signal(t) \/ Kill(t) PROVE FALSE
  BY <1>1, <1>10 DEF Signal, Kill, Uninterrupted, TypeOK, LocksTypeOK
<1>11. ASSUME NEW t \in Task, Create(t) PROVE QueueKept
  BY <1>3, <1>11 DEF Create
<1>12. CASE UNCHANGED vars
  BY <1>3, <1>12 DEF vars
<1> QED BY <1>5, <1>6, <1>7, <1>8, <1>9, <1>10, <1>11, <1>12 DEF Next

(* A new mutex has a compact table and an empty queue. *)
LEMMA QueueStart == Init => FifoInv /\ Queue!QueueInit
<1> SUFFICES ASSUME Init PROVE FifoInv /\ Queue!QueueInit
  OBVIOUS
<1>1. table \in Table /\ table = NoListener /\ value = 1
  BY EmptyTable DEF Init, LocksInit
<1>2. \A i \in Slot : table.slot[i] = NULL
  BY <1>1 DEF NoListener
<1>3. listeners + 1 \in 1..(listeners + 1) /\ listeners \in Nat
  BY ListenersAssumption
<1>4. CompactFrom(table, listeners + 1)
  BY <1>1, <1>2, <1>3, PlaceFacts DEF CompactFrom, Around
<1>5. WaitOrder(table)
        = [i \in 1..(listeners + 1 - (listeners + 1)) |-> Around(table, listeners + 1 + i - 1)]
  BY <1>1, <1>3, <1>4, OrderIs
<1>6. WaitOrder(table) = <<>>
  BY <1>3, <1>5
<1>7. FifoInv
  BY <1>3, <1>4, WakeInit DEF FifoInv, Compact
<1> QED BY <1>1, <1>6, <1>7 DEF Queue!QueueInit

(* Until somebody is interrupted, a mutex serves its waiters in the order  *)
(* of their arrival: what mutex_lock and mutex_unlock do to the listener   *)
(* table and its last slot implements the queue of WaitQueue, for every    *)
(* number of tasks and slots. *)
THEOREM FirstComeFirstServedHolds == Spec => FirstComeFirstServed
<1>1. FifoInv /\ [Next]_vars => FifoInv'
  <2>1. SUFFICES ASSUME FifoInv, [Next]_vars PROVE FifoInv'
    OBVIOUS
  <2>2. WakeInv'
    BY <2>1, WakeStep DEF FifoInv
  <2>3. Uninterrupted' => Compact(table)'
    BY <2>1, QueueStep DEF QueueKept, QueueMoves
  <2> QED BY <2>2, <2>3 DEF FifoInv, Compact
<1>2. FifoInv /\ [Next]_vars
        => [Uninterrupted' => [Queue!QueueNext]_(Queue!queueVars)]_vars
  BY QueueStep DEF QueueKept, QueueMoves
<1> QED BY <1>1, <1>2, QueueStart, PTL DEF Spec, FirstComeFirstServed
-----------------------------------------------------------------------------
(* The initial state is well typed. *)
LEMMA SemTypeInit == SemInit => SemTypeOK
<1> SUFFICES ASSUME SemInit PROVE SemTypeOK
  OBVIOUS
<1>1. posts \in 0..MaxPosts /\ signals \in 0..MaxSignals /\ kills \in 0..MaxKills
  BY BoundsAssumption, PostsAssumption DEF SemInit, LocksInit
<1>2. table \in Table /\ value \in Nat
  BY EmptyTable, InitValueAssumption DEF SemInit, LocksInit
<1> QED BY <1>1, <1>2 DEF SemInit, LocksInit, SemTypeOK, LocksTypeOK

(* What a post that wakes a set of slots does to the table. *)
LEMMA PostFacts ==
  ASSUME SemTypeOK, NEW S \in SUBSET Slot, PostWaking(S)
  PROVE  /\ table' \in Table
         /\ Occupied(table') = Occupied(table) \ S
         /\ Listed(table) \subseteq Listed(table') \cup {table.slot[i] : i \in S}
<1>1. table' = [table EXCEPT !.slot =
                 [i \in Slot |-> IF i \in S THEN NULL ELSE table.slot[i]]]
  BY DEF PostWaking
<1>2. \A i \in Slot : table'.slot[i] = IF i \in S THEN NULL ELSE table.slot[i]
  BY <1>1 DEF SemTypeOK, LocksTypeOK, Table
<1>3. table' \in Table
  BY <1>1 DEF SemTypeOK, LocksTypeOK, Table
<1>4. Occupied(table') = Occupied(table) \ S
  BY <1>2 DEF Occupied
<1>5. \A i \in Occupied(table) :
         table.slot[i] \in Listed(table') \cup {table.slot[j] : j \in S}
  <2> SUFFICES ASSUME NEW i \in Occupied(table), i \notin S
               PROVE  table.slot[i] \in Listed(table')
    OBVIOUS
  <2>1. i \in Occupied(table') /\ table'.slot[i] = table.slot[i]
    BY <1>2, <1>4 DEF Occupied
  <2> QED BY <2>1 DEF Listed
<1>6. Listed(table) \subseteq Listed(table') \cup {table.slot[i] : i \in S}
  BY <1>5 DEF Listed
<1> QED BY <1>3, <1>4, <1>6

(* The post wakes every slot in use, as _sem_post always says so.      *)
LEMMA PostWakesAll == sem_post => PostWaking(Occupied(table))
BY DEF sem_post

(* Every action keeps the variables typed. *)
LEMMA SemTypeStep == SemTypeOK /\ [SemNext]_semvars => SemTypeOK'
<1> SUFFICES ASSUME SemTypeOK, [SemNext]_semvars PROVE SemTypeOK'
  OBVIOUS
<1> USE BoundsAssumption, PostsAssumption DEF SemTypeOK, LocksTypeOK, Counters
<1>1. ASSUME NEW t \in Task, sem_wait(t) PROVE SemTypeOK'
  <2>1. CASE WaitTaken(t)
    <3>1. table' \in Table
      BY <2>1, DelListenerFacts DEF _sem_wait, WaitTaken
    <3> QED BY <2>1, <3>1 DEF _sem_wait, WaitTaken
  <2>2. CASE WaitSuspends(t)
    <3>1. table' \in Table
      BY <2>2, AddListenerFacts DEF WaitSuspends, Suspend
    <3> QED BY <2>2, <3>1 DEF WaitSuspends, Suspend
  <2>3. CASE WaitSetsTimer(t)
    <3>1. table' \in Table
      BY <2>3, AddListenerFacts DEF WaitSetsTimer, Suspend
    <3> QED BY <2>3, <3>1 DEF WaitSetsTimer, Suspend
  <2>4. CASE WaitSpins(t)
    BY <2>4 DEF WaitSpins
  <2>5. CASE WaitTimesOut(t)
    BY <2>5 DEF WaitTimesOut
  <2> QED BY <1>1, <2>1, <2>2, <2>3, <2>4, <2>5 DEF sem_wait
<1>2. ASSUME NEW t \in Task, sem_trywait(t) PROVE SemTypeOK'
  BY <1>2 DEF _sem_wait, sem_trywait
<1>9. CASE sem_spinwait
  BY <1>9 DEF _sem_wait, sem_spinwait
<1>3. CASE sem_post
  <2>1. PostWaking(Occupied(table)) /\ Occupied(table) \in SUBSET Slot
    BY <1>3, PostWakesAll DEF Occupied
  <2>2. table' \in Table
    BY <2>1, PostFacts
  <2> QED BY <2>1, <2>2 DEF PostWaking
<1>4. CASE TimerExpires
  BY <1>4 DEF TimerExpires
<1>5. ASSUME NEW t \in Task, SemSignal(t) PROVE SemTypeOK'
  BY <1>5 DEF SemSignal, Signal
<1>6. ASSUME NEW t \in Task, SemKill(t) PROVE SemTypeOK'
  BY <1>6 DEF SemKill, Kill
<1>7. ASSUME NEW t \in Task, SemCreate(t) PROVE SemTypeOK'
  BY <1>7 DEF SemCreate, Create
<1>8. CASE UNCHANGED semvars
  BY <1>8 DEF semvars
<1> QED BY <1>1, <1>2, <1>3, <1>4, <1>5, <1>6, <1>7, <1>8, <1>9 DEF SemNext

(* The types of the variables, in every reachable state. *)
THEOREM SemTypeCorrect == SemSpec => []SemTypeOK
BY SemTypeInit, SemTypeStep, PTL DEF SemSpec
-----------------------------------------------------------------------------
(* The two facts that make posts safe are proved together: a task that     *)
(* sleeps is in the table or was left out of a full one, and the table of  *)
(* a positive semaphore is empty.                                          *)
TableInv ==
  /\ EveryWaiterListed
  /\ value > 0 => Occupied(table) = {}

(* Every action keeps the two facts about the table. *)
LEMMA TableStep == SemTypeOK /\ TableInv /\ [SemNext]_semvars => TableInv'
<1> SUFFICES ASSUME SemTypeOK, TableInv, [SemNext]_semvars PROVE TableInv'
  OBVIOUS
<1> USE DEF SemTypeOK, LocksTypeOK, TableInv, EveryWaiterListed, Waiting, Counters
<1>1. ASSUME NEW t \in Task, Suspend(t), value = 0 PROVE TableInv'
  <2>1. /\ Listed(table) \subseteq Listed(table')
        /\ AlreadyLast(table, t) \/ HasRoom(table) => t \in Listed(table')
    BY <1>1, AddListenerFacts DEF Suspend
  <2>2. t \in Listed(table') \cup dropped' /\ dropped \subseteq dropped'
    BY <1>1, <2>1 DEF Suspend
  <2>3. {u \in Task : state'[u] = "waiting"} = {u \in Task : state[u] = "waiting"} \cup {t}
    BY <1>1 DEF Suspend
  <2>4. ~(value' > 0)
    BY <1>1 DEF Suspend
  <2> QED BY <2>1, <2>2, <2>3, <2>4
<1>2. ASSUME NEW t \in Task, sem_wait(t) PROVE TableInv'
  <2>1. CASE WaitTaken(t)
    <3>1. Occupied(table) = {}
      BY <2>1 DEF _sem_wait, WaitTaken
    <3>2. Listed(table) = {} /\ t \notin Listed(table)
      BY <3>1 DEF Listed
    <3>3. table' = table
      BY <2>1, <3>2, DelUnlisted DEF _sem_wait, WaitTaken
    <3> QED BY <2>1, <3>1, <3>3 DEF _sem_wait, WaitTaken
  <2>2. CASE WaitSuspends(t)
    BY <1>1, <2>2 DEF WaitSuspends
  <2>3. CASE WaitSetsTimer(t)
    BY <1>1, <2>3 DEF WaitSetsTimer
  <2>4. CASE WaitSpins(t)
    BY <2>4 DEF WaitSpins
  <2>5. CASE WaitTimesOut(t)
    BY <2>5 DEF WaitTimesOut
  <2> QED BY <1>2, <2>1, <2>2, <2>3, <2>4, <2>5 DEF sem_wait
<1>3. ASSUME NEW t \in Task, sem_trywait(t) PROVE TableInv'
  BY <1>3 DEF _sem_wait, sem_trywait
<1>10. CASE sem_spinwait
  BY <1>10 DEF _sem_wait, sem_spinwait
<1>4. CASE sem_post
  <2>1. PostWaking(Occupied(table)) /\ Occupied(table) \in SUBSET Slot
    BY <1>4, PostWakesAll DEF Occupied
  <2>2. Occupied(table') = {}
    BY <2>1, PostFacts
  <2>3. {u \in Task : state'[u] = "waiting"}
          \subseteq {u \in Task : state[u] = "waiting"} \ Listed(table)
    BY <2>1 DEF PostWaking, Listed
  <2> QED BY <2>1, <2>2, <2>3 DEF PostWaking
<1>5. CASE TimerExpires
  BY <1>5 DEF TimerExpires
<1>6. ASSUME NEW t \in Task, SemSignal(t) PROVE TableInv'
  BY <1>6 DEF SemSignal, Signal
<1>7. ASSUME NEW t \in Task, SemKill(t) PROVE TableInv'
  BY <1>7 DEF SemKill, Kill
<1>8. ASSUME NEW t \in Task, SemCreate(t) PROVE TableInv'
  BY <1>8 DEF SemCreate, Create
<1>9. CASE UNCHANGED semvars
  BY <1>9 DEF semvars
<1> QED BY <1>2, <1>3, <1>4, <1>5, <1>6, <1>7, <1>8, <1>9, <1>10 DEF SemNext

(* The two facts about the table, in every reachable state. *)
THEOREM TableCorrect == SemSpec => []TableInv
<1>1. SemInit => TableInv
  BY EmptyTable DEF SemInit, LocksInit, TableInv, EveryWaiterListed, Waiting
<1> QED BY <1>1, SemTypeCorrect, TableStep, PTL DEF SemSpec

(* sem_post finds every suspended task but one that met a full table.      *)
THEOREM SemWaitersListed == SemSpec => []EveryWaiterListed
<1>1. TableInv => EveryWaiterListed
  BY DEF TableInv
<1> QED BY <1>1, TableCorrect, PTL

(* While the semaphore can be taken nobody sleeps on it, except a task     *)
(* that met a full table, and its table is empty.                          *)
THEOREM NobodyWaits == SemSpec => []NobodyWaitsOnPositive
<1>1. TableInv => NobodyWaitsOnPositive
  BY DEF TableInv, NobodyWaitsOnPositive, EveryWaiterListed, Listed
<1> QED BY <1>1, TableCorrect, PTL

(* Only a post from 0 wakes tasks: later posts find an empty table,        *)
(* although _sem_post tells sem_post to signal every time.                 *)
THEOREM OnlyFirstPostWakes == SemSpec => OnlyPostFromZeroWakes
<1>1. SemTypeOK /\ TableInv /\ [SemNext]_semvars
        => [value # 0 /\ value' = value + 1 => state' = state]_semvars
  <2> SUFFICES ASSUME SemTypeOK, TableInv, SemNext, value # 0, value' = value + 1
               PROVE  state' = state
    BY DEF semvars
  <2>1. value > 0 /\ Occupied(table) = {}
    BY DEF SemTypeOK, LocksTypeOK, TableInv
  <2>2. CASE sem_post
    <3>1. PostWaking({})
      BY <2>1, <2>2, PostWakesAll
    <3> QED BY <3>1 DEF PostWaking, SemTypeOK, LocksTypeOK
  <2>3. CASE TimerExpires
    BY <2>3 DEF TimerExpires
  <2>4. ASSUME NEW t \in Task, sem_wait(t) PROVE state' = state
    BY <2>1, <2>4 DEF _sem_wait, sem_wait, WaitTaken, WaitSuspends, WaitSetsTimer, WaitSpins,
                      WaitTimesOut, Suspend, SemTypeOK, LocksTypeOK
  <2>5. ASSUME NEW t \in Task, sem_trywait(t) PROVE state' = state
    BY <2>5 DEF _sem_wait, sem_trywait
  <2>7. CASE sem_spinwait
    BY <2>7 DEF sem_spinwait
  <2>6. ASSUME NEW t \in Task, SemSignal(t) \/ SemKill(t) \/ SemCreate(t) PROVE state' = state
    BY <2>6 DEF SemSignal, Signal, SemKill, Kill, SemCreate, Create, SemTypeOK, LocksTypeOK
  <2> QED BY <2>2, <2>3, <2>4, <2>5, <2>6, <2>7 DEF SemNext
<1> QED BY <1>1, SemTypeCorrect, TableCorrect, PTL DEF SemSpec, OnlyPostFromZeroWakes
=============================================================================
