----------------------------- MODULE Listeners ------------------------------
(***************************************************************************)
(* The listener table of a mutex or semaphore (kernel/locks.c): a fixed    *)
(* number of slots naming suspended tasks, and the slot filled last.       *)
(* A slot holds a pointer to a task structure, and stays as it is when     *)
(* that task stops waiting for another reason.                             *)
(***************************************************************************)
EXTENDS Integers, FiniteSetsExt

CONSTANTS Task,        \* task structures, by address
          NULL,        \* an empty slot
          listeners    \* number of slots (8 in the code)

ASSUME ListenersAssumption == listeners \in Nat \ {0}
ASSUME NullAssumption == NULL \notin Task

Slot == 0..(listeners - 1)

Table == [slot : [Slot -> Task \cup {NULL}], last : -1..(listeners - 1)]

NoListener == [slot |-> [i \in Slot |-> NULL], last |-> -1]

Occupied(l) == {i \in Slot : l.slot[i] # NULL}

Listed(l) == {l.slot[i] : i \in Occupied(l)}

(* No task has two slots. *)
Distinct(l) == \A i, j \in Occupied(l) : l.slot[i] = l.slot[j] => i = j

(* The slot _add_listener takes: the first free one after last, or else    *)
(* the first free one before last.  The slot last itself is not looked at. *)
FreeAfter(l)  == {i \in Slot : i > l.last /\ l.slot[i] = NULL}
FreeBefore(l) == {i \in Slot : i < l.last /\ l.slot[i] = NULL}

HasRoom(l) == FreeAfter(l) # {} \/ FreeBefore(l) # {}

FreeSlot(l) == IF FreeAfter(l) # {} THEN Min(FreeAfter(l)) ELSE Min(FreeBefore(l))

(* _add_listener: nothing happens when the task is already in slot last,   *)
(* or when the table is full.                                              *)
AlreadyLast(l, t) == l.last >= 0 /\ l.slot[l.last] = t

(* Mutant: only the slots after last are tried. *)
AddListenerAfter(l, t) ==
  IF AlreadyLast(l, t) \/ FreeAfter(l) = {} THEN l
  ELSE [slot |-> [l.slot EXCEPT ![FreeSlot(l)] = t], last |-> FreeSlot(l)]

AddListener(l, t) ==
  IF AlreadyLast(l, t) \/ ~HasRoom(l) THEN l
  ELSE [slot |-> [l.slot EXCEPT ![FreeSlot(l)] = t], last |-> FreeSlot(l)]

(* _del_listener: the first slot that names the task is emptied. *)
SlotsOf(l, t) == {i \in Slot : l.slot[i] = t}

DelListener(l, t) ==
  IF SlotsOf(l, t) = {} THEN l
  ELSE [l EXCEPT !.slot[Min(SlotsOf(l, t))] = NULL]

(* The slot mutex_unlock wakes: the first occupied one after last, and     *)
(* from the start of the table when there is none.                         *)
OccupiedAfter(l) == {i \in Occupied(l) : i > l.last}

(* Mutant: the search always starts at slot 0. *)
LowestSlot(l) == Min(Occupied(l))

NextSlot(l) == IF OccupiedAfter(l) # {} THEN Min(OccupiedAfter(l)) ELSE Min(Occupied(l))

ClearSlot(l, i) == [l EXCEPT !.slot[i] = NULL]
=============================================================================
