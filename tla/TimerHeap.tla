----------------------------- MODULE TimerHeap ------------------------------
(***************************************************************************)
(* The binary heap of kernel/heap.h, as the kernel timers of systick.c use *)
(* it (Tasklets).  A timer is its expire_time; its id is its place in the  *)
(* array, whose elements heap->top[1], ..., heap->top[heap->n] are the     *)
(* sequence h.  A loop over the array is a recursive function: at i, the   *)
(* array that the loop leaves when it has come to place i (up, down), or   *)
(* with which it comes there (pass).                                       *)
(***************************************************************************)
EXTENDS Integers, Sequences

(* Parents that are larger move down, from the new place up to the root. *)
heap_insert(h, el) ==
  LET n == Len(h) + 1
      up[i \in 1..n] ==
        IF i > 1 /\ h[i \div 2] > el
        THEN [up[i \div 2] EXCEPT ![i] = h[i \div 2]]
        ELSE [Append(h, el) EXCEPT ![i] = el] IN
  up[n]

(* Mutant: always the left child. *)
ChildLeft(h, n, i) == 2 * i

(* The smaller of the children of i among the first n elements. *)
Child(h, n, i) == IF 2 * i # n /\ h[2 * i + 1] < h[2 * i] THEN 2 * i + 1 ELSE 2 * i

(* Remove the root: the last element takes the place where the way of      *)
(* smaller children ends, which move up.                                   *)
heap_peek(h) ==
  LET n == Len(h) - 1
      down[i \in 1..Len(h)] ==
        IF 2 * i <= n /\ h[Len(h)] > h[Child(h, n, i)]
        THEN [down[Child(h, n, i)] EXCEPT ![i] = h[Child(h, n, i)]]
        ELSE [h EXCEPT ![i] = h[Len(h)]] IN
  SubSeq(down[1], 1, n)

(* Elements i - 1 and i of g, swapped when they are out of order. *)
Swap(g, i) == IF g[i - 1] > g[i] THEN [g EXCEPT ![i - 1] = g[i], ![i] = g[i - 1]] ELSE g

(* Remove the element at found: the last element takes its place, and one  *)
(* pass over the rest of the array swaps neighbours that are out of order. *)
heap_delete(h, found) ==
  LET n == Len(h) - 1
      pass[i \in found..n] ==
        IF i = found THEN [h EXCEPT ![found] = h[Len(h)]] ELSE Swap(pass[i - 1], i) IN
  IF found = 1 THEN heap_peek(h)
  ELSE IF found = Len(h) THEN SubSeq(h, 1, n)
  ELSE SubSeq(pass[n], 1, n)

heap_first(h) == h[1]
=============================================================================
