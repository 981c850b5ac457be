----------------------------- MODULE WaitQueue ------------------------------
(***************************************************************************)
(* What the listener table of an undisturbed mutex promises: a queue of    *)
(* waiting tasks, longest waiting first.  A release wakes exactly the head *)
(* of the queue; the mutex itself is then up for grabs.                    *)
(***************************************************************************)
EXTENDS Naturals, Sequences

CONSTANT Task

VARIABLES locked,    \* is the mutex held
          queue      \* the suspended tasks, longest waiting first

queueVars == <<locked, queue>>

QueueInit == locked = FALSE /\ queue = <<>>

Acquire == ~locked /\ locked' = TRUE /\ UNCHANGED queue

Enqueue(t) ==
  /\ locked
  /\ \A i \in 1..Len(queue) : queue[i] # t
  /\ queue' = Append(queue, t)
  /\ UNCHANGED locked

Release ==
  /\ locked
  /\ locked' = FALSE
  /\ queue' = IF queue = <<>> THEN <<>> ELSE Tail(queue)

QueueNext == Acquire \/ Release \/ \E t \in Task : Enqueue(t)

QueueSpec == QueueInit /\ [][QueueNext]_queueVars
=============================================================================
