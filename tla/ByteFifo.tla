------------------------------ MODULE ByteFifo ------------------------------
(***************************************************************************)
(* What a circular buffer of the kernel promises: a bounded first-in       *)
(* first-out queue of bytes.  A write appends a prefix of what the caller  *)
(* gave, a read returns a prefix of what is queued, and neither loses,     *)
(* repeats or reorders a byte.  CirBuf implements this (kernel/cirbuf.c).  *)
(***************************************************************************)
EXTENDS Integers, Sequences

CONSTANTS Byte,       \* the values a byte can take
          Capacity,   \* the most bytes the queue holds
          MaxRequest  \* bound: the longest request one call is given

VARIABLES queue,      \* the bytes written and not yet read, oldest first
          out         \* what the last read returned

fifoVars == <<queue, out>>

FifoInit == queue = <<>> /\ out = <<>>

(* A write takes as many of the caller's bytes as fit. *)
Put(bytes) ==
  LET room == Capacity - Len(queue)
      n    == IF Len(bytes) <= room THEN Len(bytes) ELSE room
  IN  /\ queue' = queue \o SubSeq(bytes, 1, n)
      /\ UNCHANGED out

(* A read of at most len bytes takes as many of them as there are. *)
Get(len) ==
  LET n == IF len <= Len(queue) THEN len ELSE Len(queue)
  IN  /\ out' = SubSeq(queue, 1, n)
      /\ queue' = SubSeq(queue, n + 1, Len(queue))

FifoNext ==
  \/ \E n \in 0..MaxRequest : \E bytes \in [1..n -> Byte] : Put(bytes)
  \/ \E len \in 0..MaxRequest : Get(len)

FifoSpec == FifoInit /\ [][FifoNext]_fifoVars
=============================================================================
