------------------------------- MODULE CirBuf -------------------------------
(***************************************************************************)
(* kernel/cirbuf.c: the circular byte buffer behind pipes, ttys, UARTs and *)
(* the kernel log.  Pointers are offsets from cb->buf.  One slot is never  *)
(* used, so that readptr = writeptr means empty.  The kernel calls every   *)
(* operation with interrupts off (inside a system call or an interrupt     *)
(* handler), hence one action per call.                                    *)
(***************************************************************************)
EXTENDS Integers, Sequences

CONSTANTS Byte,      \* the values a byte can take
          bufsize,   \* the size given to cirbuf_create
          MaxRequest \* bound: the longest request one call is given

ASSUME BufsizeAssumption == bufsize \in Nat \ {0}
ASSUME MaxRequestAssumption == MaxRequest \in Nat \ {0}

VARIABLES buf,       \* the storage, bufsize bytes
          readptr,   \* offset of the oldest byte
          writeptr,  \* offset of the next free slot
          out        \* what the last read call stored at the caller's address

cirvars == <<buf, readptr, writeptr, out>>

Offset == 0..(bufsize - 1)

CirTypeOK ==
  /\ buf \in [Offset -> Byte]
  /\ readptr \in Offset
  /\ writeptr \in Offset
  /\ out \in Seq(Byte)

bytesfree ==
  (readptr - writeptr - 1) + (IF writeptr >= readptr THEN bufsize ELSE 0)

bytesinuse ==
  (writeptr - readptr) + (IF writeptr < readptr THEN bufsize ELSE 0)

(* A pointer that has run past the last slot goes back to the first. *)
Wrap(p) == IF p > bufsize - 1 THEN p - bufsize ELSE p

(* memcpy of n bytes of src, starting at its element from, to offset at. *)
MemCpy(mem, at, src, from, n) ==
  [k \in Offset |-> IF at <= k /\ k < at + n THEN src[from + k - at] ELSE mem[k]]

(* Mutant: a request is not cut down to what is available. *)
Uncut(a, b) == a

(* A request cut down to what is available. *)
Cut(a, b) == IF a <= b THEN a ELSE b

CirInit ==
  /\ buf \in [Offset -> Byte]          \* kalloc does not clear the storage
  /\ readptr = 0
  /\ writeptr = 0
  /\ out = <<>>

writebyte(byte) ==
  /\ bytesfree # 0
  /\ buf' = [buf EXCEPT ![writeptr] = byte]
  /\ writeptr' = Wrap(writeptr + 1)
  /\ UNCHANGED <<readptr, out>>

readbyte ==
  /\ bytesinuse # 0
  /\ out' = <<buf[readptr]>>
  /\ readptr' = Wrap(readptr + 1)
  /\ UNCHANGED <<buf, writeptr>>

(* The copy loop, closed over its iterations: byte i of the answer is at   *)
(* readptr advanced i times.                                               *)
readbytes(request) ==
  LET len == Cut(request, bytesinuse) IN
  /\ bytesinuse # 0
  /\ out' = [i \in 1..len |-> buf[Wrap(readptr + i - 1)]]
  /\ readptr' = Wrap(readptr + len)
  /\ UNCHANGED <<buf, writeptr>>

(* One memcpy, or two when the data reaches the end of the storage. *)
writebytes(bytes) ==
  LET len   == Cut(Len(bytes), bytesfree)
      first == bufsize - writeptr
  IN
  /\ bytesfree # 0
  /\ IF writeptr + len > bufsize - 1
       THEN /\ buf' = MemCpy(MemCpy(buf, writeptr, bytes, 1, first),
                             0, bytes, first + 1, len - first)
            /\ writeptr' = len - first
       ELSE /\ buf' = MemCpy(buf, writeptr, bytes, 1, len)
            /\ writeptr' = writeptr + len
  /\ UNCHANGED <<readptr, out>>

CirNext ==
  \/ \E byte \in Byte : writebyte(byte)
  \/ readbyte
  \/ \E len \in 0..MaxRequest : readbytes(len)
  \/ \E n \in 0..MaxRequest : \E bytes \in [1..n -> Byte] : writebytes(bytes)

CirSpec == CirInit /\ [][CirNext]_cirvars
-----------------------------------------------------------------------------
(* The bytes in the buffer, oldest first: the refinement mapping. *)
Contents == [i \in 1..bytesinuse |-> buf[Wrap(readptr + i - 1)]]

Fifo == INSTANCE ByteFifo WITH Capacity <- bufsize - 1, queue <- Contents

(* Every call on the buffer is a call on a bounded FIFO queue of bufsize-1 *)
(* bytes: no byte is lost, repeated or reordered, across any wrap-around   *)
(* (cirbuf_writebytes splits its copy in two there).                       *)
IsFifo == Fifo!FifoSpec

(* The count of free slots that writers trust and the count of bytes that  *)
(* readers trust always add up to the capacity, so cirbuf_bytesfree and    *)
(* cirbuf_bytesinuse never both claim one slot.                            *)
CountsAgree ==
  /\ bytesinuse \in 0..(bufsize - 1)
  /\ bytesfree = bufsize - 1 - bytesinuse
=============================================================================
