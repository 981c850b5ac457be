-------------------------------- MODULE Uart --------------------------------
(***************************************************************************)
(* A serial port (kernel/drivers/uart.c): write, read and poll of its      *)
(* device file against its interrupt handler.                              *)
(*                                                                         *)
(* System calls run with interrupts off, so that each is one step, and so  *)
(* is an interrupt.  The buffers are bounded queues, which CirBuf shows    *)
(* circular buffers to be; a byte is its number in the stream.  A call     *)
(* that suspends is issued again, after a signal too: a program that is    *)
(* told EINTR repeats the call.                                            *)
(***************************************************************************)
EXTENDS Integers, Sequences

CONSTANTS Proc, Writer,     \* the processes; the one that writes
          NULL,
          Capacity,         \* bytes a circular buffer holds
          MaxLen, MaxByte,  \* bounds: of one write, of all writes
          Settings          \* what happens in a behaviour, a set of: "others" use the port
                            \* too, "zero" bytes are written, the transmitter is "busy"
                            \* after a byte (else it has a queue that is never full)

ASSUME ProcAssumption == Writer \in Proc /\ NULL \notin Proc \cup Nat
ASSUME BoundsAssumption == Capacity \in Nat /\ Capacity >= 2 /\ MaxLen \in Nat /\ MaxByte \in Nat
ASSUME SettingsAssumption == Settings \subseteq SUBSET {"others", "zero", "busy"}

VARIABLES state,      \* of a process; READY is RUNNABLE or RUNNING
          again,      \* the call it issues again
          task,       \* dev->task
          locked, listeners,   \* dev->mutex: its value, the tasks in its table
          outbuf, inbuf,       \* the bytes to send; how many bytes are to be read
          w_start, w_end,      \* what is written next and the end, from the start of
                               \* the message; w_start is NULL between messages
          ready, txie,   \* usart_is_send_ready; whether the TX interrupt is enabled
          sent, base,    \* bytes on the wire; bytes of finished writes
          setting

mutex == <<locked, listeners>>
output == <<outbuf, w_start, w_end, ready, txie, sent, base>>
vars == <<state, again, task, mutex, inbuf, output, setting>>

NoCall == [op |-> "none", len |-> 0]
Call == [op : {"none", "write", "read", "poll_in", "poll_out"}, len : 0..MaxLen]

TypeOK ==
  /\ state \in [Proc -> {"READY", "WAITING"}] /\ again \in [Proc -> Call]
  /\ task \in Proc \cup {NULL}
  /\ locked \in BOOLEAN /\ listeners \subseteq Proc
  /\ outbuf \in Seq(Nat) /\ Len(outbuf) <= Capacity /\ inbuf \in 0..Capacity
  /\ w_start \in (0..MaxLen) \cup {NULL} /\ w_end \in 0..MaxLen
  /\ ready \in BOOLEAN /\ txie \in BOOLEAN
  /\ sent \in Nat /\ base \in Nat
  /\ setting \in Settings

Init ==
  /\ state = [p \in Proc |-> "READY"] /\ again = [p \in Proc |-> NoCall]
  /\ task = NULL /\ locked = FALSE /\ listeners = {}
  /\ outbuf = <<>> /\ inbuf = 0 /\ w_start = NULL /\ w_end = 0
  /\ ready = TRUE /\ txie = FALSE /\ sent = 0 /\ base = 0
  /\ setting \in Settings
-----------------------------------------------------------------------------
(* A new call, or the one that is to be issued again. *)
Issues(p, call) ==
  /\ state[p] = "READY" /\ again[p] \in {NoCall, call}
  /\ p # Writer => "others" \in setting

Resumed(st, p) == [st EXCEPT ![p] = IF @ = "WAITING" THEN "READY" ELSE @]

(* mutex_lock, whose result is not looked at: a caller that finds the      *)
(* mutex taken is listed and suspended, and goes on.  Who takes it is not  *)
(* listed any more.                                                        *)
Locking(p) == IF locked THEN [state EXCEPT ![p] = "WAITING"] ELSE state
Listed(p) == IF locked THEN listeners \cup {p} ELSE listeners \ {p}

(* mutex_unlock by p, which may be listed itself; one that is listed, if   *)
(* any is, is resumed, in states st; then p may suspend itself.            *)
Suspended(p, st) == [st EXCEPT ![p] = "WAITING"]
UnlockThen(p, st, suspends) ==
  LET next(t) == IF t = NULL THEN st ELSE Resumed(st, t)
  IN /\ locked' = FALSE
     /\ \E t \in IF Listed(p) = {} THEN {NULL} ELSE Listed(p) :
          /\ listeners' = Listed(p) \ {t}
          /\ state' = IF suspends THEN Suspended(p, next(t)) ELSE next(t)
Unlock(p, st) == UnlockThen(p, st, FALSE)

(* The output side as a record, for the parts of a write. *)
Device == [out |-> outbuf, sent |-> sent, ready |-> ready, txie |-> txie]

SetDevice(d) ==
  /\ outbuf' = d.out /\ sent' = d.sent /\ ready' = d.ready /\ txie' = d.txie

(* The first byte of the buffer goes to the transmitter, if it is ready. *)
Send(d) ==
  IF d.ready /\ d.out # <<>>
    THEN [out |-> Tail(d.out), sent |-> d.sent + 1, ready |-> "busy" \notin setting, txie |-> TRUE]
    ELSE d

Least(a, b) == IF a <= b THEN a ELSE b

(* cirbuf_writebytes of the message from place w, up to its end. *)
Fill(d, w, end) ==
  [d EXCEPT !.out = @ \o [k \in 1..Least(Capacity - Len(@), end - w) |-> base + w + k]]

Again(p, call) == again' = [again EXCEPT ![p] = call]
Answered(p) == again' = [again EXCEPT ![p] = NoCall]
-----------------------------------------------------------------------------
(* The buffer is full: the caller gives up the CPU and tries again. *)
WriteFull(p, call, d) ==
  /\ Len(d.out) = Capacity
  /\ SetDevice(d)
  /\ Unlock(p, Locking(p))
  /\ Again(p, call)
  /\ UNCHANGED <<task, w_start, w_end, base>>

(* A write of length 0 returns with the mutex. *)
WriteNothing(p, call, d) ==
  /\ Len(d.out) < Capacity /\ call.len = 0
  /\ SetDevice(d)
  /\ locked' = TRUE /\ listeners' = Listed(p) /\ state' = Locking(p)
  /\ Answered(p)
  /\ UNCHANGED <<task, w_start, w_end, base>>

(* Mutant: a write that is issued again starts from the beginning. *)
WStartAnew(call) == 0

(* A message that was begun is gone on with. *)
WStart(call) == IF w_start = NULL THEN 0 ELSE w_start
WEnd(call) == IF w_start = NULL THEN call.len ELSE w_end

(* The message is in the buffer; if it was one byte and is sent already    *)
(* the interrupt is not needed.                                            *)
WriteDone(p, call, f, w) ==
  /\ Send(f).out = <<>> \/ w = WEnd(call)
  /\ SetDevice(IF Send(f).out = <<>> THEN [Send(f) EXCEPT !.txie = FALSE] ELSE Send(f))
  /\ Unlock(p, Locking(p))
  /\ Answered(p)
  /\ w_start' = NULL /\ w_end' = 0 /\ base' = base + call.len
  /\ UNCHANGED task

(* Mutant: the interrupt handler is not told whom to resume. *)
WriteRestUntold(p, call, f, w) ==
  /\ Send(f).out # <<>> /\ w < WEnd(call)
  /\ SetDevice(Send(f))
  /\ UnlockThen(p, Locking(p), TRUE) /\ Again(p, call)
  /\ w_start' = w /\ w_end' = WEnd(call)
  /\ UNCHANGED <<task, base>>

(* The rest of the message has to wait. *)
WriteRest(p, call, f, w) ==
  /\ Send(f).out # <<>> /\ w < WEnd(call)
  /\ SetDevice(Send(f))
  /\ task' = p
  /\ UnlockThen(p, Locking(p), TRUE)
  /\ Again(p, call)
  /\ w_start' = w /\ w_end' = WEnd(call)
  /\ UNCHANGED base

devuart_write(p, call) ==
  /\ Issues(p, call) /\ call.op = "write" /\ p = Writer
  /\ base + call.len <= MaxByte /\ (call.len = 0 => "zero" \in setting)
  /\ LET d == Send(Device)
         f == Fill(d, WStart(call), WEnd(call))
         w == WStart(call) + Len(f.out) - Len(d.out)
     IN \/ WriteFull(p, call, d) \/ WriteNothing(p, call, d)
        \/ /\ Len(d.out) < Capacity /\ call.len > 0
           /\ \/ WriteDone(p, call, f, w)
              \/ WriteRest(p, call, f, w)
  /\ UNCHANGED <<inbuf, setting>>
-----------------------------------------------------------------------------
ReadReturns(p) ==
  /\ inbuf > 0
  /\ \E len \in 1..inbuf : inbuf' = inbuf - len
  /\ Unlock(p, Locking(p))
  /\ Answered(p)
  /\ UNCHANGED task

(* Mutant: the reader does not attach itself. *)
ReadUntold(p, call) ==
  /\ inbuf = 0
  /\ Unlock(p, Suspended(p, Locking(p)))
  /\ Again(p, call)
  /\ UNCHANGED <<task, inbuf>>

(* The caller is suspended before it unlocks; unlocking again does nothing. *)
ReadSuspends(p, call) ==
  /\ inbuf = 0
  /\ task' = p
  /\ Unlock(p, Suspended(p, Locking(p)))
  /\ Again(p, call)
  /\ UNCHANGED inbuf

devuart_read(p, call) ==
  /\ Issues(p, call) /\ call.op = "read" /\ call.len = 0
  /\ \/ ReadReturns(p)
     \/ ReadSuspends(p, call)
  /\ UNCHANGED <<output, setting>>

PollReady(op) ==
  IF op = "poll_in" THEN inbuf > 0 ELSE Len(outbuf) < Capacity

(* sys_poll, for one event; it suspends the caller when there is none. *)
devuart_poll(p, call) ==
  /\ Issues(p, call) /\ call.op \in {"poll_in", "poll_out"} /\ call.len = 0
  /\ task' = p
  /\ UnlockThen(p, Locking(p), ~PollReady(call.op))
  /\ IF PollReady(call.op) THEN Answered(p) ELSE Again(p, call)
  /\ UNCHANGED <<inbuf, output, setting>>
-----------------------------------------------------------------------------
TaskResumed == IF task = NULL THEN state ELSE Resumed(state, task)

(* The interrupt of a transmitter that is ready. *)
IsrSends ==
  /\ txie /\ ready /\ outbuf # <<>>
  /\ SetDevice(Send(Device))
  /\ UNCHANGED <<state, again, task, mutex, inbuf, w_start, w_end, base, setting>>
IsrIdle ==
  /\ txie /\ ready /\ outbuf = <<>>
  /\ txie' = FALSE
  /\ state' = TaskResumed
  /\ UNCHANGED <<again, task, mutex, inbuf, outbuf, w_start, w_end, ready, sent, base, setting>>

(* A byte comes in; it is lost if the buffer is full. *)
Receive ==
  /\ inbuf' = Least(inbuf + 1, Capacity)
  /\ state' = TaskResumed

IsrReceives ==
  /\ Receive
  /\ UNCHANGED <<again, task, mutex, output, setting>>

(* The transmitter has sent a byte. *)
Transmitted ==
  /\ ~ready /\ ready' = TRUE
  /\ UNCHANGED <<state, again, task, mutex, inbuf, outbuf, w_start, w_end, txie, sent, base, setting>>

(* A signal, the one that ^C sends among them, or the timeout of a poll. *)
Signal(p) ==
  /\ state[p] = "WAITING"
  /\ state' = [state EXCEPT ![p] = "READY"]
  /\ UNCHANGED <<again, task, mutex, inbuf, output, setting>>

uart_isr_tx == IsrSends \/ IsrIdle

Next ==
  \/ \E p \in Proc : \/ \E call \in Call : devuart_write(p, call) \/ devuart_read(p, call)
                                             \/ devuart_poll(p, call)
                     \/ Signal(p)
  \/ uart_isr_tx \/ IsrReceives \/ Transmitted

(* A pending interrupt is served, however often the port is used. *)
Spec == Init /\ [][Next]_vars /\ WF_vars(uart_isr_tx)
-----------------------------------------------------------------------------
(* The wire carries the writer's bytes, each once and in order: what was   *)
(* sent, what is in the buffer and what the writer was told agree, however *)
(* a write is cut into parts, woken early, interrupted and repeated, and   *)
(* whoever else uses the port.                                             *)
WireInOrder ==
  /\ \A k \in DOMAIN outbuf : outbuf[k] = sent + k
  /\ sent + Len(outbuf) = base + (IF w_start = NULL THEN 0 ELSE w_start)

(* A process that is alone at the port does not sleep in read or poll      *)
(* while there is something to read: neither the transmitter's interrupts  *)
(* nor the mutex that a write of length 0 keeps lose its wake-up.  Not     *)
(* claimed for two processes, which share dev->task.                       *)
NoReaderForgotten ==
  "others" \notin setting =>
    \A p \in Proc : state[p] = "WAITING" /\ again[p].op \in {"read", "poll_in"} => inbuf = 0

(* A process alone at a port whose transmitter takes what it is given does *)
(* not sleep in a write for ever.                                          *)
WriterWoken ==
  setting \cap {"others", "busy"} = {} /\ state[Writer] = "WAITING" /\ again[Writer].op = "write"
    ~> state[Writer] = "READY"
=============================================================================
