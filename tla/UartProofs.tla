------------------------------ MODULE UartProofs ------------------------------
(***************************************************************************)
(* Theorems about Uart, for every number of processes, every size of the   *)
(* buffers, every length of messages and every choice of settings; and,    *)
(* at the end, about CirBuf, the circular buffer that Uart takes for a     *)
(* bounded queue, for every storage size, byte set and request.            *)
(***************************************************************************)
EXTENDS Uart, CirBuf, SequenceTheorems, TLAPS

(* A write that is cut is the call its writer issues again, and has not    *)
(* come to its end: so no other write can get between its parts.           *)
WriteIsBegun ==
  w_start # NULL =>
    w_start < w_end /\ again[Writer] = [op |-> "write", len |-> w_end]

(* A process alone at the port is the one that interrupts resume. *)
AloneAttached ==
  "others" \notin setting =>
    /\ \A p \in Proc \ {Writer} : again[p] = NoCall
    /\ again[Writer].op \in {"read", "poll_in"} => task = Writer

IInv == TypeOK /\ WireInOrder /\ WriteIsBegun /\ AloneAttached
-----------------------------------------------------------------------------
DeviceType == [out : Seq(Nat), sent : Nat, ready : BOOLEAN, txie : BOOLEAN]

(* The buffer of device d holds the bytes up to the n-th of the stream. *)
UpTo(d, n) ==
  /\ \A k \in 1..Len(d.out) : d.out[k] = d.sent + k
  /\ d.sent + Len(d.out) = n

(* The transmitter takes at most one byte, the first one. *)
LEMMA SendFacts ==
  ASSUME NEW d \in DeviceType, NEW n \in Nat, UpTo(d, n)
  PROVE  /\ Send(d) \in DeviceType /\ UpTo(Send(d), n)
         /\ Len(Send(d).out) <= Len(d.out) /\ Len(d.out) <= Len(Send(d).out) + 1
<1> USE DEF DeviceType, UpTo
<1>1. CASE d.ready /\ d.out # <<>>
  <2>1. Send(d) = [out |-> Tail(d.out), sent |-> d.sent + 1,
                   ready |-> ("busy" \notin setting), txie |-> TRUE]
    BY <1>1 DEF Send
  <2>2. /\ Tail(d.out) \in Seq(Nat) /\ Len(Tail(d.out)) = Len(d.out) - 1
        /\ \A k \in 1..Len(Tail(d.out)) : Tail(d.out)[k] = d.out[k + 1]
    BY <1>1
  <2>3. /\ Send(d).out = Tail(d.out) /\ Send(d).sent = d.sent + 1
        /\ Send(d).ready \in BOOLEAN /\ Send(d).txie \in BOOLEAN
    BY <2>1
  <2>4. Send(d) \in DeviceType
    BY <2>1, <2>2, <2>3
  <2>5. \A k \in 1..Len(Tail(d.out)) : Tail(d.out)[k] = d.sent + 1 + k
    BY <2>2
  <2>6. d.sent + 1 + Len(Tail(d.out)) = n /\ Len(d.out) \in Nat
    BY <2>2
  <2> DEFINE s == Send(d)
             r == Tail(d.out)
  <2> HIDE DEF s, r
  <2>7. UpTo(s, n)
    BY <2>3, <2>5, <2>6 DEF s, r
  <2> QED BY <2>2, <2>3, <2>4, <2>6, <2>7 DEF s
<1>2. CASE ~(d.ready /\ d.out # <<>>)
  BY <1>2 DEF Send
<1> QED BY <1>1, <1>2

(* What of a message goes into the buffer follows what is there. *)
LEMMA FillFacts ==
  ASSUME NEW d \in DeviceType, base \in Nat, NEW w \in Nat, NEW end \in Nat, w <= end,
         Capacity \in Nat, Len(d.out) <= Capacity, UpTo(d, base + w),
         NEW n, n = Least(Capacity - Len(d.out), end - w)
  PROVE  /\ Fill(d, w, end) \in DeviceType /\ UpTo(Fill(d, w, end), base + w + n)
         /\ n \in Nat /\ Len(Fill(d, w, end).out) = Len(d.out) + n
<1> USE DEF DeviceType, UpTo
<1>1. n \in Nat
  BY DEF Least
<1> DEFINE new == [k \in 1..n |-> base + w + k]
           f == Fill(d, w, end)
<1>2. new \in Seq(Nat) /\ Len(new) = n /\ \A k \in 1..n : new[k] = base + w + k
  <2>1. PICK m \in Nat : m = base + w
    OBVIOUS
  <2>2. PICK s : s = [k \in 1..n |-> m + k]
    OBVIOUS
  <2>3. s \in Seq(Nat) /\ Len(s) = n /\ \A k \in 1..n : s[k] = m + k
    BY ONLY <1>1, <2>1, <2>2
  <2> QED BY <2>1, <2>2, <2>3, Zenon
<1>3. f = [d EXCEPT !.out = d.out \o new]
  BY DEF Fill
<1> HIDE DEF new
<1>4. /\ d.out \o new \in Seq(Nat) /\ Len(d.out \o new) = Len(d.out) + n
      /\ \A k \in 1..Len(d.out) + n :
            (d.out \o new)[k] = IF k <= Len(d.out) THEN d.out[k] ELSE new[k - Len(d.out)]
  <2> DEFINE old == d.out
  <2>1. old \in Seq(Nat) /\ new \in Seq(Nat) /\ Len(new) = n
    BY <1>2
  <2> HIDE DEF old
  <2>2. /\ old \o new \in Seq(Nat) /\ Len(old \o new) = Len(old) + Len(new)
        /\ \A k \in 1..Len(old) + Len(new) :
              (old \o new)[k] = IF k <= Len(old) THEN old[k] ELSE new[k - Len(old)]
    BY ONLY <2>1, ConcatProperties
  <2> QED BY <2>1, <2>2 DEF old
<1>5. f \in DeviceType /\ f.out = d.out \o new /\ f.sent = d.sent
  BY <1>3, <1>4
<1> HIDE DEF f
<1>9. d.sent + Len(d.out) = base + w /\ d.sent \in Nat /\ Len(d.out) \in Nat
  OBVIOUS
<1>6. ASSUME NEW k \in 1..Len(d.out) + n PROVE f.out[k] = f.sent + k
  <2>1. CASE k <= Len(d.out)
    BY <1>4, <1>5, <2>1
  <2>2. CASE k > Len(d.out)
    <3>1. k - Len(d.out) \in 1..n
      BY <1>1, <2>2
    <3>2. f.out[k] = base + w + (k - Len(d.out))
      BY <1>2, <1>4, <1>5, <2>2, <3>1
    <3>3. k \in Int /\ f.sent = d.sent
      BY <1>1, <1>5, <1>9
    <3>4. base + w + (k - Len(d.out)) = d.sent + k
      BY <1>9, <3>3
    <3> QED BY <3>2, <3>3, <3>4
  <2> QED BY <2>1, <2>2
<1>7. Len(f.out) = Len(d.out) + n
  BY <1>4, <1>5
<1>8. UpTo(f, base + w + n)
  <2>1. \A k \in 1..Len(f.out) : f.out[k] = f.sent + k
    BY <1>6, <1>7
  <2>2. f.sent + Len(f.out) = base + w + n
    BY <1>1, <1>5, <1>7, <1>9
  <2> QED BY <2>1, <2>2
<1> QED BY <1>1, <1>5, <1>7, <1>8 DEF f

(* Where the stream of the buffer ends: at what is in it of the message. *)
Place == base + (IF w_start = NULL THEN 0 ELSE w_start)

(* The device before a step, as the lemmas above see it. *)
LEMMA DeviceFacts ==
  ASSUME IInv
  PROVE  /\ Device \in DeviceType /\ Place \in Nat /\ UpTo(Device, Place)
         /\ Len(Device.out) <= Capacity
<1> USE DEF IInv, TypeOK
<1>1. Device \in DeviceType /\ Device.out = outbuf /\ Device.sent = sent
  BY DEF Device, DeviceType
<1>2. Place \in Nat
  BY DEF Place
<1>3. \A k \in 1..Len(outbuf) : outbuf[k] = sent + k
  BY DEF WireInOrder
<1>4. sent + Len(outbuf) = Place
  BY DEF WireInOrder, Place
<1> QED BY <1>1, <1>2, <1>3, <1>4 DEF UpTo

(* The device after a step. *)
LEMMA SetFacts ==
  ASSUME NEW d \in DeviceType, NEW n, UpTo(d, n), Len(d.out) <= Capacity, SetDevice(d)
  PROVE  /\ outbuf' \in Seq(Nat) /\ Len(outbuf') <= Capacity
         /\ sent' \in Nat /\ ready' \in BOOLEAN /\ txie' \in BOOLEAN
         /\ \A k \in DOMAIN outbuf' : outbuf'[k] = sent' + k
         /\ sent' + Len(outbuf') = n
<1>1. /\ outbuf' = d.out /\ sent' = d.sent /\ ready' = d.ready /\ txie' = d.txie
  BY DEF SetDevice
<1>2. d.out \in Seq(Nat) /\ d.sent \in Nat /\ d.ready \in BOOLEAN /\ d.txie \in BOOLEAN
  BY DEF DeviceType
<1>3. DOMAIN d.out = 1..Len(d.out)
  BY <1>2
<1> QED BY <1>1, <1>2, <1>3 DEF UpTo
-----------------------------------------------------------------------------
States == [Proc -> {"READY", "WAITING"}]

(* Whoever mutex_unlock resumes, the variables stay typed. *)
LEMMA UnlockFacts ==
  ASSUME TypeOK, NEW p \in Proc, NEW st \in States, NEW b,
         UnlockThen(p, st, b)
  PROVE  state' \in States /\ locked' \in BOOLEAN /\ listeners' \subseteq Proc
<1>1. locked' = FALSE
  BY DEF UnlockThen
<1>2. PICK t : /\ listeners' = Listed(p) \ {t}
               /\ state' = IF b THEN Suspended(p, IF t = NULL THEN st ELSE Resumed(st, t))
                                ELSE IF t = NULL THEN st ELSE Resumed(st, t)
  BY DEF UnlockThen
<1>3. Listed(p) \subseteq Proc
  BY DEF Listed, TypeOK
<1>4. Resumed(st, t) \in States
  BY DEF Resumed, States
<1>5. ASSUME NEW s \in States PROVE Suspended(p, s) \in States
  BY DEF Suspended, States
<1> QED BY <1>1, <1>2, <1>3, <1>4, <1>5

(* Taking the mutex, or suspending, leaves states. *)
LEMMA LockingFacts ==
  ASSUME TypeOK, NEW p \in Proc
  PROVE  /\ Locking(p) \in States /\ Listed(p) \subseteq Proc
         /\ Suspended(p, Locking(p)) \in States
BY DEF TypeOK, Locking, Listed, Suspended, States

(* The call that is kept for a process, of all calls there are. *)
LEMMA AgainFacts ==
  ASSUME TypeOK, NEW p \in Proc, NEW c \in Call, again' = [again EXCEPT ![p] = c]
  PROVE  /\ again' \in [Proc -> Call] /\ again'[p] = c
         /\ \A q \in Proc \ {p} : again'[q] = again[q]
BY DEF TypeOK

(* To have no call is one of the calls. *)
LEMMA NoCallFacts == NoCall \in Call /\ NoCall.op = "none"
BY BoundsAssumption DEF NoCall, Call
-----------------------------------------------------------------------------
(* The initial state satisfies the inductive invariant. *)
LEMMA InvInit == Init => IInv
<1> SUFFICES ASSUME Init PROVE IInv
  OBVIOUS
<1> USE BoundsAssumption, SettingsAssumption, NoCallFacts DEF Init
<1>1. state \in States /\ again \in [Proc -> Call]
  BY DEF States
<1>2. outbuf \in Seq(Nat) /\ Len(outbuf) = 0 /\ \A k \in DOMAIN outbuf : FALSE
  OBVIOUS
<1>6. /\ Len(outbuf) <= Capacity /\ inbuf \in 0..Capacity /\ w_start = NULL
      /\ w_end \in 0..MaxLen /\ sent \in Nat /\ base \in Nat /\ listeners \subseteq Proc
  BY <1>2
<1>7. locked \in BOOLEAN /\ ready \in BOOLEAN /\ txie \in BOOLEAN
  OBVIOUS
<1>3. TypeOK
  BY <1>1, <1>2, <1>6, <1>7 DEF TypeOK, States
<1>4. WireInOrder
  BY <1>2 DEF WireInOrder
<1>5. WriteIsBegun /\ AloneAttached
  BY ProcAssumption DEF WriteIsBegun, AloneAttached
<1> QED BY <1>3, <1>4, <1>5 DEF IInv

(* A write that is begun goes on with what it has, to the end it had. *)
LEMMA WriteFacts ==
  ASSUME IInv, NEW call \in Call, Issues(Writer, call), call.op = "write"
  PROVE  /\ WStart(call) \in 0..MaxLen /\ WEnd(call) = call.len
         /\ call.len \in 0..MaxLen
         /\ WStart(call) <= call.len /\ Place = base + WStart(call)
         /\ call.len = 0 => w_start = NULL
<1> USE BoundsAssumption, NoCallFacts DEF IInv, TypeOK, WStart, WEnd, Place
<1>1. call.len \in 0..MaxLen
  BY DEF Call
<1>2. CASE w_start = NULL
  BY <1>1, <1>2
<1>3. CASE w_start # NULL
  <2>1. w_start \in 0..MaxLen /\ w_start < w_end
    BY <1>3 DEF WriteIsBegun
  <2>2. again[Writer] = [op |-> "write", len |-> w_end]
    BY <1>3 DEF WriteIsBegun
  <2>3. again[Writer] = call
    BY <2>2 DEF Issues
  <2>4. call.len = w_end
    BY <2>2, <2>3
  <2> QED BY <1>1, <1>3, <2>1, <2>4
<1> QED BY <1>2, <1>3

(* What a step of the writer has to do to keep the inductive invariant:    *)
(* the bytes, the call that is kept and the place in it agree.             *)
LEMMA WriterKeeps ==
  ASSUME IInv, Writer \in Proc, NEW c \in Call, again' = [again EXCEPT ![Writer] = c],
         NEW d \in DeviceType, NEW n \in Nat, UpTo(d, n), Len(d.out) <= Capacity, SetDevice(d),
         state' \in States, locked' \in BOOLEAN, listeners' \subseteq Proc,
         task' \in Proc \cup {NULL}, base' \in Nat,
         w_start' \in (0..MaxLen) \cup {NULL}, w_end' \in 0..MaxLen,
         n = base' + (IF w_start' = NULL THEN 0 ELSE w_start'),
         w_start' # NULL => w_start' < w_end' /\ c = [op |-> "write", len |-> w_end'],
         c.op \in {"none", "write"},
         UNCHANGED <<inbuf, setting>>
  PROVE  IInv'
<1> USE DEF IInv
<1>1. /\ outbuf' \in Seq(Nat) /\ Len(outbuf') <= Capacity
      /\ sent' \in Nat /\ ready' \in BOOLEAN /\ txie' \in BOOLEAN
      /\ \A k \in DOMAIN outbuf' : outbuf'[k] = sent' + k
      /\ sent' + Len(outbuf') = n
  BY SetFacts
<1>2. /\ again' \in [Proc -> Call] /\ again'[Writer] = c
      /\ \A q \in Proc \ {Writer} : again'[q] = again[q]
  BY AgainFacts
<1>3. TypeOK'
  BY <1>1, <1>2 DEF TypeOK, States
<1>4. WireInOrder'
  BY <1>1 DEF WireInOrder
<1>5. WriteIsBegun'
  BY <1>2 DEF WriteIsBegun
<1>6. AloneAttached'
  BY <1>2 DEF AloneAttached
<1> QED BY <1>3, <1>4, <1>5, <1>6

(* Every write keeps the inductive invariant. *)
LEMMA WriteStep ==
  ASSUME IInv, NEW p \in Proc, NEW call \in Call, devuart_write(p, call)
  PROVE  IInv'
<1> USE BoundsAssumption, ProcAssumption
<1>1. /\ p = Writer /\ Issues(Writer, call) /\ call.op = "write"
      /\ UNCHANGED <<inbuf, setting>>
  BY DEF devuart_write
<1>2. TypeOK /\ base \in Nat /\ task \in Proc \cup {NULL}
  BY DEF IInv, TypeOK
<1> DEFINE d == Send(Device)
           w0 == WStart(call)
           f == Fill(d, w0, WEnd(call))
           w == w0 + Len(f.out) - Len(d.out)
<1>3. /\ w0 \in 0..MaxLen /\ WEnd(call) = call.len /\ call.len \in 0..MaxLen
      /\ w0 <= call.len /\ Place = base + w0
      /\ call.len = 0 => w_start = NULL
  BY <1>1, WriteFacts
<1>4. \/ WriteFull(p, call, d) \/ WriteNothing(p, call, d)
      \/ /\ Len(d.out) < Capacity /\ call.len > 0
         /\ WriteDone(p, call, f, w) \/ WriteRest(p, call, f, w)
  BY DEF devuart_write
<1>5. /\ d \in DeviceType /\ UpTo(d, Place) /\ Len(d.out) <= Capacity /\ Len(d.out) \in Nat
      /\ Place \in Nat
  <2>1. /\ Device \in DeviceType /\ Place \in Nat /\ UpTo(Device, Place)
        /\ Len(Device.out) <= Capacity
    BY DeviceFacts
  <2>2. /\ d \in DeviceType /\ UpTo(d, Place) /\ Len(d.out) <= Len(Device.out)
    BY <2>1, SendFacts
  <2>3. Len(d.out) \in Nat /\ Len(Device.out) \in Nat
    BY <2>1, <2>2 DEF DeviceType
  <2> QED BY <2>1, <2>2, <2>3
<1> HIDE DEF d, w0
<1>6. WriteIsBegun /\ (w_start = NULL \/ w_start \in 0..MaxLen) /\ w_end \in 0..MaxLen
  BY DEF IInv, TypeOK
<1>7. Place = base + (IF w_start = NULL THEN 0 ELSE w_start)
  BY DEF Place
<1>8. w_start # NULL => call = [op |-> "write", len |-> w_end]
  BY <1>1, <1>6, NoCallFacts DEF WriteIsBegun, Issues
<1>9. CASE WriteFull(p, call, d)
  <2>1. UnlockThen(Writer, Locking(Writer), FALSE)
    BY <1>1, <1>9 DEF WriteFull, Unlock
  <2>2. state' \in States /\ locked' \in BOOLEAN /\ listeners' \subseteq Proc
    BY <1>2, <2>1, LockingFacts, UnlockFacts
  <2>3. /\ SetDevice(d) /\ again' = [again EXCEPT ![Writer] = call]
        /\ UNCHANGED <<task, w_start, w_end, base>>
    BY <1>1, <1>9 DEF WriteFull, Again
  <2> QED BY <1>1, <1>2, <1>5, <1>6, <1>7, <1>8, <2>2, <2>3, WriterKeeps DEF WriteIsBegun
<1>10. CASE WriteNothing(p, call, d)
  <2>1. state' \in States /\ locked' \in BOOLEAN /\ listeners' \subseteq Proc
    BY <1>1, <1>2, <1>10, LockingFacts DEF WriteNothing
  <2>2. /\ SetDevice(d) /\ again' = [again EXCEPT ![Writer] = NoCall]
        /\ UNCHANGED <<task, w_start, w_end, base>>
    BY <1>1, <1>10 DEF WriteNothing, Answered
  <2>3. w_start' = NULL
    BY <1>3, <1>10, <2>2 DEF WriteNothing
  <2> QED BY <1>1, <1>2, <1>5, <1>6, <1>7, <2>1, <2>2, <2>3, NoCallFacts, WriterKeeps
<1>11. ASSUME Len(d.out) < Capacity, call.len > 0,
              WriteDone(p, call, f, w) \/ WriteRest(p, call, f, w)
       PROVE  IInv'
  <2> DEFINE n == Least(Capacity - Len(d.out), call.len - w0)
  <2>1. /\ f \in DeviceType /\ UpTo(f, base + w0 + n) /\ n \in Nat
        /\ Len(f.out) = Len(d.out) + n
    <3>1. UpTo(d, base + w0) /\ w0 \in Nat /\ call.len \in Nat /\ Capacity \in Nat
      BY <1>3, <1>5
    <3> HIDE DEF n
    <3>2. n = Least(Capacity - Len(d.out), call.len - w0)
      BY DEF n
    <3>3. f = Fill(d, w0, call.len)
      BY <1>3
    <3> QED BY <1>2, <1>3, <1>5, <3>1, <3>2, <3>3, FillFacts
  <2>2. /\ w = w0 + n /\ w \in 0..MaxLen /\ w <= call.len
        /\ Len(f.out) <= Capacity
        /\ w < call.len => Len(f.out) = Capacity
    <3>1. /\ n \in Nat /\ n <= call.len - w0 /\ n <= Capacity - Len(d.out)
          /\ n = call.len - w0 \/ n = Capacity - Len(d.out)
      BY <1>3, <1>5, <2>1 DEF Least
    <3> HIDE DEF n, f
    <3>2. w = w0 + n
      BY <1>3, <1>5, <2>1
    <3> QED BY <1>3, <1>5, <2>1, <3>1, <3>2
  <2> HIDE DEF f, w, n
  <2>3. /\ Send(f) \in DeviceType /\ UpTo(Send(f), base + w)
        /\ Len(Send(f).out) <= Len(f.out) /\ Len(f.out) <= Len(Send(f).out) + 1
        /\ Len(Send(f).out) \in Nat /\ Len(f.out) \in Nat
    <3>1. base + w0 + n = base + w /\ base + w \in Nat
      BY <1>2, <2>2, <1>3, <2>1
    <3>2. /\ Send(f) \in DeviceType /\ UpTo(Send(f), base + w)
          /\ Len(Send(f).out) <= Len(f.out) /\ Len(f.out) <= Len(Send(f).out) + 1
      BY <2>1, <3>1, SendFacts
    <3> QED BY <2>1, <3>2 DEF DeviceType
  <2>4. Send(f).out = <<>> => w = call.len
    <3>1. Send(f).out = <<>> => Len(Send(f).out) = 0
      OBVIOUS
    <3>2. w # call.len => Len(f.out) >= 2
      BY <1>3, <2>2
    <3> QED BY <2>3, <3>1, <3>2
  <2>5. CASE WriteDone(p, call, f, w)
    <3>1. w = call.len
      BY <1>3, <2>4, <2>5 DEF WriteDone
    <3> DEFINE g == IF Send(f).out = <<>> THEN [Send(f) EXCEPT !.txie = FALSE] ELSE Send(f)
    <3>2. g \in DeviceType /\ UpTo(g, base + w) /\ Len(g.out) <= Capacity
      <4> DEFINE s == Send(f)
      <4>1. s \in DeviceType /\ UpTo(s, base + w) /\ Len(s.out) <= Capacity
        BY <1>5, <2>2, <2>3
      <4> HIDE DEF s
      <4>2. [s EXCEPT !.txie = FALSE] \in DeviceType /\ [s EXCEPT !.txie = FALSE].out = s.out
            /\ [s EXCEPT !.txie = FALSE].sent = s.sent
        BY <4>1 DEF DeviceType
      <4> QED BY <4>1, <4>2 DEF s, UpTo
    <3>3. /\ SetDevice(g) /\ again' = [again EXCEPT ![Writer] = NoCall]
          /\ w_start' = NULL /\ w_end' = 0 /\ base' = base + call.len /\ task' = task
          /\ UnlockThen(Writer, Locking(Writer), FALSE)
      BY <1>1, <2>5 DEF WriteDone, Answered, Unlock
    <3>4. state' \in States /\ locked' \in BOOLEAN /\ listeners' \subseteq Proc
      BY <1>2, <3>3, LockingFacts, UnlockFacts
    <3>5. base' \in Nat /\ base + w = base' /\ base + w \in Nat
      BY <1>2, <1>3, <3>1, <3>3
    <3> HIDE DEF g
    <3>6. /\ task' \in Proc \cup {NULL} /\ w_end' \in 0..MaxLen
          /\ base + w = base' + (IF w_start' = NULL THEN 0 ELSE w_start')
      BY <1>2, <3>3, <3>5
    <3> QED BY <1>1, <3>2, <3>3, <3>4, <3>5, <3>6, NoCallFacts, WriterKeeps
  <2>6. CASE WriteRest(p, call, f, w)
    <3>1. /\ SetDevice(Send(f)) /\ again' = [again EXCEPT ![Writer] = call]
          /\ w_start' = w /\ w_end' = call.len /\ base' = base /\ task' = Writer
          /\ UnlockThen(Writer, Locking(Writer), TRUE) /\ w < call.len
      BY <1>1, <1>3, <2>6 DEF WriteRest, Again
    <3>2. state' \in States /\ locked' \in BOOLEAN /\ listeners' \subseteq Proc
      BY <1>2, <3>1, LockingFacts, UnlockFacts
    <3>3. Len(Send(f).out) <= Capacity /\ base + w \in Nat /\ w # NULL
      <4>1. base \in Nat /\ Capacity \in Nat /\ w \in Nat /\ w # NULL
        BY <1>2, <2>2
      <4>2. base + w \in Nat
        BY <4>1
      <4>3. PICK i, j : i = Len(Send(f).out) /\ j = Len(f.out)
        OBVIOUS
      <4>4. i \in Nat /\ j \in Nat /\ i <= j /\ j <= Capacity
        BY <2>2, <2>3, <4>3
      <4>5. i <= Capacity
        BY <4>1, <4>4
      <4> QED BY <4>1, <4>2, <4>3, <4>5, Zenon
    <3>4. call = [op |-> "write", len |-> call.len]
      BY <1>1 DEF Call
    <3> QED BY <1>1, <1>2, <1>3, <2>2, <2>3, <3>1, <3>2, <3>3, <3>4, WriterKeeps
  <2> QED BY <1>11, <2>5, <2>6
<1> QED BY <1>4, <1>9, <1>10, <1>11 DEF f, w
-----------------------------------------------------------------------------
(* A read or a poll of p leaves a write that is begun alone: its writer    *)
(* makes no other call.                                                    *)
LEMMA OtherCall ==
  ASSUME IInv, NEW p \in Proc, NEW call \in Call, Issues(p, call), call.op # "write"
  PROVE  w_start # NULL => p # Writer
<1> SUFFICES ASSUME w_start # NULL, p = Writer PROVE FALSE
  OBVIOUS
<1>1. again[Writer].op = "write"
  BY DEF IInv, WriteIsBegun
<1> QED BY <1>1, NoCallFacts DEF Issues

(* What a step of a reader or a poller has to do to keep the invariant. *)
LEMMA ReaderKeeps ==
  ASSUME IInv, NEW p \in Proc, NEW call \in Call, Issues(p, call), call.op # "write",
         NEW c \in {NoCall, call}, again' = [again EXCEPT ![p] = c],
         state' \in States, locked' \in BOOLEAN, listeners' \subseteq Proc,
         task' = p \/ (task' = task /\ c = NoCall),
         inbuf' \in 0..Capacity, UNCHANGED <<output, setting>>
  PROVE  IInv'
<1> USE DEF IInv, output
<1>1. c \in Call /\ task' \in Proc \cup {NULL}
  BY NoCallFacts DEF TypeOK
<1>2. /\ again' \in [Proc -> Call] /\ again'[p] = c
      /\ \A q \in Proc \ {p} : again'[q] = again[q]
  BY <1>1, AgainFacts
<1>3. TypeOK'
  BY <1>1, <1>2 DEF TypeOK, States
<1>4. WireInOrder'
  BY DEF WireInOrder
<1>5. WriteIsBegun'
  BY <1>2, OtherCall, ProcAssumption DEF WriteIsBegun
<1>6. AloneAttached'
  <2> SUFFICES ASSUME "others" \notin setting
               PROVE  /\ \A q \in Proc \ {Writer} : again'[q] = NoCall
                      /\ again'[Writer].op \in {"read", "poll_in"} => task' = Writer
    BY DEF AloneAttached
  <2>1. p = Writer
    BY DEF Issues
  <2> QED BY <1>2, <2>1, NoCallFacts DEF AloneAttached
<1> QED BY <1>3, <1>4, <1>5, <1>6

(* Every read keeps the inductive invariant. *)
LEMMA ReadStep ==
  ASSUME IInv, NEW p \in Proc, NEW call \in Call, devuart_read(p, call)
  PROVE  IInv'
<1>1. /\ Issues(p, call) /\ call.op # "write" /\ TypeOK
      /\ UNCHANGED <<output, setting>>
  BY DEF devuart_read, IInv
<1>2. /\ Locking(p) \in States /\ Suspended(p, Locking(p)) \in States
  BY <1>1, LockingFacts
<1>3. CASE ReadReturns(p)
  <2>1. UnlockThen(p, Locking(p), FALSE)
    BY <1>3 DEF ReadReturns, Unlock
  <2>2. state' \in States /\ locked' \in BOOLEAN /\ listeners' \subseteq Proc
    BY <1>1, <1>2, <2>1, UnlockFacts
  <2>3. inbuf' \in 0..Capacity
    BY <1>1, <1>3, BoundsAssumption DEF ReadReturns, TypeOK
  <2>4. again' = [again EXCEPT ![p] = NoCall] /\ task' = task
    BY <1>3 DEF ReadReturns, Answered
  <2> QED BY <1>1, <2>2, <2>3, <2>4, ReaderKeeps
<1>4. CASE ReadSuspends(p, call)
  <2>1. UnlockThen(p, Suspended(p, Locking(p)), FALSE)
    BY <1>4 DEF ReadSuspends, Unlock
  <2>2. state' \in States /\ locked' \in BOOLEAN /\ listeners' \subseteq Proc
    BY <1>1, <1>2, <2>1, UnlockFacts
  <2>3. inbuf' \in 0..Capacity
    BY <1>1, <1>4 DEF ReadSuspends, TypeOK
  <2>4. again' = [again EXCEPT ![p] = call] /\ task' = p
    BY <1>4 DEF ReadSuspends, Again
  <2> QED BY <1>1, <2>2, <2>3, <2>4, ReaderKeeps
<1> QED BY <1>3, <1>4 DEF devuart_read

(* Every poll keeps the inductive invariant. *)
LEMMA PollStep ==
  ASSUME IInv, NEW p \in Proc, NEW call \in Call, devuart_poll(p, call)
  PROVE  IInv'
<1>1. /\ Issues(p, call) /\ call.op # "write" /\ TypeOK
      /\ UNCHANGED <<inbuf, output, setting>> /\ task' = p
      /\ UnlockThen(p, Locking(p), ~PollReady(call.op))
  BY DEF devuart_poll, IInv
<1>2. Locking(p) \in States
  BY <1>1, LockingFacts
<1>3. state' \in States /\ locked' \in BOOLEAN /\ listeners' \subseteq Proc
  BY <1>1, <1>2, UnlockFacts
<1>4. inbuf' \in 0..Capacity
  BY <1>1 DEF TypeOK
<1>5. CASE PollReady(call.op)
  <2>1. again' = [again EXCEPT ![p] = NoCall]
    BY <1>5 DEF devuart_poll, Answered
  <2> QED BY <1>1, <1>3, <1>4, <2>1, ReaderKeeps
<1>6. CASE ~PollReady(call.op)
  <2>1. again' = [again EXCEPT ![p] = call]
    BY <1>6 DEF devuart_poll, Again
  <2> QED BY <1>1, <1>3, <1>4, <2>1, ReaderKeeps
<1> QED BY <1>5, <1>6

(* What the interrupt handler and signals do to the states. *)
LEMMA ResumedFacts ==
  ASSUME TypeOK
  PROVE  /\ TaskResumed \in States
         /\ \A q \in Proc : TaskResumed[q] = "WAITING" => state[q] = "WAITING" /\ q # task
BY ProcAssumption DEF TypeOK, TaskResumed, Resumed, States

(* Every step that is not a call keeps the inductive invariant. *)
LEMMA OtherStep ==
  ASSUME IInv,
         \/ \E p \in Proc : Signal(p)
         \/ uart_isr_tx \/ IsrReceives \/ Transmitted \/ UNCHANGED vars
  PROVE  IInv'
<1> USE DEF IInv
<1>1. ASSUME /\ state' \in States /\ inbuf' \in 0..Capacity
             /\ ready' \in BOOLEAN /\ txie' \in BOOLEAN
             /\ UNCHANGED <<again, task, mutex, w_start, w_end, base, setting>>,
             NEW d \in DeviceType, UpTo(d, Place), Len(d.out) <= Capacity,
             outbuf' = d.out, sent' = d.sent
      PROVE  IInv'
  <2>1. d.out \in Seq(Nat) /\ d.sent \in Nat /\ DOMAIN d.out = 1..Len(d.out)
    BY DEF DeviceType
  <2>2. TypeOK'
    BY <1>1, <2>1 DEF TypeOK, States, mutex
  <2>3. WireInOrder'
    BY <1>1, <2>1 DEF WireInOrder, UpTo, Place
  <2>4. WriteIsBegun' /\ AloneAttached'
    BY <1>1 DEF WriteIsBegun, AloneAttached
  <2> QED BY <2>2, <2>3, <2>4
<1>2. /\ Device \in DeviceType /\ UpTo(Device, Place) /\ Len(Device.out) <= Capacity
      /\ Place \in Nat /\ Device.out = outbuf /\ Device.sent = sent
  BY DeviceFacts DEF Device
<1>3. ASSUME NEW p \in Proc, Signal(p) PROVE IInv'
  <2>1. state' \in States
    BY <1>3 DEF Signal, TypeOK, States
  <2> QED BY <1>1, <1>2, <1>3, <2>1 DEF Signal, output, TypeOK, mutex
<1>4. CASE IsrSends
  <2>1. /\ Send(Device) \in DeviceType /\ UpTo(Send(Device), Place)
        /\ Len(Send(Device).out) <= Len(Device.out)
    BY <1>2, SendFacts
  <2>2. Len(Send(Device).out) \in Nat /\ Len(Device.out) \in Nat /\ Capacity \in Nat
    BY <1>2, <2>1, BoundsAssumption DEF DeviceType
  <2>3. Len(Send(Device).out) <= Capacity
    BY <1>2, <2>1, <2>2
  <2> DEFINE d == Send(Device)
  <2>4. /\ outbuf' = d.out /\ sent' = d.sent /\ ready' = d.ready /\ txie' = d.txie
        /\ UNCHANGED <<state, again, task, mutex, inbuf, w_start, w_end, base, setting>>
    BY <1>4 DEF IsrSends, SetDevice
  <2>5. d.ready \in BOOLEAN /\ d.txie \in BOOLEAN
    BY <2>1 DEF DeviceType
  <2> HIDE DEF d
  <2>6. d \in DeviceType /\ UpTo(d, Place) /\ Len(d.out) <= Capacity
    BY <2>1, <2>3 DEF d
  <2>7. state' \in States /\ inbuf' \in 0..Capacity
    BY <2>4 DEF TypeOK, States
  <2> QED BY <1>1, <2>4, <2>5, <2>6, <2>7
<1>5. CASE IsrIdle
  BY <1>1, <1>2, <1>5, ResumedFacts DEF IsrIdle, TypeOK
<1>6. CASE IsrReceives
  <2>1. inbuf' \in 0..Capacity
    BY <1>6, BoundsAssumption DEF IsrReceives, Receive, Least, TypeOK
  <2> QED BY <1>1, <1>2, <1>6, <2>1, ResumedFacts DEF IsrReceives, Receive, output, TypeOK
<1>7. CASE Transmitted
  BY <1>1, <1>2, <1>7 DEF Transmitted, TypeOK, States
<1>8. CASE UNCHANGED vars
  BY <1>1, <1>2, <1>8 DEF vars, output, TypeOK, States, mutex
<1> QED BY <1>3, <1>4, <1>5, <1>6, <1>7, <1>8 DEF uart_isr_tx

(* Every step keeps the inductive invariant. *)
LEMMA InvStep == IInv /\ [Next]_vars => IInv'
BY WriteStep, ReadStep, PollStep, OtherStep DEF Next

(* The inductive invariant holds in every reachable state. *)
LEMMA Invariance == Spec => []IInv
BY InvInit, InvStep, PTL DEF Spec

(* The types of the variables, in every reachable state. *)
THEOREM TypeCorrect == Spec => []TypeOK
BY Invariance, PTL DEF IInv

(* The wire carries the writer's bytes, each once and in order.            *)
THEOREM WireInOrderHolds == Spec => []WireInOrder
BY Invariance, PTL DEF IInv
-----------------------------------------------------------------------------
(* Every step keeps NoReaderForgotten: a process that waits for bytes has  *)
(* attached itself, and the interrupt that brings one resumes it.          *)
LEMMA ReaderStep == IInv /\ NoReaderForgotten /\ [Next]_vars => NoReaderForgotten'
<1> SUFFICES ASSUME IInv, NoReaderForgotten, [Next]_vars, "others" \notin setting',
                    NEW q \in Proc, state'[q] = "WAITING",
                    again'[q].op \in {"read", "poll_in"}
             PROVE  inbuf' = 0
  BY DEF NoReaderForgotten
<1> USE NoCallFacts, ProcAssumption DEF IInv
<1>1. \A p \in Proc, c \in Call : again' = [again EXCEPT ![p] = c] =>
        again'[q] = IF q = p THEN c ELSE again[q]
  BY DEF TypeOK
<1>2. ASSUME state[q] = "WAITING", again' = again, inbuf' = inbuf, setting' = setting
      PROVE  inbuf' = 0
  BY <1>2 DEF NoReaderForgotten
<1>3. ASSUME NEW p \in Proc, NEW call \in Call, Issues(p, call), setting' = setting,
             NEW c \in {NoCall, call}, again' = [again EXCEPT ![p] = c]
      PROVE  c = call /\ call.op \in {"read", "poll_in"}
  <2>1. p = Writer
    BY <1>3 DEF Issues
  <2>2. q = Writer
    BY <1>1, <1>3, <2>1 DEF AloneAttached
  <2> QED BY <1>1, <1>3, <2>1, <2>2, Zenon
<1>4. ASSUME NEW p \in Proc, NEW call \in Call, devuart_write(p, call) PROVE inbuf' = 0
  <2>1. \E c \in {NoCall, call} : again' = [again EXCEPT ![p] = c]
    BY <1>4 DEF devuart_write, WriteFull, WriteNothing, WriteDone, WriteRest, Again, Answered
  <2> QED BY <1>3, <1>4, <2>1 DEF devuart_write
<1>5. ASSUME NEW p \in Proc, NEW call \in Call, devuart_read(p, call) PROVE inbuf' = 0
  <2>1. CASE ReadReturns(p)
    <3>1. again' = [again EXCEPT ![p] = NoCall]
      BY <2>1 DEF ReadReturns, Answered
    <3> QED BY <1>3, <1>5, <3>1 DEF devuart_read
  <2>2. CASE ReadSuspends(p, call)
    BY <2>2 DEF ReadSuspends
  <2> QED BY <1>5, <2>1, <2>2 DEF devuart_read
<1>6. ASSUME NEW p \in Proc, NEW call \in Call, devuart_poll(p, call) PROVE inbuf' = 0
  <2>1. CASE PollReady(call.op)
    <3>1. again' = [again EXCEPT ![p] = NoCall]
      BY <1>6, <2>1 DEF devuart_poll, Answered
    <3> QED BY <1>3, <1>6, <3>1 DEF devuart_poll
  <2>2. CASE ~PollReady(call.op)
    <3>1. again' = [again EXCEPT ![p] = call]
      BY <1>6, <2>2 DEF devuart_poll, Again
    <3>2. call.op \in {"read", "poll_in"} /\ call.op \in {"poll_in", "poll_out"}
      BY <1>3, <1>6, <3>1 DEF devuart_poll
    <3>3. ~(inbuf > 0)
      BY <2>2, <3>2 DEF PollReady
    <3> QED BY <1>6, <3>3 DEF devuart_poll, TypeOK
  <2> QED BY <2>1, <2>2
<1>7. ASSUME NEW p \in Proc, Signal(p) PROVE inbuf' = 0
  BY <1>2, <1>7 DEF Signal, TypeOK
<1>8. CASE IsrSends \/ Transmitted \/ UNCHANGED vars
  BY <1>2, <1>8 DEF IsrSends, Transmitted, vars
<1>9. CASE IsrIdle
  BY <1>2, <1>9, ResumedFacts DEF IsrIdle
<1>10. ~IsrReceives
  <2> SUFFICES ASSUME IsrReceives PROVE FALSE
    OBVIOUS
  <2>1. /\ state'[q] = TaskResumed[q] /\ again' = again /\ task' = task
        /\ setting' = setting
    BY DEF IsrReceives, Receive
  <2>2. q # task
    BY <2>1, ResumedFacts
  <2> QED BY <2>1, <2>2 DEF AloneAttached
<1> QED BY <1>4, <1>5, <1>6, <1>7, <1>8, <1>9, <1>10 DEF Next, uart_isr_tx

(* A process alone at the port does not sleep in read or poll while there  *)
(* is something to read.                                                   *)
THEOREM NoReaderForgottenHolds == Spec => []NoReaderForgotten
<1>1. Init => NoReaderForgotten
  BY DEF Init, NoReaderForgotten
<1> QED BY <1>1, Invariance, ReaderStep, PTL DEF Spec
-----------------------------------------------------------------------------
(* The circular buffer. *)

(* A pointer advanced by at most the size of the storage and wrapped stays *)
(* inside the storage.                                                     *)
LEMMA WrapInOffset ==
  ASSUME NEW p \in 0..(2 * bufsize - 1)
  PROVE  Wrap(p) \in Offset
BY BufsizeAssumption DEF Wrap, Offset

(* Copying bytes into the storage leaves an array of bytes. *)
LEMMA MemCpyType ==
  ASSUME NEW mem \in [Offset -> Byte], NEW at \in Nat, NEW from \in Nat \ {0},
         NEW n \in Nat, NEW src \in Seq(Byte), from + n <= Len(src) + 1
  PROVE  MemCpy(mem, at, src, from, n) \in [Offset -> Byte]
BY BufsizeAssumption DEF MemCpy, Offset

(* Free slots and used bytes add up to the capacity in every typed state. *)
LEMMA CountsFromType == CirTypeOK => CountsAgree
BY BufsizeAssumption DEF CirTypeOK, CountsAgree, bytesfree, bytesinuse, Offset

(* Types are preserved by every operation: no write or read ever leaves a  *)
(* pointer on the slot past the end of the storage.                        *)
LEMMA CirTypeStep == CirTypeOK /\ [CirNext]_cirvars => CirTypeOK'
<1> SUFFICES ASSUME CirTypeOK, [CirNext]_cirvars PROVE CirTypeOK'
  OBVIOUS
<1> USE DEF CirTypeOK
<1>0. CountsAgree
  BY CountsFromType
<1>1. ASSUME NEW byte \in Byte, writebyte(byte) PROVE CirTypeOK'
  <2>1. writeptr + 1 \in 0..(2 * bufsize - 1)
    BY BufsizeAssumption DEF Offset
  <2>2. writeptr' \in Offset
    BY <1>1, <2>1, WrapInOffset DEF writebyte
  <2> QED BY <1>1, <2>2 DEF writebyte
<1>2. CASE readbyte
  <2>1. readptr + 1 \in 0..(2 * bufsize - 1)
    BY BufsizeAssumption DEF Offset
  <2>2. readptr' \in Offset
    BY <1>2, <2>1, WrapInOffset DEF readbyte
  <2>3. buf[readptr] \in Byte
    OBVIOUS
  <2> QED BY <1>2, <2>2, <2>3 DEF readbyte
<1>3. ASSUME NEW len \in 0..MaxRequest, readbytes(len) PROVE CirTypeOK'
  <2> DEFINE n == Cut(len, bytesinuse)
  <2>1. n \in 0..(bufsize - 1)
    BY <1>0, MaxRequestAssumption, BufsizeAssumption DEF CountsAgree, Cut
  <2>2. readptr' \in Offset
    <3>1. readptr + n \in 0..(2 * bufsize - 1)
      BY <2>1, BufsizeAssumption DEF Offset
    <3> QED BY <1>3, <3>1, WrapInOffset DEF readbytes
  <2>3. ASSUME NEW i \in 1..n PROVE buf[Wrap(readptr + i - 1)] \in Byte
    <3>1. readptr + i - 1 \in 0..(2 * bufsize - 1)
      BY <2>1, BufsizeAssumption DEF Offset
    <3> QED BY <3>1, WrapInOffset
  <2>4. out' \in Seq(Byte)
    <3>1. out' = [i \in 1..n |-> buf[Wrap(readptr + i - 1)]]
      BY <1>3 DEF readbytes
    <3> HIDE DEF n
    <3>2. out' \in [1..n -> Byte]
      BY <2>3, <3>1
    <3> QED BY <2>1, <3>2
  <2> QED BY <1>3, <2>2, <2>4 DEF readbytes
<1>4. ASSUME NEW n \in 0..MaxRequest, NEW bytes \in [1..n -> Byte], writebytes(bytes)
      PROVE  CirTypeOK'
  <2> DEFINE len == Cut(Len(bytes), bytesfree)
             first == bufsize - writeptr
  <2>1. bytes \in Seq(Byte) /\ Len(bytes) = n
    BY MaxRequestAssumption
  <2>2. /\ len \in 0..(bufsize - 1)
        /\ len <= Len(bytes)
        /\ first \in 1..bufsize
    BY <1>0, <2>1, MaxRequestAssumption, BufsizeAssumption DEF CountsAgree, Cut, Offset
  <2>3. CASE writeptr + len > bufsize - 1
    <3> DEFINE mid == MemCpy(buf, writeptr, bytes, 1, first)
    <3>1. writeptr \in Nat /\ first \in Nat /\ first <= len /\ len - first \in Nat
      BY <2>2, <2>3, BufsizeAssumption DEF Offset
    <3>2. mid \in [Offset -> Byte]
      BY <2>1, <2>2, <3>1, MemCpyType
    <3> HIDE DEF mid
    <3>3. MemCpy(mid, 0, bytes, first + 1, len - first) \in [Offset -> Byte]
      <4>1. first + 1 \in Nat \ {0} /\ (first + 1) + (len - first) <= Len(bytes) + 1
        BY <2>1, <2>2, <3>1
      <4> HIDE DEF len, first
      <4> QED BY <2>1, <3>1, <3>2, <4>1, MemCpyType
    <3>4. buf' \in [Offset -> Byte]
      BY <1>4, <2>3, <3>3 DEF writebytes, mid
    <3>5. writeptr' \in Offset
      BY <1>4, <2>2, <2>3, BufsizeAssumption DEF writebytes, Offset
    <3> QED BY <1>4, <3>4, <3>5 DEF writebytes
  <2>4. CASE ~(writeptr + len > bufsize - 1)
    <3>1. writeptr \in Nat
      BY DEF Offset
    <3>2. MemCpy(buf, writeptr, bytes, 1, len) \in [Offset -> Byte]
      BY <2>1, <2>2, <3>1, MemCpyType
    <3>3. buf' \in [Offset -> Byte]
      BY <1>4, <2>4, <3>2 DEF writebytes
    <3>4. writeptr' \in Offset
      BY <1>4, <2>2, <2>4, BufsizeAssumption DEF writebytes, Offset
    <3> QED BY <1>4, <3>3, <3>4 DEF writebytes
  <2> QED BY <2>3, <2>4
<1>5. CASE UNCHANGED cirvars
  BY <1>5 DEF cirvars
<1> QED BY <1>1, <1>2, <1>3, <1>4, <1>5 DEF CirNext

(* In every reachable state the pointers are inside the storage. *)
THEOREM CirTypeCorrect == CirSpec => []CirTypeOK
<1>1. CirInit => CirTypeOK
  BY BufsizeAssumption DEF CirInit, CirTypeOK, Offset
<1> QED BY <1>1, CirTypeStep, PTL DEF CirSpec

(* In every reachable state the two counts describe the same buffer. *)
THEOREM CountsCorrect == CirSpec => []CountsAgree
BY CirTypeCorrect, CountsFromType, PTL
-----------------------------------------------------------------------------
(* What a read returns and a write leaves are sequences of bytes. *)
LEMMA ContentsType ==
  CirTypeOK => Contents \in Seq(Byte) /\ Len(Contents) = bytesinuse
<1> SUFFICES ASSUME CirTypeOK
             PROVE  Contents \in Seq(Byte) /\ Len(Contents) = bytesinuse
  OBVIOUS
<1>1. bytesinuse \in 0..(bufsize - 1)
  BY CountsFromType DEF CountsAgree
<1>2. ASSUME NEW i \in 1..bytesinuse PROVE buf[Wrap(readptr + i - 1)] \in Byte
  <2>1. readptr + i - 1 \in 0..(2 * bufsize - 1)
    BY <1>1, BufsizeAssumption DEF Offset, CirTypeOK
  <2> QED BY <2>1, WrapInOffset DEF CirTypeOK
<1>3. Contents \in [1..bytesinuse -> Byte]
  BY <1>2 DEF Contents
<1> HIDE DEF Contents
<1> QED BY <1>1, <1>3

(* A step that advances writeptr by len, stores bytes from there on and    *)
(* leaves the bytes in use alone appends those bytes to the contents.      *)
LEMMA StoreAppends ==
  ASSUME CirTypeOK, CirTypeOK', NEW bytes \in Seq(Byte), NEW len \in 0..bytesfree,
         len <= Len(bytes), readptr' = readptr, writeptr' = Wrap(writeptr + len),
         \A k \in 0..(len - 1) : buf'[Wrap(writeptr + k)] = bytes[k + 1],
         \A k \in 0..(bytesinuse - 1) :
            buf'[Wrap(readptr + k)] = buf[Wrap(readptr + k)]
  PROVE  Contents' = Contents \o SubSeq(bytes, 1, len)
<1> DEFINE n == bytesinuse
           Joined == Contents \o SubSeq(bytes, 1, len)
<1>1. n \in 0..(bufsize - 1) /\ bytesfree = bufsize - 1 - n
  BY CountsFromType DEF CountsAgree
<1>2. bytesinuse' = n + len
  BY <1>1, BufsizeAssumption DEF CirTypeOK, bytesinuse, bytesfree, Offset, Wrap
<1>3. \A k \in Nat : k < len => Wrap(readptr + (n + k)) = Wrap(writeptr + k)
  BY <1>1, BufsizeAssumption DEF CirTypeOK, bytesinuse, bytesfree, Offset, Wrap
<1>4. /\ Contents \in Seq(Byte) /\ Len(Contents) = n
      /\ Contents' \in Seq(Byte) /\ Len(Contents') = n + len
  <2>1. (Contents \in Seq(Byte) /\ Len(Contents) = bytesinuse)'
    BY ContentsType, PTL
  <2> QED BY <1>2, <2>1, ContentsType
<1>5. /\ SubSeq(bytes, 1, len) \in Seq(Byte)
      /\ Len(SubSeq(bytes, 1, len)) = len
      /\ \A k \in 1..len : SubSeq(bytes, 1, len)[k] = bytes[k]
  BY <1>1
<1>6. /\ Joined \in Seq(Byte) /\ Len(Joined) = n + len
      /\ \A i \in 1..n : Joined[i] = Contents[i]
      /\ \A i \in (n + 1)..(n + len) : Joined[i] = bytes[i - n]
  <2>1. Joined \in Seq(Byte) /\ Len(Joined) = n + len
    <3>1. n \in Nat /\ len \in Nat
      BY <1>1
    <3>2. \A s, t \in Seq(Byte) : s \o t \in Seq(Byte) /\ Len(s \o t) = Len(s) + Len(t)
      BY ConcatProperties
    <3> HIDE DEF n
    <3> DEFINE s == Contents
               t == SubSeq(bytes, 1, len)
    <3>3. s \in Seq(Byte) /\ Len(s) = n /\ t \in Seq(Byte) /\ Len(t) = len
      BY <1>4, <1>5
    <3> HIDE DEF s, t
    <3>4. s \o t \in Seq(Byte) /\ Len(s \o t) = n + len
      BY <3>2, <3>3
    <3> QED BY <3>4 DEF s, t
  <2>2. ASSUME NEW i \in 1..n PROVE Joined[i] = Contents[i]
    BY <1>1, <1>4, <1>5
  <2>3. ASSUME NEW i \in (n + 1)..(n + len) PROVE Joined[i] = bytes[i - n]
    BY <1>1, <1>4, <1>5
  <2> QED BY <2>1, <2>2, <2>3
<1>7. ASSUME NEW i \in 1..(n + len) PROVE Contents'[i] = Joined[i]
  <2>1. Contents'[i] = buf'[Wrap(readptr + i - 1)]
    BY <1>2 DEF Contents, Wrap
  <2>2. CASE i \in 1..n
    <3>1. Contents[i] = buf[Wrap(readptr + i - 1)]
      BY <2>2 DEF Contents
    <3>2. i - 1 \in 0..(n - 1) /\ readptr + (i - 1) = readptr + i - 1
      BY <1>1, <2>2 DEF CirTypeOK, Offset
    <3>3. buf'[Wrap(readptr + (i - 1))] = buf[Wrap(readptr + (i - 1))]
      BY <3>2
    <3> QED BY <1>6, <2>1, <2>2, <3>1, <3>2, <3>3
  <2>3. CASE i \in (n + 1)..(n + len)
    <3> DEFINE k == i - n - 1
    <3>1. k \in 0..(len - 1) /\ k + 1 = i - n /\ readptr + (n + k) = readptr + i - 1
      BY <1>1, <2>3 DEF CirTypeOK, Offset
    <3>2. buf'[Wrap(writeptr + k)] = bytes[k + 1]
      BY <3>1
    <3>3. Wrap(readptr + (n + k)) = Wrap(writeptr + k)
      BY <1>3, <3>1
    <3> QED BY <1>6, <2>1, <2>3, <3>1, <3>2, <3>3
  <2>4. i \in 1..n \/ i \in (n + 1)..(n + len)
    BY <1>1
  <2> QED BY <2>2, <2>3, <2>4
<1> HIDE DEF Joined
<1>8. Contents' = Joined
  BY <1>1, <1>4, <1>6, <1>7
<1> QED BY <1>8 DEF Joined

(* A step that only advances readptr, by at most the bytes in use, removes *)
(* that many bytes from the front of the contents; they are the bytes the  *)
(* copy loop of cirbuf_readbytes delivers.                                 *)
LEMMA LoadRemoves ==
  ASSUME CirTypeOK, CirTypeOK', NEW len \in 0..bytesinuse,
         readptr' = Wrap(readptr + len), writeptr' = writeptr, buf' = buf
  PROVE  /\ Contents' = SubSeq(Contents, len + 1, Len(Contents))
         /\ [i \in 1..len |-> buf[Wrap(readptr + i - 1)]] = SubSeq(Contents, 1, len)
<1> DEFINE n == bytesinuse
           Rest == SubSeq(Contents, len + 1, n)
           Front == SubSeq(Contents, 1, len)
<1>1. n \in 0..(bufsize - 1)
  BY CountsFromType DEF CountsAgree
<1>2. bytesinuse' = n - len
  BY <1>1, BufsizeAssumption DEF CirTypeOK, bytesinuse, Offset, Wrap
<1>3. /\ Contents \in Seq(Byte) /\ Len(Contents) = n
      /\ Contents' \in Seq(Byte) /\ Len(Contents') = n - len
  <2>1. (Contents \in Seq(Byte) /\ Len(Contents) = bytesinuse)'
    BY ContentsType, PTL
  <2> QED BY <1>2, <2>1, ContentsType
<1>4. \A i \in 1..n : Contents[i] = buf[Wrap(readptr + i - 1)]
  BY DEF Contents
<1>5. \A i \in 1..(n - len) : Contents'[i] = buf[Wrap(readptr' + i - 1)]
  BY <1>2 DEF Contents, Wrap
<1>6. \A i \in 1..(n - len) : Wrap(readptr' + i - 1) = Wrap(readptr + (len + i) - 1)
  BY <1>1, BufsizeAssumption DEF CirTypeOK, Offset, Wrap
<1> HIDE DEF n
<1>7. /\ Rest \in Seq(Byte) /\ Len(Rest) = n - len
      /\ \A i \in 1..(n - len) : Rest[i] = Contents[len + i]
  BY <1>1, <1>3 DEF n
<1>8. Contents' = Rest
  <2>1. \A i \in 1..(n - len) : Contents'[i] = Rest[i]
    <3> SUFFICES ASSUME NEW i \in 1..(n - len) PROVE Contents'[i] = Rest[i]
      OBVIOUS
    <3>1. len + i \in 1..n
      BY <1>1 DEF n
    <3> QED BY <1>4, <1>5, <1>6, <1>7, <3>1
  <2> HIDE DEF Rest
  <2> QED BY <1>1, <1>3, <1>7, <2>1
<1>9. [i \in 1..len |-> buf[Wrap(readptr + i - 1)]] = Front
  <2>1. /\ Front = [i \in 1..len |-> Front[i]]
        /\ \A i \in 1..len : Front[i] = Contents[i]
    BY <1>1, <1>3 DEF n
  <2>2. \A i \in 1..len : Front[i] = buf[Wrap(readptr + i - 1)]
    BY <1>1, <1>4, <2>1 DEF n
  <2> HIDE DEF Front
  <2> QED BY <2>1, <2>2
<1> QED BY <1>3, <1>8, <1>9
-----------------------------------------------------------------------------
(* cirbuf_writebyte is a put of one byte. *)
LEMMA WritebyteIsPut ==
  ASSUME CirTypeOK, CirTypeOK', NEW byte \in Byte, writebyte(byte)
  PROVE  Fifo!FifoNext
<1> DEFINE bytes == [i \in 1..1 |-> byte]
<1>1. CountsAgree
  BY CountsFromType
<1>2. 1 \in 0..bytesfree
  BY <1>1, BufsizeAssumption DEF CountsAgree, writebyte
<1>3. bytes \in [1..1 -> Byte] /\ bytes \in Seq(Byte) /\ Len(bytes) = 1 /\ bytes[1] = byte
  <2>1. bytes \in [1..1 -> Byte]
    OBVIOUS
  <2>2. bytes[1] = byte
    OBVIOUS
  <2>3. \A n \in Nat : \A f \in [1..n -> Byte] : f \in Seq(Byte) /\ Len(f) = n
    OBVIOUS
  <2> HIDE DEF bytes
  <2> QED BY <2>1, <2>2, <2>3
<1>4. \A k \in 0..(1 - 1) : buf'[Wrap(writeptr + k)] = bytes[k + 1]
  BY <1>3, BufsizeAssumption DEF CirTypeOK, writebyte, Wrap, Offset
<1>5. \A k \in 0..(bytesinuse - 1) :
         buf'[Wrap(readptr + k)] = buf[Wrap(readptr + k)]
  <2> SUFFICES ASSUME NEW k \in 0..(bytesinuse - 1)
               PROVE  buf'[Wrap(readptr + k)] = buf[Wrap(readptr + k)]
    OBVIOUS
  <2>1. Wrap(readptr + k) # writeptr /\ Wrap(readptr + k) \in Offset
    BY <1>1, <1>2, BufsizeAssumption
    DEF CirTypeOK, CountsAgree, bytesinuse, bytesfree, Wrap, Offset
  <2> QED BY <2>1 DEF CirTypeOK, writebyte
<1>6. Contents' = Contents \o SubSeq(bytes, 1, 1)
  <2>1. readptr' = readptr /\ writeptr' = Wrap(writeptr + 1)
    BY DEF writebyte
  <2> HIDE DEF bytes
  <2>2. PICK l \in 0..bytesfree : l = 1
    BY <1>2
  <2>3. /\ l <= Len(bytes) /\ writeptr' = Wrap(writeptr + l)
        /\ \A k \in 0..(l - 1) : buf'[Wrap(writeptr + k)] = bytes[k + 1]
    BY <1>3, <1>4, <2>1, <2>2
  <2>4. Contents' = Contents \o SubSeq(bytes, 1, l)
    BY <1>3, <1>5, <2>1, <2>3, StoreAppends
  <2> QED BY <2>2, <2>4
<1>7. Len(Contents) = bytesinuse
  BY ContentsType
<1> HIDE DEF bytes
<1>8. Fifo!Put(bytes)
  <2>1. Len(bytes) <= bufsize - 1 - Len(Contents)
    BY <1>1, <1>2, <1>3, <1>7, BufsizeAssumption DEF CountsAgree
  <2> QED BY <1>3, <1>6, <2>1 DEF Fifo!Put, writebyte
<1>9. 1 \in 0..MaxRequest
  BY MaxRequestAssumption
<1> QED BY <1>3, <1>8, <1>9 DEF Fifo!FifoNext

(* cirbuf_readbytes is a get; with a request of one byte it is             *)
(* cirbuf_readbyte.                                                        *)
LEMMA ReadbytesIsGet ==
  ASSUME CirTypeOK, CirTypeOK', NEW len \in 0..MaxRequest, readbytes(len)
  PROVE  Fifo!FifoNext
<1> DEFINE n == Cut(len, bytesinuse)
<1>1. n \in 0..bytesinuse
  BY CountsFromType, MaxRequestAssumption, BufsizeAssumption DEF CountsAgree, Cut
<1>2. /\ readptr' = Wrap(readptr + n) /\ writeptr' = writeptr /\ buf' = buf
      /\ out' = [i \in 1..n |-> buf[Wrap(readptr + i - 1)]]
  BY DEF readbytes
<1>3. Contents' = SubSeq(Contents, n + 1, Len(Contents)) /\ out' = SubSeq(Contents, 1, n)
  <2> HIDE DEF n
  <2> QED BY <1>1, <1>2, LoadRemoves
<1>4. Fifo!Get(len)
  BY <1>3, ContentsType DEF Fifo!Get, Cut
<1> QED BY <1>4 DEF Fifo!FifoNext

(* cirbuf_readbyte is a get of one byte. *)
LEMMA ReadbyteIsGet ==
  ASSUME CirTypeOK, CirTypeOK', readbyte
  PROVE  Fifo!FifoNext
<1>1. 1 \in 0..bytesinuse
  BY CountsFromType, BufsizeAssumption DEF CountsAgree, readbyte
<1>2. /\ readptr' = Wrap(readptr + 1) /\ writeptr' = writeptr /\ buf' = buf
      /\ out' = <<buf[readptr]>>
  BY DEF readbyte
<1>3. /\ Contents' = SubSeq(Contents, 1 + 1, Len(Contents))
      /\ [i \in 1..1 |-> buf[Wrap(readptr + i - 1)]] = SubSeq(Contents, 1, 1)
  BY <1>1, <1>2, LoadRemoves
<1>4. out' = [i \in 1..1 |-> buf[Wrap(readptr + i - 1)]]
  <2>1. Wrap(readptr + 1 - 1) = readptr
    BY BufsizeAssumption DEF CirTypeOK, Wrap, Offset
  <2>2. <<buf[readptr]>> = [i \in 1..1 |-> buf[readptr]]
    OBVIOUS
  <2> QED BY <1>2, <2>1, <2>2
<1>5. Fifo!Get(1)
  <2>1. 1 <= Len(Contents)
    BY <1>1, ContentsType, CountsFromType DEF CountsAgree
  <2> QED BY <1>3, <1>4, <2>1 DEF Fifo!Get
<1> QED BY <1>5, MaxRequestAssumption DEF Fifo!FifoNext

(* cirbuf_writebytes is a put, whether its copy is split or not. *)
LEMMA WritebytesIsPut ==
  ASSUME CirTypeOK, CirTypeOK', NEW m \in 0..MaxRequest, NEW bytes \in [1..m -> Byte],
         writebytes(bytes)
  PROVE  Fifo!FifoNext
<1> DEFINE len == Cut(Len(bytes), bytesfree)
           first == bufsize - writeptr
<1>1. CountsAgree
  BY CountsFromType
<1>2. bytes \in Seq(Byte) /\ Len(bytes) = m
  BY MaxRequestAssumption
<1>3. len \in 0..bytesfree /\ len <= Len(bytes) /\ bytesfree \in 1..(bufsize - 1)
  BY <1>1, <1>2, MaxRequestAssumption, BufsizeAssumption DEF CountsAgree, Cut, writebytes
<1>4. /\ writeptr \in 0..(bufsize - 1)
      /\ first \in 1..bufsize
  BY BufsizeAssumption DEF CirTypeOK, Offset
<1>5. writeptr' = Wrap(writeptr + len) /\ readptr' = readptr
  BY <1>3, <1>4, BufsizeAssumption DEF writebytes, Wrap
(* The slots of the new bytes hold them, every other slot is unchanged. *)
<1>6. \A k \in Offset : buf'[k] =
         IF writeptr <= k /\ k < writeptr + len THEN bytes[1 + k - writeptr]
         ELSE IF k < writeptr + len - bufsize THEN bytes[(first + 1) + k - 0]
         ELSE buf[k]
  <2> SUFFICES ASSUME NEW k \in Offset
               PROVE  buf'[k] =
         IF writeptr <= k /\ k < writeptr + len THEN bytes[1 + k - writeptr]
         ELSE IF k < writeptr + len - bufsize THEN bytes[(first + 1) + k - 0]
         ELSE buf[k]
    OBVIOUS
  <2>1. CASE writeptr + len > bufsize - 1
    <3>1. buf' = MemCpy(MemCpy(buf, writeptr, bytes, 1, first),
                        0, bytes, first + 1, len - first)
      BY <2>1 DEF writebytes
    <3>2. buf'[k] = IF 0 <= k /\ k < 0 + (len - first) THEN bytes[(first + 1) + k - 0]
                    ELSE IF writeptr <= k /\ k < writeptr + first
                         THEN bytes[1 + k - writeptr] ELSE buf[k]
      BY <3>1 DEF MemCpy
    <3>3. k \in 0..(bufsize - 1)
      BY DEF Offset
    <3>4. len - first < writeptr
      BY <1>1, <1>3, <1>4, BufsizeAssumption DEF CountsAgree, bytesinuse, bytesfree, CirTypeOK, Offset
    <3> QED BY <1>3, <1>4, <2>1, <3>2, <3>3, <3>4, BufsizeAssumption
  <2>2. CASE ~(writeptr + len > bufsize - 1)
    <3>1. buf' = MemCpy(buf, writeptr, bytes, 1, len)
      BY <2>2 DEF writebytes
    <3>2. buf'[k] = IF writeptr <= k /\ k < writeptr + len
                    THEN bytes[1 + k - writeptr] ELSE buf[k]
      BY <3>1 DEF MemCpy
    <3> QED BY <1>3, <1>4, <2>2, <3>2, BufsizeAssumption DEF Offset
  <2> QED BY <2>1, <2>2
<1> HIDE DEF len
<1>7. \A k \in 0..(len - 1) : buf'[Wrap(writeptr + k)] = bytes[k + 1]
  <2> SUFFICES ASSUME NEW k \in 0..(len - 1)
               PROVE  buf'[Wrap(writeptr + k)] = bytes[k + 1]
    OBVIOUS
  <2>1. CASE writeptr + k > bufsize - 1
    <3> DEFINE j == writeptr + k - bufsize
    <3>1. Wrap(writeptr + k) = j /\ j \in Offset /\ j < writeptr /\ j < writeptr + len - bufsize
      BY <1>3, <1>4, <2>1, BufsizeAssumption DEF Wrap, Offset
    <3>2. (first + 1) + j - 0 = k + 1
      BY <1>3, <1>4, <2>1, BufsizeAssumption
    <3> HIDE DEF j
    <3> QED BY <1>4, <1>6, <3>1, <3>2 DEF Offset
  <2>2. CASE ~(writeptr + k > bufsize - 1)
    <3> DEFINE j == writeptr + k
    <3>1. Wrap(writeptr + k) = j /\ j \in Offset /\ writeptr <= j /\ j < writeptr + len
      BY <1>3, <1>4, <2>2, BufsizeAssumption DEF Wrap, Offset
    <3>2. 1 + j - writeptr = k + 1
      BY <1>3, <1>4
    <3> HIDE DEF j
    <3> QED BY <1>6, <3>1, <3>2
  <2> QED BY <2>1, <2>2
<1>8. \A k \in 0..(bytesinuse - 1) :
         buf'[Wrap(readptr + k)] = buf[Wrap(readptr + k)]
  <2> SUFFICES ASSUME NEW k \in 0..(bytesinuse - 1)
               PROVE  buf'[Wrap(readptr + k)] = buf[Wrap(readptr + k)]
    OBVIOUS
  <2> DEFINE j == Wrap(readptr + k)
  <2>1. /\ j \in Offset
        /\ ~(writeptr <= j /\ j < writeptr + len)
        /\ ~(j < writeptr + len - bufsize)
    BY <1>1, <1>3, <1>4, BufsizeAssumption
    DEF CountsAgree, bytesinuse, bytesfree, Wrap, CirTypeOK, Offset
  <2> HIDE DEF j
  <2>2. buf'[j] = buf[j]
    BY <1>6, <2>1
  <2> QED BY <2>2 DEF j
<1>9. Contents' = Contents \o SubSeq(bytes, 1, len)
  BY <1>2, <1>3, <1>5, <1>7, <1>8, StoreAppends
<1>10. Fifo!Put(bytes)
  <2>1. bufsize - 1 - Len(Contents) = bytesfree
    BY <1>1, ContentsType DEF CountsAgree
  <2> QED BY <1>9, <2>1 DEF Fifo!Put, len, Cut, writebytes
<1> QED BY <1>10 DEF Fifo!FifoNext

(* The circular buffer implements the bounded FIFO queue of bufsize-1      *)
(* bytes: every step of its four operations is a put, a get or nothing.    *)
THEOREM Refinement == CirSpec => IsFifo
<1>1. CirInit => Fifo!FifoInit
  <2> SUFFICES ASSUME CirInit PROVE Contents = <<>> /\ out = <<>>
    BY DEF Fifo!FifoInit
  <2>1. bytesinuse = 0
    BY DEF CirInit, bytesinuse
  <2> QED BY <2>1 DEF CirInit, Contents
<1>2. CirTypeOK /\ CirTypeOK' /\ [CirNext]_cirvars => [Fifo!FifoNext]_(Fifo!fifoVars)
  <2> SUFFICES ASSUME CirTypeOK, CirTypeOK', [CirNext]_cirvars
               PROVE  Fifo!FifoNext \/ UNCHANGED Fifo!fifoVars
    OBVIOUS
  <2>1. CASE UNCHANGED cirvars
    BY <2>1 DEF cirvars, Fifo!fifoVars, Contents, bytesinuse, Wrap
  <2> QED BY <2>1, WritebyteIsPut, WritebytesIsPut, ReadbyteIsGet, ReadbytesIsGet DEF CirNext
<1> QED BY <1>1, <1>2, CirTypeCorrect, PTL DEF CirSpec, IsFifo, Fifo!FifoSpec
=============================================================================
