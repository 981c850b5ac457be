------------------------------- MODULE Files -------------------------------
(***************************************************************************)
(* Open files and pipes of processes: the descriptor tables and usage      *)
(* counts of kernel/scheduler.c, open, close and unlink of kernel/vfs.c,   *)
(* read and write of kernel/module.c, and kernel/pipe.c.                   *)
(*                                                                         *)
(* A node is a file in memory or one end of a pipe.  A descriptor of a     *)
(* node that has been freed is a use after free waiting to happen; what    *)
(* follows is not modelled, so every action asks for live nodes.  A call   *)
(* that suspends is issued again, after a signal too: a program that is    *)
(* told EINTR repeats the call.                                            *)
(***************************************************************************)
EXTENDS Integers, SequencesExt

CONSTANTS Proc, First,      \* process structures, and the process that runs first
          File, Pipe, NULL,
          PIPE_BUFSIZE,
          MaxFd,            \* bound: the length of a descriptor table
          MaxLen, MaxByte,  \* bounds: of one read or write, of all that is written
          Settings          \* what the programs of a behaviour do, a set of
                            \* "open", "pipe", "dup", "dup2", "vfork", "write", "unlink"
                            \* open files and let descriptors "share" the end of a pipe

ASSUME ProcAssumption == First \in Proc /\ NULL \notin Proc /\ IsFiniteSet(Proc)
ASSUME BoundsAssumption ==
  /\ PIPE_BUFSIZE \in Nat \ {0} /\ MaxFd \in Nat /\ MaxLen \in Nat /\ MaxByte \in Nat
  /\ Settings \subseteq SUBSET {"open", "pipe", "dup", "dup2", "vfork", "write", "unlink", "share"}

End == Pipe \X {"r", "w"}
Node == File \cup End
ASSUME NodeAssumption == File \cap End = {} /\ NULL \notin Node

VARIABLES state,         \* of a process; READY is RUNNABLE or RUNNING
          vparent,       \* the parent whose stack a vfork child runs on, or NULL
          fds,           \* tb.filedesc_table, NULL where fno is NULL
          again,         \* the call a process issues again
          live,          \* the nodes that are allocated
          usage_count,   \* of a node
          linked,        \* the file that the path names, or NULL
          ends,          \* of a pipe: which of fno_r and fno_w are not NULL
          pp,            \* the pipes whose pipe_priv is allocated
          task_r, task_w, w_off,
          cb,            \* the bytes in the pipe's buffer, by their place in the stream
          base,          \* how many bytes the writer was told that were written
          got,           \* how many bytes were read
          setting

procs == <<state, vparent, again>>
pipes == <<ends, pp>>
stream == <<task_r, task_w, w_off, cb, base, got>>
vars == <<procs, fds, live, usage_count, linked, pipes, stream, setting>>

NoCall == [op |-> "none", fd |-> 0, len |-> 0]
Call == [op : {"none", "read", "write"}, fd : 0..MaxFd, len : 0..MaxLen]

TypeOK ==
  /\ state \in [Proc -> {"FREE", "READY", "WAITING", "FORKED", "ZOMBIE"}]
  /\ vparent \in [Proc -> Proc \cup {NULL}]
  /\ fds \in [Proc -> Seq(Node \cup {NULL})]
  /\ again \in [Proc -> Call]
  /\ live \subseteq Node /\ usage_count \in [Node -> Int] /\ linked \in File \cup {NULL}
  /\ ends \in [Pipe -> SUBSET {"r", "w"}] /\ pp \subseteq Pipe
  /\ task_r \in [Pipe -> Proc \cup {NULL}] /\ task_w \in [Pipe -> Proc \cup {NULL}]
  /\ w_off \in [Pipe -> 0..MaxLen]
  /\ cb \in [Pipe -> Seq(Nat)] /\ base \in [Pipe -> Nat] /\ got \in [Pipe -> Nat]
  /\ setting \in Settings

Init ==
  /\ state = [p \in Proc |-> IF p = First THEN "READY" ELSE "FREE"]
  /\ vparent = [p \in Proc |-> NULL] /\ again = [p \in Proc |-> NoCall]
  /\ fds = [p \in Proc |-> <<>>]
  /\ live = {} /\ usage_count = [n \in Node |-> 0] /\ linked = NULL
  /\ ends = [q \in Pipe |-> {}] /\ pp = {}
  /\ task_r = [q \in Pipe |-> NULL] /\ task_w = [q \in Pipe |-> NULL]
  /\ w_off = [q \in Pipe |-> 0] /\ cb = [q \in Pipe |-> <<>>]
  /\ base = [q \in Pipe |-> 0] /\ got = [q \in Pipe |-> 0]
  /\ setting \in Settings
-----------------------------------------------------------------------------
Places(p, n) == {i \in DOMAIN fds[p] : fds[p][i] = n}
Descriptors(n) == {d \in Proc \X (1..MaxFd) : d[2] \in Places(d[1], n)}
AllLive(p) == ToSet(fds[p]) \subseteq live \cup {NULL}

(* A process that runs and has no call to issue again. *)
Calls(p, feature) == state[p] = "READY" /\ again[p] = NoCall /\ feature \in setting /\ AllLive(p)

(* task_filedesc_add_to_task takes the first free place, or a new one.     *)
Added(tab, n) ==
  IF NULL \in ToSet(tab) THEN [tab EXCEPT ![SelectInSeq(tab, LAMBDA m : m = NULL)] = n]
                         ELSE Append(tab, n)

MayShare(n) == n \in End => "share" \in setting

AddFiles(p, n) ==
  /\ fds' = [fds EXCEPT ![p] = Added(@, n)] /\ Len(fds'[p]) <= MaxFd
  /\ usage_count' = [usage_count EXCEPT ![n] = @ + 1]

(* Mutant: an end that is closed is not freed. *)
CloseKeeps(S, t, st) ==
  /\ ends' = [q \in Pipe |-> ends[q] \ {e \in {"r", "w"} : <<q, e>> \in S}]
  /\ pp' = {q \in pp : ends'[q] # {}}
  /\ UNCHANGED live
  /\ state' = st

(* pipe_close of each end in S, by task t or, in a tasklet, by NULL: the   *)
(* end is unlinked and freed, whoever sleeps at the other end is resumed;  *)
(* with the second end the pipe itself is freed.  Files are not affected.  *)
(* The other processes' states were st.                                    *)
Close(S, t, st) ==
  LET shut == {n \in S \cap End : n[2] \in ends[n[1]]}
      woken == {task_w[n[1]] : n \in {m \in shut : m[2] = "r"}}
                 \cup {task_r[n[1]] : n \in {m \in shut : m[2] = "w"}}
  IN /\ ends' = [q \in Pipe |-> ends[q] \ {e \in {"r", "w"} : <<q, e>> \in shut}]
     /\ pp' = {q \in pp : ends'[q] # {}}
     /\ live' = live \ shut
     /\ state' = [p \in Proc |-> IF p \in woken \ {t} /\ st[p] = "WAITING" THEN "READY" ELSE st[p]]
-----------------------------------------------------------------------------
(* Only files that nobody has open are unlinked or truncated, but for      *)
(* setting "unlink": fno_unlink frees the node at once.                    *)
MayUnlink == linked # NULL /\ (Descriptors(linked) = {} \/ "unlink" \in setting)

OpenFound(p) ==
  /\ linked # NULL
  /\ AddFiles(p, linked)
  /\ UNCHANGED <<live, linked>>

(* A new file, in the place of the old one if O_TRUNC is given. *)
OpenCreates(p) ==
  /\ linked # NULL => MayUnlink
  /\ \E f \in File \ live :
       /\ Descriptors(f) = {}
       /\ linked' = f /\ live' = (live \ {linked}) \cup {f}
       /\ fds' = [fds EXCEPT ![p] = Added(@, f)] /\ Len(fds'[p]) <= MaxFd
       /\ usage_count' = [usage_count EXCEPT ![f] = 1]

sys_open_hdlr(p) ==
  /\ Calls(p, "open")
  /\ OpenFound(p) \/ OpenCreates(p)
  /\ UNCHANGED <<procs, pipes, stream, setting>>

sys_unlink_hdlr(p) ==
  /\ Calls(p, "open") /\ MayUnlink
  /\ live' = live \ {linked} /\ linked' = NULL
  /\ UNCHANGED <<procs, fds, usage_count, pipes, stream, setting>>

sys_pipe2_hdlr(p) ==
  /\ Calls(p, "pipe")
  /\ \E q \in Pipe \ pp :
       LET r == <<q, "r">>
           w == <<q, "w">>
       IN /\ Descriptors(r) = {} /\ Descriptors(w) = {} /\ r \notin live /\ w \notin live
          /\ live' = live \cup {r, w}
          /\ fds' = [fds EXCEPT ![p] = Added(Added(@, r), w)] /\ Len(fds'[p]) <= MaxFd
          /\ usage_count' = [usage_count EXCEPT ![r] = 1, ![w] = 1]
          /\ ends' = [ends EXCEPT ![q] = {"r", "w"}] /\ pp' = pp \cup {q}
          /\ task_r' = [task_r EXCEPT ![q] = NULL] /\ task_w' = [task_w EXCEPT ![q] = NULL]
          /\ w_off' = [w_off EXCEPT ![q] = 0] /\ cb' = [cb EXCEPT ![q] = <<>>]
          /\ base' = [base EXCEPT ![q] = 0] /\ got' = [got EXCEPT ![q] = 0]
  /\ UNCHANGED <<procs, linked, setting>>

sys_dup_hdlr(p) ==
  /\ Calls(p, "dup")
  /\ \E i \in DOMAIN fds[p] : fds[p][i] # NULL /\ MayShare(fds[p][i]) /\ AddFiles(p, fds[p][i])
  /\ UNCHANGED <<procs, live, linked, pipes, stream, setting>>

(* What was open under the new number is given up.  The file that takes    *)
(* its place is not counted.                                               *)
sys_dup2_hdlr(p) ==
  /\ Calls(p, "dup2")
  /\ \E i, j \in DOMAIN fds[p] :
       /\ i # j /\ fds[p][i] # NULL
       /\ fds' = [fds EXCEPT ![p][j] = fds[p][i]]
       /\ IF fds[p][j] = NULL THEN UNCHANGED <<usage_count, state, live, pipes>>
          ELSE /\ usage_count' = [usage_count EXCEPT ![fds[p][j]] = @ - 1]
               /\ Close({n \in {fds[p][j]} : usage_count'[n] <= 0}, p, state)
  /\ UNCHANGED <<vparent, again, linked, stream, setting>>

(* Mutant: the place in the table is not cleared. *)
DelKeeps(p, i) ==
  /\ usage_count' = [usage_count EXCEPT ![fds[p][i]] = @ - 1]
  /\ UNCHANGED fds

(* task_filedesc_del *)
Del(p, i) ==
  /\ usage_count' = [usage_count EXCEPT ![fds[p][i]] = @ - 1]
  /\ fds' = [fds EXCEPT ![p][i] = NULL]

(* The driver's close is called by sys_close, and by task_filedesc_del     *)
(* again when the count is down.  The second call frees the pipe a second  *)
(* time if both ends are closed, and a double free ends the process.       *)
FreedTwice(n) == n \in End /\ usage_count[n] <= 1 /\ ends[n[1]] \subseteq {n[2]}

sys_close_hdlr(p, i) ==
  /\ Calls(p, "open") \/ Calls(p, "pipe")
  /\ i \in DOMAIN fds[p] /\ fds[p][i] # NULL
  /\ Close({fds[p][i]}, p, IF FreedTwice(fds[p][i]) THEN [state EXCEPT ![p] = "ZOMBIE"] ELSE state)
  /\ Del(p, i)
  /\ UNCHANGED <<vparent, again, linked, stream, setting>>
-----------------------------------------------------------------------------
(* Mutant: the child's descriptors are not counted. *)
InheritedUncounted(p) == usage_count

(* Each descriptor of the child is counted. *)
Inherited(p) == [n \in Node |-> usage_count[n] + Cardinality(Places(p, n))]

(* A table with a hole is not copied faithfully: the mask of an entry that *)
(* was not made is written behind the child's table.  What follows from    *)
(* that is not modelled.                                                   *)
sys_vfork_hdlr(p) ==
  /\ Calls(p, "vfork") /\ NULL \notin ToSet(fds[p])
  /\ \A n \in ToSet(fds[p]) : MayShare(n)
  /\ \E c \in Proc :
       /\ state[c] = "FREE"
       /\ state' = [state EXCEPT ![c] = "READY", ![p] = "FORKED"]
       /\ vparent' = [vparent EXCEPT ![c] = p]
       /\ fds' = [fds EXCEPT ![c] = fds[p]]
  /\ usage_count' = Inherited(p)
  /\ UNCHANGED <<again, live, linked, pipes, stream, setting>>

scheduler_exec(c) ==
  /\ state[c] = "READY" /\ again[c] = NoCall /\ vparent[c] # NULL
  /\ state' = [state EXCEPT ![vparent[c]] = "READY"]
  /\ vparent' = [vparent EXCEPT ![c] = NULL]
  /\ UNCHANGED <<again, fds, live, usage_count, linked, pipes, stream, setting>>

(* exit, or the end by a signal, also while it reads; a writer that ends   *)
(* in the middle of a write leaves w_off to the next one.                  *)
Exit(p) ==
  /\ state[p] \in {"READY", "WAITING"} /\ again[p].op # "write"
  /\ vparent[p] = NULL
  /\ state' = [state EXCEPT ![p] = "ZOMBIE"]
  /\ UNCHANGED <<vparent, again, fds, live, usage_count, linked, pipes, stream, setting>>

(* The tasklet gives up every descriptor of a process that was waited for. *)
task_destroy(p) ==
  /\ state[p] = "ZOMBIE" /\ AllLive(p)
  /\ usage_count' = [n \in Node |-> usage_count[n] - Cardinality(Places(p, n))]
  /\ Close({n \in live : Places(p, n) # {} /\ usage_count'[n] <= 0}, NULL, [state EXCEPT ![p] = "FREE"])
  /\ fds' = [fds EXCEPT ![p] = <<>>]
  /\ again' = [again EXCEPT ![p] = NoCall] /\ vparent' = [vparent EXCEPT ![p] = NULL]
  /\ UNCHANGED <<linked, stream, setting>>
-----------------------------------------------------------------------------
(* One process writes to pipes, so that there is one stream.               *)
Issues(p, call) ==
  /\ state[p] = "READY" /\ again[p] \in {NoCall, call} /\ "write" \in setting /\ AllLive(p)
  /\ call.op = "write" => p = First
  /\ call.fd \in DOMAIN fds[p]

Suspends(p, call) ==
  /\ state' = [state EXCEPT ![p] = "WAITING"] /\ again' = [again EXCEPT ![p] = call]
Answers(p) == again' = [again EXCEPT ![p] = NoCall] /\ UNCHANGED state

pipe_read(p, call, q) ==
  /\ Issues(p, call) /\ call.op = "read" /\ fds[p][call.fd] = <<q, "r">>
  /\ IF cb[q] = <<>>
       THEN /\ task_r' = [task_r EXCEPT ![q] = p]
            /\ Suspends(p, call)
            /\ UNCHANGED <<cb, got>>
       ELSE LET n == Min({call.len, Len(cb[q])}) IN
            /\ cb' = [cb EXCEPT ![q] = SubSeq(@, n + 1, Len(@))]
            /\ got' = [got EXCEPT ![q] = @ + n]
            /\ task_r' = [task_r EXCEPT ![q] = NULL]
            /\ Answers(p)
  /\ UNCHANGED <<vparent, fds, live, usage_count, linked, pipes, task_w, w_off, base, setting>>

(* Mutant: a call that is issued again starts from the beginning. *)
WrittenAnew(q, len) == 0 .. Min({PIPE_BUFSIZE - Len(cb[q]), len}) - 1

(* The bytes of a message of length len that this call writes: from w_off, *)
(* up to the least of what is free and what is left, which the loop takes  *)
(* for a place in the message.                                             *)
Written(q, len) ==
  w_off[q] .. Min({PIPE_BUFSIZE - Len(cb[q]), len - w_off[q]}) - 1

pipe_write(p, call, q) ==
  /\ Issues(p, call) /\ call.op = "write" /\ fds[p][call.fd] = <<q, "w">>
  /\ base[q] + call.len <= MaxByte
  /\ LET now == Written(q, call.len)
         done == w_off[q] + Cardinality(now)
     IN /\ cb' = [cb EXCEPT ![q] = @ \o [k \in 1..Cardinality(now) |-> base[q] + Min(now) + k]]
        /\ IF done < call.len
             THEN /\ task_w' = [task_w EXCEPT ![q] = p] /\ w_off' = [w_off EXCEPT ![q] = done]
                  /\ Suspends(p, call)
                  /\ UNCHANGED base
             ELSE /\ task_w' = [task_w EXCEPT ![q] = NULL] /\ w_off' = [w_off EXCEPT ![q] = 0]
                  /\ base' = [base EXCEPT ![q] = @ + done]
                  /\ Answers(p)
  /\ UNCHANGED <<vparent, fds, live, usage_count, linked, pipes, task_r, got, setting>>

(* A signal: the call is repeated by the program. *)
Signal(p) ==
  /\ state[p] = "WAITING"
  /\ state' = [state EXCEPT ![p] = "READY"]
  /\ UNCHANGED <<vparent, again, fds, live, usage_count, linked, pipes, stream, setting>>

Next ==
  \E p \in Proc :
    \/ sys_open_hdlr(p) \/ sys_unlink_hdlr(p) \/ sys_pipe2_hdlr(p) \/ sys_dup_hdlr(p)
    \/ sys_dup2_hdlr(p) \/ \E i \in 1..MaxFd : sys_close_hdlr(p, i)
    \/ sys_vfork_hdlr(p) \/ scheduler_exec(p) \/ Exit(p) \/ task_destroy(p) \/ Signal(p)
    \/ \E call \in Call, q \in Pipe : pipe_read(p, call, q) \/ pipe_write(p, call, q)

Spec == Init /\ [][Next]_vars
-----------------------------------------------------------------------------
(* The usage count of an allocated node is the number of descriptors that  *)
(* name it, in all processes, whatever order they open, duplicate,         *)
(* inherit, close and end in.  Not claimed for programs that call dup2,    *)
(* which takes a descriptor without counting it.                           *)
CountsExact ==
  "dup2" \notin setting =>
    \A n \in live : usage_count[n] = Cardinality(Descriptors(n))

(* No descriptor names a freed node, as long as programs do not unlink or  *)
(* truncate a file that is open, call dup2, or let two descriptors share   *)
(* the end of a pipe: each of these frees a node that is still in use.     *)
NoDangling ==
  setting \cap {"dup2", "unlink", "share"} = {} => \A p \in Proc : AllLive(p)

(* A pipe is given up with its last descriptor, close by close or all at   *)
(* once at the end of a process: an allocated end has a descriptor, and an *)
(* allocated pipe has an end.                                              *)
NothingLeaks ==
  /\ \A n \in live \cap End : Descriptors(n) # {}
  /\ \A q \in pp : ends[q] # {}

(* What a reader gets is what the writer has written, each byte once and   *)
(* in order, however a message is cut into parts, suspended, woken early,  *)
(* interrupted and repeated (pipe.c:226-245).                              *)
BytesInOrder ==
  \A q \in pp :
    /\ \A k \in DOMAIN cb[q] : cb[q][k] = got[q] + k
    /\ got[q] + Len(cb[q]) = base[q] + w_off[q]
=============================================================================
