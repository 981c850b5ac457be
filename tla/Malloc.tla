------------------------------- MODULE Malloc -------------------------------
(***************************************************************************)
(* The heap allocator of kernel/malloc.c on the pool of the processes      *)
(* (MEM_USER): a list of blocks, each a header and its data, that grows at *)
(* the end of the pool.  System calls run one at a time, so a call is one  *)
(* action.  Addresses and sizes are in words, from the start of the pool.  *)
(*                                                                         *)
(* A header that left the list is forgotten.  The code keeps reading such  *)
(* headers only once the list is damaged, where these models stop.         *)
(***************************************************************************)
EXTENDS Integers

CONSTANTS Pids,      \* processes
          Sizes,     \* sizes asked for
          Header,    \* sizeof(struct f_malloc_block), 6 words
          PoolEnd    \* heap_limit_user

ASSUME HeaderAssumption == Header \in Nat \ {0}
ASSUME PoolEndAssumption == PoolEnd \in Nat
ASSUME SizesAssumption == Sizes \subseteq Nat \ {0}

VARIABLES block,     \* the headers, by address; malloc_entry is address 0
          end,       \* heap_end_user
          charged,   \* a call for this pool lowered heap_end_kernel
          held,      \* what processes were given and have not given back
          midSplit   \* a block that had a successor was split

vars == <<block, end, charged, held, midSplit>>

NULL == -1
Kernel == 0
Addresses == 0..PoolEnd

Headers == [prev : Addresses \cup {NULL}, next : Addresses \cup {NULL},
            size : Nat, used : BOOLEAN, pool : {"user", "kernel"}, pid : Pids \cup {Kernel}]

TypeOK ==
  /\ DOMAIN block \subseteq Addresses
  /\ \A b \in DOMAIN block : block[b] \in Headers
  /\ end \in Addresses
  /\ charged \in BOOLEAN
  /\ held \subseteq [at : Addresses, size : Sizes, pid : Pids]
  /\ midSplit \in BOOLEAN

Init ==
  /\ block = <<>>
  /\ end = 0
  /\ charged = FALSE
  /\ held = {}
  /\ midSplit = FALSE
-----------------------------------------------------------------------------
(* A heap is a record of the first three variables, as a call finds or     *)
(* leaves them.                                                            *)
Heap == [block |-> block, end |-> end, charged |-> charged]

(* The blocks of the list, from the first one on. *)
Listed(h) ==
  LET from[b \in DOMAIN h.block] ==
        {b} \cup (IF h.block[b].next \in DOMAIN h.block THEN from[h.block[b].next] ELSE {}) IN
  IF 0 \in DOMAIN h.block THEN from[0] ELSE {}

Last(h) ==
  IF Listed(h) = {} THEN NULL ELSE CHOOSE b \in Listed(h) : h.block[b].next = NULL

merge_blocks(h, first, second) ==
  LET b == h.block[second] IN
  [h EXCEPT !.block = [c \in DOMAIN h.block \ {second} |->
     CASE c = first -> [h.block[c] EXCEPT !.size = @ + Header + b.size, !.next = b.next]
       [] c = b.next -> [h.block[c] EXCEPT !.prev = first]
       [] OTHER -> h.block[c]]]

(* The block after the new free one keeps its prev, and the free one has   *)
(* the flags of the kernel's pool.                                         *)
split_block(h, b, size) ==
  LET free == b + Header + size IN
  [h EXCEPT !.block = [c \in DOMAIN h.block \cup {free} |->
     CASE c = b -> [h.block[b] EXCEPT !.size = size, !.next = free]
       [] c = free -> [prev |-> b, next |-> h.block[b].next,
                       size |-> h.block[b].size - Header - size,
                       used |-> FALSE, pool |-> "kernel", pid |-> Kernel]
       [] OTHER -> h.block[c]]]

(* Mutant: blocks in use count too. *)
FitsUsed(h, size) == {b \in Listed(h) : size <= h.block[b].size}

block_fits(h, size) == {b \in Listed(h) : ~h.block[b].used /\ size <= h.block[b].size}

(* The first of the smallest blocks that fit. *)
BestFit(h, size) ==
  LET fits == block_fits(h, size) IN
  CHOOSE b \in fits : \A c \in fits : h.block[b].size < h.block[c].size
                                      \/ (h.block[b].size = h.block[c].size /\ b <= c)

MuchBigger(h, b, size) == 2 * (size + Header) < h.block[b].size

(* The list without its last block. *)
Cut(h, b) ==
  [h EXCEPT !.block = [c \in DOMAIN h.block \ {b} |->
     IF c = h.block[b].prev THEN [h.block[c] EXCEPT !.next = NULL] ELSE h.block[c]]]

(* Mutant: the header's room is not given back. *)
compact_data_only(h, b) ==
  IF h.block[b].prev = NULL THEN h ELSE [Cut(h, b) EXCEPT !.end = @ - h.block[b].size]

(* Cut the last block off and give its room back, to the pool its flags    *)
(* name.  With F_IN_USE in them, they name the kernel's.                   *)
f_compact(h, b) ==
  IF h.block[b].prev = NULL THEN h
  ELSE IF h.block[b].pool = "user" /\ ~h.block[b].used
  THEN [Cut(h, b) EXCEPT !.end = @ - h.block[b].size - Header]
  ELSE [Cut(h, b) EXCEPT !.charged = TRUE]

blk_rearrange(h, b) ==
  LET before == h.block[b].prev
      back == before # NULL /\ ~h.block[before].used
      c == IF back THEN before ELSE b
      g == IF back THEN merge_blocks(h, before, b) ELSE h
      after == g.block[c].next
      k == IF after # NULL /\ ~g.block[after].used THEN merge_blocks(g, c, after) ELSE g IN
  IF k.block[c].next = NULL THEN f_compact(k, c) ELSE k

(* f_free, of each of a set of blocks. *)
f_free(h, freed) ==
  [h EXCEPT !.block = [c \in DOMAIN h.block |->
     IF c \in freed THEN [h.block[c] EXCEPT !.used = FALSE] ELSE h.block[c]]]

(* f_sbrk: the limit itself is not reached. *)
CanGrow(h, size) == h.end + size + Header < PoolEnd

Appended(h, size) ==
  LET last == Last(h) IN
  [h EXCEPT !.end = @ + size + Header,
            !.block = [c \in DOMAIN h.block \cup {h.end} |->
               CASE c = h.end -> [prev |-> last, next |-> NULL, size |-> size,
                                  used |-> FALSE, pool |-> "user", pid |-> Kernel]
                 [] c = last -> [h.block[c] EXCEPT !.next = h.end]
                 [] OTHER -> h.block[c]]]

Taken(h, b, p) == [h EXCEPT !.block[b] = [@ EXCEPT !.used = TRUE, !.pool = "user", !.pid = p]]

(* f_malloc(MEM_USER, size) called by process p: the block given, or NULL. *)
f_malloc(h, size, p) ==
  IF block_fits(h, size) # {}
  THEN LET b == BestFit(h, size)
           split == MuchBigger(h, b, size)
           g == IF split THEN split_block(h, b, size) ELSE h IN
       [heap |-> Taken(g, b, p), at |-> b, split |-> split /\ h.block[b].next # NULL]
  ELSE IF CanGrow(h, size)
  THEN [heap |-> Taken(Appended(h, size), h.end, p), at |-> h.end, split |-> FALSE]
  ELSE [heap |-> h, at |-> NULL, split |-> FALSE]
-----------------------------------------------------------------------------
SetHeap(h) ==
  /\ block' = h.block
  /\ end' = h.end
  /\ charged' = h.charged

sys_malloc_hdlr(p, size) ==
  LET m == f_malloc(Heap, size, p) IN
  /\ SetHeap(m.heap)
  /\ held' = IF m.at = NULL THEN held ELSE held \cup {[at |-> m.at, size |-> size, pid |-> p]}
  /\ midSplit' = (midSplit \/ m.split)

sys_free_hdlr(p) ==
  \E x \in held :
    /\ x.pid = p
    /\ SetHeap(blk_rearrange(f_free(Heap, {x.at}), x.at))
    /\ held' = held \ {x}
    /\ UNCHANGED midSplit

(* A block that is large enough is kept; size 0 is asked by sys_free_hdlr. *)
sys_realloc_hdlr(p, size) ==
  \E x \in held :
    /\ x.pid = p
    /\ IF size <= block[x.at].size
       THEN /\ held' = (held \ {x}) \cup {[x EXCEPT !.size = size]}
            /\ UNCHANGED <<block, end, charged, midSplit>>
       ELSE LET m == f_malloc(Heap, size, p) IN
            IF m.at = NULL
            THEN UNCHANGED vars
            ELSE /\ SetHeap(blk_rearrange(f_free(m.heap, {x.at}), x.at))
                 /\ held' = (held \ {x}) \cup {[at |-> m.at, size |-> size, pid |-> p]}
                 /\ midSplit' = (midSplit \/ m.split)

(* One turn of f_proc_heap_free_pool's loop.  It calls f_free with the     *)
(* address of the header, where no header ends, so the block stays in use. *)
FreeOf(h, b, p) ==
  IF b \in DOMAIN h.block /\ h.block[b].used /\ h.block[b].pid = p THEN blk_rearrange(h, b) ELSE h

(* The loop, along the blocks the list had: they are listed by address.    *)
f_proc_heap_free(h, p) ==
  LET list == Listed(h)
      upto[a \in 0..PoolEnd] ==
        IF a = 0 THEN h
        ELSE IF a - 1 \in list THEN FreeOf(upto[a - 1], a - 1, p) ELSE upto[a - 1] IN
  upto[PoolEnd]

(* The end of process p, task_destroy: its arguments and its program's     *)
(* image are freed, without rearranging, and then all that it holds.       *)
task_destroy(p) ==
  \E image \in SUBSET {x \in held : x.pid = p} :
    /\ SetHeap(f_proc_heap_free(f_free(Heap, {x.at : x \in image}), p))
    /\ held' = {x \in held : x.pid # p}
    /\ UNCHANGED midSplit

Next ==
  \E p \in Pids :
    \/ \E size \in Sizes : sys_malloc_hdlr(p, size) \/ sys_realloc_hdlr(p, size)
    \/ sys_free_hdlr(p)
    \/ task_destroy(p)

Spec == Init /\ [][Next]_vars
-----------------------------------------------------------------------------
(* What the list suffered: a split in its middle leaves the next block's   *)
(* prev behind, and a compaction may charge the kernel's pool.             *)
Sound == ~midSplit /\ ~charged

Adjacent(b) ==
  /\ block[b].next # NULL => block[b].next = b + Header + block[b].size
  /\ block[b].prev # NULL => block[b].prev \in DOMAIN block /\ block[block[b].prev].next = b

(* "Consecutive blocks are always adjacent" (malloc.c:538): blk_rearrange  *)
(* merges a block with the one its prev or its next names, and that must   *)
(* be the one beside it in memory.                                         *)
AlwaysAdjacent == \A b \in Listed(Heap) : Adjacent(b)

(* Until the list is damaged in one of the two ways above, the blocks tile *)
(* the pool from its start to heap_end_user whatever is merged, cut off,   *)
(* split at the end or left behind by a process: no room is ever lost      *)
(* between two blocks or counted twice.                                    *)
Tiled ==
  Sound =>
    /\ AlwaysAdjacent
    /\ Listed(Heap) = DOMAIN block
    /\ \A b \in DOMAIN block : block[b].next = NULL => b + Header + block[b].size = end

Data(x) == x.at + Header .. x.at + Header + x.size - 1

(* Until then, what two processes were given never overlaps, lies below    *)
(* heap_end_user, and belongs to a block in use that is at least as large  *)
(* as what was asked for and no process but the owner can free.            *)
NeverShared ==
  Sound =>
    /\ \A x, y \in held : x # y => Data(x) \cap Data(y) = {}
    /\ \A x \in held :
         /\ Data(x) \subseteq 0..end - 1
         /\ x.at \in DOMAIN block
         /\ block[x.at].used /\ block[x.at].pid = x.pid /\ block[x.at].size >= x.size
=============================================================================
