------------------------------ MODULE Ext4Pool ------------------------------
(***************************************************************************)
(* Ext4BufferPool (kernel/fs/ext4/ext4_buffer.cc): the cache of ext4       *)
(* blocks.  A process asks for a pinned block, uses it and unpins it, as   *)
(* the callers in ext4_inode.cc and ext4_fs.cc do; it may hold one block   *)
(* while it asks for the next.                                             *)
(*                                                                         *)
(* _search_buffer walks the list without the lock, so each node is a step; *)
(* request_block gives the lock up around the read of every sector.  What  *)
(* remains runs under the lock, with interrupts off on the one CPU, and is *)
(* atomic.                                                                 *)
(***************************************************************************)
EXTENDS Integers, Sequences, FiniteSets, FiniteSetsExt

CONSTANTS Procs, Blocks,
          Count,           \* ext4_buffer_pool_default_count
          NumSector,       \* _block_size / 512
          MaxHeld          \* blocks a process holds at once

ASSUME PoolAssumption == Count \in Nat \ {0} /\ NumSector \in Nat \ {0}

VARIABLES buf,     \* per buffer: block, valid, pinned, data (the block of each sector)
          list,    \* from _list_head, most recent first
          pc,      \* idle, search, enter, fill
          call,    \* block asked for, node p or pbuf, sector i
          held,    \* the buffers each process has and has not unpinned
          apart    \* history: 1 while no two calls overlap and no block is
                   \* requested that another process holds

vars == <<buf, list, pc, call, held, apart>>

Buffers == 1 .. Count
NoBlock == 0                 \* -1
ListHead == 0                 \* _list_head, and nullptr as the result of a search
NoCall  == [block |-> NoBlock, at |-> ListHead, i |-> 0]

Position(l, n) == CHOOSE k \in 1 .. Len(l) : l[k] = n
NextNode(n) == IF Position(list, n) = Count THEN ListHead ELSE list[Position(list, n) + 1]

\* request_block, up to the walk of _search_buffer
request_block(p, b) ==
  /\ pc[p] = "idle" /\ Cardinality(held[p]) < MaxHeld
  /\ \A h \in held[p] : h.block # b
  /\ pc' = [pc EXCEPT ![p] = "search"]
  /\ call' = [call EXCEPT ![p] = [block |-> b, at |-> list[1], i |-> 0]]
  /\ apart' = IF \E q \in Procs \ {p} : pc[q] # "idle" \/ \E h \in held[q] : h.block = b
              THEN 0 ELSE apart
  /\ UNCHANGED <<buf, list, held>>

\* One node of _search_buffer
(* variant: does not look at the valid bit or the number *)
matches_Any(n, b) == buf[n].valid = 1
matches(n, b) == buf[n].valid = 1 /\ buf[n].block = b

_search_buffer(p) ==
  LET n == call[p].at
  IN /\ pc[p] = "search"
     /\ \/ /\ n # ListHead => matches(n, call[p].block)
           /\ pc' = [pc EXCEPT ![p] = "enter"]
           /\ UNCHANGED call
        \/ /\ n # ListHead /\ ~matches(n, call[p].block)
           /\ call' = [call EXCEPT ![p].at = NextNode(n)]
           /\ UNCHANGED pc
     /\ UNCHANGED <<buf, list, held, apart>>

\* The walk from the far end stops at the first buffer that is not pinned.
unpinned == {k \in 1 .. Count : buf[list[k]].pinned = 0}
_alloc_buffer == list[Max(unpinned)]

\* The end of request_block: _remove, _insert_front, pin
(* variant: without _remove *)
used_Twice(l, n) == <<n>> \o l
used(l, n) == [k \in 1 .. Len(l) |-> IF k = 1 THEN n
                                    ELSE IF k <= Position(l, n) THEN l[k - 1] ELSE l[k]]

Return(p, n, b) ==
  /\ list' = used(list, n)
  /\ held' = [held EXCEPT ![p] = @ \cup {[at |-> n, block |-> b]}]
  /\ pc' = [pc EXCEPT ![p] = "idle"]
  /\ call' = [call EXCEPT ![p] = NoCall]

\* Under the lock, after the search
Enter(p) ==
  /\ pc[p] = "enter" /\ UNCHANGED apart
  /\ \/ /\ call[p].at # ListHead
        /\ buf' = [buf EXCEPT ![call[p].at].pinned = 1]
        /\ Return(p, call[p].at, call[p].block)
     \/ /\ call[p].at = ListHead /\ unpinned = {}          \* returns nullptr
        /\ pc' = [pc EXCEPT ![p] = "idle"]
        /\ call' = [call EXCEPT ![p] = NoCall]
        /\ UNCHANGED <<buf, list, held>>
     \/ /\ call[p].at = ListHead /\ unpinned # {}
        /\ pc' = [pc EXCEPT ![p] = "fill"]
        /\ call' = [call EXCEPT ![p].at = _alloc_buffer, ![p].i = 1]
        /\ UNCHANGED <<buf, list, held>>

\* The buffer after its last sector
(* variant: pins on a hit only *)
filled_NoPin(b, c) == [b EXCEPT !.data[c.i] = c.block, !.valid = 1, !.block = c.block]
filled(b, c) == [b EXCEPT !.data[c.i] = c.block, !.valid = 1, !.block = c.block, !.pinned = 1]

\* One sector is read and copied; the last one ends the call.
Fill(p) ==
  LET c == call[p]
  IN /\ pc[p] = "fill" /\ UNCHANGED apart
     /\ \/ /\ c.i < NumSector
           /\ buf' = [buf EXCEPT ![c.at].data[c.i] = c.block]
           /\ call' = [call EXCEPT ![p].i = @ + 1]
           /\ UNCHANGED <<list, pc, held>>
        \/ /\ c.i = NumSector
           /\ buf' = [buf EXCEPT ![c.at] = filled(@, c)]
           /\ Return(p, c.at, c.block)

unpin(p, h) ==
  /\ pc[p] = "idle" /\ h \in held[p]
  /\ buf' = [buf EXCEPT ![h.at].pinned = 0]
  /\ held' = [held EXCEPT ![p] = @ \ {h}]
  /\ UNCHANGED <<list, pc, call, apart>>

Init ==
  /\ buf = [n \in Buffers |-> [block |-> NoBlock, valid |-> 0, pinned |-> 0,
                               data |-> [i \in 1 .. NumSector |-> NoBlock]]]
  /\ list = [n \in Buffers |-> Count + 1 - n]
  /\ pc = [p \in Procs |-> "idle"]
  /\ call = [p \in Procs |-> NoCall]
  /\ held = [p \in Procs |-> {}]
  /\ apart = 1

Next == \E p \in Procs :
  \/ \E b \in Blocks : request_block(p, b)
  \/ _search_buffer(p) \/ Enter(p) \/ Fill(p)
  \/ \E h \in held[p] : unpin(p, h)

Spec == Init /\ [][Next]_vars

----------------------------------------------------------------------------
\* A buffer, a call under way, and a block held
BufType  == [block : Blocks \cup {NoBlock}, valid : {0, 1}, pinned : {0, 1},
             data : [1 .. NumSector -> Blocks \cup {NoBlock}]]
CallType == [block : Blocks \cup {NoBlock}, at : Buffers \cup {ListHead}, i : 0 .. NumSector]
HoldType == [at : Buffers, block : Blocks]

\* The type of the state.
TypeOK ==
  /\ buf \in [Buffers -> BufType]
  /\ pc \in [Procs -> {"idle", "search", "enter", "fill"}]
  /\ call \in [Procs -> CallType]
  /\ held \in [Procs -> SUBSET HoldType]
  /\ apart \in {0, 1}

\* Every buffer is in the list once, whatever calls of request_block overlap:
\* _remove and _insert_front of a node that another call moved meanwhile, or
\* an unlocked search that stands on it, lose none.
ListWhole == TypeOK /\ Len(list) = Count /\ Range(list) = Buffers

\* The sectors a process has a pointer to are all of the block it asked for,
\* and no block is cached twice, while calls of request_block come one after
\* the other.
HeldWhole == apart = 1 =>
  /\ \A m, n \in Buffers : buf[m].valid = 1 /\ buf[n].valid = 1 /\ buf[m].block = buf[n].block => m = n
  /\ \A p \in Procs : \A h \in held[p] : \A i \in 1 .. NumSector : buf[h.at].data[i] = h.block

\* A buffer some process has pinned and not unpinned is pinned, whatever
\* others release, while no two processes hold one block.
PinHolds == apart = 1 => \A p \in Procs : \A h \in held[p] : buf[h.at].pinned = 1
=============================================================================
