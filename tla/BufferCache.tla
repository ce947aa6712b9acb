---------------------------- MODULE BufferCache ----------------------------
(***************************************************************************)
(* BufferManager (kernel/fs/buffer_manager.cc), for one BufferBlock and    *)
(* one device: read_sync, dirt_buffer and release_buffer_sync.             *)
(*                                                                         *)
(* _lock is a spin lock, which turns interrupts off on the one CPU, so     *)
(* _get_buffer is atomic up to the places where it releases _lock to wait  *)
(* for the disk.  Meanwhile other processes run.  The disk is the          *)
(* BlockDevice: an operation takes effect at its end.                      *)
(***************************************************************************)
EXTENDS Integers, Sequences, FiniteSets, FiniteSetsExt

CONSTANTS Procs, Tags, Values,
          Count,           \* _current_buffer_counts
          Loads            \* who reads, and who also changes what it reads:
                           \* [readers, writers]

ASSUME CountAssumption == Count \in Nat \ {0}

\* The processes are finitely many; and where one writes nobody else reads,
\* for _get_buffer lets a second process take the victim that is being
\* written back.
ASSUME LoadAssumption ==
  /\ IsFiniteSet(Procs)
  /\ \A l \in Loads : l.writers = {} \/ \E p \in Procs : l.readers = {p}

VARIABLES buf,     \* per buffer: tag, ref, valid, dirty, own (disk_own), data
          lru,     \* the list from _node_head, most recent first
          pc,      \* idle, writing (back a victim), reading, holding
          call,    \* tag asked for, index of the buffer, tag written back
          disk,    \* what the disk holds
          last,    \* the value last written through the cache
          panic,   \* the assertion that stopped the kernel, or no
          load     \* the member of Loads that describes the run; never changes

vars == <<buf, lru, pc, call, disk, last, panic, load>>

Buffers == 1 .. Count
NoTag   == 0               \* ~0, which no LBA has
ASSUME TagAssumption == NoTag \notin Tags
NoCall  == [tag |-> NoTag, at |-> 0, old |-> NoTag]

Runs(p) == panic = "no" /\ p \in load.readers

\* search_buffer, and alloc_buffer from the far end of the list
search(t) == {i \in Buffers : buf[i].tag = t}

unused == {k \in 1 .. Count : buf[lru[k]].ref = 0}
alloc_buffer == lru[Max(unused)]

Panic(why) == panic' = why /\ UNCHANGED <<buf, lru, pc, call, disk, last>>

\* The buffer given to tag t
(* variant: keeps the valid bit *)
install_Valid(b, t) == [b EXCEPT !.tag = t, !.ref = 1, !.dirty = 0, !.own = 0]
install(b, t) == [b EXCEPT !.tag = t, !.ref = 1, !.valid = 0, !.dirty = 0, !.own = 0]

\* The second half of _get_buffer: buffer i, now b, is read unless it is
\* valid, and the disk owns it meanwhile.
Ready(p, i, t, b) ==
  /\ buf' = [buf EXCEPT ![i] = [b EXCEPT !.own = 1 - b.valid]]
  /\ pc' = [pc EXCEPT ![p] = IF b.valid = 1 THEN "holding" ELSE "reading"]
  /\ call' = [call EXCEPT ![p] = [tag |-> t, at |-> i, old |-> NoTag]]

\* _get_buffer up to its first wait
Hit(p, t) == \E i \in search(t) :
  \/ buf[i].own = 1 /\ Panic("disk occupies this buffer")
  \/ /\ buf[i].own = 0
     /\ Ready(p, i, t, [buf[i] EXCEPT !.ref = @ + 1])
     /\ UNCHANGED <<lru, disk, last, panic>>

Miss(p, t) ==
  /\ search(t) = {}
  /\ \/ unused = {} /\ Panic("try to get buffer fail")
     \/ /\ unused # {}
        /\ LET i == alloc_buffer
           IN IF buf[i].dirty = 1
              THEN /\ buf' = [buf EXCEPT ![i].own = 1]
                   /\ pc' = [pc EXCEPT ![p] = "writing"]
                   /\ call' = [call EXCEPT ![p] = [tag |-> t, at |-> i, old |-> buf[i].tag]]
              ELSE Ready(p, i, t, install(buf[i], t))
        /\ UNCHANGED <<lru, disk, last, panic>>

read_sync(p, t) == Runs(p) /\ pc[p] = "idle" /\ (Hit(p, t) \/ Miss(p, t))

\* write_blocks_sync of the victim is done
(* variant: written where the new data will come from *)
WriteDone_New(p) ==
  /\ Runs(p) /\ pc[p] = "writing"
  /\ disk' = [disk EXCEPT ![call[p].tag] = buf[call[p].at].data]
  /\ Ready(p, call[p].at, call[p].tag, install(buf[call[p].at], call[p].tag))
  /\ UNCHANGED <<lru, last, panic>>

WriteDone(p) ==
  /\ Runs(p) /\ pc[p] = "writing"
  /\ disk' = [disk EXCEPT ![call[p].old] = buf[call[p].at].data]
  /\ Ready(p, call[p].at, call[p].tag, install(buf[call[p].at], call[p].tag))
  /\ UNCHANGED <<lru, last, panic>>

\* read_blocks_sync is done: read_sync returns
ReadDone(p) ==
  /\ Runs(p) /\ pc[p] = "reading"
  /\ buf' = [buf EXCEPT ![call[p].at].data = disk[call[p].tag],
                        ![call[p].at].own = 0, ![call[p].at].valid = 1]
  /\ pc' = [pc EXCEPT ![p] = "holding"]
  /\ UNCHANGED <<lru, call, disk, last, panic>>

\* A writer changes the data and calls dirt_buffer.
dirt_buffer(p, v) ==
  /\ Runs(p) /\ p \in load.writers /\ pc[p] = "holding"
  /\ buf' = [buf EXCEPT ![call[p].at].data = v, ![call[p].at].dirty = 1]
  /\ last' = [last EXCEPT ![call[p].tag] = v]
  /\ UNCHANGED <<lru, pc, call, disk, panic>>

\* release_buffer_sync: the last user moves the buffer to the front.
Position(l, i) == CHOOSE k \in 1 .. Len(l) : l[k] = i
front(l, i) == [k \in 1 .. Len(l) |-> IF k = 1 THEN i
                                     ELSE IF k <= Position(l, i) THEN l[k - 1] ELSE l[k]]

(* variant: one of several users stays counted *)
dropped_Sticky(n) == IF n > 1 THEN n ELSE n - 1
dropped(n) == n - 1

release_buffer_sync(p) ==
  LET i == call[p].at
  IN /\ Runs(p) /\ pc[p] = "holding"
     /\ buf' = [buf EXCEPT ![i].ref = dropped(@)]
     /\ lru' = IF buf'[i].ref = 0 THEN front(lru, i) ELSE lru
     /\ pc' = [pc EXCEPT ![p] = "idle"]
     /\ call' = [call EXCEPT ![p] = NoCall]
     /\ UNCHANGED <<disk, last, panic>>

Init ==
  /\ buf = [i \in Buffers |-> [tag |-> NoTag, ref |-> 0, valid |-> 0, dirty |-> 0, own |-> 0, data |-> 0]]
  /\ lru = [i \in Buffers |-> Count + 1 - i]
  /\ pc = [p \in Procs |-> "idle"]
  /\ call = [p \in Procs |-> NoCall]
  /\ disk \in [Tags -> Values]
  /\ last = disk
  /\ panic = "no"
  /\ load \in Loads

Next == /\ UNCHANGED load
        /\ \E p \in Procs : \/ \E t \in Tags : read_sync(p, t)
                           \/ WriteDone(p) \/ ReadDone(p)
                           \/ \E v \in Values : dirt_buffer(p, v)
                           \/ release_buffer_sync(p)

Spec == Init /\ [][Next]_vars

----------------------------------------------------------------------------
Users(i) == {p \in Procs : pc[p] \in {"reading", "holding"} /\ call[p].at = i}

BufType  == [tag : Tags \cup {NoTag}, ref : 0 .. Cardinality(Procs), valid : {0, 1}, dirty : {0, 1},
             own : {0, 1}, data : Values \cup {0}]
CallType == [tag : Tags \cup {NoTag}, at : 0 .. Count, old : Tags \cup {NoTag}]

\* The type of the state; the list of nodes always holds every buffer once.
TypeOK ==
  /\ buf \in [Buffers -> BufType]
  /\ Len(lru) = Count /\ Range(lru) = Buffers
  /\ pc \in [Procs -> {"idle", "writing", "reading", "holding"}]
  /\ call \in [Procs -> CallType]
  /\ disk \in [Tags -> Values] /\ last \in [Tags -> Values]

\* _ref_cnt counts the processes that use the buffer, however hits, misses
\* and releases interleave with the waits for the disk; so with as many
\* buffers as processes alloc_buffer always finds one.
RefsCount ==
  /\ TypeOK
  /\ \A i \in Buffers : buf[i].ref = Cardinality(Users(i))
  /\ panic # "try to get buffer fail"

\* A process that holds a buffer holds the sector it asked for: the tag is
\* its own, the data is valid and what was last written there.  No sector is
\* in two buffers, so holders of one sector share what they see.
HeldRight ==
  /\ \A i, j \in Buffers : buf[i].tag = buf[j].tag /\ buf[i].tag # NoTag => i = j
  /\ \A p \in Procs : pc[p] = "holding" =>
       LET b == buf[call[p].at]
       IN b.tag = call[p].tag /\ b.valid = 1 /\ b.own = 0 /\ b.data = last[call[p].tag]

\* What was written is not lost: it is in a buffer, or on the disk.
Durable ==
  \A t \in Tags : \/ disk[t] = last[t]
                  \/ \E i \in Buffers : buf[i].tag = t /\ buf[i].dirty = 1 /\ buf[i].data = last[t]
=============================================================================
