-------------------------------- MODULE Pipe --------------------------------
(***************************************************************************)
(* One pipe: kernel/pm/ipc/pipe.cc and the byte ring of                    *)
(* kernel/include/pm/ipc/PipeBuffer.hh, used by several processes.         *)
(*                                                                         *)
(* The build has one CPU and SpinLock::acquire turns interrupts off, so    *)
(* while a process holds the pipe's _lock no other process runs: every     *)
(* action of another process has the guard lock = NoProc.  Inside the      *)
(* lock each loop iteration of read and write is a step of its own.        *)
(*                                                                         *)
(* A process in an operation holds a descriptor of the end it uses, so     *)
(* that end's pipe_file has a reference and is not closed under it; the    *)
(* exception is exit_group, whose freeproc destroys sleeping processes     *)
(* (action FreeProc).                                                      *)
(***************************************************************************)
EXTENDS Naturals, Sequences

CONSTANTS Procs,          \* processes that use the pipe
          NoProc,         \* owner of a free lock
          Bytes,          \* byte values
          NoByte,         \* no byte delivered yet
          PIPE_BUF_SIZE,  \* ring capacity, 4096 in the code
          MaxLen          \* bound on the n of one read or write call

ASSUME PipeSize == PIPE_BUF_SIZE \in Nat \ {0}
ASSUME LenBound == MaxLen \in Nat
ASSUME NoProcFresh == NoProc \notin Procs

VARIABLES buf, head, tail, size,   \* PipeBuffer: ring, indices and _size
          readOpen, writeOpen,     \* _read_is_open, _write_is_open
          deleted,                 \* "delete this" has run
          lock,                    \* owner of _lock
          pc,                      \* where each process is
          n, i,                    \* the locals of read and write, 0 outside a call
          killed,                  \* Pcb::_killed
          delivered                \* the last byte a read stored for its caller

ring == <<buf, head, tail, size>>
ends == <<readOpen, writeOpen, deleted>>
vars == <<buf, head, tail, size, readOpen, writeOpen, deleted, lock, pc, n, i,
          killed, delivered>>

Index == 0 .. PIPE_BUF_SIZE - 1

WriteStates == {"w_loop", "w_sleep", "w_woken"}
ReadStates  == {"r_wait", "r_sleep", "r_woken", "r_copy"}
LockedStates == {"w_loop", "r_wait", "r_copy"}
PcStates == {"idle", "gone"} \cup WriteStates \cup ReadStates

\* The type of the state; PipeBuffer's indices stay inside the ring and its size
\* within the capacity.
TypeOK ==
    /\ buf \in [Index -> Bytes]
    /\ head \in Index
    /\ tail \in Index
    /\ size \in 0 .. PIPE_BUF_SIZE
    /\ readOpen \in BOOLEAN
    /\ writeOpen \in BOOLEAN
    /\ deleted \in BOOLEAN
    /\ lock \in Procs \cup {NoProc}
    /\ pc \in [Procs -> PcStates]
    /\ n \in [Procs -> 0 .. MaxLen]
    /\ i \in [Procs -> 0 .. MaxLen]
    /\ killed \in [Procs -> BOOLEAN]
    /\ delivered \in Bytes \cup {NoByte}

(* Pipe() and Pipe::alloc: an empty ring with both ends open; what the     *)
(* array holds before the first push does not matter.                      *)
Init ==
    /\ buf \in [Index -> Bytes]
    /\ head = 0
    /\ tail = 0
    /\ size = 0
    /\ readOpen = TRUE
    /\ writeOpen = TRUE
    /\ deleted = FALSE
    /\ lock = NoProc
    /\ pc = [p \in Procs |-> "idle"]
    /\ n = [p \in Procs |-> 0]
    /\ i = [p \in Procs |-> 0]
    /\ killed = [p \in Procs |-> FALSE]
    /\ delivered = NoByte

-----------------------------------------------------------------------------
(* PipeBuffer *)

full  == size = PIPE_BUF_SIZE
empty == size = 0

push(b) ==
    /\ buf' = [buf EXCEPT ![tail] = b]
    /\ tail' = (tail + 1) % PIPE_BUF_SIZE
    /\ size' = size + 1
    /\ UNCHANGED head

pop ==
    /\ head' = (head + 1) % PIPE_BUF_SIZE
    /\ size' = size - 1
    /\ UNCHANGED <<buf, tail>>

(* variant: the newest slot is read *)
peek_Tail == buf[tail]

peek == buf[head]

(* ProcessManager::wakeup on &_read_sleep or &_write_sleep: every process  *)
(* asleep on the channel becomes runnable.  wakeup is the new pc function  *)
(* when the caller moves to pc value s.                                    *)
WakeReaders(p, s) ==
    [q \in Procs |-> IF q = p THEN s
                     ELSE IF pc[q] = "r_sleep" THEN "r_woken" ELSE pc[q]]

WakeWriters(p, s) ==
    [q \in Procs |-> IF q = p THEN s
                     ELSE IF pc[q] = "w_sleep" THEN "w_woken" ELSE pc[q]]

-----------------------------------------------------------------------------
(* Pipe::write and Pipe::write_in_kernel *)

WriteCall(p) ==
    /\ lock = NoProc
    /\ pc[p] = "idle"
    /\ writeOpen
    /\ lock' = p
    /\ pc' = [pc EXCEPT ![p] = "w_loop"]
    /\ \E len \in 0 .. MaxLen : n' = [n EXCEPT ![p] = len]
    /\ i' = [i EXCEPT ![p] = 0]
    /\ UNCHANGED <<ring, ends, killed, delivered>>

InWriteLoop(p) == lock = p /\ pc[p] = "w_loop" /\ i[p] < n[p]

(* the reader is gone or the caller was killed: return -1 *)
WriteFail(p) ==
    /\ InWriteLoop(p)
    /\ ~readOpen \/ killed[p]
    /\ lock' = NoProc
    /\ pc' = [pc EXCEPT ![p] = "idle"]
    /\ n' = [n EXCEPT ![p] = 0]
    /\ i' = [i EXCEPT ![p] = 0]
    /\ UNCHANGED <<ring, ends, killed, delivered>>

(* full: wake the readers, sleep on &_write_sleep and give up the lock *)
WriteFull(p) ==
    /\ InWriteLoop(p)
    /\ readOpen /\ ~killed[p]
    /\ full
    /\ pc' = WakeReaders(p, "w_sleep")
    /\ lock' = NoProc
    /\ UNCHANGED <<ring, ends, n, i, killed, delivered>>

WritePush(p) ==
    /\ InWriteLoop(p)
    /\ readOpen /\ ~killed[p]
    /\ ~full
    /\ \E b \in Bytes : push(b)
    /\ i' = [i EXCEPT ![p] = i[p] + 1]
    /\ UNCHANGED <<ends, lock, pc, n, killed, delivered>>

(* variant: the readers are not woken at the end of a write *)
WriteDone_NoWake(p) ==
    /\ lock = p
    /\ pc[p] = "w_loop"
    /\ i[p] >= n[p] \/ (readOpen /\ ~killed[p] /\ ~full)
    /\ pc' = [pc EXCEPT ![p] = "idle"]
    /\ lock' = NoProc
    /\ n' = [n EXCEPT ![p] = 0]
    /\ i' = [i EXCEPT ![p] = 0]
    /\ UNCHANGED <<ring, ends, killed, delivered>>

(* the loop is over, or copy_in failed and broke out of it *)
WriteDone(p) ==
    /\ lock = p
    /\ pc[p] = "w_loop"
    /\ i[p] >= n[p] \/ (readOpen /\ ~killed[p] /\ ~full)
    /\ pc' = WakeReaders(p, "idle")
    /\ lock' = NoProc
    /\ n' = [n EXCEPT ![p] = 0]
    /\ i' = [i EXCEPT ![p] = 0]
    /\ UNCHANGED <<ring, ends, killed, delivered>>

-----------------------------------------------------------------------------
(* Pipe::read *)

ReadCall(p) ==
    /\ lock = NoProc
    /\ pc[p] = "idle"
    /\ readOpen
    /\ lock' = p
    /\ pc' = [pc EXCEPT ![p] = "r_wait"]
    /\ \E len \in 0 .. MaxLen : n' = [n EXCEPT ![p] = len]
    /\ i' = [i EXCEPT ![p] = 0]
    /\ UNCHANGED <<ring, ends, killed, delivered>>

ReadKilled(p) ==
    /\ lock = p /\ pc[p] = "r_wait"
    /\ empty /\ writeOpen
    /\ killed[p]
    /\ lock' = NoProc
    /\ pc' = [pc EXCEPT ![p] = "idle"]
    /\ n' = [n EXCEPT ![p] = 0]
    /\ i' = [i EXCEPT ![p] = 0]
    /\ UNCHANGED <<ring, ends, killed, delivered>>

ReadEmpty(p) ==
    /\ lock = p /\ pc[p] = "r_wait"
    /\ empty /\ writeOpen
    /\ ~killed[p]
    /\ lock' = NoProc
    /\ pc' = [pc EXCEPT ![p] = "r_sleep"]
    /\ UNCHANGED <<ring, ends, n, i, killed, delivered>>

(* variant: a closed write end does not end the wait *)
ReadStart_Data(p) ==
    /\ lock = p /\ pc[p] = "r_wait"
    /\ ~empty
    /\ pc' = [pc EXCEPT ![p] = "r_copy"]
    /\ UNCHANGED <<ring, ends, lock, n, i, killed, delivered>>

ReadStart(p) ==
    /\ lock = p /\ pc[p] = "r_wait"
    /\ ~empty \/ ~writeOpen
    /\ pc' = [pc EXCEPT ![p] = "r_copy"]
    /\ UNCHANGED <<ring, ends, lock, n, i, killed, delivered>>

ReadPop(p) ==
    /\ lock = p /\ pc[p] = "r_copy"
    /\ i[p] < n[p] /\ ~empty
    /\ delivered' = peek
    /\ pop
    /\ i' = [i EXCEPT ![p] = i[p] + 1]
    /\ UNCHANGED <<ends, lock, pc, n, killed>>

ReadDone(p) ==
    /\ lock = p /\ pc[p] = "r_copy"
    /\ i[p] >= n[p] \/ empty
    /\ pc' = WakeWriters(p, "idle")
    /\ lock' = NoProc
    /\ n' = [n EXCEPT ![p] = 0]
    /\ i' = [i EXCEPT ![p] = 0]
    /\ UNCHANGED <<ring, ends, killed, delivered>>

-----------------------------------------------------------------------------
(* The tail of ProcessManager::sleep: a woken process is scheduled again   *)
(* and reacquires the lock it released.                                    *)
Resume(p) ==
    /\ lock = NoProc
    /\ pc[p] \in {"w_woken", "r_woken"}
    /\ lock' = p
    /\ pc' = [pc EXCEPT ![p] = IF pc[p] = "w_woken" THEN "w_loop" ELSE "r_wait"]
    /\ UNCHANGED <<ring, ends, n, i, killed, delivered>>

(* ProcessManager::kill: sets the flag and wakes nobody *)
Kill(p) ==
    /\ lock = NoProc
    /\ pc[p] # "gone"
    /\ ~killed[p]
    /\ killed' = [killed EXCEPT ![p] = TRUE]
    /\ UNCHANGED <<ring, ends, lock, pc, n, i, delivered>>

(* freeproc called by another process's exit_group *)
FreeProc(p) ==
    /\ lock = NoProc
    /\ pc[p] # "gone"
    /\ pc' = [pc EXCEPT ![p] = "gone"]
    /\ n' = [n EXCEPT ![p] = 0]
    /\ i' = [i EXCEPT ![p] = 0]
    /\ killed' = [killed EXCEPT ![p] = FALSE]
    /\ UNCHANGED <<ring, ends, lock, delivered>>

(* variant: the object is deleted when one end closes *)
close_Early(is_write) ==
    /\ lock = NoProc
    /\ IF is_write
       THEN /\ writeOpen
            /\ \A p \in Procs : pc[p] \notin WriteStates
            /\ writeOpen' = FALSE
            /\ pc' = WakeReaders(NoProc, "idle")
            /\ UNCHANGED readOpen
       ELSE /\ readOpen
            /\ \A p \in Procs : pc[p] \notin ReadStates
            /\ readOpen' = FALSE
            /\ pc' = WakeWriters(NoProc, "idle")
            /\ UNCHANGED writeOpen
    /\ deleted' = (~readOpen' \/ ~writeOpen')
    /\ UNCHANGED <<ring, lock, n, i, killed, delivered>>

(* Pipe::close, from ~pipe_file when the last descriptor of the end goes *)
close(is_write) ==
    /\ lock = NoProc
    /\ IF is_write
       THEN /\ writeOpen
            /\ \A p \in Procs : pc[p] \notin WriteStates
            /\ writeOpen' = FALSE
            /\ pc' = WakeReaders(NoProc, "idle")
            /\ UNCHANGED readOpen
       ELSE /\ readOpen
            /\ \A p \in Procs : pc[p] \notin ReadStates
            /\ readOpen' = FALSE
            /\ pc' = WakeWriters(NoProc, "idle")
            /\ UNCHANGED writeOpen
    /\ deleted' = (~readOpen' /\ ~writeOpen')
    /\ UNCHANGED <<ring, lock, n, i, killed, delivered>>

CloseRead == close(FALSE)
CloseWrite == close(TRUE)

write(p) == WriteCall(p) \/ WriteFail(p) \/ WriteFull(p) \/ WritePush(p) \/ WriteDone(p)
read(p)  == ReadCall(p) \/ ReadKilled(p) \/ ReadEmpty(p) \/ ReadStart(p)
            \/ ReadPop(p) \/ ReadDone(p)

(* what the scheduler keeps running: a process that is inside a call *)
Step(p) ==
    \/ WriteFail(p) \/ WriteFull(p) \/ WritePush(p) \/ WriteDone(p)
    \/ ReadKilled(p) \/ ReadEmpty(p) \/ ReadStart(p) \/ ReadPop(p) \/ ReadDone(p)

Next ==
    \/ \E p \in Procs : write(p) \/ read(p) \/ Resume(p) \/ Kill(p) \/ FreeProc(p)
    \/ CloseRead
    \/ CloseWrite

Spec == Init /\ [][Next]_vars

(* The scheduler runs what is runnable: a process inside the lock cannot   *)
(* be preempted (interrupts are off) and finishes; a woken process is      *)
(* picked by the scan of the process pool, which happens again and again   *)
(* with the lock free, hence strong fairness.  Nothing is assumed about    *)
(* processes calling read, write or close.                                 *)
Fairness == \A p \in Procs : WF_vars(Step(p)) /\ SF_vars(Resume(p))

LiveSpec == Spec /\ Fairness

-----------------------------------------------------------------------------
(* Properties *)

(* PipeBuffer's three counters agree: tail is size slots after head,       *)
(* around the ring (PipeBuffer::push and pop).                             *)
RingOK == tail = (head + size) % PIPE_BUF_SIZE

(* _lock is held exactly by the process inside a locked region; sleep()    *)
(* and every return of read and write give it up.                          *)
LockOK == \A p \in Procs : (lock = p) <=> (pc[p] \in LockedStates)

(* No lost wakeup: whenever the lock is free, a sleeping reader sees an    *)
(* empty pipe whose write end is open and a sleeping writer a full pipe    *)
(* whose read end is open; whoever changed that has woken them             *)
(* (pipe.cc: the wakeup calls of write, read and close).                   *)
NoLostWakeup ==
    lock = NoProc =>
        \A p \in Procs :
            /\ pc[p] = "r_sleep" => empty /\ writeOpen
            /\ pc[p] = "w_sleep" => full /\ readOpen

(* "delete this" in Pipe::close runs only when no live process is inside   *)
(* an operation on the pipe: nobody wakes up inside a freed object.        *)
NoUseAfterDelete ==
    deleted => \A p \in Procs : pc[p] \in {"idle", "gone"}

(* What makes NoLostWakeup inductive: inside the lock the condition a      *)
(* sleeper waits for may already hold, but then the lock's owner is on a   *)
(* path that ends in the wakeup call.                                      *)
SleeperOK(p) ==
    /\ pc[p] = "r_sleep" =>
          /\ writeOpen
          /\ \/ empty
             \/ \E q \in Procs : /\ lock = q
                                 /\ pc[q] = "w_loop"
                                 /\ readOpen
                                 /\ ~killed[q]
    /\ pc[p] = "w_sleep" =>
          /\ readOpen
          /\ \/ full
             \/ \E q \in Procs : lock = q /\ pc[q] = "r_copy"

WakePending == \A p \in Procs : SleeperOK(p)

(* A closed end has no user, and the object is deleted exactly when both   *)
(* ends are closed.                                                        *)
EndsOK ==
    /\ deleted <=> (~readOpen /\ ~writeOpen)
    /\ ~readOpen => \A p \in Procs : pc[p] \notin ReadStates
    /\ ~writeOpen => \A p \in Procs : pc[p] \notin WriteStates

(* The inductive invariant of PipeProofs. *)
IInv == TypeOK /\ RingOK /\ LockOK /\ WakePending /\ EndsOK

(* A reader blocked when the last writer closes its end returns (end of    *)
(* file), unless its process is destroyed.                                 *)
EofReturns ==
    \A p \in Procs :
        (pc[p] \in ReadStates /\ ~writeOpen) ~> (pc[p] \in {"idle", "gone"})

(* A writer blocked on a full pipe when the last reader closes its end     *)
(* returns (with -1), unless its process is destroyed.                     *)
BrokenPipeReturns ==
    \A p \in Procs :
        (pc[p] \in WriteStates /\ ~readOpen) ~> (pc[p] \in {"idle", "gone"})

(* The bytes between head and tail, oldest first. *)
Contents == [k \in 1 .. size |-> buf[(head + k - 1) % PIPE_BUF_SIZE]]

(* Whoever is blocked when the other end is closed returns.                *)
ClosedReturns == EofReturns /\ BrokenPipeReturns

Fifo == INSTANCE PipeFifo WITH queue <- Contents

(* The pipe implements the abstract queue of PipeFifo: bytes come out      *)
(* once, in the order they went in, across any interleaving and any        *)
(* number of wraps of the ring.                                            *)
FifoSpec == Fifo!Spec
=============================================================================
