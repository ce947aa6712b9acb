----------------------------- MODULE PipeProofs -----------------------------
(***************************************************************************)
(* Machine-checked proofs about Pipe, for every set of processes, every    *)
(* byte set and every capacity.                                            *)
(***************************************************************************)
EXTENDS Pipe, Integers, SequenceTheorems, TLAPS

(* What % does to an index that has passed the end of the ring at most     *)
(* once: PipeBuffer's (tail + 1) % PIPE_BUF_SIZE.                          *)
Wrap(a) == IF a < PIPE_BUF_SIZE THEN a ELSE a - PIPE_BUF_SIZE

\* An index of the ring that has passed its end at most once.
LEMMA RingMod ==
    ASSUME NEW a \in 0 .. 2 * PIPE_BUF_SIZE - 1
    PROVE  a % PIPE_BUF_SIZE = Wrap(a)
<1> USE PipeSize
<1>1. CASE a < PIPE_BUF_SIZE
  <2>1. a % PIPE_BUF_SIZE = a
    BY <1>1
  <2> QED
    BY <1>1, <2>1, Zenon DEF Wrap
<1>2. CASE ~(a < PIPE_BUF_SIZE)
  <2>1. a % PIPE_BUF_SIZE = a - PIPE_BUF_SIZE
    BY <1>2
  <2> QED
    BY <1>2, <2>1, Zenon DEF Wrap
<1> QED
  BY <1>1, <1>2, Zenon

(* The ring starts well-formed, with nobody inside the pipe. *)
LEMMA InitInv == Init => IInv
<1> SUFFICES ASSUME Init PROVE IInv
  BY Zenon
<1> USE PipeSize, LenBound, NoProcFresh
<1>1. TypeOK
  <2>1. pc \in [Procs -> PcStates]
    BY Zenon DEF Init, PcStates
  <2>2. killed \in [Procs -> BOOLEAN]
    BY Zenon DEF Init
  <2>3. readOpen \in BOOLEAN /\ writeOpen \in BOOLEAN /\ deleted \in BOOLEAN
    BY Zenon DEF Init
  <2>4. n \in [Procs -> 0 .. MaxLen] /\ i \in [Procs -> 0 .. MaxLen]
    BY DEF Init
  <2>5. /\ buf \in [Index -> Bytes] /\ head \in Index /\ tail \in Index
        /\ size \in 0 .. PIPE_BUF_SIZE
        /\ lock \in Procs \cup {NoProc}
        /\ delivered \in Bytes \cup {NoByte}
    BY DEF Init, Index
  <2> QED
    BY <2>1, <2>2, <2>3, <2>4, <2>5, Zenon DEF TypeOK
<1>2. RingOK
  <2>1. (0 + 0) % PIPE_BUF_SIZE = 0
    BY RingMod DEF Wrap
  <2> QED
    BY <2>1, Zenon DEF Init, RingOK
<1>3. LockOK /\ WakePending /\ EndsOK
  BY Zenon DEF Init, LockOK, WakePending, EndsOK, SleeperOK, LockedStates, ReadStates, WriteStates
<1> QED
  BY <1>1, <1>2, <1>3, Zenon DEF IInv

(* Every step preserves the types. *)
LEMMA StepType == IInv /\ [Next]_vars => TypeOK'
<1> SUFFICES ASSUME IInv, [Next]_vars PROVE TypeOK'
  BY Zenon
<1> USE PipeSize, LenBound, NoProcFresh DEF IInv
<1>1. ASSUME NEW p \in Procs, write(p) PROVE TypeOK'
  <2>1. CASE WriteCall(p)
    BY <2>1 DEF WriteCall, TypeOK, PcStates, WriteStates, ring, ends
  <2>2. CASE WriteFail(p)
    BY <2>2 DEF WriteFail, TypeOK, PcStates, ring, ends
  <2>3. CASE WriteFull(p)
    BY <2>3, Zenon DEF WriteFull, WakeReaders, TypeOK, PcStates, WriteStates, ReadStates, ring, ends
  <2>4. CASE WritePush(p)
    <3>1. tail' \in Index /\ size' \in 0 .. PIPE_BUF_SIZE
      BY <2>4 DEF WritePush, push, full, TypeOK, Index
    <3>2. i' \in [Procs -> 0 .. MaxLen]
      BY <2>4 DEF WritePush, InWriteLoop, TypeOK
    <3> QED
      BY <2>4, <3>1, <3>2 DEF WritePush, push, TypeOK, ends
  <2>5. CASE WriteDone(p)
    BY <2>5 DEF WriteDone, WakeReaders, TypeOK, PcStates, ReadStates, ring, ends
  <2> QED
    BY <1>1, <2>1, <2>2, <2>3, <2>4, <2>5, Zenon DEF write
<1>2. ASSUME NEW p \in Procs, read(p) PROVE TypeOK'
  <2>1. CASE ReadCall(p)
    BY <2>1 DEF ReadCall, TypeOK, PcStates, ReadStates, ring, ends
  <2>2. CASE ReadKilled(p)
    BY <2>2 DEF ReadKilled, TypeOK, PcStates, ring, ends
  <2>3. CASE ReadEmpty(p)
    BY <2>3, Zenon DEF ReadEmpty, TypeOK, PcStates, ReadStates, ring, ends
  <2>4. CASE ReadStart(p)
    BY <2>4, Zenon DEF ReadStart, TypeOK, PcStates, ReadStates, ring, ends
  <2>5. CASE ReadPop(p)
    <3>1. head' \in Index /\ size' \in 0 .. PIPE_BUF_SIZE
      BY <2>5 DEF ReadPop, pop, empty, TypeOK, Index
    <3>2. i' \in [Procs -> 0 .. MaxLen]
      BY <2>5 DEF ReadPop, TypeOK
    <3>3. delivered' \in Bytes
      BY <2>5, Zenon DEF ReadPop, peek, TypeOK
    <3> QED
      BY <2>5, <3>1, <3>2, <3>3, Zenon DEF ReadPop, pop, TypeOK, ends
  <2>6. CASE ReadDone(p)
    BY <2>6 DEF ReadDone, WakeWriters, TypeOK, PcStates, WriteStates, ring, ends
  <2> QED
    BY <1>2, <2>1, <2>2, <2>3, <2>4, <2>5, <2>6, Zenon DEF read
<1>3. ASSUME NEW p \in Procs, Resume(p) \/ Kill(p) \/ FreeProc(p) PROVE TypeOK'
  <2>1. CASE Resume(p)
    BY <2>1, Zenon DEF Resume, TypeOK, PcStates, WriteStates, ReadStates, ring, ends
  <2>2. CASE Kill(p)
    <3>1. killed' \in [Procs -> BOOLEAN]
      BY <2>2, Zenon DEF Kill, TypeOK
    <3> QED
      BY <2>2, <3>1, Zenon DEF Kill, TypeOK, ring, ends
  <2>3. CASE FreeProc(p)
    <3>1. killed' \in [Procs -> BOOLEAN]
      BY <2>3, Zenon DEF FreeProc, TypeOK
    <3> QED
      BY <2>3, <3>1 DEF FreeProc, TypeOK, PcStates, ring, ends
  <2> QED
    BY <1>3, <2>1, <2>2, <2>3, Zenon
<1>4. ASSUME NEW w \in BOOLEAN, close(w) PROVE TypeOK'
  BY <1>4, Zenon DEF close, WakeReaders, WakeWriters, TypeOK, PcStates, WriteStates, ReadStates, ring
<1>5. ASSUME UNCHANGED vars PROVE TypeOK'
  BY <1>5, Zenon DEF vars, TypeOK
<1> QED
  BY <1>1, <1>2, <1>3, <1>4, <1>5, Zenon DEF Next, CloseRead, CloseWrite

(* Only push and pop move the ring, and both keep tail = head + size. *)
LEMMA StepRing == IInv /\ [Next]_vars => RingOK'
<1> SUFFICES ASSUME TypeOK, RingOK, [Next]_vars PROVE RingOK'
  BY Zenon DEF IInv
<1>1. ASSUME NEW p \in Procs, WritePush(p) PROVE RingOK'
  <2>1. /\ head \in 0 .. PIPE_BUF_SIZE - 1
        /\ size \in 0 .. PIPE_BUF_SIZE - 1
        /\ tail \in 0 .. PIPE_BUF_SIZE - 1
        /\ tail = (head + size) % PIPE_BUF_SIZE
        /\ head' = head /\ size' = size + 1
        /\ tail' = (tail + 1) % PIPE_BUF_SIZE
    BY <1>1, PipeSize DEF WritePush, push, full, TypeOK, RingOK, Index
  <2>2. head + size \in 0 .. 2 * PIPE_BUF_SIZE - 1
    BY <2>1, PipeSize
  <2>3. tail + 1 \in 0 .. 2 * PIPE_BUF_SIZE - 1
    BY <2>1, PipeSize
  <2>4. head' + size' \in 0 .. 2 * PIPE_BUF_SIZE - 1
    BY <2>1, PipeSize
  <2>5. /\ tail = Wrap(head + size)
        /\ tail' = Wrap(tail + 1)
        /\ (head' + size') % PIPE_BUF_SIZE = Wrap(head' + size')
    BY <2>1, <2>2, <2>3, <2>4, RingMod, Zenon
  <2> QED
    BY <2>1, <2>5, PipeSize DEF RingOK, Wrap
<1>2. ASSUME NEW p \in Procs, ReadPop(p) PROVE RingOK'
  <2>1. /\ head \in 0 .. PIPE_BUF_SIZE - 1
        /\ size \in 1 .. PIPE_BUF_SIZE
        /\ tail = (head + size) % PIPE_BUF_SIZE
        /\ tail' = tail /\ size' = size - 1
        /\ head' = (head + 1) % PIPE_BUF_SIZE
    BY <1>2, PipeSize DEF ReadPop, pop, empty, TypeOK, RingOK, Index
  <2>2. head + size \in 0 .. 2 * PIPE_BUF_SIZE - 1
    BY <2>1, PipeSize
  <2>3. head + 1 \in 0 .. 2 * PIPE_BUF_SIZE - 1
    BY <2>1, PipeSize
  <2>4. tail = Wrap(head + size) /\ head' = Wrap(head + 1)
    BY <2>1, <2>2, <2>3, RingMod, Zenon
  <2>5. head' + size' \in 0 .. 2 * PIPE_BUF_SIZE - 1
    BY <2>1, <2>4, PipeSize DEF Wrap
  <2>6. (head' + size') % PIPE_BUF_SIZE = Wrap(head' + size')
    BY <2>5, RingMod, Zenon
  <2> QED
    BY <2>1, <2>4, <2>6, PipeSize DEF RingOK, Wrap
<1>3. ASSUME UNCHANGED ring PROVE RingOK'
  BY <1>3, Zenon DEF ring, RingOK
<1> QED
  BY <1>1, <1>2, <1>3, Zenon DEF Next, vars, ring, write, read, WriteCall, WriteFail, WriteFull,
     WriteDone, ReadCall, ReadKilled, ReadEmpty, ReadStart, ReadDone, Resume, Kill, FreeProc,
     CloseRead, CloseWrite, close

(* The lock and the program counters move together. *)
LEMMA StepLock == IInv /\ [Next]_vars => LockOK'
<1> SUFFICES ASSUME TypeOK, LockOK, [Next]_vars PROVE LockOK'
  BY Zenon DEF IInv
<1> USE NoProcFresh DEF LockOK, LockedStates
<1>1. ASSUME NEW p \in Procs, write(p) PROVE LockOK'
  <2>1. CASE WriteCall(p)
    BY <2>1, Zenon DEF WriteCall, TypeOK
  <2>2. CASE WriteFail(p)
    BY <2>2, Zenon DEF WriteFail, InWriteLoop, TypeOK
  <2>3. CASE WriteFull(p)
    BY <2>3, Zenon DEF WriteFull, InWriteLoop, WakeReaders, TypeOK
  <2>4. CASE WritePush(p)
    BY <2>4, Zenon DEF WritePush
  <2>5. CASE WriteDone(p)
    BY <2>5, Zenon DEF WriteDone, WakeReaders, TypeOK
  <2> QED
    BY <1>1, <2>1, <2>2, <2>3, <2>4, <2>5, Zenon DEF write
<1>2. ASSUME NEW p \in Procs, read(p) PROVE LockOK'
  <2>1. CASE ReadCall(p)
    BY <2>1, Zenon DEF ReadCall, TypeOK
  <2>2. CASE ReadKilled(p)
    BY <2>2, Zenon DEF ReadKilled, TypeOK
  <2>3. CASE ReadEmpty(p)
    BY <2>3, Zenon DEF ReadEmpty, TypeOK
  <2>4. CASE ReadStart(p)
    BY <2>4, Zenon DEF ReadStart, TypeOK
  <2>5. CASE ReadPop(p)
    BY <2>5, Zenon DEF ReadPop
  <2>6. CASE ReadDone(p)
    BY <2>6, Zenon DEF ReadDone, WakeWriters, TypeOK
  <2> QED
    BY <1>2, <2>1, <2>2, <2>3, <2>4, <2>5, <2>6, Zenon DEF read
<1>3. ASSUME NEW p \in Procs, Resume(p) PROVE LockOK'
  BY <1>3, Zenon DEF Resume, TypeOK
<1>4. ASSUME NEW p \in Procs, Kill(p) PROVE LockOK'
  BY <1>4, Zenon DEF Kill
<1>5. ASSUME NEW p \in Procs, FreeProc(p) PROVE LockOK'
  BY <1>5, Zenon DEF FreeProc, TypeOK
<1>6. ASSUME NEW w \in BOOLEAN, close(w) PROVE LockOK'
  BY <1>6, Zenon DEF close, WakeReaders, WakeWriters, TypeOK
<1>7. ASSUME UNCHANGED vars PROVE LockOK'
  BY <1>7, Zenon DEF vars
<1> QED
  BY <1>1, <1>2, <1>3, <1>4, <1>5, <1>6, <1>7, Zenon DEF Next, CloseRead, CloseWrite

(* Whoever makes a sleeper's condition true still owes it a wakeup. *)
LEMMA StepWake == IInv /\ [Next]_vars => WakePending'
<1> SUFFICES ASSUME TypeOK, LockOK, WakePending, EndsOK, [Next]_vars,
                    NEW r \in Procs
             PROVE  SleeperOK(r)'
  BY Zenon DEF IInv, WakePending
<1> USE NoProcFresh, PipeSize DEF LockOK, WakePending, SleeperOK, LockedStates
<1>1. ASSUME NEW p \in Procs, write(p) PROVE SleeperOK(r)'
  <2>1. CASE WriteCall(p)
    BY <2>1, Zenon DEF WriteCall, TypeOK, ring, ends, empty, full
  <2>2. CASE WriteFail(p)
    BY <2>2, Zenon DEF WriteFail, InWriteLoop, TypeOK, ring, ends, empty, full
  <2>3. CASE WriteFull(p)
    BY <2>3, Zenon DEF WriteFull, InWriteLoop, WakeReaders, TypeOK, ring, ends, empty, full
  <2>4. CASE WritePush(p)
    BY <2>4, Zenon DEF WritePush, InWriteLoop, push, TypeOK, ends, empty, full
  <2>5. CASE WriteDone(p)
    BY <2>5, Zenon DEF WriteDone, WakeReaders, TypeOK, ring, ends, empty, full
  <2> QED
    BY <1>1, <2>1, <2>2, <2>3, <2>4, <2>5, Zenon DEF write
<1>2. ASSUME NEW p \in Procs, read(p) PROVE SleeperOK(r)'
  <2>1. CASE ReadCall(p)
    BY <2>1, Zenon DEF ReadCall, TypeOK, ring, ends, empty, full
  <2>2. CASE ReadKilled(p)
    BY <2>2, Zenon DEF ReadKilled, TypeOK, ring, ends, empty, full
  <2>3. CASE ReadEmpty(p)
    BY <2>3, Zenon DEF ReadEmpty, TypeOK, ring, ends, empty, full
  <2>4. CASE ReadStart(p)
    BY <2>4, Zenon DEF ReadStart, TypeOK, ring, ends, empty, full
  <2>5. CASE ReadPop(p)
    BY <2>5, Zenon DEF ReadPop, pop, TypeOK, ends, empty, full
  <2>6. CASE ReadDone(p)
    BY <2>6, Zenon DEF ReadDone, WakeWriters, TypeOK, ring, ends, empty, full
  <2> QED
    BY <1>2, <2>1, <2>2, <2>3, <2>4, <2>5, <2>6, Zenon DEF read
<1>3. ASSUME NEW p \in Procs, Resume(p) PROVE SleeperOK(r)'
  BY <1>3, Zenon DEF Resume, TypeOK, ring, ends, empty, full
<1>4. ASSUME NEW p \in Procs, Kill(p) PROVE SleeperOK(r)'
  BY <1>4, Zenon DEF Kill, TypeOK, ring, ends, empty, full
<1>5. ASSUME NEW p \in Procs, FreeProc(p) PROVE SleeperOK(r)'
  BY <1>5, Zenon DEF FreeProc, TypeOK, ring, ends, empty, full
<1>6. ASSUME NEW w \in BOOLEAN, close(w) PROVE SleeperOK(r)'
  BY <1>6 DEF close, WakeReaders, WakeWriters, TypeOK, ring, empty, full,
     ReadStates, WriteStates
<1>7. ASSUME UNCHANGED vars PROVE SleeperOK(r)'
  BY <1>7, Zenon DEF vars, empty, full
<1> QED
  BY <1>1, <1>2, <1>3, <1>4, <1>5, <1>6, <1>7, Zenon DEF Next, CloseRead, CloseWrite

(* A closed end keeps having no user. *)
LEMMA StepEnds == IInv /\ [Next]_vars => EndsOK'
<1> SUFFICES ASSUME TypeOK, LockOK, EndsOK, [Next]_vars PROVE EndsOK'
  BY Zenon DEF IInv
<1> USE NoProcFresh DEF EndsOK, ReadStates, WriteStates
<1>1. ASSUME NEW p \in Procs, write(p) PROVE EndsOK'
  <2>1. CASE WriteCall(p)
    BY <2>1, Zenon DEF WriteCall, TypeOK, ends
  <2>2. CASE WriteFail(p)
    BY <2>2, Zenon DEF WriteFail, TypeOK, ends
  <2>3. CASE WriteFull(p)
    BY <2>3, Zenon DEF WriteFull, InWriteLoop, WakeReaders, TypeOK, ends
  <2>4. CASE WritePush(p)
    BY <2>4, Zenon DEF WritePush, TypeOK, ends
  <2>5. CASE WriteDone(p)
    BY <2>5, Zenon DEF WriteDone, WakeReaders, TypeOK, ends
  <2> QED
    BY <1>1, <2>1, <2>2, <2>3, <2>4, <2>5, Zenon DEF write
<1>2. ASSUME NEW p \in Procs, read(p) PROVE EndsOK'
  <2>1. CASE ReadCall(p)
    BY <2>1, Zenon DEF ReadCall, TypeOK, ends
  <2>2. CASE ReadKilled(p)
    BY <2>2, Zenon DEF ReadKilled, TypeOK, ends
  <2>3. CASE ReadEmpty(p)
    BY <2>3, Zenon DEF ReadEmpty, TypeOK, ends
  <2>4. CASE ReadStart(p)
    BY <2>4, Zenon DEF ReadStart, TypeOK, ends
  <2>5. CASE ReadPop(p)
    BY <2>5, Zenon DEF ReadPop, TypeOK, ends
  <2>6. CASE ReadDone(p)
    BY <2>6, Zenon DEF ReadDone, WakeWriters, TypeOK, ends
  <2> QED
    BY <1>2, <2>1, <2>2, <2>3, <2>4, <2>5, <2>6, Zenon DEF read
<1>3. ASSUME NEW p \in Procs, Resume(p) PROVE EndsOK'
  BY <1>3, Zenon DEF Resume, TypeOK, ends
<1>4. ASSUME NEW p \in Procs, Kill(p) PROVE EndsOK'
  BY <1>4, Zenon DEF Kill, ends
<1>5. ASSUME NEW p \in Procs, FreeProc(p) PROVE EndsOK'
  BY <1>5, Zenon DEF FreeProc, TypeOK, ends
<1>6. ASSUME NEW w \in BOOLEAN, close(w) PROVE EndsOK'
  <2>1. CASE w = TRUE
    BY <1>6, <2>1, Zenon DEF close, WakeReaders, TypeOK
  <2>2. CASE w = FALSE
    BY <1>6, <2>2, Zenon DEF close, WakeWriters, TypeOK
  <2> QED
    BY <2>1, <2>2, Zenon
<1>7. ASSUME UNCHANGED vars PROVE EndsOK'
  BY <1>7, Zenon DEF vars
<1> QED
  BY <1>1, <1>2, <1>3, <1>4, <1>5, <1>6, <1>7, Zenon DEF Next, CloseRead, CloseWrite

(* IInv holds in every reachable state: the types, the ring, the lock      *)
(* discipline, the pending wakeups and the life of the two ends, for any   *)
(* number of readers and writers of Pipe::read, write and close.           *)
THEOREM Invariance == Spec => []IInv
<1>1. IInv /\ [Next]_vars => IInv'
  BY StepType, StepRing, StepLock, StepWake, StepEnds, Zenon DEF IInv
<1> QED
  BY InitInv, <1>1, PTL DEF Spec

(* Type correctness of the pipe's state. *)
THEOREM TypeCorrect == Spec => []TypeOK
<1>1. IInv => TypeOK
  BY Zenon DEF IInv
<1> QED
  BY Invariance, <1>1, PTL

(* The head, tail and _size of PipeBuffer always agree. *)
THEOREM RingCorrect == Spec => []RingOK
<1>1. IInv => RingOK
  BY Zenon DEF IInv
<1> QED
  BY Invariance, <1>1, PTL

(* No reader and no writer sleeps on a condition that already holds once   *)
(* the pipe's lock is free: read, write and close lose no wakeup.          *)
THEOREM WakeupCorrect == Spec => []NoLostWakeup
<1>1. IInv => NoLostWakeup
  BY NoProcFresh, Zenon DEF IInv, WakePending, SleeperOK, NoLostWakeup
<1> QED
  BY Invariance, <1>1, PTL

(* Pipe::close deletes the object only when no live process is inside it.  *)
THEOREM DeleteCorrect == Spec => []NoUseAfterDelete
<1>1. IInv => NoUseAfterDelete
  BY Zenon DEF IInv, EndsOK, TypeOK, NoUseAfterDelete, PcStates
<1> QED
  BY Invariance, <1>1, PTL

-----------------------------------------------------------------------------
(* Refinement *)

(* What lies in a ring from index h on is a sequence of bytes. *)
LEMMA RingSeq ==
    ASSUME NEW f \in [Index -> Bytes], NEW h \in Index, NEW z \in 0 .. PIPE_BUF_SIZE
    PROVE  /\ [k \in 1 .. z |-> f[(h + k - 1) % PIPE_BUF_SIZE]] \in Seq(Bytes)
           /\ Len([k \in 1 .. z |-> f[(h + k - 1) % PIPE_BUF_SIZE]]) = z
<1>1. ASSUME NEW k \in 1 .. z PROVE f[(h + k - 1) % PIPE_BUF_SIZE] \in Bytes
  <2>1. (h + k - 1) % PIPE_BUF_SIZE \in 0 .. PIPE_BUF_SIZE - 1
    BY PipeSize DEF Index
  <2> QED
    BY <2>1, Zenon DEF Index
<1>2. z \in Nat
  BY PipeSize
<1> QED
  BY <1>1, <1>2

\* The bytes between head and tail are a sequence of bytes.
LEMMA ContentsType ==
    ASSUME TypeOK
    PROVE  Contents \in Seq(Bytes) /\ Len(Contents) = size
BY RingSeq DEF Contents, TypeOK

\* The same after a step.
LEMMA NextContentsType ==
    ASSUME TypeOK'
    PROVE  Contents' \in Seq(Bytes) /\ Len(Contents') = size'
<1>1. buf' \in [Index -> Bytes] /\ head' \in Index /\ size' \in 0 .. PIPE_BUF_SIZE
  BY Zenon DEF TypeOK, Index
<1>2. Contents' = [k \in 1 .. size' |-> buf'[(head' + k - 1) % PIPE_BUF_SIZE]]
  BY Zenon DEF Contents
<1> QED
  BY <1>1, <1>2, RingSeq, Zenon

(* PipeBuffer::push appends to the contents. *)
LEMMA PushAppends ==
    ASSUME TypeOK, TypeOK', RingOK, NEW b \in Bytes, push(b), size < PIPE_BUF_SIZE
    PROVE  Contents' = Append(Contents, b)
<1>1. /\ head \in 0 .. PIPE_BUF_SIZE - 1
      /\ size \in 0 .. PIPE_BUF_SIZE - 1
      /\ head' = head /\ size' = size + 1
      /\ buf \in [Index -> Bytes]
      /\ buf' = [buf EXCEPT ![tail] = b]
      /\ tail = (head + size) % PIPE_BUF_SIZE
      /\ tail \in Index
  BY PipeSize DEF TypeOK, RingOK, push, Index
<1>2. tail = Wrap(head + size)
  BY <1>1, RingMod, PipeSize
<1>3. ASSUME NEW k \in 1 .. size
      PROVE  buf'[(head' + k - 1) % PIPE_BUF_SIZE] = buf[(head + k - 1) % PIPE_BUF_SIZE]
  <2>1. head + k - 1 \in 0 .. 2 * PIPE_BUF_SIZE - 1
    BY <1>1, PipeSize
  <2>2. (head + k - 1) % PIPE_BUF_SIZE = Wrap(head + k - 1)
    BY <2>1, RingMod, Zenon
  <2>3. Wrap(head + k - 1) # tail /\ Wrap(head + k - 1) \in Index
    BY <1>1, <1>2, PipeSize DEF Wrap, Index
  <2> QED
    BY <1>1, <2>2, <2>3, Zenon
<1>4. buf'[(head' + (size + 1) - 1) % PIPE_BUF_SIZE] = b
  <2>1. (head' + (size + 1) - 1) = head + size
    BY <1>1
  <2> QED
    BY <1>1, <2>1, Zenon
<1>5. /\ Contents \in Seq(Bytes) /\ Len(Contents) = size
      /\ Contents' \in Seq(Bytes) /\ Len(Contents') = size + 1
  BY <1>1, ContentsType, NextContentsType, Zenon
<1>6. ASSUME NEW k \in 1 .. size + 1
      PROVE  Contents'[k] = Append(Contents, b)[k]
  <2>1. Contents'[k] = buf'[(head' + k - 1) % PIPE_BUF_SIZE]
    BY <1>1, Zenon DEF Contents
  <2>2. CASE k = size + 1
    BY <2>1, <2>2, <1>4, <1>5, AppendProperties
  <2>3. CASE k # size + 1
    <3>1. k \in 1 .. size
      BY <1>1, <2>3
    <3>2. Append(Contents, b)[k] = Contents[k]
      BY <3>1, <1>5, AppendProperties
    <3>3. Contents[k] = buf[(head + k - 1) % PIPE_BUF_SIZE]
      BY <3>1, Zenon DEF Contents
    <3> QED
      BY <2>1, <3>1, <3>2, <3>3, <1>3, Zenon
  <2> QED
    BY <2>2, <2>3, Zenon
<1>7. Append(Contents, b) \in Seq(Bytes) /\ Len(Append(Contents, b)) = size + 1
  BY <1>5, AppendProperties, Zenon
<1> QED
  BY <1>5, <1>6, <1>7, SeqEqual, Zenon

(* PipeBuffer::peek and pop take the oldest byte. *)
LEMMA PopTakesHead ==
    ASSUME TypeOK, TypeOK', RingOK, pop, 0 < size
    PROVE  /\ Contents # <<>>
           /\ peek = Head(Contents)
           /\ Contents' = Tail(Contents)
<1>1. /\ head \in 0 .. PIPE_BUF_SIZE - 1
      /\ size \in 1 .. PIPE_BUF_SIZE
      /\ head' = (head + 1) % PIPE_BUF_SIZE /\ size' = size - 1
      /\ buf' = buf
  BY PipeSize DEF TypeOK, pop, Index
<1>2. head' = Wrap(head + 1)
  <2>1. head + 1 \in 0 .. 2 * PIPE_BUF_SIZE - 1
    BY <1>1, PipeSize
  <2> QED
    BY <1>1, <2>1, RingMod, Zenon
<1>3. Contents # <<>>
  BY <1>1, ContentsType
<1>4. peek = Head(Contents)
  <2>1. (head + 1 - 1) % PIPE_BUF_SIZE = head
    BY <1>1, PipeSize
  <2>2. Contents[1] = buf[(head + 1 - 1) % PIPE_BUF_SIZE]
    BY <1>1 DEF Contents
  <2> QED
    BY <2>1, <2>2, <1>3, ContentsType DEF peek
<1>5. /\ Contents \in Seq(Bytes) /\ Len(Contents) = size
      /\ Contents' \in Seq(Bytes) /\ Len(Contents') = size - 1
  BY <1>1, ContentsType, NextContentsType, Zenon
<1>6. /\ Tail(Contents) \in Seq(Bytes) /\ Len(Tail(Contents)) = size - 1
      /\ \A k \in 1 .. size - 1 : Tail(Contents)[k] = Contents[k + 1]
  BY <1>3, <1>5, HeadTailProperties, Zenon
<1>7. ASSUME NEW k \in 1 .. size - 1
      PROVE  Contents'[k] = Contents[k + 1]
  <2>0. Contents'[k] = buf'[(head' + k - 1) % PIPE_BUF_SIZE]
    BY <1>1, Zenon DEF Contents
  <2>1. head + k \in 0 .. 2 * PIPE_BUF_SIZE - 1
    BY <1>1, PipeSize
  <2>2. head' + k - 1 \in 0 .. 2 * PIPE_BUF_SIZE - 1
    BY <1>1, <1>2, PipeSize DEF Wrap
  <2>3. (head' + k - 1) % PIPE_BUF_SIZE = Wrap(head' + k - 1)
    BY <2>2, RingMod, Zenon
  <2>4. (head + k) % PIPE_BUF_SIZE = Wrap(head + k)
    BY <2>1, RingMod, Zenon
  <2>5. Wrap(head' + k - 1) = Wrap(head + k)
    BY <1>1, <1>2, PipeSize DEF Wrap
  <2>6. Contents[k + 1] = buf[(head + (k + 1) - 1) % PIPE_BUF_SIZE]
    BY <1>1 DEF Contents
  <2>7. head + (k + 1) - 1 = head + k
    BY <1>1
  <2> QED
    BY <1>1, <2>0, <2>3, <2>4, <2>5, <2>6, <2>7, Zenon
<1>8. Contents' = Tail(Contents)
  BY <1>5, <1>6, <1>7, SeqEqual, Zenon
<1> QED
  BY <1>3, <1>4, <1>8, Zenon

(* Every step of the pipe is a step of the abstract queue or leaves it     *)
(* alone.                                                                  *)
LEMMA StepFifo == IInv /\ [Next]_vars => [Fifo!Next]_(Fifo!vars)
<1> SUFFICES ASSUME IInv, [Next]_vars PROVE [Fifo!Next]_(Fifo!vars)
  BY Zenon
<1>t. TypeOK /\ TypeOK' /\ RingOK
  BY StepType, Zenon DEF IInv
<1>0. ASSUME UNCHANGED <<ring, delivered, readOpen, writeOpen>>
      PROVE  [Fifo!Next]_(Fifo!vars)
  <2>1. Contents' = Contents
    BY <1>0, Zenon DEF ring, Contents
  <2> QED
    BY <1>0, <2>1, Zenon DEF Fifo!vars
<1>1. ASSUME NEW p \in Procs, WritePush(p) PROVE Fifo!Next
  <2>1. PICK b \in Bytes : push(b)
    BY <1>1, Zenon DEF WritePush
  <2>2. size \in 0 .. PIPE_BUF_SIZE - 1
    BY <1>1, <1>t, PipeSize DEF WritePush, full, TypeOK
  <2>3. Contents' = Append(Contents, b)
    BY <1>t, <2>1, <2>2, PushAppends, PipeSize
  <2>4. readOpen /\ writeOpen
    BY <1>1, Zenon DEF WritePush, InWriteLoop, IInv, EndsOK, WriteStates
  <2>5. Len(Contents) < PIPE_BUF_SIZE
    BY <1>t, <2>2, ContentsType, PipeSize
  <2> QED
    BY <1>1, <2>3, <2>4, <2>5, Zenon DEF WritePush, ends, Fifo!Next, Fifo!Push
<1>2. ASSUME NEW p \in Procs, ReadPop(p) PROVE Fifo!Next
  <2>1. pop /\ 0 < size /\ delivered' = peek
    BY <1>2, <1>t, PipeSize DEF ReadPop, empty, TypeOK
  <2>2. /\ Contents # <<>>
        /\ peek = Head(Contents)
        /\ Contents' = Tail(Contents)
    BY <1>t, <2>1, PopTakesHead, Zenon
  <2>3. readOpen
    BY <1>2, Zenon DEF ReadPop, IInv, EndsOK, ReadStates
  <2> QED
    BY <1>2, <2>1, <2>2, <2>3, Zenon DEF ReadPop, ends, Fifo!Next, Fifo!Pop
<1>3. ASSUME NEW w \in BOOLEAN, close(w) PROVE Fifo!Next
  <2>1. Contents' = Contents /\ delivered' = delivered
    BY <1>3, Zenon DEF close, ring, Contents
  <2>2. CASE w = TRUE
    BY <1>3, <2>1, <2>2, Zenon DEF close, Fifo!Next, Fifo!CloseWrite
  <2>3. CASE w = FALSE
    BY <1>3, <2>1, <2>3, Zenon DEF close, Fifo!Next, Fifo!CloseRead
  <2> QED
    BY <2>2, <2>3, Zenon
<1> QED
  BY <1>0, <1>1, <1>2, <1>3, Zenon DEF Next, vars, ring, ends, write, read, WriteCall, WriteFail,
     WriteFull, WriteDone, ReadCall, ReadKilled, ReadEmpty, ReadStart, ReadDone, Resume, Kill,
     FreeProc, CloseRead, CloseWrite

(* The pipe implements a bounded FIFO queue: bytes come out of             *)
(* Pipe::read exactly once and in the order Pipe::write pushed them, for   *)
(* every capacity and every number of processes.                           *)
THEOREM Refinement == Spec => FifoSpec
<1>1. Init => Fifo!Init
  <2> SUFFICES ASSUME Init PROVE Fifo!Init
    BY Zenon
  <2>1. TypeOK
    BY InitInv, Zenon DEF IInv
  <2>2. Contents = <<>>
    BY <2>1, ContentsType DEF Init
  <2> QED
    BY <2>2, Zenon DEF Init, Fifo!Init
<1> QED
  BY <1>1, Invariance, StepFifo, PTL DEF Spec, FifoSpec, Fifo!Spec
=============================================================================
