---------------------------- MODULE SchedProofs ----------------------------
(***************************************************************************)
(* Sched keeps its inductive invariant IInv, hence its type invariant and  *)
(* the properties NoPanic, LocksMask, OneRunning, TrapMasked, NoOversleep, *)
(* TrapCount and TrapNesting, for every number of processes, time slice    *)
(* and assignment of priorities.                                           *)
(***************************************************************************)
EXTENDS Sched, FiniteSetTheorems, TLAPS

-----------------------------------------------------------------------------
(* push_interrupt_off and pop_intterupt_off *)

\* push_interrupt_off turns interrupts off and, at the first lock, remembers
\* what they were.
LEMMA Push ==
    ASSUME NEW c \in Cpu
    PROVE  /\ PushOff(c) \in Cpu
           /\ PushOff(c).intr = 0
           /\ PushOff(c).numOff = c.numOff + 1
           /\ c.numOff = 0 => PushOff(c).intEna = c.intr
BY DEF PushOff, Cpu

\* pop_intterupt_off turns interrupts on at most when the last lock goes.
LEMMA Pop ==
    ASSUME NEW c \in Cpu
    PROVE  /\ PopOff(c) \in Cpu
           /\ PopOff(c).intr = 1 => c.intr = 1 \/ c.numOff = 1
           /\ PopOff(c).numOff = c.numOff - 1
BY DEF PopOff, Cpu

\* A lock taken and released leaves interrupts no freer than before.
LEMMA PushPop ==
    ASSUME NEW c \in Cpu
    PROVE  /\ PopOff(PushOff(c)) \in Cpu
           /\ PopOff(PushOff(c)).intr = 1 => c.intr = 1
           /\ PopOff(PushOff(c)).numOff = c.numOff
BY DEF Cpu, PushOff, PopOff

\* Writing the interrupt flag leaves _num_off alone.
LEMMA SetIntr ==
    ASSUME NEW c \in Cpu, NEW b \in {0, 1}
    PROVE  /\ [c EXCEPT !.intr = b] \in Cpu
           /\ [c EXCEPT !.intr = b].intr = b
           /\ [c EXCEPT !.intr = b].numOff = c.numOff
BY Zenon DEF Cpu

(* The lock call_sched's caller releases: _int_ena was restored before.    *)
LEMMA PopRestored ==
    ASSUME NEW c \in Cpu, NEW b \in {0, 1}
    PROVE  /\ PopOff([c EXCEPT !.intEna = b]) \in Cpu
           /\ PopOff([c EXCEPT !.intEna = b]).intr = 1 => c.intr = 1 \/ (c.numOff = 1 /\ b = 1)
           /\ PopOff([c EXCEPT !.intEna = b]).numOff = c.numOff - 1
BY DEF Cpu, PopOff

-----------------------------------------------------------------------------
(* IInv holds initially *)

\* The state in which start_schedule is entered satisfies IInv.
LEMMA InitInv == Init => IInv
<1> SUFFICES ASSUME Init PROVE IInv
  BY Zenon
<1>1. TypeOK
  BY PoolSize, SlotSize, SleepBound, PrioType DEF Init, TypeOK, Cpu, PcStates, FrameStates
<1>2. NoPanic /\ HeldOK /\ PlaceOK /\ OffCpuOK /\ IntrOK
  BY NoProcFresh, Zenon DEF Init, NoPanic, HeldOK, PlaceOK, OffCpuOK, IntrOK, FrameStates
<1>3. {p \in Procs : frame[p] \notin {"none", "user"}} = {}
  BY Zenon DEF Init
<1>4. TrapCount
  BY <1>3, FS_EmptySet, Zenon DEF Init, TrapCount
<1> QED
  BY <1>1, <1>2, <1>4, Zenon DEF IInv

(* All of IInv but the counting of traps. *)
Kept == TypeOK /\ NoPanic /\ HeldOK /\ PlaceOK /\ OffCpuOK /\ IntrOK

-----------------------------------------------------------------------------
(* The steps of start_schedule *)

\* Every step of start_schedule's loop preserves IInv, but for TrapCount.
LEMMA SchedulerStep ==
    ASSUME IInv, start_schedule
    PROVE  Kept'
<1>1. CASE ScheduleTop
  <2>1. cpu' \in Cpu /\ cpu'.intr = 1 /\ cpu'.numOff = cpu.numOff
    BY <1>1, SetIntr, Zenon DEF ScheduleTop, InScheduler, IInv, TypeOK
  <2>2. TypeOK'
    BY <1>1, <2>1, PoolSize DEF ScheduleTop, InScheduler, IInv, TypeOK, procVars
  <2>3. NoPanic'
    BY <1>1, Zenon DEF ScheduleTop, InScheduler, IInv, NoPanic, HeldOK, PlaceOK, IntrOK
  <2>4. HeldOK' /\ PlaceOK'
    BY <1>1, <2>1, NoProcFresh, Zenon DEF ScheduleTop, InScheduler, IInv, TypeOK, HeldOK,
       HeldAt, NumOffAt, PlaceOK, OffCpuOK, procVars
  <2>5. OffCpuOK'
    BY <1>1, NoProcFresh, Zenon DEF ScheduleTop, InScheduler, IInv, TypeOK, PlaceOK, OffCpuOK, procVars
  <2>6. IntrOK'
    BY <1>1, <2>1, NoProcFresh DEF ScheduleTop, InScheduler, IInv, TypeOK, HeldOK,
       PlaceOK, OffCpuOK, IntrOK, procVars
  <2> QED
    BY <2>2, <2>3, <2>4, <2>5, <2>6, Zenon DEF Kept
<1>2. CASE SchedulePrio
  <2>1. cpu' \in Cpu /\ cpu'.numOff = cpu.numOff /\ (cpu'.intr = 1 => cpu.intr = 1)
    BY <1>2, PushPop, Zenon DEF SchedulePrio, InScheduler, get_highest_proirity, IInv, TypeOK
  <2>2. TypeOK'
    <3>1. prio' \in 0 .. LowestPrio
      BY <1>2, PrioType DEF SchedulePrio, InScheduler, get_highest_proirity, IInv, TypeOK
    <3> QED
      BY <1>2, <2>1, <3>1, Zenon DEF SchedulePrio, InScheduler, get_highest_proirity, IInv,
         TypeOK, procVars
  <2>3. NoPanic'
    BY <1>2, Zenon DEF SchedulePrio, InScheduler, get_highest_proirity, IInv, NoPanic, HeldOK,
       PlaceOK, IntrOK
  <2>4. HeldOK' /\ PlaceOK'
    <3>1. spc' = "test" => sp' \in Procs
      BY <1>2, PoolSize DEF SchedulePrio, InScheduler, IInv, TypeOK, Procs
    <3>2. spc' \in {"test", "top"} /\ cur' = NoProc /\ held' = held
      BY <1>2, Zenon DEF SchedulePrio, InScheduler
    <3>3. held = {} /\ cpu.numOff = 0
      BY <1>2, Zenon DEF SchedulePrio, InScheduler, IInv, HeldOK
    <3> QED
      BY <2>1, <3>1, <3>2, <3>3, Zenon DEF HeldOK, PlaceOK
  <2>5. OffCpuOK'
    BY <1>2, NoProcFresh, Zenon DEF SchedulePrio, InScheduler, get_highest_proirity, IInv,
       TypeOK, PlaceOK, OffCpuOK, procVars
  <2>6. IntrOK'
    BY <1>2, <2>1, NoProcFresh DEF SchedulePrio, InScheduler, get_highest_proirity,
       IInv, TypeOK, HeldOK, PlaceOK, OffCpuOK, IntrOK, procVars
  <2> QED
    BY <2>2, <2>3, <2>4, <2>5, <2>6, Zenon DEF Kept
<1>3. CASE ScheduleTest
  <2>2. TypeOK'
    <3>1. sp' \in 0 .. N
      BY <1>3, PoolSize, SMTT(20) DEF ScheduleTest, InScheduler, IInv, PlaceOK, TypeOK, Procs
    <3> QED
      BY <1>3, <3>1, Zenon DEF ScheduleTest, InScheduler, IInv, TypeOK, procVars
  <2>3. NoPanic'
    BY <1>3, Zenon DEF ScheduleTest, InScheduler, IInv, NoPanic, HeldOK, PlaceOK, IntrOK
  <2>4. HeldOK' /\ PlaceOK'
    BY <1>3, NoProcFresh, Zenon DEF ScheduleTest, InScheduler, IInv, TypeOK, HeldOK, HeldAt,
       NumOffAt, PlaceOK, OffCpuOK, procVars
  <2>5. OffCpuOK'
    BY <1>3, NoProcFresh, Zenon DEF ScheduleTest, InScheduler, IInv, TypeOK, PlaceOK, OffCpuOK,
       procVars
  <2>6. IntrOK'
    BY <1>3, NoProcFresh, Zenon DEF ScheduleTest, InScheduler, IInv, TypeOK, HeldOK, PlaceOK,
       OffCpuOK, IntrOK, procVars
  <2> QED
    BY <2>2, <2>3, <2>4, <2>5, <2>6, Zenon DEF Kept
<1>4. CASE ScheduleAcquire
  <2>1. cpu' \in Cpu /\ cpu'.intr = 0 /\ cpu'.numOff = cpu.numOff + 1
    BY <1>4, Push, Zenon DEF ScheduleAcquire, InScheduler, acquire, IInv, TypeOK
  <2>2. TypeOK'
    BY <1>4, <2>1, Zenon DEF ScheduleAcquire, InScheduler, acquire, IInv, TypeOK, procVars, PlaceOK
  <2>3. NoPanic'
    BY <1>4, Zenon DEF ScheduleAcquire, InScheduler, acquire, IInv, NoPanic, HeldOK, PlaceOK, IntrOK
  <2>4. HeldOK' /\ PlaceOK'
    BY <1>4, <2>1, NoProcFresh DEF ScheduleAcquire, InScheduler, acquire, IInv, TypeOK,
       HeldOK, HeldAt, NumOffAt, PlaceOK, OffCpuOK, procVars
  <2>5. OffCpuOK'
    BY <1>4, NoProcFresh, Zenon DEF ScheduleAcquire, InScheduler, acquire, IInv, TypeOK,
       PlaceOK, OffCpuOK, procVars
  <2>6. IntrOK'
    BY <1>4, <2>1, NoProcFresh DEF ScheduleAcquire, InScheduler, acquire, IInv, TypeOK,
       HeldOK, PlaceOK, OffCpuOK, IntrOK, procVars
  <2> QED
    BY <2>2, <2>3, <2>4, <2>5, <2>6, Zenon DEF Kept
<1>5. CASE ScheduleRun
  <2>1. sp \in Procs /\ cpu.intr = 0 /\ cur = NoProc
    BY <1>5, Zenon DEF ScheduleRun, InScheduler, IInv, TypeOK, Cpu, HeldOK, PlaceOK, IntrOK
  <2>2. TypeOK'
    BY <1>5, Zenon DEF ScheduleRun, InScheduler, IInv, TypeOK, procVars, PlaceOK
  <2>3. NoPanic'
    BY <1>5, Zenon DEF ScheduleRun, InScheduler, IInv, NoPanic, HeldOK, PlaceOK, IntrOK
  <2>4. HeldOK' /\ PlaceOK'
    BY <1>5, NoProcFresh, Zenon DEF ScheduleRun, InScheduler, IInv, TypeOK, HeldOK, HeldAt,
       NumOffAt, PlaceOK, OffCpuOK, procVars
  <2>5. OffCpuOK'
    BY <1>5, NoProcFresh, Zenon DEF ScheduleRun, InScheduler, IInv, TypeOK, PlaceOK, OffCpuOK, procVars
  <2>6. IntrOK'
    BY <1>5, <2>1, NoProcFresh, Zenon DEF ScheduleRun, InScheduler, IInv, TypeOK, OffCpuOK, IntrOK
  <2> QED
    BY <2>2, <2>3, <2>4, <2>5, <2>6, Zenon DEF Kept
<1>6. CASE ScheduleBack
  <2>1. cpu' \in Cpu /\ cpu'.numOff = cpu.numOff - 1 /\ (cpu'.intr = 1 => cpu.intr = 1 \/ cpu.numOff = 1)
    BY <1>6, Pop, Zenon DEF ScheduleBack, InScheduler, release, IInv, TypeOK
  <2>2. TypeOK'
    <3>1. sp' \in 0 .. N
      BY <1>6, PoolSize DEF ScheduleBack, InScheduler, release, IInv, PlaceOK, TypeOK, Procs
    <3> QED
      BY <1>6, <2>1, <3>1, Zenon DEF ScheduleBack, InScheduler, release, IInv, TypeOK, procVars
  <2>3. NoPanic'
    BY <1>6 DEF ScheduleBack, InScheduler, release, IInv, NoPanic, HeldOK, PlaceOK, IntrOK
  <2>4. HeldOK' /\ PlaceOK'
    BY <1>6, <2>1, NoProcFresh DEF ScheduleBack, InScheduler, release, IInv, TypeOK,
       HeldOK, HeldAt, NumOffAt, PlaceOK, OffCpuOK, procVars
  <2>5. OffCpuOK'
    BY <1>6, NoProcFresh, Zenon DEF ScheduleBack, InScheduler, release, IInv, TypeOK, PlaceOK,
       OffCpuOK, procVars
  <2>6. IntrOK'
    BY <1>6, <2>1, NoProcFresh DEF ScheduleBack, InScheduler, release, IInv, TypeOK,
       HeldOK, PlaceOK, OffCpuOK, IntrOK, procVars
  <2> QED
    BY <2>2, <2>3, <2>4, <2>5, <2>6, Zenon DEF Kept
<1> QED
  BY <1>1, <1>2, <1>3, <1>4, <1>5, <1>6, Zenon DEF start_schedule

-----------------------------------------------------------------------------
(* The steps of a process and the timer interrupt *)

\* The processes that a trap interrupted in the kernel are finitely many.
LEMMA FrameSetFinite ==
    IsFiniteSet({p \in Procs : frame[p] \notin {"none", "user"}})
<1>1. IsFiniteSet(Procs)
  BY PoolSize, FS_Interval DEF Procs
<1> QED
  BY <1>1, FS_Subset, Zenon

(* A kernel trap that is left was counted. *)
LEMMA TrapsPositive ==
    ASSUME IInv, NEW p \in Procs, frame[p] \notin {"none", "user"}
    PROVE  traps - 1 \in Nat
<1> DEFINE F == {q \in Procs : frame[q] \notin {"none", "user"}}
<1>1. IsFiniteSet(F) /\ p \in F
  BY FrameSetFinite, Zenon
<1>2. Cardinality(F) \in Nat /\ Cardinality(F) # 0
  BY <1>1, FS_CardinalityType, FS_EmptySet, Zenon
<1> QED
  BY <1>2 DEF IInv, TrapCount

\* Every step of a process, and a trap that interrupts it, preserves IInv, but
\* for TrapCount.
LEMMA ProcessStep ==
    ASSUME IInv, NEW p \in Procs,
           KernelStep(p) \/ KernelCall(p) \/ Syscall(p) \/ Interrupt(p)
    PROVE  Kept'
<1>1. CASE fork_ret(p)
  <2>1. /\ cur = p /\ cur # NoProc /\ sp = p /\ spc = "back"
        /\ held = {p} /\ cpu.numOff = 1 /\ frame[p] = "none"
    BY <1>1, NoProcFresh, Zenon DEF fork_ret, At, IInv, TypeOK, HeldOK, HeldAt, NumOffAt,
       PlaceOK, IntrOK
  <2>2. \A q \in Procs : q # p => pc[q] \in {"new", "sl_ret", "y_ret"}
    BY <2>1, Zenon DEF IInv, OffCpuOK
  <2>3. cpu' \in Cpu /\ cpu'.numOff = cpu.numOff - 1 /\ (cpu'.intr = 1 => cpu.intr = 1 \/ cpu.numOff = 1)
    BY <1>1, <2>1, Pop, Zenon DEF fork_ret, At, goto, release, IInv, TypeOK
  <2>4. TypeOK'
    BY <1>1, <2>3, Zenon DEF fork_ret, At, goto, release, IInv, TypeOK, procVars, PcStates,
       schedVars, TicksLock
  <2>5. NoPanic'
    BY <1>1, <2>1 DEF fork_ret, At, goto, release, IInv, NoPanic, IntrOK, TicksLock,
       Procs, TypeOK, Cpu
  <2>6. HeldOK' /\ PlaceOK'
    BY <1>1, <2>1, <2>2, <2>3, NoProcFresh DEF fork_ret, At, goto, release, IInv,
       TypeOK, HeldOK, HeldAt, NumOffAt, PlaceOK, schedVars, TicksLock, Procs
  <2>7. OffCpuOK'
    BY <1>1, <2>1, NoProcFresh DEF fork_ret, At, goto, release, IInv, TypeOK, OffCpuOK, IntrOK
  <2>8. IntrOK'
    BY <1>1, <2>1, <2>2, <2>3, NoProcFresh DEF fork_ret, At, goto, release, IInv, TypeOK, IntrOK
  <2> QED
    BY <2>4, <2>5, <2>6, <2>7, <2>8, Zenon DEF Kept
<1>2. CASE Syscall(p)
  <2>1. /\ cur = p /\ cur # NoProc /\ sp = p /\ spc = "back"
        /\ held = {} /\ cpu.numOff = 0 /\ frame[p] = "none"
    BY <1>2, NoProcFresh, Zenon DEF Syscall, At, IInv, TypeOK, HeldOK, HeldAt, NumOffAt,
       PlaceOK, IntrOK
  <2>2. \A q \in Procs : q # p => pc[q] \in {"new", "sl_ret", "y_ret"}
    BY <2>1, Zenon DEF IInv, OffCpuOK
  <2>4. TypeOK'
    BY <1>2, Zenon DEF Syscall, At, goto, IInv, TypeOK, procVars, PcStates, schedVars, TicksLock
  <2>5. NoPanic'
    BY <1>2, <2>1, Zenon DEF Syscall, At, goto, IInv, NoPanic, IntrOK, TicksLock, Procs, TypeOK, Cpu
  <2>6. HeldOK' /\ PlaceOK'
    BY <1>2, <2>1, <2>2, NoProcFresh, Zenon DEF Syscall, At, goto, IInv, TypeOK, HeldOK,
       HeldAt, NumOffAt, PlaceOK, schedVars, TicksLock, Procs
  <2>7. OffCpuOK'
    BY <1>2, <2>1, NoProcFresh DEF Syscall, At, goto, IInv, TypeOK, OffCpuOK, IntrOK
  <2>8. IntrOK'
    BY <1>2, <2>1, <2>2, NoProcFresh, Zenon DEF Syscall, At, goto, IInv, TypeOK, IntrOK
  <2> QED
    BY <2>4, <2>5, <2>6, <2>7, <2>8, Zenon DEF Kept
<1>3. CASE user_trap_ret(p)
  <2>1. /\ cur = p /\ cur # NoProc /\ sp = p /\ spc = "back"
        /\ held = {} /\ cpu.numOff = 0 /\ frame[p] = "none"
    BY <1>3, NoProcFresh, Zenon DEF user_trap_ret, At, IInv, TypeOK, HeldOK, HeldAt, NumOffAt,
       PlaceOK, IntrOK
  <2>2. \A q \in Procs : q # p => pc[q] \in {"new", "sl_ret", "y_ret"}
    BY <2>1, Zenon DEF IInv, OffCpuOK
  <2>3. cpu' \in Cpu /\ cpu'.intr = 1 /\ cpu'.numOff = cpu.numOff
    BY <1>3, <2>1, SetIntr, Zenon DEF user_trap_ret, At, goto, IInv, TypeOK
  <2>4. TypeOK'
    BY <1>3, <2>3, Zenon DEF user_trap_ret, At, goto, IInv, TypeOK, procVars, PcStates,
       schedVars, TicksLock
  <2>5. NoPanic'
    BY <1>3, <2>1, Zenon DEF user_trap_ret, At, goto, IInv, NoPanic, IntrOK, TicksLock, Procs,
       TypeOK, Cpu
  <2>6. HeldOK' /\ PlaceOK'
    BY <1>3, <2>1, <2>2, <2>3, NoProcFresh, Zenon DEF user_trap_ret, At, goto, IInv, TypeOK,
       HeldOK, HeldAt, NumOffAt, PlaceOK, schedVars, TicksLock, Procs
  <2>7. OffCpuOK'
    BY <1>3, <2>1, NoProcFresh DEF user_trap_ret, At, goto, IInv, TypeOK, OffCpuOK, IntrOK
  <2>8. IntrOK'
    BY <1>3, <2>1, <2>2, <2>3, NoProcFresh, Zenon DEF user_trap_ret, At, goto, IInv, TypeOK, IntrOK
  <2> QED
    BY <2>4, <2>5, <2>6, <2>7, <2>8, Zenon DEF Kept
<1>4. CASE SleepCall(p)
  <2>1. /\ cur = p /\ cur # NoProc /\ sp = p /\ spc = "back"
        /\ held = {} /\ cpu.numOff = 0 /\ frame[p] = "none"
    BY <1>4, NoProcFresh, Zenon DEF SleepCall, At, IInv, TypeOK, HeldOK, HeldAt, NumOffAt,
       PlaceOK, IntrOK
  <2>2. \A q \in Procs : q # p => pc[q] \in {"new", "sl_ret", "y_ret"}
    BY <2>1, Zenon DEF IInv, OffCpuOK
  <2>3. cpu' \in Cpu /\ cpu'.intr = 0 /\ cpu'.numOff = cpu.numOff + 1
    BY <1>4, <2>1, Push, Zenon DEF SleepCall, At, goto, acquire, IInv, TypeOK
  <2>4. TypeOK'
    <3>1. rem' \in [Procs -> 0 .. MaxSleep]
      BY <1>4, Zenon DEF SleepCall, At, goto, acquire, IInv, TypeOK
    <3> QED
      BY <1>4, <2>3, <3>1, Zenon DEF SleepCall, At, goto, acquire, IInv, TypeOK, PcStates,
         schedVars, TicksLock
  <2>5. NoPanic'
    BY <1>4, <2>1, Zenon DEF SleepCall, At, goto, acquire, IInv, NoPanic, IntrOK, TicksLock,
       Procs, TypeOK, Cpu
  <2>6. HeldOK' /\ PlaceOK'
    BY <1>4, <2>1, <2>2, <2>3, NoProcFresh DEF SleepCall, At, goto, acquire, IInv,
       TypeOK, HeldOK, HeldAt, NumOffAt, PlaceOK, schedVars, TicksLock, Procs
  <2>7. OffCpuOK'
    BY <1>4, <2>1, NoProcFresh DEF SleepCall, At, goto, acquire, IInv, TypeOK, OffCpuOK, IntrOK
  <2>8. IntrOK'
    BY <1>4, <2>1, <2>2, <2>3, NoProcFresh DEF SleepCall, At, goto, acquire, IInv,
       TypeOK, IntrOK
  <2> QED
    BY <2>4, <2>5, <2>6, <2>7, <2>8, Zenon DEF Kept
<1>5. CASE SleepTest(p)
  <2>1. /\ cur = p /\ cur # NoProc /\ sp = p /\ spc = "back"
        /\ held = {TicksLock} /\ cpu.numOff = 1 /\ frame[p] = "none"
    BY <1>5, NoProcFresh, Zenon DEF SleepTest, At, IInv, TypeOK, HeldOK, HeldAt, NumOffAt,
       PlaceOK, IntrOK
  <2>2. \A q \in Procs : q # p => pc[q] \in {"new", "sl_ret", "y_ret"}
    BY <2>1, Zenon DEF IInv, OffCpuOK
  <2>4. TypeOK'
    BY <1>5, Zenon DEF SleepTest, At, goto, IInv, TypeOK, procVars, PcStates, schedVars, TicksLock
  <2>5. NoPanic'
    BY <1>5, <2>1, Zenon DEF SleepTest, At, goto, IInv, NoPanic, IntrOK, TicksLock, Procs, TypeOK, Cpu
  <2>6. HeldOK' /\ PlaceOK'
    BY <1>5, <2>1, <2>2, NoProcFresh, Zenon DEF SleepTest, At, goto, IInv, TypeOK, HeldOK,
       HeldAt, NumOffAt, PlaceOK, schedVars, TicksLock, Procs
  <2>7. OffCpuOK'
    BY <1>5, <2>1, NoProcFresh DEF SleepTest, At, goto, IInv, TypeOK, OffCpuOK, IntrOK
  <2>8. IntrOK'
    BY <1>5, <2>1, <2>2, NoProcFresh, Zenon DEF SleepTest, At, goto, IInv, TypeOK, IntrOK
  <2> QED
    BY <2>4, <2>5, <2>6, <2>7, <2>8, Zenon DEF Kept
<1>6. CASE SleepDone(p)
  <2>1. /\ cur = p /\ cur # NoProc /\ sp = p /\ spc = "back"
        /\ held = {TicksLock} /\ cpu.numOff = 1 /\ frame[p] = "none"
    BY <1>6, NoProcFresh, Zenon DEF SleepDone, At, IInv, TypeOK, HeldOK, HeldAt, NumOffAt,
       PlaceOK, IntrOK
  <2>2. \A q \in Procs : q # p => pc[q] \in {"new", "sl_ret", "y_ret"}
    BY <2>1, Zenon DEF IInv, OffCpuOK
  <2>3. cpu' \in Cpu /\ cpu'.numOff = cpu.numOff - 1 /\ (cpu'.intr = 1 => cpu.intr = 1 \/ cpu.numOff = 1)
    BY <1>6, <2>1, Pop, Zenon DEF SleepDone, At, goto, release, IInv, TypeOK
  <2>4. TypeOK'
    BY <1>6, <2>3, Zenon DEF SleepDone, At, goto, release, IInv, TypeOK, procVars, PcStates,
       schedVars, TicksLock
  <2>5. NoPanic'
    BY <1>6, <2>1 DEF SleepDone, At, goto, release, IInv, NoPanic, IntrOK, TicksLock,
       Procs, TypeOK, Cpu
  <2>6. HeldOK' /\ PlaceOK'
    BY <1>6, <2>1, <2>2, <2>3, NoProcFresh, SMTT(20) DEF SleepDone, At, goto, release, IInv,
       TypeOK, HeldOK, HeldAt, NumOffAt, PlaceOK, schedVars, TicksLock, Procs
  <2>7. OffCpuOK'
    BY <1>6, <2>1, NoProcFresh DEF SleepDone, At, goto, release, IInv, TypeOK, OffCpuOK, IntrOK
  <2>8. IntrOK'
    BY <1>6, <2>1, <2>2, <2>3, NoProcFresh DEF SleepDone, At, goto, release, IInv,
       TypeOK, IntrOK
  <2> QED
    BY <2>4, <2>5, <2>6, <2>7, <2>8, Zenon DEF Kept
<1>18. CASE SleepKilled(p)
  <2>1. /\ cur = p /\ cur # NoProc /\ sp = p /\ spc = "back"
        /\ held = {TicksLock} /\ cpu.numOff = 1 /\ frame[p] = "none"
    BY <1>18, NoProcFresh, Zenon DEF SleepKilled, At, IInv, TypeOK, HeldOK, HeldAt, NumOffAt,
       PlaceOK, IntrOK
  <2>2. \A q \in Procs : q # p => pc[q] \in {"new", "sl_ret", "y_ret"}
    BY <2>1, Zenon DEF IInv, OffCpuOK
  <2>3. cpu' \in Cpu /\ cpu'.numOff = cpu.numOff - 1 /\ (cpu'.intr = 1 => cpu.intr = 1 \/ cpu.numOff = 1)
    BY <1>18, <2>1, Pop, Zenon DEF SleepKilled, At, goto, release, IInv, TypeOK
  <2>4. TypeOK'
    BY <1>18, <2>3, Zenon DEF SleepKilled, At, goto, release, IInv, TypeOK, procVars, PcStates,
       schedVars, TicksLock
  <2>5. NoPanic'
    BY <1>18, <2>1 DEF SleepKilled, At, goto, release, IInv, NoPanic, IntrOK, TicksLock,
       Procs, TypeOK, Cpu
  <2>6. HeldOK' /\ PlaceOK'
    BY <1>18, <2>1, <2>2, <2>3, NoProcFresh DEF SleepKilled, At, goto, release, IInv,
       TypeOK, HeldOK, HeldAt, NumOffAt, PlaceOK, schedVars, TicksLock, Procs
  <2>7. OffCpuOK'
    BY <1>18, <2>1, NoProcFresh, SMTT(20) DEF SleepKilled, At, goto, release, IInv, TypeOK,
       OffCpuOK, IntrOK
  <2>8. IntrOK'
    BY <1>18, <2>1, <2>2, <2>3, NoProcFresh DEF SleepKilled, At, goto, release, IInv,
       TypeOK, IntrOK
  <2> QED
    BY <2>4, <2>5, <2>6, <2>7, <2>8, Zenon DEF Kept
<1>7. CASE SleepAcquire(p)
  <2>1. /\ cur = p /\ cur # NoProc /\ sp = p /\ spc = "back"
        /\ held = {TicksLock} /\ cpu.numOff = 1 /\ frame[p] = "none"
    BY <1>7, NoProcFresh, Zenon DEF SleepAcquire, At, IInv, TypeOK, HeldOK, HeldAt, NumOffAt,
       PlaceOK, IntrOK
  <2>2. \A q \in Procs : q # p => pc[q] \in {"new", "sl_ret", "y_ret"}
    BY <2>1, Zenon DEF IInv, OffCpuOK
  <2>3. cpu' \in Cpu /\ cpu'.intr = 0 /\ cpu'.numOff = cpu.numOff + 1
    BY <1>7, <2>1, Push, Zenon DEF SleepAcquire, At, goto, acquire, IInv, TypeOK
  <2>4. TypeOK'
    BY <1>7, <2>3, Zenon DEF SleepAcquire, At, goto, acquire, IInv, TypeOK, procVars, PcStates,
       schedVars, TicksLock
  <2>5. NoPanic'
    BY <1>7, <2>1 DEF SleepAcquire, At, goto, acquire, IInv, NoPanic, IntrOK, TicksLock,
       Procs, TypeOK, Cpu
  <2>6. HeldOK' /\ PlaceOK'
    BY <1>7, <2>1, <2>2, <2>3, NoProcFresh, SMTT(20) DEF SleepAcquire, At, goto, acquire, IInv,
       TypeOK, HeldOK, HeldAt, NumOffAt, PlaceOK, schedVars, TicksLock, Procs
  <2>7. OffCpuOK'
    BY <1>7, <2>1, NoProcFresh, SMTT(20) DEF SleepAcquire, At, goto, acquire, IInv, TypeOK,
       OffCpuOK, IntrOK
  <2>8. IntrOK'
    BY <1>7, <2>1, <2>2, <2>3, NoProcFresh DEF SleepAcquire, At, goto, acquire, IInv,
       TypeOK, IntrOK
  <2> QED
    BY <2>4, <2>5, <2>6, <2>7, <2>8, Zenon DEF Kept
<1>8. CASE SleepRelease(p)
  <2>1. /\ cur = p /\ cur # NoProc /\ sp = p /\ spc = "back"
        /\ held = {TicksLock, p} /\ cpu.numOff = 2 /\ frame[p] = "none"
    BY <1>8, NoProcFresh, Zenon DEF SleepRelease, At, IInv, TypeOK, HeldOK, HeldAt, NumOffAt,
       PlaceOK, IntrOK
  <2>2. \A q \in Procs : q # p => pc[q] \in {"new", "sl_ret", "y_ret"}
    BY <2>1, Zenon DEF IInv, OffCpuOK
  <2>3. cpu' \in Cpu /\ cpu'.numOff = cpu.numOff - 1 /\ (cpu'.intr = 1 => cpu.intr = 1 \/ cpu.numOff = 1)
    BY <1>8, <2>1, Pop, Zenon DEF SleepRelease, At, goto, release, IInv, TypeOK
  <2>4. TypeOK'
    BY <1>8, <2>3, Zenon DEF SleepRelease, At, goto, release, IInv, TypeOK, procVars, PcStates,
       schedVars, TicksLock
  <2>5. NoPanic'
    BY <1>8, <2>1 DEF SleepRelease, At, goto, release, IInv, NoPanic, IntrOK, TicksLock,
       Procs, TypeOK, Cpu
  <2>6. HeldOK' /\ PlaceOK'
    BY <1>8, <2>1, <2>2, <2>3, NoProcFresh, SMTT(20) DEF SleepRelease, At, goto, release, IInv,
       TypeOK, HeldOK, HeldAt, NumOffAt, PlaceOK, schedVars, TicksLock, Procs
  <2>7. OffCpuOK'
    BY <1>8, <2>1, NoProcFresh DEF SleepRelease, At, goto, release, IInv, TypeOK,
       OffCpuOK, IntrOK
  <2>8. IntrOK'
    BY <1>8, <2>1, <2>2, <2>3, NoProcFresh DEF SleepRelease, At, goto, release, IInv,
       TypeOK, IntrOK
  <2> QED
    BY <2>4, <2>5, <2>6, <2>7, <2>8, Zenon DEF Kept
<1>9. CASE SleepSwitch(p)
  <2>1. /\ cur = p /\ cur # NoProc /\ sp = p /\ spc = "back"
        /\ held = {p} /\ cpu.numOff = 1 /\ frame[p] = "none"
    BY <1>9, NoProcFresh, Zenon DEF SleepSwitch, At, IInv, TypeOK, HeldOK, HeldAt, NumOffAt,
       PlaceOK, IntrOK
  <2>2. \A q \in Procs : q # p => pc[q] \in {"new", "sl_ret", "y_ret"}
    BY <2>1, Zenon DEF IInv, OffCpuOK
  <2>4. TypeOK'
    <3>1. saved' \in [Procs -> {0, 1}]
      BY <1>9, Zenon DEF SleepSwitch, At, goto, call_sched, IInv, TypeOK, Cpu
    <3> QED
      BY <1>9, <2>1, <3>1, Zenon DEF SleepSwitch, At, goto, call_sched, IInv, TypeOK,
         PcStates, schedVars
  <2>5. NoPanic'
    BY <1>9, <2>1, Zenon DEF SleepSwitch, At, goto, call_sched, IInv, NoPanic, IntrOK,
       TicksLock, Procs, TypeOK, Cpu
  <2>6. HeldOK' /\ PlaceOK'
    BY <1>9, <2>1, <2>2, NoProcFresh, Zenon DEF SleepSwitch, At, goto, call_sched, IInv,
       TypeOK, HeldOK, HeldAt, NumOffAt, PlaceOK, schedVars, TicksLock, Procs
  <2>7. OffCpuOK'
    BY <1>9, <2>1, NoProcFresh DEF SleepSwitch, At, goto, call_sched, IInv, TypeOK,
       OffCpuOK, IntrOK
  <2>8. IntrOK'
    BY <1>9, <2>1, <2>2, NoProcFresh DEF SleepSwitch, At, goto, call_sched, IInv, TypeOK, IntrOK
  <2> QED
    BY <2>4, <2>5, <2>6, <2>7, <2>8, Zenon DEF Kept
<1>10. CASE SleepReturn(p)
  <2>1. /\ cur = p /\ cur # NoProc /\ sp = p /\ spc = "back"
        /\ held = {p} /\ cpu.numOff = 1 /\ frame[p] = "none"
    BY <1>10, NoProcFresh, Zenon DEF SleepReturn, At, IInv, TypeOK, HeldOK, HeldAt, NumOffAt,
       PlaceOK, IntrOK
  <2>2. \A q \in Procs : q # p => pc[q] \in {"new", "sl_ret", "y_ret"}
    BY <2>1, Zenon DEF IInv, OffCpuOK
  <2>3. cpu' \in Cpu /\ cpu'.numOff = 0 /\ (cpu'.intr = 1 => cpu.intr = 1 \/ saved[p] = 1)
    <3>1. cpu \in Cpu /\ saved[p] \in {0, 1}
      BY Zenon DEF IInv, TypeOK
    <3>2. cpu' = PopOff([cpu EXCEPT !.intEna = saved[p]])
      BY <1>10, Zenon DEF SleepReturn, sched_return
    <3>3. PICK b \in {0, 1} : b = saved[p]
      BY <3>1, Zenon
    <3> QED
      BY <2>1, <3>1, <3>2, <3>3 DEF PopOff, Cpu
  <2>4. TypeOK'
    BY <1>10, <2>3, Zenon DEF SleepReturn, At, goto, sched_return, IInv, TypeOK, procVars,
       PcStates, schedVars, TicksLock
  <2>5. NoPanic'
    BY <1>10, <2>1 DEF SleepReturn, At, goto, sched_return, IInv, NoPanic, IntrOK,
       TicksLock, Procs, TypeOK, Cpu
  <2>6. HeldOK' /\ PlaceOK'
    BY <1>10, <2>1, <2>2, <2>3, NoProcFresh DEF SleepReturn, At, goto, sched_return,
       IInv, TypeOK, HeldOK, HeldAt, NumOffAt, PlaceOK, schedVars, TicksLock, Procs
  <2>7. OffCpuOK'
    BY <1>10, <2>1, NoProcFresh DEF SleepReturn, At, goto, sched_return, IInv, TypeOK,
       OffCpuOK, IntrOK
  <2>8. IntrOK'
    BY <1>10, <2>1, <2>2, <2>3, NoProcFresh DEF SleepReturn, At, goto, sched_return,
       IInv, TypeOK, IntrOK
  <2> QED
    BY <2>4, <2>5, <2>6, <2>7, <2>8, Zenon DEF Kept
<1>11. CASE SleepRelock(p)
  <2>1. /\ cur = p /\ cur # NoProc /\ sp = p /\ spc = "back"
        /\ held = {} /\ cpu.numOff = 0 /\ frame[p] = "none"
    BY <1>11, NoProcFresh, Zenon DEF SleepRelock, At, IInv, TypeOK, HeldOK, HeldAt, NumOffAt,
       PlaceOK, IntrOK
  <2>2. \A q \in Procs : q # p => pc[q] \in {"new", "sl_ret", "y_ret"}
    BY <2>1, Zenon DEF IInv, OffCpuOK
  <2>3. cpu' \in Cpu /\ cpu'.intr = 0 /\ cpu'.numOff = cpu.numOff + 1
    BY <1>11, <2>1, Push, Zenon DEF SleepRelock, At, goto, acquire, IInv, TypeOK
  <2>4. TypeOK'
    BY <1>11, <2>3, Zenon DEF SleepRelock, At, goto, acquire, IInv, TypeOK, procVars, PcStates,
       schedVars, TicksLock
  <2>5. NoPanic'
    BY <1>11, <2>1, Zenon DEF SleepRelock, At, goto, acquire, IInv, NoPanic, IntrOK, TicksLock,
       Procs, TypeOK, Cpu
  <2>6. HeldOK' /\ PlaceOK'
    BY <1>11, <2>1, <2>2, <2>3, NoProcFresh DEF SleepRelock, At, goto, acquire, IInv,
       TypeOK, HeldOK, HeldAt, NumOffAt, PlaceOK, schedVars, TicksLock, Procs
  <2>7. OffCpuOK'
    BY <1>11, <2>1, NoProcFresh DEF SleepRelock, At, goto, acquire, IInv, TypeOK,
       OffCpuOK, IntrOK
  <2>8. IntrOK'
    BY <1>11, <2>1, <2>2, <2>3, NoProcFresh DEF SleepRelock, At, goto, acquire, IInv,
       TypeOK, IntrOK
  <2> QED
    BY <2>4, <2>5, <2>6, <2>7, <2>8, Zenon DEF Kept
<1>12. CASE SchedYield(p)
  <2>1. /\ cur = p /\ cur # NoProc /\ sp = p /\ spc = "back"
        /\ held = {} /\ cpu.numOff = 0 /\ frame[p] = "none"
    BY <1>12, NoProcFresh, Zenon DEF SchedYield, At, IInv, TypeOK, HeldOK, HeldAt, NumOffAt,
       PlaceOK, IntrOK
  <2>2. \A q \in Procs : q # p => pc[q] \in {"new", "sl_ret", "y_ret"}
    BY <2>1, Zenon DEF IInv, OffCpuOK
  <2>3. cpu' \in Cpu /\ cpu'.intr = 0 /\ cpu'.numOff = cpu.numOff + 1
    BY <1>12, <2>1, Push, Zenon DEF SchedYield, At, goto, yield, acquire, IInv, TypeOK
  <2>4. TypeOK'
    BY <1>12, <2>3, Zenon DEF SchedYield, At, goto, yield, acquire, IInv, TypeOK, procVars,
       PcStates, schedVars, TicksLock
  <2>5. NoPanic'
    BY <1>12, <2>1, Zenon DEF SchedYield, At, goto, yield, acquire, IInv, NoPanic, IntrOK,
       TicksLock, Procs, TypeOK, Cpu
  <2>6. HeldOK' /\ PlaceOK'
    BY <1>12, <2>1, <2>2, <2>3, NoProcFresh, SMTT(20) DEF SchedYield, At, goto, yield, acquire,
       IInv, TypeOK, HeldOK, HeldAt, NumOffAt, PlaceOK, schedVars, TicksLock, Procs
  <2>7. OffCpuOK'
    BY <1>12, <2>1, NoProcFresh DEF SchedYield, At, goto, yield, acquire, IInv, TypeOK,
       OffCpuOK, IntrOK
  <2>8. IntrOK'
    BY <1>12, <2>1, <2>2, <2>3, NoProcFresh DEF SchedYield, At, goto, yield, acquire,
       IInv, TypeOK, IntrOK
  <2> QED
    BY <2>4, <2>5, <2>6, <2>7, <2>8, Zenon DEF Kept
<1>13. CASE YieldSwitch(p)
  <2>1. /\ cur = p /\ cur # NoProc /\ sp = p /\ spc = "back"
        /\ held = {p} /\ cpu.numOff = 1 /\ (frame[p] # "none" => cpu.intEna = 0)
    BY <1>13, NoProcFresh, Zenon DEF YieldSwitch, At, IInv, TypeOK, HeldOK, HeldAt, NumOffAt,
       PlaceOK, IntrOK
  <2>2. \A q \in Procs : q # p => pc[q] \in {"new", "sl_ret", "y_ret"}
    BY <2>1, Zenon DEF IInv, OffCpuOK
  <2>4. TypeOK'
    <3>1. saved' \in [Procs -> {0, 1}]
      BY <1>13, Zenon DEF YieldSwitch, At, goto, call_sched, IInv, TypeOK, Cpu
    <3> QED
      BY <1>13, <2>1, <3>1, Zenon DEF YieldSwitch, At, goto, call_sched, IInv, TypeOK,
         PcStates, schedVars
  <2>5. NoPanic'
    BY <1>13, <2>1 DEF YieldSwitch, At, goto, call_sched, IInv, NoPanic, IntrOK,
       TicksLock, Procs, TypeOK, Cpu
  <2>6. HeldOK' /\ PlaceOK'
    BY <1>13, <2>1, <2>2, NoProcFresh, Zenon DEF YieldSwitch, At, goto, call_sched, IInv,
       TypeOK, HeldOK, HeldAt, NumOffAt, PlaceOK, schedVars, TicksLock, Procs
  <2>7. OffCpuOK'
    BY <1>13, <2>1, NoProcFresh DEF YieldSwitch, At, goto, call_sched, IInv, TypeOK,
       OffCpuOK, IntrOK
  <2>8. IntrOK'
    BY <1>13, <2>1, <2>2, NoProcFresh DEF YieldSwitch, At, goto, call_sched, IInv,
       TypeOK, IntrOK
  <2> QED
    BY <2>4, <2>5, <2>6, <2>7, <2>8, Zenon DEF Kept
<1>14. CASE YieldReturn(p)
  <2>1. /\ cur = p /\ cur # NoProc /\ sp = p /\ spc = "back"
        /\ held = {p} /\ cpu.numOff = 1 /\ (frame[p] # "none" => saved[p] = 0)
    BY <1>14, NoProcFresh, Zenon DEF YieldReturn, At, IInv, TypeOK, HeldOK, HeldAt, NumOffAt,
       PlaceOK, IntrOK
  <2>2. \A q \in Procs : q # p => pc[q] \in {"new", "sl_ret", "y_ret"}
    BY <2>1, Zenon DEF IInv, OffCpuOK
  <2>3. cpu' \in Cpu /\ cpu'.numOff = 0 /\ (cpu'.intr = 1 => cpu.intr = 1 \/ saved[p] = 1)
    <3>1. cpu \in Cpu /\ saved[p] \in {0, 1}
      BY Zenon DEF IInv, TypeOK
    <3>2. cpu' = PopOff([cpu EXCEPT !.intEna = saved[p]])
      BY <1>14, Zenon DEF YieldReturn, sched_return
    <3>3. PICK b \in {0, 1} : b = saved[p]
      BY <3>1, Zenon
    <3> QED
      BY <2>1, <3>1, <3>2, <3>3 DEF PopOff, Cpu
  <2>4. TypeOK'
    BY <1>14, <2>3, Zenon DEF YieldReturn, At, goto, sched_return, IInv, TypeOK, procVars,
       PcStates, schedVars, TicksLock
  <2>5. NoPanic'
    BY <1>14, <2>1 DEF YieldReturn, At, goto, sched_return, IInv, NoPanic, IntrOK,
       TicksLock, Procs, TypeOK, Cpu
  <2>6. HeldOK' /\ PlaceOK'
    BY <1>14, <2>1, <2>2, <2>3, NoProcFresh DEF YieldReturn, At, goto, sched_return,
       IInv, TypeOK, HeldOK, HeldAt, NumOffAt, PlaceOK, schedVars, TicksLock, Procs
  <2>7. OffCpuOK'
    BY <1>14, <2>1, NoProcFresh DEF YieldReturn, At, goto, sched_return, IInv, TypeOK,
       OffCpuOK, IntrOK
  <2>8. IntrOK'
    <3>1. cpu'.intr = 1 => frame[p] = "none"
      BY <2>1, <2>3 DEF IInv, IntrOK
    <3>2. frame' = frame /\ saved' = saved /\ cur' = p
      BY <1>14, <2>1, Zenon DEF YieldReturn
    <3>3. pc'[p] = (IF frame[p] = "none" THEN "kern" ELSE "t_out") /\ \A q \in Procs : q # p => pc'[q] = pc[q]
      BY <1>14, Zenon DEF YieldReturn, goto, IInv, TypeOK
    <3> QED
      BY <2>2, <2>3, <3>1, <3>2, <3>3 DEF IInv, IntrOK, TypeOK, Cpu
  <2> QED
    BY <2>4, <2>5, <2>6, <2>7, <2>8, Zenon DEF Kept
<1>15. CASE sche_proc(p)
  <2>1. /\ cur = p /\ cur # NoProc /\ sp = p /\ spc = "back"
        /\ held = {} /\ cpu.numOff = 0 /\ cpu.intr = 0 /\ frame[p] # "none"
    BY <1>15, NoProcFresh, Zenon DEF sche_proc, At, IInv, TypeOK, HeldOK, HeldAt, NumOffAt,
       PlaceOK, IntrOK
  <2>2. \A q \in Procs : q # p => pc[q] \in {"new", "sl_ret", "y_ret"}
    BY <2>1, Zenon DEF IInv, OffCpuOK
  <2>3. cpu' \in Cpu /\ cpu'.intr = 0 /\ (slot[p] = 1 => cpu'.numOff = 1 /\ cpu'.intEna = 0) /\ (slot[p] # 1 => cpu' = cpu)
    BY <1>15, <2>1, Push DEF sche_proc, At, goto, yield, acquire, IInv, TypeOK
  <2>4. TypeOK'
    <3>1. slot' \in [Procs -> 1 .. Slot]
      BY <1>15, SlotSize DEF sche_proc, At, goto, yield, acquire, IInv, TypeOK
    <3> QED
      BY <1>15, <2>3, <3>1 DEF sche_proc, At, goto, yield, acquire, IInv, TypeOK,
         PcStates, schedVars
  <2>5. NoPanic'
    BY <1>15, <2>1, Zenon DEF sche_proc, At, goto, yield, acquire, IInv, NoPanic, IntrOK,
       TicksLock, Procs, TypeOK, Cpu
  <2>6. HeldOK' /\ PlaceOK'
    <3>1. cur' = p /\ cur' # NoProc /\ spc' = "back" /\ sp' = p
      BY <1>15, <2>1, Zenon DEF sche_proc, schedVars
    <3>2. CASE slot[p] = 1
      BY <1>15, <2>1, <2>3, <3>1, <3>2 DEF sche_proc, yield, acquire, goto, IInv,
         TypeOK, HeldOK, HeldAt, NumOffAt, PlaceOK
    <3>3. CASE slot[p] # 1
      BY <1>15, <2>1, <2>3, <3>1, <3>3, SMTT(20) DEF sche_proc, goto, IInv, TypeOK, HeldOK,
         HeldAt, NumOffAt, PlaceOK
    <3> QED
      BY <3>2, <3>3, Zenon
  <2>7. OffCpuOK'
    BY <1>15, <2>1, NoProcFresh, SMTT(20) DEF sche_proc, At, goto, yield, acquire, IInv, TypeOK,
       OffCpuOK, IntrOK
  <2>8. IntrOK'
    BY <1>15, <2>1, <2>2, <2>3, NoProcFresh DEF sche_proc, At, goto, yield, acquire,
       IInv, TypeOK, IntrOK
  <2> QED
    BY <2>4, <2>5, <2>6, <2>7, <2>8, Zenon DEF Kept
<1>16. CASE TrapReturn(p)
  <2>1. /\ cur = p /\ cur # NoProc /\ sp = p /\ spc = "back"
        /\ held = {} /\ cpu.numOff = 0 /\ cpu.intr = 0 /\ frame[p] # "none" /\ frame[p] \in FrameStates
    BY <1>16, NoProcFresh, Zenon DEF TrapReturn, At, IInv, TypeOK, HeldOK, HeldAt, NumOffAt,
       PlaceOK, IntrOK
  <2>2. \A q \in Procs : q # p => pc[q] \in {"new", "sl_ret", "y_ret"}
    BY <2>1, Zenon DEF IInv, OffCpuOK
  <2>3. cpu' \in Cpu /\ cpu'.intr = 1 /\ cpu'.numOff = cpu.numOff
    BY <1>16, <2>1, SetIntr, Zenon DEF TrapReturn, At, goto, IInv, TypeOK
  <2>4. TypeOK'
    <3>1. traps' \in Nat
      BY <1>16, <2>1, TrapsPositive, Zenon DEF TrapReturn, At, goto, IInv, TypeOK
    <3> QED
      BY <1>16, <2>1, <2>3, <3>1, Zenon DEF TrapReturn, At, goto, IInv, TypeOK, PcStates, schedVars
  <2>5. NoPanic'
    BY <1>16, <2>1, Zenon DEF TrapReturn, At, goto, IInv, NoPanic, IntrOK, TicksLock, Procs,
       TypeOK, Cpu
  <2>6. HeldOK' /\ PlaceOK'
    BY <1>16, <2>1, <2>2, <2>3, NoProcFresh DEF TrapReturn, At, goto, IInv, TypeOK,
       HeldOK, HeldAt, NumOffAt, PlaceOK, schedVars, TicksLock, Procs, FrameStates
  <2>7. OffCpuOK'
    BY <1>16, <2>1, NoProcFresh DEF TrapReturn, At, goto, IInv, TypeOK, OffCpuOK,
       IntrOK, FrameStates
  <2>8. IntrOK'
    BY <1>16, <2>1, <2>2, <2>3, NoProcFresh DEF TrapReturn, At, goto, IInv, TypeOK,
       IntrOK, FrameStates
  <2> QED
    BY <2>4, <2>5, <2>6, <2>7, <2>8, Zenon DEF Kept
<1>17. CASE Interrupt(p)
  <2>1. /\ cur = p /\ cur # NoProc /\ sp = p /\ spc = "back"
        /\ held = {} /\ cpu.numOff = 0 /\ frame[p] = "none" /\ pc[p] \in FrameStates
    BY <1>17, NoProcFresh DEF Interrupt, At, IInv, TypeOK, HeldOK, HeldAt, NumOffAt,
       PlaceOK, IntrOK, FrameStates, PcStates
  <2>2. \A q \in Procs : q # p => pc[q] \in {"new", "sl_ret", "y_ret"}
    BY <2>1, Zenon DEF IInv, OffCpuOK
  <2>3. cpu' \in Cpu /\ cpu'.numOff = 0 /\ cpu'.intr = 0
    <3> DEFINE c == [cpu EXCEPT !.intr = 0]
    <3>1. c \in Cpu /\ c.intr = 0 /\ c.numOff = 0
      BY <2>1, SetIntr, Zenon DEF IInv, TypeOK
    <3>2. cpu' = PopOff(PushOff(c))
      BY <1>17, Zenon DEF Interrupt, handle_clock_intr
    <3> HIDE DEF c
    <3>3. cpu' \in Cpu /\ (cpu'.intr = 1 => c.intr = 1) /\ cpu'.numOff = c.numOff
      BY <3>1, <3>2, PushPop, Zenon
    <3> QED
      BY <3>1, <3>3, Zenon DEF Cpu
  <2>4. TypeOK'
    <3>1. rem' \in [Procs -> 0 .. MaxSleep]
      BY <1>17, SleepBound DEF Interrupt, At, goto, handle_clock_intr, TrapPanic,
         wakeup, IInv, TypeOK
    <3>2. state' \in [Procs -> {"runnable", "running", "sleeping"}]
      BY <1>17, Zenon DEF Interrupt, At, goto, handle_clock_intr, TrapPanic, wakeup, IInv, TypeOK
    <3>3. traps' \in Nat
      BY <1>17 DEF Interrupt, At, goto, handle_clock_intr, TrapPanic, wakeup, IInv, TypeOK
    <3> QED
      BY <1>17, <2>1, <2>3, <3>1, <3>2, <3>3, Zenon DEF Interrupt, At, goto,
         handle_clock_intr, TrapPanic, wakeup, IInv, TypeOK, PcStates, schedVars
  <2>5. NoPanic'
    BY <1>17, <2>1, Zenon DEF Interrupt, At, goto, handle_clock_intr, TrapPanic, wakeup, IInv,
       NoPanic, IntrOK, TicksLock, Procs, TypeOK, Cpu
  <2>6. HeldOK' /\ PlaceOK'
    BY <1>17, <2>1, <2>2, <2>3, NoProcFresh, Zenon DEF Interrupt, At, goto, handle_clock_intr,
       TrapPanic, wakeup, IInv, TypeOK, HeldOK, HeldAt, NumOffAt, PlaceOK, schedVars,
       TicksLock, Procs, FrameStates
  <2>7. OffCpuOK'
    BY <1>17, <2>1, NoProcFresh DEF Interrupt, At, goto, handle_clock_intr, TrapPanic,
       wakeup, IInv, TypeOK, OffCpuOK, IntrOK, FrameStates
  <2>8. IntrOK'
    <3>1. cur' = p /\ saved' = saved /\ pc' = [pc EXCEPT ![p] = "t_sched"] /\ frame' = [frame EXCEPT ![p] = pc[p]] /\ pc[p] # "none"
      BY <1>17, Zenon DEF Interrupt, goto, IInv, TypeOK, PcStates
    <3> QED
      BY <2>1, <2>2, <2>3, <3>1 DEF IInv, IntrOK, TypeOK
  <2> QED
    BY <2>4, <2>5, <2>6, <2>7, <2>8, Zenon DEF Kept
<1> QED
  BY <1>1, <1>2, <1>3, <1>4, <1>5, <1>6, <1>7, <1>8, <1>9, <1>10, <1>11, <1>12, <1>13,
     <1>14, <1>15, <1>16, <1>17, <1>18, Zenon
     DEF KernelStep, KernelCall, sleep

\* So does a trap taken in start_schedule itself.
LEMMA SchedulerInterrupted ==
    ASSUME IInv, InterruptScheduler
    PROVE  Kept'
<1>1. cpu.numOff = 0 /\ held = {} /\ spc \notin {"locked", "back"}
  BY DEF InterruptScheduler, IInv, TypeOK, HeldOK, IntrOK
<1>2. cpu' \in Cpu /\ cpu'.intr = 1 /\ cpu'.numOff = 0
  <2> DEFINE c == [cpu EXCEPT !.intr = 0]
  <2> DEFINE d == PopOff(PushOff(c))
  <2>1. c \in Cpu /\ c.numOff = 0
    BY <1>1, SetIntr, Zenon DEF IInv, TypeOK
  <2>2. cpu' = [d EXCEPT !.intr = 1]
    BY Zenon DEF InterruptScheduler
  <2> HIDE DEF c
  <2>3. d \in Cpu /\ d.numOff = 0
    BY <2>1, PushPop, Zenon
  <2> HIDE DEF d
  <2> QED
    BY <2>2, <2>3, SetIntr, Zenon
<1>3. rem' \in [Procs -> 0 .. MaxSleep]
  BY SleepBound DEF InterruptScheduler, IInv, TypeOK
<1>4. TypeOK'
  BY <1>2, <1>3, Zenon DEF InterruptScheduler, TrapPanic, wakeup, IInv, TypeOK, schedVars
<1>5. NoPanic' /\ HeldOK' /\ PlaceOK'
  BY <1>1, <1>2, Zenon DEF InterruptScheduler, TrapPanic, IInv, NoPanic, HeldOK, PlaceOK, schedVars
<1>6. OffCpuOK'
  BY NoProcFresh, Zenon DEF InterruptScheduler, wakeup, IInv, TypeOK, OffCpuOK
<1>7. IntrOK'
  <2>1. cur' = NoProc /\ frame' = frame /\ pc' = pc /\ saved' = saved
    BY Zenon DEF InterruptScheduler
  <2>2. \A q \in Procs : pc[q] \in {"new", "sl_ret", "y_ret"}
    BY NoProcFresh, Zenon DEF InterruptScheduler, IInv, OffCpuOK
  <2> QED
    BY <1>2, <2>1, <2>2, NoProcFresh, Zenon DEF IInv, IntrOK
<1> QED
  BY <1>4, <1>5, <1>6, <1>7, Zenon DEF Kept

-----------------------------------------------------------------------------
(* kernel_trap_cnt *)

\* kernel_trap_cnt goes up and down with the traps of the processes.
LEMMA StepTraps == IInv /\ [Next]_vars => TrapCount'
<1> DEFINE F == {q \in Procs : frame[q] \notin {"none", "user"}}
<1> SUFFICES ASSUME IInv, [Next]_vars PROVE traps' = Cardinality(F')
  BY Zenon DEF TrapCount
<1>1. traps = Cardinality(F) /\ IsFiniteSet(F) /\ Cardinality(F) \in Nat
  BY FrameSetFinite, FS_CardinalityType, Zenon DEF IInv, TrapCount
<1>2. CASE frame' = frame /\ traps' = traps
  BY <1>1, <1>2, Zenon
<1>3. ASSUME NEW p \in Procs, Interrupt(p) PROVE traps' = Cardinality(F')
  <2>1. frame[p] = "none" /\ frame' = [frame EXCEPT ![p] = pc[p]] /\ pc[p] # "none"
    BY <1>3 DEF Interrupt, IInv, IntrOK, FrameStates, TypeOK, PcStates
  <2>2. CASE pc[p] = "user"
    <3>1. F' = F
      BY <2>1, <2>2, Zenon DEF IInv, TypeOK
    <3> QED
      BY <1>1, <1>3, <2>2, <3>1, Zenon DEF Interrupt
  <2>3. CASE pc[p] # "user"
    <3>1. F' = F \cup {p} /\ p \notin F
      BY <2>1, <2>3, Zenon DEF IInv, TypeOK
    <3>2. Cardinality(F \cup {p}) = Cardinality(F) + 1
      BY <1>1, <3>1, FS_AddElement, Zenon
    <3> QED
      BY <1>1, <1>3, <2>3, <3>1, <3>2, Zenon DEF Interrupt
  <2> QED
    BY <2>2, <2>3, Zenon
<1>4. ASSUME NEW p \in Procs, TrapReturn(p) PROVE traps' = Cardinality(F')
  <2>1. frame' = [frame EXCEPT ![p] = "none"] /\ frame[p] # "none"
    BY <1>4, Zenon DEF TrapReturn, At, IInv, IntrOK
  <2>2. CASE frame[p] = "user"
    <3>1. F' = F
      BY <2>1, <2>2, Zenon DEF IInv, TypeOK
    <3> QED
      BY <1>1, <1>4, <2>2, <3>1, Zenon DEF TrapReturn
  <2>3. CASE frame[p] # "user"
    <3>1. F' = F \ {p} /\ p \in F
      BY <2>1, <2>3, Zenon DEF IInv, TypeOK
    <3>2. Cardinality(F \ {p}) = Cardinality(F) - 1
      BY <1>1, <3>1, FS_RemoveElement, Zenon
    <3> QED
      BY <1>1, <1>4, <2>3, <3>1, <3>2, Zenon DEF TrapReturn
  <2> QED
    BY <2>2, <2>3, Zenon
<1> QED
  BY <1>2, <1>3, <1>4, Zenon DEF Next, vars, procVars, schedVars, start_schedule, ScheduleTop,
     SchedulePrio, ScheduleTest, ScheduleAcquire, ScheduleRun, ScheduleBack, KernelStep,
     KernelCall, Syscall, sleep, fork_ret, user_trap_ret, SleepCall, SleepTest, SleepDone, SleepKilled,
     SleepAcquire, SleepRelease, SleepSwitch, SleepReturn, SleepRelock, SchedYield,
     YieldSwitch, YieldReturn, sche_proc, Timer, InterruptScheduler

-----------------------------------------------------------------------------
(* Theorems *)

(* IInv is an invariant: every step of the scheduler, of a process and of  *)
(* the timer interrupt keeps it.                                           *)
THEOREM Invariance == Spec => []IInv
<1>1. IInv /\ UNCHANGED vars => Kept'
  BY DEF vars, procVars, schedVars, Kept, IInv, TypeOK, NoPanic, HeldOK, HeldAt, NumOffAt,
     PlaceOK, OffCpuOK, IntrOK
<1>2. IInv /\ [Next]_vars => IInv'
  BY <1>1, SchedulerStep, ProcessStep, SchedulerInterrupted, StepTraps, Zenon
     DEF Next, Timer, Kept, IInv
<1> QED
  BY InitInv, <1>2, PTL DEF Spec

(* The state of the scheduler is always well typed.                        *)
THEOREM TypeCorrect == Spec => []TypeOK
<1>1. IInv => TypeOK
  BY Zenon DEF IInv
<1> QED
  BY Invariance, <1>1, PTL

(* No lock panics and no failed assertion of call_sched, for any pool.     *)
THEOREM PanicFree == Spec => []NoPanic
<1>1. IInv => NoPanic
  BY Zenon DEF IInv
<1> QED
  BY Invariance, <1>1, PTL

(* _num_off is the number of held locks, and a held lock keeps interrupts  *)
(* off.                                                                    *)
THEOREM LocksMaskCorrect == Spec => []LocksMask
<1>1. IInv => LocksMask
  <2> SUFFICES ASSUME IInv PROVE LocksMask
    BY Zenon
  <2>1. \A x : Cardinality({x}) = 1 /\ IsFiniteSet({x})
    BY FS_Singleton, Zenon
  <2>2. Cardinality({}) = 0
    BY FS_EmptySet, Zenon
  <2>3. \A p \in Procs : Cardinality({TicksLock, p}) = 2
    <3> SUFFICES ASSUME NEW p \in Procs PROVE Cardinality({TicksLock, p}) = 2
      BY Zenon
    <3> DEFINE c == Cardinality({TicksLock})
    <3>1. p \notin {TicksLock}
      BY PoolSize DEF TicksLock, Procs
    <3>2. Cardinality({TicksLock} \cup {p}) = c + 1
      BY <3>1, <2>1, FS_AddElement, Zenon
    <3>3. {TicksLock} \cup {p} = {TicksLock, p}
      BY Zenon
    <3>4. c = 1
      BY <2>1, Zenon
    <3> HIDE DEF c
    <3>5. c + 1 = 2
      BY <3>4
    <3> QED
      BY <3>2, <3>3, <3>5, Zenon
  <2>4. cpu.numOff = Cardinality(held)
    BY <2>1, <2>2, <2>3, Zenon DEF IInv, TypeOK, HeldOK, HeldAt, NumOffAt
  <2>5. held # {} => cpu.numOff # 0
    BY DEF IInv, TypeOK, HeldOK, HeldAt, NumOffAt
  <2> QED
    BY <2>4, <2>5, Zenon DEF IInv, TypeOK, Cpu, IntrOK, LocksMask
<1> QED
  BY Invariance, <1>1, PTL

(* Exactly the process on the CPU is running, and a process that gave it   *)
(* up leaves no lock behind.                                               *)
THEOREM OneRunningCorrect == Spec => []OneRunning
<1>1. IInv => OneRunning
  BY Zenon DEF IInv, OneRunning, OffCpuOK, HeldOK
<1> QED
  BY Invariance, <1>1, PTL

(* A trap runs with interrupts off to its end, also when it gives the CPU  *)
(* up in the middle.                                                       *)
THEOREM TrapMaskedCorrect == Spec => []TrapMasked
<1>1. IInv => TrapMasked
  BY Zenon DEF IInv, TrapMasked, IntrOK
<1> QED
  BY Invariance, <1>1, PTL

(* Interrupts are off under every lock and in every trap, which is all     *)
(* that keeps a process in the kernel from being interleaved with others.  *)
THEOREM MaskedCorrect == Spec => []Masked
<1>1. LocksMask /\ TrapMasked => Masked
  BY Zenon DEF Masked
<1> QED
  BY LocksMaskCorrect, TrapMaskedCorrect, <1>1, PTL

(* No process sleeps past the tick that ends its sleep.                    *)
THEOREM SleepCorrect == Spec => []NoOversleep
<1>1. IInv => NoOversleep
  BY Zenon DEF IInv, NoOversleep, OffCpuOK
<1> QED
  BY Invariance, <1>1, PTL

(* kernel_trap_cnt is the number of processes preempted inside the kernel. *)
THEOREM TrapCountCorrect == Spec => []TrapCount
<1>1. IInv => TrapCount
  BY Zenon DEF IInv
<1> QED
  BY Invariance, <1>1, PTL

\* At most every process is counted by kernel_trap_cnt.
LEMMA TrapsBounded == IInv => traps \in Nat /\ traps <= N
<1> DEFINE F == {q \in Procs : frame[q] \notin {"none", "user"}}
<1> SUFFICES ASSUME IInv PROVE traps \in Nat /\ traps <= N
  BY Zenon
<1>1. IsFiniteSet(Procs) /\ Cardinality(Procs) = N
  <2>1. /\ IsFiniteSet(0 .. N - 1)
        /\ Cardinality(0 .. N - 1) = IF 0 > N - 1 THEN 0 ELSE (N - 1) - 0 + 1
    BY PoolSize, FS_Interval
  <2> QED
    BY <2>1, PoolSize DEF Procs
<1>2. Cardinality(F) <= Cardinality(Procs) /\ Cardinality(F) \in Nat
  BY <1>1, FS_Subset, FS_CardinalityType, Zenon
<1> QED
  BY <1>1, <1>2, Zenon DEF IInv, TrapCount

(* kernel_trap's check of kernel_trap_cnt does not fire in a kernel whose  *)
(* pool is smaller than the limit, wherever the timer interrupts it.       *)
THEOREM TrapNestingCorrect == Spec => []TrapNesting
<1>1. Init => TrapNesting
  BY Zenon DEF Init, TrapNesting
<1>2. ASSUME IInv, TrapNesting, [Next]_vars PROVE TrapNesting'
  <2> SUFFICES ASSUME N < TRAP_LIMIT PROVE panic' # "trap"
    BY Zenon DEF TrapNesting
  <2>1. panic # "trap" /\ traps \in Nat /\ traps <= N
    BY <1>2, TrapsBounded, Zenon DEF TrapNesting
  <2>2. TrapPanic(traps) # "trap" /\ TrapPanic(traps + 1) # "trap"
    BY <2>1, PoolSize, TrapBound DEF TrapPanic
  <2>3. ASSUME NEW p \in Procs, Interrupt(p) PROVE panic' # "trap"
    BY <2>2, <2>3, Zenon DEF Interrupt
  <2>4. CASE InterruptScheduler
    BY <2>2, <2>4, Zenon DEF InterruptScheduler
  <2>5. CASE start_schedule \/ UNCHANGED vars
    BY <2>1, <2>5, Zenon DEF vars, start_schedule, ScheduleTop, SchedulePrio, ScheduleTest,
       ScheduleAcquire, ScheduleRun, ScheduleBack, acquire, release
  <2>6. ASSUME NEW p \in Procs, KernelStep(p) \/ KernelCall(p) \/ Syscall(p)
        PROVE  panic' # "trap"
    BY <2>1, <2>6, Zenon DEF KernelStep, KernelCall, Syscall, sleep, fork_ret, user_trap_ret,
       SleepCall, SleepTest, SleepDone, SleepKilled, SleepAcquire, SleepRelease,
       SleepSwitch, SleepReturn, SleepRelock, SchedYield, YieldSwitch, YieldReturn,
       sche_proc, TrapReturn, acquire, release, yield, call_sched, sched_return
  <2> QED
    BY <1>2, <2>3, <2>4, <2>5, <2>6, Zenon DEF Next, Timer
<1> QED
  BY <1>1, <1>2, Invariance, PTL DEF Spec
=============================================================================
