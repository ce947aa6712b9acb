------------------------------- MODULE Sched -------------------------------
(***************************************************************************)
(* The CPU, its spin locks, the scheduler and sleep/wakeup:                *)
(* hsai/virtual_cpu.cc, hsai/smp/spin_lock.cc, kernel/pm/scheduler.cc,     *)
(* sleep, wakeup and sche_proc of kernel/pm/process_manager.cc, the trap   *)
(* entry of hal/riscv/exception_manager.cc, and the one client that is     *)
(* driven by an interrupt, kernel/tm/timer_manager.cc.                     *)
(*                                                                         *)
(* The build has one CPU (CONF_CPU_NUM = 1), so a lock is held or free:    *)
(* there is no second CPU to hold it.  What excludes others is that        *)
(* interrupts are off while a lock is held, and that is what this module   *)
(* models: a step per lock operation, and a timer interrupt that may come  *)
(* between any two steps when cpu.intr is 1.                               *)
(*                                                                         *)
(* cur is the process on the CPU, or NoProc while start_schedule's own     *)
(* loop runs.  swtch is a change of cur: the process resumes at its pc.    *)
(***************************************************************************)
EXTENDS Integers, FiniteSets

CONSTANTS N,             \* num_process, 32 in the code
          NoProc,        \* cur = nullptr
          Slot,          \* default_proc_slot, 4 in the code
          TRAP_LIMIT,    \* nested kernel traps allowed, 4 in the code
          LowestPrio,    \* lowest_proc_prio, 19 in the code
          Prio,          \* _priority of each process, default_proc_prio in the code
          MaxSleep       \* bound on the n of sleep_n_ticks

Procs == 0 .. N - 1

ASSUME PoolSize == N \in Nat \ {0}
ASSUME SlotSize == Slot \in Nat \ {0}
ASSUME TrapBound == TRAP_LIMIT \in Nat
ASSUME SleepBound == MaxSleep \in Nat
ASSUME PrioType == LowestPrio \in Nat /\ Prio \in [Procs -> 0 .. LowestPrio]
ASSUME NoProcFresh == NoProc \notin Procs

TicksLock == -1    \* TimerManager::_lock; the lock of process p is p itself

VARIABLES cpu,      \* [intr, numOff, intEna]: interrupt flag, _num_off, _int_ena
          cur,      \* VirtualCpu::_cur_proc
          held,     \* the locks that are held
          panic,    \* the panic or assertion that stopped the kernel, or "no"
          state, chan, slot,   \* Pcb::_state, _chan, _slot
          pc,       \* where each process is
          frame,    \* the pc a trap interrupted, "none" outside a trap
          saved,    \* the intena local of call_sched
          rem,      \* n - ( _ticks - tick_tmp ) of sleep_n_ticks, 0 once due
          traps,    \* kernel_trap_cnt
          spc, sp, prio, needed    \* start_schedule: place, p, priority, needed

procVars == <<state, chan, slot, pc, frame, saved, rem>>
schedVars == <<spc, sp, prio, needed>>
vars == <<cpu, cur, held, panic, procVars, traps, schedVars>>

\* "new": never run, context set to fork_ret; "forked": in fork_ret.  "user",
\* "kern": user mode, and a system call with no lock held.  "sl_": sleep_n_ticks
\* and sleep.  "y_": yield.  "t_": trap.
PcStates == {"new", "forked", "user", "kern", "sl_loop", "sl_acq", "sl_rel", "sl_set",
             "sl_ret", "sl_lock", "y_set", "y_ret", "t_sched", "t_out"}
Cpu == [intr : {0, 1}, numOff : Int, intEna : {0, 1}]

\* The type of the state; the time slice a process has left is never zero.
TypeOK ==
    /\ cpu \in Cpu
    /\ cur \in Procs \cup {NoProc}
    /\ held \in SUBSET (Procs \cup {TicksLock})
    /\ panic \in {"no", "lock", "sched", "trap"}
    /\ state \in [Procs -> {"runnable", "running", "sleeping"}]
    /\ chan \in [Procs -> {"none", "ticks"}]
    /\ slot \in [Procs -> 1 .. Slot]
    /\ pc \in [Procs -> PcStates]
    /\ frame \in [Procs -> PcStates \cup {"none"}]
    /\ saved \in [Procs -> {0, 1}]
    /\ rem \in [Procs -> 0 .. MaxSleep]
    /\ traps \in Nat
    /\ spc \in {"top", "prio", "test", "acq", "locked", "back"}
    /\ sp \in 0 .. N
    /\ prio \in 0 .. LowestPrio
    /\ needed \in {0, 1}

(* start_schedule is entered with runnable processes that have not run;    *)
(* priority is uninitialised until the first iteration computes it.        *)
Init ==
    /\ cpu = [intr |-> 0, numOff |-> 0, intEna |-> 0]
    /\ cur = NoProc
    /\ held = {}
    /\ panic = "no"
    /\ state = [p \in Procs |-> "runnable"]
    /\ chan = [p \in Procs |-> "none"]
    /\ slot = [p \in Procs |-> Slot]
    /\ pc = [p \in Procs |-> "new"]
    /\ frame = [p \in Procs |-> "none"]
    /\ saved = [p \in Procs |-> 0]
    /\ rem = [p \in Procs |-> 0]
    /\ traps = 0
    /\ spc = "top"
    /\ sp = 0
    /\ prio = 0
    /\ needed = 1

-----------------------------------------------------------------------------
(* VirtualCpu and SpinLock *)

PushOff(c) ==
    [intr   |-> 0,
     numOff |-> c.numOff + 1,
     intEna |-> IF c.numOff = 0 THEN c.intr ELSE c.intEna]

PopOff(c) ==
    [intr   |-> IF c.numOff = 1 /\ c.intEna = 1 THEN 1 ELSE c.intr,
     numOff |-> c.numOff - 1,
     intEna |-> c.intEna]

acquire(l) ==
    /\ cpu' = PushOff(cpu)
    /\ held' = held \cup {l}
    /\ panic' = IF l \in held THEN "lock" ELSE "no"

release(l) ==
    /\ cpu' = PopOff(cpu)
    /\ held' = held \ {l}
    /\ panic' = IF l \notin held \/ cpu.intr = 1 \/ cpu.numOff < 1 THEN "lock" ELSE "no"

-----------------------------------------------------------------------------
(* Scheduler::start_schedule *)

InScheduler(place) == panic = "no" /\ cur = NoProc /\ spc = place

(* get_highest_proirity takes and gives back _sche_lock around its scan *)
get_highest_proirity ==
    LET found == {LowestPrio} \cup {Prio[p] : p \in {q \in Procs : state[q] = "runnable"}}
    IN  {x \in found : \A y \in found : x <= y}

ScheduleTop ==
    /\ InScheduler("top")
    /\ cpu' = [cpu EXCEPT !.intr = 1]
    /\ sp' = 0
    /\ spc' = "prio"
    /\ UNCHANGED <<cur, held, panic, procVars, traps, prio, needed>>

SchedulePrio ==
    /\ InScheduler("prio")
    /\ IF sp < N
       THEN /\ IF needed = 1
               THEN /\ prio' \in get_highest_proirity
                    /\ cpu' = PopOff(PushOff(cpu))
               ELSE UNCHANGED <<prio, cpu>>
            /\ needed' = 0
            /\ spc' = "test"
       ELSE /\ spc' = "top"
            /\ UNCHANGED <<prio, cpu, needed>>
    /\ UNCHANGED <<cur, held, panic, procVars, traps, sp>>

(* variant: only a strictly better priority than the recorded one runs *)
ScheduleTest_Strict ==
    /\ InScheduler("test")
    /\ IF state[sp] # "runnable" \/ Prio[sp] >= prio
       THEN sp' = sp + 1 /\ spc' = "prio"
       ELSE sp' = sp /\ spc' = "acq"
    /\ UNCHANGED <<cpu, cur, held, panic, procVars, traps, prio, needed>>

ScheduleTest ==
    /\ InScheduler("test")
    /\ IF state[sp] # "runnable" \/ Prio[sp] > prio
       THEN sp' = sp + 1 /\ spc' = "prio"
       ELSE sp' = sp /\ spc' = "acq"
    /\ UNCHANGED <<cpu, cur, held, panic, procVars, traps, prio, needed>>

ScheduleAcquire ==
    /\ InScheduler("acq")
    /\ acquire(sp)
    /\ spc' = "locked"
    /\ UNCHANGED <<cur, procVars, traps, sp, prio, needed>>

(* the process is picked and swtch resumes it at its pc *)
ScheduleRun ==
    /\ InScheduler("locked")
    /\ state[sp] = "runnable"
    /\ state' = [state EXCEPT ![sp] = "running"]
    /\ cur' = sp
    /\ spc' = "back"
    /\ UNCHANGED <<cpu, held, panic, chan, slot, pc, frame, saved, rem, traps, sp,
                   prio, needed>>

(* set_cur_proc( nullptr ) came with the swtch; the lock the process took  *)
(* before call_sched is released here                                      *)
ScheduleBack ==
    /\ InScheduler("back") \/ InScheduler("locked")
    /\ spc = "locked" => state[sp] # "runnable"
    /\ release(sp)
    /\ needed' = 1
    /\ sp' = sp + 1
    /\ spc' = "prio"
    /\ UNCHANGED <<cur, procVars, traps, prio>>

(* variant: the interrupt flag of the process is not remembered *)
call_sched_Forgets(p) ==
    /\ panic' = IF p \in held /\ cpu.numOff = 1 /\ state'[p] # "running" /\ cpu.intr = 0
                THEN "no" ELSE "sched"
    /\ saved' = [saved EXCEPT ![p] = 1]
    /\ cur' = NoProc
    /\ UNCHANGED <<cpu, held>>

(* call_sched up to its swtch; state' is what the caller stored *)
call_sched(p) ==
    /\ panic' = IF p \in held /\ cpu.numOff = 1 /\ state'[p] # "running" /\ cpu.intr = 0
                THEN "no" ELSE "sched"
    /\ saved' = [saved EXCEPT ![p] = cpu.intEna]
    /\ cur' = NoProc
    /\ UNCHANGED <<cpu, held>>

(* call_sched after its swtch: _int_ena is the process's own again, and    *)
(* the caller releases the process's lock                                  *)
sched_return(p) ==
    LET c == [cpu EXCEPT !.intEna = saved[p]]
    IN  /\ cpu' = PopOff(c)
        /\ held' = held \ {p}
        /\ panic' = IF p \notin held \/ c.intr = 1 \/ c.numOff < 1 THEN "lock" ELSE "no"

-----------------------------------------------------------------------------
(* A process *)

At(p, place) == panic = "no" /\ cur = p /\ pc[p] = place

goto(p, place) == pc' = [pc EXCEPT ![p] = place]

(* fork_ret releases the lock the scheduler took and goes on to            *)
(* user_trap_return (the first process sets up the file system before)     *)
fork_ret(p) ==
    /\ At(p, "new")
    /\ release(p)
    /\ goto(p, "forked")
    /\ UNCHANGED <<cur, state, chan, slot, frame, saved, rem, traps, schedVars>>

(* a system call turns interrupts on before it is dispatched *)
Syscall(p) ==
    /\ At(p, "user")
    /\ goto(p, "kern")
    /\ UNCHANGED <<cpu, cur, held, panic, state, chan, slot, frame, saved, rem, traps,
                   schedVars>>

user_trap_ret(p) ==
    /\ At(p, "kern") \/ At(p, "forked")
    /\ goto(p, "user")
    /\ cpu' = [cpu EXCEPT !.intr = 1]
    /\ UNCHANGED <<cur, held, panic, state, chan, slot, frame, saved, rem, traps, schedVars>>

(* TimerManager::sleep_n_ticks: rem counts down with _ticks *)
SleepCall(p) ==
    /\ At(p, "kern")
    /\ acquire(TicksLock)
    /\ \E n \in 0 .. MaxSleep : rem' = [rem EXCEPT ![p] = n]
    /\ goto(p, "sl_loop")
    /\ UNCHANGED <<cur, state, chan, slot, frame, saved, traps, schedVars>>

(* variant: every round counts from its own start *)
SleepTest_Restart(p) ==
    /\ At(p, "sl_loop")
    /\ rem[p] > 0
    /\ rem' = [rem EXCEPT ![p] = MaxSleep]
    /\ goto(p, "sl_acq")
    /\ UNCHANGED <<cpu, cur, held, panic, state, chan, slot, frame, saved, traps, schedVars>>

SleepTest(p) ==
    /\ At(p, "sl_loop")
    /\ rem[p] > 0
    /\ goto(p, "sl_acq")
    /\ UNCHANGED <<cpu, cur, held, panic, state, chan, slot, frame, saved, rem, traps,
                   schedVars>>

SleepDone(p) ==
    /\ At(p, "sl_loop")
    /\ rem[p] = 0
    /\ release(TicksLock)
    /\ goto(p, "kern")
    /\ UNCHANGED <<cur, state, chan, slot, frame, saved, rem, traps, schedVars>>

(* the process was killed meanwhile: sleep_n_ticks gives up with -2 *)
SleepKilled(p) ==
    /\ At(p, "sl_loop")
    /\ rem[p] > 0
    /\ release(TicksLock)
    /\ goto(p, "kern")
    /\ UNCHANGED <<cur, state, chan, slot, frame, saved, rem, traps, schedVars>>

(* variant: sleep gives the condition's lock back first *)
SleepAcquire_Last(p) ==
    /\ At(p, "sl_acq")
    /\ IF TicksLock \in held
       THEN release(TicksLock) /\ UNCHANGED pc
       ELSE acquire(p) /\ goto(p, "sl_set")
    /\ UNCHANGED <<cur, state, chan, slot, frame, saved, rem, traps, schedVars>>

(* ProcessManager::sleep( &_ticks, &_lock ) *)
SleepAcquire(p) ==
    /\ At(p, "sl_acq")
    /\ acquire(p)
    /\ goto(p, "sl_rel")
    /\ UNCHANGED <<cur, state, chan, slot, frame, saved, rem, traps, schedVars>>

SleepRelease(p) ==
    /\ At(p, "sl_rel")
    /\ release(TicksLock)
    /\ goto(p, "sl_set")
    /\ UNCHANGED <<cur, state, chan, slot, frame, saved, rem, traps, schedVars>>

SleepSwitch(p) ==
    /\ At(p, "sl_set")
    /\ chan' = [chan EXCEPT ![p] = "ticks"]
    /\ state' = [state EXCEPT ![p] = "sleeping"]
    /\ call_sched(p)
    /\ goto(p, "sl_ret")
    /\ UNCHANGED <<slot, frame, rem, traps, schedVars>>

SleepReturn(p) ==
    /\ At(p, "sl_ret")
    /\ sched_return(p)
    /\ chan' = [chan EXCEPT ![p] = "none"]
    /\ goto(p, "sl_lock")
    /\ UNCHANGED <<cur, state, slot, frame, saved, rem, traps, schedVars>>

SleepRelock(p) ==
    /\ At(p, "sl_lock")
    /\ acquire(TicksLock)
    /\ goto(p, "sl_loop")
    /\ UNCHANGED <<cur, state, chan, slot, frame, saved, rem, traps, schedVars>>

(* Scheduler::yield, from the sched_yield system call or sche_proc *)
yield(p) ==
    /\ acquire(p)
    /\ goto(p, "y_set")

SchedYield(p) ==
    /\ At(p, "kern")
    /\ yield(p)
    /\ UNCHANGED <<cur, state, chan, slot, frame, saved, rem, traps, schedVars>>

YieldSwitch(p) ==
    /\ At(p, "y_set")
    /\ state' = [state EXCEPT ![p] = "runnable"]
    /\ call_sched(p)
    /\ goto(p, "y_ret")
    /\ UNCHANGED <<chan, slot, frame, rem, traps, schedVars>>

YieldReturn(p) ==
    /\ At(p, "y_ret")
    /\ sched_return(p)
    /\ goto(p, IF frame[p] = "none" THEN "kern" ELSE "t_out")
    /\ UNCHANGED <<cur, state, chan, slot, frame, saved, rem, traps, schedVars>>

-----------------------------------------------------------------------------
(* The timer interrupt *)

(* ProcessManager::wakeup( &_ticks ) *)
wakeup ==
    [p \in Procs |-> IF state[p] = "sleeping" /\ chan[p] = "ticks"
                     THEN "runnable" ELSE state[p]]

(* dev_intr and TimerManager::handle_clock_intr: with interrupts off, take *)
(* _lock, count the tick, wake the sleepers (wakeup takes the lock of      *)
(* every process in turn), give _lock back                                 *)
handle_clock_intr ==
    /\ rem' = [p \in Procs |-> IF rem[p] = 0 THEN 0 ELSE rem[p] - 1]
    /\ state' = wakeup
    /\ cpu' = PopOff(PushOff([cpu EXCEPT !.intr = 0]))
    /\ UNCHANGED held

(* variant: the limit itself is one too many *)
TrapPanic_AtLimit(nested) ==
    IF nested >= TRAP_LIMIT THEN "trap"
    ELSE IF held # {} THEN "lock" ELSE "no"

(* the panic of kernel_trap or of a lock taken twice, if any *)
TrapPanic(nested) ==
    IF nested > TRAP_LIMIT THEN "trap"
    ELSE IF held # {} THEN "lock" ELSE "no"

(* the interrupt comes while p runs, wherever interrupts are on: user_trap *)
(* or kernel_trap                                                          *)
Interrupt(p) ==
    /\ panic = "no" /\ cur = p /\ cpu.intr = 1
    /\ handle_clock_intr
    /\ LET t == IF pc[p] = "user" THEN traps ELSE traps + 1
       IN  traps' = t /\ panic' = TrapPanic(t)
    /\ frame' = [frame EXCEPT ![p] = pc[p]]
    /\ goto(p, "t_sched")
    /\ UNCHANGED <<cur, chan, slot, saved, schedVars>>

(* the interrupt comes in start_schedule: no process, no preemption *)
InterruptScheduler ==
    /\ panic = "no" /\ cur = NoProc /\ cpu.intr = 1
    /\ rem' = [p \in Procs |-> IF rem[p] = 0 THEN 0 ELSE rem[p] - 1]
    /\ state' = wakeup
    /\ panic' = TrapPanic(traps + 1)
    /\ cpu' = [PopOff(PushOff([cpu EXCEPT !.intr = 0])) EXCEPT !.intr = 1]
    /\ UNCHANGED <<cur, held, chan, slot, pc, frame, saved, traps, schedVars>>

(* ProcessManager::sche_proc *)
sche_proc(p) ==
    /\ At(p, "t_sched")
    /\ IF slot[p] = 1
       THEN slot' = [slot EXCEPT ![p] = Slot] /\ yield(p)
       ELSE /\ slot' = [slot EXCEPT ![p] = @ - 1]
            /\ goto(p, "t_out")
            /\ UNCHANGED <<cpu, held, panic>>
    /\ UNCHANGED <<cur, state, chan, frame, saved, rem, traps, schedVars>>

(* the end of kernel_trap or user_trap: the interrupted code goes on *)
TrapReturn(p) ==
    /\ At(p, "t_out")
    /\ goto(p, frame[p])
    /\ frame' = [frame EXCEPT ![p] = "none"]
    /\ traps' = IF frame[p] = "user" THEN traps ELSE traps - 1
    /\ cpu' = [cpu EXCEPT !.intr = 1]
    /\ UNCHANGED <<cur, held, panic, state, chan, slot, saved, rem, schedVars>>

-----------------------------------------------------------------------------
start_schedule ==
    \/ ScheduleTop \/ SchedulePrio \/ ScheduleTest \/ ScheduleAcquire
    \/ ScheduleRun \/ ScheduleBack

sleep(p) ==
    \/ SleepTest(p) \/ SleepDone(p) \/ SleepKilled(p) \/ SleepAcquire(p)
    \/ SleepRelease(p) \/ SleepSwitch(p) \/ SleepReturn(p) \/ SleepRelock(p)

KernelStep(p) ==
    \/ fork_ret(p) \/ sleep(p) \/ YieldSwitch(p) \/ YieldReturn(p)
    \/ sche_proc(p) \/ TrapReturn(p)

KernelCall(p) == user_trap_ret(p) \/ SleepCall(p) \/ SchedYield(p)

Timer == (\E p \in Procs : Interrupt(p)) \/ InterruptScheduler

Next ==
    \/ start_schedule
    \/ \E p \in Procs : KernelStep(p) \/ KernelCall(p) \/ Syscall(p)
    \/ Timer

Spec == Init /\ [][Next]_vars

(* The CPU never stops in kernel code.  A pending timer interrupt is taken *)
(* as soon as interrupts are on, so code that keeps turning them off       *)
(* cannot put it off for ever.  The next timer interrupt is programmed one *)
(* whole interval ahead, so a process that is run again and again gets     *)
(* beyond the instruction at which it was interrupted.  Nothing makes a    *)
(* user program call.                                                      *)
Fairness ==
    /\ WF_vars(start_schedule \/ \E p \in Procs : KernelStep(p) \/ KernelCall(p))
    /\ SF_vars(Timer)
    /\ \A p \in Procs : SF_vars(SleepRelock(p))

LiveSpec == Spec /\ Fairness

-----------------------------------------------------------------------------
(* Properties *)

(* No panic of SpinLock::acquire and release ("lock is already held",      *)
(* "lock is already released", "pop-off") and no failed assertion of       *)
(* call_sched, whatever lock hand-over swtch makes between a process and   *)
(* the scheduler.                                                          *)
NoPanic == panic \notin {"lock", "sched"}

(* _num_off counts the locks held, and interrupts are off while it is not  *)
(* zero: this is all that excludes other processes from a locked region.   *)
LocksMask ==
    /\ cpu.numOff = Cardinality(held)
    /\ held # {} => cpu.intr = 0

(* The process on the CPU is the one in state running; a process that gave *)
(* the CPU up has its lock released by the scheduler.                      *)
OneRunning ==
    /\ \A p \in Procs : state[p] = "running" <=> cur = p
    /\ cur = NoProc /\ spc \notin {"locked", "back"} => held = {}

(* A trap is never interrupted: yield inside a trap and the way back       *)
(* through the scheduler leave interrupts off, because call_sched restores *)
(* the process's own _int_ena.                                             *)
TrapMasked == \A p \in Procs : cur = p /\ frame[p] # "none" => cpu.intr = 0

(* All that excludes others is a masked interrupt: the locks held keep     *)
(* interrupts off (push_interrupt_off, pop_intterupt_off), and so does a   *)
(* trap to its end, also when it yields and the scheduler and other        *)
(* processes take and release locks in between.                            *)
Masked == LocksMask /\ TrapMasked

(* No process sleeps past its time: the tick that ends the sleep cannot    *)
(* fall between the test of sleep_n_ticks and the state change in sleep.   *)
NoOversleep ==
    \A p \in Procs : state[p] = "sleeping" => rem[p] > 0 /\ chan[p] = "ticks"

(* kernel_trap_cnt counts the processes preempted inside the kernel.       *)
TrapCount == traps = Cardinality({p \in Procs : frame[p] \notin {"none", "user"}})

(* kernel_trap's own check never fires while the pool is smaller than its  *)
(* limit: the open traps are those of the processes preempted inside the   *)
(* kernel and one more taken in start_schedule.                            *)
TrapNesting == N < TRAP_LIMIT => panic # "trap"

(* What makes the above inductive.  Which locks are held is a matter of    *)
(* where the code on the CPU is, and so is _num_off.                       *)
HeldAt(p) ==
    CASE pc[p] \in {"sl_loop", "sl_acq"} -> {TicksLock}
      [] pc[p] = "sl_rel" -> {TicksLock, p}
      [] pc[p] \in {"new", "sl_set", "sl_ret", "y_set", "y_ret"} -> {p}
      [] OTHER -> {}

NumOffAt(p) ==
    CASE pc[p] = "sl_rel" -> 2
      [] pc[p] \in {"new", "sl_loop", "sl_acq", "sl_set", "sl_ret", "y_set", "y_ret"} -> 1
      [] OTHER -> 0

HeldOK ==
    IF cur # NoProc
    THEN held = HeldAt(cur) /\ cpu.numOff = NumOffAt(cur)
    ELSE IF spc \in {"locked", "back"}
    THEN held = {sp} /\ cpu.numOff = 1
    ELSE held = {} /\ cpu.numOff = 0

(* start_schedule's p is the process it switched to.                       *)
PlaceOK ==
    /\ cur # NoProc => spc = "back" /\ sp = cur
    /\ spc \in {"test", "acq", "locked", "back"} => sp \in Procs

(* A process off the CPU is at a swtch; one that sleeps is in sleep.       *)
OffCpuOK ==
    \A p \in Procs :
        /\ state[p] = "running" <=> cur = p
        /\ cur # p => pc[p] \in {"new", "sl_ret", "y_ret"}
        /\ state[p] = "sleeping" => pc[p] = "sl_ret" /\ chan[p] = "ticks" /\ rem[p] > 0
        /\ pc[p] \in {"sl_acq", "sl_rel", "sl_set"} => rem[p] > 0

(* Interrupts are off under a lock and inside a trap, also where the trap  *)
(* gave the CPU up.                                                        *)
FrameStates == {"none", "forked", "user", "kern", "sl_lock"}

IntrOK ==
    /\ cpu.intr = 1 => cpu.numOff = 0
    /\ \A p \in Procs :
        /\ frame[p] \in FrameStates
        /\ frame[p] # "none" => pc[p] \in {"t_sched", "t_out", "y_set", "y_ret"}
        /\ pc[p] \in {"t_sched", "t_out"} => frame[p] # "none"
        /\ frame[p] # "none" /\ cur = p => cpu.intr = 0
        /\ frame[p] # "none" /\ pc[p] = "y_set" => cpu.intEna = 0
        /\ frame[p] # "none" /\ pc[p] = "y_ret" => saved[p] = 0

IInv == TypeOK /\ NoPanic /\ HeldOK /\ PlaceOK /\ OffCpuOK /\ IntrOK /\ TrapCount

(* Every runnable process is run, however the others compute, yield and    *)
(* sleep (start_schedule).                                                 *)
RunnableRuns ==
    \A p \in Procs : state[p] = "runnable" ~> state[p] = "running"

(* sleep_n_ticks returns. *)
SleepReturns ==
    \A p \in Procs : pc[p] = "sl_ret" ~> pc[p] = "kern"
=============================================================================
