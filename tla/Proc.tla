-------------------------------- MODULE Proc --------------------------------
(***************************************************************************)
(* The life of a process: alloc_proc, alloc_thread, fork, clone, exit_proc,*)
(* reparent, wait, kill, exit_group and freeproc of                        *)
(* kernel/pm/process_manager.cc.                                           *)
(*                                                                         *)
(* A process can be preempted wherever it holds no lock, so each action is *)
(* one stretch of code between two such points (Sched shows that code      *)
(* under a lock is not preempted).  "runnable" stands for runnable and     *)
(* running alike.  exit_group's loop over the pool holds _wait_lock: it is *)
(* cut into one step per slot, and masked keeps everybody else out.        *)
(***************************************************************************)
EXTENDS Integers, FiniteSets

CONSTANTS N,         \* num_process, 32 in the code
          NoProc,    \* the null pointer
          MaxPid     \* bound on the pids given out

Procs == 0 .. N - 1

ASSUME PoolSize == N \in Nat \ {0}
ASSUME PidBound == MaxPid \in Nat \ {0}
ASSUME NoProcFresh == NoProc \notin Procs

InitProc == N - 1    \* _init_proc: alloc_proc starts at _last_alloc_proc_gid

VARIABLES state, parent, pid, killed,   \* Pcb::_state, parent, _pid, _killed
          files,     \* 1 if _ofile holds a file whose close wakes sleepers (a pipe end)
          pc,        \* where the process is
          np,        \* fork, clone: the slot that was allocated
          idx,       \* the loop index of alloc_proc and of exit_group
          kind,      \* "fork" or "thread": which of fork and clone( CLONE_THREAD )
          want,      \* wait: child_pid, 0 for any child
          nextPid,   \* _cur_pid
          last,      \* _last_alloc_proc_gid
          masked,    \* the process in the loop of exit_group, NoProc if none
          leaky,     \* 1 after an exit_group or a CLONE_THREAD without CLONE_VM
          panic      \* the panic that stopped the kernel, or "no"

locals == <<np, idx, kind, want>>
global == <<nextPid, last, masked, leaky>>
vars == <<state, parent, pid, killed, files, pc, locals, global, panic>>

Pids == 0 .. MaxPid
Live == {p \in Procs : state[p] \in {"runnable", "sleeping"}}

\* The type of the state; _last_alloc_proc_gid always names a slot of the pool.
TypeOK ==
    /\ state \in [Procs -> {"unused", "used", "sleeping", "runnable", "zombie"}]
    /\ parent \in [Procs -> Procs \cup {NoProc}]
    /\ pid \in [Procs -> Pids]
    /\ killed \in [Procs -> {0, 1}]
    /\ files \in [Procs -> {0, 1}]
    /\ pc \in [Procs -> {"none", "user", "alloc", "last", "copy", "parent", "run",
                         "exit", "exiting", "wait", "group"}]
    /\ np \in [Procs -> Procs \cup {NoProc}]
    /\ idx \in [Procs -> 0 .. N]
    /\ kind \in [Procs -> {"fork", "thread"}]
    /\ want \in [Procs -> Pids]
    /\ nextPid \in 1 .. MaxPid + 1
    /\ last \in Procs
    /\ masked \in Procs \cup {NoProc}
    /\ leaky \in {0, 1}
    /\ panic \in {"no", "lock", "init", "loop", "self"}

(* user_init has made the first process *)
Init ==
    /\ state = [p \in Procs |-> IF p = InitProc THEN "runnable" ELSE "unused"]
    /\ parent = [p \in Procs |-> NoProc]
    /\ pid = [p \in Procs |-> IF p = InitProc THEN 1 ELSE 0]
    /\ killed = [p \in Procs |-> 0]
    /\ files = [p \in Procs |-> 0]
    /\ pc = [p \in Procs |-> IF p = InitProc THEN "user" ELSE "none"]
    /\ np = [p \in Procs |-> NoProc]
    /\ idx = [p \in Procs |-> 0]
    /\ kind = [p \in Procs |-> "fork"]
    /\ want = [p \in Procs |-> 0]
    /\ nextPid = 2
    /\ last = InitProc
    /\ masked = NoProc
    /\ leaky = 0
    /\ panic = "no"

At(p, place) ==
    /\ panic = "no"
    /\ masked \in {NoProc, p}
    /\ state[p] = "runnable"
    /\ pc[p] = place

goto(p, place) == pc' = [pc EXCEPT ![p] = place]

(* the system call ends: its locals are gone *)
return(p) ==
    /\ goto(p, "user")
    /\ np' = [np EXCEPT ![p] = NoProc]
    /\ idx' = [idx EXCEPT ![p] = 0]
    /\ kind' = [kind EXCEPT ![p] = "fork"]
    /\ want' = [want EXCEPT ![p] = 0]

(* In user mode: a killed process gets no further than exit_proc. *)
InUser(p) == At(p, "user") /\ killed[p] = 0

-----------------------------------------------------------------------------
(* freeproc of a set of processes; pc and the locals are of no more use *)

freeproc(S) ==
    /\ state' = [p \in Procs |-> IF p \in S THEN "unused" ELSE state[p]]
    /\ parent' = [p \in Procs |-> IF p \in S THEN NoProc ELSE parent[p]]
    /\ pid' = [p \in Procs |-> IF p \in S THEN 0 ELSE pid[p]]
    /\ killed' = [p \in Procs |-> IF p \in S THEN 0 ELSE killed[p]]
    /\ files' = [p \in Procs |-> IF p \in S THEN 0 ELSE files[p]]

-----------------------------------------------------------------------------
(* fork and clone *)

Fork(p) ==
    /\ InUser(p)
    /\ nextPid + Cardinality({q \in Procs : pc[q] = "alloc"}) <= MaxPid
    /\ \E k \in {"fork", "thread"} : kind' = [kind EXCEPT ![p] = k]
    /\ idx' = [idx EXCEPT ![p] = 0]
    /\ goto(p, "alloc")
    /\ UNCHANGED <<state, parent, pid, killed, files, np, want, global, panic>>

(* the slot alloc_proc and alloc_thread look at *)
Candidate(p) == (last + idx[p]) % N

AllocSkip(p) ==
    /\ At(p, "alloc")
    /\ idx[p] < N
    /\ state[Candidate(p)] # "unused"
    /\ idx' = [idx EXCEPT ![p] = @ + 1]
    /\ UNCHANGED <<state, parent, pid, killed, files, pc, np, kind, want, global, panic>>

(* variant: the slot's state is not looked at *)
AllocTake_Blind(p) ==
    /\ At(p, "alloc")
    /\ idx[p] < N
    /\ nextPid <= MaxPid
    /\ LET q == Candidate(p)
       IN  /\ state[q] # "runnable"
           /\ state' = [state EXCEPT ![q] = "used"]
           /\ pid' = [pid EXCEPT ![q] = nextPid]
           /\ np' = [np EXCEPT ![p] = q]
    /\ nextPid' = nextPid + 1
    /\ idx' = [idx EXCEPT ![p] = 0]
    /\ goto(p, "last")
    /\ UNCHANGED <<parent, killed, files, kind, want, last, masked, leaky, panic>>

AllocTake(p) ==
    /\ At(p, "alloc")
    /\ idx[p] < N
    /\ nextPid <= MaxPid
    /\ LET q == Candidate(p)
       IN  /\ state[q] = "unused"
           /\ state' = [state EXCEPT ![q] = "used"]
           /\ pid' = [pid EXCEPT ![q] = nextPid]
           /\ np' = [np EXCEPT ![p] = q]
    /\ nextPid' = nextPid + 1
    /\ idx' = [idx EXCEPT ![p] = 0]
    /\ goto(p, "last")
    /\ UNCHANGED <<parent, killed, files, kind, want, last, masked, leaky, panic>>

(* no page for the trap frame or the page table: freeproc under the slot's *)
(* lock, and the pid is spent                                              *)
AllocFault(p) ==
    /\ At(p, "alloc")
    /\ idx[p] < N
    /\ nextPid <= MaxPid
    /\ state[Candidate(p)] = "unused"
    /\ nextPid' = nextPid + 1
    /\ panic' = IF files[Candidate(p)] = 1 THEN "lock" ELSE "no"
    /\ freeproc({Candidate(p)})
    /\ return(p)
    /\ UNCHANGED <<last, masked, leaky>>

AllocNone(p) ==
    /\ At(p, "alloc")
    /\ idx[p] = N
    /\ return(p)
    /\ UNCHANGED <<state, parent, pid, killed, files, global, panic>>

AllocDone(p) ==
    /\ At(p, "last")
    /\ last' = np[p]
    /\ goto(p, "copy")
    /\ UNCHANGED <<state, parent, pid, killed, files, locals, nextPid, masked, leaky, panic>>

(* memory, trap frame and open files are copied into the new slot *)
ForkCopy(p) ==
    /\ At(p, "copy")
    /\ files' = [files EXCEPT ![np[p]] = files[p]]
    /\ goto(p, "parent")
    /\ UNCHANGED <<state, parent, pid, killed, locals, global, panic>>

(* vm_copy runs out of memory: freeproc without a lock *)
ForkFault(p) ==
    /\ At(p, "copy")
    /\ kind[p] = "fork"
    /\ freeproc({np[p]})
    /\ return(p)
    /\ UNCHANGED <<global, panic>>

(* CLONE_THREAD without CLONE_VM: clone returns and leaves the slot used *)
CloneNoVm(p) ==
    /\ At(p, "copy")
    /\ kind[p] = "thread"
    /\ leaky' = 1
    /\ return(p)
    /\ UNCHANGED <<state, parent, pid, killed, files, nextPid, last, masked, panic>>

ForkParent(p) ==
    /\ At(p, "parent")
    /\ parent' = [parent EXCEPT ![np[p]] = p]
    /\ goto(p, "run")
    /\ UNCHANGED <<state, pid, killed, files, locals, global, panic>>

ForkRun(p) ==
    /\ At(p, "run")
    /\ state' = [state EXCEPT ![np[p]] = "runnable"]
    /\ pc' = [pc EXCEPT ![np[p]] = "user", ![p] = "user"]
    /\ np' = [np EXCEPT ![p] = NoProc]
    /\ kind' = [kind EXCEPT ![p] = "fork"]
    /\ UNCHANGED <<parent, pid, killed, files, idx, want, global, panic>>

-----------------------------------------------------------------------------
(* exit *)

(* the exit system call, or a trap of a killed process *)
ExitCall(p) ==
    /\ At(p, "user")
    /\ goto(p, "exit")
    /\ UNCHANGED <<state, parent, pid, killed, files, locals, global, panic>>

(* variant: the files are left to freeproc *)
ExitFiles_Late(p) ==
    /\ At(p, "exit")
    /\ panic' = IF p = InitProc THEN "init" ELSE "no"
    /\ goto(p, "exiting")
    /\ UNCHANGED <<state, parent, pid, killed, files, locals, global>>

(* exit_proc up to _wait_lock: files and mappings are given back *)
ExitFiles(p) ==
    /\ At(p, "exit")
    /\ panic' = IF p = InitProc THEN "init" ELSE "no"
    /\ files' = [files EXCEPT ![p] = 0]
    /\ goto(p, "exiting")
    /\ UNCHANGED <<state, parent, pid, killed, locals, global>>

(* variant: the children stay behind *)
reparent_None(p) == parent

reparent(p) == [q \in Procs |-> IF parent[q] = p THEN InitProc ELSE parent[q]]

(* variant: wakeup looks for the exiting process's own channel *)
ExitWakes_Self(p, q) == q = p
(* variant: init is not woken *)
ExitWakes_NotInit(p, q) == q = parent[p] /\ q # InitProc

(* wakeup( p->parent ): a process sleeps in wait on its own address *)
ExitWakes(p, q) == q = parent[p]

(* exit_proc from _wait_lock to call_sched *)
ExitProc(p) ==
    /\ At(p, "exiting")
    /\ parent' = reparent(p)
    /\ state' = [q \in Procs |->
                   IF q = p THEN "zombie"
                   ELSE IF ExitWakes(p, q) /\ state[q] = "sleeping" THEN "runnable"
                   ELSE state[q]]
    /\ goto(p, "none")
    /\ UNCHANGED <<pid, killed, files, locals, global, panic>>

-----------------------------------------------------------------------------
(* wait *)

(* wait and its unlocked test for a child with the given pid *)
WaitCall(p) ==
    /\ InUser(p)
    /\ \E c \in Pids :
        /\ c # 0 => \E q \in Procs : pid[q] = c /\ parent[q] = p
        /\ want' = [want EXCEPT ![p] = c]
    /\ goto(p, "wait")
    /\ UNCHANGED <<state, parent, pid, killed, files, np, idx, kind, global, panic>>

Children(p) == {q \in Procs : (want[p] > 0 => pid[q] = want[p]) /\ parent[q] = p}
Zombies(p) == {q \in Children(p) : state[q] = "zombie"}
FirstZombie(p) == {q \in Zombies(p) : \A r \in Zombies(p) : q <= r}

(* freeproc under the child's lock and _wait_lock: closing a pipe end      *)
(* would wake sleepers, which takes the child's lock once more             *)
WaitReap(p) ==
    /\ At(p, "wait")
    /\ \E q \in FirstZombie(p) :
        /\ panic' = IF files[q] = 1 THEN "lock" ELSE "no"
        /\ freeproc({q})
    /\ return(p)
    /\ UNCHANGED global

(* copyout of the status fails: the zombie stays *)
WaitFault(p) ==
    /\ At(p, "wait")
    /\ Zombies(p) # {}
    /\ return(p)
    /\ UNCHANGED <<state, parent, pid, killed, files, global, panic>>

WaitNone(p) ==
    /\ At(p, "wait")
    /\ Zombies(p) = {}
    /\ Children(p) = {} \/ killed[p] = 1
    /\ return(p)
    /\ UNCHANGED <<state, parent, pid, killed, files, global, panic>>

WaitSleep(p) ==
    /\ At(p, "wait")
    /\ Zombies(p) = {}
    /\ Children(p) # {} /\ killed[p] = 0
    /\ state' = [state EXCEPT ![p] = "sleeping"]
    /\ UNCHANGED <<parent, pid, killed, files, pc, locals, global, panic>>

-----------------------------------------------------------------------------
(* kill, exit_group, and opening a pipe *)

(* kill( pid, 15 ) marks the slot with that number; a number beyond the    *)
(* pool marks nothing in it                                                *)
Kill(p, k) ==
    /\ InUser(p)
    /\ killed' = [q \in Procs |-> IF q = k THEN 1 ELSE killed[q]]
    /\ UNCHANGED <<state, parent, pid, files, pc, locals, global, panic>>

OpenPipe(p) ==
    /\ InUser(p)
    /\ files[p] = 0
    /\ files' = [files EXCEPT ![p] = 1]
    /\ UNCHANGED <<state, parent, pid, killed, pc, locals, global, panic>>

GroupCall(p) ==
    /\ InUser(p)
    /\ masked' = p
    /\ idx' = [idx EXCEPT ![p] = 0]
    /\ leaky' = 1
    /\ goto(p, "group")
    /\ UNCHANGED <<state, parent, pid, killed, files, np, kind, want, nextPid, last, panic>>

(* the processes exit_group( p ) puts on its stack for slot i: the line of *)
(* parents from i up to a child of p, or up to a process without parent    *)
ClosedUp(S, p) == \A q \in S : parent[q] \notin {NoProc, p} => parent[q] \in S
Line(i, p) == {q \in Procs : \A S \in SUBSET Procs : i \in S /\ ClosedUp(S, p) => q \in S}

(* one round of the loop: the line is freed if it leads to p.  The walk up *)
(* never ends when the line has no end, and frees the caller under its own *)
(* feet when the line goes through p: the model stops there.  visit only   *)
(* saves rounds: a slot already visited was freed, or has no line to p.    *)
GroupStep(p) ==
    /\ At(p, "group")
    /\ idx[p] < N
    /\ LET line == Line(idx[p], p)
           leads == state[idx[p]] # "unused" /\ \E q \in line : parent[q] = p
           S == IF leads /\ p \notin line THEN line ELSE {}
       IN  /\ freeproc(S)
           /\ pc' = [q \in Procs |-> IF q \in S THEN "none" ELSE pc[q]]
           /\ np' = [q \in Procs |-> IF q \in S THEN NoProc ELSE np[q]]
           /\ kind' = [q \in Procs |-> IF q \in S THEN "fork" ELSE kind[q]]
           /\ want' = [q \in Procs |-> IF q \in S THEN 0 ELSE want[q]]
           /\ idx' = [q \in Procs |-> IF q = p THEN idx[p] + 1
                                      ELSE IF q \in S THEN 0 ELSE idx[q]]
           /\ panic' = IF state[idx[p]] # "unused"
                          /\ \A q \in line : parent[q] \notin {NoProc, p}
                       THEN "loop" ELSE IF leads /\ p \in line THEN "self" ELSE "no"
    /\ UNCHANGED global

(* exit_proc( cp ) follows *)
GroupDone(p) ==
    /\ At(p, "group")
    /\ idx[p] = N
    /\ masked' = NoProc
    /\ idx' = [idx EXCEPT ![p] = 0]
    /\ goto(p, "exit")
    /\ UNCHANGED <<state, parent, pid, killed, files, np, kind, want, nextPid, last, leaky,
                   panic>>

-----------------------------------------------------------------------------
fork(p) ==
    \/ AllocSkip(p) \/ AllocTake(p) \/ AllocFault(p) \/ AllocNone(p) \/ AllocDone(p)
    \/ ForkCopy(p) \/ ForkFault(p) \/ CloneNoVm(p) \/ ForkParent(p) \/ ForkRun(p)

exit(p) == ExitFiles(p) \/ ExitProc(p)

wait(p) == WaitReap(p) \/ WaitFault(p) \/ WaitNone(p) \/ WaitSleep(p)

exit_group(p) == GroupStep(p) \/ GroupDone(p)

UserCall(p) == Fork(p) \/ ExitCall(p) \/ WaitCall(p) \/ OpenPipe(p) \/ GroupCall(p)

KernelStep(p) == fork(p) \/ exit(p) \/ wait(p) \/ exit_group(p)

Next ==
    \E p \in Procs : UserCall(p) \/ KernelStep(p) \/ \E k \in Pids : Kill(p, k)

Spec == Init /\ [][Next]_vars

(* A process inside a system call that does not sleep goes on: Sched's     *)
(* RunnableRuns.                                                           *)
Fairness == \A p \in Procs : WF_vars(KernelStep(p))

LiveSpec == Spec /\ Fairness

-----------------------------------------------------------------------------
(* Properties *)

(* Nobody but init sleeps in wait on a child that has already exited: the  *)
(* exit cannot fall between wait's scan of the pool and its sleep, and     *)
(* exit_proc wakes the parent although it becomes a zombie only afterwards.*)
ExitSeen == \A p \in Procs \ {InitProc} : state[p] = "sleeping" => Zombies(p) = {}

(* where fork and clone have a slot of their own in np *)
Setup == {"last", "copy", "parent", "run"}

(* A slot that fork or clone fills in, without its lock, is out of         *)
(* everybody else's reach: it is in state used, no second fork has it, and *)
(* no process runs in it.                                                  *)
SetupOwned ==
    \A p \in Procs : pc[p] \in Setup =>
        /\ state[np[p]] = "used" /\ pc[np[p]] = "none"
        /\ \A q \in Procs \ {p} : np[q] # np[p]

(* Pids are never given twice, and whoever has a slot has a pid.           *)
PidsUnique ==
    /\ \A p, q \in Procs : pid[p] = pid[q] /\ pid[p] # 0 => p = q
    /\ \A p \in Procs : (pid[p] = 0 <=> state[p] = "unused") /\ pid[p] < nextPid

(* wait's freeproc, which holds the child's lock, never closes a pipe end: *)
(* the wakeup in Pipe::close would take that lock again (the problem of    *)
(* doc/to_solve.md).                                                       *)
ReapQuiet == panic # "lock"

(* a used slot is being filled in; a process but init has a living parent *)
Filled(q) == state[q] = "used" => \E p \in Live : np[p] = q /\ pc[p] \in Setup
Waited(q) ==
    q \in Live \/ state[q] = "zombie" =>
        q = InitProc \/ (parent[q] \in Live /\ parent[q] # q)

(* Without exit_group and CLONE_THREAD without CLONE_VM every used slot is *)
(* being filled in, and every process but init has a parent that can still *)
(* wait for it.                                                            *)
NothingLost == leaky = 0 => \A q \in Procs : Filled(q) /\ Waited(q)

(* A process that waits returns once a child it waits for has entered      *)
(* exit_proc: neither the order of the two nor a preemption between the    *)
(* child's wakeup and its becoming a zombie loses the exit.                *)
WaitReturns ==
    \A p \in Procs :
        (pc[p] = "wait" /\ \E q \in Children(p) : pc[q] = "exit")
        ~> (pc[p] # "wait" \/ panic # "no")

(* What makes the above inductive: a process has a pc while it lives, and  *)
(* np while it sets a slot up.                                             *)
PlaceOK(p) ==
    /\ pc[p] # "none" <=> state[p] \in {"runnable", "sleeping"}
    /\ state[p] = "sleeping" => pc[p] = "wait"
    /\ pc[p] \in Setup <=> np[p] # NoProc
    /\ pc[p] = "group" <=> masked = p
    /\ state[p] = "unused" => parent[p] = NoProc

PlacesOK == (masked # NoProc => leaky = 1) /\ \A p \in Procs : PlaceOK(p)

(* The slot being set up has no parent until ForkParent.                   *)
SetupParent ==
    \A p \in Procs :
        /\ pc[p] \in {"last", "copy", "parent"} => parent[np[p]] = NoProc
        /\ pc[p] = "run" => parent[np[p]] = p

(* Files are closed before a process is a zombie, and copied late in fork. *)
FilesOK ==
    \A p \in Procs :
        /\ state[p] \in {"unused", "zombie"} \/ pc[p] = "exiting" => files[p] = 0
        /\ pc[p] \in {"last", "copy"} => files[np[p]] = 0

InitAlive ==
    leaky = 0 /\ panic # "init" => InitProc \in Live /\ pc[InitProc] # "exiting"

IInv ==
    /\ TypeOK /\ PlacesOK /\ SetupOwned /\ SetupParent /\ PidsUnique /\ FilesOK
    /\ ReapQuiet /\ ExitSeen /\ InitAlive /\ NothingLost
=============================================================================
