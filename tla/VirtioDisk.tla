----------------------------- MODULE VirtioDisk -----------------------------
(***************************************************************************)
(* The driver of the virtio disk (hal/riscv/qemu/virtio_disk.cc), the      *)
(* device's side of the rings and the interrupt between them.              *)
(*                                                                         *)
(* The kernel has one CPU and vdisk_lock turns interrupts off, so what     *)
(* virtio_disk_rw does between two sleeps is one step, and while           *)
(* handle_intr runs only the device moves.  A caller sleeps on free[0] for *)
(* descriptors, or on its own buffer list for its operation.  Boot is the  *)
(* caller that has no process and waits with wfi instead; it comes before  *)
(* the others.                                                             *)
(***************************************************************************)
EXTENDS Integers, FiniteSets

CONSTANTS Callers, Boot,       \* who calls; Boot calls first and once
          Sectors, Values,
          Loads,               \* who calls, and how: [callers, writes, values]
          NUM                  \* descriptors

ASSUME NUMAssumption == NUM \in Nat /\ NUM >= 3

\* 0 is what a buffer that is read into holds before.
ASSUME LoadAssumption ==
  0 \in Values /\ \A l \in Loads : l.writes \subseteq {0, 1} /\ l.values \subseteq Values

VARIABLES pc,       \* idle; descs, descs_up: asleep and woken for descriptors;
                    \* io, io_up: for the operation; spin: Boot in its wfi loop
          op,       \* the arguments and the buffer of each call
          idx,      \* its descriptors
          free,     \* disk.free
          desc,     \* next and F_NEXT of each descriptor
          info,     \* disk.info: b and wait
          avail,    \* ring and idx of the avail area
          used,     \* ring and id of the used area
          used_idx, \* how far the driver has looked
          dev,      \* the device: next place in avail, and what it works on
          isr,      \* the interrupt status register
          intr,     \* handle_intr: off, loop, or ack (past the loop)
          medium,   \* what the sectors hold
          load      \* the member of Loads that describes the run; never changes

disk == <<pc, op, idx, free, desc, info, avail, used, used_idx, dev, isr, intr, medium>>
vars == <<disk, load>>
ring == <<avail, used, used_idx, dev, isr, intr, medium>>

Desc   == 0 .. NUM - 1
NoBuf  == 0
NoOp   == [sector |-> 0, write |-> 0, data |-> 0]
NoIdx  == <<0, 0, 0>>

\* The ring counters have 16 bits, of which NUM, a power of two, is a divisor:
\* kept modulo NUM they name the same places.
Up(n) == (n + 1) % NUM

\* A place of a ring that has been read is not read again before it is
\* written; Gone stands for whatever is left there.
Gone == 0

\* Sleeping and waking: hsai::sleep_at and wakeup_at
Wake(f, from, to, S) == [c \in Callers |-> IF c \in S /\ f[c] = from THEN to ELSE f[c]]
(* variant: nobody is woken *)
WakeDescs_None(f) == f
WakeDescs(f) == Wake(f, "descs", "descs_up", Callers)

\* alloc_desc three times: the three lowest free descriptors.
FreeDescs == {i \in Desc : free[i] = 1}
Nth(S, n) == CHOOSE i \in S : Cardinality({j \in S : j < i}) = n - 1
alloc3    == <<Nth(FreeDescs, 1), Nth(FreeDescs, 2), Nth(FreeDescs, 3)>>

\* The CPU is not in handle_intr.
Runs == intr = "off"

----------------------------------------------------------------------------
\* The chain with head h goes to the device.
publish(a, h) == [ring |-> [a.ring EXCEPT ![a.idx] = h], idx |-> Up(a.idx)]

\* virtio_disk_rw with descriptors: fill the chain, publish it, go to wait.
Submit(c, o) ==
  LET d == alloc3
  IN /\ Cardinality(FreeDescs) >= 3
     /\ op' = [op EXCEPT ![c] = o]
     /\ idx' = [idx EXCEPT ![c] = d]
     /\ free' = [i \in Desc |-> IF i \in {d[1], d[2], d[3]} THEN 0 ELSE free[i]]
     /\ desc' = [desc EXCEPT ![d[1]] = [next |-> d[2], more |-> 1],
                             ![d[2]] = [next |-> d[3], more |-> 1],
                             ![d[3]] = [next |-> 0, more |-> 0]]
     /\ info' = [info EXCEPT ![d[1]] = [b |-> c, wait |-> 1]]
     /\ avail' = publish(avail, d[1])
     /\ pc' = [pc EXCEPT ![c] = IF c = Boot THEN "spin" ELSE "io"]
     /\ UNCHANGED <<used, used_idx, dev, isr, intr, medium>>

\* Without: alloc3_desc gives back what it got, which wakes the others that
\* wait for descriptors, and the caller sleeps.
NoDescs(c, o) ==
  /\ Cardinality(FreeDescs) < 3
  /\ op' = [op EXCEPT ![c] = o]
  /\ pc' = [(IF FreeDescs # {} THEN WakeDescs(pc) ELSE pc) EXCEPT ![c] = "descs"]
  /\ UNCHANGED <<idx, free, desc, info>> /\ UNCHANGED ring

MayCall(c) == /\ c \in load.callers
              /\ Runs /\ pc[c] = "idle"
              /\ c # Boot => pc[Boot] = "gone"

virtio_disk_rw(c) == \E s \in Sectors, w \in load.writes, v \in load.values :
  LET o == [sector |-> s, write |-> w, data |-> IF w = 1 THEN v ELSE NoOp.data]
  IN MayCall(c) /\ (Submit(c, o) \/ NoDescs(c, o))

\* Woken for descriptors: try again.
Retry(c) == /\ Runs /\ pc[c] = "descs_up"
            /\ Submit(c, op[c]) \/ NoDescs(c, op[c])

\* free_chain(idx[0]): follow the chain and free each descriptor.
(* variant: the head only *)
Chain_Head(i) == {i}
Chain(i) == {i} \cup (IF desc[i].more = 1
                      THEN {desc[i].next} \cup (IF desc[desc[i].next].more = 1
                                                THEN {desc[desc[i].next].next} ELSE {})
                      ELSE {})

\* while (info.wait)
(* variant: any wakeup will do *)
over_Woken(c) == TRUE
(* variant: wait is read once, before the loop *)
over_Once(c) == FALSE
over(c) == info[idx[c][1]].wait = 0

\* The operation is over: forget the buffer, free the chain, return.
Finish(c) ==
  LET h == idx[c][1]
  IN /\ over(c)
     /\ info' = [info EXCEPT ![h].b = NoBuf]
     /\ free' = [i \in Desc |-> IF i \in Chain(h) THEN 1 ELSE free[i]]
     /\ pc' = [WakeDescs(pc) EXCEPT ![c] = IF c = Boot THEN "gone" ELSE "idle"]
     /\ op' = [op EXCEPT ![c] = NoOp]
     /\ idx' = [idx EXCEPT ![c] = NoIdx]
     /\ UNCHANGED desc /\ UNCHANGED ring

\* Woken for the operation, or back from wfi: look at wait again.
Check(c) ==
  /\ Runs /\ pc[c] \in {"io_up", "spin"}
  /\ \/ Finish(c)
     \/ /\ ~ over(c)
        /\ pc' = [pc EXCEPT ![c] = IF c = Boot THEN "spin" ELSE "io"]
        /\ UNCHANGED <<op, idx, free, desc, info>> /\ UNCHANGED ring

----------------------------------------------------------------------------
(***************************************************************************)
(* handle_intr.  The device can complete another operation after the loop  *)
(* has seen the ring empty and before the interrupt is acknowledged.       *)
(***************************************************************************)
More == used_idx # used.id

IntrEnter == /\ Runs /\ isr = 1
             /\ intr' = "loop"
             /\ UNCHANGED <<pc, op, idx, free, desc, info, avail, used, used_idx, dev, isr, medium>>

IntrUsed ==
  LET id == used.ring[used_idx]
  IN /\ intr = "loop" /\ More
     /\ info' = [info EXCEPT ![id].wait = 0]
     /\ pc' = Wake(pc, "io", "io_up", {info[id].b})
     /\ used_idx' = Up(used_idx)
     /\ used' = [used EXCEPT !.ring[used_idx] = Gone]
     /\ UNCHANGED <<op, idx, free, desc, avail, dev, isr, intr, medium>>

IntrEmpty == /\ intr = "loop" /\ ~ More
             /\ intr' = "ack"
             /\ UNCHANGED <<pc, op, idx, free, desc, info, avail, used, used_idx, dev, isr, medium>>

IntrAck == /\ intr = "ack"
           /\ isr' = 0
           /\ intr' = "off"
           /\ UNCHANGED <<pc, op, idx, free, desc, info, avail, used, used_idx, dev, medium>>

----------------------------------------------------------------------------
\* The device, external: it takes chains from avail in order and completes
\* them in any order, each with success.
DevTake ==
  /\ dev.seen # avail.idx
  /\ dev' = [seen |-> Up(dev.seen), work |-> dev.work \cup {avail.ring[dev.seen]}]
  /\ avail' = [avail EXCEPT !.ring[dev.seen] = Gone]
  /\ UNCHANGED <<pc, op, idx, free, desc, info, used, used_idx, isr, intr, medium>>

DevDone(c) == \E h \in dev.work :
  /\ idx[c] # NoIdx /\ idx[c][1] = h
  /\ IF op[c].write = 1
     THEN medium' = [medium EXCEPT ![op[c].sector] = op[c].data] /\ UNCHANGED op
     ELSE op' = [op EXCEPT ![c].data = medium[op[c].sector]] /\ UNCHANGED medium
  /\ dev' = [dev EXCEPT !.work = @ \ {h}]
  /\ used' = [ring |-> [used.ring EXCEPT ![used.id] = h], id |-> Up(used.id)]
  /\ isr' = 1
  /\ UNCHANGED <<pc, idx, free, desc, info, avail, used_idx, intr>>

----------------------------------------------------------------------------
Init ==
  /\ pc = [c \in Callers |-> "idle"]
  /\ op = [c \in Callers |-> NoOp]
  /\ idx = [c \in Callers |-> NoIdx]
  /\ free = [i \in Desc |-> 1]
  /\ desc = [i \in Desc |-> [next |-> 0, more |-> 0]]
  /\ info = [i \in Desc |-> [b |-> NoBuf, wait |-> 0]]
  /\ avail = [ring |-> [i \in Desc |-> 0], idx |-> 0]
  /\ used = [ring |-> [i \in Desc |-> 0], id |-> 0]
  /\ used_idx = 0
  /\ dev = [seen |-> 0, work |-> {}]
  /\ isr = 0 /\ intr = "off"
  /\ load \in Loads
  /\ medium \in [Sectors -> load.values]

Interrupt == IntrEnter \/ IntrUsed \/ IntrEmpty \/ IntrAck

Next == /\ \/ \E c \in Callers : virtio_disk_rw(c) \/ Retry(c) \/ Check(c) \/ DevDone(c)
           \/ Interrupt
           \/ DevTake
        /\ UNCHANGED load

Spec == Init /\ [][Next]_vars

\* The scheduler runs every process that stays awake, however often interrupts
\* get in between (RunnableRuns of Sched), the device works and the interrupt is taken;
\* nobody need call.
Fairness == /\ \A c \in Callers : SF_disk(Retry(c) \/ Check(c)) /\ WF_disk(DevDone(c))
            /\ WF_disk(Interrupt) /\ WF_disk(DevTake)

FairSpec == Spec /\ Fairness

----------------------------------------------------------------------------
InFlight == {c \in Callers : pc[c] \in {"io", "io_up", "spin"}}
Range3(t) == {t[1], t[2], t[3]}

OpType == [sector : Sectors \cup {NoOp.sector}, write : {0, 1}, data : Values]

\* The type of the state.
TypeOK ==
  /\ pc \in [Callers -> {"idle", "descs", "descs_up", "io", "io_up", "spin", "gone"}]
  /\ op \in [Callers -> OpType] /\ idx \in [Callers -> Desc \X Desc \X Desc]
  /\ free \in [Desc -> {0, 1}] /\ desc \in [Desc -> [next : Desc, more : {0, 1}]]
  /\ info \in [Desc -> [b : Callers \cup {NoBuf}, wait : {0, 1}]]
  /\ avail \in [ring : [Desc -> Desc], idx : Desc] /\ used \in [ring : [Desc -> Desc], id : Desc]
  /\ used_idx \in Desc /\ dev \in [seen : Desc, work : SUBSET Desc]
  /\ isr \in {0, 1} /\ intr \in {"off", "loop", "ack"}
  /\ medium \in [Sectors -> Values]

\* The descriptors in use are the chains of the calls in flight, three each
\* and no two calls sharing one: free_chain frees what alloc3_desc took, and
\* free_desc never panics on a free descriptor.
ChainsOwned ==
  /\ {i \in Desc : free[i] = 0} = UNION {Range3(idx[c]) : c \in InFlight}
  /\ \A c \in InFlight : /\ Chain(idx[c][1]) = Range3(idx[c])
                         /\ Cardinality(Range3(idx[c])) = 3
                         /\ info[idx[c][1]].b = c
  /\ \A c, d \in InFlight : c # d => Range3(idx[c]) \cap Range3(idx[d]) = {}

\* The places of a ring from a up to b
Between(a, b) == {i \in Desc : (i - a + NUM) % NUM < (b - a + NUM) % NUM}

\* Where head h is on its way: in avail, with the device, in used
Places(h) == {<<"avail", i>> : i \in {j \in Between(dev.seen, avail.idx) : avail.ring[j] = h}}
             \cup {<<"dev", i>> : i \in dev.work \cap {h}}
             \cup {<<"used", i>> : i \in {j \in Between(used_idx, used.id) : used.ring[j] = h}}

\* A call that waits is in exactly one place between the avail ring and
\* handle_intr, one whose operation is over in none: the wrapping counters
\* never lose, repeat or confuse a request.
OnePlace ==
  \A c \in InFlight : LET h == idx[c][1]
                     IN Cardinality(Places(h)) = info[h].wait

\* Every call in flight has its own chain and is on its way once: a
\* descriptor that is freed early, kept, or published twice breaks it.
Tracked == TypeOK /\ ChainsOwned /\ OnePlace

\* Nobody sleeps on an operation that handle_intr has seen complete.
NoMissedWake == \A c \in Callers : pc[c] = "io" => info[idx[c][1]].wait = 1

\* Nobody sleeps for descriptors while three are free, unless one that was
\* woken for them is about to look.
DescsWake == (\E c \in Callers : pc[c] = "descs") =>
                \/ Cardinality(FreeDescs) < 3
                \/ \E c \in Callers : pc[c] = "descs_up"

\* No sleeper of virtio_disk_rw is forgotten, whichever of the two it waits for.
NoSleeperLeft == NoMissedWake /\ DescsWake

\* A call seen from outside: asked until the device has performed it.
Performed(c) == c \in InFlight /\ \A x \in Places(idx[c][1]) : x[1] = "used"
Seen(c) == CASE pc[c] \in {"idle", "gone"} -> [at |-> "idle"]
             [] Performed(c) -> [at |-> "done", sector |-> op[c].sector,
                                 write |-> op[c].write, data |-> op[c].data]
             [] OTHER -> [at |-> "asked", sector |-> op[c].sector,
                          write |-> op[c].write, data |-> op[c].data]

Dev == INSTANCE BlockDevice WITH call <- [c \in Callers |-> Seen(c)]

\* The driver and the device are a block device: each call takes effect once,
\* between call and return, and a read returns what the medium then held.
Refines == Dev!DevSpec

\* The device has completed an operation after handle_intr saw the used ring
\* empty and before it acknowledged: the interrupt is cleared unseen, and the
\* caller sleeps until another operation completes.
Unseen == Runs /\ isr = 0 /\ More

\* A call whose request is published returns, unless a completion stays
\* unseen.  (One that waits for descriptors is promised no turn: others may
\* take them whenever it wakes.)
Completes == \A c \in Callers : c \in InFlight ~> (c \notin InFlight \/ Unseen)
=============================================================================
