---------------------------- MODULE BlockDevice ----------------------------
(***************************************************************************)
(* What read_blocks_sync and write_blocks_sync of a block device promise:  *)
(* a call takes effect on the medium once, at one moment between call and  *)
(* return, and a read returns what the medium held at that moment.         *)
(***************************************************************************)
CONSTANTS Callers, Sectors, Values

VARIABLES medium,     \* what each sector holds
          call        \* what each caller is about

NoCall == [at |-> "idle"]
Call(at, s, w, v) == [at |-> at, sector |-> s, write |-> w, data |-> v]

DevInit == /\ medium \in [Sectors -> Values]
           /\ call = [c \in Callers |-> NoCall]

Invoke(c) == \E s \in Sectors, w \in {0, 1}, v \in Values :
  /\ call[c] = NoCall
  /\ call' = [call EXCEPT ![c] = Call("asked", s, w, v)]
  /\ UNCHANGED medium

Perform(c) ==
  /\ call[c].at = "asked"
  /\ IF call[c].write = 1
     THEN /\ medium' = [medium EXCEPT ![call[c].sector] = call[c].data]
          /\ call' = [call EXCEPT ![c].at = "done"]
     ELSE /\ call' = [call EXCEPT ![c].at = "done", ![c].data = medium[call[c].sector]]
          /\ UNCHANGED medium

Return(c) == /\ call[c].at = "done"
             /\ call' = [call EXCEPT ![c] = NoCall]
             /\ UNCHANGED medium

DevNext == \E c \in Callers : Invoke(c) \/ Perform(c) \/ Return(c)

DevSpec == DevInit /\ [][DevNext]_<<medium, call>>
=============================================================================
