----------------------------- MODULE ProcProofs -----------------------------
(***************************************************************************)
(* Proofs for Proc, for any number of slots: the steps of the system calls *)
(* into the kernel, of fork and clone, of exit, wait, kill and exit_group, *)
(* and the theorems.  IInv adds to the properties where a process can be,  *)
(* who sets up which slot with which parent, and when files are closed.    *)
(* The line of parents that exit_group frees needs lemmas of its own: it   *)
(* is closed upwards, so a slot being set up is freed with the process     *)
(* that sets it up, or not at all.                                         *)
(***************************************************************************)
EXTENDS Proc, TLAPS

(* The slot numbers that the code computes are slots.                      *)
LEMMA SlotFacts == InitProc \in Procs /\ \A n \in Int : n % N \in Procs
  BY PoolSize DEF Procs, InitProc

(* The slot alloc_proc looks at is one of the pool.                        *)
LEMMA CandidateSlot == ASSUME TypeOK, NEW p \in Procs PROVE Candidate(p) \in Procs
<1>1. last + idx[p] \in Int
  BY PoolSize DEF TypeOK, Procs
<1> QED  BY <1>1, SlotFacts, Zenon DEF Candidate

(* The types of what freeproc writes and of a system call's locals.        *)
SlotTypes ==
    /\ state \in [Procs -> {"unused", "used", "sleeping", "runnable", "zombie"}]
    /\ parent \in [Procs -> Procs \cup {NoProc}] /\ pid \in [Procs -> Pids]
    /\ killed \in [Procs -> {0, 1}] /\ files \in [Procs -> {0, 1}]
LocalTypes ==
    /\ pc \in [Procs -> {"none", "user", "alloc", "last", "copy", "parent", "run",
                         "exit", "exiting", "wait", "group"}]
    /\ np \in [Procs -> Procs \cup {NoProc}] /\ idx \in [Procs -> 0 .. N]
    /\ kind \in [Procs -> {"fork", "thread"}] /\ want \in [Procs -> Pids]

(* freeproc leaves the slots well typed.                                   *)
LEMMA FreeTypes == ASSUME TypeOK, NEW S, freeproc(S) PROVE SlotTypes'
<1>1. 0 \in Pids
  BY PidBound DEF Pids
<1> QED  BY <1>1, Zenon DEF TypeOK, freeproc, SlotTypes

(* The end of a system call leaves the locals well typed.                  *)
LEMMA ReturnTypes == ASSUME TypeOK, NEW p \in Procs, return(p) PROVE LocalTypes'
<1>1. 0 \in Pids /\ 0 \in 0 .. N
  BY PidBound, PoolSize DEF Pids
<1> QED  BY <1>1, Zenon DEF TypeOK, return, goto, LocalTypes

Plain == {"user", "alloc", "exit", "wait"}

(* A move between two places that mean nothing to the invariant.           *)
LEMMA PlainMove ==
    ASSUME IInv, NEW p \in Procs, NEW b \in Plain,
           state[p] = "runnable", pc[p] \in Plain, pc' = [pc EXCEPT ![p] = b],
           UNCHANGED <<state, parent, files, np, masked, leaky, panic>>
    PROVE  PlacesOK' /\ SetupOwned' /\ SetupParent' /\ FilesOK' /\ InitAlive' /\ NothingLost'
<1>1. PlacesOK'
  BY DEF IInv, TypeOK, PlacesOK, PlaceOK, Plain, Setup
<1>2. SetupOwned' /\ SetupParent' /\ FilesOK'
  BY DEF IInv, TypeOK, PlacesOK, PlaceOK, SetupOwned, SetupParent, FilesOK, Plain, Setup
<1>3. InitAlive'
  BY Zenon DEF IInv, TypeOK, InitAlive, Live, Plain
<1>4. NothingLost'
  <2>1. Live' = Live
    BY Zenon DEF Live
  <2>2. \A o \in Procs : pc[o] \in Setup => pc'[o] \in Setup
    BY Zenon DEF IInv, TypeOK, Plain, Setup
  <2>3. \A q \in Procs : (Filled(q) => Filled(q)') /\ (Waited(q) => Waited(q)')
    BY <2>1, <2>2, Zenon DEF Filled, Waited, Live
  <2> QED  BY <2>3, Zenon DEF IInv, NothingLost
<1> QED  BY <1>1, <1>2, <1>3, <1>4, Zenon

(* Fork preserves the invariant.                                           *)
LEMMA ForkStep == ASSUME IInv, NEW p \in Procs, Fork(p) PROVE IInv'
<1>1. PlacesOK' /\ SetupOwned' /\ SetupParent' /\ FilesOK' /\ InitAlive' /\ NothingLost'
  <2>1. /\ state[p] = "runnable" /\ pc[p] = "user" /\ pc' = [pc EXCEPT ![p] = "alloc"]
        /\ UNCHANGED <<state, parent, files, masked, leaky, panic>>
    BY Zenon DEF Fork, InUser, At, goto, global
  <2>2. np' = np
    BY Zenon DEF Fork
  <2> QED  BY <2>1, <2>2, PlainMove, Zenon DEF Plain
<1>2. PidsUnique' /\ ReapQuiet' /\ ExitSeen'
  BY Zenon DEF IInv, PidsUnique, ReapQuiet, ExitSeen, Zombies, Children, Fork, locals, global
<1>3. TypeOK'
  BY PoolSize DEF IInv, TypeOK, Fork, goto, locals, global
<1> QED  BY <1>1, <1>2, <1>3, Zenon DEF IInv

(* ExitCall preserves the invariant.                                       *)
LEMMA ExitCallStep == ASSUME IInv, NEW p \in Procs, ExitCall(p) PROVE IInv'
<1>1. PlacesOK' /\ SetupOwned' /\ SetupParent' /\ FilesOK' /\ InitAlive' /\ NothingLost'
  <2>1. /\ state[p] = "runnable" /\ pc[p] = "user" /\ pc' = [pc EXCEPT ![p] = "exit"]
        /\ UNCHANGED <<state, parent, files, masked, leaky, panic>>
    BY Zenon DEF ExitCall, At, goto, global
  <2>2. np' = np
    BY Zenon DEF ExitCall, locals
  <2> QED  BY <2>1, <2>2, PlainMove, Zenon DEF Plain
<1>2. PidsUnique' /\ ReapQuiet' /\ ExitSeen'
  BY Zenon DEF IInv, PidsUnique, ReapQuiet, ExitSeen, Zombies, Children, ExitCall, locals, global
<1>3. TypeOK'
  BY Zenon  DEF IInv, TypeOK, ExitCall, goto, locals, global
<1> QED  BY <1>1, <1>2, <1>3, Zenon DEF IInv

(* WaitCall preserves the invariant.                                       *)
LEMMA WaitCallStep == ASSUME IInv, NEW p \in Procs, WaitCall(p) PROVE IInv'
<1>1. PlacesOK' /\ SetupOwned' /\ SetupParent' /\ FilesOK' /\ InitAlive' /\ NothingLost'
  <2>1. /\ state[p] = "runnable" /\ pc[p] = "user" /\ pc' = [pc EXCEPT ![p] = "wait"]
        /\ UNCHANGED <<state, parent, files, masked, leaky, panic>>
    BY Zenon DEF WaitCall, InUser, At, goto, global
  <2>2. np' = np
    BY Zenon DEF WaitCall
  <2> QED  BY <2>1, <2>2, PlainMove, Zenon DEF Plain
<1>2. PidsUnique' /\ ReapQuiet'
  BY Zenon DEF IInv, PidsUnique, ReapQuiet, WaitCall, locals, global
<1>3. TypeOK'
  BY Zenon  DEF IInv, TypeOK, WaitCall, goto, locals, global
<1>4. ExitSeen'
  BY NoProcFresh, SlotFacts DEF IInv, TypeOK, PlacesOK, PlaceOK, SetupOwned, ExitSeen, Zombies,
     Children, WaitCall, InUser, At, goto, locals, global, Setup, Pids
<1> QED  BY <1>1, <1>2, <1>3, <1>4, Zenon DEF IInv

(* OpenPipe preserves the invariant.                                       *)
LEMMA OpenPipeStep == ASSUME IInv, NEW p \in Procs, OpenPipe(p) PROVE IInv'
<1>1. PlacesOK' /\ SetupOwned' /\ SetupParent' /\ PidsUnique' /\ ReapQuiet' /\ ExitSeen' /\
        InitAlive' /\ NothingLost'
  BY DEF IInv, PlacesOK, PlaceOK, SetupOwned, SetupParent, PidsUnique, ReapQuiet, ExitSeen,
     InitAlive, NothingLost, Zombies, Children, Live, Filled, Waited, OpenPipe, locals, global
<1>2. TypeOK'
  BY Zenon  DEF IInv, TypeOK, OpenPipe, locals, global
<1>3. FilesOK'
  BY NoProcFresh DEF IInv, TypeOK, PlacesOK, PlaceOK, SetupOwned, FilesOK, OpenPipe, InUser, At,
     locals, global, Setup
<1> QED  BY <1>1, <1>2, <1>3, Zenon DEF IInv

(* GroupCall preserves the invariant.                                      *)
LEMMA GroupCallStep == ASSUME IInv, NEW p \in Procs, GroupCall(p) PROVE IInv'
<1>1. PidsUnique' /\ ReapQuiet' /\ ExitSeen'
  BY Zenon DEF IInv, PidsUnique, ReapQuiet, ExitSeen, Zombies, Children, GroupCall, locals, global
<1>2. TypeOK'
  BY PoolSize DEF IInv, TypeOK, GroupCall, goto, locals, global
<1>3. PlacesOK'
  BY NoProcFresh DEF IInv, TypeOK, PlacesOK, PlaceOK, SetupOwned, GroupCall, InUser, At, goto,
     locals, global, Setup
<1>4. SetupOwned'
  BY NoProcFresh DEF IInv, TypeOK, PlacesOK, PlaceOK, SetupOwned, GroupCall, InUser, At, goto,
     locals, global, Setup
<1>5. SetupParent'
  BY NoProcFresh DEF IInv, TypeOK, PlacesOK, PlaceOK, SetupOwned, SetupParent, GroupCall,
     InUser, At, goto, locals, global, Setup
<1>6. FilesOK'
  BY NoProcFresh DEF IInv, TypeOK, PlacesOK, PlaceOK, SetupOwned, FilesOK, GroupCall, InUser,
     At, goto, locals, global, Setup
<1>7. InitAlive'
  BY NoProcFresh, SlotFacts DEF IInv, TypeOK, PlacesOK, PlaceOK, SetupOwned, InitAlive, Live,
     GroupCall, InUser, At, goto, locals, global, Setup
<1>8. NothingLost'
  BY DEF NothingLost, GroupCall, InUser, At, goto, locals, global
<1> QED  BY <1>1, <1>2, <1>3, <1>4, <1>5, <1>6, <1>7, <1>8, Zenon DEF IInv

(* AllocSkip preserves the invariant.                                      *)
LEMMA AllocSkipStep == ASSUME IInv, NEW p \in Procs, AllocSkip(p) PROVE IInv'
<1>1. PlacesOK' /\ SetupOwned' /\ SetupParent' /\ PidsUnique' /\ FilesOK' /\ ReapQuiet' /\
        ExitSeen' /\ InitAlive' /\ NothingLost'
  BY DEF IInv, PlacesOK, PlaceOK, SetupOwned, SetupParent, PidsUnique, FilesOK, ReapQuiet,
     ExitSeen, InitAlive, NothingLost, Zombies, Children, Live, Filled, Waited, AllocSkip,
     locals, global
<1>2. TypeOK'
  <2>1. idx' \in [Procs -> 0 .. N]
    BY PoolSize DEF IInv, TypeOK, AllocSkip
  <2> QED  BY <2>1, Zenon DEF IInv, TypeOK, AllocSkip, global
<1> QED  BY <1>1, <1>2, Zenon DEF IInv

(* AllocTake preserves the invariant.                                      *)
LEMMA AllocTakeStep == ASSUME IInv, NEW p \in Procs, AllocTake(p) PROVE IInv'
<1> DEFINE c == Candidate(p)
<1>a. /\ c \in Procs /\ state[c] = "unused" /\ idx[p] < N
      /\ pc[p] = "alloc" /\ state[p] = "runnable" /\ nextPid <= MaxPid /\ panic = "no"
  BY CandidateSlot, Zenon DEF IInv, AllocTake, At
<1>b. /\ state' = [state EXCEPT ![c] = "used"] /\ pid' = [pid EXCEPT ![c] = nextPid]
      /\ np' = [np EXCEPT ![p] = c] /\ nextPid' = nextPid + 1
      /\ idx' = [idx EXCEPT ![p] = 0] /\ pc' = [pc EXCEPT ![p] = "last"]
      /\ UNCHANGED <<parent, killed, files, kind, want, last, masked, leaky, panic>>
  BY Zenon DEF AllocTake, goto
<1> HIDE DEF c
<1>1. ReapQuiet'
  BY Zenon DEF IInv, ReapQuiet, AllocTake, locals, global
<1>2. TypeOK'
  BY <1>a, <1>b, NoProcFresh, PidBound, PoolSize DEF IInv, TypeOK, Pids
<1>3. PlacesOK'
  BY <1>a, <1>b, NoProcFresh DEF IInv, TypeOK, PlacesOK, PlaceOK, SetupOwned, Setup
<1>4. SetupOwned'
  BY <1>a, <1>b, NoProcFresh DEF IInv, TypeOK, PlacesOK, PlaceOK, SetupOwned, Setup
<1>5. SetupParent'
  BY <1>a, <1>b, NoProcFresh DEF IInv, TypeOK, PlacesOK, PlaceOK, SetupOwned, SetupParent, Setup
<1>6. PidsUnique'
  BY <1>a, <1>b, NoProcFresh DEF IInv, TypeOK, PidsUnique, PlacesOK, PlaceOK, SetupOwned, Setup,
     Pids
<1>7. FilesOK'
  BY <1>a, <1>b, NoProcFresh DEF IInv, TypeOK, PlacesOK, PlaceOK, SetupOwned, FilesOK, Setup
<1>8. ExitSeen'
  BY <1>a, <1>b, NoProcFresh, SlotFacts DEF IInv, TypeOK, PlacesOK, PlaceOK, SetupOwned,
     ExitSeen, Zombies, Children, Setup, Pids
<1>9. InitAlive'
  BY <1>a, <1>b, NoProcFresh, SlotFacts DEF IInv, TypeOK, PlacesOK, PlaceOK, SetupOwned,
     InitAlive, Live, Setup
<1>10. NothingLost'
  <2> SUFFICES ASSUME leaky' = 0, NEW q \in Procs PROVE Filled(q)' /\ Waited(q)'
    BY Zenon DEF NothingLost
  <2>1. leaky = 0 /\ \A r \in Procs : Filled(r) /\ Waited(r)
    BY Zenon DEF IInv, NothingLost, AllocTake, At, goto, locals, global, Candidate
  <2>2. Filled(q)'
    <3> SUFFICES ASSUME state'[q] = "used" PROVE (\E o \in Live : np[o] = q /\ pc[o] \in Setup)'
      BY Zenon DEF Filled
    <3>1. CASE q = Candidate(p)
      BY <3>1, SlotFacts DEF Live, Setup, IInv, TypeOK, PlacesOK, PlaceOK, SetupOwned,
         AllocTake, At, goto, locals, global, Candidate
    <3>2. CASE q # Candidate(p)
      <4>1. state[q] = "used"
        BY <3>2, SlotFacts DEF IInv, TypeOK, PlacesOK, PlaceOK, SetupOwned, AllocTake, At, goto,
           locals, global, Candidate
      <4>2. PICK o \in Live : np[o] = q /\ pc[o] \in Setup
        BY <2>1, <4>1, Zenon DEF Filled
      <4>3. o # p
        BY <4>2, Zenon DEF Setup, AllocTake, At, goto, locals, global, Candidate
      <4> QED  BY <4>2, <4>3, SlotFacts DEF Live, IInv, TypeOK, PlacesOK, PlaceOK, SetupOwned,
              AllocTake, At, goto, locals, global, Candidate
    <3> QED  BY <3>1, <3>2, Zenon
  <2>3. Waited(q)'
    BY <2>1, SlotFacts, NoProcFresh DEF Waited, Live, Setup, IInv, TypeOK, PlacesOK, PlaceOK,
       SetupOwned, SetupParent, InitAlive, AllocTake, At, goto, locals, global, Candidate
  <2> QED  BY <2>2, <2>3, Zenon
<1> QED  BY <1>1, <1>2, <1>3, <1>4, <1>5, <1>6, <1>7, <1>8, <1>9, <1>10, Zenon DEF IInv

(* AllocFault preserves the invariant.                                     *)
LEMMA AllocFaultStep == ASSUME IInv, NEW p \in Procs, AllocFault(p) PROVE IInv'
<1> DEFINE c == Candidate(p)
<1>a. /\ c \in Procs /\ state[c] = "unused" /\ idx[p] < N
      /\ pc[p] = "alloc" /\ state[p] = "runnable" /\ nextPid <= MaxPid /\ panic = "no"
  BY CandidateSlot, Zenon DEF IInv, AllocFault, At
<1>b. freeproc({c}) /\ return(p) /\ nextPid' = nextPid + 1
      /\ panic' = (IF files[c] = 1 THEN "lock" ELSE "no") /\ UNCHANGED <<last, masked, leaky>>
  BY Zenon DEF AllocFault
<1> HIDE DEF c
<1>1. TypeOK'
  BY <1>a, <1>b, PidBound, FreeTypes, ReturnTypes DEF IInv, TypeOK, SlotTypes, LocalTypes
<1>2. PlacesOK'
  BY <1>a, <1>b, NoProcFresh DEF IInv, TypeOK, PlacesOK, PlaceOK, SetupOwned, return, goto,
     freeproc, locals, global, Setup
<1>3. SetupOwned'
  BY SMTT(20), <1>a, <1>b, NoProcFresh DEF IInv, TypeOK, PlacesOK, PlaceOK, SetupOwned, return,
     goto, freeproc, locals, global, Setup
<1>4. SetupParent'
  BY <1>a, <1>b, NoProcFresh DEF IInv, TypeOK, PlacesOK, PlaceOK, SetupOwned, SetupParent,
     return, goto, freeproc, locals, global, Setup
<1>5. PidsUnique'
  BY SMTT(20), <1>a, <1>b, NoProcFresh DEF IInv, TypeOK, PidsUnique, PlacesOK, PlaceOK,
     SetupOwned, return, goto, freeproc, locals, global, Setup, Pids
<1>6. FilesOK'
  BY <1>a, <1>b, NoProcFresh DEF IInv, TypeOK, PlacesOK, PlaceOK, SetupOwned, FilesOK, return,
     goto, freeproc, locals, global, Setup
<1>7. ReapQuiet'
  BY SMTT(20), <1>a, <1>b, NoProcFresh DEF IInv, ReapQuiet, FilesOK, TypeOK, return, goto,
     freeproc, locals, global
<1>8. ExitSeen'
  BY SMTT(20), <1>a, <1>b, NoProcFresh, SlotFacts DEF IInv, TypeOK, PlacesOK, PlaceOK,
     SetupOwned, ExitSeen, Zombies, Children, return, goto, freeproc, locals, global, Setup,
     Pids
<1>9. InitAlive'
  BY SMTT(20), <1>a, <1>b, NoProcFresh, SlotFacts DEF IInv, TypeOK, PlacesOK, PlaceOK,
     SetupOwned, InitAlive, Live, return, goto, freeproc, locals, global, Setup
<1>10. NothingLost'
  <2> SUFFICES ASSUME leaky' = 0, NEW q \in Procs PROVE Filled(q)' /\ Waited(q)'
    BY Zenon DEF NothingLost
  <2>1. leaky = 0 /\ \A r \in Procs : Filled(r) /\ Waited(r)
    BY Zenon DEF IInv, NothingLost, AllocFault, At, return, goto, freeproc, locals, global, Candidate
  <2>2. Filled(q)'
    <3> SUFFICES ASSUME state'[q] = "used" PROVE (\E o \in Live : np[o] = q /\ pc[o] \in Setup)'
      BY Zenon DEF Filled
    <3>1. state[q] = "used"
      BY NoProcFresh, SlotFacts, Zenon DEF IInv, TypeOK, PlacesOK, PlaceOK, SetupOwned,
         Setup, AllocFault, At, return, goto, freeproc, locals, global, Candidate
    <3>2. PICK o \in Live : np[o] = q /\ pc[o] \in Setup
      BY <2>1, <3>1, Zenon DEF Filled
    <3>3. o # p
      BY <3>2, Zenon DEF Setup, AllocFault, At, return, goto, freeproc, locals, global,
         Candidate
    <3> QED  BY SMTT(20), <3>2, <3>3, NoProcFresh, SlotFacts DEF Live, Setup, IInv, TypeOK,
            PlacesOK, PlaceOK, SetupOwned, AllocFault, At, return, goto, freeproc, locals,
            global, Candidate
  <2>3. Waited(q)'
    BY <2>1, SlotFacts, NoProcFresh, Zenon DEF Waited, Live, Setup, IInv, TypeOK, PlacesOK, PlaceOK,
       SetupOwned, SetupParent, InitAlive, AllocFault, At, return, goto, freeproc, locals,
       global, Candidate
  <2> QED  BY <2>2, <2>3, Zenon
<1> QED  BY <1>1, <1>2, <1>3, <1>4, <1>5, <1>6, <1>7, <1>8, <1>9, <1>10, Zenon DEF IInv

(* AllocNone preserves the invariant.                                      *)
LEMMA AllocNoneStep == ASSUME IInv, NEW p \in Procs, AllocNone(p) PROVE IInv'
<1>1. PlacesOK' /\ SetupOwned' /\ SetupParent' /\ FilesOK' /\ InitAlive' /\ NothingLost'
  <2>1. /\ state[p] = "runnable" /\ pc[p] = "alloc" /\ pc' = [pc EXCEPT ![p] = "user"]
        /\ UNCHANGED <<state, parent, files, masked, leaky, panic>>
    BY Zenon DEF AllocNone, At, return, goto, global
  <2>2. np' = np
    BY <2>1, Zenon DEF IInv, TypeOK, PlacesOK, PlaceOK, Setup, AllocNone, return
  <2> QED  BY <2>1, <2>2, PlainMove, Zenon DEF Plain
<1>2. PidsUnique' /\ ReapQuiet'
  BY Zenon DEF IInv, PidsUnique, ReapQuiet, AllocNone, return, locals, global
<1>3. TypeOK'
  BY ReturnTypes, Zenon DEF IInv, TypeOK, LocalTypes, AllocNone, global
<1>4. ExitSeen'
  BY SMTT(20), NoProcFresh, SlotFacts DEF IInv, TypeOK, PlacesOK, PlaceOK, SetupOwned, ExitSeen,
     Zombies, Children, AllocNone, At, return, goto, locals, global, Setup, Pids
<1> QED  BY <1>1, <1>2, <1>3, <1>4, Zenon DEF IInv

(* AllocDone preserves the invariant.                                      *)
LEMMA AllocDoneStep == ASSUME IInv, NEW p \in Procs, AllocDone(p) PROVE IInv'
<1>1. PidsUnique' /\ ReapQuiet' /\ ExitSeen'
  BY Zenon DEF IInv, PidsUnique, ReapQuiet, ExitSeen, Zombies, Children, AllocDone, locals,
     global
<1>2. TypeOK'
  <2>1. np[p] \in Procs
    BY DEF IInv, TypeOK, PlacesOK, PlaceOK, Setup, AllocDone, At
  <2> QED  BY <2>1, Zenon DEF IInv, TypeOK, AllocDone, goto, locals
<1>3. PlacesOK'
  BY NoProcFresh DEF IInv, TypeOK, PlacesOK, PlaceOK, SetupOwned, AllocDone, At, goto, locals,
     global, Setup
<1>4. SetupOwned'
  BY NoProcFresh DEF IInv, TypeOK, PlacesOK, PlaceOK, SetupOwned, AllocDone, At, goto, locals,
     global, Setup
<1>5. SetupParent'
  BY NoProcFresh DEF IInv, TypeOK, PlacesOK, PlaceOK, SetupOwned, SetupParent, AllocDone, At,
     goto, locals, global, Setup
<1>6. FilesOK'
  BY NoProcFresh DEF IInv, TypeOK, PlacesOK, PlaceOK, SetupOwned, FilesOK, AllocDone, At, goto,
     locals, global, Setup
<1>7. InitAlive'
  BY SMTT(20), NoProcFresh, SlotFacts DEF IInv, TypeOK, PlacesOK, PlaceOK, SetupOwned,
     InitAlive, Live, AllocDone, At, goto, locals, global, Setup
<1>8. NothingLost'
  <2> SUFFICES ASSUME leaky' = 0, NEW q \in Procs PROVE Filled(q)' /\ Waited(q)'
    BY Zenon DEF NothingLost
  <2>1. leaky = 0 /\ \A r \in Procs : Filled(r) /\ Waited(r)
    BY Zenon DEF IInv, NothingLost, AllocDone, At, goto, locals, global
  <2>2. Filled(q)'
    <3> SUFFICES ASSUME state'[q] = "used" PROVE (\E o \in Live : np[o] = q /\ pc[o] \in Setup)'
      BY Zenon DEF Filled
    <3>1. state[q] = "used"
      BY NoProcFresh, Zenon DEF IInv, TypeOK, PlacesOK, PlaceOK, SetupOwned, Setup, AllocDone, At,
         goto, locals, global
    <3>2. PICK o \in Live : np[o] = q /\ pc[o] \in Setup
      BY <2>1, <3>1, Zenon DEF Filled
    <3> QED  BY <3>2 DEF Live, Setup, IInv, TypeOK, PlacesOK, PlaceOK, SetupOwned, AllocDone,
            At, goto, locals, global
  <2>3. Waited(q)'
    BY <2>1, SlotFacts, NoProcFresh, Zenon DEF Waited, Live, Setup, IInv, TypeOK, PlacesOK, PlaceOK,
       SetupOwned, SetupParent, InitAlive, AllocDone, At, goto, locals, global
  <2> QED  BY <2>2, <2>3, Zenon
<1> QED  BY <1>1, <1>2, <1>3, <1>4, <1>5, <1>6, <1>7, <1>8, Zenon DEF IInv

(* ForkCopy preserves the invariant.                                       *)
LEMMA ForkCopyStep == ASSUME IInv, NEW p \in Procs, ForkCopy(p) PROVE IInv'
<1>1. PidsUnique' /\ ReapQuiet' /\ ExitSeen'
  BY Zenon DEF IInv, PidsUnique, ReapQuiet, ExitSeen, Zombies, Children, ForkCopy, locals, global
<1>2. TypeOK'
  BY Zenon DEF IInv, TypeOK, ForkCopy, goto, locals, global
<1>3. PlacesOK'
  BY NoProcFresh DEF IInv, TypeOK, PlacesOK, PlaceOK, SetupOwned, ForkCopy, At, goto, locals,
     global, Setup
<1>4. SetupOwned'
  BY NoProcFresh DEF IInv, TypeOK, PlacesOK, PlaceOK, SetupOwned, ForkCopy, At, goto, locals,
     global, Setup
<1>5. SetupParent'
  BY NoProcFresh DEF IInv, TypeOK, PlacesOK, PlaceOK, SetupOwned, SetupParent, ForkCopy, At,
     goto, locals, global, Setup
<1>6. FilesOK'
  BY NoProcFresh DEF IInv, TypeOK, PlacesOK, PlaceOK, SetupOwned, FilesOK, ForkCopy, At, goto,
     locals, global, Setup
<1>7. InitAlive'
  BY NoProcFresh, SlotFacts DEF IInv, TypeOK, PlacesOK, PlaceOK, SetupOwned, InitAlive, Live,
     ForkCopy, At, goto, locals, global, Setup
<1>8. NothingLost'
  <2> SUFFICES ASSUME leaky' = 0, NEW q \in Procs PROVE Filled(q)' /\ Waited(q)'
    BY Zenon DEF NothingLost
  <2>1. leaky = 0 /\ \A r \in Procs : Filled(r) /\ Waited(r)
    BY Zenon DEF IInv, NothingLost, ForkCopy, At, goto, locals, global
  <2>2. Filled(q)'
    <3> SUFFICES ASSUME state'[q] = "used" PROVE (\E o \in Live : np[o] = q /\ pc[o] \in Setup)'
      BY Zenon DEF Filled
    <3>1. state[q] = "used"
      BY NoProcFresh, Zenon DEF IInv, TypeOK, PlacesOK, PlaceOK, SetupOwned, Setup, ForkCopy, At, goto,
         locals, global
    <3>2. PICK o \in Live : np[o] = q /\ pc[o] \in Setup
      BY <2>1, <3>1, Zenon DEF Filled
    <3> QED  BY <3>2 DEF Live, Setup, IInv, TypeOK, PlacesOK, PlaceOK, SetupOwned, ForkCopy, At,
            goto, locals, global
  <2>3. Waited(q)'
    BY <2>1, SlotFacts, NoProcFresh, Zenon DEF Waited, Live, Setup, IInv, TypeOK, PlacesOK,
       PlaceOK, SetupOwned, SetupParent, InitAlive, ForkCopy, At, goto, locals, global
  <2> QED  BY <2>2, <2>3, Zenon
<1> QED  BY <1>1, <1>2, <1>3, <1>4, <1>5, <1>6, <1>7, <1>8, Zenon DEF IInv

(* ForkFault preserves the invariant.                                      *)
LEMMA ForkFaultStep == ASSUME IInv, NEW p \in Procs, ForkFault(p) PROVE IInv'
<1>1. ReapQuiet'
  BY Zenon DEF IInv, ReapQuiet, ForkFault, return, freeproc, locals, global
<1>2. TypeOK'
  BY FreeTypes, ReturnTypes, Zenon DEF IInv, TypeOK, SlotTypes, LocalTypes, ForkFault, global
<1>3. PlacesOK'
  BY SMTT(20), NoProcFresh DEF IInv, TypeOK, PlacesOK, PlaceOK, SetupOwned, ForkFault, At,
     return, goto, freeproc, locals, global, Setup
<1>4. SetupOwned'
  BY SMTT(20), NoProcFresh DEF IInv, TypeOK, PlacesOK, PlaceOK, SetupOwned, ForkFault, At,
     return, goto, freeproc, locals, global, Setup
<1>5. SetupParent'
  BY SMTT(20), NoProcFresh DEF IInv, TypeOK, PlacesOK, PlaceOK, SetupOwned, SetupParent,
     ForkFault, At, return, goto, freeproc, locals, global, Setup
<1>6. PidsUnique'
  BY SMTT(20), NoProcFresh DEF IInv, TypeOK, PidsUnique, PlacesOK, PlaceOK, SetupOwned,
     ForkFault, At, return, goto, freeproc, locals, global, Setup, Pids
<1>7. FilesOK'
  BY SMTT(20), NoProcFresh DEF IInv, TypeOK, PlacesOK, PlaceOK, SetupOwned, FilesOK, ForkFault,
     At, return, goto, freeproc, locals, global, Setup
<1>8. ExitSeen'
  BY SMTT(20), NoProcFresh, SlotFacts DEF IInv, TypeOK, PlacesOK, PlaceOK, SetupOwned, ExitSeen,
     Zombies, Children, ForkFault, At, return, goto, freeproc, locals, global, Setup, Pids
<1>9. InitAlive'
  BY SMTT(20), NoProcFresh, SlotFacts DEF IInv, TypeOK, PlacesOK, PlaceOK, SetupOwned,
     InitAlive, Live, ForkFault, At, return, goto, freeproc, locals, global, Setup
<1>10. NothingLost'
  <2> SUFFICES ASSUME leaky' = 0, NEW q \in Procs PROVE Filled(q)' /\ Waited(q)'
    BY Zenon DEF NothingLost
  <2>1. leaky = 0 /\ \A r \in Procs : Filled(r) /\ Waited(r)
    BY Zenon DEF IInv, NothingLost, ForkFault, At, return, goto, freeproc, locals, global
  <2>2. Filled(q)'
    <3> SUFFICES ASSUME state'[q] = "used" PROVE (\E o \in Live : np[o] = q /\ pc[o] \in Setup)'
      BY Zenon DEF Filled
    <3>1. state[q] = "used"
      BY NoProcFresh, Zenon DEF IInv, TypeOK, PlacesOK, PlaceOK, SetupOwned, Setup,
         ForkFault, At, return, goto, freeproc, locals, global
    <3>2. PICK o \in Live : np[o] = q /\ pc[o] \in Setup
      BY <2>1, <3>1, Zenon DEF Filled
    <3>3. o # p
      BY <3>2, NoProcFresh, Zenon DEF Setup, IInv, TypeOK, PlacesOK, PlaceOK, SetupOwned,
         ForkFault, At, return, goto, freeproc, locals, global
    <3> QED  BY SMTT(20), <3>2, <3>3, NoProcFresh DEF Live, Setup, IInv, TypeOK, PlacesOK,
            PlaceOK, SetupOwned, ForkFault, At, return, goto, freeproc, locals, global
  <2>3. Waited(q)'
    BY <2>1, SlotFacts, NoProcFresh DEF Waited, Live, Setup, IInv, TypeOK, PlacesOK, PlaceOK,
       SetupOwned, SetupParent, InitAlive, ForkFault, At, return, goto, freeproc, locals, global
  <2> QED  BY <2>2, <2>3, Zenon
<1> QED  BY <1>1, <1>2, <1>3, <1>4, <1>5, <1>6, <1>7, <1>8, <1>9, <1>10, Zenon DEF IInv

(* CloneNoVm preserves the invariant.                                      *)
LEMMA CloneNoVmStep == ASSUME IInv, NEW p \in Procs, CloneNoVm(p) PROVE IInv'
<1>1. PidsUnique' /\ ReapQuiet'
  BY Zenon DEF IInv, PidsUnique, ReapQuiet, CloneNoVm, return, locals, global
<1>2. TypeOK'
  BY ReturnTypes, Zenon DEF IInv, TypeOK, LocalTypes, CloneNoVm
<1>3. PlacesOK'
  BY SMTT(20), NoProcFresh DEF IInv, TypeOK, PlacesOK, PlaceOK, SetupOwned, CloneNoVm, At,
     return, goto, locals, global, Setup
<1>4. SetupOwned'
  BY SMTT(20), NoProcFresh DEF IInv, TypeOK, PlacesOK, PlaceOK, SetupOwned, CloneNoVm, At,
     return, goto, locals, global, Setup
<1>5. SetupParent'
  BY SMTT(20), NoProcFresh DEF IInv, TypeOK, PlacesOK, PlaceOK, SetupOwned, SetupParent,
     CloneNoVm, At, return, goto, locals, global, Setup
<1>6. FilesOK'
  BY SMTT(20), NoProcFresh DEF IInv, TypeOK, PlacesOK, PlaceOK, SetupOwned, FilesOK, CloneNoVm,
     At, return, goto, locals, global, Setup
<1>7. ExitSeen'
  BY SMTT(20), NoProcFresh, SlotFacts DEF IInv, TypeOK, PlacesOK, PlaceOK, SetupOwned, ExitSeen,
     Zombies, Children, CloneNoVm, At, return, goto, locals, global, Setup, Pids
<1>8. InitAlive'
  BY NoProcFresh, SlotFacts DEF IInv, TypeOK, PlacesOK, PlaceOK, SetupOwned, InitAlive, Live,
     CloneNoVm, At, return, goto, locals, global, Setup
<1>9. NothingLost'
  BY DEF NothingLost, CloneNoVm, At, return, goto, locals, global
<1> QED  BY <1>1, <1>2, <1>3, <1>4, <1>5, <1>6, <1>7, <1>8, <1>9, Zenon DEF IInv

(* ForkParent preserves the invariant.                                     *)
LEMMA ForkParentStep == ASSUME IInv, NEW p \in Procs, ForkParent(p) PROVE IInv'
<1>1. PidsUnique' /\ ReapQuiet'
  BY Zenon DEF IInv, PidsUnique, ReapQuiet, ForkParent, locals, global
<1>2. TypeOK'
  BY Zenon DEF IInv, TypeOK, ForkParent, goto, locals, global
<1>3. PlacesOK'
  BY SMTT(20), NoProcFresh DEF IInv, TypeOK, PlacesOK, PlaceOK, SetupOwned, ForkParent, At,
     goto, locals, global, Setup
<1>4. SetupOwned'
  BY SMTT(20), NoProcFresh DEF IInv, TypeOK, PlacesOK, PlaceOK, SetupOwned, ForkParent, At,
     goto, locals, global, Setup
<1>5. SetupParent'
  BY SMTT(20), NoProcFresh DEF IInv, TypeOK, PlacesOK, PlaceOK, SetupOwned, SetupParent,
     ForkParent, At, goto, locals, global, Setup
<1>6. FilesOK'
  BY SMTT(20), NoProcFresh DEF IInv, TypeOK, PlacesOK, PlaceOK, SetupOwned, FilesOK, ForkParent,
     At, goto, locals, global, Setup
<1>7. ExitSeen'
  BY SMTT(20), NoProcFresh, SlotFacts DEF IInv, TypeOK, PlacesOK, PlaceOK, SetupOwned, ExitSeen,
     Zombies, Children, ForkParent, At, goto, locals, global, Setup, Pids
<1>8. InitAlive'
  BY NoProcFresh, SlotFacts DEF IInv, TypeOK, PlacesOK, PlaceOK, SetupOwned, InitAlive, Live,
     ForkParent, At, goto, locals, global, Setup
<1>9. NothingLost'
  <2> SUFFICES ASSUME leaky' = 0, NEW q \in Procs PROVE Filled(q)' /\ Waited(q)'
    BY Zenon DEF NothingLost
  <2>1. leaky = 0 /\ \A r \in Procs : Filled(r) /\ Waited(r)
    BY Zenon DEF IInv, NothingLost, ForkParent, At, goto, locals, global
  <2>2. Filled(q)'
    <3> SUFFICES ASSUME state'[q] = "used" PROVE (\E o \in Live : np[o] = q /\ pc[o] \in Setup)'
      BY Zenon DEF Filled
    <3>1. state[q] = "used"
      BY NoProcFresh, Zenon DEF IInv, TypeOK, PlacesOK, PlaceOK, SetupOwned, Setup,
         ForkParent, At, goto, locals, global
    <3>2. PICK o \in Live : np[o] = q /\ pc[o] \in Setup
      BY <2>1, <3>1, Zenon DEF Filled
    <3> QED  BY <3>2 DEF Live, Setup, IInv, TypeOK, PlacesOK, PlaceOK, SetupOwned, ForkParent,
            At, goto, locals, global
  <2>3. Waited(q)'
    BY <2>1, SlotFacts, NoProcFresh DEF Waited, Live, Setup, IInv, TypeOK, PlacesOK, PlaceOK,
       SetupOwned, SetupParent, InitAlive, ForkParent, At, goto, locals, global
  <2> QED  BY <2>2, <2>3, Zenon
<1> QED  BY <1>1, <1>2, <1>3, <1>4, <1>5, <1>6, <1>7, <1>8, <1>9, Zenon DEF IInv

(* ForkRun preserves the invariant.                                        *)
LEMMA ForkRunStep == ASSUME IInv, NEW p \in Procs, ForkRun(p) PROVE IInv'
<1>1. ReapQuiet'
  BY Zenon DEF IInv, ReapQuiet, ForkRun, locals, global
<1>2. TypeOK'
  BY Zenon DEF IInv, TypeOK, ForkRun, locals, global
<1>3. PlacesOK'
  BY SMTT(20), NoProcFresh DEF IInv, TypeOK, PlacesOK, PlaceOK, SetupOwned, ForkRun, At, locals,
     global, Setup
<1>4. SetupOwned'
  BY SMTT(20), NoProcFresh DEF IInv, TypeOK, PlacesOK, PlaceOK, SetupOwned, ForkRun, At, locals,
     global, Setup
<1>5. SetupParent'
  BY SMTT(20), NoProcFresh DEF IInv, TypeOK, PlacesOK, PlaceOK, SetupOwned, SetupParent,
     ForkRun, At, locals, global, Setup
<1>6. PidsUnique'
  BY SMTT(20), NoProcFresh DEF IInv, TypeOK, PidsUnique, PlacesOK, PlaceOK, SetupOwned, ForkRun,
     At, locals, global, Setup, Pids
<1>7. FilesOK'
  BY SMTT(20), NoProcFresh DEF IInv, TypeOK, PlacesOK, PlaceOK, SetupOwned, FilesOK, ForkRun,
     At, locals, global, Setup
<1>8. ExitSeen'
  BY SMTT(20), NoProcFresh, SlotFacts DEF IInv, TypeOK, PlacesOK, PlaceOK, SetupOwned, ExitSeen,
     Zombies, Children, ForkRun, At, locals, global, Setup, Pids
<1>9. InitAlive'
  BY NoProcFresh, SlotFacts DEF IInv, TypeOK, PlacesOK, PlaceOK, SetupOwned, InitAlive, Live,
     ForkRun, At, locals, global, Setup
<1>10. NothingLost'
  <2> SUFFICES ASSUME leaky' = 0, NEW q \in Procs PROVE Filled(q)' /\ Waited(q)'
    BY Zenon DEF NothingLost
  <2>1. leaky = 0 /\ \A r \in Procs : Filled(r) /\ Waited(r)
    BY Zenon DEF IInv, NothingLost, ForkRun, At, locals, global
  <2>2. Filled(q)'
    <3> SUFFICES ASSUME state'[q] = "used" PROVE (\E o \in Live : np[o] = q /\ pc[o] \in Setup)'
      BY Zenon DEF Filled
    <3>1. state[q] = "used"
      BY SMTT(20), NoProcFresh DEF IInv, TypeOK, PlacesOK, PlaceOK, SetupOwned, Setup, ForkRun,
         At, locals, global
    <3>2. PICK o \in Live : np[o] = q /\ pc[o] \in Setup
      BY <2>1, <3>1, Zenon DEF Filled
    <3>3. o # p
      BY <3>2, NoProcFresh, Zenon DEF Setup, IInv, TypeOK, PlacesOK, PlaceOK, SetupOwned,
         ForkRun, At, locals, global
    <3> QED  BY SMTT(20), <3>2, <3>3, NoProcFresh DEF Live, Setup, IInv, TypeOK, PlacesOK,
            PlaceOK, SetupOwned, ForkRun, At, locals, global
  <2>3. Waited(q)'
    BY <2>1, SlotFacts, NoProcFresh DEF Waited, Live, Setup, IInv, TypeOK, PlacesOK, PlaceOK,
       SetupOwned, SetupParent, InitAlive, ForkRun, At, locals, global
  <2> QED  BY <2>2, <2>3, Zenon
<1> QED  BY <1>1, <1>2, <1>3, <1>4, <1>5, <1>6, <1>7, <1>8, <1>9, <1>10, Zenon DEF IInv

-----------------------------------------------------------------------------
(* ExitFiles preserves the invariant.                                      *)
LEMMA ExitFilesStep == ASSUME IInv, NEW p \in Procs, ExitFiles(p) PROVE IInv'
<1>1. PidsUnique' /\ ExitSeen'
  BY Zenon DEF IInv, PidsUnique, ExitSeen, Zombies, Children, ExitFiles, locals, global
<1>2. TypeOK'
  BY Zenon  DEF IInv, TypeOK, ExitFiles, goto, locals, global
<1>3. PlacesOK'
  BY NoProcFresh DEF IInv, TypeOK, PlacesOK, PlaceOK, SetupOwned, ExitFiles, At, goto, locals,
     global, Setup
<1>4. SetupOwned'
  BY NoProcFresh DEF IInv, TypeOK, PlacesOK, PlaceOK, SetupOwned, ExitFiles, At, goto, locals,
     global, Setup
<1>5. SetupParent'
  BY NoProcFresh DEF IInv, TypeOK, PlacesOK, PlaceOK, SetupOwned, SetupParent, ExitFiles, At,
     goto, locals, global, Setup
<1>6. FilesOK'
  BY NoProcFresh DEF IInv, TypeOK, PlacesOK, PlaceOK, SetupOwned, FilesOK, ExitFiles, At, goto,
     locals, global, Setup
<1>7. ReapQuiet'
  BY NoProcFresh, Zenon DEF IInv, ReapQuiet, FilesOK, TypeOK, ExitFiles, At, goto, locals, global
<1>8. InitAlive'
  BY NoProcFresh, SlotFacts DEF IInv, TypeOK, PlacesOK, PlaceOK, SetupOwned, InitAlive, Live,
     ExitFiles, At, goto, locals, global, Setup
<1>9. NothingLost'
  <2> SUFFICES ASSUME leaky' = 0, NEW q \in Procs PROVE Filled(q)' /\ Waited(q)'
    BY Zenon DEF NothingLost
  <2>1. leaky = 0 /\ \A r \in Procs : Filled(r) /\ Waited(r)
    BY Zenon DEF IInv, NothingLost, ExitFiles, At, goto, locals, global
  <2>2. Filled(q)'
    <3> SUFFICES ASSUME state'[q] = "used" PROVE (\E o \in Live : np[o] = q /\ pc[o] \in Setup)'
      BY Zenon DEF Filled
    <3>1. state[q] = "used"
      BY NoProcFresh, SlotFacts, Zenon DEF IInv, TypeOK, PlacesOK, PlaceOK, SetupOwned, Setup,
         ExitFiles, At, goto, locals, global
    <3>2. PICK o \in Live : np[o] = q /\ pc[o] \in Setup
      BY <2>1, <3>1, Zenon DEF Filled
    <3>3. o # p
      BY <3>2, Zenon DEF Setup, ExitFiles, At, goto, locals, global
    <3> QED  BY <3>2, <3>3, NoProcFresh, SlotFacts DEF Live, Setup, IInv, TypeOK, PlacesOK,
            PlaceOK, SetupOwned, ExitFiles, At, goto, locals, global
  <2>3. Waited(q)'
    BY <2>1, SlotFacts, NoProcFresh, Zenon DEF Waited, Live, Setup, IInv, TypeOK, PlacesOK, PlaceOK,
       SetupOwned, SetupParent, InitAlive, ExitFiles, At, goto, locals, global
  <2> QED  BY <2>2, <2>3, Zenon
<1> QED  BY <1>1, <1>2, <1>3, <1>4, <1>5, <1>6, <1>7, <1>8, <1>9, Zenon DEF IInv

(* ExitProc preserves the invariant.                                       *)
LEMMA ExitProcStep == ASSUME IInv, NEW p \in Procs, ExitProc(p) PROVE IInv'
<1>1. ReapQuiet'
  BY Zenon DEF IInv, ReapQuiet, ExitProc, reparent, ExitWakes, locals, global
<1>2. TypeOK'
  BY SlotFacts, Zenon DEF IInv, TypeOK, ExitProc, goto, reparent, ExitWakes, locals, global
<1>3. PlacesOK'
  BY NoProcFresh DEF IInv, TypeOK, PlacesOK, PlaceOK, SetupOwned, ExitProc, At, goto, reparent,
     ExitWakes, locals, global, Setup
<1>4. SetupOwned'
  BY NoProcFresh DEF IInv, TypeOK, PlacesOK, PlaceOK, SetupOwned, ExitProc, At, goto, reparent,
     ExitWakes, locals, global, Setup
<1>5. SetupParent'
  BY NoProcFresh DEF IInv, TypeOK, PlacesOK, PlaceOK, SetupOwned, SetupParent, ExitProc, At,
     goto, reparent, ExitWakes, locals, global, Setup
<1>6. PidsUnique'
  BY NoProcFresh DEF IInv, TypeOK, PidsUnique, PlacesOK, PlaceOK, SetupOwned, ExitProc, At,
     goto, reparent, ExitWakes, locals, global, Setup, Pids
<1>7. FilesOK'
  BY NoProcFresh DEF IInv, TypeOK, PlacesOK, PlaceOK, SetupOwned, FilesOK, ExitProc, At, goto,
     reparent, ExitWakes, locals, global, Setup
<1>8. ExitSeen'
  BY SMTT(20), NoProcFresh, SlotFacts DEF IInv, TypeOK, PlacesOK, PlaceOK, SetupOwned, ExitSeen,
     Zombies, Children, ExitProc, At, goto, reparent, ExitWakes, locals, global, Setup, Pids
<1>9. InitAlive'
  BY NoProcFresh, SlotFacts DEF IInv, TypeOK, PlacesOK, PlaceOK, SetupOwned, InitAlive, Live,
     ExitProc, At, goto, reparent, ExitWakes, locals, global, Setup
<1>10. NothingLost'
  <2> SUFFICES ASSUME leaky' = 0, NEW q \in Procs PROVE Filled(q)' /\ Waited(q)'
    BY Zenon DEF NothingLost
  <2>1. leaky = 0 /\ \A r \in Procs : Filled(r) /\ Waited(r)
    BY Zenon DEF IInv, NothingLost, ExitProc, At, goto, reparent, ExitWakes, locals, global
  <2>2. Filled(q)'
    <3> SUFFICES ASSUME state'[q] = "used" PROVE (\E o \in Live : np[o] = q /\ pc[o] \in Setup)'
      BY Zenon DEF Filled
    <3>1. state[q] = "used"
      BY NoProcFresh, SlotFacts, Zenon DEF IInv, TypeOK, PlacesOK, PlaceOK, SetupOwned, Setup,
         ExitProc, At, goto, reparent, ExitWakes, locals, global
    <3>2. PICK o \in Live : np[o] = q /\ pc[o] \in Setup
      BY <2>1, <3>1, Zenon DEF Filled
    <3>3. o # p
      BY <3>2, Zenon DEF Setup, ExitProc, At, goto, reparent, ExitWakes, locals, global
    <3> QED  BY SMTT(20), <3>2, <3>3, NoProcFresh, SlotFacts DEF Live, Setup, IInv, TypeOK,
            PlacesOK, PlaceOK, SetupOwned, ExitProc, At, goto, reparent, ExitWakes, locals,
            global
  <2>3. Waited(q)'
    BY <2>1, SlotFacts, NoProcFresh, SMTT(20) DEF Waited, Live, Setup, IInv, TypeOK, PlacesOK, PlaceOK,
       SetupOwned, SetupParent, InitAlive, ExitProc, At, goto, reparent, ExitWakes, locals,
       global
  <2> QED  BY <2>2, <2>3, Zenon
<1> QED  BY <1>1, <1>2, <1>3, <1>4, <1>5, <1>6, <1>7, <1>8, <1>9, <1>10, Zenon DEF IInv

(* WaitReap preserves the invariant.                                       *)
LEMMA WaitReapStep == ASSUME IInv, NEW p \in Procs, WaitReap(p) PROVE IInv'
<1>1. TypeOK'
  BY FreeTypes, ReturnTypes, Zenon DEF IInv, TypeOK, SlotTypes, LocalTypes, WaitReap, global
<1>2. PlacesOK'
  BY SMTT(20), NoProcFresh DEF IInv, TypeOK, PlacesOK, PlaceOK, SetupOwned, WaitReap, At,
     return, goto, freeproc, locals, global, Setup, FirstZombie, Zombies, Children
<1>3. SetupOwned'
  BY SMTT(20), NoProcFresh DEF IInv, TypeOK, PlacesOK, PlaceOK, SetupOwned, WaitReap, At,
     return, goto, freeproc, locals, global, Setup, FirstZombie, Zombies, Children
<1>4. SetupParent'
  BY SMTT(20), NoProcFresh DEF IInv, TypeOK, PlacesOK, PlaceOK, SetupOwned, SetupParent,
     WaitReap, At, return, goto, freeproc, locals, global, Setup, FirstZombie, Zombies, Children
<1>5. PidsUnique'
  BY SMTT(20), NoProcFresh DEF IInv, TypeOK, PidsUnique, PlacesOK, PlaceOK, SetupOwned,
     WaitReap, At, return, goto, freeproc, locals, global, Setup, Pids, FirstZombie, Zombies,
     Children
<1>6. FilesOK'
  BY NoProcFresh DEF IInv, TypeOK, PlacesOK, PlaceOK, SetupOwned, FilesOK, WaitReap, At, return,
     goto, freeproc, locals, global, Setup, FirstZombie, Zombies, Children
<1>7. ReapQuiet'
  BY NoProcFresh, SMTT(20) DEF IInv, ReapQuiet, FilesOK, TypeOK, WaitReap, At, return, goto, freeproc,
     locals, global, FirstZombie, Zombies, Children
<1>8. ExitSeen'
  BY SMTT(20), NoProcFresh, SlotFacts DEF IInv, TypeOK, PlacesOK, PlaceOK, SetupOwned, ExitSeen,
     Zombies, Children, WaitReap, At, return, goto, freeproc, locals, global, Setup, Pids,
     FirstZombie
<1>9. InitAlive'
  BY NoProcFresh, SlotFacts DEF IInv, TypeOK, PlacesOK, PlaceOK, SetupOwned, InitAlive, Live,
     WaitReap, At, return, goto, freeproc, locals, global, Setup, FirstZombie, Zombies, Children
<1>10. NothingLost'
  <2> SUFFICES ASSUME leaky' = 0, NEW q \in Procs PROVE Filled(q)' /\ Waited(q)'
    BY Zenon DEF NothingLost
  <2>1. leaky = 0 /\ \A r \in Procs : Filled(r) /\ Waited(r)
    BY Zenon DEF IInv, NothingLost, WaitReap, At, return, goto, freeproc, locals, global, FirstZombie,
       Zombies, Children
  <2>2. Filled(q)'
    <3> SUFFICES ASSUME state'[q] = "used" PROVE (\E o \in Live : np[o] = q /\ pc[o] \in Setup)'
      BY Zenon DEF Filled
    <3>1. state[q] = "used"
      BY NoProcFresh DEF IInv, TypeOK, PlacesOK, PlaceOK, SetupOwned, Setup, WaitReap, At,
         return, goto, freeproc, locals, global, FirstZombie, Zombies, Children
    <3>2. PICK o \in Live : np[o] = q /\ pc[o] \in Setup
      BY <2>1, <3>1, Zenon DEF Filled
    <3>3. o # p
      BY <3>2, Zenon DEF Setup, WaitReap, At, return, goto, freeproc, locals, global,
         FirstZombie, Zombies, Children
    <3> QED  BY SMTT(20), <3>2, <3>3, NoProcFresh DEF Live, Setup, IInv, TypeOK, PlacesOK,
            PlaceOK, SetupOwned, WaitReap, At, return, goto, freeproc, locals, global,
            FirstZombie, Zombies, Children
  <2>3. Waited(q)'
    BY <2>1, SlotFacts, NoProcFresh DEF Waited, Live, Setup, IInv, TypeOK, PlacesOK, PlaceOK,
       SetupOwned, SetupParent, InitAlive, WaitReap, At, return, goto, freeproc, locals, global,
       FirstZombie, Zombies, Children
  <2> QED  BY <2>2, <2>3, Zenon
<1> QED  BY <1>1, <1>2, <1>3, <1>4, <1>5, <1>6, <1>7, <1>8, <1>9, <1>10, Zenon DEF IInv

(* WaitFault preserves the invariant.                                      *)
LEMMA WaitFaultStep == ASSUME IInv, NEW p \in Procs, WaitFault(p) PROVE IInv'
<1>1. PlacesOK' /\ SetupOwned' /\ SetupParent' /\ FilesOK' /\ InitAlive' /\ NothingLost'
  <2>1. /\ state[p] = "runnable" /\ pc[p] = "wait" /\ pc' = [pc EXCEPT ![p] = "user"]
        /\ UNCHANGED <<state, parent, files, masked, leaky, panic>>
    BY Zenon DEF WaitFault, At, return, goto, global
  <2>2. np' = np
    BY <2>1, Zenon DEF IInv, TypeOK, PlacesOK, PlaceOK, Setup, WaitFault, return
  <2> QED  BY <2>1, <2>2, PlainMove, Zenon DEF Plain
<1>2. PidsUnique' /\ ReapQuiet'
  BY Zenon DEF IInv, PidsUnique, ReapQuiet, WaitFault, return, locals, global
<1>3. TypeOK'
  BY ReturnTypes, Zenon DEF IInv, TypeOK, LocalTypes, WaitFault, global
<1>4. ExitSeen'
  BY SMTT(20), NoProcFresh, SlotFacts DEF IInv, TypeOK, PlacesOK, PlaceOK, SetupOwned, ExitSeen,
     Zombies, Children, WaitFault, At, return, goto, locals, global, Setup, Pids
<1> QED  BY <1>1, <1>2, <1>3, <1>4, Zenon DEF IInv

(* WaitNone preserves the invariant.                                       *)
LEMMA WaitNoneStep == ASSUME IInv, NEW p \in Procs, WaitNone(p) PROVE IInv'
<1>1. PlacesOK' /\ SetupOwned' /\ SetupParent' /\ FilesOK' /\ InitAlive' /\ NothingLost'
  <2>1. /\ state[p] = "runnable" /\ pc[p] = "wait" /\ pc' = [pc EXCEPT ![p] = "user"]
        /\ UNCHANGED <<state, parent, files, masked, leaky, panic>>
    BY Zenon DEF WaitNone, At, return, goto, global
  <2>2. np' = np
    BY <2>1, Zenon DEF IInv, TypeOK, PlacesOK, PlaceOK, Setup, WaitNone, return
  <2> QED  BY <2>1, <2>2, PlainMove, Zenon DEF Plain
<1>2. PidsUnique' /\ ReapQuiet'
  BY Zenon DEF IInv, PidsUnique, ReapQuiet, WaitNone, return, locals, global
<1>3. TypeOK'
  BY ReturnTypes, Zenon DEF IInv, TypeOK, LocalTypes, WaitNone, global
<1>4. ExitSeen'
  BY NoProcFresh, SlotFacts DEF IInv, TypeOK, PlacesOK, PlaceOK, SetupOwned, ExitSeen, Zombies,
     Children, WaitNone, At, return, goto, locals, global, Setup, Pids
<1> QED  BY <1>1, <1>2, <1>3, <1>4, Zenon DEF IInv

(* WaitSleep preserves the invariant.                                      *)
LEMMA WaitSleepStep == ASSUME IInv, NEW p \in Procs, WaitSleep(p) PROVE IInv'
<1>1. SetupParent' /\ ReapQuiet'
  BY Zenon DEF IInv, SetupParent, ReapQuiet, WaitSleep, locals, global
<1>2. TypeOK'
  BY Zenon  DEF IInv, TypeOK, WaitSleep, locals, global
<1>3. PlacesOK'
  BY NoProcFresh DEF IInv, TypeOK, PlacesOK, PlaceOK, SetupOwned, WaitSleep, At, locals, global,
     Setup
<1>4. SetupOwned'
  BY SMTT(20), NoProcFresh DEF IInv, TypeOK, PlacesOK, PlaceOK, SetupOwned, WaitSleep, At,
     locals, global, Setup
<1>5. PidsUnique'
  BY SMTT(20), NoProcFresh DEF IInv, TypeOK, PidsUnique, PlacesOK, PlaceOK, SetupOwned,
     WaitSleep, At, locals, global, Setup, Pids
<1>6. FilesOK'
  BY SMTT(20), NoProcFresh DEF IInv, TypeOK, PlacesOK, PlaceOK, SetupOwned, FilesOK, WaitSleep,
     At, locals, global, Setup
<1>7. ExitSeen'
  BY SMTT(20), NoProcFresh, SlotFacts DEF IInv, TypeOK, PlacesOK, PlaceOK, SetupOwned, ExitSeen,
     Zombies, Children, WaitSleep, At, locals, global, Setup, Pids
<1>8. InitAlive'
  BY SMTT(20), NoProcFresh, SlotFacts DEF IInv, TypeOK, PlacesOK, PlaceOK, SetupOwned,
     InitAlive, Live, WaitSleep, At, locals, global, Setup
<1>9. NothingLost'
  <2> SUFFICES ASSUME leaky' = 0, NEW q \in Procs PROVE Filled(q)' /\ Waited(q)'
    BY Zenon DEF NothingLost
  <2>1. leaky = 0 /\ \A r \in Procs : Filled(r) /\ Waited(r)
    BY Zenon DEF IInv, NothingLost, WaitSleep, At, locals, global
  <2>2. Filled(q)'
    <3> SUFFICES ASSUME state'[q] = "used" PROVE (\E o \in Live : np[o] = q /\ pc[o] \in Setup)'
      BY Zenon DEF Filled
    <3>1. state[q] = "used"
      BY SMTT(20), NoProcFresh DEF IInv, TypeOK, PlacesOK, PlaceOK, SetupOwned, Setup,
         WaitSleep, At, locals, global
    <3>2. PICK o \in Live : np[o] = q /\ pc[o] \in Setup
      BY <2>1, <3>1, Zenon DEF Filled
    <3>3. o # p
      BY <3>2, Zenon DEF Setup, WaitSleep, At, locals, global
    <3> QED  BY SMTT(20), <3>2, <3>3, NoProcFresh DEF Live, Setup, IInv, TypeOK, PlacesOK,
            PlaceOK, SetupOwned, WaitSleep, At, locals, global
  <2>3. Waited(q)'
    BY <2>1, SlotFacts, NoProcFresh, SMTT(20) DEF Waited, Live, Setup, IInv, TypeOK, PlacesOK, PlaceOK,
       SetupOwned, SetupParent, InitAlive, WaitSleep, At, locals, global
  <2> QED  BY <2>2, <2>3, Zenon
<1> QED  BY <1>1, <1>2, <1>3, <1>4, <1>5, <1>6, <1>7, <1>8, <1>9, Zenon DEF IInv

(* GroupDone preserves the invariant.                                      *)
LEMMA GroupDoneStep == ASSUME IInv, NEW p \in Procs, GroupDone(p) PROVE IInv'
<1>1. PidsUnique' /\ ReapQuiet' /\ ExitSeen'
  BY Zenon DEF IInv, PidsUnique, ReapQuiet, ExitSeen, Zombies, Children, GroupDone, locals, global
<1>2. TypeOK'
  BY SMTT(20), PoolSize DEF IInv, TypeOK, GroupDone, goto, locals, global
<1>3. PlacesOK'
  BY NoProcFresh DEF IInv, TypeOK, PlacesOK, PlaceOK, SetupOwned, GroupDone, At, goto, locals,
     global, Setup
<1>4. SetupOwned'
  BY SMTT(20), NoProcFresh DEF IInv, TypeOK, PlacesOK, PlaceOK, SetupOwned, GroupDone, At, goto,
     locals, global, Setup
<1>5. SetupParent'
  BY NoProcFresh DEF IInv, TypeOK, PlacesOK, PlaceOK, SetupOwned, SetupParent, GroupDone, At,
     goto, locals, global, Setup
<1>6. FilesOK'
  BY SMTT(20), NoProcFresh DEF IInv, TypeOK, PlacesOK, PlaceOK, SetupOwned, FilesOK, GroupDone,
     At, goto, locals, global, Setup
<1>7. InitAlive'
  BY SMTT(20), NoProcFresh, SlotFacts DEF IInv, TypeOK, PlacesOK, PlaceOK, SetupOwned,
     InitAlive, Live, GroupDone, At, goto, locals, global, Setup
<1>8. NothingLost'
  <2> SUFFICES ASSUME leaky' = 0, NEW q \in Procs PROVE Filled(q)' /\ Waited(q)'
    BY Zenon DEF NothingLost
  <2>1. leaky = 0 /\ \A r \in Procs : Filled(r) /\ Waited(r)
    BY Zenon DEF IInv, NothingLost, GroupDone, At, goto, locals, global
  <2>2. Filled(q)'
    <3> SUFFICES ASSUME state'[q] = "used" PROVE (\E o \in Live : np[o] = q /\ pc[o] \in Setup)'
      BY Zenon DEF Filled
    <3>1. state[q] = "used"
      BY NoProcFresh, Zenon DEF IInv, TypeOK, PlacesOK, PlaceOK, SetupOwned, Setup, GroupDone, At,
         goto, locals, global
    <3>2. PICK o \in Live : np[o] = q /\ pc[o] \in Setup
      BY <2>1, <3>1, Zenon DEF Filled
    <3>3. o # p
      BY <3>2, Zenon DEF Setup, GroupDone, At, goto, locals, global
    <3> QED  BY SMTT(20), <3>2, <3>3, NoProcFresh DEF Live, Setup, IInv, TypeOK, PlacesOK,
            PlaceOK, SetupOwned, GroupDone, At, goto, locals, global
  <2>3. Waited(q)'
    BY <2>1, SlotFacts, NoProcFresh, Zenon DEF Waited, Live, Setup, IInv, TypeOK, PlacesOK,
       PlaceOK, SetupOwned, SetupParent, InitAlive, GroupDone, At, goto, locals, global
  <2> QED  BY <2>2, <2>3, Zenon
<1> QED  BY <1>1, <1>2, <1>3, <1>4, <1>5, <1>6, <1>7, <1>8, Zenon DEF IInv

(* Kill preserves the invariant.                                           *)
LEMMA KillStep == ASSUME IInv, NEW p \in Procs, NEW k \in Pids, Kill(p, k) PROVE IInv'
<1>1. PlacesOK' /\ SetupOwned' /\ SetupParent' /\ PidsUnique' /\ FilesOK' /\ ReapQuiet' /\
        ExitSeen' /\ InitAlive' /\ NothingLost'
  BY DEF IInv, PlacesOK, PlaceOK, SetupOwned, SetupParent, PidsUnique, FilesOK, ReapQuiet,
     ExitSeen, InitAlive, NothingLost, Zombies, Children, Live, Filled, Waited, Kill, locals,
     global
<1>2. TypeOK'
  BY Zenon  DEF IInv, TypeOK, Kill, locals, global
<1> QED  BY <1>1, <1>2, Zenon DEF IInv

(* user_init's state satisfies the invariant.                              *)
LEMMA InitInv == Init => IInv
<1> SUFFICES ASSUME Init PROVE IInv
  BY Zenon
<1>1. TypeOK
  BY PoolSize, PidBound, SlotFacts DEF Init, TypeOK, Pids
<1>2. PlacesOK /\ SetupOwned /\ SetupParent /\ FilesOK /\ ReapQuiet
  BY NoProcFresh, Zenon DEF Init, PlacesOK, PlaceOK, SetupOwned, SetupParent, FilesOK, ReapQuiet, Setup
<1>3. PidsUnique
  BY DEF Init, PidsUnique
<1>4. ExitSeen
  BY Zenon DEF Init, ExitSeen, Zombies, Children
<1>5. InitAlive /\ NothingLost
  BY SlotFacts, Zenon DEF Init, InitAlive, NothingLost, Filled, Waited, Live
<1> QED  BY <1>1, <1>2, <1>3, <1>4, <1>5, Zenon DEF IInv

(* Where a line of parents stops there is nothing above.                   *)
LEMMA LineStops ==
    ASSUME NEW p \in Procs, NEW x \in Procs, parent[x] \in {NoProc, p}
    PROVE  Line(x, p) \subseteq {x}
<1>1. {x} \in SUBSET Procs /\ x \in {x} /\ ClosedUp({x}, p)
  BY Zenon DEF ClosedUp
<1> QED  BY <1>1, Zenon DEF Line

(* The line is a set of slots that contains its start and every parent.    *)
LEMMA LineClosed ==
    ASSUME NEW p \in Procs, NEW i \in Procs, parent \in [Procs -> Procs \cup {NoProc}]
    PROVE  Line(i, p) \subseteq Procs /\ i \in Line(i, p) /\ ClosedUp(Line(i, p), p)
<1>1. Line(i, p) \subseteq Procs /\ i \in Line(i, p)
  BY Zenon DEF Line
<1>2. ClosedUp(Line(i, p), p)
  <2> SUFFICES ASSUME NEW y \in Line(i, p), parent[y] \notin {NoProc, p},
                      NEW S \in SUBSET Procs, i \in S, ClosedUp(S, p)
               PROVE  parent[y] \in S /\ parent[y] \in Procs
    BY <1>1, Zenon DEF ClosedUp, Line
  <2>1. y \in S
    BY Zenon DEF Line
  <2> QED  BY <2>1, Zenon DEF ClosedUp
<1> QED  BY <1>1, <1>2, Zenon

(* The line from z is z and the line from its parent.                      *)
LEMMA LineUp ==
    ASSUME NEW p \in Procs, NEW z \in Procs, parent \in [Procs -> Procs \cup {NoProc}],
           parent[z] \in Procs \ {p}
    PROVE  Line(z, p) \subseteq {z} \cup Line(parent[z], p)
<1> DEFINE w == parent[z]
           T == {z} \cup Line(w, p)
<1>1. Line(w, p) \subseteq Procs /\ w \in Line(w, p) /\ ClosedUp(Line(w, p), p)
  BY LineClosed, Zenon
<1>2. T \in SUBSET Procs /\ z \in T /\ ClosedUp(T, p)
  BY <1>1, Zenon DEF ClosedUp
<1> HIDE DEF T
<1>3. Line(z, p) \subseteq T
  BY <1>2, Zenon DEF Line
<1> QED  BY <1>3, Zenon DEF T

(* A line with a child of p at its top ends nowhere else: no process in it *)
(* is without a parent.                                                    *)
LEMMA LineEnd ==
    ASSUME NEW p \in Procs, NEW i \in Procs, parent \in [Procs -> Procs \cup {NoProc}],
           NEW q \in Line(i, p), parent[q] = p,
           NEW x \in Line(i, p), parent[x] \in {NoProc, p}
    PROVE  x = q
<1> DEFINE A == {z \in Line(i, p) : q \in Line(z, p)}
<1>1. Line(i, p) \subseteq Procs /\ i \in Line(i, p) /\ ClosedUp(Line(i, p), p)
  BY LineClosed, Zenon
<1>3. ClosedUp(A, p)
  <2> SUFFICES ASSUME NEW z \in A, parent[z] \notin {NoProc, p} PROVE parent[z] \in A
    BY Zenon DEF ClosedUp
  <2>1. z \in Procs /\ parent[z] \in Procs \ {p} /\ z # q /\ q \in Line(z, p)
    BY <1>1, Zenon
  <2>2. parent[z] \in Line(i, p)
    BY <1>1, Zenon DEF ClosedUp
  <2>3. q \in Line(parent[z], p)
    BY <2>1, LineUp, Zenon
  <2> QED  BY <2>2, <2>3, Zenon
<1>4. A \in SUBSET Procs /\ i \in A
  BY <1>1, Zenon
<1> HIDE DEF A
<1>5. x \in A
  BY <1>3, <1>4, Zenon DEF Line
<1>6. q \in Line(x, p)
  BY <1>5, Zenon DEF A
<1> QED  BY <1>1, <1>6, LineStops

(* exit_group frees with a process the slot it is setting up.              *)
LEMMA GroupStepStep == ASSUME IInv, NEW p \in Procs, GroupStep(p) PROVE IInv'
<1> DEFINE line == Line(idx[p], p)
           leads == state[idx[p]] # "unused" /\ \E q \in line : parent[q] = p
           S == IF leads /\ p \notin line THEN line ELSE {}
<1>1. /\ idx[p] \in Procs /\ idx[p] + 1 \in 0 .. N /\ pc[p] = "group" /\ panic = "no"
      /\ masked = p /\ state[p] = "runnable" /\ leaky' = leaky
  <2>1. /\ idx[p] \in 0 .. N /\ idx[p] < N /\ pc[p] = "group" /\ panic = "no"
        /\ state[p] = "runnable" /\ leaky' = leaky
    BY Zenon DEF GroupStep, At, IInv, TypeOK, global
  <2>2. masked = p
    BY <2>1, Zenon DEF IInv, PlacesOK, PlaceOK
  <2> QED  BY SMTT(20), <2>1, <2>2, PoolSize DEF Procs
<1>2. /\ freeproc(S)
      /\ pc' = [q \in Procs |-> IF q \in S THEN "none" ELSE pc[q]]
      /\ np' = [q \in Procs |-> IF q \in S THEN NoProc ELSE np[q]]
      /\ kind' = [q \in Procs |-> IF q \in S THEN "fork" ELSE kind[q]]
      /\ want' = [q \in Procs |-> IF q \in S THEN 0 ELSE want[q]]
      /\ idx' = [q \in Procs |-> IF q = p THEN idx[p] + 1 ELSE IF q \in S THEN 0 ELSE idx[q]]
      /\ panic' \in {"no", "loop", "self"}
      /\ UNCHANGED global
  BY Zenon DEF GroupStep
<1>3. S \subseteq Procs /\ p \notin S
  BY Zenon DEF Line
<1>4. \A x \in S : parent[x] \in S \cup {p}
  <2> SUFFICES ASSUME NEW x \in S PROVE parent[x] \in S \cup {p}
    BY Zenon
  <2>1. leads /\ p \notin line /\ x \in line
    BY Zenon
  <2>2. PICK q \in line : parent[q] = p
    BY <2>1, Zenon
  <2>3. parent \in [Procs -> Procs \cup {NoProc}] /\ q \in Procs /\ x \in Procs
    BY Zenon DEF IInv, TypeOK, Line
  <2>4. CASE parent[x] \in {NoProc, p}
    BY <1>1, <2>1, <2>2, <2>3, <2>4, LineEnd, Zenon
  <2>5. CASE parent[x] \notin {NoProc, p}
    <3> SUFFICES ASSUME NEW T \in SUBSET Procs, idx[p] \in T, ClosedUp(T, p)
                 PROVE  parent[x] \in T
      BY <2>1, <2>3, <2>5, Zenon DEF Line
    <3> QED  BY <2>1, <2>5, Zenon DEF Line, ClosedUp
  <2> QED  BY <2>4, <2>5, Zenon
<1>5. leaky = 1
  BY <1>1, NoProcFresh, Zenon DEF IInv, PlacesOK, PlaceOK
<1> HIDE DEF line, leads, S
<1>6. \A x \in Procs \ S : pc[x] \in Setup => np[x] \in Procs \ S
  BY SMTT(20), <1>1, <1>3, <1>4, NoProcFresh DEF IInv, TypeOK, PlacesOK, PlaceOK, SetupParent,
     Setup
<1>7. TypeOK'
  <2>1. idx' \in [Procs -> 0 .. N]
    BY SMTT(20), <1>1, <1>2, PoolSize DEF IInv, TypeOK
  <2>2. pid' \in [Procs -> Pids] /\ want' \in [Procs -> Pids]
    BY SMTT(20), <1>2, PidBound DEF IInv, TypeOK, freeproc, Pids
  <2> QED  BY <1>2, <2>1, <2>2, Zenon DEF IInv, TypeOK, freeproc, global
<1>8. PlacesOK'
  <2>1. \A x \in S : PlaceOK(x)'
    BY Zenon, <1>1, <1>2, <1>3 DEF PlaceOK, freeproc, global, Setup
  <2>2. ASSUME NEW x \in Procs \ S PROVE PlaceOK(x)'
    <3>1. /\ pc'[x] = pc[x] /\ state'[x] = state[x] /\ np'[x] = np[x]
          /\ parent'[x] = parent[x] /\ masked' = masked
      BY <1>2, Zenon DEF freeproc, global
    <3>2. PlaceOK(x)
      BY Zenon DEF IInv, PlacesOK, PlaceOK
    <3> QED  BY <3>1, <3>2, Zenon DEF PlaceOK
  <2> QED  BY <1>2, <2>1, <2>2, Zenon DEF IInv, PlacesOK, PlaceOK, global
<1>9. SetupOwned'
  <2> SUFFICES ASSUME NEW x \in Procs, pc'[x] \in Setup
               PROVE  /\ state'[np'[x]] = "used" /\ pc'[np'[x]] = "none"
                      /\ \A q \in Procs \ {x} : np'[q] # np'[x]
    BY Zenon DEF SetupOwned
  <2>1. x \notin S /\ pc[x] \in Setup /\ np'[x] = np[x]
    BY <1>2, Zenon DEF Setup
  <2>2. np[x] \in Procs \ S /\ np[x] # NoProc
    BY <1>6, <2>1, NoProcFresh, Zenon
  <2>3. /\ state[np[x]] = "used" /\ pc[np[x]] = "none"
        /\ \A q \in Procs \ {x} : np[q] # np[x]
    BY <2>1, Zenon DEF IInv, SetupOwned
  <2> QED  BY <1>2, <2>1, <2>2, <2>3, Zenon DEF freeproc
<1>10. SetupParent'
  BY <1>1, <1>2, <1>3, <1>6, Zenon DEF IInv, TypeOK, SetupParent, freeproc, Setup
<1>11. PidsUnique'
  BY SMTT(20), <1>2, <1>3 DEF IInv, TypeOK, PidsUnique, freeproc, global, Pids
<1>12. FilesOK'
  BY <1>1, <1>2, <1>3, <1>6, Zenon DEF IInv, TypeOK, FilesOK, freeproc, Setup
<1>13. ReapQuiet' /\ InitAlive' /\ NothingLost'
  BY SMTT(20), <1>1, <1>2, <1>5 DEF ReapQuiet, InitAlive, NothingLost
<1>14. ExitSeen'
  BY <1>2, <1>3 DEF IInv, TypeOK, ExitSeen, Zombies, Children, freeproc
<1> QED  BY <1>7, <1>8, <1>9, <1>10, <1>11, <1>12, <1>13, <1>14, Zenon DEF IInv

(* Every step of the system preserves the invariant.                       *)
LEMMA NextStep == IInv /\ [Next]_vars => IInv'
<1> SUFFICES ASSUME IInv, [Next]_vars PROVE IInv'
  BY Zenon
<1>1. CASE UNCHANGED vars
  <2>1. UNCHANGED <<state, parent, pid, killed, files, pc, np, idx, kind, want>>
        /\ UNCHANGED <<nextPid, last, masked, leaky, panic>>
    BY <1>1, Zenon DEF vars, locals, global
  <2>2. TypeOK' /\ PlacesOK' /\ SetupOwned' /\ SetupParent'
    BY <2>1 DEF IInv, TypeOK, PlacesOK, PlaceOK, SetupOwned, SetupParent
  <2>3. PidsUnique' /\ FilesOK' /\ ReapQuiet' /\ ExitSeen'
    BY <2>1, Zenon DEF IInv, PidsUnique, FilesOK, ReapQuiet, ExitSeen, Zombies, Children
  <2>4. InitAlive' /\ NothingLost'
    BY <2>1, Zenon DEF IInv, InitAlive, NothingLost, Filled, Waited, Live
  <2> QED  BY <2>2, <2>3, <2>4, Zenon DEF IInv
<1>2. ASSUME NEW p \in Procs, UserCall(p) PROVE IInv'
  BY <1>2, ForkStep, ExitCallStep, WaitCallStep, OpenPipeStep, GroupCallStep, Zenon DEF UserCall
<1>3. ASSUME NEW p \in Procs, KernelStep(p) PROVE IInv'
  <2>1. CASE fork(p)
    BY <2>1, AllocSkipStep, AllocTakeStep, AllocFaultStep, AllocNoneStep, AllocDoneStep,
       ForkCopyStep, ForkFaultStep, CloneNoVmStep, ForkParentStep, ForkRunStep, Zenon DEF fork
  <2>2. CASE exit(p)
    BY <2>2, ExitFilesStep, ExitProcStep, Zenon DEF exit
  <2>3. CASE wait(p)
    BY <2>3, WaitReapStep, WaitFaultStep, WaitNoneStep, WaitSleepStep, Zenon DEF wait
  <2>4. CASE exit_group(p)
    BY <2>4, GroupStepStep, GroupDoneStep, Zenon DEF exit_group
  <2> QED  BY <1>3, <2>1, <2>2, <2>3, <2>4, Zenon DEF KernelStep
<1>4. ASSUME NEW p \in Procs, NEW k \in Pids, Kill(p, k) PROVE IInv'
  BY <1>4, KillStep, Zenon
<1> QED  BY <1>1, <1>2, <1>3, <1>4, Zenon DEF Next

(* The inductive invariant holds in every reachable state.                 *)
THEOREM Invariance == Spec => []IInv
  BY InitInv, NextStep, PTL DEF Spec

(* Types, for any number of slots and pids.                                *)
THEOREM TypeCorrect == Spec => []TypeOK
  BY Invariance, PTL DEF IInv

(* wait never sleeps past an exit.                                         *)
THEOREM ExitSeenCorrect == Spec => []ExitSeen
  BY Invariance, PTL DEF IInv

(* A slot being filled in, without its lock, belongs to one fork.          *)
THEOREM SetupOwnedCorrect == Spec => []SetupOwned
  BY Invariance, PTL DEF IInv

(* No two processes have one pid.                                          *)
THEOREM PidsUniqueCorrect == Spec => []PidsUnique
  BY Invariance, PTL DEF IInv

(* Reaping and a failed allocation close no pipe under a process lock.     *)
THEOREM ReapQuietCorrect == Spec => []ReapQuiet
  BY Invariance, PTL DEF IInv

(* Without exit_group and the half-made thread no slot or process is lost. *)
THEOREM NothingLostCorrect == Spec => []NothingLost
  BY Invariance, PTL DEF IInv

=============================================================================
