------------------------------ MODULE Console ------------------------------
(***************************************************************************)
(* The RISC-V console: hal/riscv/uart.cc, its line editing in the          *)
(* interrupt handler, and hsai/console.cc's stdin.  Echo and output go to  *)
(* the SBI and keep no state.                                              *)
(*                                                                         *)
(* The indices r, w, e are uint and wrap; WORD stands for 2^32.  Each      *)
(* operation runs with interrupts off from acquire to release and is one   *)
(* step.  acquire of a held lock stops the kernel: there is one CPU.       *)
(***************************************************************************)
EXTENDS Integers

CONSTANTS Readers,      \* the processes that read
          Modes,        \* what they do: functions from Readers to ModeNames
          INPUT_BUF,    \* 128 in the code
          WORD,         \* 2^32 in the code
          MaxRead,      \* bound on the n of a read call
          Plain         \* ordinary characters

ModeNames == {"sync", "poll", "read", "none"}

ASSUME WordAssumption == INPUT_BUF \in Nat \ {0} /\ WORD \in Nat \ {0} /\ WORD % INPUT_BUF = 0
                         /\ INPUT_BUF < WORD
ASSUME ModesAssumption == Modes \subseteq [Readers -> ModeNames]
ASSUME ReadAssumption == MaxRead \in Nat \ {0}

VARIABLES buf, r, w, e,   \* cons
          held,           \* 1: cons.lock was left locked
          panic,          \* 1: "lock is already held."
          mode,           \* member of Modes, never changes
          pc,             \* of each reader
          left,           \* bytes ConsoleStdin::read has still to get
          killed,         \* Pcb::_killed
          got             \* the last character delivered

cons == <<buf, r, w, e>>
procs == <<mode, pc, left, killed>>
vars == <<cons, held, panic, procs, got>>

NUL   == "nul"
NL    == "nl"
CR    == "cr"
EOF   == "eof"
Typed == Plain \cup {NUL, NL, CR, EOF}
Chars == Plain \cup {NL, EOF}

inc(x) == (x + 1) % WORD
dec(x) == (x + WORD - 1) % WORD
Dist(a, b) == (b + WORD - a) % WORD
Cell(x) == x % INPUT_BUF

\* Every operation starts with acquire.
Locked(A) ==
  /\ panic = 0
  /\ IF held = 1 THEN panic' = 1 /\ UNCHANGED <<cons, held, procs, got>>
     ELSE A /\ UNCHANGED panic

\* wakeup_at( &cons.r )
(* variant: nobody is woken *)
wakeup_None == pc
wakeup == [p \in Readers |-> IF pc[p] = "asleep" THEN "woken" ELSE pc[p]]

----------------------------------------------------------------------------
\* UartConsole::handle_intr, by the character that arrived

\* How far ^U goes back: to the committed part, or to a newline.
Stop(k) == (e + WORD - k) % WORD = w \/ buf[Cell(e + WORD - k - 1)] = NL
kill_count == CHOOSE k \in 0 .. INPUT_BUF : Stop(k) /\ \A j \in 0 .. k - 1 : ~Stop(j)

KillLine == Locked(/\ e' = (e + WORD - kill_count) % WORD
                   /\ UNCHANGED <<buf, r, w, held, procs, got>>)

Backspace == Locked(/\ e' = IF e # w THEN dec(e) ELSE e
                    /\ UNCHANGED <<buf, r, w, held, procs, got>>)

room == Dist(r, e) < INPUT_BUF

\* The line is handed over, and its readers woken.
(* variant: only by a newline *)
commits_NoEof(c) == c = NL \/ inc(e) = (r + INPUT_BUF) % WORD
commits(c) == c \in {NL, EOF} \/ inc(e) = (r + INPUT_BUF) % WORD

Put(c) ==
  /\ buf' = [buf EXCEPT ![Cell(e)] = c]
  /\ e' = inc(e)
  /\ IF commits(c) THEN w' = inc(e) /\ pc' = wakeup ELSE UNCHANGED <<w, pc>>
  /\ UNCHANGED <<r, held, mode, left, killed, got>>

Key(c) == Locked(IF c # NUL /\ room THEN Put(IF c = CR THEN NL ELSE c)
                 ELSE UNCHANGED <<cons, held, procs, got>>)

----------------------------------------------------------------------------
Take == /\ got' = buf[Cell(r)]
        /\ r' = inc(r)
        /\ UNCHANGED <<buf, w, e>>

\* get_char_sync: from the call, or from the sleep.  A killed process that
\* returns goes no further.
Returned(p) == pc' = [pc EXCEPT ![p] = IF killed[p] = 1 THEN "gone" ELSE "idle"]

GetCharSync(p) ==
  /\ mode[p] = "sync" /\ pc[p] \in {"idle", "woken"}
  /\ Locked(/\ IF r # w THEN Take /\ Returned(p)
               ELSE /\ IF killed[p] = 1 THEN Returned(p) ELSE pc' = [pc EXCEPT ![p] = "asleep"]
                    /\ UNCHANGED <<cons, got>>
            /\ UNCHANGED <<held, mode, left, killed>>)

\* A read of stdin, which for "poll" comes after ppoll has seen read_ready
Read(p) ==
  /\ mode[p] \in {"poll", "read"} /\ pc[p] = "idle" /\ killed[p] = 0 /\ panic = 0
  /\ mode[p] = "poll" => r # w
  /\ pc' = [pc EXCEPT ![p] = "reading"]
  /\ \E n \in 1 .. (IF mode[p] = "poll" THEN 1 ELSE MaxRead) : left' = [left EXCEPT ![p] = n]
  /\ UNCHANGED <<cons, held, panic, mode, killed, got>>

\* get_char: without a character it returns with the lock held.
(* variant: so it does with one *)
Leaves_Always == 1
Leaves == IF r = w THEN 1 ELSE 0

\* One round of ConsoleStdin::read
GetChar(p) ==
  /\ pc[p] = "reading"
  /\ Locked(/\ held' = Leaves
            /\ IF r = w THEN UNCHANGED <<cons, got>> ELSE Take
            /\ left' = [left EXCEPT ![p] = IF r = w THEN 0 ELSE @ - 1]
            /\ IF left'[p] = 0 THEN Returned(p) ELSE UNCHANGED pc
            /\ UNCHANGED <<mode, killed>>)

Kill(p) == /\ panic = 0 /\ killed[p] = 0 /\ pc[p] # "gone"
           /\ killed' = [killed EXCEPT ![p] = 1]
           /\ UNCHANGED <<cons, held, panic, mode, pc, left, got>>

Init == /\ buf = [x \in 0 .. INPUT_BUF - 1 |-> NUL]
        /\ r = 0 /\ w = 0 /\ e = 0
        /\ held = 0 /\ panic = 0
        /\ mode \in Modes
        /\ pc = [p \in Readers |-> "idle"]
        /\ left = [p \in Readers |-> 0]
        /\ killed = [p \in Readers |-> 0]
        /\ got = NUL

Next == \/ KillLine \/ Backspace \/ \E c \in Typed : Key(c)
        \/ \E p \in Readers : GetCharSync(p) \/ Read(p) \/ GetChar(p) \/ Kill(p)

Spec == Init /\ [][Next]_vars

----------------------------------------------------------------------------
\* The type of the state.
TypeOK ==
  /\ buf \in [0 .. INPUT_BUF - 1 -> Chars \cup {NUL}]
  /\ r \in 0 .. WORD - 1 /\ w \in 0 .. WORD - 1 /\ e \in 0 .. WORD - 1
  /\ held \in {0, 1} /\ panic \in {0, 1}
  /\ mode \in [Readers -> ModeNames]
  /\ pc \in [Readers -> {"idle", "asleep", "woken", "reading", "gone"}]
  /\ left \in [Readers -> 0 .. MaxRead]
  /\ killed \in [Readers -> {0, 1}]
  /\ got \in Chars \cup {NUL}

\* Reading, committed and edited characters follow one another in the ring, also
\* where the counters wrap, and never overlap.
Ordered == Dist(r, w) <= Dist(r, e) /\ Dist(r, e) <= INPUT_BUF

\* No reader of get_char_sync sleeps while there is something to read.
AsleepEmpty == (\E p \in Readers : pc[p] = "asleep") => r = w

\* The console's lock is free whenever an operation begins, so no read and no
\* key stops the kernel.
NoPanic == held = 0 /\ panic = 0

Slice(a, b) == [k \in 1 .. Dist(a, b) |-> buf[Cell(a + k - 1)]]

Fifo == INSTANCE LineFifo WITH ready <- Slice(r, w), line <- Slice(w, e),
                               Ends <- {NL, EOF}, NoChar <- NUL

\* The ring with its three wrapping indices is a queue of lines that can be
\* edited until they are complete: nothing is lost, repeated or reordered, and
\* editing never reaches what was committed.
Refines == Fifo!FifoSpec
=============================================================================
