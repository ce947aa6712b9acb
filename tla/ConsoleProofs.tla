--------------------------- MODULE ConsoleProofs ---------------------------
(***************************************************************************)
(* The console, for every ring size, counter width and set of readers.     *)
(***************************************************************************)
EXTENDS Console, SequenceTheorems, WellFoundedInduction, TLAPS

\* The range of the wrapping counters.
Word == 0 .. WORD - 1

\* The counters' arithmetic without the modulus.
LEMMA ModSmall == \A x \in 0 .. 2 * WORD - 1 : x % WORD = IF x < WORD THEN x ELSE x - WORD
BY WordAssumption, SMTT(30)

\* The distance between two indices, with one case for each side of the wrap.
LEMMA DistIs == \A a, b \in Word : Dist(a, b) = IF a <= b THEN b - a ELSE b + WORD - a
BY ModSmall, WordAssumption DEF Dist, Word

\* cons.e++ and cons.r++ on an unsigned counter.
LEMMA IncIs == \A x \in Word : inc(x) = IF x = WORD - 1 THEN 0 ELSE x + 1
BY ModSmall, WordAssumption DEF inc, Word

\* cons.e-- on an unsigned counter.
LEMMA DecIs == \A x \in Word : dec(x) = IF x = 0 THEN WORD - 1 ELSE x - 1
BY ModSmall, WordAssumption DEF dec, Word

\* A set of numbers that is not empty has a least element.
LEMMA Least == \A T \in SUBSET Nat : T # {} => \E x \in T : \A y \in T : x <= y
<1> SUFFICES ASSUME NEW T \in SUBSET Nat, T # {}
             PROVE  \E x \in T : \A y \in T : x <= y
  BY Zenon
<1>1. \E x \in T : \A y \in T : ~(<<y, x>> \in OpToRel(<, Nat))
  BY WFMin, NatLessThanWellFounded, Zenon
<1>2. ASSUME NEW x \in T, NEW y \in T, ~(<<y, x>> \in OpToRel(<, Nat))
      PROVE  x <= y
  BY <1>2 DEF OpToRel
<1> QED
  BY <1>1, <1>2, Zenon

\* ^U goes back a number of characters, and not into what is committed.
LEMMA KillStops ==
  ASSUME w \in Word, e \in Word, Dist(w, e) <= INPUT_BUF
  PROVE  kill_count \in 0 .. Dist(w, e) /\ Stop(kill_count)
<1> DEFINE T == {k \in 0 .. INPUT_BUF : Stop(k)}
<1>1. Dist(w, e) \in Nat /\ (e + WORD - Dist(w, e)) % WORD = w
  <2>1. w \in 0 .. WORD - 1 /\ e \in 0 .. WORD - 1 /\ WORD \in Nat
    BY WordAssumption, Zenon DEF Word
  <2>2. Dist(w, e) = IF w <= e THEN e - w ELSE e + WORD - w
    BY <2>1, DistIs, Zenon DEF Word
  <2>3. /\ e + WORD - Dist(w, e) = (IF w <= e THEN w + WORD ELSE w)
        /\ e + WORD - Dist(w, e) \in 0 .. 2 * WORD - 1
    BY <2>1, <2>2
  <2> QED
    BY <2>1, <2>2, <2>3, ModSmall
<1>2. Dist(w, e) \in T /\ T \subseteq Nat
  BY <1>1, WordAssumption DEF Stop
<1>3. PICK x \in T : \A y \in T : x <= y
  BY <1>2, Least, Zenon
<1>4. \A j \in 0 .. x - 1 : ~Stop(j)
  BY <1>3, WordAssumption
<1>5. \E k \in 0 .. INPUT_BUF : Stop(k) /\ \A j \in 0 .. k - 1 : ~Stop(j)
  BY <1>3, <1>4, Zenon
<1>6. /\ kill_count \in 0 .. INPUT_BUF /\ Stop(kill_count)
      /\ \A j \in 0 .. kill_count - 1 : ~Stop(j)
  BY <1>5, Zenon DEF kill_count
<1> QED
  BY <1>1, <1>2, <1>6, WordAssumption

-----------------------------------------------------------------------------
\* A reader in the loop of ConsoleStdin::read has bytes left to get.
Reading == \A p \in Readers : pc[p] = "reading" => left[p] # 0

\* The inductive invariant: the three indices are where Ordered says, a sleeper
\* has seen the ring empty, and a read that is done has left its loop.
IInv == TypeOK /\ Ordered /\ AsleepEmpty /\ Reading

\* The invariant holds before the first key.
LEMMA InitInv == Init => IInv
<1> SUFFICES ASSUME Init PROVE IInv
  BY Zenon
<1>1. TypeOK
  BY WordAssumption, ModesAssumption, ReadAssumption DEF Init, TypeOK, Chars, ModeNames
<1>2. 0 \in Word /\ Dist(r, w) = 0 /\ Dist(r, e) = 0
  BY DistIs, WordAssumption DEF Init, Word
<1> QED
  BY <1>1, <1>2, WordAssumption DEF IInv, Init, Ordered, AsleepEmpty, Reading

\* A key that is pressed while the lock is held changes nothing here.
LEMMA StepHeld ==
  ASSUME IInv, panic' = 1, UNCHANGED <<cons, held, procs, got>>
  PROVE  IInv'
<1>1. TypeOK'
  BY Zenon DEF IInv, TypeOK, cons, procs
<1> QED
  BY <1>1, Zenon DEF IInv, Ordered, AsleepEmpty, Reading, Dist, cons, procs

\* ^U preserves the invariant: it moves cons.e back, at most to cons.w.
LEMMA StepKillLine == IInv /\ KillLine => IInv'
<1> SUFFICES ASSUME IInv, KillLine, held # 1 PROVE IInv'
  BY StepHeld, Zenon DEF KillLine, Locked
<1> USE DEF Word
<1>1. /\ e' = (e + WORD - kill_count) % WORD
      /\ UNCHANGED <<buf, r, w, held, panic, procs, got>>
  BY Zenon DEF KillLine, Locked
<1>2. r \in Word /\ w \in Word /\ e \in Word /\ WORD \in Nat /\ INPUT_BUF \in Nat
  BY WordAssumption, Zenon DEF IInv, TypeOK
<1>3. Dist(r, w) <= Dist(r, e) /\ Dist(r, e) <= INPUT_BUF
  BY Zenon DEF IInv, Ordered
<1>4. Dist(w, e) = Dist(r, e) - Dist(r, w)
  BY <1>2, <1>3, DistIs
<1>5. kill_count \in 0 .. Dist(w, e)
  <2>1. Dist(w, e) <= INPUT_BUF
    BY <1>2, <1>3, <1>4, DistIs
  <2> QED
    BY <1>2, <2>1, KillStops, Zenon
<1>6. e' = IF kill_count <= e THEN e - kill_count ELSE e + WORD - kill_count
  <2>0. Dist(w, e) = IF w <= e THEN e - w ELSE e + WORD - w
    BY <1>2, DistIs, Zenon
  <2>1. Dist(w, e) \in 0 .. WORD - 1
    BY <1>2, <2>0
  <2> DEFINE x == e + WORD - kill_count
  <2>2. x \in 0 .. 2 * WORD - 1 /\ kill_count \in Nat
    BY <1>2, <1>5, <2>1
  <2>3. e' = x % WORD
    BY <1>1, Zenon
  <2>4. e' = IF x < WORD THEN x ELSE x - WORD
    <3> HIDE DEF x
    <3> QED
      BY <2>2, <2>3, ModSmall, Zenon
  <2> QED
    BY <1>2, <2>2, <2>4
<1>7. e' \in Word /\ Dist(r, e') = Dist(r, e) - kill_count
  <2>1. Dist(r, w) = IF r <= w THEN w - r ELSE w + WORD - r
    BY <1>2, DistIs, Zenon
  <2>2. Dist(r, e) = IF r <= e THEN e - r ELSE e + WORD - r
    BY <1>2, DistIs, Zenon
  <2>3. e' \in Word
    BY <1>2, <1>3, <1>4, <1>5, <1>6, <2>1, <2>2
  <2>4. Dist(r, e') = IF r <= e' THEN e' - r ELSE e' + WORD - r
    BY <1>2, <2>3, DistIs, Zenon
  <2> QED
    BY <1>2, <1>3, <1>4, <1>5, <1>6, <2>1, <2>2, <2>3, <2>4
<1>8. TypeOK'
  BY <1>1, <1>7, Zenon DEF IInv, TypeOK, procs
<1>9. Dist(r, w)' = Dist(r, w) /\ Dist(r, e)' = Dist(r, e) - kill_count
  BY <1>1, <1>7, Zenon DEF Dist
<1>10. Ordered'
  BY <1>2, <1>3, <1>4, <1>5, <1>9, DistIs DEF Ordered
<1>11. AsleepEmpty'
  BY <1>1, Zenon DEF IInv, AsleepEmpty, procs
<1>12. Reading'
  BY <1>1, Zenon DEF IInv, Reading, procs
<1> QED
  BY <1>8, <1>10, <1>11, <1>12, Zenon DEF IInv

\* Backspace preserves the invariant: it takes one character that is not committed.
LEMMA StepBackspace == IInv /\ Backspace => IInv'
<1> SUFFICES ASSUME IInv, Backspace, held # 1 PROVE IInv'
  BY StepHeld, Zenon DEF Backspace, Locked
<1> USE DEF Word
<1>1. /\ e' = IF e # w THEN dec(e) ELSE e
      /\ UNCHANGED <<buf, r, w, held, panic, procs, got>>
  BY Zenon DEF Backspace, Locked
<1>2. r \in Word /\ w \in Word /\ e \in Word /\ WORD \in Nat /\ INPUT_BUF \in Nat
  BY WordAssumption, Zenon DEF IInv, TypeOK
<1>3. e' = IF e # w THEN IF e = 0 THEN WORD - 1 ELSE e - 1 ELSE e
  BY <1>1, <1>2, DecIs, Zenon
<1>4. e' \in Word /\ Dist(r, w) <= Dist(r, e') /\ Dist(r, e') <= INPUT_BUF
  <2>1. /\ Dist(r, w) = IF r <= w THEN w - r ELSE w + WORD - r
        /\ Dist(r, e) = IF r <= e THEN e - r ELSE e + WORD - r
    BY <1>2, DistIs, Zenon
  <2>2. e' \in Word
    BY <1>2, <1>3
  <2>3. Dist(r, e') = IF r <= e' THEN e' - r ELSE e' + WORD - r
    BY <1>2, <2>2, DistIs, Zenon
  <2>4. Dist(r, w) <= Dist(r, e) /\ Dist(r, e) <= INPUT_BUF
    BY Zenon DEF IInv, Ordered
  <2> QED
    BY <1>2, <1>3, <2>1, <2>2, <2>3, <2>4
<1>5. TypeOK'
  BY <1>1, <1>4, Zenon DEF IInv, TypeOK, procs
<1>6. Ordered'
  BY <1>1, <1>4, Zenon DEF Ordered, Dist
<1>7. AsleepEmpty'
  BY <1>1, Zenon DEF IInv, AsleepEmpty, procs
<1>8. Reading'
  BY <1>1, Zenon DEF IInv, Reading, procs
<1> QED
  BY <1>5, <1>6, <1>7, <1>8, Zenon DEF IInv

\* A character goes into the ring: one more to edit, or the line committed and
\* every sleeper woken.
LEMMA StepPut ==
  ASSUME IInv, NEW c \in Chars, room, Put(c), UNCHANGED panic
  PROVE  IInv'
<1> USE DEF Word
<1>1. r \in Word /\ w \in Word /\ e \in Word /\ WORD \in Nat /\ INPUT_BUF \in Nat /\ INPUT_BUF < WORD
  BY WordAssumption, Zenon DEF IInv, TypeOK
<1>2. e' = inc(e) /\ UNCHANGED r /\ (w' = w \/ w' = e')
  BY Zenon DEF Put
<1>3. inc(e) = IF e = WORD - 1 THEN 0 ELSE e + 1
  BY <1>1, IncIs, Zenon
<1>4. e' \in Word /\ w' \in Word
  BY <1>1, <1>2, <1>3
<1>5. Dist(r, w') <= Dist(r, e') /\ Dist(r, e') <= INPUT_BUF
  <2>1. /\ Dist(r, w) = IF r <= w THEN w - r ELSE w + WORD - r
        /\ Dist(r, e) = IF r <= e THEN e - r ELSE e + WORD - r
        /\ Dist(r, w') = IF r <= w' THEN w' - r ELSE w' + WORD - r
        /\ Dist(r, e') = IF r <= e' THEN e' - r ELSE e' + WORD - r
    BY <1>1, <1>4, DistIs, Zenon
  <2>2. Dist(r, w) <= Dist(r, e) /\ Dist(r, e) < INPUT_BUF
    BY Zenon DEF IInv, Ordered, room
  <2> QED
    BY <1>1, <1>2, <1>3, <1>4, <2>1, <2>2
<1>6. Ordered'
  BY <1>2, <1>5, Zenon DEF Ordered, Dist
<1>7. TypeOK'
  <2>1. buf' \in [0 .. INPUT_BUF - 1 -> Chars \cup {NUL}]
    BY Zenon DEF IInv, TypeOK, Put
  <2>2. pc' \in [Readers -> {"idle", "asleep", "woken", "reading", "gone"}]
    BY Zenon DEF IInv, TypeOK, Put, wakeup
  <2> QED
    BY <1>2, <1>4, <2>1, <2>2, Zenon DEF IInv, TypeOK, Put
<1>8. AsleepEmpty'
  <2>1. CASE commits(c)
    BY <2>1, Zenon DEF Put, wakeup, AsleepEmpty
  <2>2. CASE ~commits(c)
    BY <2>2, Zenon DEF Put, AsleepEmpty, IInv
  <2> QED
    BY <2>1, <2>2, Zenon
<1>9. Reading'
  BY Zenon DEF Put, wakeup, IInv, TypeOK, Reading
<1> QED
  BY <1>6, <1>7, <1>8, <1>9, Zenon DEF IInv

\* A character preserves the invariant, whether the ring has room for it or not.
LEMMA StepKey == ASSUME IInv, NEW c \in Typed, Key(c) PROVE IInv'
<1>1. CASE held = 1
  BY <1>1, StepHeld, Zenon DEF Key, Locked
<1>2. CASE held # 1 /\ c # NUL /\ room
  <2>1. (IF c = CR THEN NL ELSE c) \in Chars
    BY <1>2, Zenon DEF Typed, Chars
  <2>2. Put(IF c = CR THEN NL ELSE c) /\ UNCHANGED panic
    BY <1>2, Zenon DEF Key, Locked
  <2> QED
    BY <1>2, <2>1, <2>2, StepPut, Zenon
<1>3. CASE held # 1 /\ ~(c # NUL /\ room)
  <2>1. UNCHANGED <<cons, held, procs, got, panic>>
    BY <1>3, Zenon DEF Key, Locked
  <2> QED
    BY <2>1, Zenon DEF IInv, TypeOK, Ordered, AsleepEmpty, Reading, Dist, cons, procs
<1> QED
  BY <1>1, <1>2, <1>3, Zenon

\* A reader takes a character: there was one, so nobody sleeps.
LEMMA StepTake ==
  ASSUME IInv, r # w, Take
  PROVE  /\ r' \in 0 .. WORD - 1 /\ UNCHANGED <<buf, w, e>>
         /\ got' \in Chars \cup {NUL}
         /\ Ordered'
         /\ \A q \in Readers : pc[q] # "asleep"
<1> USE DEF Word
<1>1. r \in Word /\ w \in Word /\ e \in Word /\ WORD \in Nat /\ INPUT_BUF \in Nat \ {0}
  BY WordAssumption, Zenon DEF IInv, TypeOK
<1>2. r' = (IF r = WORD - 1 THEN 0 ELSE r + 1) /\ UNCHANGED <<buf, w, e>>
  BY <1>1, IncIs, Zenon DEF Take
<1>3. r' \in Word
  BY <1>1, <1>2
<1>4. Dist(r', w) <= Dist(r', e) /\ Dist(r', e) <= INPUT_BUF
  <2>1. /\ Dist(r, w) = IF r <= w THEN w - r ELSE w + WORD - r
        /\ Dist(r, e) = IF r <= e THEN e - r ELSE e + WORD - r
        /\ Dist(r', w) = IF r' <= w THEN w - r' ELSE w + WORD - r'
        /\ Dist(r', e) = IF r' <= e THEN e - r' ELSE e + WORD - r'
    BY <1>1, <1>3, DistIs, Zenon
  <2>2. Dist(r, w) <= Dist(r, e) /\ Dist(r, e) <= INPUT_BUF
    BY Zenon DEF IInv, Ordered
  <2> QED
    BY <1>1, <1>2, <2>1, <2>2
<1>5. got' \in Chars \cup {NUL}
  <2>1. Cell(r) \in 0 .. INPUT_BUF - 1
    BY <1>1 DEF Cell
  <2> QED
    BY <2>1, Zenon DEF Take, IInv, TypeOK
<1>6. \A q \in Readers : pc[q] # "asleep"
  BY Zenon DEF IInv, AsleepEmpty
<1> QED
  BY <1>2, <1>3, <1>4, <1>5, <1>6, Zenon DEF Ordered, Dist

\* get_char_sync preserves the invariant: it takes a character, sleeps because
\* there is none, or gives up because the process was killed.
LEMMA StepGetCharSync == ASSUME IInv, NEW p \in Readers, GetCharSync(p) PROVE IInv'
<1>1. CASE held = 1
  BY <1>1, StepHeld, Zenon DEF GetCharSync, Locked
<1>2. CASE held # 1 /\ r # w
  <2>1. Take /\ Returned(p) /\ UNCHANGED <<held, panic, mode, left, killed>>
    BY <1>2, Zenon DEF GetCharSync, Locked
  <2>2. TypeOK'
    BY <1>2, <2>1, StepTake, Zenon DEF IInv, TypeOK, Returned
  <2>3. AsleepEmpty'
    BY <1>2, <2>1, StepTake, Zenon DEF IInv, TypeOK, AsleepEmpty, Returned
  <2>4. Reading'
    BY <2>1, Zenon DEF IInv, TypeOK, Reading, Returned
  <2> QED
    BY <1>2, <2>1, <2>2, <2>3, <2>4, StepTake, Zenon DEF IInv
<1>3. CASE held # 1 /\ r = w
  <2>1. /\ UNCHANGED <<cons, got, held, panic, mode, left, killed>>
        /\ \E s \in {"idle", "gone", "asleep"} : pc' = [pc EXCEPT ![p] = s]
    BY <1>3, Zenon DEF GetCharSync, Locked, Returned
  <2>2. TypeOK'
    BY <2>1, Zenon DEF IInv, TypeOK, cons
  <2>3. Ordered'
    BY <2>1, Zenon DEF IInv, Ordered, Dist, cons
  <2>4. AsleepEmpty'
    BY <1>3, <2>1, Zenon DEF AsleepEmpty, cons
  <2>5. Reading'
    BY <2>1, Zenon DEF IInv, TypeOK, Reading
  <2> QED
    BY <2>2, <2>3, <2>4, <2>5, Zenon DEF IInv
<1> QED
  BY <1>1, <1>2, <1>3, Zenon

\* The call of ConsoleStdin::read preserves the invariant.
LEMMA StepRead == ASSUME IInv, NEW p \in Readers, Read(p) PROVE IInv'
<1>1. PICK n \in 1 .. MaxRead : left' = [left EXCEPT ![p] = n]
  <2>1. PICK n \in 1 .. (IF mode[p] = "poll" THEN 1 ELSE MaxRead) : left' = [left EXCEPT ![p] = n]
    BY Zenon DEF Read
  <2>2. n \in 1 .. MaxRead
    BY ReadAssumption
  <2> QED
    BY <2>1, <2>2, Zenon
<1>2. pc' = [pc EXCEPT ![p] = "reading"] /\ UNCHANGED <<cons, held, panic, mode, killed, got>>
  BY Zenon DEF Read
<1>3. TypeOK'
  BY <1>1, <1>2, ReadAssumption DEF IInv, TypeOK, cons
<1>4. Ordered'
  BY <1>2, Zenon DEF IInv, Ordered, Dist, cons
<1>5. AsleepEmpty'
  BY <1>2, Zenon DEF IInv, TypeOK, AsleepEmpty, cons
<1>6. Reading'
  BY <1>1, <1>2, ReadAssumption DEF IInv, TypeOK, Reading
<1> QED
  BY <1>3, <1>4, <1>5, <1>6, Zenon DEF IInv

\* A round of the loop of ConsoleStdin::read preserves the invariant.
LEMMA StepGetChar == ASSUME IInv, NEW p \in Readers, GetChar(p) PROVE IInv'
<1>1. CASE held = 1
  BY <1>1, StepHeld, Zenon DEF GetChar, Locked
<1>2. CASE held # 1
  <2>1. /\ held' = Leaves /\ UNCHANGED <<panic, mode, killed>>
        /\ IF r = w THEN UNCHANGED <<cons, got>> ELSE Take
        /\ left' = [left EXCEPT ![p] = IF r = w THEN 0 ELSE @ - 1]
        /\ IF left'[p] = 0 THEN Returned(p) ELSE UNCHANGED pc
        /\ pc[p] = "reading"
    BY <1>2, Zenon DEF GetChar, Locked
  <2>2. held' \in {0, 1}
    BY <2>1, Zenon DEF Leaves
  <2>3. left' \in [Readers -> 0 .. MaxRead]
    BY <2>1, ReadAssumption DEF IInv, TypeOK, Reading
  <2>4. pc' = pc \/ pc' = [pc EXCEPT ![p] = "idle"] \/ pc' = [pc EXCEPT ![p] = "gone"]
    BY <2>1, Zenon DEF Returned
  <2>5. pc' \in [Readers -> {"idle", "asleep", "woken", "reading", "gone"}]
    BY <2>4, Zenon DEF IInv, TypeOK
  <2>6. Reading'
    <3>1. ASSUME NEW q \in Readers, pc'[q] = "reading" PROVE left'[q] # 0
      <4>1. pc[q] = "reading"
        BY <2>4, <3>1, Zenon DEF IInv, TypeOK
      <4>2. CASE q = p
        BY <2>1, <3>1, <4>2, Zenon DEF IInv, TypeOK, Returned
      <4>3. CASE q # p
        BY <2>1, <4>1, <4>3, Zenon DEF IInv, TypeOK, Reading
      <4> QED
        BY <4>2, <4>3, Zenon
    <3> QED
      BY <3>1, Zenon DEF Reading
  <2>7. CASE r = w
    <3>1. UNCHANGED <<cons, got>>
      BY <2>1, <2>7, Zenon
    <3>2. TypeOK' /\ Ordered'
      BY <2>1, <2>2, <2>3, <2>5, <3>1, Zenon DEF IInv, TypeOK, Ordered, Dist, cons
    <3>3. AsleepEmpty'
      BY <2>7, <3>1, Zenon DEF AsleepEmpty, cons
    <3> QED
      BY <2>6, <3>2, <3>3, Zenon DEF IInv
  <2>8. CASE r # w
    <3>1. Take
      BY <2>1, <2>8, Zenon
    <3>2. TypeOK'
      BY <2>1, <2>2, <2>3, <2>5, <2>8, <3>1, StepTake, Zenon DEF IInv, TypeOK
    <3>3. AsleepEmpty'
      BY <2>4, <2>8, <3>1, StepTake, Zenon DEF IInv, TypeOK, AsleepEmpty
    <3> QED
      BY <2>6, <2>8, <3>1, <3>2, <3>3, StepTake, Zenon DEF IInv
  <2> QED
    BY <2>7, <2>8, Zenon
<1> QED
  BY <1>1, <1>2, Zenon

\* Every step preserves the invariant.
LEMMA StepInv == IInv /\ [Next]_vars => IInv'
<1> SUFFICES ASSUME IInv, [Next]_vars PROVE IInv'
  BY Zenon
<1>1. ASSUME NEW p \in Readers, Kill(p) PROVE IInv'
  <2>1. TypeOK'
    BY <1>1, Zenon DEF Kill, IInv, TypeOK, cons
  <2> QED
    BY <1>1, <2>1, Zenon DEF Kill, IInv, Ordered, AsleepEmpty, Reading, Dist, cons
<1>2. CASE UNCHANGED vars
  <2>1. TypeOK'
    BY <1>2, Zenon DEF vars, IInv, TypeOK, cons, procs
  <2> QED
    BY <1>2, <2>1, Zenon DEF vars, IInv, Ordered, AsleepEmpty, Reading, Dist, cons, procs
<1> QED
  BY <1>1, <1>2, StepKillLine, StepBackspace, StepKey, StepGetCharSync, StepRead, StepGetChar, Zenon DEF Next

\* The inductive invariant holds in every state the console reaches.
THEOREM Invariance == Spec => []IInv
BY InitInv, StepInv, PTL DEF Spec

\* The console's state is type correct, for every ring size and counter width.
THEOREM TypeCorrect == Spec => []TypeOK
<1>1. IInv => TypeOK
  BY Zenon DEF IInv
<1> QED
  BY <1>1, Invariance, PTL

\* cons.r, cons.w and cons.e stay in order and at most INPUT_BUF apart, across
\* every wrap of the counters and whatever handle_intr edits.
THEOREM OrderedCorrect == Spec => []Ordered
<1>1. IInv => Ordered
  BY Zenon DEF IInv
<1> QED
  BY <1>1, Invariance, PTL

\* No reader of get_char_sync sleeps while there is something to read.
THEOREM WakeupCorrect == Spec => []AsleepEmpty
<1>1. IInv => AsleepEmpty
  BY Zenon DEF IInv
<1> QED
  BY <1>1, Invariance, PTL

-----------------------------------------------------------------------------
\* Readers that keep get_char away from an empty ring: they all sleep for their
\* input, or only one reads, one byte, after polling.
Careful(f) ==
  \/ \A p \in Readers : f[p] \in {"sync", "none"}
  \/ \E p \in Readers : f[p] = "poll" /\ \A q \in Readers \ {p} : f[q] = "none"

\* What a reader in the loop of ConsoleStdin::read then knows
Sure == \A p \in Readers : pc[p] = "reading" => mode[p] = "poll" /\ left[p] = 1 /\ r # w

CInv == NoPanic /\ Careful(mode) /\ Sure

\* With careful readers no step leaves cons.lock held: get_char is called only
\* with a character in the ring.
LEMMA StepCareful == IInv /\ CInv /\ [Next]_vars => CInv'
<1> SUFFICES ASSUME IInv, CInv, [Next]_vars PROVE CInv'
  BY Zenon
<1>0. held = 0 /\ panic = 0 /\ Careful(mode) /\ Sure
  BY Zenon DEF CInv, NoPanic
<1>1. CASE KillLine \/ Backspace
  <2>1. UNCHANGED <<r, w, held, panic, procs>>
    BY <1>0, <1>1 DEF KillLine, Backspace, Locked
  <2> QED
    BY <1>0, <2>1, Zenon DEF CInv, NoPanic, Careful, Sure, procs
<1>2. ASSUME NEW c \in Typed, Key(c) PROVE CInv'
  <2>1. /\ UNCHANGED <<r, held, panic, mode, left>>
        /\ w' = w \/ (w' = inc(e) /\ room)
        /\ \A p \in Readers : pc'[p] = "reading" => pc[p] = "reading"
    BY <1>0, <1>2, Zenon DEF Key, Locked, Put, cons, procs, wakeup
  <2>2. ASSUME w' = inc(e), room PROVE r # w'
    <3>1. r \in Word /\ e \in Word /\ WORD \in Nat /\ INPUT_BUF \in Nat /\ INPUT_BUF < WORD
      BY WordAssumption, Zenon DEF IInv, TypeOK, Word
    <3>2. Dist(r, e) = IF r <= e THEN e - r ELSE e + WORD - r
      BY <3>1, DistIs, Zenon
    <3>3. inc(e) = IF e = WORD - 1 THEN 0 ELSE e + 1
      BY <3>1, IncIs, Zenon
    <3> QED
      BY <2>2, <3>1, <3>2, <3>3 DEF room, Word
  <2> QED
    BY <1>0, <2>1, <2>2, Zenon DEF CInv, NoPanic, Careful, Sure
<1>3. ASSUME NEW p \in Readers, GetCharSync(p) PROVE CInv'
  <2>1. mode[p] = "sync" /\ UNCHANGED <<held, panic, mode, left>>
    BY <1>0, <1>3 DEF GetCharSync, Locked
  <2>2. \A q \in Readers : mode[q] # "poll"
    BY <1>0, <2>1, Zenon DEF Careful
  <2>3. \A q \in Readers : pc'[q] = "reading" => pc[q] = "reading"
    BY <1>0, <1>3 DEF GetCharSync, Locked, Returned, IInv, TypeOK
  <2> QED
    BY <1>0, <2>1, <2>2, <2>3, Zenon DEF CInv, NoPanic, Careful, Sure
<1>4. ASSUME NEW p \in Readers, Read(p) PROVE CInv'
  <2>1. mode[p] = "poll"
    BY <1>0, <1>4, Zenon DEF Read, Careful
  <2>2. /\ left' = [left EXCEPT ![p] = 1] /\ r # w
        /\ pc' = [pc EXCEPT ![p] = "reading"] /\ UNCHANGED <<r, w, held, panic, mode>>
    BY <1>4, <2>1 DEF Read, cons
  <2> QED
    BY <1>0, <2>1, <2>2, Zenon DEF CInv, NoPanic, Careful, Sure, IInv, TypeOK
<1>5. ASSUME NEW p \in Readers, GetChar(p) PROVE CInv'
  <2>1. mode[p] = "poll" /\ left[p] = 1 /\ r # w /\ pc[p] = "reading"
    BY <1>0, <1>5, Zenon DEF GetChar, Sure
  <2>2. held' = 0 /\ UNCHANGED <<panic, mode>> /\ left'[p] = 0 /\ Returned(p)
    BY <1>0, <1>5, <2>1 DEF GetChar, Locked, Leaves, IInv, TypeOK
  <2>3. \A q \in Readers : pc'[q] # "reading"
    BY <1>0, <2>1, <2>2, Zenon DEF Careful, Sure, Returned, IInv, TypeOK
  <2> QED
    BY <1>0, <2>2, <2>3, Zenon DEF CInv, NoPanic, Careful, Sure
<1>6. CASE (\E p \in Readers : Kill(p)) \/ UNCHANGED vars
  <2>1. UNCHANGED <<r, w, held, panic, mode, pc, left>>
    BY <1>6, Zenon DEF Kill, vars, cons, procs
  <2> QED
    BY <1>0, <2>1, Zenon DEF CInv, NoPanic, Careful, Sure
<1> QED
  BY <1>1, <1>2, <1>3, <1>4, <1>5, <1>6, Zenon DEF Next

\* If every assignment of modes to readers is careful, no acquire of cons.lock
\* panics: neither handle_intr nor a reader finds it held.
THEOREM PanicFree ==
  ASSUME \A f \in Modes : Careful(f)
  PROVE  Spec => []NoPanic
<1>1. Init => CInv
  BY Zenon DEF Init, CInv, NoPanic, Sure
<1>2. CInv => NoPanic
  BY Zenon DEF CInv
<1> QED
  BY <1>1, <1>2, StepCareful, Invariance, PTL DEF Spec

----------------------------------------------------------------------------
(***************************************************************************)
(* The console implements LineFifo.  Positions in the ring are counted     *)
(* from the cell of an index, with at most one wrap; that the counters     *)
(* wrap at a multiple of the ring size makes their own wrap invisible.     *)
(***************************************************************************)

\* i cells after cell c
Wrap(c, i) == IF c + i < INPUT_BUF THEN c + i ELSE c + i - INPUT_BUF

Cells == 0 .. INPUT_BUF - 1
Stored == Chars \cup {NUL}

\* Different distances lead to different cells.
LEMMA WrapApart ==
  ASSUME NEW c \in Cells, NEW i \in Cells, NEW j \in Cells, i < j
  PROVE  Wrap(c, i) \in Cells /\ Wrap(c, i) # Wrap(c, j)
BY WordAssumption DEF Wrap, Cells

\* A quotient and a remainder determine each other.
LEMMA DivUnique ==
  ASSUME NEW q1 \in Int, NEW q2 \in Int, NEW s1 \in Cells, NEW s2 \in Cells,
         INPUT_BUF * q1 + s1 = INPUT_BUF * q2 + s2
  PROVE  s1 = s2
<1>0. INPUT_BUF \in Nat \ {0}
  BY WordAssumption, Zenon
<1>1. ASSUME NEW a \in Int, NEW b \in Int, a > b
      PROVE  INPUT_BUF * a >= INPUT_BUF * b + INPUT_BUF
  <2>1. INPUT_BUF * a - INPUT_BUF * b = INPUT_BUF * (a - b)
    BY <1>0
  <2>2. INPUT_BUF * (a - b) = INPUT_BUF * (a - b - 1) + INPUT_BUF
    BY <1>0
  <2>3. a - b - 1 \in Nat
    BY <1>1
  <2>4. INPUT_BUF * (a - b - 1) >= 0
    BY <1>0, <2>3
  <2> QED
    BY <1>0, <2>1, <2>2, <2>4
<1>2. CASE q1 > q2
  BY <1>0, <1>1, <1>2 DEF Cells
<1>3. CASE q2 > q1
  BY <1>0, <1>1, <1>3 DEF Cells
<1>4. CASE q1 = q2
  BY <1>0, <1>4 DEF Cells
<1> QED
  BY <1>2, <1>3, <1>4

\* A number is its quotient and its cell.
LEMMA DivCell ==
  ASSUME NEW x \in Nat
  PROVE  Cell(x) \in Cells /\ x \div INPUT_BUF \in Int /\ x = INPUT_BUF * (x \div INPUT_BUF) + Cell(x)
BY WordAssumption DEF Cell, Cells

\* The cell i places on.
LEMMA CellAdd ==
  ASSUME NEW x \in Nat, NEW i \in 0 .. INPUT_BUF
  PROVE  Cell(x + i) = Wrap(Cell(x), i) /\ Cell(x) \in Cells
<1> DEFINE q == x \div INPUT_BUF
           c == Cell(x)
           p == (x + i) \div INPUT_BUF
           d == Cell(x + i)
<1>0. INPUT_BUF \in Nat \ {0} /\ x + i \in Nat
  BY WordAssumption
<1>1. c \in Cells /\ q \in Int /\ x = INPUT_BUF * q + c
  BY DivCell, Zenon
<1>2. d \in Cells /\ p \in Int /\ x + i = INPUT_BUF * p + d
  BY <1>0, DivCell, Zenon
<1> HIDE DEF q, c, p, d
<1>3. CASE c + i < INPUT_BUF
  <2>1. c + i \in Cells /\ INPUT_BUF * q + (c + i) = INPUT_BUF * p + d
    BY <1>0, <1>1, <1>2, <1>3 DEF Cells
  <2>2. c + i = d
    BY <1>1, <1>2, <2>1, DivUnique, Zenon
  <2> QED
    BY <1>1, <1>3, <2>2, Zenon DEF Wrap, c, d
<1>4. CASE ~(c + i < INPUT_BUF)
  <2>1. c + i - INPUT_BUF \in Cells
    BY <1>0, <1>1, <1>4 DEF Cells
  <2>2. INPUT_BUF * (q + 1) = INPUT_BUF * q + INPUT_BUF /\ q + 1 \in Int
    BY <1>0, <1>1
  <2>3. INPUT_BUF * (q + 1) + (c + i - INPUT_BUF) = INPUT_BUF * p + d
    BY <1>0, <1>1, <1>2, <2>1, <2>2 DEF Cells
  <2>4. c + i - INPUT_BUF = d
    BY <1>1, <1>2, <2>1, <2>2, <2>3, DivUnique, Zenon
  <2> QED
    BY <1>1, <1>4, <2>4, Zenon DEF Wrap, c, d
<1> QED
  BY <1>3, <1>4, Zenon

\* The counters' wrap does not move the cell.
LEMMA CellWord ==
  ASSUME NEW x \in Nat
  PROVE  Cell(x + WORD) = Cell(x)
<1> DEFINE q == x \div INPUT_BUF
           p == (x + WORD) \div INPUT_BUF
           n == WORD \div INPUT_BUF
           c == Cell(x)
           d == Cell(x + WORD)
<1>0. INPUT_BUF \in Nat \ {0} /\ WORD \in Nat /\ x + WORD \in Nat
  BY WordAssumption
<1>1. c \in Cells /\ q \in Int /\ x = INPUT_BUF * q + c
  BY DivCell, Zenon
<1>2. d \in Cells /\ p \in Int /\ x + WORD = INPUT_BUF * p + d
  BY <1>0, DivCell, Zenon
<1>3. n \in Int /\ WORD = INPUT_BUF * n
  <2>1. WORD = INPUT_BUF * n + Cell(WORD) /\ n \in Int
    BY <1>0, DivCell, Zenon
  <2>2. Cell(WORD) = 0
    BY WordAssumption, Zenon DEF Cell
  <2> HIDE DEF n
  <2> QED
    BY <1>0, <2>1, <2>2
<1> HIDE DEF q, p, n, c, d
<1>4. INPUT_BUF * (q + n) = INPUT_BUF * q + INPUT_BUF * n /\ q + n \in Int
  BY <1>0, <1>1, <1>3
<1>5. INPUT_BUF * (q + n) + c = INPUT_BUF * p + d
  BY <1>0, <1>1, <1>2, <1>3, <1>4 DEF Cells
<1>6. c = d
  BY <1>1, <1>2, <1>4, <1>5, DivUnique, Zenon
<1> QED
  BY <1>6, Zenon DEF c, d

\* From one index to another.
LEMMA CellFwd ==
  ASSUME NEW a \in Word, NEW b \in Word, Dist(a, b) <= INPUT_BUF
  PROVE  /\ Dist(a, b) \in 0 .. INPUT_BUF
         /\ Cell(b) = Wrap(Cell(a), Dist(a, b))
         /\ Cell(a) \in Cells
<1>0. a \in Nat /\ b \in Nat /\ WORD \in Nat /\ INPUT_BUF \in Nat \ {0}
  BY WordAssumption DEF Word
<1>1. Dist(a, b) = IF a <= b THEN b - a ELSE b + WORD - a
  BY DistIs, Zenon
<1>2. Dist(a, b) \in 0 .. INPUT_BUF
  BY <1>0, <1>1 DEF Word
<1>3. Cell(a + Dist(a, b)) = Wrap(Cell(a), Dist(a, b)) /\ Cell(a) \in Cells
  BY <1>0, <1>2, CellAdd, Zenon
<1>4. CASE a <= b
  <2>1. a + Dist(a, b) = b
    BY <1>0, <1>1, <1>4
  <2> QED
    BY <1>2, <1>3, <2>1, Zenon
<1>5. CASE ~(a <= b)
  <2>1. a + Dist(a, b) = b + WORD
    BY <1>0, <1>1, <1>5
  <2> QED
    BY <1>0, <1>2, <1>3, <2>1, CellWord, Zenon
<1> QED
  BY <1>4, <1>5, Zenon

-----------------------------------------------------------------------------
\* What ring f holds from index a to index b
SliceOf(f, a, b) == [k \in 1 .. Dist(a, b) |-> f[Wrap(Cell(a), k - 1)]]

\* The refinement mapping in terms of Wrap.
LEMMA SliceIs ==
  ASSUME NEW f, NEW a \in Word, NEW b \in Word, Dist(a, b) <= INPUT_BUF
  PROVE  [k \in 1 .. Dist(a, b) |-> f[Cell(a + k - 1)]] = SliceOf(f, a, b)
<1>1. Dist(a, b) \in 0 .. INPUT_BUF /\ a \in Nat /\ INPUT_BUF \in Nat
  BY CellFwd, WordAssumption DEF Word
<1>2. ASSUME NEW k \in 1 .. Dist(a, b) PROVE Cell(a + k - 1) = Wrap(Cell(a), k - 1)
  <2>1. k - 1 \in 0 .. INPUT_BUF /\ a + k - 1 = a + (k - 1)
    BY <1>1
  <2> QED
    BY <1>1, <2>1, CellAdd, Zenon
<1> QED
  BY <1>2, Zenon DEF SliceOf

\* A slice is a sequence of as many characters as its ends are apart.
LEMMA SliceSeq ==
  ASSUME NEW f \in [Cells -> Stored], NEW a \in Word, NEW b \in Word, Dist(a, b) <= INPUT_BUF
  PROVE  /\ SliceOf(f, a, b) \in Seq(Stored)
         /\ Len(SliceOf(f, a, b)) = Dist(a, b)
         /\ \A k \in 1 .. Dist(a, b) : SliceOf(f, a, b)[k] = f[Wrap(Cell(a), k - 1)]
         /\ Dist(a, b) \in 0 .. INPUT_BUF /\ Cell(a) \in Cells /\ INPUT_BUF \in Nat \ {0}
<1>1. Dist(a, b) \in 0 .. INPUT_BUF /\ Cell(a) \in Cells /\ INPUT_BUF \in Nat \ {0}
  BY CellFwd, WordAssumption, Zenon
<1>2. \A k \in 1 .. Dist(a, b) : Wrap(Cell(a), k - 1) \in Cells
  BY <1>1 DEF Wrap, Cells
<1>3. \A k \in 1 .. Dist(a, b) : f[Wrap(Cell(a), k - 1)] \in Stored
  BY <1>2, Zenon
<1> DEFINE n == Dist(a, b)
           v(k) == f[Wrap(Cell(a), k - 1)]
<1>4. n \in Nat /\ \A k \in 1 .. n : v(k) \in Stored
  BY <1>1, <1>3
<1>5. SliceOf(f, a, b) = [k \in 1 .. n |-> v(k)]
  BY Zenon DEF SliceOf
<1> HIDE DEF n, v
<1>6. [k \in 1 .. n |-> v(k)] \in Seq(Stored) /\ Len([k \in 1 .. n |-> v(k)]) = n
  BY <1>4
<1>7. \A k \in 1 .. n : [j \in 1 .. n |-> v(j)][k] = v(k)
  BY Zenon
<1> QED
  BY <1>1, <1>5, <1>6, <1>7, Zenon DEF n, v

\* r++ takes the first character off what is ready.
LEMMA TakeSlice ==
  ASSUME NEW f \in [Cells -> Stored], NEW a \in Word, NEW b \in Word,
         a # b, Dist(a, b) <= INPUT_BUF
  PROVE  /\ SliceOf(f, a, b) # <<>>
         /\ Head(SliceOf(f, a, b)) = f[Cell(a)]
         /\ SliceOf(f, inc(a), b) = Tail(SliceOf(f, a, b))
<1> DEFINE s == SliceOf(f, a, b)
           t == SliceOf(f, inc(a), b)
           n == Dist(a, b)
           c == Cell(a)
<1>0. a \in Nat /\ b \in Nat /\ WORD \in Nat /\ INPUT_BUF \in Nat \ {0} /\ INPUT_BUF < WORD
  BY WordAssumption DEF Word
<1>1. inc(a) = IF a = WORD - 1 THEN 0 ELSE a + 1
  BY IncIs, Zenon
<1>2. inc(a) \in Word
  BY <1>0, <1>1 DEF Word
<1>3. n = (IF a <= b THEN b - a ELSE b + WORD - a) /\ n <= INPUT_BUF
  BY DistIs, Zenon
<1>4. Dist(inc(a), b) = IF inc(a) <= b THEN b - inc(a) ELSE b + WORD - inc(a)
  BY <1>2, DistIs, Zenon
<1>5. Dist(inc(a), b) = n - 1 /\ n \in 1 .. INPUT_BUF
  <2> HIDE DEF n
  <2> QED
    BY <1>0, <1>1, <1>3, <1>4 DEF Word
<1>6. Dist(a, inc(a)) = 1
  <2>1. Dist(a, inc(a)) = IF a <= inc(a) THEN inc(a) - a ELSE inc(a) + WORD - a
    BY <1>2, DistIs, Zenon
  <2> QED
    BY <1>0, <1>1, <2>1 DEF Word
<1>7. Cell(inc(a)) = Wrap(c, 1) /\ c \in Cells
  <2>1. Dist(a, inc(a)) <= INPUT_BUF
    BY <1>0, <1>6
  <2>2. Cell(inc(a)) = Wrap(Cell(a), Dist(a, inc(a))) /\ Cell(a) \in Cells
    BY <1>2, <2>1, CellFwd, Zenon
  <2> QED
    BY <1>6, <2>2, Zenon
<1>8. s \in Seq(Stored) /\ Len(s) = n /\ \A k \in 1 .. n : s[k] = f[Wrap(c, k - 1)]
  BY SliceSeq, Zenon
<1>9. t \in Seq(Stored) /\ Len(t) = n - 1 /\ \A k \in 1 .. n - 1 : t[k] = f[Wrap(Wrap(c, 1), k - 1)]
  <2>1. Dist(inc(a), b) <= INPUT_BUF
    BY <1>0, <1>5
  <2> QED
    BY <1>2, <1>5, <1>7, <2>1, SliceSeq
<1> HIDE DEF s, t, n, c
<1>10. s # <<>> /\ Head(s) = s[1] /\ s[1] = f[Wrap(c, 0)] /\ Wrap(c, 0) = c
  BY <1>0, <1>5, <1>7, <1>8 DEF Wrap, Cells
<1>11. Tail(s) \in Seq(Stored) /\ Len(Tail(s)) = n - 1 /\ \A k \in 1 .. n - 1 : Tail(s)[k] = s[k + 1]
  BY <1>5, <1>8, <1>10, HeadTailProperties
<1>12. ASSUME NEW k \in 1 .. n - 1 PROVE t[k] = Tail(s)[k]
  <2>1. Wrap(Wrap(c, 1), k - 1) = Wrap(c, (k + 1) - 1)
    BY <1>0, <1>5, <1>7, <1>12 DEF Wrap, Cells
  <2>2. k + 1 \in 1 .. n
    BY <1>5
  <2> QED
    BY <1>8, <1>9, <1>11, <2>1, <2>2, Zenon
<1>13. t = Tail(s)
  BY <1>9, <1>11, <1>12, SeqEqual, Zenon
<1> QED
  BY <1>10, <1>13, Zenon DEF s, t, c

\* e-- takes the last character off the line.
LEMMA EraseSlice ==
  ASSUME NEW f \in [Cells -> Stored], NEW a \in Word, NEW b \in Word,
         a # b, Dist(a, b) <= INPUT_BUF
  PROVE  /\ SliceOf(f, a, b) # <<>>
         /\ SliceOf(f, a, dec(b)) = SubSeq(SliceOf(f, a, b), 1, Len(SliceOf(f, a, b)) - 1)
<1> DEFINE s == SliceOf(f, a, b)
           t == SliceOf(f, a, dec(b))
           n == Dist(a, b)
           u == SubSeq(s, 1, n - 1)
<1>0. a \in Nat /\ b \in Nat /\ WORD \in Nat /\ INPUT_BUF \in Nat
  BY WordAssumption DEF Word
<1>1. dec(b) = IF b = 0 THEN WORD - 1 ELSE b - 1
  BY DecIs, Zenon
<1>2. dec(b) \in Word
  BY <1>0, <1>1 DEF Word
<1>3. n = (IF a <= b THEN b - a ELSE b + WORD - a) /\ n <= INPUT_BUF
  BY DistIs, Zenon
<1>4. Dist(a, dec(b)) = IF a <= dec(b) THEN dec(b) - a ELSE dec(b) + WORD - a
  BY <1>2, DistIs, Zenon
<1>5. Dist(a, dec(b)) = n - 1 /\ n \in 1 .. INPUT_BUF
  <2> HIDE DEF n
  <2> QED
    BY <1>0, <1>1, <1>3, <1>4 DEF Word
<1>6. s \in Seq(Stored) /\ Len(s) = n /\ \A k \in 1 .. n : s[k] = f[Wrap(Cell(a), k - 1)]
  BY SliceSeq, Zenon
<1>7. t \in Seq(Stored) /\ Len(t) = n - 1 /\ \A k \in 1 .. n - 1 : t[k] = f[Wrap(Cell(a), k - 1)]
  <2>1. Dist(a, dec(b)) <= INPUT_BUF
    BY <1>0, <1>5
  <2> QED
    BY <1>2, <1>5, <2>1, SliceSeq
<1> HIDE DEF s, t, n
<1>8. \A i \in 1 .. n - 1 : s[i] \in Stored
  BY <1>5, <1>6, ElementOfSeq
<1>9. u \in Seq(Stored) /\ Len(u) = n - 1 /\ \A k \in 1 .. n - 1 : u[k] = s[k]
  <2>1. 1 \in Int /\ n - 1 \in Int
    BY <1>5
  <2>2. /\ u \in Seq(Stored)
        /\ Len(u) = (IF 1 <= n - 1 THEN n - 1 - 1 + 1 ELSE 0)
        /\ \A i \in 1 .. n - 1 - 1 + 1 : u[i] = s[1 + i - 1]
    BY <1>8, <2>1, SubSeqProperties
  <2> HIDE DEF u
  <2> QED
    BY <1>5, <2>2
<1> HIDE DEF u
<1>10. ASSUME NEW k \in 1 .. n - 1 PROVE t[k] = u[k]
  <2>1. k \in 1 .. n
    BY <1>5
  <2>2. s[k] = f[Wrap(Cell(a), k - 1)]
    BY <1>6, <2>1, Zenon
  <2> QED
    BY <1>7, <1>9, <2>2, Zenon
<1>11. t = u
  BY <1>7, <1>9, <1>10, SeqEqual, Zenon
<1>12. s # <<>>
  BY <1>5, <1>6
<1> QED
  BY <1>6, <1>11, <1>12, Zenon DEF s, t, u

\* A character put into the cell of e is the last one before e + 1.
LEMMA PutSlice ==
  ASSUME NEW f \in [Cells -> Stored], NEW a \in Word, NEW b \in Word, NEW c \in Stored,
         Dist(a, b) < INPUT_BUF
  PROVE  SliceOf([f EXCEPT ![Cell(b)] = c], a, inc(b)) = Append(SliceOf(f, a, b), c)
<1> DEFINE g == [f EXCEPT ![Cell(b)] = c]
           s == SliceOf(f, a, b)
           t == SliceOf(g, a, inc(b))
           u == Append(s, c)
           n == Dist(a, b)
<1>0. a \in Nat /\ b \in Nat /\ WORD \in Nat /\ INPUT_BUF \in Nat \ {0} /\ INPUT_BUF < WORD
  BY WordAssumption DEF Word
<1>1. inc(b) = IF b = WORD - 1 THEN 0 ELSE b + 1
  BY IncIs, Zenon
<1>2. inc(b) \in Word
  BY <1>0, <1>1 DEF Word
<1>3. n = (IF a <= b THEN b - a ELSE b + WORD - a) /\ n < INPUT_BUF
  BY DistIs, Zenon
<1>4. Dist(a, inc(b)) = IF a <= inc(b) THEN inc(b) - a ELSE inc(b) + WORD - a
  BY <1>2, DistIs, Zenon
<1>5. Dist(a, inc(b)) = n + 1 /\ n \in 0 .. INPUT_BUF - 1
  <2> HIDE DEF n
  <2> QED
    BY <1>0, <1>1, <1>3, <1>4 DEF Word
<1>6. Dist(a, b) <= INPUT_BUF /\ Dist(a, inc(b)) <= INPUT_BUF
  BY <1>0, <1>5
<1>7. Cell(b) = Wrap(Cell(a), n) /\ Cell(a) \in Cells
  BY <1>6, CellFwd, Zenon
<1>8. Cell(b) \in Cells
  BY <1>0, DivCell, Zenon
<1>9. g \in [Cells -> Stored]
  BY <1>8, Zenon
<1>10. s \in Seq(Stored) /\ Len(s) = n /\ \A k \in 1 .. n : s[k] = f[Wrap(Cell(a), k - 1)]
  BY <1>6, SliceSeq, Zenon
<1>11. t \in Seq(Stored) /\ Len(t) = n + 1 /\ \A k \in 1 .. n + 1 : t[k] = g[Wrap(Cell(a), k - 1)]
  <2> HIDE DEF g
  <2> QED
    BY <1>2, <1>5, <1>6, <1>9, SliceSeq
<1>12. /\ u \in Seq(Stored) /\ Len(u) = n + 1
       /\ \A k \in 1 .. n : u[k] = s[k]
       /\ u[n + 1] = c
  <2> HIDE DEF s, n
  <2> QED
    BY <1>10, AppendProperties
<1>13. ASSUME NEW k \in 1 .. n
       PROVE  Wrap(Cell(a), k - 1) \in Cells /\ Wrap(Cell(a), k - 1) # Cell(b)
  <2> HIDE DEF n
  <2>1. k - 1 \in Cells /\ n \in Cells /\ k - 1 < n
    BY <1>0, <1>5 DEF Cells
  <2> QED
    BY <1>7, <2>1, WrapApart, Zenon
<1>14. g[Cell(b)] = c /\ \A x \in Cells : x # Cell(b) => g[x] = f[x]
  BY <1>8, Zenon
<1> HIDE DEF g, s, t, u, n
<1>15. ASSUME NEW k \in 1 .. n + 1 PROVE t[k] = u[k]
  <2>1. CASE k \in 1 .. n
    BY <1>10, <1>11, <1>12, <1>13, <1>14, <2>1, Zenon
  <2>2. CASE k = n + 1
    <3>1. k - 1 = n
      BY <1>5, <2>2
    <3> QED
      BY <1>7, <1>11, <1>12, <1>14, <2>2, <3>1, Zenon
  <2> QED
    BY <1>5, <2>1, <2>2
<1>16. t = u
  BY <1>11, <1>12, <1>15, SeqEqual, Zenon
<1> QED
  BY <1>16, Zenon DEF t, u, s, g

\* It changes nothing before e.
LEMMA PutKeeps ==
  ASSUME NEW f, NEW g, NEW a \in Word, NEW b \in Word, NEW d \in Word,
         \A x \in Cells : x # Cell(d) => g[x] = f[x],
         Dist(a, b) <= Dist(a, d), Dist(a, d) < INPUT_BUF
  PROVE  SliceOf(g, a, b) = SliceOf(f, a, b)
<1>0. d \in Nat /\ INPUT_BUF \in Nat \ {0} /\ Dist(a, b) \in Int /\ Dist(a, d) \in Int
  <2>1. /\ Dist(a, b) = IF a <= b THEN b - a ELSE b + WORD - a
        /\ Dist(a, d) = IF a <= d THEN d - a ELSE d + WORD - a
    BY DistIs, Zenon
  <2> QED
    BY <2>1, WordAssumption DEF Word
<1>1. Dist(a, d) <= INPUT_BUF
  BY <1>0
<1>2. Dist(a, d) \in 0 .. INPUT_BUF /\ Cell(d) = Wrap(Cell(a), Dist(a, d)) /\ Cell(a) \in Cells
  BY <1>1, CellFwd, Zenon
<1>3. ASSUME NEW k \in 1 .. Dist(a, b)
      PROVE  Wrap(Cell(a), k - 1) \in Cells /\ Wrap(Cell(a), k - 1) # Cell(d)
  <2>1. k - 1 \in Cells /\ Dist(a, d) \in Cells /\ k - 1 < Dist(a, d)
    BY <1>0, <1>2 DEF Cells
  <2> QED
    BY <1>2, <2>1, WrapApart, Zenon
<1>4. \A k \in 1 .. Dist(a, b) : g[Wrap(Cell(a), k - 1)] = f[Wrap(Cell(a), k - 1)]
  BY <1>3, Zenon
<1> QED
  BY <1>4, Zenon DEF SliceOf

\* What is ready and the line follow one another.
LEMMA JoinSlice ==
  ASSUME NEW f \in [Cells -> Stored], NEW a \in Word, NEW b \in Word, NEW d \in Word,
         Dist(a, b) <= Dist(a, d), Dist(a, d) <= INPUT_BUF
  PROVE  /\ Dist(b, d) = Dist(a, d) - Dist(a, b)
         /\ SliceOf(f, a, d) = SliceOf(f, a, b) \o SliceOf(f, b, d)
<1> DEFINE s == SliceOf(f, a, b)
           t == SliceOf(f, b, d)
           u == SliceOf(f, a, d)
           m == Dist(a, b)
           n == Dist(a, d)
<1>0. WORD \in Nat /\ INPUT_BUF \in Nat \ {0}
  BY WordAssumption, Zenon
<1>1. /\ m = IF a <= b THEN b - a ELSE b + WORD - a
      /\ n = IF a <= d THEN d - a ELSE d + WORD - a
      /\ Dist(b, d) = IF b <= d THEN d - b ELSE d + WORD - b
  BY DistIs, Zenon
<1>2. Dist(b, d) = n - m /\ m \in 0 .. n /\ n \in 0 .. INPUT_BUF
  <2>1. m <= n /\ n <= INPUT_BUF
    BY Zenon
  <2> HIDE DEF m, n
  <2> QED
    BY <1>0, <1>1, <2>1 DEF Word
<1>3. Dist(a, b) <= INPUT_BUF /\ Dist(b, d) <= INPUT_BUF
  BY <1>0, <1>2
<1>4. Cell(b) = Wrap(Cell(a), m) /\ Cell(a) \in Cells
  BY <1>3, CellFwd, Zenon
<1>5. s \in Seq(Stored) /\ Len(s) = m /\ \A k \in 1 .. m : s[k] = f[Wrap(Cell(a), k - 1)]
  BY <1>3, SliceSeq, Zenon
<1>6. t \in Seq(Stored) /\ Len(t) = n - m /\ \A k \in 1 .. n - m : t[k] = f[Wrap(Cell(b), k - 1)]
  BY <1>2, <1>3, SliceSeq
<1>7. u \in Seq(Stored) /\ Len(u) = n /\ \A k \in 1 .. n : u[k] = f[Wrap(Cell(a), k - 1)]
  BY SliceSeq, Zenon
<1> HIDE DEF s, t, u, m, n
<1>8. /\ s \o t \in Seq(Stored) /\ Len(s \o t) = n
      /\ \A k \in 1 .. n : (s \o t)[k] = IF k <= m THEN s[k] ELSE t[k - m]
  <2>1. /\ s \o t \in Seq(Stored) /\ Len(s \o t) = Len(s) + Len(t)
        /\ \A k \in 1 .. Len(s) + Len(t) : (s \o t)[k] = IF k <= Len(s) THEN s[k] ELSE t[k - Len(s)]
    BY <1>5, <1>6, ConcatProperties, Zenon
  <2>2. Len(s) + Len(t) = n /\ Len(s) = m
    BY <1>2, <1>5, <1>6
  <2> QED
    BY <2>1, <2>2, Zenon
<1>9. ASSUME NEW k \in 1 .. n PROVE u[k] = (s \o t)[k]
  <2>1. CASE k <= m
    <3>1. k \in 1 .. m
      BY <1>2, <2>1
    <3>2. s[k] = f[Wrap(Cell(a), k - 1)]
      BY <1>5, <3>1, Zenon
    <3> QED
      BY <1>7, <1>8, <2>1, <3>2, Zenon
  <2>2. CASE ~(k <= m)
    <3>1. k - m \in 1 .. n - m
      BY <1>2, <2>2
    <3>2. Wrap(Wrap(Cell(a), m), (k - m) - 1) = Wrap(Cell(a), k - 1)
      BY <1>0, <1>2, <1>4, <2>2 DEF Wrap, Cells
    <3>3. t[k - m] = f[Wrap(Cell(b), (k - m) - 1)]
      BY <1>6, <3>1, Zenon
    <3>4. (s \o t)[k] = t[k - m]
      BY <1>8, <2>2, Zenon
    <3> QED
      BY <1>4, <1>7, <3>2, <3>3, <3>4, Zenon
  <2> QED
    BY <2>1, <2>2, Zenon
<1>10. u = s \o t
  BY <1>7, <1>8, <1>9, SeqEqual, Zenon
<1> QED
  BY <1>2, <1>10, Zenon DEF s, t, u, m, n

-----------------------------------------------------------------------------
Ready == SliceOf(buf, r, w)
Line == SliceOf(buf, w, e)

\* The line being edited holds no newline, so ^U erases all of it.
Clean == \A k \in 1 .. Len(Line) : Line[k] # NL

\* What the invariant says of the mapping.
LEMMA Facts ==
  ASSUME IInv
  PROVE  /\ r \in Word /\ w \in Word /\ e \in Word /\ buf \in [Cells -> Stored]
         /\ Dist(r, w) <= Dist(r, e) /\ Dist(r, e) <= INPUT_BUF
         /\ Dist(r, w) <= INPUT_BUF /\ Dist(w, e) <= INPUT_BUF
         /\ Dist(w, e) = Dist(r, e) - Dist(r, w)
         /\ Slice(r, w) = Ready /\ Slice(w, e) = Line
         /\ Ready \in Seq(Stored) /\ Len(Ready) = Dist(r, w)
         /\ Line \in Seq(Stored) /\ Len(Line) = Dist(w, e)
         /\ SliceOf(buf, r, e) = Ready \o Line
         /\ Dist(r, w) \in Nat /\ Dist(w, e) \in Nat /\ Dist(r, e) \in Nat
<1>1. r \in Word /\ w \in Word /\ e \in Word /\ buf \in [Cells -> Stored]
  BY Zenon DEF IInv, TypeOK, Word, Cells, Stored
<1>2. Dist(r, w) <= Dist(r, e) /\ Dist(r, e) <= INPUT_BUF
  BY Zenon DEF IInv, Ordered
<1>3. Dist(w, e) = Dist(r, e) - Dist(r, w) /\ SliceOf(buf, r, e) = Ready \o Line
  BY <1>1, <1>2, JoinSlice, Zenon DEF Ready, Line
<1>4. Dist(r, e) \in Nat /\ Dist(r, w) \in Nat /\ INPUT_BUF \in Nat
  <2>1. /\ Dist(r, w) = IF r <= w THEN w - r ELSE w + WORD - r
        /\ Dist(r, e) = IF r <= e THEN e - r ELSE e + WORD - r
    BY <1>1, DistIs, Zenon
  <2> QED
    BY <1>1, <2>1, WordAssumption DEF Word
<1>5. Dist(r, w) <= INPUT_BUF /\ Dist(w, e) <= INPUT_BUF /\ Dist(w, e) \in Nat
  BY <1>2, <1>3, <1>4
<1>6. Slice(r, w) = Ready /\ Slice(w, e) = Line
  BY <1>1, <1>5, SliceIs, Zenon DEF Slice, Ready, Line
<1>7. Ready \in Seq(Stored) /\ Len(Ready) = Dist(r, w) /\ Line \in Seq(Stored) /\ Len(Line) = Dist(w, e)
  BY <1>1, <1>5, SliceSeq, Zenon DEF Ready, Line
<1> QED
  BY <1>1, <1>2, <1>3, <1>4, <1>5, <1>6, <1>7, Zenon

\* The mapping in the next state.
LEMMA MapNext == IInv' => Slice(r, w)' = Ready' /\ Slice(w, e)' = Line'
<1>1. IInv => (Slice(r, w) = Ready /\ Slice(w, e) = Line)
  BY Facts, Zenon
<1>2. IInv' => (Slice(r, w) = Ready /\ Slice(w, e) = Line)'
  BY <1>1, PTL
<1> QED
  BY <1>2, Zenon

\* Nothing lies between an index and itself.
LEMMA EmptySlice ==
  ASSUME NEW f, NEW a \in Word
  PROVE  SliceOf(f, a, a) = <<>>
<1>1. Dist(a, a) = 0
  BY DistIs, WordAssumption DEF Word
<1> QED
  BY <1>1 DEF SliceOf

\* A character that is put into the ring extends the line or completes it.
LEMMA PutType ==
  ASSUME IInv, Clean, IInv', NEW c \in Chars, room, Put(c)
  PROVE  Fifo!TypeChar(c) /\ Clean'
<1> DEFINE g == [buf EXCEPT ![Cell(e)] = c]
<1>1. buf' = g /\ e' = inc(e) /\ r' = r /\ got' = got
  BY Zenon DEF Put
<1>2. Dist(r, e) < INPUT_BUF /\ Dist(w, e) < INPUT_BUF /\ INPUT_BUF \in Nat /\ c \in Stored
  BY Facts, WordAssumption DEF room, Stored
<1>3. SliceOf(g, r, inc(e)) = Append(SliceOf(buf, r, e), c)
  BY <1>2, Facts, PutSlice, Zenon
<1>4. SliceOf(g, w, inc(e)) = Append(Line, c)
  BY <1>2, Facts, PutSlice, Zenon DEF Line
<1>5. SliceOf(g, r, w) = Ready
  <2>1. /\ r \in Word /\ w \in Word /\ e \in Word /\ buf \in [Cells -> Stored]
        /\ Dist(r, w) <= Dist(r, e)
    BY Facts, Zenon
  <2>2. Dist(r, e) < INPUT_BUF
    BY <1>2, Zenon
  <2>3. \A x \in Cells : x # Cell(e) => g[x] = buf[x]
    BY <2>1, Zenon
  <2>4. SliceOf(g, r, w) = SliceOf(buf, r, w)
    <3> HIDE DEF g
    <3> QED
      BY <2>1, <2>2, <2>3, PutKeeps
  <2> QED
    BY <2>4, Zenon DEF Ready
<1>6. inc(e) = (r + INPUT_BUF) % WORD <=> Len(Ready) + Len(Line) + 1 = INPUT_BUF
  <2>0. r \in 0 .. WORD - 1 /\ e \in 0 .. WORD - 1 /\ WORD \in Nat /\ INPUT_BUF < WORD
    BY Facts, WordAssumption, Zenon DEF Word
  <2>1. Dist(r, e) = IF r <= e THEN e - r ELSE e + WORD - r
    BY Facts, DistIs, Zenon
  <2>2. inc(e) = IF e = WORD - 1 THEN 0 ELSE e + 1
    BY Facts, IncIs, Zenon
  <2>3. (r + INPUT_BUF) % WORD = IF r + INPUT_BUF < WORD THEN r + INPUT_BUF ELSE r + INPUT_BUF - WORD
    <3> DEFINE x == r + INPUT_BUF
    <3>1. x \in 0 .. 2 * WORD - 1
      BY <1>2, <2>0
    <3> HIDE DEF x
    <3>2. x % WORD = IF x < WORD THEN x ELSE x - WORD
      BY <3>1, ModSmall, Zenon
    <3> QED
      BY <1>2, <2>0, <3>2 DEF x
  <2>4. Len(Ready) + Len(Line) = Dist(r, e)
    <3>1. /\ Len(Ready) = Dist(r, w) /\ Len(Line) = Dist(w, e)
          /\ Dist(w, e) = Dist(r, e) - Dist(r, w)
          /\ Dist(r, w) \in Nat /\ Dist(r, e) \in Nat
      BY Facts, Zenon
    <3> QED
      BY <3>1
  <2> QED
    BY <1>2, <2>0, <2>1, <2>2, <2>3, <2>4
<1>7. Len(Ready) + Len(Line) < INPUT_BUF
  BY <1>2, Facts
<1> HIDE DEF g
<1>8. Slice(r, w) = Ready /\ Slice(w, e) = Line /\ Slice(r, w)' = Ready' /\ Slice(w, e)' = Line'
  BY Facts, MapNext, Zenon
<1>9. CASE commits(c)
  <2>1. w' = inc(e)
    BY <1>9, Zenon DEF Put
  <2>2. Ready' = Append(Ready \o Line, c)
    BY <1>1, <1>3, <2>1, Facts, Zenon DEF Ready
  <2>3. Append(Ready \o Line, c) = Ready \o Append(Line, c)
    <3>1. Ready \in Seq(Stored) /\ Line \in Seq(Stored) /\ <<c>> \in Seq(Stored)
      BY <1>2, Facts
    <3>2. Ready \o Line \in Seq(Stored)
      BY <3>1, ConcatProperties, Zenon
    <3>3. Append(Ready \o Line, c) = (Ready \o Line) \o <<c>>
      BY <1>2, <3>2, AppendIsConcat, Zenon
    <3>4. Append(Line, c) = Line \o <<c>>
      BY <1>2, <3>1, AppendIsConcat, Zenon
    <3> QED
      BY <3>1, <3>3, <3>4, ConcatAssociative
  <2>4. Line' = <<>>
    <3>1. inc(e) \in Word
      BY <2>1, Zenon DEF IInv, TypeOK, Word
    <3> QED
      BY <1>1, <2>1, <3>1, EmptySlice, Zenon DEF Line
  <2>5. Clean'
    BY <2>4 DEF Clean
  <2> QED
    BY <1>1, <1>6, <1>7, <1>8, <1>9, <2>2, <2>3, <2>4, <2>5, Zenon DEF commits, Fifo!TypeChar, Fifo!Room
<1>10. CASE ~commits(c)
  <2>1. w' = w
    BY <1>10, Zenon DEF Put
  <2>2. Ready' = Ready /\ Line' = Append(Line, c)
    BY <1>1, <1>4, <1>5, <2>1, Zenon DEF Ready, Line
  <2>3. c # NL
    BY <1>10, Zenon DEF commits
  <2>4. Clean'
    <3>1. /\ Len(Append(Line, c)) = Len(Line) + 1
          /\ \A k \in 1 .. Len(Line) : Append(Line, c)[k] = Line[k]
          /\ Append(Line, c)[Len(Line) + 1] = c
      BY <1>2, Facts, AppendProperties
    <3>2. Len(Line) \in Nat
      BY Facts, Zenon
    <3>3. \A k \in 1 .. Len(Line) + 1 : k \in 1 .. Len(Line) \/ k = Len(Line) + 1
      BY <3>2
    <3> QED
      BY <2>2, <2>3, <3>1, <3>3, Zenon DEF Clean
  <2> QED
    BY <1>1, <1>6, <1>7, <1>8, <1>10, <2>2, <2>4, Zenon DEF commits, Fifo!TypeChar, Fifo!Room
<1> QED
  BY <1>9, <1>10, Zenon

\* A reader takes the first character that is ready.
LEMMA TakeDelivers ==
  ASSUME IInv, Clean, IInv', r # w, Take
  PROVE  Fifo!Deliver /\ Clean'
<1>1. got' = buf[Cell(r)] /\ r' = inc(r) /\ UNCHANGED <<buf, w, e>>
  BY Zenon DEF Take
<1>2. Ready # <<>> /\ Head(Ready) = buf[Cell(r)] /\ SliceOf(buf, inc(r), w) = Tail(Ready)
  BY Facts, TakeSlice, Zenon DEF Ready
<1>3. Ready' = Tail(Ready) /\ Line' = Line
  BY <1>1, <1>2, Zenon DEF Ready, Line
<1>4. Slice(r, w) = Ready /\ Slice(w, e) = Line /\ Slice(r, w)' = Ready' /\ Slice(w, e)' = Line'
  BY Facts, MapNext, Zenon
<1>5. Clean'
  BY <1>3, Zenon DEF Clean
<1> QED
  BY <1>1, <1>2, <1>3, <1>4, <1>5, Zenon DEF Fifo!Deliver

\* Backspace takes the last character of the line, if there is one.
LEMMA BackspaceErases ==
  ASSUME IInv, Clean, IInv', e # w, e' = dec(e), UNCHANGED <<buf, r, w, got>>
  PROVE  Fifo!EraseChar /\ Clean'
<1>1. Line # <<>> /\ SliceOf(buf, w, dec(e)) = SubSeq(Line, 1, Len(Line) - 1)
  BY Facts, EraseSlice, Zenon DEF Line
<1>2. Ready' = Ready /\ Line' = SubSeq(Line, 1, Len(Line) - 1)
  BY <1>1, Zenon DEF Ready, Line
<1>3. Slice(r, w) = Ready /\ Slice(w, e) = Line /\ Slice(r, w)' = Ready' /\ Slice(w, e)' = Line'
  BY Facts, MapNext, Zenon
<1>4. Clean'
  <2> DEFINE n == Len(Line) - 1
             u == SubSeq(Line, 1, n)
  <2>1. n + 1 = Len(Line) /\ n \in Nat /\ Line \in Seq(Stored)
    BY <1>1, Facts
  <2>2. \A i \in 1 .. n : Line[i] \in Stored
    <3> HIDE DEF n
    <3> QED
      BY <2>1, ElementOfSeq
  <2>3. Len(u) = n /\ \A i \in 1 .. n : u[i] = Line[i]
    <3> HIDE DEF n
    <3>1. 1 \in Int /\ n \in Int
      BY <2>1
    <3>2. /\ Len(u) = (IF 1 <= n THEN n - 1 + 1 ELSE 0)
          /\ \A i \in 1 .. n - 1 + 1 : u[i] = Line[1 + i - 1]
      BY <2>2, <3>1, SubSeqProperties
    <3> HIDE DEF u
    <3> QED
      BY <2>1, <3>2
  <2>4. Line' = u
    BY <1>2, Zenon
  <2> HIDE DEF n, u
  <2>5. \A i \in 1 .. n : i \in 1 .. Len(Line)
    BY <2>1
  <2> QED
    BY <2>3, <2>4, <2>5, Zenon DEF Clean
<1> QED
  BY <1>1, <1>2, <1>3, <1>4, Zenon DEF Fifo!EraseChar

\* ^U erases the whole line: there is no newline in it to stop at.
LEMMA KillCount == ASSUME IInv, Clean PROVE kill_count = Dist(w, e)
<1> DEFINE n == Dist(w, e)
           j == kill_count
<1>0. w \in 0 .. WORD - 1 /\ e \in 0 .. WORD - 1 /\ WORD \in Nat /\ INPUT_BUF \in Nat \ {0} /\ n <= INPUT_BUF
  BY Facts, WordAssumption, Zenon DEF Word
<1>1. n = IF w <= e THEN e - w ELSE e + WORD - w
  BY Facts, DistIs, Zenon
<1>2. j \in 0 .. n /\ Stop(j)
  BY Facts, KillStops, Zenon
<1>3. Len(Line) = n /\ \A k \in 1 .. n : Line[k] = buf[Wrap(Cell(w), k - 1)]
  BY Facts, SliceSeq, Zenon DEF Line
<1>4. \A k \in 1 .. n : buf[Wrap(Cell(w), k - 1)] # NL
  BY <1>3, Zenon DEF Clean
<1>5. Stop(j) <=> (e + WORD - j) % WORD = w \/ buf[Cell(e + WORD - j - 1)] = NL
  BY Zenon DEF Stop
<1> HIDE DEF n, j
<1> SUFFICES ASSUME j < n PROVE FALSE
  BY <1>0, <1>1, <1>2 DEF n, j
<1>6. (e + WORD - j) % WORD # w
  <2> DEFINE x == e + WORD - j
  <2>1. x \in 0 .. 2 * WORD - 1
    BY <1>0, <1>1, <1>2
  <2>2. IF w <= e THEN x > w + WORD ELSE x > w /\ x < WORD + w
    BY <1>0, <1>1, <1>2
  <2>3. x < w + 2 * WORD
    BY <1>0, <1>1, <1>2
  <2> HIDE DEF x
  <2>4. x % WORD = IF x < WORD THEN x ELSE x - WORD
    BY <2>1, ModSmall, Zenon
  <2>5. x % WORD # w
    BY <1>0, <2>1, <2>2, <2>3, <2>4
  <2> QED
    BY <2>5, Zenon DEF x
<1>7. Cell(e + WORD - j - 1) = Wrap(Cell(w), n - j - 1)
  <2> DEFINE i == n - j - 1
             y == w + i
  <2>1. i \in 0 .. INPUT_BUF /\ y \in Nat
    BY <1>0, <1>1, <1>2
  <2>2. e + WORD - j - 1 = (IF w <= e THEN y + WORD ELSE y)
    BY <1>0, <1>1, <1>2
  <2>3. w \in Nat
    BY <1>0
  <2>4. Cell(y) = Wrap(Cell(w), i)
    <3> HIDE DEF i
    <3> QED
      BY <2>1, <2>3, CellAdd, Zenon
  <2> HIDE DEF i, y
  <2>5. Cell(y + WORD) = Cell(y)
    BY <2>1, CellWord, Zenon
  <2> QED
    BY <2>2, <2>4, <2>5, Zenon DEF i
<1>8. n - j \in 1 .. n /\ n - j - 1 = (n - j) - 1
  BY <1>0, <1>1, <1>2
<1> QED
  BY <1>2, <1>4, <1>5, <1>6, <1>7, <1>8, Zenon

\* So it is the abstract erasing of a line.
LEMMA KillErases ==
  ASSUME IInv, Clean, IInv', e' = (e + WORD - kill_count) % WORD, UNCHANGED <<buf, r, w, got>>
  PROVE  Fifo!EraseLine /\ Clean'
<1>0. w \in 0 .. WORD - 1 /\ e \in 0 .. WORD - 1 /\ WORD \in Nat /\ w \in Word
  BY Facts, WordAssumption, Zenon DEF Word
<1>1. e' = w
  <2> DEFINE x == e + WORD - Dist(w, e)
  <2>1. Dist(w, e) = IF w <= e THEN e - w ELSE e + WORD - w
    BY Facts, DistIs, Zenon
  <2>2. x = (IF w <= e THEN w + WORD ELSE w) /\ e' = x % WORD
    BY <1>0, <2>1, KillCount
  <2> HIDE DEF x
  <2>3. x \in 0 .. 2 * WORD - 1
    BY <1>0, <2>2
  <2>4. x % WORD = IF x < WORD THEN x ELSE x - WORD
    BY <2>3, ModSmall, Zenon
  <2> QED
    BY <1>0, <2>2, <2>4
<1>2. Ready' = Ready /\ Line' = <<>>
  BY <1>0, <1>1, EmptySlice, Zenon DEF Ready, Line
<1>3. Slice(r, w) = Ready /\ Slice(w, e) = Line /\ Slice(r, w)' = Ready' /\ Slice(w, e)' = Line'
  BY Facts, MapNext, Zenon
<1>4. Clean'
  BY <1>2 DEF Clean
<1> QED
  BY <1>2, <1>3, <1>4, Zenon DEF Fifo!EraseLine

-----------------------------------------------------------------------------
mapped == <<Slice(r, w), Slice(w, e), got>>

\* Every step of the console is a step of the queue of lines, or none, and keeps
\* newlines out of the line.
LEMMA StepFifo ==
  ASSUME IInv, Clean, [Next]_vars
  PROVE  (Fifo!FifoNext \/ UNCHANGED mapped) /\ Clean'
<1>0. IInv'
  BY StepInv, Zenon
<1>1. ASSUME UNCHANGED <<cons, got>> PROVE (Fifo!FifoNext \/ UNCHANGED mapped) /\ Clean'
  BY <1>1, Zenon DEF mapped, cons, Slice, Dist, Clean, Line, SliceOf
<1>2. CASE KillLine
  <2>1. CASE held = 1
    BY <1>1, <1>2, <2>1, Zenon DEF KillLine, Locked
  <2>2. CASE held # 1
    BY <1>0, <1>2, <2>2, KillErases, Zenon DEF KillLine, Locked, Fifo!FifoNext
  <2> QED
    BY <2>1, <2>2, Zenon
<1>3. CASE Backspace
  <2>1. CASE held = 1 \/ e = w
    BY <1>1, <1>3, <2>1, Zenon DEF Backspace, Locked, cons
  <2>2. CASE held # 1 /\ e # w
    BY <1>0, <1>3, <2>2, BackspaceErases, Zenon DEF Backspace, Locked, Fifo!FifoNext
  <2> QED
    BY <2>1, <2>2, Zenon
<1>4. ASSUME NEW c \in Typed, Key(c) PROVE (Fifo!FifoNext \/ UNCHANGED mapped) /\ Clean'
  <2>1. CASE held = 1 \/ ~(c # NUL /\ room)
    BY <1>1, <1>4, <2>1, Zenon DEF Key, Locked
  <2>2. CASE held # 1 /\ c # NUL /\ room
    <3> DEFINE d == IF c = CR THEN NL ELSE c
    <3>1. d \in Chars /\ Put(d)
      BY <1>4, <2>2, Zenon DEF Key, Locked, Typed, Chars
    <3> HIDE DEF d
    <3> QED
      BY <1>0, <2>2, <3>1, PutType, Zenon DEF Fifo!FifoNext
  <2> QED
    BY <2>1, <2>2, Zenon
<1>5. ASSUME NEW p \in Readers, GetCharSync(p) \/ GetChar(p) PROVE (Fifo!FifoNext \/ UNCHANGED mapped) /\ Clean'
  <2>1. UNCHANGED <<cons, got>> \/ (r # w /\ Take)
    BY <1>5, Zenon DEF GetCharSync, GetChar, Locked
  <2> QED
    BY <1>0, <1>1, <2>1, TakeDelivers, Zenon DEF Fifo!FifoNext
<1>6. ASSUME NEW p \in Readers, Read(p) \/ Kill(p) PROVE (Fifo!FifoNext \/ UNCHANGED mapped) /\ Clean'
  BY <1>1, <1>6, Zenon DEF Read, Kill
<1>7. CASE UNCHANGED vars
  BY <1>1, <1>7, Zenon DEF vars
<1> QED
  BY <1>2, <1>3, <1>4, <1>5, <1>6, <1>7, Zenon DEF Next

\* The console's ring is a queue of lines, whatever INPUT_BUF is: what readers
\* get is what was typed and not erased, in order and once, across every wrap of
\* cons.r, cons.w and cons.e.
THEOREM Refinement == Spec => Refines
<1>1. ASSUME Init PROVE Fifo!FifoInit /\ Clean
  <2>1. IInv /\ r = 0 /\ w = 0 /\ e = 0 /\ got = NUL
    BY <1>1, InitInv, Zenon DEF Init
  <2>2. 0 \in Word
    BY WordAssumption DEF Word
  <2>3. Ready = <<>> /\ Line = <<>>
    BY <2>1, <2>2, EmptySlice, Zenon DEF Ready, Line
  <2>4. Slice(r, w) = <<>> /\ Slice(w, e) = <<>>
    BY <2>1, <2>3, Facts, Zenon
  <2> QED
    BY <2>1, <2>3, <2>4 DEF Fifo!FifoInit, Clean
<1>2. Init => Fifo!FifoInit /\ Clean
  BY <1>1, Zenon
<1>3. IInv /\ Clean /\ [Next]_vars => [Fifo!FifoNext]_mapped /\ Clean'
  BY StepFifo, Zenon
<1> QED
  BY <1>2, <1>3, Invariance, PTL DEF Spec, Refines, Fifo!FifoSpec, mapped
=============================================================================
