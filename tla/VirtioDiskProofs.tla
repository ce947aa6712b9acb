-------------------------- MODULE VirtioDiskProofs --------------------------
(***************************************************************************)
(* The virtio disk driver and its device, for any number of callers,       *)
(* sectors, values and descriptors: the rings track every request, no      *)
(* sleeper is left, and the two implement a BlockDevice.                   *)
(***************************************************************************)
EXTENDS VirtioDisk, FiniteSetTheorems, WellFoundedInduction, TLAPS

\* A call under way has a sector; one not in flight has no descriptors.
CallsOK == \A c \in Callers : /\ pc[c] \notin {"idle", "gone"} => op[c].sector \in Sectors
                              /\ c \notin InFlight => idx[c] = NoIdx

\* The chain of a call in flight: three descriptors, linked, taken, with the
\* call's buffer at the head.
ChainOK(c) ==
  LET t == idx[c]
  IN /\ t[1] # t[2] /\ t[1] # t[3] /\ t[2] # t[3]
     /\ desc[t[1]].more = 1 /\ desc[t[1]].next = t[2]
     /\ desc[t[2]].more = 1 /\ desc[t[2]].next = t[3] /\ desc[t[3]].more = 0
     /\ \A i \in Range3(t) : free[i] = 0
     /\ info[t[1]].b = c

ChainsOK ==
  /\ \A c \in InFlight : ChainOK(c)
  /\ \A c, d \in InFlight : \A i \in Range3(idx[c]) : i \in Range3(idx[d]) => c = d
  /\ \A i \in Desc : free[i] = 0 => \E c \in InFlight : i \in Range3(idx[c])

\* Where head h is, and whether a call waits for it.
InAvail(h) == \E i \in Between(dev.seen, avail.idx) : avail.ring[i] = h
InDev(h)   == h \in dev.work
InUsed(h)  == \E i \in Between(used_idx, used.id) : used.ring[i] = h
Waits(h)   == info[h].wait = 1 /\ \E c \in InFlight : idx[c][1] = h

\* A head is on its way, in one place and once, when a call waits for it.
RingsOK ==
  /\ \A i, j \in Between(dev.seen, avail.idx) : avail.ring[i] = avail.ring[j] => i = j
  /\ \A i, j \in Between(used_idx, used.id) : used.ring[i] = used.ring[j] => i = j
  /\ \A h \in Desc : /\ Waits(h) <=> InAvail(h) \/ InDev(h) \/ InUsed(h)
                     /\ ~(InAvail(h) /\ InDev(h)) /\ ~(InAvail(h) /\ InUsed(h)) /\ ~(InDev(h) /\ InUsed(h))

\* Who sleeps on an operation waits for it; who sleeps for descriptors does so
\* because there are too few.
SleepOK == /\ NoMissedWake
           /\ (\E c \in Callers : pc[c] = "descs") => Cardinality(FreeDescs) < 3

IInv == TypeOK /\ CallsOK /\ ChainsOK /\ RingsOK /\ SleepOK

----------------------------------------------------------------------------
(* Arithmetic of the rings.                                                *)

\* % on a number below twice the modulus.
LEMMA ModSmall ==
  ASSUME NEW x \in 0 .. 2 * NUM - 1
  PROVE  x % NUM = IF x < NUM THEN x ELSE x - NUM
<1> USE NUMAssumption
<1>1. CASE x < NUM
  BY <1>1
<1>2. CASE ~(x < NUM)
  <2>1. x % NUM = x - NUM
    BY <1>2
  <2> QED
    BY <1>2, <2>1, Zenon
<1> QED
  BY <1>1, <1>2, Zenon

\* The next place of a ring.
LEMMA UpIs ==
  ASSUME NEW a \in Desc
  PROVE  Up(a) \in Desc /\ Up(a) = IF a = NUM - 1 THEN 0 ELSE a + 1
<1> DEFINE x == a + 1
<1>1. x \in 0 .. 2 * NUM - 1
  BY NUMAssumption DEF Desc
<1> HIDE DEF x
<1>2. x % NUM = IF x < NUM THEN x ELSE x - NUM
  BY <1>1, ModSmall, Zenon
<1>3. Up(a) = IF x < NUM THEN x ELSE x - NUM
  BY <1>2, Zenon DEF x, Up
<1> QED
  BY <1>3, NUMAssumption DEF Desc, x

\* The places from a up to b: those after a and before b, round the end.
LEMMA BetweenIs ==
  ASSUME NEW a \in Desc, NEW b \in Desc
  PROVE  /\ Between(a, b) \subseteq Desc
         /\ \A i \in Desc : i \in Between(a, b) <=> IF a <= b THEN a <= i /\ i < b ELSE a <= i \/ i < b
<1>1. ASSUME NEW i \in Desc
      PROVE  i \in Between(a, b) <=> IF a <= b THEN a <= i /\ i < b ELSE a <= i \/ i < b
  <2> DEFINE x == i - a + NUM
             y == b - a + NUM
  <2>1. x \in 0 .. 2 * NUM - 1 /\ y \in 0 .. 2 * NUM - 1
    BY NUMAssumption DEF Desc
  <2>2. i \in Between(a, b) <=> x % NUM < y % NUM
    BY Zenon DEF Between
  <2> HIDE DEF x, y
  <2>3. x % NUM = IF x < NUM THEN x ELSE x - NUM
    BY <2>1, ModSmall, Zenon
  <2>4. y % NUM = IF y < NUM THEN y ELSE y - NUM
    BY <2>1, ModSmall, Zenon
  <2>5. i \in Between(a, b) <=> (IF x < NUM THEN x ELSE x - NUM) < (IF y < NUM THEN y ELSE y - NUM)
    BY <2>2, <2>3, <2>4, Zenon
  <2> QED
    BY <2>5, NUMAssumption DEF Desc, x, y
<1> QED
  BY <1>1, Zenon DEF Between

\* The first place leaves; nothing is between a and a.
LEMMA FirstLeaves ==
  ASSUME NEW a \in Desc, NEW b \in Desc, a # b
  PROVE  a \in Between(a, b) /\ Between(Up(a), b) = Between(a, b) \ {a}
<1>1. Up(a) \in Desc /\ Up(a) = IF a = NUM - 1 THEN 0 ELSE a + 1
  BY UpIs, Zenon
<1> DEFINE u == Up(a)
<1> HIDE DEF u
<1>2. u \in Desc /\ u = IF a = NUM - 1 THEN 0 ELSE a + 1
  BY <1>1, Zenon DEF u
<1>3. \A i \in Desc : i \in Between(u, b) <=> i \in Between(a, b) /\ i # a
  <2> TAKE i \in Desc
  <2>1. i \in Between(u, b) <=> IF u <= b THEN u <= i /\ i < b ELSE u <= i \/ i < b
    BY <1>2, BetweenIs, Zenon
  <2>2. i \in Between(a, b) <=> IF a <= b THEN a <= i /\ i < b ELSE a <= i \/ i < b
    BY BetweenIs, Zenon
  <2> QED
    BY <1>2, <2>1, <2>2, NUMAssumption DEF Desc
<1>4. a \in Between(a, b)
  <2>1. a \in Between(a, b) <=> IF a <= b THEN a <= a /\ a < b ELSE a <= a \/ a < b
    BY BetweenIs, Zenon
  <2> QED
    BY <2>1, NUMAssumption DEF Desc
<1>5. Between(u, b) \subseteq Desc /\ Between(a, b) \subseteq Desc
  BY Zenon DEF Between
<1> QED
  BY <1>3, <1>4, <1>5, Zenon DEF u

\* A ring whose two counters agree is empty.
LEMMA NoneBetween == \A a \in Desc : Between(a, a) = {}
<1> SUFFICES ASSUME NEW a \in Desc PROVE Between(a, a) = {}
  BY Zenon
<1>1. \A i \in Desc : i \in Between(a, a) <=> IF a <= a THEN a <= i /\ i < a ELSE a <= i \/ i < a
  BY BetweenIs, Zenon
<1>2. \A i \in Desc : i \notin Between(a, a)
  BY <1>1, NUMAssumption DEF Desc
<1> QED
  BY <1>2, Zenon DEF Between

\* A place joins at the end, unless the ring would be full; then all places
\* but one are taken.
LEMMA LastJoins ==
  ASSUME NEW a \in Desc, NEW b \in Desc
  PROVE  /\ b \notin Between(a, b)
         /\ Up(b) # a => Between(a, Up(b)) = Between(a, b) \cup {b}
         /\ Up(b) = a => Between(a, b) = Desc \ {b}
<1>1. Up(b) \in Desc /\ Up(b) = IF b = NUM - 1 THEN 0 ELSE b + 1
  BY UpIs, Zenon
<1> DEFINE u == Up(b)
<1> HIDE DEF u
<1>2. u \in Desc /\ u = IF b = NUM - 1 THEN 0 ELSE b + 1
  BY <1>1, Zenon DEF u
<1>3. b \notin Between(a, b)
  <2>1. b \in Between(a, b) <=> IF a <= b THEN a <= b /\ b < b ELSE a <= b \/ b < b
    BY BetweenIs, Zenon
  <2> QED
    BY <2>1, NUMAssumption DEF Desc
<1>4. ASSUME NEW i \in Desc
      PROVE  /\ u # a => (i \in Between(a, u) <=> i \in Between(a, b) \/ i = b)
             /\ u = a => (i \in Between(a, b) <=> i # b)
  <2>1. i \in Between(a, u) <=> IF a <= u THEN a <= i /\ i < u ELSE a <= i \/ i < u
    BY <1>2, BetweenIs, Zenon
  <2>2. i \in Between(a, b) <=> IF a <= b THEN a <= i /\ i < b ELSE a <= i \/ i < b
    BY BetweenIs, Zenon
  <2> QED
    BY <1>2, <2>1, <2>2, NUMAssumption DEF Desc
<1>5. Between(a, u) \subseteq Desc /\ Between(a, b) \subseteq Desc
  BY Zenon DEF Between
<1> QED
  BY <1>3, <1>4, <1>5, Zenon DEF u

\* A ring of distinct heads, of which two descriptors are none, has room.
LEMMA Room ==
  ASSUME NEW a \in Desc, NEW b \in Desc, NEW r \in [Desc -> Desc],
         \A i, j \in Between(a, b) : r[i] = r[j] => i = j,
         NEW x \in Desc, NEW y \in Desc, x # y,
         \A i \in Between(a, b) : r[i] # x /\ r[i] # y
  PROVE  Up(b) # a
<1> SUFFICES ASSUME Up(b) = a PROVE FALSE
  BY Zenon
<1> DEFINE S == Desc \ {b}
           T == (Desc \ {x}) \ {y}
           f == [i \in S |-> r[i]]
<1>1. Between(a, b) = S
  BY LastJoins, Zenon
<1>2. f \in [S -> T] /\ \A i, j \in S : f[i] = f[j] => i = j
  BY <1>1, Zenon
<1>3. IsFiniteSet(Desc) /\ Cardinality(Desc) = NUM
  <2>1. 0 \in Int /\ NUM - 1 \in Int /\ ~(0 > NUM - 1) /\ (NUM - 1) - 0 + 1 = NUM
    BY NUMAssumption
  <2> QED
    BY <2>1, FS_Interval, Zenon DEF Desc
<1>4. IsFiniteSet(S) /\ Cardinality(S) = NUM - 1
  BY <1>3, FS_RemoveElement, Zenon
<1>5. IsFiniteSet(Desc \ {x}) /\ Cardinality(Desc \ {x}) = NUM - 1
  BY <1>3, FS_RemoveElement, Zenon
<1>6. IsFiniteSet(T) /\ Cardinality(T) = (NUM - 1) - 1
  BY <1>5, FS_RemoveElement
<1>7. Cardinality(T) < Cardinality(S)
  BY <1>4, <1>6, NUMAssumption
<1> HIDE DEF S, T, f
<1> QED
  BY <1>2, <1>4, <1>6, <1>7, FS_PigeonHole

----------------------------------------------------------------------------
(* alloc3_desc.                                                            *)

\* A set of numbers that is not empty has a least member.
LEMMA Least == \A T \in SUBSET Nat : T # {} => \E x \in T : \A y \in T : x <= y
<1> SUFFICES ASSUME NEW T \in SUBSET Nat, T # {}
             PROVE  \E x \in T : \A y \in T : x <= y
  BY Zenon
<1>1. \E x \in T : \A y \in T : ~(<<y, x>> \in OpToRel(<, Nat))
  BY WFMin, NatLessThanWellFounded, Zenon
<1>2. ASSUME NEW x \in T, NEW y \in T, ~(<<y, x>> \in OpToRel(<, Nat))
      PROVE  x <= y
  BY <1>2 DEF OpToRel
<1> QED
  BY <1>1, <1>2, Zenon

\* Where three descriptors are free alloc3_desc takes three different ones.
LEMMA ThreeFree ==
  ASSUME NEW S \in SUBSET Desc, Cardinality(S) >= 3
  PROVE  /\ Nth(S, 1) \in S /\ Nth(S, 2) \in S /\ Nth(S, 3) \in S
         /\ Nth(S, 1) # Nth(S, 2) /\ Nth(S, 1) # Nth(S, 3) /\ Nth(S, 2) # Nth(S, 3)
<1> DEFINE Low(i) == {j \in S : j < i}
<1>0. S \subseteq Nat /\ IsFiniteSet(S) /\ Cardinality(S) \in Nat
  <2>1. IsFiniteSet(0 .. NUM - 1)
    BY FS_Interval, NUMAssumption
  <2>2. IsFiniteSet(S)
    BY <2>1, FS_Subset, Zenon DEF Desc
  <2> QED
    BY <2>2, FS_CardinalityType, NUMAssumption DEF Desc
<1>1. PICK x \in S : \A y \in S : x <= y
  <2>1. S # {}
    BY <1>0, FS_EmptySet
  <2> QED
    BY <1>0, <2>1, Least, Zenon
<1>2. IsFiniteSet(S \ {x}) /\ Cardinality(S \ {x}) = Cardinality(S) - 1
  BY <1>0, FS_RemoveElement, Zenon
<1>3. PICK y \in S \ {x} : \A z \in S \ {x} : y <= z
  <2>1. S \ {x} # {}
    BY <1>0, <1>2, FS_EmptySet
  <2>2. S \ {x} \in SUBSET Nat
    BY <1>0, Zenon
  <2> QED
    BY <2>1, <2>2, Least, Zenon
<1>4. Cardinality((S \ {x}) \ {y}) = (Cardinality(S) - 1) - 1
  BY <1>2, FS_RemoveElement
<1>5. PICK z \in (S \ {x}) \ {y} : \A w \in (S \ {x}) \ {y} : z <= w
  <2>1. (S \ {x}) \ {y} # {}
    BY <1>0, <1>4, FS_EmptySet
  <2>2. (S \ {x}) \ {y} \in SUBSET Nat
    BY <1>0, Zenon
  <2> QED
    BY <2>1, <2>2, Least, Zenon
<1>6. x \in Nat /\ y \in Nat /\ z \in Nat /\ x # y /\ x # z /\ y # z
  BY <1>0, Zenon
<1>7. Low(x) = {} /\ Low(y) = {x} /\ Low(z) = {x} \cup {y}
  <2>1. \A j \in S : j \in Nat /\ (j = x \/ (j # x /\ x <= j /\ y <= j))
    BY <1>0, <1>1, <1>3, Zenon
  <2>2. \A j \in S : j = x \/ j = y \/ z <= j
    BY <1>5, Zenon
  <2>3. x < y /\ y < z
    BY <1>1, <1>3, <1>6
  <2>4. \A j \in S : ~(j < x) /\ (j < y <=> j = x) /\ (j < z <=> j = x \/ j = y)
    BY <1>6, <2>1, <2>2, <2>3
  <2> QED
    BY <1>1, <1>3, <2>4, Zenon
<1>8. Cardinality(Low(x)) = 0 /\ Cardinality(Low(y)) = 1 /\ Cardinality(Low(z)) = 2
  <2>1. IsFiniteSet({x}) /\ Cardinality({x}) = 1
    BY FS_Singleton, Zenon
  <2>2. Cardinality({x} \cup {y}) = Cardinality({x}) + 1
    BY <1>6, <2>1, FS_AddElement, Zenon
  <2> QED
    BY <1>7, <2>1, <2>2, FS_EmptySet
<1>9. /\ Nth(S, 1) \in S /\ Cardinality(Low(Nth(S, 1))) = 1 - 1
      /\ Nth(S, 2) \in S /\ Cardinality(Low(Nth(S, 2))) = 2 - 1
      /\ Nth(S, 3) \in S /\ Cardinality(Low(Nth(S, 3))) = 3 - 1
  <2>1. ASSUME NEW n \in {1, 2, 3} PROVE Nth(S, n) \in S /\ Cardinality(Low(Nth(S, n))) = n - 1
    <3>1. \E i \in S : Cardinality(Low(i)) = n - 1
      <4>1. CASE n = 1
        BY <1>8, <4>1
      <4>2. CASE n = 2
        BY <1>8, <4>2, SMTT(20)
      <4>3. CASE n = 3
        <5>1. 3 - 1 = 2 /\ z \in S
          OBVIOUS
        <5> QED
          BY <1>8, <4>3, <5>1, Zenon
      <4> QED
        BY <4>1, <4>2, <4>3, Zenon
    <3> QED
      BY <3>1, Zenon DEF Nth
  <2> QED
    BY <2>1, Zenon
<1> HIDE DEF Low
<1> QED
  BY <1>9

----------------------------------------------------------------------------
\* Before the first call the invariant holds.
LEMMA InitInv == Init => IInv
<1> SUFFICES ASSUME Init PROVE IInv
  BY Zenon
<1> USE NUMAssumption, LoadAssumption DEF Init
<1>0. InFlight = {}
  BY Zenon DEF InFlight
<1>1. TypeOK
  <2>1. 0 \in Desc
    BY DEF Desc
  <2>2. medium \in [Sectors -> Values]
    BY Zenon
  <2>3. op \in [Callers -> OpType]
    BY Zenon DEF OpType, NoOp
  <2>4. idx \in [Callers -> Desc \X Desc \X Desc]
    BY <2>1, Zenon DEF NoIdx
  <2> QED
    BY <2>1, <2>2, <2>3, <2>4, Zenon DEF TypeOK, NoBuf
<1>2. CallsOK
  BY <1>0, Zenon DEF CallsOK
<1>3. ChainsOK
  BY <1>0 DEF ChainsOK
<1>4. RingsOK
  <2>1. 0 \in Desc
    BY DEF Desc
  <2>2. dev.seen = 0 /\ avail.idx = 0 /\ used_idx = 0 /\ used.id = 0
    OBVIOUS
  <2>3. Between(dev.seen, avail.idx) = {} /\ Between(used_idx, used.id) = {}
    BY <2>1, <2>2, NoneBetween, Zenon
  <2> QED
    BY <1>0, <2>3, Zenon DEF RingsOK, Waits, InAvail, InDev, InUsed
<1>5. SleepOK
  BY Zenon DEF SleepOK, NoMissedWake
<1> QED
  BY <1>1, <1>2, <1>3, <1>4, <1>5, Zenon DEF IInv

\* What the rings hold are heads of chains, so no free descriptor and no other
\* member of a chain.
LEMMA OnlyHeads ==
  ASSUME TypeOK, RingsOK, NEW h \in Desc, InAvail(h) \/ InDev(h) \/ InUsed(h)
  PROVE  info[h].wait = 1 /\ \E c \in InFlight : idx[c][1] = h
BY Zenon DEF RingsOK, Waits

\* The tuple of descriptors of a call
LEMMA IdxType ==
  ASSUME TypeOK, NEW c \in Callers
  PROVE  /\ idx[c][1] \in Desc /\ idx[c][2] \in Desc /\ idx[c][3] \in Desc
         /\ Range3(idx[c]) = {idx[c][1], idx[c][2], idx[c][3]} /\ Range3(idx[c]) \subseteq Desc
BY DEF TypeOK, Range3

\* A chain is published: its head is in no ring yet and avail has room.
LEMMA Published ==
  ASSUME TypeOK, ChainsOK, RingsOK, NEW x \in Desc, NEW y \in Desc, x # y,
         free[x] = 1, free[y] = 1, avail' = publish(avail, x),
         UNCHANGED <<used, used_idx, dev>>,
         \A h \in Desc : Waits(h)' <=> Waits(h) \/ h = x
  PROVE  RingsOK'
<1> DEFINE a == dev.seen
           b == avail.idx
<1>0. a \in Desc /\ b \in Desc /\ avail.ring \in [Desc -> Desc]
  BY Zenon DEF TypeOK
<1>1. \A h \in Desc : InAvail(h) \/ InDev(h) \/ InUsed(h) => free[h] = 0
  <2> SUFFICES ASSUME NEW h \in Desc, InAvail(h) \/ InDev(h) \/ InUsed(h) PROVE free[h] = 0
    BY Zenon
  <2>1. PICK c \in InFlight : idx[c][1] = h
    BY OnlyHeads, Zenon
  <2> QED
    BY <2>1, IdxType, Zenon DEF ChainsOK, ChainOK, InFlight, Range3
<1>2. ~InAvail(x) /\ ~InDev(x) /\ ~InUsed(x) /\ ~InAvail(y)
  BY <1>1
<1>3. Between(a, b) \subseteq Desc /\ \A i \in Between(a, b) : avail.ring[i] # x /\ avail.ring[i] # y
  BY <1>2, Zenon DEF InAvail, Between
<1>4. \A i, j \in Between(a, b) : avail.ring[i] = avail.ring[j] => i = j
  BY Zenon DEF RingsOK
<1>5. Up(b) # a
  <2> DEFINE r == avail.ring
  <2> HIDE DEF a, b, r
  <2>1. r \in [Desc -> Desc] /\ a \in Desc /\ b \in Desc
    BY <1>0, Zenon DEF r
  <2>2. \A i, j \in Between(a, b) : r[i] = r[j] => i = j
    BY <1>4, Zenon DEF r
  <2>3. \A i \in Between(a, b) : r[i] # x /\ r[i] # y
    BY <1>3, Zenon DEF r
  <2> QED
    BY <2>1, <2>2, <2>3, Room
<1>6. b \notin Between(a, b) /\ Between(a, Up(b)) = Between(a, b) \cup {b}
  BY <1>0, <1>5, LastJoins, Zenon
<1>7. dev'.seen = a /\ avail'.idx = Up(b) /\ avail'.ring = [avail.ring EXCEPT ![b] = x]
  BY Zenon DEF publish
<1>8. Between(dev.seen, avail.idx)' = Between(a, b) \cup {b}
  BY <1>6, <1>7, Zenon DEF Between, Desc
<1>9. /\ \A i \in Between(a, b) : avail'.ring[i] = avail.ring[i]
      /\ avail'.ring[b] = x
  BY <1>0, <1>3, <1>6, <1>7, Zenon
<1>10. \A i, j \in Between(dev.seen, avail.idx)' : avail'.ring[i] = avail'.ring[j] => i = j
  BY <1>3, <1>4, <1>8, <1>9
<1>11. \A h \in Desc : InAvail(h)' <=> InAvail(h) \/ h = x
  BY <1>8, <1>9, Zenon DEF InAvail
<1>12. \A h \in Desc : (InDev(h)' <=> InDev(h)) /\ (InUsed(h)' <=> InUsed(h))
  BY Zenon DEF InDev, InUsed, Between
<1>13. \A i, j \in Between(used_idx, used.id)' : used'.ring[i] = used'.ring[j] => i = j
  BY Zenon DEF RingsOK, Between
<1>14. \A h \in Desc : /\ Waits(h)' <=> InAvail(h)' \/ InDev(h)' \/ InUsed(h)'
                       /\ ~(InAvail(h)' /\ InDev(h)') /\ ~(InAvail(h)' /\ InUsed(h)')
                       /\ ~(InDev(h)' /\ InUsed(h)')
  BY <1>2, <1>11, <1>12, Zenon DEF RingsOK
<1> QED
  BY <1>10, <1>13, <1>14, Zenon DEF RingsOK, Desc

\* The device takes the next chain.
LEMMA Taken ==
  ASSUME TypeOK, RingsOK, DevTake
  PROVE  RingsOK'
<1> DEFINE a == dev.seen
           b == avail.idx
           x == avail.ring[a]
<1>0. a \in Desc /\ b \in Desc /\ avail.ring \in [Desc -> Desc] /\ a # b
  BY Zenon DEF TypeOK, DevTake
<1>1. a \in Between(a, b) /\ Between(Up(a), b) = Between(a, b) \ {a} /\ Between(a, b) \subseteq Desc
  BY <1>0, FirstLeaves, Zenon DEF Between
<1>2. /\ dev'.seen = Up(a) /\ avail'.idx = b /\ dev'.work = dev.work \cup {x}
      /\ avail'.ring = [avail.ring EXCEPT ![a] = Gone]
      /\ UNCHANGED <<pc, idx, info, used, used_idx>>
  BY Zenon DEF DevTake, TypeOK
<1>3. Between(dev.seen, avail.idx)' = Between(a, b) \ {a}
  BY <1>1, <1>2, Zenon DEF Between, Desc
<1>4. \A i \in Between(a, b) \ {a} : avail'.ring[i] = avail.ring[i] /\ avail.ring[i] # x
  BY <1>0, <1>1, <1>2, Zenon DEF RingsOK
<1>5. \A i, j \in Between(dev.seen, avail.idx)' : avail'.ring[i] = avail'.ring[j] => i = j
  BY <1>3, <1>4, Zenon DEF RingsOK
<1>6. \A h \in Desc : InAvail(h)' <=> InAvail(h) /\ h # x
  BY <1>1, <1>3, <1>4, Zenon DEF InAvail
<1>7. \A h \in Desc : InDev(h)' <=> InDev(h) \/ h = x
  BY <1>2, Zenon DEF InDev
<1>8. \A h \in Desc : (InUsed(h)' <=> InUsed(h)) /\ (Waits(h)' <=> Waits(h))
  BY <1>2, Zenon DEF InUsed, Between, Waits, InFlight
<1>9. InAvail(x)
  BY <1>1, Zenon DEF InAvail
<1>10. \A i, j \in Between(used_idx, used.id)' : used'.ring[i] = used'.ring[j] => i = j
  BY <1>2, Zenon DEF RingsOK, Between
<1>11. \A h \in Desc : /\ Waits(h)' <=> InAvail(h)' \/ InDev(h)' \/ InUsed(h)'
                       /\ ~(InAvail(h)' /\ InDev(h)') /\ ~(InAvail(h)' /\ InUsed(h)')
                       /\ ~(InDev(h)' /\ InUsed(h)')
  BY <1>6, <1>7, <1>8, <1>9, Zenon DEF RingsOK
<1> QED
  BY <1>5, <1>10, <1>11, Zenon DEF RingsOK, Desc

\* The device completes chain x of a call whose other descriptors are no heads:
\* used has room.
LEMMA Completed ==
  ASSUME TypeOK, ChainsOK, RingsOK, NEW c \in InFlight, NEW x \in Desc, idx[c][1] = x, x \in dev.work,
         dev' = [dev EXCEPT !.work = @ \ {x}],
         used' = [ring |-> [used.ring EXCEPT ![used.id] = x], id |-> Up(used.id)],
         UNCHANGED <<pc, idx, info, avail, used_idx>>
  PROVE  RingsOK'
<1> DEFINE a == used_idx
           b == used.id
           y == idx[c][2]
<1>0. a \in Desc /\ b \in Desc /\ used.ring \in [Desc -> Desc]
  BY Zenon DEF TypeOK
<1>1. c \in Callers /\ y \in Desc /\ x # y
  BY IdxType, Zenon DEF InFlight, ChainsOK, ChainOK
<1>2. ~InUsed(x) /\ ~InAvail(x) /\ InDev(x)
  BY Zenon DEF RingsOK, InDev
<1>3. ~InUsed(y)
  <2> SUFFICES ASSUME InUsed(y) PROVE FALSE
    BY Zenon
  <2>1. PICK e \in InFlight : idx[e][1] = y
    BY <1>1, OnlyHeads, Zenon
  <2>2. y \in Range3(idx[e]) /\ y \in Range3(idx[c])
    BY <2>1, Zenon DEF Range3
  <2> QED
    BY <1>1, <2>1, <2>2, Zenon DEF ChainsOK
<1>4. Between(a, b) \subseteq Desc /\ \A i \in Between(a, b) : used.ring[i] # x /\ used.ring[i] # y
  BY <1>2, <1>3, Zenon DEF InUsed, Between
<1>5. \A i, j \in Between(a, b) : used.ring[i] = used.ring[j] => i = j
  BY Zenon DEF RingsOK
<1>6. Up(b) # a
  <2> DEFINE r == used.ring
  <2> HIDE DEF a, b, r, y
  <2>1. r \in [Desc -> Desc] /\ a \in Desc /\ b \in Desc
    BY <1>0, Zenon DEF r
  <2>2. \A i, j \in Between(a, b) : r[i] = r[j] => i = j
    BY <1>5, Zenon DEF r
  <2>3. \A i \in Between(a, b) : r[i] # x /\ r[i] # y
    BY <1>4, Zenon DEF r
  <2> QED
    BY <1>1, <2>1, <2>2, <2>3, Room
<1>7. b \notin Between(a, b) /\ Between(a, Up(b)) = Between(a, b) \cup {b}
  BY <1>0, <1>6, LastJoins, Zenon
<1>8. /\ used'.id = Up(b) /\ used'.ring = [used.ring EXCEPT ![b] = x]
      /\ dev'.work = dev.work \ {x} /\ dev'.seen = dev.seen
  BY Zenon DEF TypeOK
<1>9. Between(used_idx, used.id)' = Between(a, b) \cup {b}
  BY <1>7, <1>8, Zenon DEF Between, Desc
<1>10. /\ \A i \in Between(a, b) : used'.ring[i] = used.ring[i]
       /\ used'.ring[b] = x
  BY <1>0, <1>4, <1>7, <1>8, Zenon
<1>11. \A i, j \in Between(used_idx, used.id)' : used'.ring[i] = used'.ring[j] => i = j
  BY <1>4, <1>5, <1>9, <1>10
<1>12. \A h \in Desc : InUsed(h)' <=> InUsed(h) \/ h = x
  BY <1>9, <1>10, Zenon DEF InUsed
<1>13. \A h \in Desc : (InDev(h)' <=> InDev(h) /\ h # x) /\ (InAvail(h)' <=> InAvail(h))
  BY <1>8, Zenon DEF InDev, InAvail, Between
<1>14. \A h \in Desc : Waits(h)' <=> Waits(h)
  BY Zenon DEF Waits, InFlight
<1>15. \A i, j \in Between(dev.seen, avail.idx)' : avail'.ring[i] = avail'.ring[j] => i = j
  BY <1>8, Zenon DEF RingsOK, Between
<1>16. \A h \in Desc : /\ Waits(h)' <=> InAvail(h)' \/ InDev(h)' \/ InUsed(h)'
                       /\ ~(InAvail(h)' /\ InDev(h)') /\ ~(InAvail(h)' /\ InUsed(h)')
                       /\ ~(InDev(h)' /\ InUsed(h)')
  BY <1>2, <1>12, <1>13, <1>14, Zenon DEF RingsOK
<1> QED
  BY <1>11, <1>15, <1>16, Zenon DEF RingsOK, Desc

\* handle_intr takes the next entry of used, whose call waits no more.
LEMMA Consumed ==
  ASSUME TypeOK, RingsOK, used_idx # used.id, NEW x \in Desc, x = used.ring[used_idx],
         used_idx' = Up(used_idx), used' = [used EXCEPT !.ring[used_idx] = Gone],
         UNCHANGED <<avail, dev>>,
         \A h \in Desc : Waits(h)' <=> Waits(h) /\ h # x
  PROVE  InUsed(x) /\ RingsOK'
<1> DEFINE a == used_idx
           b == used.id
<1>0. a \in Desc /\ b \in Desc /\ used.ring \in [Desc -> Desc]
  BY Zenon DEF TypeOK
<1>1. a \in Between(a, b) /\ Between(Up(a), b) = Between(a, b) \ {a} /\ Between(a, b) \subseteq Desc
  BY <1>0, FirstLeaves, Zenon DEF Between
<1>2. used'.id = b /\ used'.ring = [used.ring EXCEPT ![a] = Gone]
  BY Zenon DEF TypeOK
<1>3. Between(used_idx, used.id)' = Between(a, b) \ {a}
  BY <1>1, <1>2, Zenon DEF Between, Desc
<1>4. \A i \in Between(a, b) \ {a} : used'.ring[i] = used.ring[i] /\ used.ring[i] # x
  BY <1>0, <1>1, <1>2, Zenon DEF RingsOK
<1>5. \A i, j \in Between(used_idx, used.id)' : used'.ring[i] = used'.ring[j] => i = j
  BY <1>3, <1>4 DEF RingsOK
<1>6. \A h \in Desc : InUsed(h)' <=> InUsed(h) /\ h # x
  BY <1>1, <1>3, <1>4, Zenon DEF InUsed
<1>7. \A h \in Desc : (InDev(h)' <=> InDev(h)) /\ (InAvail(h)' <=> InAvail(h))
  BY Zenon DEF InDev, InAvail, Between
<1>8. InUsed(x)
  BY <1>1, Zenon DEF InUsed
<1>9. \A i, j \in Between(dev.seen, avail.idx)' : avail'.ring[i] = avail'.ring[j] => i = j
  BY Zenon DEF RingsOK, Between
<1>10. \A h \in Desc : /\ Waits(h)' <=> InAvail(h)' \/ InDev(h)' \/ InUsed(h)'
                       /\ ~(InAvail(h)' /\ InDev(h)') /\ ~(InAvail(h)' /\ InUsed(h)')
                       /\ ~(InDev(h)' /\ InUsed(h)')
  BY <1>6, <1>7, <1>8, Zenon DEF RingsOK
<1>11. RingsOK'
  BY <1>5, <1>9, <1>10, Zenon DEF RingsOK, Desc
<1> QED
  BY <1>8, <1>11, Zenon

\* Nothing moves.
LEMMA Still ==
  ASSUME RingsOK, UNCHANGED <<avail, used, used_idx, dev>>,
         \A h \in Desc : Waits(h)' <=> Waits(h)
  PROVE  RingsOK'
<1>1. \A h \in Desc : (InDev(h)' <=> InDev(h)) /\ (InAvail(h)' <=> InAvail(h)) /\ (InUsed(h)' <=> InUsed(h))
  BY Zenon DEF InDev, InAvail, InUsed, Between
<1>2. \A h \in Desc : /\ Waits(h)' <=> InAvail(h)' \/ InDev(h)' \/ InUsed(h)'
                      /\ ~(InAvail(h)' /\ InDev(h)') /\ ~(InAvail(h)' /\ InUsed(h)')
                      /\ ~(InDev(h)' /\ InUsed(h)')
  BY <1>1, Zenon DEF RingsOK
<1>3. /\ \A i, j \in Between(dev.seen, avail.idx)' : avail'.ring[i] = avail'.ring[j] => i = j
      /\ \A i, j \in Between(used_idx, used.id)' : used'.ring[i] = used'.ring[j] => i = j
  BY Zenon DEF RingsOK, Between
<1> QED
  BY <1>2, <1>3, Zenon DEF RingsOK, Desc

----------------------------------------------------------------------------
PcType == {"idle", "descs", "descs_up", "io", "io_up", "spin", "gone"}
Flying == {"io", "io_up", "spin"}

\* The device has performed the operation of c.
Done(c) == c \in InFlight /\ ~InAvail(idx[c][1]) /\ ~InDev(idx[c][1])

\* Nothing that Done looks at changes.
LEMMA SameDone ==
  ASSUME InFlight' = InFlight, UNCHANGED <<idx, avail, dev>>
  PROVE  \A e \in Callers : Done(e)' <=> Done(e)
BY Zenon DEF Done, InAvail, InDev, Between

\* virtio_disk_rw with descriptors.
LEMMA SubmitStep ==
  ASSUME IInv, NEW c \in Callers, c \notin InFlight, NEW o \in OpType, o.sector \in Sectors,
         Submit(c, o)
  PROVE  IInv' /\ ~Done(c)' /\ \A e \in Callers \ {c} : Done(e)' <=> Done(e)
<1> USE NUMAssumption
<1>0. TypeOK /\ CallsOK /\ ChainsOK /\ RingsOK /\ SleepOK
  BY Zenon DEF IInv
<1>1. Cardinality(FreeDescs) >= 3 /\ FreeDescs \in SUBSET Desc
  BY Zenon DEF Submit, FreeDescs
<1>2. PICK x \in FreeDescs, y \in FreeDescs, z \in FreeDescs :
        alloc3 = <<x, y, z>> /\ x # y /\ x # z /\ y # z
  BY <1>1, ThreeFree, Zenon DEF alloc3
<1>3. x \in Desc /\ y \in Desc /\ z \in Desc /\ free[x] = 1 /\ free[y] = 1 /\ free[z] = 1
  BY Zenon DEF FreeDescs
<1>4. /\ op' = [op EXCEPT ![c] = o] /\ idx' = [idx EXCEPT ![c] = <<x, y, z>>]
      /\ free' = [i \in Desc |-> IF i \in {x, y, z} THEN 0 ELSE free[i]]
      /\ desc' = [desc EXCEPT ![x] = [next |-> y, more |-> 1],
                              ![y] = [next |-> z, more |-> 1],
                              ![z] = [next |-> 0, more |-> 0]]
      /\ info' = [info EXCEPT ![x] = [b |-> c, wait |-> 1]]
      /\ avail' = publish(avail, x)
      /\ pc' = [pc EXCEPT ![c] = IF c = Boot THEN "spin" ELSE "io"]
      /\ UNCHANGED <<used, used_idx, dev, isr, intr, medium>>
  <2> DEFINE d == alloc3
  <2>1. d[1] = x /\ d[2] = y /\ d[3] = z /\ d = <<x, y, z>>
    BY <1>2, Zenon
  <2>2. /\ op' = [op EXCEPT ![c] = o] /\ idx' = [idx EXCEPT ![c] = d]
        /\ free' = [i \in Desc |-> IF i \in {d[1], d[2], d[3]} THEN 0 ELSE free[i]]
        /\ desc' = [desc EXCEPT ![d[1]] = [next |-> d[2], more |-> 1],
                                ![d[2]] = [next |-> d[3], more |-> 1],
                                ![d[3]] = [next |-> 0, more |-> 0]]
        /\ info' = [info EXCEPT ![d[1]] = [b |-> c, wait |-> 1]]
        /\ avail' = publish(avail, d[1])
        /\ pc' = [pc EXCEPT ![c] = IF c = Boot THEN "spin" ELSE "io"]
        /\ UNCHANGED <<used, used_idx, dev, isr, intr, medium>>
    BY Zenon DEF Submit
  <2> HIDE DEF d
  <2> QED
    BY <2>1, <2>2, Zenon
<1>5. /\ pc'[c] \in {"spin", "io"} /\ \A e \in Callers \ {c} : pc'[e] = pc[e] /\ idx'[e] = idx[e]
      /\ idx'[c] = <<x, y, z>> /\ pc' \in [Callers -> PcType]
  BY <1>0, <1>4, Zenon DEF TypeOK, PcType
<1>6. /\ \A i \in Desc \ {x, y, z} : free'[i] = free[i] /\ desc'[i] = desc[i]
      /\ \A i \in {x, y, z} : free'[i] = 0
      /\ desc'[x] = [next |-> y, more |-> 1] /\ desc'[y] = [next |-> z, more |-> 1]
      /\ desc'[z] = [next |-> 0, more |-> 0]
  BY <1>0, <1>2, <1>3, <1>4, Zenon DEF TypeOK
<1>7. \A i \in Desc \ {x} : info'[i] = info[i]
  BY <1>0, <1>3, <1>4, Zenon DEF TypeOK
<1>8. info'[x] = [b |-> c, wait |-> 1]
  BY <1>0, <1>3, <1>4, Zenon DEF TypeOK
<1>9. InFlight' = InFlight \cup {c}
  BY <1>5, Zenon DEF InFlight
<1>10. TypeOK'
  <2>1. op' \in [Callers -> OpType] /\ idx' \in [Callers -> Desc \X Desc \X Desc]
    <3>1. <<x, y, z>> \in Desc \X Desc \X Desc
      BY <1>3, Zenon
    <3> QED
      BY <1>0, <1>4, <3>1, Zenon DEF TypeOK
  <2>2. free' \in [Desc -> {0, 1}]
    BY <1>0, <1>4, Zenon DEF TypeOK
  <2>3. desc' \in [Desc -> [next : Desc, more : {0, 1}]]
    <3>1. 0 \in Desc
      BY DEF Desc
    <3>2. DOMAIN desc' = Desc /\ desc' = [i \in Desc |-> desc'[i]]
      BY <1>0, <1>4, Zenon DEF TypeOK
    <3>3. \A i \in Desc : desc'[i] \in [next : Desc, more : {0, 1}]
      <4>1. \A i \in Desc \ {x, y, z} : desc'[i] \in [next : Desc, more : {0, 1}]
        BY <1>0, <1>6, Zenon DEF TypeOK
      <4>2. \A i \in {x, y, z} : desc'[i] \in [next : Desc, more : {0, 1}]
        <5>1. [next |-> y, more |-> 1] \in [next : Desc, more : {0, 1}]
          BY <1>3, Zenon
        <5>2. [next |-> z, more |-> 1] \in [next : Desc, more : {0, 1}]
          BY <1>3, Zenon
        <5>3. [next |-> 0, more |-> 0] \in [next : Desc, more : {0, 1}]
          BY <3>1, Zenon
        <5> QED
          BY <1>6, <5>1, <5>2, <5>3, Zenon
      <4> QED
        BY <4>1, <4>2, Zenon
    <3> QED
      BY <3>2, <3>3, Zenon
  <2>4. info' \in [Desc -> [b : Callers \cup {NoBuf}, wait : {0, 1}]]
    BY <1>0, <1>4, Zenon DEF TypeOK
  <2>5. avail' \in [ring : [Desc -> Desc], idx : Desc]
    <3>1. avail.idx \in Desc /\ Up(avail.idx) \in Desc /\ avail.ring \in [Desc -> Desc]
      BY <1>0, UpIs, Zenon DEF TypeOK
    <3> QED
      BY <1>3, <1>4, <3>1, Zenon DEF publish
  <2> QED
    BY <1>0, <1>4, <1>5, <2>1, <2>2, <2>3, <2>4, <2>5, Zenon DEF TypeOK, PcType
<1>11. CallsOK'
  <2> SUFFICES ASSUME NEW e \in Callers
               PROVE  /\ pc'[e] \notin {"idle", "gone"} => op'[e].sector \in Sectors
                      /\ e \notin InFlight' => idx'[e] = NoIdx
    BY Zenon DEF CallsOK
  <2>1. CASE e = c
    BY <1>0, <1>4, <1>9, <2>1, Zenon DEF TypeOK
  <2>2. CASE e # c
    BY <1>0, <1>4, <1>5, <1>9, <2>2, Zenon DEF TypeOK, CallsOK
  <2> QED
    BY <2>1, <2>2, Zenon
<1>12. \A e \in InFlight : e # c /\ \A i \in Range3(idx[e]) : i \in Desc /\ i \notin {x, y, z}
  <2> SUFFICES ASSUME NEW e \in InFlight
               PROVE  \A i \in Range3(idx[e]) : i \in Desc /\ i \notin {x, y, z}
    BY Zenon
  <2>1. e \in Callers /\ ChainOK(e)
    BY <1>0, Zenon DEF InFlight, ChainsOK
  <2>2. Range3(idx[e]) \subseteq Desc
    BY <1>0, <2>1, IdxType, Zenon
  <2> QED
    BY <1>3, <2>1, <2>2, Zenon DEF ChainOK
<1>13. ChainsOK'
  <2>1. ASSUME NEW e \in InFlight PROVE ChainOK(e)'
    <3>1. ChainOK(e) /\ idx'[e] = idx[e] /\ e \in Callers
      BY <1>0, <1>5, <1>12, Zenon DEF ChainsOK, InFlight
    <3>2. {idx[e][1], idx[e][2], idx[e][3]} \subseteq Desc \ {x, y, z}
      BY <1>12, Zenon DEF Range3
    <3>3. \A i \in {idx[e][1], idx[e][2], idx[e][3]} :
            free'[i] = free[i] /\ desc'[i] = desc[i] /\ info'[i] = info[i]
      BY <1>6, <1>7, <3>2, Zenon
    <3> QED
      BY <3>1, <3>3, Zenon DEF ChainOK, Range3
  <2>2. ChainOK(c)'
    <3>1. idx'[c][1] = x /\ idx'[c][2] = y /\ idx'[c][3] = z
      BY <1>5
    <3> QED
      BY <1>2, <1>6, <1>8, <3>1 DEF ChainOK, Range3
  <2>3. \A e \in InFlight : Range3(idx'[e]) = Range3(idx[e])
    BY <1>5, <1>12, Zenon DEF InFlight
  <2>4. Range3(idx'[c]) = {x, y, z}
    BY <1>5 DEF Range3
  <2>5. \A e, f \in InFlight' : \A i \in Range3(idx'[e]) : i \in Range3(idx'[f]) => e = f
    BY <1>0, <1>9, <1>12, <2>3, <2>4, Zenon DEF ChainsOK
  <2>6. \A i \in Desc : free'[i] = 0 => \E e \in InFlight' : i \in Range3(idx'[e])
    BY <1>0, <1>6, <1>9, <2>3, <2>4, Zenon DEF ChainsOK
  <2>7. \A e \in InFlight' : ChainOK(e)'
    BY <1>9, <2>1, <2>2, Zenon
  <2> QED
    BY <2>5, <2>6, <2>7, Zenon DEF ChainsOK, Desc, Range3
<1>14. \A h \in Desc : Waits(h)' <=> Waits(h) \/ h = x
  <2> SUFFICES ASSUME NEW h \in Desc
               PROVE  (info'[h].wait = 1 /\ \E e \in InFlight' : idx'[e][1] = h) <=> Waits(h) \/ h = x
    BY Zenon DEF Waits
  <2>1. CASE h = x
    <3>1. idx'[c][1] = x /\ info'[x].wait = 1 /\ c \in InFlight'
      BY <1>5, <1>8, <1>9
    <3> QED
      BY <2>1, <3>1, Zenon
  <2>2. CASE h # x
    <3>1. info'[h] = info[h] /\ idx'[c][1] # h /\ \A e \in InFlight : idx'[e] = idx[e]
      BY <1>5, <1>7, <1>12, <2>2 DEF InFlight
    <3> QED
      BY <1>9, <2>2, <3>1, Zenon DEF Waits
  <2> QED
    BY <2>1, <2>2, Zenon
<1>15. RingsOK'
  BY <1>0, <1>2, <1>3, <1>4, <1>14, Published, Zenon
<1>16. SleepOK'
  <2>1. \A e \in Callers : pc[e] # "descs"
    <3>1. Cardinality(FreeDescs) \in Nat
      <4>1. IsFiniteSet(0 .. NUM - 1)
        BY FS_Interval
      <4> QED
        BY <1>1, <4>1, FS_Subset, FS_CardinalityType, Zenon DEF Desc
    <3> QED
      BY <1>0, <1>1, <3>1 DEF SleepOK
  <2>2. \A e \in Callers : pc'[e] # "descs"
    BY <1>5, <2>1, Zenon
  <2>3. ASSUME NEW e \in Callers, pc'[e] = "io" PROVE info'[idx'[e][1]].wait = 1
    <3>1. CASE e = c
      BY <1>5, <1>8, <3>1
    <3>2. CASE e # c
      <4>1. pc[e] = "io" /\ idx'[e] = idx[e] /\ e \in InFlight
        BY <1>5, <2>3, <3>2, Zenon DEF InFlight
      <4>2. idx[e][1] \in Desc \ {x}
        BY <1>12, <4>1, Zenon DEF Range3
      <4> QED
        BY <1>0, <1>7, <4>1, <4>2 DEF SleepOK, NoMissedWake
    <3> QED
      BY <3>1, <3>2, Zenon
  <2> QED
    BY <2>2, <2>3, Zenon DEF SleepOK, NoMissedWake
<1>17. \A h \in Desc : (InDev(h)' <=> InDev(h)) /\ (InUsed(h)' <=> InUsed(h))
  BY <1>4, Zenon DEF InDev, InUsed, Between
<1>18. ~Waits(x)
  BY <1>12, Zenon DEF Waits, Range3
<1>19. ~Done(c)'
  <2>1. InAvail(x)'
    BY <1>0, <1>3, <1>14, <1>15, <1>17, <1>18, Zenon DEF RingsOK
  <2>2. idx'[c][1] = x
    BY <1>5
  <2> QED
    BY <2>1, <2>2, Zenon DEF Done, InAvail
<1>20. ASSUME NEW e \in Callers \ {c} PROVE Done(e)' <=> Done(e)
  <2>1. CASE e \notin InFlight
    BY <1>9, <2>1, Zenon DEF Done
  <2>2. CASE e \in InFlight
    <3>1. PICK h \in Desc : h = idx[e][1] /\ h # x
      BY <1>12, <2>2, Zenon DEF Range3
    <3>2. idx'[e] = idx[e] /\ e \in InFlight'
      BY <1>5, <1>9, <2>2, Zenon
    <3>3. InAvail(h)' <=> InAvail(h)
      BY <1>0, <1>14, <1>15, <1>17, <3>1, Zenon DEF RingsOK
    <3>4. Done(e)' <=> ~InAvail(h)' /\ ~InDev(h)'
      BY <3>1, <3>2, Zenon DEF Done, InAvail, InDev
    <3> QED
      BY <1>17, <2>2, <3>1, <3>3, <3>4, Zenon DEF Done
  <2> QED
    BY <2>1, <2>2, Zenon
<1> QED
  BY <1>10, <1>11, <1>13, <1>15, <1>16, <1>19, <1>20, Zenon DEF IInv

\* Nobody gets or gives back descriptors.
LEMMA SameChains ==
  ASSUME TypeOK, ChainsOK, UNCHANGED <<idx, free, desc>>, InFlight' = InFlight,
         \A i \in Desc : info'[i].b = info[i].b
  PROVE  ChainsOK'
<1>1. ASSUME NEW c \in InFlight PROVE ChainOK(c)'
  <2>1. c \in Callers /\ ChainOK(c)
    BY Zenon DEF ChainsOK, InFlight
  <2>2. idx[c][1] \in Desc
    BY <2>1, IdxType, Zenon
  <2> QED
    BY <2>1, <2>2, Zenon DEF ChainOK, Range3
<1>2. \A c, d \in InFlight : \A i \in Range3(idx'[c]) : i \in Range3(idx'[d]) => c = d
  BY Zenon DEF ChainsOK
<1>3. \A i \in Desc : free'[i] = 0 => \E c \in InFlight : i \in Range3(idx'[c])
  BY Zenon DEF ChainsOK
<1> QED
  BY <1>1, <1>2, <1>3, Zenon DEF ChainsOK, Range3, Desc

\* virtio_disk_rw without descriptors.
LEMMA NoDescsStep ==
  ASSUME IInv, NEW c \in Callers, c \notin InFlight, NEW o \in OpType, o.sector \in Sectors,
         NoDescs(c, o)
  PROVE  IInv'
<1>0. TypeOK /\ CallsOK /\ ChainsOK /\ RingsOK /\ SleepOK
  BY Zenon DEF IInv
<1>1. /\ op' = [op EXCEPT ![c] = o] /\ Cardinality(FreeDescs) < 3
      /\ UNCHANGED <<idx, free, desc, info, avail, used, used_idx, dev, isr, intr, medium>>
  BY Zenon DEF NoDescs, ring
<1>2. /\ pc'[c] = "descs" /\ pc' \in [Callers -> PcType]
      /\ \A e \in Callers \ {c} : pc'[e] = pc[e] \/ (pc[e] = "descs" /\ pc'[e] = "descs_up")
  <2>1. pc \in [Callers -> PcType] /\ WakeDescs(pc) \in [Callers -> PcType]
    BY <1>0, Zenon DEF TypeOK, PcType, WakeDescs, Wake
  <2>2. \A e \in Callers : WakeDescs(pc)[e] = IF pc[e] = "descs" THEN "descs_up" ELSE pc[e]
    BY Zenon DEF WakeDescs, Wake
  <2>3. pc' = [pc EXCEPT ![c] = "descs"] \/ pc' = [WakeDescs(pc) EXCEPT ![c] = "descs"]
    BY Zenon DEF NoDescs
  <2> QED
    BY <2>1, <2>2, <2>3, Zenon DEF PcType
<1>3. InFlight' = InFlight
  BY <1>2, Zenon DEF InFlight
<1>4. TypeOK'
  <2>1. op' \in [Callers -> OpType]
    BY <1>0, <1>1, Zenon DEF TypeOK
  <2> QED
    BY <1>0, <1>1, <1>2, <2>1, Zenon DEF TypeOK, PcType
<1>5. CallsOK'
  <2> SUFFICES ASSUME NEW e \in Callers
               PROVE  /\ pc'[e] \notin {"idle", "gone"} => op'[e].sector \in Sectors
                      /\ e \notin InFlight => idx[e] = NoIdx
    BY <1>1, <1>3, Zenon DEF CallsOK
  <2>1. op'[c] = o /\ \A f \in Callers \ {c} : op'[f] = op[f]
    BY <1>0, <1>1, Zenon DEF TypeOK
  <2> QED
    BY <1>0, <1>2, <2>1, Zenon DEF CallsOK
<1>6. ChainsOK'
  BY <1>0, <1>1, <1>3, SameChains, Zenon
<1>7. RingsOK'
  <2>1. \A h \in Desc : Waits(h)' <=> Waits(h)
    BY <1>1, <1>3, Zenon DEF Waits
  <2> QED
    BY <1>0, <1>1, <2>1, Still, Zenon
<1>8. SleepOK'
  <2>1. FreeDescs' = FreeDescs
    BY <1>1, Zenon DEF FreeDescs
  <2>2. \A e \in Callers : pc'[e] = "io" => pc[e] = "io"
    BY <1>2, Zenon
  <2> QED
    BY <1>0, <1>1, <2>1, <2>2, Zenon DEF SleepOK, NoMissedWake
<1> QED
  BY <1>4, <1>5, <1>6, <1>7, <1>8, Zenon DEF IInv

\* The operation is over.
LEMMA FinishStep ==
  ASSUME IInv, NEW c \in InFlight, Finish(c)
  PROVE  IInv' /\ Done(c) /\ \A e \in Callers \ {c} : Done(e)' <=> Done(e)
<1>0. TypeOK /\ CallsOK /\ ChainsOK /\ RingsOK /\ SleepOK /\ c \in Callers /\ ChainOK(c)
  BY Zenon DEF IInv, InFlight, ChainsOK
<1>1. PICK x \in Desc, y \in Desc, z \in Desc : idx[c] = <<x, y, z>>
  BY <1>0 DEF TypeOK
<1>2. idx[c][1] = x /\ idx[c][2] = y /\ idx[c][3] = z
  BY <1>1
<1>3. Chain(x) = {x, y, z} /\ Range3(idx[c]) = {x, y, z}
  BY <1>0, <1>2, Zenon DEF ChainOK, Chain, Range3
<1>4. /\ info[x].wait = 0 /\ info' = [info EXCEPT ![x].b = NoBuf]
      /\ free' = [i \in Desc |-> IF i \in {x, y, z} THEN 1 ELSE free[i]]
      /\ pc' = [WakeDescs(pc) EXCEPT ![c] = IF c = Boot THEN "gone" ELSE "idle"]
      /\ op' = [op EXCEPT ![c] = NoOp] /\ idx' = [idx EXCEPT ![c] = NoIdx]
      /\ UNCHANGED <<desc, avail, used, used_idx, dev, isr, intr, medium>>
  BY <1>2, <1>3, Zenon DEF Finish, over, ring
<1>5. /\ pc'[c] \in {"gone", "idle"} /\ pc' \in [Callers -> PcType]
      /\ \A e \in Callers \ {c} : pc'[e] = IF pc[e] = "descs" THEN "descs_up" ELSE pc[e]
  <2>1. WakeDescs(pc) \in [Callers -> PcType]
    BY <1>0, Zenon DEF TypeOK, PcType, WakeDescs, Wake
  <2>2. \A e \in Callers : WakeDescs(pc)[e] = IF pc[e] = "descs" THEN "descs_up" ELSE pc[e]
    BY Zenon DEF WakeDescs, Wake
  <2> QED
    BY <1>0, <1>4, <2>1, <2>2, Zenon DEF PcType
<1>6. InFlight' = InFlight \ {c}
  <2>1. \A e \in Callers : pc'[e] \in Flying <=> pc[e] \in Flying /\ e # c
    BY <1>5, Zenon DEF Flying
  <2> QED
    BY <2>1, Zenon DEF InFlight, Flying
<1>7. /\ \A e \in Callers \ {c} : idx'[e] = idx[e] /\ op'[e] = op[e]
      /\ idx'[c] = NoIdx /\ op'[c] = NoOp
  BY <1>0, <1>4, Zenon DEF TypeOK
<1>8. /\ \A i \in Desc \ {x} : info'[i] = info[i]
      /\ \A i \in Desc : info'[i].wait = info[i].wait
      /\ \A i \in Desc \ {x, y, z} : free'[i] = free[i]
  BY <1>0, <1>4 DEF TypeOK
<1>9. TypeOK'
  <2>1. op' \in [Callers -> OpType]
    <3>1. NoOp \in OpType
      BY LoadAssumption, Zenon DEF NoOp, OpType
    <3> QED
      BY <1>0, <1>4, <3>1, Zenon DEF TypeOK
  <2>2. idx' \in [Callers -> Desc \X Desc \X Desc]
    <3>1. NoIdx \in Desc \X Desc \X Desc
      BY NUMAssumption DEF NoIdx, Desc
    <3> QED
      BY <1>0, <1>4, <3>1, Zenon DEF TypeOK
  <2>3. info' \in [Desc -> [b : Callers \cup {NoBuf}, wait : {0, 1}]]
    BY <1>0, <1>4 DEF TypeOK
  <2>4. free' \in [Desc -> {0, 1}]
    BY <1>0, <1>4, Zenon DEF TypeOK
  <2> QED
    BY <1>0, <1>4, <1>5, <2>1, <2>2, <2>3, <2>4, Zenon DEF TypeOK, PcType
<1>10. CallsOK'
  BY <1>0, <1>5, <1>6, <1>7, Zenon DEF CallsOK
<1>11. \A e \in InFlight \ {c} : \A i \in Range3(idx[e]) : i \in Desc /\ i \notin {x, y, z}
  <2> SUFFICES ASSUME NEW e \in InFlight \ {c}, NEW i \in Range3(idx[e])
               PROVE  i \in Desc /\ i \notin Range3(idx[c])
    BY <1>3, Zenon
  <2>1. i \in Desc
    BY <1>0, IdxType, Zenon DEF InFlight
  <2> QED
    BY <1>0, <2>1, Zenon DEF ChainsOK
<1>12. ChainsOK'
  <2>1. ASSUME NEW e \in InFlight \ {c} PROVE ChainOK(e)'
    <3>1. ChainOK(e) /\ idx'[e] = idx[e] /\ e \in Callers
      BY <1>0, <1>7, Zenon DEF ChainsOK, InFlight
    <3>2. {idx[e][1], idx[e][2], idx[e][3]} \subseteq Desc \ {x, y, z}
      BY <1>11, Zenon DEF Range3
    <3>3. \A i \in {idx[e][1], idx[e][2], idx[e][3]} :
            free'[i] = free[i] /\ desc'[i] = desc[i] /\ info'[i] = info[i]
      BY <1>4, <1>8, <3>2, Zenon
    <3> QED
      BY <3>1, <3>3, Zenon DEF ChainOK, Range3
  <2>2. \A e \in InFlight \ {c} : Range3(idx'[e]) = Range3(idx[e])
    BY <1>7, Zenon DEF InFlight
  <2>3. \A e, f \in InFlight' : \A i \in Range3(idx'[e]) : i \in Range3(idx'[f]) => e = f
    BY <1>0, <1>6, <2>2, Zenon DEF ChainsOK
  <2>4. ASSUME NEW i \in Desc, free'[i] = 0 PROVE \E e \in InFlight' : i \in Range3(idx'[e])
    <3>1. i \notin {x, y, z} /\ free[i] = 0
      BY <1>4, <2>4
    <3>2. PICK e \in InFlight : i \in Range3(idx[e])
      BY <1>0, <3>1, Zenon DEF ChainsOK
    <3>3. e # c
      BY <1>3, <3>1, <3>2, Zenon
    <3> QED
      BY <1>6, <2>2, <3>2, <3>3, Zenon
  <2>5. \A e \in InFlight' : ChainOK(e)'
    BY <1>6, <2>1, Zenon
  <2> QED
    BY <2>3, <2>4, <2>5, Zenon DEF ChainsOK, Desc, Range3
<1>13. RingsOK'
  <2>1. ASSUME NEW h \in Desc
        PROVE  (info'[h].wait = 1 /\ \E e \in InFlight' : idx'[e][1] = h) <=> Waits(h)
    <3>1. CASE h = x
      BY <1>4, <1>8, <3>1 DEF Waits
    <3>2. CASE h # x
      <4>1. \A e \in InFlight \ {c} : idx'[e] = idx[e]
        BY <1>7, Zenon DEF InFlight
      <4> QED
        BY <1>2, <1>6, <1>8, <3>2, <4>1, Zenon DEF Waits
    <3> QED
      BY <3>1, <3>2, Zenon
  <2>2. \A h \in Desc : Waits(h)' <=> Waits(h)
    BY <2>1, Zenon DEF Waits
  <2>3. UNCHANGED <<avail, used, used_idx, dev>>
    BY <1>4, Zenon
  <2> QED
    BY <1>0, <2>2, <2>3, Still, Zenon
<1>14. SleepOK'
  <2>1. \A e \in Callers : pc'[e] # "descs"
    BY <1>5, Zenon
  <2>2. ASSUME NEW e \in Callers, pc'[e] = "io" PROVE info'[idx'[e][1]].wait = 1
    <3>1. e # c /\ pc[e] = "io" /\ idx'[e] = idx[e] /\ idx[e][1] \in Desc
      BY <1>0, <1>5, <1>7, <2>2, IdxType, Zenon
    <3> QED
      BY <1>0, <1>8, <3>1, Zenon DEF SleepOK, NoMissedWake
  <2> QED
    BY <2>1, <2>2, Zenon DEF SleepOK, NoMissedWake
<1>15. Done(c)
  <2>1. ~Waits(x)
    BY <1>4 DEF Waits
  <2> QED
    BY <1>0, <1>2, <2>1, Zenon DEF Done, RingsOK
<1>16. ASSUME NEW e \in Callers \ {c} PROVE Done(e)' <=> Done(e)
  BY <1>4, <1>6, <1>7, Zenon DEF Done, InAvail, InDev, Between
<1> QED
  BY <1>9, <1>10, <1>12, <1>13, <1>14, <1>15, <1>16, Zenon DEF IInv

\* Woken, or back from wfi, before the operation is over.
LEMMA AgainStep ==
  ASSUME IInv, NEW c \in InFlight, ~over(c),
         pc' = [pc EXCEPT ![c] = IF c = Boot THEN "spin" ELSE "io"],
         UNCHANGED <<op, idx, free, desc, info>>, UNCHANGED ring
  PROVE  IInv'
<1>0. TypeOK /\ CallsOK /\ ChainsOK /\ RingsOK /\ SleepOK /\ c \in Callers
  BY Zenon DEF IInv, InFlight
<1>1. UNCHANGED <<op, idx, free, desc, info, avail, used, used_idx, dev, isr, intr, medium>>
  BY Zenon DEF ring
<1>2. /\ pc'[c] \in {"spin", "io"} /\ pc' \in [Callers -> PcType]
      /\ \A e \in Callers \ {c} : pc'[e] = pc[e]
  BY <1>0, Zenon DEF TypeOK, PcType
<1>3. InFlight' = InFlight
  BY <1>2, Zenon DEF InFlight
<1>4. TypeOK'
  BY <1>0, <1>1, <1>2, Zenon DEF TypeOK, PcType
<1>5. CallsOK'
  <2>1. pc[c] \notin {"idle", "gone"}
    BY Zenon DEF InFlight
  <2> QED
    BY <1>0, <1>1, <1>2, <1>3, <2>1, Zenon DEF CallsOK
<1>6. ChainsOK'
  BY <1>0, <1>1, <1>3, SameChains, Zenon
<1>7. RingsOK'
  <2>1. \A h \in Desc : Waits(h)' <=> Waits(h)
    BY <1>1, <1>3, Zenon DEF Waits
  <2> QED
    BY <1>0, <1>1, <2>1, Still, Zenon
<1>8. SleepOK'
  <2>1. FreeDescs' = FreeDescs
    BY <1>1, Zenon DEF FreeDescs
  <2>2. info[idx[c][1]].wait = 1
    BY <1>0, IdxType, Zenon DEF over, TypeOK
  <2>3. NoMissedWake'
    BY <1>0, <1>1, <1>2, <2>2, Zenon DEF SleepOK, NoMissedWake
  <2> QED
    BY <1>0, <1>2, <2>1, <2>3, Zenon DEF SleepOK
<1> QED
  BY <1>4, <1>5, <1>6, <1>7, <1>8, Zenon DEF IInv

\* handle_intr enters, leaves its loop or acknowledges.
LEMMA QuietStep ==
  ASSUME IInv, isr' \in {0, 1}, intr' \in {"off", "loop", "ack"},
         UNCHANGED <<pc, op, idx, free, desc, info, avail, used, used_idx, dev, medium>>
  PROVE  IInv'
<1>0. TypeOK /\ CallsOK /\ ChainsOK /\ RingsOK /\ SleepOK
  BY Zenon DEF IInv
<1>1. InFlight' = InFlight /\ FreeDescs' = FreeDescs
  BY Zenon DEF InFlight, FreeDescs
<1>2. TypeOK'
  BY <1>0, Zenon DEF TypeOK
<1>3. CallsOK'
  BY <1>0, <1>1, Zenon DEF CallsOK
<1>4. ChainsOK'
  BY <1>0, <1>1, SameChains, Zenon
<1>5. RingsOK'
  <2>1. \A h \in Desc : Waits(h)' <=> Waits(h)
    BY <1>1, Zenon DEF Waits
  <2> QED
    BY <1>0, <2>1, Still, Zenon
<1>6. SleepOK'
  BY <1>0, <1>1, Zenon DEF SleepOK, NoMissedWake
<1> QED
  BY <1>2, <1>3, <1>4, <1>5, <1>6, Zenon DEF IInv

\* handle_intr looks at one used entry.
LEMMA UsedStep ==
  ASSUME IInv, IntrUsed
  PROVE  IInv'
<1>0. TypeOK /\ CallsOK /\ ChainsOK /\ RingsOK /\ SleepOK
  BY Zenon DEF IInv
<1>1. PICK x \in Desc : x = used.ring[used_idx]
  BY <1>0, Zenon DEF TypeOK
<1>2. /\ used_idx # used.id /\ info' = [info EXCEPT ![x].wait = 0]
      /\ pc' = Wake(pc, "io", "io_up", {info[x].b})
      /\ used_idx' = Up(used_idx) /\ used' = [used EXCEPT !.ring[used_idx] = Gone]
      /\ UNCHANGED <<op, idx, free, desc, avail, dev, isr, intr, medium>>
  BY <1>1, Zenon DEF IntrUsed, More
<1>3. /\ pc' \in [Callers -> PcType]
      /\ \A e \in Callers : pc'[e] = IF e = info[x].b /\ pc[e] = "io" THEN "io_up" ELSE pc[e]
  BY <1>0, <1>2, Zenon DEF TypeOK, PcType, Wake
<1>4. InFlight' = InFlight
  BY <1>3, Zenon DEF InFlight
<1>5. /\ \A i \in Desc : info'[i].b = info[i].b
      /\ \A i \in Desc \ {x} : info'[i] = info[i]
      /\ info'[x].wait = 0 /\ info' \in [Desc -> [b : Callers \cup {NoBuf}, wait : {0, 1}]]
  <2> DEFINE r == [info[x] EXCEPT !.wait = 0]
  <2>1. info \in [Desc -> [b : Callers \cup {NoBuf}, wait : {0, 1}]]
    BY <1>0, Zenon DEF TypeOK
  <2>2. info' = [info EXCEPT ![x] = r]
    BY <1>2, Zenon
  <2>3. r \in [b : Callers \cup {NoBuf}, wait : {0, 1}] /\ r.wait = 0 /\ r.b = info[x].b
    BY <2>1, Zenon
  <2> HIDE DEF r
  <2> QED
    BY <2>1, <2>2, <2>3, Zenon
<1>6. \A h \in Desc : Waits(h)' <=> Waits(h) /\ h # x
  BY <1>2, <1>4, <1>5 DEF Waits
<1>7. UNCHANGED <<avail, dev>>
  BY <1>2, Zenon
<1>8. InUsed(x) /\ RingsOK'
  BY <1>0, <1>1, <1>2, <1>6, <1>7, Consumed, Zenon
<1>9. PICK c \in InFlight : idx[c][1] = x
  BY <1>0, <1>8, OnlyHeads, Zenon
<1>10. TypeOK'
  <2>1. used_idx' \in Desc
    BY <1>0, <1>2, UpIs, Zenon DEF TypeOK
  <2>2. used' \in [ring : [Desc -> Desc], id : Desc]
    <3>1. Gone \in Desc
      BY NUMAssumption DEF Gone, Desc
    <3>2. used_idx \in Desc /\ used \in [ring : [Desc -> Desc], id : Desc]
      BY <1>0, Zenon DEF TypeOK
    <3>3. [used.ring EXCEPT ![used_idx] = Gone] \in [Desc -> Desc]
      BY <3>1, <3>2, Zenon
    <3>4. used' = [used EXCEPT !.ring = [used.ring EXCEPT ![used_idx] = Gone]]
      BY <1>2, Zenon
    <3> QED
      BY <3>2, <3>3, <3>4, Zenon
  <2> QED
    BY <1>0, <1>2, <1>3, <1>5, <2>1, <2>2, Zenon DEF TypeOK, PcType
<1>11. CallsOK'
  BY <1>0, <1>2, <1>3, <1>4, Zenon DEF CallsOK
<1>12. ChainsOK'
  BY <1>0, <1>2, <1>4, <1>5, SameChains, Zenon
<1>13. SleepOK'
  <2>1. ASSUME NEW e \in Callers, pc'[e] = "io" PROVE info'[idx'[e][1]].wait = 1
    <3>1. pc[e] = "io" /\ e # info[x].b /\ idx[e][1] \in Desc /\ e \in InFlight
      BY <1>0, <1>3, <2>1, IdxType, Zenon DEF InFlight
    <3>2. info[x].b = c
      BY <1>0, <1>9, Zenon DEF ChainsOK, ChainOK
    <3>3. idx[e][1] # x
      BY <1>0, <1>9, <3>1, <3>2, Zenon DEF ChainsOK, Range3
    <3> QED
      BY <1>0, <1>2, <1>5, <3>1, <3>3, Zenon DEF SleepOK, NoMissedWake
  <2>2. FreeDescs' = FreeDescs
    BY <1>2, Zenon DEF FreeDescs
  <2>3. \A e \in Callers : pc'[e] = "descs" => pc[e] = "descs"
    BY <1>3, Zenon
  <2> QED
    BY <1>0, <2>1, <2>2, <2>3, Zenon DEF SleepOK, NoMissedWake
<1> QED
  BY <1>8, <1>10, <1>11, <1>12, <1>13, Zenon DEF IInv

\* The device takes a chain.
LEMMA TakeStep ==
  ASSUME IInv, DevTake
  PROVE  IInv'
<1>0. TypeOK /\ CallsOK /\ ChainsOK /\ RingsOK /\ SleepOK
  BY Zenon DEF IInv
<1>1. /\ dev' = [seen |-> Up(dev.seen), work |-> dev.work \cup {avail.ring[dev.seen]}]
      /\ avail' = [avail EXCEPT !.ring[dev.seen] = Gone]
      /\ UNCHANGED <<pc, op, idx, free, desc, info, used, used_idx, isr, intr, medium>>
  BY Zenon DEF DevTake
<1>2. InFlight' = InFlight /\ FreeDescs' = FreeDescs
  BY <1>1, Zenon DEF InFlight, FreeDescs
<1>3. TypeOK'
  <2>1. dev' \in [seen : Desc, work : SUBSET Desc]
    BY <1>0, <1>1, UpIs DEF TypeOK
  <2>2. avail' \in [ring : [Desc -> Desc], idx : Desc]
    <3>1. Gone \in Desc
      BY NUMAssumption DEF Gone, Desc
    <3>2. dev.seen \in Desc /\ avail \in [ring : [Desc -> Desc], idx : Desc]
      BY <1>0, Zenon DEF TypeOK
    <3>3. [avail.ring EXCEPT ![dev.seen] = Gone] \in [Desc -> Desc]
      BY <3>1, <3>2, Zenon
    <3>4. avail' = [avail EXCEPT !.ring = [avail.ring EXCEPT ![dev.seen] = Gone]]
      BY <1>1, Zenon
    <3> QED
      BY <3>2, <3>3, <3>4, Zenon
  <2> QED
    BY <1>0, <1>1, <2>1, <2>2, Zenon DEF TypeOK
<1>4. CallsOK'
  BY <1>0, <1>1, <1>2, Zenon DEF CallsOK
<1>5. ChainsOK'
  BY <1>0, <1>1, <1>2, SameChains, Zenon
<1>6. SleepOK'
  BY <1>0, <1>1, <1>2, Zenon DEF SleepOK, NoMissedWake
<1> QED
  BY <1>0, <1>3, <1>4, <1>5, <1>6, Taken, Zenon DEF IInv

\* The device completes the operation of a call.
LEMMA DoneStep ==
  ASSUME IInv, NEW c \in Callers, DevDone(c)
  PROVE  IInv' /\ c \in InFlight /\ idx[c][1] \in dev.work
<1>0. TypeOK /\ CallsOK /\ ChainsOK /\ RingsOK /\ SleepOK
  BY Zenon DEF IInv
<1>1. PICK x \in dev.work :
      /\ idx[c] # NoIdx /\ idx[c][1] = x
      /\ IF op[c].write = 1
         THEN medium' = [medium EXCEPT ![op[c].sector] = op[c].data] /\ UNCHANGED op
         ELSE op' = [op EXCEPT ![c].data = medium[op[c].sector]] /\ UNCHANGED medium
      /\ dev' = [dev EXCEPT !.work = @ \ {x}]
      /\ used' = [ring |-> [used.ring EXCEPT ![used.id] = x], id |-> Up(used.id)]
      /\ isr' = 1
      /\ UNCHANGED <<pc, idx, free, desc, info, avail, used_idx, intr>>
  BY Zenon DEF DevDone
<1>2. c \in InFlight /\ x \in Desc
  BY <1>0, <1>1, Zenon DEF CallsOK, TypeOK
<1>3. op[c] \in OpType /\ op[c].sector \in Sectors /\ op[c].data \in Values
  BY <1>0, <1>2, Zenon DEF CallsOK, InFlight, TypeOK, OpType
<1>4. medium' \in [Sectors -> Values] /\ op' \in [Callers -> OpType]
      /\ \A e \in Callers : op'[e].sector = op[e].sector
  <2>1. CASE op[c].write = 1
    BY <1>0, <1>1, <1>3, <2>1, Zenon DEF TypeOK
  <2>2. CASE op[c].write # 1
    <3> DEFINE o == [op[c] EXCEPT !.data = medium[op[c].sector]]
    <3>1. medium[op[c].sector] \in Values
      BY <1>0, <1>3, Zenon DEF TypeOK
    <3>2. o \in OpType /\ o.sector = op[c].sector
      BY <1>3, <3>1, Zenon DEF OpType
    <3>3. op' = [op EXCEPT ![c] = o] /\ medium' = medium
      BY <1>1, <2>2, Zenon
    <3> HIDE DEF o
    <3> QED
      BY <1>0, <3>2, <3>3, Zenon DEF TypeOK
  <2> QED
    BY <2>1, <2>2, Zenon
<1>5. InFlight' = InFlight /\ FreeDescs' = FreeDescs
  BY <1>1, Zenon DEF InFlight, FreeDescs
<1>6. TypeOK'
  <2>1. dev' \in [seen : Desc, work : SUBSET Desc]
    BY <1>0, <1>1, Zenon DEF TypeOK
  <2>2. used' \in [ring : [Desc -> Desc], id : Desc]
    BY <1>0, <1>1, <1>2, UpIs, Zenon DEF TypeOK
  <2> QED
    BY <1>0, <1>1, <1>4, <2>1, <2>2, Zenon DEF TypeOK
<1>7. CallsOK'
  BY <1>0, <1>1, <1>4, <1>5, Zenon DEF CallsOK
<1>8. ChainsOK'
  BY <1>0, <1>1, <1>5, SameChains, Zenon
<1>9. RingsOK'
  BY <1>0, <1>1, <1>2, Completed, Zenon
<1>10. SleepOK'
  BY <1>0, <1>1, <1>5, Zenon DEF SleepOK, NoMissedWake
<1> QED
  BY <1>1, <1>2, <1>6, <1>7, <1>8, <1>9, <1>10, Zenon DEF IInv

----------------------------------------------------------------------------
\* The inductive invariant: IInv, under one of the loads.
Inv == IInv /\ load \in Loads

\* What a new call asks for is an operation.
LEMMA NewOp ==
  ASSUME load \in Loads, NEW s \in Sectors, NEW w \in load.writes, NEW v \in load.values
  PROVE  [sector |-> s, write |-> w, data |-> IF w = 1 THEN v ELSE NoOp.data] \in OpType
BY LoadAssumption, Zenon DEF OpType, NoOp

\* Every step keeps the invariant.
LEMMA StepInv == Inv /\ [Next]_vars => Inv'
<1> SUFFICES ASSUME Inv, [Next]_vars PROVE Inv'
  BY Zenon
<1>0. IInv /\ TypeOK /\ CallsOK /\ load \in Loads
  BY Zenon DEF Inv, IInv
<1>1. ASSUME NEW c \in Callers, virtio_disk_rw(c), UNCHANGED load PROVE Inv'
  <2>1. PICK s \in Sectors, w \in load.writes, v \in load.values :
          LET o == [sector |-> s, write |-> w, data |-> IF w = 1 THEN v ELSE NoOp.data]
          IN MayCall(c) /\ (Submit(c, o) \/ NoDescs(c, o))
    BY <1>1, Zenon DEF virtio_disk_rw
  <2> DEFINE o == [sector |-> s, write |-> w, data |-> IF w = 1 THEN v ELSE NoOp.data]
  <2>2. o \in OpType /\ o.sector \in Sectors
    BY <1>0, NewOp, Zenon
  <2>3. c \notin InFlight /\ (Submit(c, o) \/ NoDescs(c, o))
    BY <2>1, Zenon DEF MayCall, InFlight
  <2> HIDE DEF o
  <2> QED
    BY <1>0, <1>1, <2>2, <2>3, SubmitStep, NoDescsStep, Zenon DEF Inv
<1>2. ASSUME NEW c \in Callers, Retry(c), UNCHANGED load PROVE Inv'
  <2>1. c \notin InFlight /\ op[c] \in OpType /\ op[c].sector \in Sectors
    BY <1>0, <1>2, Zenon DEF Retry, InFlight, CallsOK, TypeOK
  <2> QED
    BY <1>0, <1>2, <2>1, SubmitStep, NoDescsStep, Zenon DEF Inv, Retry
<1>3. ASSUME NEW c \in Callers, Check(c), UNCHANGED load PROVE Inv'
  <2>1. c \in InFlight
    BY <1>3, Zenon DEF Check, InFlight
  <2> QED
    BY <1>0, <1>3, <2>1, FinishStep, AgainStep, Zenon DEF Inv, Check
<1>4. ASSUME NEW c \in Callers, DevDone(c), UNCHANGED load PROVE Inv'
  BY <1>0, <1>4, DoneStep, Zenon DEF Inv
<1>5. ASSUME IntrEnter \/ IntrEmpty \/ IntrAck, UNCHANGED load PROVE Inv'
  <2>1. isr' \in {0, 1} /\ intr' \in {"off", "loop", "ack"}
    BY <1>0, <1>5, Zenon DEF IntrEnter, IntrEmpty, IntrAck, TypeOK
  <2>2. UNCHANGED <<pc, op, idx, free, desc, info, avail, used, used_idx, dev, medium>>
    BY <1>5, Zenon DEF IntrEnter, IntrEmpty, IntrAck
  <2> QED
    BY <1>0, <1>5, <2>1, <2>2, QuietStep, Zenon DEF Inv
<1>6. ASSUME IntrUsed, UNCHANGED load PROVE Inv'
  BY <1>0, <1>6, UsedStep, Zenon DEF Inv
<1>7. ASSUME DevTake, UNCHANGED load PROVE Inv'
  BY <1>0, <1>7, TakeStep, Zenon DEF Inv
<1>8. CASE UNCHANGED vars
  <2>1. isr' \in {0, 1} /\ intr' \in {"off", "loop", "ack"} /\ UNCHANGED load
    BY <1>0, <1>8, Zenon DEF vars, disk, TypeOK
  <2>2. UNCHANGED <<pc, op, idx, free, desc, info, avail, used, used_idx, dev, medium>>
    BY <1>8, Zenon DEF vars, disk
  <2> QED
    BY <1>0, <2>1, <2>2, QuietStep, Zenon DEF Inv
<1> QED
  BY <1>1, <1>2, <1>3, <1>4, <1>5, <1>6, <1>7, <1>8, Zenon DEF Next, Interrupt

\* The inductive invariant holds in every behaviour of driver and device.
THEOREM Invariance == Spec => []Inv
<1>1. Init => Inv
  BY InitInv, Zenon DEF Inv, Init
<1> QED
  BY <1>1, StepInv, PTL DEF Spec

\* A head is in as many places as a call waits for it.
LEMMA PlacesCount ==
  ASSUME IInv, NEW c \in InFlight
  PROVE  Cardinality(Places(idx[c][1])) = info[idx[c][1]].wait
<1>0. TypeOK /\ RingsOK
  BY Zenon DEF IInv
<1>1. PICK h \in Desc : h = idx[c][1]
  BY <1>0, IdxType, Zenon DEF InFlight
<1> DEFINE A == Between(dev.seen, avail.idx)
           U == Between(used_idx, used.id)
<1>2. Waits(h) <=> info[h].wait = 1
  BY <1>1, Zenon DEF Waits
<1>3. Cardinality({}) = 0 /\ \A y : Cardinality({y}) = 1
  BY FS_EmptySet, FS_Singleton, Zenon
<1>4. CASE InAvail(h)
  <2>1. PICK i \in A : avail.ring[i] = h
    BY <1>4, Zenon DEF InAvail
  <2>2. {j \in A : avail.ring[j] = h} = {i} /\ dev.work \cap {h} = {} /\ {j \in U : used.ring[j] = h} = {}
    BY <1>0, <1>4, <2>1 DEF RingsOK, InDev, InUsed
  <2> HIDE DEF A, U
  <2>3. Places(h) = {<<"avail", i>>}
    BY <2>2, Zenon DEF Places, A, U
  <2> QED
    BY <1>0, <1>1, <1>2, <1>3, <1>4, <2>3, Zenon DEF RingsOK
<1>5. CASE InDev(h)
  <2>1. {j \in A : avail.ring[j] = h} = {} /\ dev.work \cap {h} = {h} /\ {j \in U : used.ring[j] = h} = {}
    BY <1>0, <1>5 DEF RingsOK, InAvail, InDev, InUsed
  <2> HIDE DEF A, U
  <2>2. Places(h) = {<<"dev", h>>}
    BY <2>1, Zenon DEF Places, A, U
  <2> QED
    BY <1>0, <1>1, <1>2, <1>3, <1>5, <2>2, Zenon DEF RingsOK
<1>6. CASE InUsed(h)
  <2>1. PICK i \in U : used.ring[i] = h
    BY <1>6, Zenon DEF InUsed
  <2>2. {j \in A : avail.ring[j] = h} = {} /\ dev.work \cap {h} = {} /\ {j \in U : used.ring[j] = h} = {i}
    BY <1>0, <1>6, <2>1, Zenon DEF RingsOK, InDev, InAvail
  <2> HIDE DEF A, U
  <2>3. Places(h) = {<<"used", i>>}
    BY <2>2, Zenon DEF Places, A, U
  <2> QED
    BY <1>0, <1>1, <1>2, <1>3, <1>6, <2>3, Zenon DEF RingsOK
<1>7. CASE ~InAvail(h) /\ ~InDev(h) /\ ~InUsed(h)
  <2>1. {j \in A : avail.ring[j] = h} = {} /\ dev.work \cap {h} = {} /\ {j \in U : used.ring[j] = h} = {}
    BY <1>7, Zenon DEF InAvail, InDev, InUsed
  <2> HIDE DEF A, U
  <2>2. Places(h) = {}
    BY <2>1, Zenon DEF Places, A, U
  <2>3. info[h].wait = 0
    BY <1>0, <1>2, <1>7, Zenon DEF RingsOK, TypeOK
  <2> QED
    BY <1>1, <1>3, <2>2, <2>3, Zenon
<1> QED
  BY <1>4, <1>5, <1>6, <1>7, Zenon

\* Three different things are three.
LEMMA Three ==
  ASSUME NEW x, NEW y, NEW z, x # y, x # z, y # z
  PROVE  Cardinality({x, y, z}) = 3
<1>1. IsFiniteSet({z}) /\ Cardinality({z}) = 1
  BY FS_Singleton, Zenon
<1>2. IsFiniteSet({z} \cup {y}) /\ Cardinality({z} \cup {y}) = 1 + 1
  BY <1>1, FS_AddElement, Zenon
<1>3. Cardinality(({z} \cup {y}) \cup {x}) = 1 + 1 + 1
  BY <1>2, FS_AddElement, Zenon
<1>4. ({z} \cup {y}) \cup {x} = {x, y, z}
  BY Zenon
<1> QED
  BY <1>3, <1>4

\* At every moment the descriptors in use are the chains of the calls in
\* flight, three each, and each call's request is in exactly one place from
\* virtio_disk_rw to handle_intr, for any queue size and number of callers.
THEOREM AlwaysTracked == Spec => []Tracked
<1>1. ASSUME Inv PROVE Tracked
  <2>0. IInv /\ TypeOK /\ ChainsOK
    BY <1>1, Zenon DEF Inv, IInv
  <2>1. \A c \in InFlight : c \in Callers /\ ChainOK(c) /\ Range3(idx[c]) \subseteq Desc
    BY <2>0, IdxType, Zenon DEF InFlight, ChainsOK
  <2>2. {i \in Desc : free[i] = 0} = UNION {Range3(idx[c]) : c \in InFlight}
    <3>1. \A c \in InFlight : \A i \in Range3(idx[c]) : i \in Desc /\ free[i] = 0
      BY <2>1, Zenon DEF ChainOK
    <3>2. \A i \in Desc : free[i] = 0 => \E c \in InFlight : i \in Range3(idx[c])
      BY <2>0, Zenon DEF ChainsOK
    <3> QED
      BY <3>1, <3>2, Zenon
  <2>3. ASSUME NEW c \in InFlight
        PROVE  /\ Chain(idx[c][1]) = Range3(idx[c]) /\ Cardinality(Range3(idx[c])) = 3
               /\ info[idx[c][1]].b = c
    <3>0. ChainOK(c)
      BY <2>1, Zenon
    <3>1. Chain(idx[c][1]) = Range3(idx[c]) /\ info[idx[c][1]].b = c
      BY <3>0, Zenon DEF ChainOK, Chain, Range3
    <3>2. idx[c][1] # idx[c][2] /\ idx[c][1] # idx[c][3] /\ idx[c][2] # idx[c][3]
      BY <2>1, Zenon DEF ChainOK
    <3>3. Cardinality({idx[c][1], idx[c][2], idx[c][3]}) = 3
      BY <3>2, Three, Zenon
    <3> QED
      BY <3>1, <3>3, Zenon DEF Range3
  <2>4. \A c, d \in InFlight : c # d => Range3(idx[c]) \cap Range3(idx[d]) = {}
    BY <2>0, Zenon DEF ChainsOK
  <2>5. OnePlace
    BY <2>0, PlacesCount, Zenon DEF OnePlace
  <2> QED
    BY <2>0, <2>2, <2>3, <2>4, <2>5, Zenon DEF Tracked, ChainsOwned
<1> QED
  BY <1>1, Invariance, PTL

\* At no moment is a sleeper of virtio_disk_rw forgotten: neither one whose
\* operation handle_intr has seen complete, nor one for whom there are
\* descriptors.
THEOREM NeverSleeperLeft == Spec => []NoSleeperLeft
<1>1. Inv => NoSleeperLeft
  BY Zenon DEF Inv, IInv, SleepOK, NoSleeperLeft, DescsWake
<1> QED
  BY <1>1, Invariance, PTL

----------------------------------------------------------------------------
(* Driver and device implement a BlockDevice.                              *)

Idle(c) == pc[c] \in {"idle", "gone"}
Bar == [c \in Callers |-> Seen(c)]

\* A request that is in no place before used has been performed.
LEMMA PerformedIs == \A c : (Performed(c) <=> Done(c)) /\ (Performed(c)' <=> Done(c)')
<1> SUFFICES ASSUME NEW c PROVE (Performed(c) <=> Done(c)) /\ (Performed(c)' <=> Done(c)')
  BY Zenon
<1>1. Performed(c) <=> Done(c)
  <2> DEFINE h == idx[c][1]
             A == {j \in Between(dev.seen, avail.idx) : avail.ring[j] = h}
             W == dev.work \cap {h}
             U == {j \in Between(used_idx, used.id) : used.ring[j] = h}
  <2>1. Done(c) <=> c \in InFlight /\ A = {} /\ W = {}
    BY Zenon DEF Done, InAvail, InDev
  <2>2. Performed(c) <=> c \in InFlight /\ \A x \in Places(h) : x[1] = "used"
    BY Zenon DEF Performed
  <2>3. Places(h) = {<<"avail", i>> : i \in A} \cup {<<"dev", i>> : i \in W} \cup {<<"used", i>> : i \in U}
    BY Zenon DEF Places
  <2> HIDE DEF h, A, W, U
  <2>4. A # {} => \E x \in Places(h) : x[1] # "used"
    <3> SUFFICES ASSUME NEW i \in A PROVE \E x \in Places(h) : x[1] # "used"
      BY Zenon
    <3>1. <<"avail", i>> \in Places(h) /\ <<"avail", i>>[1] = "avail"
      BY <2>3, Zenon
    <3> QED
      BY <3>1, Zenon
  <2>5. W # {} => \E x \in Places(h) : x[1] # "used"
    <3> SUFFICES ASSUME NEW i \in W PROVE \E x \in Places(h) : x[1] # "used"
      BY Zenon
    <3>1. <<"dev", i>> \in Places(h) /\ <<"dev", i>>[1] = "dev"
      BY <2>3, Zenon
    <3> QED
      BY <3>1, Zenon
  <2>6. A = {} /\ W = {} => \A x \in Places(h) : x[1] = "used"
    BY <2>3
  <2> QED
    BY <2>1, <2>2, <2>4, <2>5, <2>6, Zenon
<1>2. Performed(c)' <=> Done(c)'
  <2> DEFINE h == idx'[c][1]
             A == {j \in Between(dev'.seen, avail'.idx) : avail'.ring[j] = h}
             W == dev'.work \cap {h}
             U == {j \in Between(used_idx', used'.id) : used'.ring[j] = h}
  <2>1. Done(c)' <=> c \in InFlight' /\ A = {} /\ W = {}
    BY Zenon DEF Done, InAvail, InDev
  <2>2. Performed(c)' <=> c \in InFlight' /\ \A x \in Places(idx[c][1])' : x[1] = "used"
    BY Zenon DEF Performed
  <2>3. Places(idx[c][1])' = {<<"avail", i>> : i \in A} \cup {<<"dev", i>> : i \in W}
                             \cup {<<"used", i>> : i \in U}
    BY Zenon DEF Places
  <2> HIDE DEF h, A, W, U
  <2>4. A # {} => \E x \in Places(idx[c][1])' : x[1] # "used"
    <3> SUFFICES ASSUME NEW i \in A PROVE \E x \in Places(idx[c][1])' : x[1] # "used"
      BY Zenon
    <3>1. <<"avail", i>> \in Places(idx[c][1])' /\ <<"avail", i>>[1] = "avail"
      BY <2>3, Zenon
    <3> QED
      BY <3>1, Zenon
  <2>5. W # {} => \E x \in Places(idx[c][1])' : x[1] # "used"
    <3> SUFFICES ASSUME NEW i \in W PROVE \E x \in Places(idx[c][1])' : x[1] # "used"
      BY Zenon
    <3>1. <<"dev", i>> \in Places(idx[c][1])' /\ <<"dev", i>>[1] = "dev"
      BY <2>3, Zenon
    <3> QED
      BY <3>1, Zenon
  <2>6. A = {} /\ W = {} => \A x \in Places(idx[c][1])' : x[1] = "used"
    BY <2>3
  <2> QED
    BY <2>1, <2>2, <2>4, <2>5, <2>6, Zenon
<1> QED
  BY <1>1, <1>2, Zenon

\* A call seen from outside, before and after a step.
LEMMA SeenIs ==
  ASSUME NEW c \in Callers
  PROVE  /\ Seen(c) = IF Idle(c) THEN [at |-> "idle"]
                      ELSE [at |-> IF Done(c) THEN "done" ELSE "asked", sector |-> op[c].sector,
                            write |-> op[c].write, data |-> op[c].data]
         /\ Seen(c)' = IF Idle(c)' THEN [at |-> "idle"]
                       ELSE [at |-> IF Done(c)' THEN "done" ELSE "asked", sector |-> op'[c].sector,
                             write |-> op'[c].write, data |-> op'[c].data]
<1>1. (Performed(c) <=> Done(c)) /\ (Performed(c)' <=> Done(c)')
  BY PerformedIs, Zenon
<1>2. (Done(c) => ~Idle(c)) /\ (Done(c)' => ~Idle(c)')
  BY Zenon DEF Done, Idle, InFlight
<1>3. Seen(c) = IF Idle(c) THEN [at |-> "idle"]
                ELSE [at |-> IF Done(c) THEN "done" ELSE "asked", sector |-> op[c].sector,
                      write |-> op[c].write, data |-> op[c].data]
  BY <1>1, <1>2, Zenon DEF Seen, Idle
<1>4. Seen(c)' = IF Idle(c)' THEN [at |-> "idle"]
                 ELSE [at |-> IF Done(c)' THEN "done" ELSE "asked", sector |-> op'[c].sector,
                       write |-> op'[c].write, data |-> op'[c].data]
  BY <1>1, <1>2, Zenon DEF Seen, Idle
<1> QED
  BY <1>3, <1>4, Zenon

\* A step that is about c changes what is seen of c only.
LEMMA OneBar ==
  ASSUME NEW c \in Callers,
         \A e \in Callers \ {c} : (Idle(e)' <=> Idle(e)) /\ op'[e] = op[e] /\ (Done(e)' <=> Done(e))
  PROVE  /\ Bar' = [Bar EXCEPT ![c] = Seen(c)'] /\ Bar[c] = Seen(c)
<1>1. \A e \in Callers \ {c} : Seen(e)' = Seen(e)
  BY SeenIs, Zenon
<1> QED
  BY <1>1, Zenon DEF Bar

\* A step that changes nothing one sees stutters.
LEMMA SameBar ==
  ASSUME \A e \in Callers : (Idle(e)' <=> Idle(e)) /\ op'[e] = op[e] /\ (Done(e)' <=> Done(e))
  PROVE  Bar' = Bar
<1>1. \A e \in Callers : Seen(e)' = Seen(e)
  BY SeenIs, Zenon
<1> QED
  BY <1>1, Zenon DEF Bar

\* Published or asleep for descriptors, c has asked for o.
LEMMA AskSeen ==
  ASSUME IInv, NEW c \in Callers, c \notin InFlight, NEW o \in OpType, o.sector \in Sectors,
         Submit(c, o) \/ NoDescs(c, o)
  PROVE  /\ \A e \in Callers \ {c} : (Idle(e)' <=> Idle(e)) /\ op'[e] = op[e] /\ (Done(e)' <=> Done(e))
         /\ ~Idle(c)' /\ op'[c] = o /\ ~Done(c)' /\ medium' = medium
<1>0. TypeOK
  BY Zenon DEF IInv
<1>1. op' = [op EXCEPT ![c] = o] /\ medium' = medium
  BY Zenon DEF Submit, NoDescs, ring
<1>2. op'[c] = o /\ \A e \in Callers \ {c} : op'[e] = op[e]
  BY <1>0, <1>1, Zenon DEF TypeOK
<1>3. CASE Submit(c, o)
  <2>1. pc' = [pc EXCEPT ![c] = IF c = Boot THEN "spin" ELSE "io"]
    BY <1>3, Zenon DEF Submit
  <2>2. ~Idle(c)' /\ \A e \in Callers \ {c} : Idle(e)' <=> Idle(e)
    BY <1>0, <2>1, Zenon DEF TypeOK, Idle
  <2> QED
    BY <1>1, <1>2, <1>3, <2>2, SubmitStep, Zenon
<1>4. CASE NoDescs(c, o)
  <2>1. pc' = [pc EXCEPT ![c] = "descs"] \/ pc' = [WakeDescs(pc) EXCEPT ![c] = "descs"]
    BY <1>4, Zenon DEF NoDescs
  <2>2. pc'[c] = "descs" /\ \A e \in Callers \ {c} : pc'[e] = pc[e] \/ (pc[e] = "descs" /\ pc'[e] = "descs_up")
    BY <1>0, <2>1, Zenon DEF WakeDescs, Wake, TypeOK
  <2>3. InFlight' = InFlight /\ ~Idle(c)' /\ \A e \in Callers \ {c} : Idle(e)' <=> Idle(e)
    BY <2>2, Zenon DEF InFlight, Idle
  <2>4. UNCHANGED <<idx, avail, dev>>
    BY <1>4, Zenon DEF NoDescs, ring
  <2>5. \A e \in Callers : Done(e)' <=> Done(e)
    BY <2>3, <2>4, SameDone, Zenon
  <2> QED
    BY <1>1, <1>2, <2>3, <2>5, Zenon DEF Done
<1> QED
  BY <1>3, <1>4, Zenon

\* virtio_disk_rw is the call.
LEMMA RwInvokes ==
  ASSUME Inv, NEW c \in Callers, virtio_disk_rw(c)
  PROVE  Dev!Invoke(c)
<1>0. IInv /\ load \in Loads
  BY Zenon DEF Inv
<1>1. PICK s \in Sectors, w \in load.writes, v \in load.values :
        LET o == [sector |-> s, write |-> w, data |-> IF w = 1 THEN v ELSE NoOp.data]
        IN MayCall(c) /\ (Submit(c, o) \/ NoDescs(c, o))
  BY Zenon DEF virtio_disk_rw
<1> DEFINE o == [sector |-> s, write |-> w, data |-> IF w = 1 THEN v ELSE NoOp.data]
<1>2. o \in OpType /\ o.sector \in Sectors
  BY <1>0, NewOp, Zenon
<1>3. c \notin InFlight /\ Idle(c) /\ (Submit(c, o) \/ NoDescs(c, o))
  BY <1>1, Zenon DEF MayCall, InFlight, Idle
<1> HIDE DEF o
<1>4. /\ \A e \in Callers \ {c} : (Idle(e)' <=> Idle(e)) /\ op'[e] = op[e] /\ (Done(e)' <=> Done(e))
      /\ ~Idle(c)' /\ op'[c] = o /\ ~Done(c)' /\ medium' = medium
  BY <1>0, <1>2, <1>3, AskSeen, Zenon
<1>5. Bar' = [Bar EXCEPT ![c] = Seen(c)'] /\ Bar[c] = Seen(c)
  BY <1>4, OneBar, Zenon
<1>6. Seen(c) = [at |-> "idle"]
      /\ Seen(c)' = [at |-> "asked", sector |-> o.sector, write |-> o.write, data |-> o.data]
  BY <1>3, <1>4, SeenIs, Zenon
<1>7. o.write \in {0, 1} /\ o.data \in Values
  BY <1>2, Zenon DEF OpType
<1>8. Bar[c] = Dev!NoCall /\ Bar' = [Bar EXCEPT ![c] = Dev!Call("asked", o.sector, o.write, o.data)]
  BY <1>5, <1>6, Zenon DEF Dev!Call, Dev!NoCall
<1>9. \E a \in Sectors, b \in {0, 1}, d \in Values :
        Bar[c] = Dev!NoCall /\ Bar' = [Bar EXCEPT ![c] = Dev!Call("asked", a, b, d)] /\ UNCHANGED medium
  BY <1>2, <1>4, <1>7, <1>8, Zenon
<1> QED
  BY <1>9, Zenon DEF Dev!Invoke, Bar

\* Trying again for descriptors is not seen.
LEMMA RetryStutters ==
  ASSUME Inv, NEW c \in Callers, Retry(c)
  PROVE  UNCHANGED <<medium, Bar>>
<1>0. IInv /\ TypeOK /\ CallsOK
  BY Zenon DEF Inv, IInv
<1>1. c \notin InFlight /\ ~Idle(c) /\ op[c] \in OpType /\ op[c].sector \in Sectors
      /\ (Submit(c, op[c]) \/ NoDescs(c, op[c]))
  BY <1>0, Zenon DEF Retry, InFlight, Idle, CallsOK, TypeOK
<1>2. /\ \A e \in Callers \ {c} : (Idle(e)' <=> Idle(e)) /\ op'[e] = op[e] /\ (Done(e)' <=> Done(e))
      /\ ~Idle(c)' /\ op'[c] = op[c] /\ ~Done(c)' /\ medium' = medium
  BY <1>0, <1>1, AskSeen, Zenon
<1>3. ~Done(c)
  BY <1>1, Zenon DEF Done
<1> QED
  BY <1>1, <1>2, <1>3, SameBar, Zenon

\* The end of virtio_disk_rw is the return; looking at wait in vain is not seen.
LEMMA CheckReturns ==
  ASSUME Inv, NEW c \in Callers, Check(c)
  PROVE  Dev!Return(c) \/ UNCHANGED <<medium, Bar>>
<1>0. IInv /\ TypeOK
  BY Zenon DEF Inv, IInv
<1>1. c \in InFlight /\ ~Idle(c)
  BY Zenon DEF Check, InFlight, Idle
<1>2. CASE Finish(c)
  <2>1. /\ pc' = [WakeDescs(pc) EXCEPT ![c] = IF c = Boot THEN "gone" ELSE "idle"]
        /\ op' = [op EXCEPT ![c] = NoOp] /\ medium' = medium
    BY <1>2, Zenon DEF Finish, ring
  <2>2. /\ Idle(c)' /\ \A e \in Callers \ {c} : Idle(e)' <=> Idle(e)
        /\ \A e \in Callers \ {c} : op'[e] = op[e]
    BY <1>0, <2>1, Zenon DEF TypeOK, WakeDescs, Wake, Idle
  <2>3. Done(c) /\ \A e \in Callers \ {c} : Done(e)' <=> Done(e)
    BY <1>0, <1>1, <1>2, FinishStep, Zenon
  <2>4. Bar' = [Bar EXCEPT ![c] = Seen(c)'] /\ Bar[c] = Seen(c)
    BY <2>2, <2>3, OneBar, Zenon
  <2>5. Seen(c).at = "done" /\ Seen(c)' = [at |-> "idle"]
    BY <1>1, <2>2, <2>3, SeenIs
  <2> QED
    BY <2>1, <2>4, <2>5, Zenon DEF Dev!Return, Dev!NoCall, Bar
<1>3. CASE ~Finish(c)
  <2>1. /\ pc' = [pc EXCEPT ![c] = IF c = Boot THEN "spin" ELSE "io"]
        /\ UNCHANGED <<op, idx, avail, dev, medium>>
    BY <1>3, Zenon DEF Check, ring
  <2>2. pc'[c] \in {"spin", "io"} /\ \A e \in Callers \ {c} : pc'[e] = pc[e]
    BY <1>0, <2>1, Zenon DEF TypeOK
  <2>3. InFlight' = InFlight /\ \A e \in Callers : Idle(e)' <=> Idle(e)
    BY <1>1, <2>2, Zenon DEF InFlight, Idle
  <2>4. \A e \in Callers : Done(e)' <=> Done(e)
    BY <2>1, <2>3, SameDone, Zenon
  <2> QED
    BY <2>1, <2>3, <2>4, SameBar, Zenon
<1> QED
  BY <1>2, <1>3, Zenon

\* What Perform writes into the record of a call.
MarkDone(r)    == [r EXCEPT !.at = "done"]
MarkRead(r, d) == [[r EXCEPT !.at = "done"] EXCEPT !.data = d]

\* The record of a call that has asked becomes that of one performed.
LEMMA DoneRecord ==
  ASSUME NEW s, NEW w, NEW v, NEW d
  PROVE  /\ MarkDone(Dev!Call("asked", s, w, v)) = Dev!Call("done", s, w, v)
         /\ MarkRead(Dev!Call("asked", s, w, v), d) = Dev!Call("done", s, w, d)
<1> DEFINE r == Dev!Call("asked", s, w, v)
           q == MarkDone(r)
           t == MarkRead(r, d)
<1>1. r \in [at : {"asked"}, sector : {s}, write : {w}, data : {v}]
  BY Zenon DEF Dev!Call
<1> HIDE DEF r
<1>2. q \in [at : {"done"}, sector : {s}, write : {w}, data : {v}]
  BY <1>1, Zenon DEF MarkDone
<1>3. t = [q EXCEPT !.data = d]
  BY Zenon DEF MarkDone, MarkRead
<1> HIDE DEF q, t
<1>4. t \in [at : {"done"}, sector : {s}, write : {w}, data : {d}]
  BY <1>2, <1>3, Zenon
<1>5. q = [at |-> "done", sector |-> s, write |-> w, data |-> v]
  BY <1>2, Zenon
<1>6. t = [at |-> "done", sector |-> s, write |-> w, data |-> d]
  BY <1>4, Zenon
<1> QED
  BY <1>5, <1>6, Zenon DEF q, r, t, Dev!Call

\* The completion by the device is the moment the call takes effect.
LEMMA DonePerforms ==
  ASSUME Inv, NEW c \in Callers, DevDone(c)
  PROVE  Dev!Perform(c)
<1>0. IInv /\ TypeOK /\ CallsOK /\ ChainsOK /\ RingsOK
  BY Zenon DEF Inv, IInv
<1>1. c \in InFlight /\ ~Idle(c)
  BY <1>0, DoneStep, Zenon DEF InFlight, Idle
<1>2. PICK x \in dev.work :
      /\ idx[c][1] = x
      /\ IF op[c].write = 1
         THEN medium' = [medium EXCEPT ![op[c].sector] = op[c].data] /\ UNCHANGED op
         ELSE op' = [op EXCEPT ![c].data = medium[op[c].sector]] /\ UNCHANGED medium
      /\ dev' = [dev EXCEPT !.work = @ \ {x}]
      /\ UNCHANGED <<pc, idx, avail>>
  BY Zenon DEF DevDone
<1>3. x \in Desc /\ InDev(x) /\ ~InAvail(x) /\ ~Done(c)
  BY <1>0, <1>2, Zenon DEF TypeOK, RingsOK, InDev, Done
<1>4. InFlight' = InFlight /\ \A e \in Callers : Idle(e)' <=> Idle(e)
  BY <1>2, Zenon DEF InFlight, Idle
<1>5. \A h \in Desc : (InAvail(h)' <=> InAvail(h)) /\ (InDev(h)' <=> InDev(h) /\ h # x)
  <2>1. dev'.seen = dev.seen /\ dev'.work = dev.work \ {x}
    BY <1>0, <1>2, Zenon DEF TypeOK
  <2> QED
    BY <1>2, <2>1, Zenon DEF InAvail, InDev, Between
<1>6. Done(c)'
  <2>1. Done(c)' <=> c \in InFlight' /\ ~InAvail(x)' /\ ~InDev(x)'
    BY <1>2, Zenon DEF Done, InAvail, InDev
  <2> QED
    BY <1>1, <1>3, <1>4, <1>5, <2>1, Zenon
<1>7. ASSUME NEW e \in Callers \ {c} PROVE Done(e)' <=> Done(e)
  <2>1. CASE e \notin InFlight
    BY <1>4, <2>1, Zenon DEF Done
  <2>2. CASE e \in InFlight
    <3>1. PICK h \in Desc : h = idx[e][1]
      BY <1>0, IdxType, Zenon
    <3>2. h # x
      BY <1>0, <1>1, <1>2, <2>2, <3>1, Zenon DEF ChainsOK, Range3
    <3>3. Done(e)' <=> e \in InFlight' /\ ~InAvail(h)' /\ ~InDev(h)'
      BY <1>2, <3>1, Zenon DEF Done, InAvail, InDev
    <3> QED
      BY <1>4, <1>5, <3>1, <3>2, <3>3, Zenon DEF Done
  <2> QED
    BY <2>1, <2>2, Zenon
<1>8. op[c] \in OpType /\ op \in [Callers -> OpType]
  BY <1>0, Zenon DEF TypeOK
<1>9. \A e \in Callers \ {c} : op'[e] = op[e]
  BY <1>2, <1>8, Zenon
<1>10. Bar' = [Bar EXCEPT ![c] = Seen(c)'] /\ Bar[c] = Seen(c)
  BY <1>4, <1>7, <1>9, OneBar, Zenon
<1>11. /\ Bar[c] = Dev!Call("asked", op[c].sector, op[c].write, op[c].data)
       /\ Seen(c)' = Dev!Call("done", op'[c].sector, op'[c].write, op'[c].data)
  <2>1. ~Idle(c) /\ ~Done(c) /\ ~Idle(c)' /\ Done(c)'
    BY <1>1, <1>3, <1>4, <1>6, Zenon
  <2> QED
    BY <1>10, <2>1, SeenIs, Zenon DEF Dev!Call
<1>12. Bar[c].at = "asked" /\ Bar[c].write = op[c].write
       /\ Bar[c].sector = op[c].sector /\ Bar[c].data = op[c].data
  <2>1. \A s, w, v : LET r == Dev!Call("asked", s, w, v)
                     IN r.at = "asked" /\ r.sector = s /\ r.write = w /\ r.data = v
    BY Zenon DEF Dev!Call
  <2> QED
    BY <1>11, <2>1
<1>13. CASE op[c].write = 1
  <2>1. medium' = [medium EXCEPT ![op[c].sector] = op[c].data] /\ op' = op
    BY <1>2, <1>13, Zenon
  <2>2. Seen(c)' = MarkDone(Bar[c])
    BY <1>11, <2>1, DoneRecord
  <2>3. Bar' = [Bar EXCEPT ![c].at = "done"]
    BY <1>10, <2>2, Zenon DEF MarkDone
  <2> QED
    BY <1>12, <1>13, <2>1, <2>3, Zenon DEF Dev!Perform, Bar
<1>14. CASE op[c].write # 1
  <2> DEFINE d == medium[op[c].sector]
  <2>1. medium' = medium /\ op' = [op EXCEPT ![c].data = d] /\ d = medium[Bar[c].sector]
    BY <1>2, <1>12, <1>14, Zenon
  <2> HIDE DEF d
  <2>2. op'[c].sector = op[c].sector /\ op'[c].write = op[c].write /\ op'[c].data = d
    BY <1>8, <2>1, Zenon DEF OpType
  <2>3. Seen(c)' = MarkRead(Bar[c], d)
    BY <1>11, <2>2, DoneRecord
  <2>4. Bar' = [Bar EXCEPT ![c].at = "done", ![c].data = d]
    <3>1. [Bar EXCEPT ![c].at = "done", ![c].data = d] = [Bar EXCEPT ![c] = MarkRead(Bar[c], d)]
      BY Zenon DEF Bar, MarkRead
    <3> QED
      BY <1>10, <2>3, <3>1, Zenon
  <2>5. Bar' = [Bar EXCEPT ![c].at = "done", ![c].data = medium[Bar[c].sector]]
    BY <2>1, <2>4, Zenon
  <2> QED
    BY <1>12, <1>14, <2>1, <2>5, Zenon DEF Dev!Perform, Bar
<1> QED
  BY <1>13, <1>14, Zenon

\* handle_intr is not seen, nor is the device taking a request.
LEMMA RestStutters ==
  ASSUME Inv, Interrupt \/ DevTake \/ UNCHANGED vars
  PROVE  UNCHANGED <<medium, Bar>>
<1>0. IInv /\ TypeOK /\ ChainsOK /\ RingsOK
  BY Zenon DEF Inv, IInv
<1>1. CASE IntrEnter \/ IntrEmpty \/ IntrAck \/ UNCHANGED vars
  <2>1. UNCHANGED <<pc, op, idx, avail, dev, medium>>
    BY <1>1, Zenon DEF IntrEnter, IntrEmpty, IntrAck, vars, disk
  <2>2. InFlight' = InFlight /\ \A e \in Callers : Idle(e)' <=> Idle(e)
    BY <2>1, Zenon DEF InFlight, Idle
  <2>3. \A e \in Callers : Done(e)' <=> Done(e)
    BY <2>1, <2>2, SameDone, Zenon
  <2> QED
    BY <2>1, <2>2, <2>3, SameBar, Zenon
<1>2. CASE IntrUsed
  <2>1. /\ UNCHANGED <<op, idx, avail, dev, medium>>
        /\ pc' = Wake(pc, "io", "io_up", {info[used.ring[used_idx]].b})
    BY <1>2, Zenon DEF IntrUsed
  <2>2. \A e \in Callers : pc'[e] = pc[e] \/ (pc[e] = "io" /\ pc'[e] = "io_up")
    BY <2>1, Zenon DEF Wake
  <2>3. InFlight' = InFlight /\ \A e \in Callers : Idle(e)' <=> Idle(e)
    BY <2>2, Zenon DEF InFlight, Idle
  <2>4. \A e \in Callers : Done(e)' <=> Done(e)
    BY <2>1, <2>3, SameDone, Zenon
  <2> QED
    BY <2>1, <2>3, <2>4, SameBar, Zenon
<1>3. CASE DevTake
  <2>1. UNCHANGED <<pc, op, idx, info, used, used_idx, medium>>
    BY <1>3, Zenon DEF DevTake
  <2>2. InFlight' = InFlight /\ \A e \in Callers : Idle(e)' <=> Idle(e)
    BY <2>1, Zenon DEF InFlight, Idle
  <2>3. RingsOK'
    BY <1>0, <1>3, Taken, Zenon
  <2>4. \A h \in Desc : (Waits(h)' <=> Waits(h)) /\ (InUsed(h)' <=> InUsed(h))
    BY <2>1, <2>2, Zenon DEF Waits, InUsed, Between
  <2>5. \A h \in Desc : InAvail(h)' \/ InDev(h)' <=> InAvail(h) \/ InDev(h)
    BY <1>0, <2>3, <2>4, Zenon DEF RingsOK
  <2>6. ASSUME NEW e \in Callers PROVE Done(e)' <=> Done(e)
    <3>1. PICK h \in Desc : h = idx[e][1]
      BY <1>0, IdxType, Zenon
    <3>2. Done(e)' <=> e \in InFlight' /\ ~InAvail(h)' /\ ~InDev(h)'
      BY <2>1, <3>1, Zenon DEF Done, InAvail, InDev
    <3> QED
      BY <2>2, <2>5, <3>1, <3>2, Zenon DEF Done
  <2> QED
    BY <2>1, <2>2, <2>6, SameBar, Zenon
<1> QED
  BY <1>1, <1>2, <1>3, Zenon DEF Interrupt

\* Driver, interrupt and device together are a block device, for any queue
\* size and number of callers: each virtio_disk_rw takes effect once, between
\* call and return, and a read returns what the medium then held.
THEOREM Refinement == Spec => Refines
<1>1. ASSUME Init PROVE Dev!DevInit
  <2>1. medium \in [Sectors -> Values]
    BY <1>1, LoadAssumption, Zenon DEF Init
  <2>2. \A c \in Callers : Seen(c) = [at |-> "idle"]
    <3>1. \A c \in Callers : Idle(c)
      BY <1>1, Zenon DEF Init, Idle
    <3> QED
      BY <3>1, SeenIs, Zenon
  <2> QED
    BY <2>1, <2>2, Zenon DEF Dev!DevInit, Dev!NoCall
<1>2. ASSUME Inv, [Next]_vars PROVE Dev!DevNext \/ UNCHANGED <<medium, Bar>>
  <2>1. ASSUME NEW c \in Callers, virtio_disk_rw(c) \/ Retry(c) \/ Check(c) \/ DevDone(c)
        PROVE  Dev!DevNext \/ UNCHANGED <<medium, Bar>>
    BY <1>2, <2>1, RwInvokes, RetryStutters, CheckReturns, DonePerforms, Zenon DEF Dev!DevNext
  <2> QED
    BY <1>2, <2>1, RestStutters, Zenon DEF Next
<1>3. Inv /\ [Next]_vars => [Dev!DevNext]_<<medium, [c \in Callers |-> Seen(c)]>>
  BY <1>2, Zenon DEF Bar
<1> QED
  BY <1>1, <1>3, Invariance, PTL DEF Spec, Refines, Dev!DevSpec
=============================================================================
