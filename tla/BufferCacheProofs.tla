------------------------- MODULE BufferCacheProofs -------------------------
(***************************************************************************)
(* The buffer cache, for any number of processes, sectors, values and      *)
(* buffers.                                                                *)
(***************************************************************************)
EXTENDS BufferCache, FiniteSetTheorems, WellFoundedInduction, TLAPS

\* Every buffer is at one place of the list.
Whole(l) == /\ l \in [1 .. Count -> Buffers]
            /\ \A j, k \in 1 .. Count : l[j] = l[k] => j = k
            /\ \A i \in Buffers : \E k \in 1 .. Count : l[k] = i

PcType == {"idle", "writing", "reading", "holding"}

Counter == [tag : Tags \cup {NoTag}, ref : Nat, valid : {0, 1}, dirty : {0, 1},
            own : {0, 1}, data : Values \cup {0}]

Types ==
  /\ buf \in [Buffers -> Counter]
  /\ Whole(lru)
  /\ pc \in [Procs -> PcType] /\ call \in [Procs -> CallType]
  /\ disk \in [Tags -> Values] /\ last \in [Tags -> Values]
  /\ load \in Loads

\* _ref_cnt counts the users.
Counted == \A i \in Buffers : buf[i].ref = Cardinality(Users(i))

\* A process in a call stands on a buffer, for a sector.
CallsOK == \A p \in Procs : pc[p] # "idle" =>
             call[p].at \in Buffers /\ call[p].tag \in Tags /\ p \in load.readers

\* The buffer it reads into is the disk's and its alone; the one it holds is
\* the sector's and valid.
ReadingOK == \A p \in Procs : pc[p] = "reading" =>
  /\ LET b == buf[call[p].at] IN b.tag = call[p].tag /\ b.own = 1 /\ b.valid = 0 /\ b.dirty = 0
  /\ Users(call[p].at) = {p}
HoldingOK == \A p \in Procs : pc[p] = "holding" =>
  LET b == buf[call[p].at] IN b.tag = call[p].tag /\ b.own = 0 /\ b.valid = 1

\* Who writes a victim back is alone; the victim has no user and is still
\* what it was.
WritingOK == \A p \in Procs : pc[p] = "writing" =>
  /\ LET b == buf[call[p].at]
     IN b.tag = call[p].old /\ call[p].old \in Tags /\ b.dirty = 1 /\ b.valid = 1
  /\ load.readers = {p} /\ search(call[p].tag) = {}

\* A sector is in one buffer; a buffer that has a sector and is not the disk's
\* is valid, and only a valid one, of a run with writers, is dirty.
TagsOK ==
  /\ \A i, j \in Buffers : buf[i].tag = buf[j].tag /\ buf[i].tag # NoTag => i = j
  /\ \A i \in Buffers : /\ buf[i].tag # NoTag /\ buf[i].own = 0 => buf[i].valid = 1
                        /\ buf[i].valid = 1 => buf[i].tag # NoTag
                        /\ buf[i].dirty = 1 => buf[i].valid = 1 /\ load.writers # {}

\* Valid data is what was last written.
DataOK == \A i \in Buffers : buf[i].valid = 1 => buf[i].data = last[buf[i].tag]

IInv == /\ Types /\ Counted /\ CallsOK /\ ReadingOK /\ HoldingOK /\ WritingOK
        /\ TagsOK /\ DataOK /\ Durable

----------------------------------------------------------------------------
\* A set of places has a last one: alloc_buffer's walk from the far end stops.
LEMMA LastPlace ==
  ASSUME NEW T \in SUBSET (1 .. Count), T # {}
  PROVE  Max(T) \in T
<1> USE CountAssumption
<1> DEFINE U == {u \in Nat : \E k \in T : u = Count - k}
<1>1. U \in SUBSET Nat /\ U # {}
  <2>1. PICK k \in T : TRUE
    BY Zenon
  <2>2. Count - k \in U
    OBVIOUS
  <2> QED
    BY <2>2, Zenon
<1>2. PICK u \in U : \A v \in U : ~(<<v, u>> \in OpToRel(<, Nat))
  BY <1>1, WFMin, NatLessThanWellFounded, Zenon
<1>3. PICK k \in T : u = Count - k
  BY Zenon
<1>4. \A j \in T : k >= j
  <2> TAKE j \in T
  <2>1. Count - j \in U /\ Count - j \in Nat /\ u \in Nat /\ k \in Nat /\ j \in Nat
    BY <1>3
  <2>2. ~(Count - j < u)
    BY <1>2, <2>1, Zenon DEF OpToRel
  <2> QED
    BY <1>3, <2>1, <2>2
<1> QED
  BY <1>4, Zenon DEF Max

\* Where a node is.
LEMMA PositionIs ==
  ASSUME NEW l, Whole(l), NEW n \in Buffers
  PROVE  Len(l) = Count /\ Position(l, n) \in 1 .. Count /\ l[Position(l, n)] = n
<1>1. Len(l) = Count
  BY CountAssumption DEF Whole
<1> QED
  BY <1>1, Zenon DEF Whole, Position

\* The last user's move to the front keeps every node in the list once.
LEMMA FrontWhole ==
  ASSUME NEW l, Whole(l), NEW n \in Buffers
  PROVE  Whole(front(l, n))
<1> DEFINE m == Position(l, n)
           u == front(l, n)
<1>1. Len(l) = Count /\ m \in 1 .. Count /\ l[m] = n
  BY PositionIs, Zenon
<1> HIDE DEF m
<1>2. u = [k \in 1 .. Count |-> IF k = 1 THEN n ELSE IF k <= m THEN l[k - 1] ELSE l[k]]
  BY <1>1, Zenon DEF front, m
<1> HIDE DEF u
<1>3. \A k \in 1 .. Count : u[k] = l[IF k = 1 THEN m ELSE IF k <= m THEN k - 1 ELSE k]
  BY <1>1, <1>2, Zenon
<1>4. u \in [1 .. Count -> Buffers]
  BY <1>1, <1>2, CountAssumption DEF Whole
<1>5. \A j, k \in 1 .. Count : u[j] = u[k] => j = k
  <2> TAKE j \in 1 .. Count, k \in 1 .. Count
  <2> DEFINE f(x) == IF x = 1 THEN m ELSE IF x <= m THEN x - 1 ELSE x
  <2>1. f(j) \in 1 .. Count /\ f(k) \in 1 .. Count /\ (f(j) = f(k) => j = k)
    BY <1>1, CountAssumption
  <2>2. u[j] = l[f(j)] /\ u[k] = l[f(k)]
    BY <1>3, Zenon
  <2> HIDE DEF f
  <2> QED
    BY <2>1, <2>2, Zenon DEF Whole
<1>6. ASSUME NEW x \in Buffers PROVE \E k \in 1 .. Count : u[k] = x
  <2>1. PICK k \in 1 .. Count : l[k] = x
    BY Zenon DEF Whole
  <2> DEFINE y == IF k = m THEN 1 ELSE IF k < m THEN k + 1 ELSE k
  <2>2. y \in 1 .. Count /\ u[y] = l[k]
    BY <1>1, <1>3, CountAssumption
  <2> QED
    BY <2>1, <2>2, Zenon
<1> QED
  BY <1>4, <1>5, <1>6, Zenon DEF Whole, u

----------------------------------------------------------------------------
\* Users(i) is finite: _ref_cnt is a number.
LEMMA UsersFinite ==
  ASSUME NEW i
  PROVE  /\ IsFiniteSet(Users(i)) /\ Cardinality(Users(i)) \in Nat
         /\ Cardinality(Users(i)) <= Cardinality(Procs) /\ Cardinality(Procs) \in Nat
         /\ (Cardinality(Users(i)) = 0 <=> Users(i) = {})
<1>1. Users(i) \subseteq Procs
  BY Zenon DEF Users
<1>2. IsFiniteSet(Users(i)) /\ Cardinality(Users(i)) <= Cardinality(Procs)
  BY <1>1, FS_Subset, LoadAssumption, Zenon
<1>3. Cardinality(Procs) \in Nat /\ Cardinality(Users(i)) \in Nat
  BY <1>2, FS_CardinalityType, LoadAssumption, Zenon
<1> QED
  BY <1>2, <1>3, FS_EmptySet, Zenon

Using == {"reading", "holding"}
Same(p) == \A q \in Procs \ {p} : pc'[q] = pc[q] /\ call'[q] = call[q]

\* p becomes a user of i.
LEMMA Joins ==
  ASSUME NEW p \in Procs, NEW i \in Buffers, Same(p),
         pc[p] \notin Using, pc'[p] \in Using, call'[p].at = i
  PROVE  /\ Users(i)' = Users(i) \cup {p} /\ \A j \in Buffers \ {i} : Users(j)' = Users(j)
         /\ Cardinality(Users(i)') = Cardinality(Users(i)) + 1
<1>1. Users(i)' = Users(i) \cup {p} /\ p \notin Users(i)
  BY Zenon DEF Users, Using, Same
<1>2. \A j \in Buffers \ {i} : Users(j)' = Users(j)
  BY Zenon DEF Users, Using, Same
<1>3. Cardinality(Users(i) \cup {p}) = Cardinality(Users(i)) + 1
  BY <1>1, UsersFinite, FS_AddElement, Zenon
<1> QED
  BY <1>1, <1>2, <1>3, Zenon

\* p stops being one.
LEMMA Leaves ==
  ASSUME NEW p \in Procs, NEW i \in Buffers, Same(p),
         pc[p] \in Using, pc'[p] \notin Using, call[p].at = i
  PROVE  /\ Users(i)' = Users(i) \ {p} /\ \A j \in Buffers \ {i} : Users(j)' = Users(j)
         /\ Cardinality(Users(i)') = Cardinality(Users(i)) - 1 /\ Cardinality(Users(i)) >= 1
<1>1. Users(i)' = Users(i) \ {p} /\ p \in Users(i)
  BY Zenon DEF Users, Using, Same
<1>2. \A j \in Buffers \ {i} : Users(j)' = Users(j)
  BY Zenon DEF Users, Using, Same
<1>3. Cardinality(Users(i) \ {p}) = Cardinality(Users(i)) - 1
  BY <1>1, UsersFinite, FS_RemoveElement, Zenon
<1>4. Cardinality(Users(i)) # 0 /\ Cardinality(Users(i)) \in Nat
  BY <1>1, UsersFinite, Zenon
<1> QED
  BY <1>1, <1>2, <1>3, <1>4

\* p stays what it is.
LEMMA Stays ==
  ASSUME NEW p \in Procs, Same(p), call'[p].at = call[p].at, pc[p] \in Using, pc'[p] \in Using
  PROVE  \A j \in Buffers : Users(j)' = Users(j)
BY Zenon DEF Users, Using, Same

\* p is no user, before or after.
LEMMA Outside ==
  ASSUME NEW p \in Procs, Same(p), pc[p] \notin Using, pc'[p] \notin Using
  PROVE  \A j \in Buffers : Users(j)' = Users(j)
BY Zenon DEF Users, Using, Same

\* Where somebody writes back a victim nobody else is in the cache.
LEMMA Alone ==
  ASSUME WritingOK, NEW p \in Procs, Runs(p)
  PROVE  \A q \in Procs \ {p} : pc[q] # "writing"
BY Zenon DEF WritingOK, Runs

----------------------------------------------------------------------------
\* A cache nobody has used satisfies the invariant.
LEMMA InitInv == Init => IInv
<1> SUFFICES ASSUME Init PROVE IInv
  BY Zenon
<1> USE CountAssumption DEF Init
<1>1. Types
  <2>1. \A i \in Buffers : Count + 1 - i \in 1 .. Count /\ lru[Count + 1 - i] = i
    BY DEF Buffers
  <2>2. Whole(lru)
    BY <2>1, Zenon DEF Whole, Buffers
  <2> QED
    BY <2>2 DEF Types, Counter, CallType, NoCall, PcType
<1>2. Counted
  <2> SUFFICES ASSUME NEW i \in Buffers PROVE buf[i].ref = Cardinality(Users(i))
    BY Zenon DEF Counted
  <2>1. Users(i) = {}
    BY Zenon DEF Users
  <2> QED
    BY <2>1, UsersFinite, Zenon
<1>3. CallsOK /\ ReadingOK /\ HoldingOK /\ WritingOK
  BY Zenon DEF CallsOK, ReadingOK, HoldingOK, WritingOK
<1>4. TagsOK /\ DataOK
  BY DEF TagsOK, DataOK
<1>5. Durable
  BY Zenon DEF Durable
<1> QED
  BY <1>1, <1>2, <1>3, <1>4, <1>5, Zenon DEF IInv

\* The sector is in buffer i: one more user.
LEMMA HitStep ==
  ASSUME IInv, NEW p \in Procs, NEW t \in Tags, Runs(p), pc[p] = "idle",
         NEW i \in search(t), buf[i].own = 0,
         Ready(p, i, t, [buf[i] EXCEPT !.ref = @ + 1]), UNCHANGED <<lru, disk, last, load>>
  PROVE  IInv'
<1>0. /\ i \in Buffers /\ buf[i] \in Counter /\ buf[i].tag = t /\ t # NoTag
      /\ buf[i].valid = 1
  BY TagAssumption, Zenon DEF search, IInv, Types, TagsOK
<1> DEFINE b == [buf[i] EXCEPT !.ref = @ + 1]
           c == [b EXCEPT !.own = 1 - b.valid]
<1>1. /\ buf' = [buf EXCEPT ![i] = c] /\ b.valid = 1 /\ c \in Counter
      /\ c.own = 0 /\ c.valid = 1 /\ c.ref = buf[i].ref + 1
      /\ c.tag = buf[i].tag /\ c.dirty = buf[i].dirty /\ c.data = buf[i].data
  <2>1. buf' = [buf EXCEPT ![i] = c]
    BY Zenon DEF Ready
  <2>2. b \in Counter /\ b.valid = 1 /\ 1 - b.valid = 0 /\ b.own = 0
        /\ b.ref = buf[i].ref + 1 /\ b.tag = buf[i].tag /\ b.dirty = buf[i].dirty /\ b.data = buf[i].data
    BY <1>0 DEF Counter
  <2> HIDE DEF b
  <2>3. /\ c \in Counter /\ c.own = 0 /\ c.valid = 1 /\ c.ref = b.ref /\ c.tag = b.tag
        /\ c.dirty = b.dirty /\ c.data = b.data
    BY <2>2, Zenon DEF Counter
  <2> HIDE DEF c
  <2> QED
    BY <2>1, <2>2, <2>3, Zenon
<1>2. /\ pc' = [pc EXCEPT ![p] = "holding"]
      /\ call' = [call EXCEPT ![p] = [tag |-> t, at |-> i, old |-> NoTag]]
  BY <1>1, Zenon DEF Ready
<1> HIDE DEF b, c
<1>3. /\ Same(p) /\ pc'[p] = "holding" /\ call'[p].tag = t /\ call'[p].at = i
  BY <1>2, Zenon DEF Same, IInv, Types
<1>4. /\ \A j \in Buffers \ {i} : buf'[j] = buf[j]
      /\ \A j \in Buffers : /\ buf'[j].tag = buf[j].tag /\ buf'[j].valid = buf[j].valid
                            /\ buf'[j].own = buf[j].own /\ buf'[j].dirty = buf[j].dirty
                            /\ buf'[j].data = buf[j].data
      /\ buf'[i].ref = buf[i].ref + 1
  BY <1>0, <1>1, Zenon DEF IInv, Types
<1>5. Types'
  <2>1. buf' \in [Buffers -> Counter]
    BY <1>0, <1>1, Zenon DEF IInv, Types
  <2>2. pc' \in [Procs -> PcType] /\ call' \in [Procs -> CallType]
    BY <1>0, <1>2, CountAssumption DEF IInv, Types, CallType, PcType, Buffers
  <2> QED
    BY <2>1, <2>2, Zenon DEF IInv, Types, Whole
<1>6. /\ Users(i)' = Users(i) \cup {p} /\ \A j \in Buffers \ {i} : Users(j)' = Users(j)
      /\ Cardinality(Users(i)') = Cardinality(Users(i)) + 1
  BY <1>0, <1>3, Joins, Zenon DEF Using
<1>7. Counted'
  <2> SUFFICES ASSUME NEW j \in Buffers PROVE buf'[j].ref = Cardinality(Users(j)')
    BY Zenon DEF Counted, Buffers
  <2> QED
    BY <1>4, <1>6, Zenon DEF IInv, Counted
<1>8. CallsOK' /\ HoldingOK'
  <2>1. CallsOK'
    BY <1>0, <1>3, Zenon DEF IInv, CallsOK, Same, Runs, Buffers
  <2>2. \A q \in Procs : pc'[q] = "holding" =>
          buf[call'[q].at].tag = call'[q].tag /\ buf[call'[q].at].own = 0 /\ buf[call'[q].at].valid = 1
                                              /\ call'[q].at \in Buffers
    BY <1>0, <1>3 DEF IInv, HoldingOK, CallsOK, Same
  <2> QED
    BY <1>4, <2>1, <2>2 DEF HoldingOK
<1>9. ReadingOK'
  <2> SUFFICES ASSUME NEW q \in Procs, pc'[q] = "reading"
               PROVE  /\ buf'[call'[q].at].tag = call'[q].tag /\ buf'[call'[q].at].own = 1
                      /\ buf'[call'[q].at].valid = 0 /\ buf'[call'[q].at].dirty = 0
                      /\ {r \in Procs : pc'[r] \in {"reading", "holding"} /\ call'[r].at = call'[q].at} = {q}
    BY Zenon DEF ReadingOK, Users
  <2>1. q # p /\ pc[q] = "reading" /\ call'[q] = call[q] /\ call[q].at \in Buffers
    BY <1>3, Zenon DEF Same, IInv, CallsOK
  <2>2. buf[call[q].at].own = 1 /\ call[q].at # i
    BY <2>1 DEF IInv, ReadingOK
  <2>3. Users(call[q].at)' = {r \in Procs : pc'[r] \in {"reading", "holding"} /\ call'[r].at = call'[q].at}
    BY <2>1, Zenon DEF Users
  <2>4. Users(call[q].at) = {r \in Procs : pc'[r] \in {"reading", "holding"} /\ call'[r].at = call'[q].at}
    BY <1>3, <2>1, <2>2, Zenon DEF Users, Same
  <2> QED
    BY <1>4, <2>1, <2>2, <2>4 DEF IInv, ReadingOK
<1>10. WritingOK'
  BY <1>3, Alone DEF IInv, WritingOK, Same
<1>11. TagsOK'
  BY <1>4 DEF IInv, TagsOK, Buffers
<1>12. DataOK' /\ Durable'
  BY <1>4 DEF IInv, DataOK, Durable, Buffers
<1> QED
  BY <1>5, <1>7, <1>8, <1>9, <1>10, <1>11, <1>12, Zenon DEF IInv

\* A buffer nobody uses is given to sector t, which no buffer has; what it held
\* is on the disk.
LEMMA InstallStep ==
  ASSUME IInv, NEW p \in Procs, NEW t \in Tags, Runs(p), pc[p] \notin Using,
         NEW i \in Buffers, buf[i].ref = 0, search(t) = {},
         Ready(p, i, t, install(buf[i], t)), UNCHANGED <<lru, last, load>>,
         disk' \in [Tags -> Values],
         \A u \in Tags : disk'[u] = disk[u] \/ (u = buf[i].tag /\ disk'[u] = last[u]),
         buf[i].dirty = 1 => disk'[buf[i].tag] = last[buf[i].tag]
  PROVE  IInv'
<1> DEFINE b == install(buf[i], t)
           c == [b EXCEPT !.own = 1 - b.valid]
<1>0. buf[i] \in Counter /\ t # NoTag /\ Users(i) = {} /\ \A j \in Buffers : buf[j].tag # t
  <2>1. Cardinality(Users(i)) = 0
    BY Zenon DEF IInv, Counted
  <2> QED
    BY <2>1, UsersFinite, TagAssumption, Zenon DEF IInv, Types, search
<1>1. /\ buf' = [buf EXCEPT ![i] = c] /\ b.valid = 0 /\ c \in Counter
      /\ c.own = 1 /\ c.valid = 0 /\ c.ref = 1 /\ c.tag = t /\ c.dirty = 0
  <2>1. buf' = [buf EXCEPT ![i] = c]
    BY Zenon DEF Ready
  <2>2. b \in Counter /\ b.valid = 0 /\ 1 - b.valid = 1 /\ b.ref = 1 /\ b.tag = t /\ b.dirty = 0
    <3>1. b = [buf[i] EXCEPT !.tag = t, !.ref = 1, !.valid = 0, !.dirty = 0, !.own = 0]
      BY Zenon DEF install
    <3> HIDE DEF b
    <3>2. b.valid = 0 /\ b.ref = 1 /\ b.tag = t /\ b.dirty = 0
      BY <1>0, <3>1, Zenon DEF Counter
    <3>3. b \in Counter
      BY <1>0, <3>1, ZenonT(30) DEF Counter
    <3> QED
      BY <3>2, <3>3
  <2> HIDE DEF b
  <2>3. c \in Counter /\ c.own = 1 /\ c.valid = 0 /\ c.ref = 1 /\ c.tag = t /\ c.dirty = 0
    BY <2>2, Zenon DEF Counter
  <2> HIDE DEF c
  <2> QED
    BY <2>1, <2>2, <2>3, Zenon
<1>2. /\ pc' = [pc EXCEPT ![p] = "reading"]
      /\ call' = [call EXCEPT ![p] = [tag |-> t, at |-> i, old |-> NoTag]]
  BY <1>1 DEF Ready
<1> HIDE DEF b, c
<1>3. Same(p) /\ pc'[p] = "reading" /\ call'[p].tag = t /\ call'[p].at = i
  BY <1>2, Zenon DEF Same, IInv, Types
<1>4. /\ \A j \in Buffers \ {i} : buf'[j] = buf[j]
      /\ buf'[i] = c
  BY <1>1, Zenon DEF IInv, Types
<1>5. Types'
  <2>1. buf' \in [Buffers -> Counter]
    BY <1>1, Zenon DEF IInv, Types
  <2>2. pc' \in [Procs -> PcType] /\ call' \in [Procs -> CallType]
    BY <1>2, CountAssumption DEF IInv, Types, CallType, PcType, Buffers
  <2> QED
    BY <2>1, <2>2 DEF IInv, Types, Whole
<1>6. /\ Users(i)' = {p} /\ \A j \in Buffers \ {i} : Users(j)' = Users(j)
      /\ Cardinality(Users(i)') = 1
  <2>1. /\ Users(i)' = Users(i) \cup {p} /\ \A j \in Buffers \ {i} : Users(j)' = Users(j)
        /\ Cardinality(Users(i)') = Cardinality(Users(i)) + 1
    BY <1>3, Joins, Zenon DEF Using
  <2> QED
    BY <1>0, <2>1, UsersFinite
<1>7. Counted'
  <2> SUFFICES ASSUME NEW j \in Buffers PROVE buf'[j].ref = Cardinality(Users(j)')
    BY Zenon DEF Counted, Buffers
  <2> QED
    BY <1>1, <1>4, <1>6 DEF IInv, Counted
<1>8. CallsOK'
  BY <1>3, Zenon DEF IInv, CallsOK, Same, Runs, Buffers
<1>9. \A q \in Procs \ {p} : pc[q] \in Using => call[q].at # i /\ call[q].at \in Buffers
  BY <1>0, Zenon DEF Users, Using, IInv, CallsOK
<1>10. HoldingOK'
  <2> SUFFICES ASSUME NEW q \in Procs, pc'[q] = "holding"
               PROVE  /\ buf'[call'[q].at].tag = call'[q].tag /\ buf'[call'[q].at].own = 0
                      /\ buf'[call'[q].at].valid = 1
    BY Zenon DEF HoldingOK
  <2>1. q # p /\ pc[q] = "holding" /\ call'[q] = call[q]
    BY <1>3, Zenon DEF Same
  <2> QED
    BY <1>4, <1>9, <2>1 DEF IInv, HoldingOK, Using
<1>11. ReadingOK'
  <2> SUFFICES ASSUME NEW q \in Procs, pc'[q] = "reading"
               PROVE  /\ buf'[call'[q].at].tag = call'[q].tag /\ buf'[call'[q].at].own = 1
                      /\ buf'[call'[q].at].valid = 0 /\ buf'[call'[q].at].dirty = 0
                      /\ {r \in Procs : pc'[r] \in {"reading", "holding"} /\ call'[r].at = call'[q].at} = {q}
    BY Zenon DEF ReadingOK, Users
  <2>1. CASE q = p
    <3>1. Users(i)' = {r \in Procs : pc'[r] \in {"reading", "holding"} /\ call'[r].at = call'[q].at}
      BY <1>3, <2>1, Zenon DEF Users
    <3> QED
      BY <1>1, <1>3, <1>4, <1>6, <2>1, <3>1, Zenon
  <2>2. CASE q # p
    <3>1. pc[q] = "reading" /\ call'[q] = call[q]
      BY <1>3, <2>2, Zenon DEF Same
    <3>2. call[q].at # i /\ call[q].at \in Buffers
      BY <1>9, <2>2, <3>1, Zenon DEF Using
    <3>3. Users(call[q].at) = {r \in Procs : pc'[r] \in {"reading", "holding"} /\ call'[r].at = call'[q].at}
      BY <1>3, <3>1, <3>2, Zenon DEF Users, Same, Using
    <3> QED
      BY <1>4, <3>1, <3>2, <3>3 DEF IInv, ReadingOK
  <2> QED
    BY <2>1, <2>2, Zenon
<1>12. WritingOK'
  BY <1>3, Alone DEF IInv, WritingOK, Same
<1>13. TagsOK'
  <2>1. \A j \in Buffers : (j = i /\ buf'[j] = c) \/ (j # i /\ buf'[j] = buf[j] /\ buf[j].tag # t)
    BY <1>0, <1>4, Zenon
  <2>2. \A j, k \in Buffers : buf'[j].tag = buf'[k].tag /\ buf'[j].tag # NoTag => j = k
    BY <1>1, <2>1 DEF IInv, TagsOK
  <2>3. \A j \in Buffers : /\ buf'[j].tag # NoTag /\ buf'[j].own = 0 => buf'[j].valid = 1
                           /\ buf'[j].valid = 1 => buf'[j].tag # NoTag
                           /\ buf'[j].dirty = 1 => buf'[j].valid = 1 /\ load.writers # {}
    BY <1>1, <2>1 DEF IInv, TagsOK
  <2> QED
    BY <2>2, <2>3, Zenon DEF TagsOK, Buffers
<1>14. DataOK'
  BY <1>1, <1>4 DEF IInv, DataOK, Buffers
<1>15. Durable'
  <2> SUFFICES ASSUME NEW u \in Tags
               PROVE  \/ disk'[u] = last[u]
                      \/ \E j \in Buffers : buf'[j].tag = u /\ buf'[j].dirty = 1 /\ buf'[j].data = last[u]
    BY Zenon DEF Durable, Buffers
  <2>1. u # NoTag
    BY TagAssumption, Zenon
  <2>2. CASE u = buf[i].tag
    <3>1. CASE buf[i].dirty = 1
      BY <2>2, <3>1, Zenon
    <3>2. CASE buf[i].dirty # 1
      <4>1. disk[u] = last[u]
        BY <2>1, <2>2, <3>2 DEF IInv, Durable, TagsOK
      <4> QED
        BY <4>1, Zenon
    <3> QED
      BY <3>1, <3>2, Zenon
  <2>3. CASE u # buf[i].tag
    BY <1>4, <2>3 DEF IInv, Durable
  <2> QED
    BY <2>2, <2>3, Zenon
<1> QED
  BY <1>5, <1>7, <1>8, <1>10, <1>11, <1>12, <1>13, <1>14, <1>15, Zenon DEF IInv

\* A dirty victim is to be written back first: then the one process that writes
\* is the only one there is.
LEMMA WriteBackStep ==
  ASSUME IInv, NEW p \in Procs, NEW t \in Tags, Runs(p), pc[p] = "idle",
         NEW i \in Buffers, buf[i].dirty = 1, search(t) = {},
         buf' = [buf EXCEPT ![i].own = 1], pc' = [pc EXCEPT ![p] = "writing"],
         call' = [call EXCEPT ![p] = [tag |-> t, at |-> i, old |-> buf[i].tag]],
         UNCHANGED <<lru, disk, last, load>>
  PROVE  IInv'
<1>0. buf[i] \in Counter /\ buf[i].valid = 1 /\ buf[i].tag \in Tags /\ load.writers # {}
  BY Zenon DEF IInv, Types, TagsOK, Counter
<1>1. load.readers = {p}
  <2>1. load \in Loads /\ p \in load.readers
    BY Zenon DEF IInv, Types, Runs
  <2> QED
    BY <1>0, <2>1, LoadAssumption, Zenon
<1>2. \A q \in Procs \ {p} : pc[q] = "idle"
  BY <1>1, Zenon DEF IInv, CallsOK
<1>3. Same(p) /\ pc'[p] = "writing" /\ call'[p].tag = t /\ call'[p].at = i /\ call'[p].old = buf[i].tag
  BY Zenon DEF Same, IInv, Types
<1>4. /\ \A j \in Buffers : /\ buf'[j].tag = buf[j].tag /\ buf'[j].valid = buf[j].valid
                            /\ buf'[j].ref = buf[j].ref /\ buf'[j].dirty = buf[j].dirty
                            /\ buf'[j].data = buf[j].data
                            /\ buf'[j].own = IF j = i THEN 1 ELSE buf[j].own
  BY <1>0, Zenon DEF IInv, Types, Counter
<1>5. Types'
  <2>1. buf' \in [Buffers -> Counter]
    BY <1>0, Zenon DEF IInv, Types, Counter
  <2>2. pc' \in [Procs -> PcType]
    BY Zenon DEF IInv, Types, PcType
  <2>3. call' \in [Procs -> CallType]
    BY <1>0, CountAssumption DEF IInv, Types, CallType, Buffers
  <2> QED
    BY <2>1, <2>2, <2>3, Zenon DEF IInv, Types, Whole
<1>6. \A j \in Buffers : Users(j)' = Users(j)
  BY <1>3, Outside, Zenon DEF Using
<1>7. Counted'
  <2> SUFFICES ASSUME NEW j \in Buffers PROVE buf'[j].ref = Cardinality(Users(j)')
    BY Zenon DEF Counted, Buffers
  <2> QED
    BY <1>4, <1>6, Zenon DEF IInv, Counted
<1>8. CallsOK'
  BY <1>1, <1>3, Zenon DEF IInv, CallsOK, Same, Buffers
<1>9. HoldingOK' /\ ReadingOK'
  BY <1>2, <1>3, Zenon DEF HoldingOK, ReadingOK, Same
<1>10. WritingOK'
  <2>1. search(t)' = {}
    BY <1>4 DEF search, Buffers
  <2>2. search(call[p].tag)' = {}
    BY <1>3, <2>1, Zenon DEF search
  <2>3. \A q \in Procs : pc'[q] = "writing" => q = p
    BY <1>2, <1>3, Zenon DEF Same
  <2>4. buf'[i].tag = buf[i].tag /\ buf'[i].dirty = 1 /\ buf'[i].valid = 1
    BY <1>0, <1>4, Zenon
  <2> QED
    BY <1>0, <1>1, <1>3, <2>2, <2>3, <2>4, Zenon DEF WritingOK
<1>11. TagsOK'
  <2>1. \A j, k \in Buffers : buf'[j].tag = buf'[k].tag /\ buf'[j].tag # NoTag => j = k
    BY <1>4 DEF IInv, TagsOK
  <2>2. \A j \in Buffers : /\ buf'[j].tag # NoTag /\ buf'[j].own = 0 => buf'[j].valid = 1
                           /\ buf'[j].valid = 1 => buf'[j].tag # NoTag
                           /\ buf'[j].dirty = 1 => buf'[j].valid = 1 /\ load.writers # {}
    BY <1>4 DEF IInv, TagsOK
  <2> QED
    BY <2>1, <2>2, Zenon DEF TagsOK, Buffers
<1>12. DataOK' /\ Durable'
  BY <1>4 DEF IInv, DataOK, Durable, Buffers
<1> QED
  BY <1>5, <1>7, <1>8, <1>9, <1>10, <1>11, <1>12, Zenon DEF IInv

\* _get_buffer up to its first wait, with a buffer to be found.
LEMMA GetStep ==
  ASSUME IInv, NEW p \in Procs, NEW t \in Tags, read_sync(p, t), UNCHANGED load, panic' = "no"
  PROVE  IInv'
<1>0. Runs(p) /\ pc[p] = "idle"
  BY Zenon DEF read_sync
<1>1. CASE Hit(p, t)
  <2>1. PICK i \in search(t) : /\ buf[i].own = 0
                               /\ Ready(p, i, t, [buf[i] EXCEPT !.ref = @ + 1])
                               /\ UNCHANGED <<lru, disk, last, panic>>
    BY <1>1, Zenon DEF Hit, Panic
  <2> QED
    BY <1>0, <2>1, HitStep, Zenon
<1>2. CASE Miss(p, t)
  <2> DEFINE i == alloc_buffer
  <2>1. /\ search(t) = {} /\ unused # {} /\ UNCHANGED <<lru, disk, last>>
        /\ IF buf[i].dirty = 1
           THEN /\ buf' = [buf EXCEPT ![i].own = 1]
                /\ pc' = [pc EXCEPT ![p] = "writing"]
                /\ call' = [call EXCEPT ![p] = [tag |-> t, at |-> i, old |-> buf[i].tag]]
           ELSE Ready(p, i, t, install(buf[i], t))
    BY <1>2, Zenon DEF Miss, Panic
  <2>2. i \in Buffers /\ buf[i].ref = 0
    <3>1. Max(unused) \in unused
      BY <2>1, LastPlace, Zenon DEF unused
    <3> QED
      BY <3>1, Zenon DEF unused, alloc_buffer, IInv, Types, Whole
  <2> HIDE DEF i
  <2>3. CASE buf[i].dirty = 1
    BY <1>0, <2>1, <2>2, <2>3, WriteBackStep, Zenon
  <2>4. CASE buf[i].dirty # 1
    <3>1. disk' \in [Tags -> Values] /\ \A u \in Tags : disk'[u] = disk[u]
      BY <2>1, Zenon DEF IInv, Types
    <3> QED
      BY <1>0, <2>1, <2>2, <2>4, <3>1, InstallStep, Zenon DEF Using
  <2> QED
    BY <2>3, <2>4, Zenon
<1> QED
  BY <1>1, <1>2, Zenon DEF read_sync

\* The victim has been written back, to its own sector.
LEMMA WriteDoneStep ==
  ASSUME IInv, NEW p \in Procs, WriteDone(p), UNCHANGED load
  PROVE  IInv'
<1> DEFINE i == call[p].at
           t == call[p].tag
           o == call[p].old
<1>0. /\ Runs(p) /\ pc[p] = "writing" /\ disk' = [disk EXCEPT ![o] = buf[i].data]
      /\ Ready(p, i, t, install(buf[i], t)) /\ UNCHANGED <<lru, last>>
  BY Zenon DEF WriteDone
<1>1. /\ i \in Buffers /\ t \in Tags /\ o \in Tags /\ buf[i].tag = o /\ buf[i].dirty = 1 /\ buf[i].valid = 1
      /\ search(t) = {} /\ load.readers = {p}
  BY <1>0, Zenon DEF IInv, WritingOK, CallsOK
<1>2. buf[i].data = last[o] /\ last[o] \in Values
  BY <1>1, Zenon DEF IInv, DataOK, Types
<1>3. disk' \in [Tags -> Values] /\ \A u \in Tags : disk'[u] = IF u = o THEN last[o] ELSE disk[u]
  BY <1>0, <1>1, <1>2, Zenon DEF IInv, Types
<1>4. buf[i].ref = 0
  <2>1. \A q \in Procs \ {p} : pc[q] = "idle"
    BY <1>1, Zenon DEF IInv, CallsOK
  <2>2. Users(i) = {}
    BY <1>0, <2>1, Zenon DEF Users
  <2>3. Cardinality(Users(i)) = 0
    BY <2>2, UsersFinite, Zenon
  <2> QED
    BY <1>1, <2>3, Zenon DEF IInv, Counted
<1> HIDE DEF i, t, o
<1> QED
  BY <1>0, <1>1, <1>2, <1>3, <1>4, InstallStep DEF Using

\* The sector has been read: nobody else had the buffer, and the disk has what
\* was last written.
LEMMA ReadDoneStep ==
  ASSUME IInv, NEW p \in Procs, ReadDone(p), UNCHANGED load
  PROVE  IInv'
<1> DEFINE i == call[p].at
           t == call[p].tag
<1>0. /\ Runs(p) /\ pc[p] = "reading" /\ pc' = [pc EXCEPT ![p] = "holding"]
      /\ buf' = [buf EXCEPT ![i].data = disk[t], ![i].own = 0, ![i].valid = 1]
      /\ UNCHANGED <<lru, call, disk, last>>
  BY Zenon DEF ReadDone
<1>1. /\ i \in Buffers /\ t \in Tags /\ t # NoTag /\ buf[i] \in Counter
      /\ buf[i].tag = t /\ buf[i].dirty = 0 /\ Users(i) = {p}
  BY <1>0, TagAssumption, Zenon DEF IInv, Types, ReadingOK, CallsOK
<1>2. disk[t] = last[t] /\ disk[t] \in Values
  BY <1>1 DEF IInv, Durable, TagsOK, Types
<1>3. Same(p) /\ pc'[p] = "holding" /\ call'[p] = call[p]
  BY <1>0, Zenon DEF Same, IInv, Types
<1>4. /\ \A j \in Buffers \ {i} : buf'[j] = buf[j]
      /\ buf'[i].tag = t /\ buf'[i].ref = buf[i].ref /\ buf'[i].dirty = 0
      /\ buf'[i].own = 0 /\ buf'[i].valid = 1 /\ buf'[i].data = last[t]
      /\ buf' \in [Buffers -> Counter]
  <2> DEFINE c == [buf[i] EXCEPT !.data = disk[t], !.own = 0, !.valid = 1]
  <2>1. /\ c.tag = t /\ c.ref = buf[i].ref /\ c.dirty = 0 /\ c.own = 0 /\ c.valid = 1
        /\ c.data = last[t]
    BY <1>1, <1>2, Zenon DEF Counter
  <2>2. c \in Counter
    BY <1>1, <1>2, ZenonT(30) DEF Counter
  <2>3. buf' = [buf EXCEPT ![i] = c]
    BY <1>0, <1>1, Zenon DEF IInv, Types
  <2> HIDE DEF c
  <2> QED
    BY <1>1, <2>1, <2>2, <2>3, Zenon DEF IInv, Types
<1>5. Types'
  <2>1. pc' \in [Procs -> PcType]
    BY <1>0, Zenon DEF IInv, Types, PcType
  <2> QED
    BY <1>0, <1>4, <2>1, Zenon DEF IInv, Types, Whole
<1>6. \A j \in Buffers : Users(j)' = Users(j)
  BY <1>0, <1>3, Stays, Zenon DEF Using
<1>7. Counted'
  <2> SUFFICES ASSUME NEW j \in Buffers PROVE buf'[j].ref = Cardinality(Users(j)')
    BY Zenon DEF Counted, Buffers
  <2> QED
    BY <1>1, <1>4, <1>6, Zenon DEF IInv, Counted
<1>8. CallsOK'
  BY <1>0, <1>3, Zenon DEF IInv, CallsOK, Same, Buffers
<1>9. \A q \in Procs \ {p} : pc[q] \in Using => call[q].at # i /\ call[q].at \in Buffers
  BY <1>1, Zenon DEF Users, Using, IInv, CallsOK
<1>10. HoldingOK'
  <2> SUFFICES ASSUME NEW q \in Procs, pc'[q] = "holding"
               PROVE  /\ buf'[call'[q].at].tag = call'[q].tag /\ buf'[call'[q].at].own = 0
                      /\ buf'[call'[q].at].valid = 1
    BY Zenon DEF HoldingOK
  <2>1. CASE q = p
    BY <1>3, <1>4, <2>1, Zenon
  <2>2. CASE q # p
    <3>1. pc[q] = "holding" /\ call'[q] = call[q]
      BY <1>3, <2>2, Zenon DEF Same
    <3> QED
      BY <1>4, <1>9, <2>2, <3>1 DEF IInv, HoldingOK, Using
  <2> QED
    BY <2>1, <2>2, Zenon
<1>11. ReadingOK'
  <2> SUFFICES ASSUME NEW q \in Procs, pc'[q] = "reading"
               PROVE  /\ buf'[call'[q].at].tag = call'[q].tag /\ buf'[call'[q].at].own = 1
                      /\ buf'[call'[q].at].valid = 0 /\ buf'[call'[q].at].dirty = 0
                      /\ {r \in Procs : pc'[r] \in {"reading", "holding"} /\ call'[r].at = call'[q].at} = {q}
    BY Zenon DEF ReadingOK, Users
  <2>1. q # p /\ pc[q] = "reading" /\ call'[q] = call[q]
    BY <1>3, Zenon DEF Same
  <2>2. call[q].at # i /\ call[q].at \in Buffers
    BY <1>9, <2>1, Zenon DEF Using
  <2>3. Users(call[q].at) = {r \in Procs : pc'[r] \in {"reading", "holding"} /\ call'[r].at = call'[q].at}
    BY <1>0, <1>3, <2>1, <2>2, Zenon DEF Users, Same, Using
  <2> QED
    BY <1>4, <2>1, <2>2, <2>3 DEF IInv, ReadingOK
<1>12. WritingOK'
  <2>1. \A q \in Procs : pc'[q] # "writing"
    BY <1>0, <1>3, Alone DEF IInv, Same
  <2> QED
    BY <2>1, Zenon DEF WritingOK
<1>13. TagsOK'
  <2>1. \A j \in Buffers : buf'[j].tag = buf[j].tag
    BY <1>1, <1>4, Zenon
  <2>2. \A j, k \in Buffers : buf'[j].tag = buf'[k].tag /\ buf'[j].tag # NoTag => j = k
    BY <2>1, Zenon DEF IInv, TagsOK
  <2>3. \A j \in Buffers : /\ buf'[j].tag # NoTag /\ buf'[j].own = 0 => buf'[j].valid = 1
                           /\ buf'[j].valid = 1 => buf'[j].tag # NoTag
                           /\ buf'[j].dirty = 1 => buf'[j].valid = 1 /\ load.writers # {}
    BY <1>1, <1>4 DEF IInv, TagsOK
  <2> QED
    BY <2>2, <2>3, Zenon DEF TagsOK, Buffers
<1>14. DataOK'
  BY <1>0, <1>4, Zenon DEF IInv, DataOK, Buffers
<1>15. Durable'
  <2>1. UNCHANGED <<disk, last>>
    BY <1>0, Zenon
  <2> SUFFICES ASSUME NEW u \in Tags
               PROVE  \/ disk[u] = last[u]
                      \/ \E j \in Buffers : buf'[j].tag = u /\ buf'[j].dirty = 1 /\ buf'[j].data = last[u]
    BY <2>1, Zenon DEF Durable, Buffers
  <2> QED
    BY <1>1, <1>4 DEF IInv, Durable
<1> QED
  BY <1>5, <1>7, <1>8, <1>10, <1>11, <1>12, <1>13, <1>14, <1>15, Zenon DEF IInv

\* A holder changes its sector.
LEMMA DirtStep ==
  ASSUME IInv, NEW p \in Procs, NEW v \in Values, dirt_buffer(p, v), UNCHANGED load
  PROVE  IInv'
<1> DEFINE i == call[p].at
           t == call[p].tag
<1>0. /\ Runs(p) /\ p \in load.writers /\ pc[p] = "holding"
      /\ buf' = [buf EXCEPT ![i].data = v, ![i].dirty = 1]
      /\ last' = [last EXCEPT ![t] = v]
  BY Zenon DEF dirt_buffer
<1>1. UNCHANGED <<lru, pc, call, disk>>
  BY Zenon DEF dirt_buffer
<1>2. /\ i \in Buffers /\ t \in Tags /\ t # NoTag /\ buf[i] \in Counter
      /\ buf[i].tag = t /\ buf[i].own = 0 /\ buf[i].valid = 1
  BY <1>0, TagAssumption, Zenon DEF IInv, Types, HoldingOK, CallsOK
<1>3. /\ \A j \in Buffers : /\ buf'[j].tag = buf[j].tag /\ buf'[j].valid = buf[j].valid
                            /\ buf'[j].own = buf[j].own /\ buf'[j].ref = buf[j].ref
      /\ \A j \in Buffers \ {i} : buf'[j] = buf[j]
      /\ buf'[i].dirty = 1 /\ buf'[i].data = v
      /\ buf' \in [Buffers -> Counter]
  <2> DEFINE c == [buf[i] EXCEPT !.data = v, !.dirty = 1]
  <2>1. /\ c.tag = t /\ c.ref = buf[i].ref /\ c.dirty = 1 /\ c.own = 0 /\ c.valid = 1 /\ c.data = v
    BY <1>2, Zenon DEF Counter
  <2>2. c \in Counter
    BY <1>2, Zenon DEF Counter
  <2>3. buf' = [buf EXCEPT ![i] = c]
    BY <1>0, <1>2, Zenon DEF IInv, Types
  <2> HIDE DEF c
  <2> QED
    BY <1>2, <2>1, <2>2, <2>3, Zenon DEF IInv, Types
<1>4. last' \in [Tags -> Values] /\ last'[t] = v /\ \A u \in Tags \ {t} : last'[u] = last[u]
  BY <1>0, <1>2, Zenon DEF IInv, Types
<1>5. Types'
  BY <1>1, <1>3, <1>4, Zenon DEF IInv, Types, Whole
<1>6. \A j \in Buffers : Users(j)' = Users(j)
  BY <1>1, Zenon DEF Users
<1>7. Counted'
  <2> SUFFICES ASSUME NEW j \in Buffers PROVE buf'[j].ref = Cardinality(Users(j)')
    BY Zenon DEF Counted, Buffers
  <2> QED
    BY <1>3, <1>6, Zenon DEF IInv, Counted
<1>8. CallsOK'
  BY <1>1, Zenon DEF IInv, CallsOK, Buffers
<1>9. \A q \in Procs : pc[q] # "idle" => call[q].at \in Buffers
  BY Zenon DEF IInv, CallsOK
<1>10. HoldingOK'
  <2> SUFFICES ASSUME NEW q \in Procs, pc[q] = "holding"
               PROVE  /\ buf'[call[q].at].tag = call[q].tag /\ buf'[call[q].at].own = 0
                      /\ buf'[call[q].at].valid = 1
    BY <1>1, Zenon DEF HoldingOK
  <2> QED
    BY <1>3, <1>9 DEF IInv, HoldingOK
<1>11. ReadingOK'
  <2> SUFFICES ASSUME NEW q \in Procs, pc[q] = "reading"
               PROVE  /\ buf'[call[q].at].tag = call[q].tag /\ buf'[call[q].at].own = 1
                      /\ buf'[call[q].at].valid = 0 /\ buf'[call[q].at].dirty = 0
                      /\ Users(call[q].at) = {q}
    BY <1>1, Zenon DEF ReadingOK, Users
  <2>1. call[q].at \in Buffers /\ call[q].at # i
    BY <1>2, <1>9 DEF IInv, ReadingOK
  <2> QED
    BY <1>3, <2>1, SMTT(20) DEF IInv, ReadingOK
<1>12. WritingOK'
  <2>1. \A q \in Procs : pc'[q] # "writing"
    BY <1>0, <1>1, Alone, Zenon DEF IInv
  <2> QED
    BY <2>1, Zenon DEF WritingOK
<1>13. TagsOK'
  <2>1. \A j, k \in Buffers : buf'[j].tag = buf'[k].tag /\ buf'[j].tag # NoTag => j = k
    BY <1>3, SMTT(20) DEF IInv, TagsOK
  <2>2. \A j \in Buffers : /\ buf'[j].tag # NoTag /\ buf'[j].own = 0 => buf'[j].valid = 1
                           /\ buf'[j].valid = 1 => buf'[j].tag # NoTag
                           /\ buf'[j].dirty = 1 => buf'[j].valid = 1 /\ load.writers # {}
    BY <1>0, <1>2, <1>3, ZenonT(30) DEF IInv, TagsOK
  <2> QED
    BY <2>1, <2>2, Zenon DEF TagsOK, Buffers
<1>14. DataOK'
  <2> SUFFICES ASSUME NEW j \in Buffers, buf'[j].valid = 1 PROVE buf'[j].data = last'[buf'[j].tag]
    BY Zenon DEF DataOK, Buffers
  <2>1. CASE j = i
    BY <1>2, <1>3, <1>4, <2>1, Zenon
  <2>2. CASE j # i
    <3>1. buf'[j] = buf[j] /\ buf[j].tag # t /\ buf[j].tag \in Tags
      BY <1>2, <1>3, <2>2 DEF IInv, TagsOK, Types, Counter
    <3> QED
      BY <1>4, <3>1, Zenon DEF IInv, DataOK
  <2> QED
    BY <2>1, <2>2, Zenon
<1>15. Durable'
  <2> SUFFICES ASSUME NEW u \in Tags
               PROVE  \/ disk[u] = last'[u]
                      \/ \E j \in Buffers : buf'[j].tag = u /\ buf'[j].dirty = 1 /\ buf'[j].data = last'[u]
    BY <1>1, Zenon DEF Durable, Buffers
  <2>1. CASE u = t
    BY <1>2, <1>3, <1>4, <2>1, Zenon
  <2>2. CASE u # t
    BY <1>2, <1>3, <1>4, <2>2 DEF IInv, Durable
  <2> QED
    BY <2>1, <2>2, Zenon
<1> QED
  BY <1>5, <1>7, <1>8, <1>10, <1>11, <1>12, <1>13, <1>14, <1>15, Zenon DEF IInv

\* A user leaves, the last one moving the buffer to the front.
LEMMA ReleaseStep ==
  ASSUME IInv, NEW p \in Procs, release_buffer_sync(p), UNCHANGED load,
         NEW i \in Buffers, i = call[p].at
  PROVE  IInv'
<1>0. /\ Runs(p) /\ pc[p] = "holding" /\ buf' = [buf EXCEPT ![i].ref = dropped(@)]
      /\ lru' = lru \/ lru' = front(lru, i)
      /\ pc' = [pc EXCEPT ![p] = "idle"] /\ call' = [call EXCEPT ![p] = NoCall]
  BY Zenon DEF release_buffer_sync
<1>1. UNCHANGED <<disk, last>>
  BY Zenon DEF release_buffer_sync
<1>2. i \in Buffers /\ buf[i] \in Counter /\ buf[i].own = 0
  BY <1>0, Zenon DEF IInv, Types, HoldingOK, CallsOK
<1>3. Same(p) /\ pc'[p] = "idle"
  BY <1>0, Zenon DEF Same, IInv, Types
<1>4. /\ Users(i)' = Users(i) \ {p} /\ \A j \in Buffers \ {i} : Users(j)' = Users(j)
      /\ Cardinality(Users(i)') = Cardinality(Users(i)) - 1 /\ Cardinality(Users(i)) >= 1
  BY <1>0, <1>3, Leaves, Zenon DEF Using
<1>5. /\ \A j \in Buffers : /\ buf'[j].tag = buf[j].tag /\ buf'[j].valid = buf[j].valid
                            /\ buf'[j].own = buf[j].own /\ buf'[j].dirty = buf[j].dirty
                            /\ buf'[j].data = buf[j].data
      /\ \A j \in Buffers \ {i} : buf'[j] = buf[j]
      /\ buf'[i].ref = buf[i].ref - 1
      /\ buf' \in [Buffers -> Counter]
  <2> DEFINE c == [buf[i] EXCEPT !.ref = dropped(@)]
  <2>0. buf[i].ref = Cardinality(Users(i)) /\ buf[i].ref \in Nat
    BY <1>2, Zenon DEF IInv, Counted, Counter
  <2>1. buf[i].ref - 1 \in Nat
    BY <1>4, <2>0
  <2>2. /\ c.tag = buf[i].tag /\ c.ref = buf[i].ref - 1 /\ c.dirty = buf[i].dirty /\ c.own = buf[i].own
        /\ c.valid = buf[i].valid /\ c.data = buf[i].data
    BY <1>2, Zenon DEF Counter, dropped
  <2>3. c \in Counter
    BY <1>2, <2>1 DEF Counter, dropped
  <2>4. buf' = [buf EXCEPT ![i] = c]
    BY <1>0, Zenon
  <2> HIDE DEF c
  <2> QED
    BY <1>2, <2>2, <2>3, <2>4, Zenon DEF IInv, Types
<1>6. Types'
  <2>1. Whole(lru')
    BY <1>0, <1>2, FrontWhole, Zenon DEF IInv, Types
  <2>2. pc' \in [Procs -> PcType] /\ call' \in [Procs -> CallType]
    BY <1>0, CountAssumption DEF IInv, Types, PcType, CallType, NoCall
  <2>3. Whole(lru)'
    BY <2>1, Zenon DEF Whole, Buffers
  <2> QED
    BY <1>1, <1>5, <2>2, <2>3, Zenon DEF IInv, Types
<1>7. Counted'
  <2> SUFFICES ASSUME NEW j \in Buffers PROVE buf'[j].ref = Cardinality(Users(j)')
    BY Zenon DEF Counted, Buffers
  <2> QED
    BY <1>4, <1>5, ZenonT(30) DEF IInv, Counted
<1>8. CallsOK'
  BY <1>3, Zenon DEF IInv, CallsOK, Same, Buffers
<1>9. \A q \in Procs \ {p} : pc[q] # "idle" => call[q].at \in Buffers
  BY Zenon DEF IInv, CallsOK
<1>10. HoldingOK'
  <2> SUFFICES ASSUME NEW q \in Procs, pc'[q] = "holding"
               PROVE  /\ buf'[call'[q].at].tag = call'[q].tag /\ buf'[call'[q].at].own = 0
                      /\ buf'[call'[q].at].valid = 1
    BY Zenon DEF HoldingOK
  <2>1. q # p /\ pc[q] = "holding" /\ call'[q] = call[q] /\ call[q].at \in Buffers
    BY <1>3, <1>9, Zenon DEF Same
  <2> QED
    BY <1>5, <2>1 DEF IInv, HoldingOK
<1>11. ReadingOK'
  <2> SUFFICES ASSUME NEW q \in Procs, pc'[q] = "reading"
               PROVE  /\ buf'[call'[q].at].tag = call'[q].tag /\ buf'[call'[q].at].own = 1
                      /\ buf'[call'[q].at].valid = 0 /\ buf'[call'[q].at].dirty = 0
                      /\ {r \in Procs : pc'[r] \in {"reading", "holding"} /\ call'[r].at = call'[q].at} = {q}
    BY Zenon DEF ReadingOK, Users
  <2>1. q # p /\ pc[q] = "reading" /\ call'[q] = call[q] /\ call[q].at \in Buffers
    BY <1>3, <1>9, Zenon DEF Same
  <2>2. call[q].at # i
    BY <1>2, <2>1 DEF IInv, ReadingOK
  <2>3. Users(call[q].at) = {r \in Procs : pc'[r] \in {"reading", "holding"} /\ call'[r].at = call'[q].at}
    BY <1>3, <2>1, <2>2, Zenon DEF Users, Same
  <2> QED
    BY <1>5, <2>1, <2>2, <2>3 DEF IInv, ReadingOK
<1>12. WritingOK'
  <2>1. \A q \in Procs : pc'[q] # "writing"
    BY <1>0, <1>3, Alone, Zenon DEF IInv, Same
  <2> QED
    BY <2>1, Zenon DEF WritingOK
<1>13. TagsOK'
  <2>1. \A j, k \in Buffers : buf'[j].tag = buf'[k].tag /\ buf'[j].tag # NoTag => j = k
    BY <1>5 DEF IInv, TagsOK
  <2>2. \A j \in Buffers : /\ buf'[j].tag # NoTag /\ buf'[j].own = 0 => buf'[j].valid = 1
                           /\ buf'[j].valid = 1 => buf'[j].tag # NoTag
                           /\ buf'[j].dirty = 1 => buf'[j].valid = 1 /\ load.writers # {}
    BY <1>5 DEF IInv, TagsOK
  <2> QED
    BY <2>1, <2>2, Zenon DEF TagsOK, Buffers
<1>14. DataOK' /\ Durable'
  BY <1>1, <1>5 DEF IInv, DataOK, Durable, Buffers
<1> QED
  BY <1>6, <1>7, <1>8, <1>10, <1>11, <1>12, <1>13, <1>14, Zenon DEF IInv

\* The kernel that an assertion has stopped keeps what it had.
LEMMA Unchanged == IInv /\ UNCHANGED <<buf, lru, pc, call, disk, last, load>> => IInv'
<1> SUFFICES ASSUME IInv, UNCHANGED <<buf, lru, pc, call, disk, last, load>> PROVE IInv'
  BY Zenon
<1>1. Types' /\ CallsOK' /\ HoldingOK'
  BY Zenon DEF IInv, Types, Whole, CallsOK, HoldingOK
<1>2. Counted' /\ ReadingOK'
  <2>1. \A j : Users(j)' = Users(j)
    BY Zenon DEF Users
  <2>2. \A j \in Buffers : buf'[j].ref = Cardinality(Users(j)')
    BY <2>1, Zenon DEF IInv, Counted
  <2>3. \A p \in Procs : Users(call[p].at)' = Users(call[p].at)
    BY Zenon DEF Users
  <2> QED
    BY <2>2, <2>3, Zenon DEF IInv, Counted, ReadingOK, Buffers
<1>3. WritingOK'
  BY Zenon DEF IInv, WritingOK, search
<1>4. TagsOK' /\ DataOK' /\ Durable'
  BY Zenon DEF IInv, TagsOK, DataOK, Durable
<1> QED
  BY <1>1, <1>2, <1>3, <1>4, Zenon DEF IInv

\* Every step keeps the invariant.
LEMMA StepInv == IInv /\ [Next]_vars => IInv'
<1> SUFFICES ASSUME IInv, [Next]_vars PROVE IInv'
  BY Zenon
<1>1. CASE UNCHANGED <<buf, lru, pc, call, disk, last, load>>
  BY <1>1, Unchanged, Zenon
<1>2. ASSUME UNCHANGED load, NEW p \in Procs, NEW t \in Tags, read_sync(p, t) PROVE IInv'
  <2>1. CASE panic' = "no"
    BY <1>2, <2>1, GetStep, Zenon
  <2>2. CASE panic' # "no"
    <3>1. UNCHANGED <<buf, lru, pc, call, disk, last>>
      BY <1>2, <2>2, Zenon DEF read_sync, Runs, Hit, Miss, Panic
    <3> QED
      BY <1>1, <1>2, <3>1, Zenon
  <2> QED
    BY <2>1, <2>2, Zenon
<1>3. ASSUME UNCHANGED load, NEW p \in Procs, release_buffer_sync(p) PROVE IInv'
  <2>1. call[p].at \in Buffers
    BY <1>3, Zenon DEF release_buffer_sync, IInv, CallsOK
  <2> QED
    BY <1>3, <2>1, ReleaseStep, Zenon
<1>4. ASSUME UNCHANGED load, NEW p \in Procs, WriteDone(p) \/ ReadDone(p) PROVE IInv'
  BY <1>4, WriteDoneStep, ReadDoneStep, Zenon
<1>5. ASSUME UNCHANGED load, NEW p \in Procs, NEW v \in Values, dirt_buffer(p, v) PROVE IInv'
  BY <1>5, DirtStep, Zenon
<1>6. CASE UNCHANGED vars
  BY <1>1, <1>6, Zenon DEF vars
<1> QED
  BY <1>2, <1>3, <1>4, <1>5, <1>6, Zenon DEF Next

\* The invariant holds throughout, however calls, waits and releases interleave.
THEOREM Invariance == Spec => []IInv
BY InitInv, StepInv, PTL DEF Spec

\* With as many buffers as processes alloc_buffer finds one: who asks uses
\* none, so the others cannot use them all.
LEMMA AlwaysOne ==
  ASSUME IInv, NEW p \in Procs, pc[p] = "idle", Cardinality(Procs) <= Count
  PROVE  unused # {}
<1> SUFFICES ASSUME unused = {} PROVE FALSE
  BY Zenon
<1> DEFINE S == Procs \ {p}
           f == [i \in Buffers |-> CHOOSE q \in S : q \in Users(i)]
<1>1. \A i \in Buffers : \E q \in S : q \in Users(i)
  <2> TAKE i \in Buffers
  <2>1. PICK k \in 1 .. Count : lru[k] = i
    BY Zenon DEF IInv, Types, Whole
  <2>2. buf[i].ref # 0
    BY <2>1, Zenon DEF unused
  <2>3. Users(i) # {}
    BY <2>2, UsersFinite, Zenon DEF IInv, Counted
  <2> QED
    BY <2>3, Zenon DEF Users
<1>2. \A i \in Buffers : f[i] \in S /\ f[i] \in Users(i)
  BY <1>1, Zenon
<1>3. f \in [Buffers -> S]
  BY <1>2, Zenon
<1>4. \A i, j \in Buffers : f[i] = f[j] => i = j
  <2> HIDE DEF f
  <2> QED
    BY <1>2, Zenon DEF Users
<1>5. IsFiniteSet(Buffers) /\ Cardinality(Buffers) = Count
  BY FS_Interval, CountAssumption DEF Buffers
<1>6. IsFiniteSet(S) /\ Cardinality(S) = Cardinality(Procs) - 1
  BY FS_RemoveElement, LoadAssumption, Zenon
<1>7. Cardinality(S) < Cardinality(Buffers)
  <2>1. Cardinality(Procs) \in Nat
    BY FS_CardinalityType, LoadAssumption, Zenon
  <2> QED
    BY <1>5, <1>6, <2>1, CountAssumption
<1> HIDE DEF f, S
<1> QED
  BY <1>3, <1>4, <1>5, <1>6, <1>7, FS_PigeonHole

\* The invariant has the types and the counts that RefsCount promises.
LEMMA InvTypes == IInv => TypeOK /\ \A i \in Buffers : buf[i].ref = Cardinality(Users(i))
<1> SUFFICES ASSUME IInv PROVE TypeOK /\ \A i \in Buffers : buf[i].ref = Cardinality(Users(i))
  BY Zenon
<1>0. Whole(lru) /\ Counted /\ buf \in [Buffers -> Counter]
  BY Zenon DEF IInv, Types
<1>1. ASSUME NEW i \in Buffers PROVE buf[i].ref \in 0 .. Cardinality(Procs)
  <2>1. /\ Cardinality(Users(i)) \in Nat /\ Cardinality(Procs) \in Nat
        /\ Cardinality(Users(i)) <= Cardinality(Procs)
    BY UsersFinite, Zenon
  <2> QED
    BY <1>0, <2>1 DEF Counted
<1>2. \A i \in Buffers : buf[i] \in BufType
  BY <1>0, <1>1, Zenon DEF Counter, BufType
<1>3. Len(lru) = Count /\ lru \in [1 .. Count -> Buffers]
  BY <1>0, CountAssumption DEF Whole
<1>4. Range(lru) = Buffers
  BY <1>0, <1>3 DEF Range, Whole
<1>5. /\ pc \in [Procs -> {"idle", "writing", "reading", "holding"}] /\ call \in [Procs -> CallType]
      /\ disk \in [Tags -> Values] /\ last \in [Tags -> Values]
  BY Zenon DEF IInv, Types, PcType
<1>6. buf \in [Buffers -> BufType]
  BY <1>0, <1>2, Zenon
<1> QED
  BY <1>0, <1>3, <1>4, <1>5, <1>6, Zenon DEF TypeOK, Counted

(* _ref_cnt counts the users of a buffer, whatever interleaves; and where  *)
(* there are as many buffers as processes, as in the kernel, the assertion *)
(* "try to get buffer fail" never stops it.                                *)
THEOREM RefsAlwaysCount ==
  ASSUME Cardinality(Procs) <= Count
  PROVE  Spec => []RefsCount
<1> DEFINE Found == panic # "try to get buffer fail"
<1>1. Init => Found
  BY Zenon DEF Init
<1>2. IInv /\ Found /\ [Next]_vars => Found'
  <2> SUFFICES ASSUME IInv, Found, [Next]_vars PROVE Found'
    BY Zenon
  <2>1. ASSUME NEW p \in Procs, NEW t \in Tags, read_sync(p, t) PROVE Found'
    <3>1. pc[p] = "idle"
      BY <2>1, Zenon DEF read_sync
    <3>2. unused # {}
      BY <3>1, AlwaysOne, Zenon
    <3>3. CASE Hit(p, t)
      BY <3>3, Zenon DEF Hit, Panic
    <3>4. CASE Miss(p, t)
      BY <3>2, <3>4, Zenon DEF Miss
    <3> QED
      BY <2>1, <3>3, <3>4, Zenon DEF read_sync
  <2>2. ASSUME NEW p \in Procs, WriteDone(p) PROVE Found'
    BY <2>2, Zenon DEF WriteDone
  <2>3. ASSUME NEW p \in Procs, ReadDone(p) PROVE Found'
    BY <2>3, Zenon DEF ReadDone
  <2>4. ASSUME NEW p \in Procs, NEW v \in Values, dirt_buffer(p, v) PROVE Found'
    BY <2>4, Zenon DEF dirt_buffer
  <2>5. ASSUME NEW p \in Procs, release_buffer_sync(p) PROVE Found'
    BY <2>5, Zenon DEF release_buffer_sync
  <2>6. CASE UNCHANGED vars
    BY <2>6, Zenon DEF vars
  <2> QED
    BY <2>1, <2>2, <2>3, <2>4, <2>5, <2>6, Zenon DEF Next
<1>3. IInv /\ Found => RefsCount
  BY InvTypes, Zenon DEF RefsCount
<1> QED
  BY <1>1, <1>2, <1>3, Invariance, PTL DEF Spec

(* A process that read_sync has returned to holds the sector it asked for, *)
(* valid and as last written; no sector is in two buffers.                 *)
THEOREM HeldAlwaysRight == Spec => []HeldRight
<1>1. IInv => HeldRight
  <2> SUFFICES ASSUME IInv PROVE HeldRight
    BY Zenon
  <2>1. \A p \in Procs : pc[p] = "holding" => call[p].at \in Buffers
    BY Zenon DEF IInv, CallsOK
  <2> QED
    BY <2>1 DEF IInv, HeldRight, TagsOK, HoldingOK, DataOK
<1> QED
  BY <1>1, Invariance, PTL

\* What was written through the cache is in a buffer or on the disk.
THEOREM AlwaysDurable == Spec => []Durable
<1>1. IInv => Durable
  BY Zenon DEF IInv
<1> QED
  BY <1>1, Invariance, PTL
============================================================================
