--------------------------- MODULE Ext4PoolProofs ---------------------------
(***************************************************************************)
(* The pool of ext4 blocks, for any number of processes, blocks, buffers   *)
(* and sectors.                                                            *)
(***************************************************************************)
EXTENDS Ext4Pool, WellFoundedInduction, TLAPS

\* Every buffer is at one place of the list.
Whole(l) == /\ l \in [1 .. Count -> Buffers]
            /\ \A j, k \in 1 .. Count : l[j] = l[k] => j = k
            /\ \A n \in Buffers : \E k \in 1 .. Count : l[k] = n

\* What a call knows of its arguments
CallsOK == \A p \in Procs :
  /\ pc[p] # "idle" => call[p].block \in Blocks
  /\ pc[p] = "fill" => call[p].at \in Buffers /\ call[p].i \in 1 .. NumSector

\* While calls come one after the other: one at a time,
OneCall == \A p, q \in Procs : pc[p] # "idle" /\ pc[q] # "idle" => p = q

\* for a block nobody holds; and what is held is held once,
HeldOnce == /\ \A p, q \in Procs : pc[p] # "idle" => \A h \in held[q] : h.block # call[p].block
            /\ \A p, q \in Procs : \A h \in held[p], g \in held[q] : h.block = g.block => p = q /\ h = g

\* pinned, and is the block the buffer has;
HeldIs == \A p \in Procs : \A h \in held[p] :
            buf[h.at].pinned = 1 /\ buf[h.at].valid = 1 /\ buf[h.at].block = h.block

\* a block is cached once,
CachedOnce == \A m, n \in Buffers :
                buf[m].valid = 1 /\ buf[n].valid = 1 /\ buf[m].block = buf[n].block => m = n

\* whole unless its buffer is being filled with another.
Filling(n) == \E p \in Procs : pc[p] = "fill" /\ call[p].at = n
CachedWhole == \A n \in Buffers : buf[n].valid = 1 /\ ~Filling(n) =>
                 \A i \in 1 .. NumSector : buf[n].data[i] = buf[n].block

\* What a search has passed does not match, what it found does, and what is
\* being read is not cached.
NotCached(b) == \A n \in Buffers : ~matches(n, b)
SearchOK == \A p \in Procs :
  /\ pc[p] = "search" => IF call[p].at = ListHead THEN NotCached(call[p].block)
                         ELSE \E k \in 1 .. Count : /\ list[k] = call[p].at
                                                    /\ \A j \in 1 .. k - 1 : ~matches(list[j], call[p].block)
  /\ pc[p] = "enter" => IF call[p].at = ListHead THEN NotCached(call[p].block)
                        ELSE matches(call[p].at, call[p].block)
  /\ pc[p] = "fill" => /\ NotCached(call[p].block) /\ buf[call[p].at].pinned = 0
                       /\ \A i \in 1 .. call[p].i - 1 : buf[call[p].at].data[i] = call[p].block

Apart == OneCall /\ HeldOnce /\ HeldIs /\ CachedOnce /\ CachedWhole /\ SearchOK

IInv == TypeOK /\ Whole(list) /\ CallsOK /\ (apart = 1 => Apart)

----------------------------------------------------------------------------
\* A set of places has a last one: _alloc_buffer's walk from the far end stops.
LEMMA LastPlace ==
  ASSUME NEW T \in SUBSET (1 .. Count), T # {}
  PROVE  Max(T) \in T
<1> USE PoolAssumption
<1> DEFINE U == {u \in Nat : \E k \in T : u = Count - k}
<1>1. U \in SUBSET Nat /\ U # {}
  <2>1. PICK k \in T : TRUE
    BY Zenon
  <2>2. Count - k \in U
    OBVIOUS
  <2> QED
    BY <2>2, Zenon
<1>2. PICK u \in U : \A v \in U : ~(<<v, u>> \in OpToRel(<, Nat))
  BY <1>1, WFMin, NatLessThanWellFounded, Zenon
<1>3. PICK k \in T : u = Count - k
  BY Zenon
<1>4. \A j \in T : k >= j
  <2> TAKE j \in T
  <2>1. Count - j \in U /\ Count - j \in Nat /\ u \in Nat /\ k \in Nat /\ j \in Nat
    BY <1>3
  <2>2. ~(Count - j < u)
    BY <1>2, <2>1, Zenon DEF OpToRel
  <2> QED
    BY <1>3, <2>1, <2>2
<1> QED
  BY <1>4, Zenon DEF Max

\* Where a node is.
LEMMA PositionIs ==
  ASSUME NEW l, Whole(l), NEW n \in Buffers
  PROVE  Len(l) = Count /\ Position(l, n) \in 1 .. Count /\ l[Position(l, n)] = n
<1>1. Len(l) = Count
  BY PoolAssumption DEF Whole
<1> QED
  BY <1>1, Zenon DEF Whole, Position

\* _remove and _insert_front of a node keep every node in the list once.
LEMMA UsedWhole ==
  ASSUME NEW l, Whole(l), NEW n \in Buffers
  PROVE  Whole(used(l, n))
<1> DEFINE m == Position(l, n)
           u == used(l, n)
<1>1. Len(l) = Count /\ m \in 1 .. Count /\ l[m] = n
  BY PositionIs, Zenon
<1> HIDE DEF m
<1>2. u = [k \in 1 .. Count |-> IF k = 1 THEN n ELSE IF k <= m THEN l[k - 1] ELSE l[k]]
  BY <1>1, Zenon DEF used, m
<1> HIDE DEF u
<1>3. \A k \in 1 .. Count : u[k] = l[IF k = 1 THEN m ELSE IF k <= m THEN k - 1 ELSE k]
  BY <1>1, <1>2, Zenon
<1>4. u \in [1 .. Count -> Buffers]
  BY <1>1, <1>2, PoolAssumption DEF Whole
<1>5. \A j, k \in 1 .. Count : u[j] = u[k] => j = k
  <2> TAKE j \in 1 .. Count, k \in 1 .. Count
  <2> DEFINE f(x) == IF x = 1 THEN m ELSE IF x <= m THEN x - 1 ELSE x
  <2>1. f(j) \in 1 .. Count /\ f(k) \in 1 .. Count /\ (f(j) = f(k) => j = k)
    BY <1>1, PoolAssumption
  <2>2. u[j] = l[f(j)] /\ u[k] = l[f(k)]
    BY <1>3, Zenon
  <2> HIDE DEF f
  <2> QED
    BY <2>1, <2>2, Zenon DEF Whole
<1>6. ASSUME NEW x \in Buffers PROVE \E k \in 1 .. Count : u[k] = x
  <2>1. PICK k \in 1 .. Count : l[k] = x
    BY Zenon DEF Whole
  <2> DEFINE y == IF k = m THEN 1 ELSE IF k < m THEN k + 1 ELSE k
  <2>2. y \in 1 .. Count /\ u[y] = l[k]
    BY <1>1, <1>3, PoolAssumption
  <2> QED
    BY <2>1, <2>2, Zenon
<1> QED
  BY <1>4, <1>5, <1>6, Zenon DEF Whole, u

----------------------------------------------------------------------------
\* A pool nobody has used satisfies the invariant.
LEMMA InitInv == Init => IInv
<1> SUFFICES ASSUME Init PROVE IInv
  BY Zenon
<1> USE PoolAssumption DEF Init
<1>1. TypeOK
  BY DEF TypeOK, BufType, CallType, HoldType, NoCall, Buffers
<1>2. Whole(list)
  <2>1. \A n \in Buffers : Count + 1 - n \in 1 .. Count /\ list[Count + 1 - n] = n
    BY DEF Buffers
  <2> QED
    BY <2>1, Zenon DEF Whole, Buffers
<1>3. CallsOK /\ OneCall /\ HeldOnce /\ HeldIs /\ SearchOK
  BY Zenon DEF CallsOK, OneCall, HeldOnce, HeldIs, SearchOK
<1>4. CachedOnce /\ CachedWhole
  BY DEF CachedOnce, CachedWhole
<1> QED
  BY <1>1, <1>2, <1>3, <1>4, Zenon DEF IInv, Apart

\* What every step leaves of the types, the list and the arguments of calls.
Shape == TypeOK /\ Whole(list) /\ CallsOK

\* The end of request_block keeps them.
LEMMA ReturnShape ==
  ASSUME Shape, NEW p \in Procs, NEW n \in Buffers, NEW b \in Blocks, Return(p, n, b),
         buf' \in [Buffers -> BufType], UNCHANGED apart
  PROVE  Shape'
<1>1. TypeOK'
  <2>1. held' \in [Procs -> SUBSET HoldType]
    BY DEF Shape, TypeOK, Return, HoldType
  <2>2. pc' \in [Procs -> {"idle", "search", "enter", "fill"}] /\ call' \in [Procs -> CallType]
    BY PoolAssumption DEF Shape, TypeOK, Return, CallType, NoCall
  <2> QED
    BY <2>1, <2>2, Zenon DEF Shape, TypeOK
<1>2. Whole(list)'
  <2>1. Whole(list') 
    BY UsedWhole, Zenon DEF Shape, Return
  <2> QED
    BY <2>1, Zenon DEF Whole, Buffers
<1>3. CallsOK'
  BY Zenon DEF Shape, TypeOK, CallsOK, Return
<1> QED
  BY <1>1, <1>2, <1>3, Zenon DEF Shape

\* So does every step, whatever calls overlap.
LEMMA ShapeKept == Shape /\ [Next]_vars => Shape'
<1> SUFFICES ASSUME Shape, [Next]_vars PROVE Shape'
  BY Zenon
<1> USE PoolAssumption
<1>0. 1 \in 1 .. Count /\ 1 \in 0 .. NumSector /\ 0 \in 0 .. NumSector /\ 1 \in 1 .. NumSector
  OBVIOUS
<1>1. ASSUME NEW p \in Procs, NEW b \in Blocks, request_block(p, b) PROVE Shape'
  <2>1. list[1] \in Buffers
    BY <1>0, Zenon DEF Shape, Whole
  <2>2. TypeOK'
    <3>1. call' \in [Procs -> CallType]
      BY <1>0, <1>1, <2>1, Zenon DEF Shape, TypeOK, request_block, CallType
    <3> QED
      BY <1>1, <3>1, Zenon DEF Shape, TypeOK, request_block
  <2>3. Whole(list)' /\ CallsOK'
    BY <1>1, Zenon DEF Shape, TypeOK, Whole, CallsOK, request_block
  <2> QED
    BY <2>2, <2>3, Zenon DEF Shape
<1>2. ASSUME NEW p \in Procs, _search_buffer(p) PROVE Shape'
  <2>1. CASE UNCHANGED call
    BY <1>2, <2>1 DEF Shape, TypeOK, Whole, CallsOK, _search_buffer
  <2>2. CASE call[p].at # ListHead /\ call' = [call EXCEPT ![p].at = NextNode(call[p].at)] /\ UNCHANGED pc
    <3>1. call[p].at \in Buffers
      BY <2>2, Zenon DEF Shape, TypeOK, CallType
    <3>2. NextNode(call[p].at) \in Buffers \cup {ListHead}
      <4> DEFINE m == Position(list, call[p].at)
      <4>1. m \in 1 .. Count
        BY <3>1, PositionIs, Zenon DEF Shape
      <4>2. m # Count => list[m + 1] \in Buffers
        BY <4>1 DEF Shape, Whole
      <4> QED
        BY <4>2, Zenon DEF NextNode
    <3>3. call' \in [Procs -> CallType]
      BY <2>2, <3>2, Zenon DEF Shape, TypeOK, CallType
    <3>4. CallsOK'
      BY <1>2, <2>2, Zenon DEF Shape, TypeOK, CallType, CallsOK, _search_buffer
    <3> QED
      BY <1>2, <2>2, <3>3, <3>4, Zenon DEF Shape, TypeOK, Whole, _search_buffer
  <2> QED
    BY <1>2, <2>1, <2>2, Zenon DEF _search_buffer
<1>3. ASSUME NEW p \in Procs, Enter(p) PROVE Shape'
  <2>0. call[p].block \in Blocks /\ call[p].at \in Buffers \cup {ListHead}
    BY <1>3, Zenon DEF Enter, Shape, CallsOK, TypeOK, CallType
  <2>1. CASE call[p].at # ListHead
    <3>1. buf' \in [Buffers -> BufType]
      <4>1. buf' = [buf EXCEPT ![call[p].at].pinned = 1]
        BY <1>3, <2>1, Zenon DEF Enter
      <4> QED
        BY <2>0, <2>1, <4>1, ZenonT(30) DEF Shape, TypeOK, BufType
    <3> QED
      BY <1>3, <2>0, <2>1, <3>1, ReturnShape, Zenon DEF Enter
  <2>2. CASE call[p].at = ListHead /\ unpinned = {}
    <3>0. /\ call' = [call EXCEPT ![p] = NoCall] /\ pc' = [pc EXCEPT ![p] = "idle"]
          /\ UNCHANGED <<buf, list, held, apart>>
      BY <1>3, <2>2, Zenon DEF Enter
    <3>1. call' \in [Procs -> CallType] /\ pc' \in [Procs -> {"idle", "search", "enter", "fill"}]
      BY <1>0, <3>0, Zenon DEF Shape, TypeOK, CallType, NoCall
    <3>2. CallsOK'
      BY <3>0, Zenon DEF Shape, TypeOK, CallsOK
    <3> QED
      BY <3>0, <3>1, <3>2, Zenon DEF Shape, TypeOK, Whole
  <2>3. CASE call[p].at = ListHead /\ unpinned # {}
    <3>1. _alloc_buffer \in Buffers
      <4>1. Max(unpinned) \in 1 .. Count
        BY <2>3, LastPlace, Zenon DEF unpinned
      <4> QED
        BY <4>1, Zenon DEF _alloc_buffer, Shape, Whole
    <3>2. /\ call' = [call EXCEPT ![p] = [call[p] EXCEPT !.at = _alloc_buffer, !.i = 1]]
          /\ pc' = [pc EXCEPT ![p] = "fill"]
          /\ UNCHANGED <<buf, list, held, apart>>
      <4>1. /\ call' = [call EXCEPT ![p].at = _alloc_buffer, ![p].i = 1]
            /\ pc' = [pc EXCEPT ![p] = "fill"]
            /\ UNCHANGED <<buf, list, held, apart>>
        BY <1>3, <2>3, Zenon DEF Enter
      <4> QED
        BY <4>1, Zenon DEF Shape, TypeOK
    <3>3. call' \in [Procs -> CallType] /\ pc' \in [Procs -> {"idle", "search", "enter", "fill"}]
      BY <1>0, <3>1, <3>2, Zenon DEF Shape, TypeOK, CallType
    <3>4. CallsOK'
      BY <1>0, <2>0, <3>1, <3>2 DEF Shape, TypeOK, CallType, CallsOK
    <3> QED
      BY <3>2, <3>3, <3>4, Zenon DEF Shape, TypeOK, Whole
  <2> QED
    BY <2>1, <2>2, <2>3, Zenon
<1>4. ASSUME NEW p \in Procs, Fill(p) PROVE Shape'
  <2>0. call[p].block \in Blocks /\ call[p].at \in Buffers /\ call[p].i \in 1 .. NumSector
    BY <1>4, Zenon DEF Fill, Shape, CallsOK
  <2>1. CASE call[p].i < NumSector
    <3>1. /\ buf' = [buf EXCEPT ![call[p].at].data[call[p].i] = call[p].block]
          /\ call' = [call EXCEPT ![p].i = @ + 1]
          /\ UNCHANGED <<list, pc, held, apart>>
      BY <1>4, <2>1 DEF Fill
    <3>2. buf' \in [Buffers -> BufType]
      <4> DEFINE b == [buf[call[p].at] EXCEPT !.data[call[p].i] = call[p].block]
      <4>1. buf[call[p].at] \in BufType
        BY <2>0, Zenon DEF Shape, TypeOK
      <4>2. b \in BufType
        BY <2>0, <4>1, Zenon DEF BufType
      <4>3. buf' = [buf EXCEPT ![call[p].at] = b]
        BY <3>1, Zenon
      <4> HIDE DEF b
      <4> QED
        BY <2>0, <4>2, <4>3, Zenon DEF Shape, TypeOK
    <3>3. call' \in [Procs -> CallType]
      <4>1. call[p] \in CallType /\ call[p].i + 1 \in 0 .. NumSector
        BY <2>0, <2>1 DEF Shape, TypeOK
      <4>2. [call[p] EXCEPT !.i = @ + 1] \in CallType
        BY <4>1, Zenon DEF CallType
      <4> QED
        BY <3>1, <4>2, Zenon DEF Shape, TypeOK
    <3>4. CallsOK'
      BY <2>0, <2>1, <3>1 DEF Shape, TypeOK, CallType, CallsOK
    <3> QED
      BY <3>1, <3>2, <3>3, <3>4, Zenon DEF Shape, TypeOK, Whole
  <2>2. CASE call[p].i = NumSector
    <3>1. buf' = [buf EXCEPT ![call[p].at] = filled(@, call[p])]
      BY <1>4, <2>2 DEF Fill
    <3>2. buf[call[p].at] \in BufType
      BY <2>0, Zenon DEF Shape, TypeOK
    <3>3. filled(buf[call[p].at], call[p]) \in BufType
      BY <2>0, <3>2, Zenon DEF filled, BufType
    <3>4. buf' \in [Buffers -> BufType]
      BY <2>0, <3>1, <3>3, Zenon DEF Shape, TypeOK
    <3> QED
      BY <1>4, <2>0, <2>2, <3>4, ReturnShape DEF Fill
  <2> QED
    BY <2>0, <2>1, <2>2
<1>5. ASSUME NEW p \in Procs, NEW h \in held[p], unpin(p, h) PROVE Shape'
  <2>1. h.at \in Buffers
    BY DEF Shape, TypeOK, HoldType
  <2>2. buf' \in [Buffers -> BufType]
    BY <1>5, <2>1, ZenonT(30) DEF unpin, Shape, TypeOK, BufType
  <2>3. held' \in [Procs -> SUBSET HoldType]
    BY <1>5, Zenon DEF unpin, Shape, TypeOK
  <2> QED
    BY <1>5, <2>2, <2>3, Zenon DEF unpin, Shape, TypeOK, Whole, CallsOK
<1>6. CASE UNCHANGED vars
  BY <1>6, Zenon DEF vars, Shape, TypeOK, Whole, CallsOK
<1> QED
  BY <1>1, <1>2, <1>3, <1>4, <1>5, <1>6, Zenon DEF Next

----------------------------------------------------------------------------
(* While calls come one after the other: when p is in a call nobody else   *)
(* is, and only p fills a buffer.                                          *)
LEMMA Others ==
  ASSUME OneCall, NEW p \in Procs, pc[p] # "idle"
  PROVE  \A q \in Procs : q # p => pc[q] = "idle"
BY Zenon DEF OneCall

\* The end of a call that returns buffer n, which has block b whole and pinned
\* and which alone the call has changed, if it has changed anything.
LEMMA ReturnApart ==
  ASSUME Shape, Apart, NEW p \in Procs, NEW n \in Buffers, NEW b \in Blocks,
         Return(p, n, b), pc[p] # "idle", b = call[p].block, buf' \in [Buffers -> BufType],
         buf'[n].valid = 1, buf'[n].pinned = 1, buf'[n].block = b,
         \A i \in 1 .. NumSector : buf'[n].data[i] = b,
         \A m \in Buffers \ {n} : buf'[m] = buf[m] /\ ~matches(m, b) /\ ~Filling(m),
         \A q \in Procs : \A h \in held[q] : h.at # n
  PROVE  Apart'
<1>0. \A q \in Procs : pc'[q] = "idle"
  BY Others, Zenon DEF Return, Shape, TypeOK, Apart
<1>1. /\ \A q \in Procs \ {p} : held'[q] = held[q]
      /\ held'[p] = held[p] \cup {[at |-> n, block |-> b]}
  BY Zenon DEF Return, Shape, TypeOK
<1>2. OneCall' /\ SearchOK'
  BY <1>0, Zenon DEF OneCall, SearchOK
<1>3. HeldOnce'
  <2>1. \A q \in Procs : \A h \in held[q] : h.block # b
    BY DEF Apart, HeldOnce
  <2>2. ASSUME NEW q \in Procs, NEW r \in Procs, NEW h \in held'[q], NEW g \in held'[r], h.block = g.block
        PROVE  q = r /\ h = g
    <3>1. h \in held[q] \/ (q = p /\ h = [at |-> n, block |-> b])
      BY <1>1, Zenon
    <3>2. g \in held[r] \/ (r = p /\ g = [at |-> n, block |-> b])
      BY <1>1, Zenon
    <3> QED
      BY <2>1, <2>2, <3>1, <3>2 DEF Apart, HeldOnce
  <2> QED
    BY <1>0, <2>2, Zenon DEF HeldOnce
<1>4. HeldIs'
  <2> SUFFICES ASSUME NEW q \in Procs, NEW h \in held'[q]
               PROVE  buf'[h.at].pinned = 1 /\ buf'[h.at].valid = 1 /\ buf'[h.at].block = h.block
    BY Zenon DEF HeldIs
  <2>1. CASE h \in held[q]
    <3>1. h.at \in Buffers \ {n}
      BY <2>1 DEF Shape, TypeOK, HoldType
    <3> QED
      BY <2>1, <3>1 DEF Apart, HeldIs
  <2>2. CASE h = [at |-> n, block |-> b]
    BY <2>2, Zenon
  <2> QED
    BY <1>1, <2>1, <2>2, Zenon
<1>5. CachedOnce'
  <2>1. \A m \in Buffers \ {n} : ~(buf'[m].valid = 1 /\ buf'[m].block = b)
    BY Zenon DEF matches
  <2>2. \A m, o \in Buffers \ {n} :
          buf'[m].valid = 1 /\ buf'[o].valid = 1 /\ buf'[m].block = buf'[o].block => m = o
    BY DEF Apart, CachedOnce
  <2>3. \A m, o \in Buffers :
          buf'[m].valid = 1 /\ buf'[o].valid = 1 /\ buf'[m].block = buf'[o].block => m = o
    BY <2>1, <2>2
  <2> QED
    BY <2>3, Zenon DEF CachedOnce, Buffers
<1>6. CachedWhole'
  <2> SUFFICES ASSUME NEW m \in Buffers, buf'[m].valid = 1, NEW i \in 1 .. NumSector
               PROVE  buf'[m].data[i] = buf'[m].block
    BY Zenon DEF CachedWhole, Buffers
  <2>1. CASE m = n
    BY <2>1, Zenon
  <2>2. CASE m # n
    BY <2>2, Zenon DEF Apart, CachedWhole
  <2> QED
    BY <2>1, <2>2, Zenon
<1> QED
  BY <1>2, <1>3, <1>4, <1>5, <1>6, Zenon DEF Apart

\* request_block, up to the walk: apart stays 1 only where no other call is
\* under way and nobody holds the block.
LEMMA RequestApart ==
  ASSUME Shape, Apart, NEW p \in Procs, NEW b \in Blocks, request_block(p, b), apart' = 1
  PROVE  Apart'
<1> USE PoolAssumption
<1>1. /\ \A q \in Procs : pc[q] = "idle"
      /\ \A q \in Procs : \A h \in held[q] : h.block # b
  BY DEF request_block, Shape, TypeOK
<1>2. /\ \A q \in Procs \ {p} : pc'[q] = "idle" /\ call'[q] = call[q]
      /\ pc'[p] = "search" /\ call'[p] = [block |-> b, at |-> list[1], i |-> 0]
      /\ buf' = buf /\ list' = list /\ held' = held
  BY <1>1, Zenon DEF request_block, Shape, TypeOK
<1>3. OneCall'
  BY <1>2, Zenon DEF OneCall
<1>4. HeldOnce'
  BY <1>1, <1>2 DEF Apart, HeldOnce
<1>5. HeldIs' /\ CachedOnce'
  BY <1>2, Zenon DEF Apart, HeldIs, CachedOnce
<1>6. CachedWhole'
  BY <1>1, <1>2, Zenon DEF Apart, CachedWhole, Filling
<1>7. SearchOK'
  <2>1. 1 \in 1 .. Count /\ list[1] \in Buffers /\ list[1] # ListHead /\ \A j \in 1 .. 1 - 1 : FALSE
    BY DEF Shape, Whole, Buffers, ListHead
  <2> QED
    BY <1>2, <2>1 DEF SearchOK
<1> QED
  BY <1>3, <1>4, <1>5, <1>6, <1>7, Zenon DEF Apart

\* A step of a call that changes neither buffers nor what is held, nor the
\* block asked for, keeps everything but what the call knows of its search.
LEMMA CallApart ==
  ASSUME Shape, Apart, NEW p \in Procs, pc[p] \in {"search", "enter"},
         UNCHANGED <<buf, list, held>>,
         \A q \in Procs \ {p} : pc'[q] = pc[q] /\ call'[q] = call[q],
         call'[p].block = call[p].block \/ pc'[p] = "idle"
  PROVE  /\ OneCall' /\ HeldOnce' /\ HeldIs' /\ CachedOnce' /\ CachedWhole'
         /\ \A q \in Procs \ {p} : pc'[q] = "idle"
<1>1. \A q \in Procs \ {p} : pc[q] = "idle"
  BY Others, Zenon DEF Apart
<1>2. OneCall'
  BY <1>1 DEF OneCall
<1>3. HeldOnce'
  BY <1>1 DEF Apart, HeldOnce
<1>4. HeldIs' /\ CachedOnce'
  BY Zenon DEF Apart, HeldIs, CachedOnce
<1>5. CachedWhole'
  <2>1. \A n \in Buffers : ~Filling(n)
    BY <1>1, Zenon DEF Filling
  <2> QED
    BY <2>1, Zenon DEF Apart, CachedWhole
<1> QED
  BY <1>1, <1>2, <1>3, <1>4, <1>5, Zenon

\* One node of the walk.
LEMMA SearchApart ==
  ASSUME Shape, Apart, NEW p \in Procs, _search_buffer(p)
  PROVE  Apart'
<1> DEFINE n == call[p].at
           b == call[p].block
<1>0. pc[p] = "search" /\ UNCHANGED <<buf, list, held>>
  BY Zenon DEF _search_buffer
<1>1. CASE (n # ListHead => matches(n, b)) /\ pc' = [pc EXCEPT ![p] = "enter"] /\ UNCHANGED call
  <2>1. /\ \A q \in Procs \ {p} : pc'[q] = pc[q] /\ call'[q] = call[q]
        /\ pc'[p] = "enter" /\ call'[p] = call[p]
    BY <1>1, Zenon DEF Shape, TypeOK
  <2>2. /\ OneCall' /\ HeldOnce' /\ HeldIs' /\ CachedOnce' /\ CachedWhole'
        /\ \A q \in Procs \ {p} : pc'[q] = "idle"
    BY <1>0, <2>1, CallApart, Zenon
  <2>3. n = ListHead => NotCached(b)
    BY <1>0, Zenon DEF Apart, SearchOK
  <2>4. SearchOK'
    BY <1>0, <1>1, <2>1, <2>2, <2>3 DEF SearchOK, NotCached, matches
  <2> QED
    BY <2>2, <2>4, Zenon DEF Apart
<1>2. CASE n # ListHead /\ ~matches(n, b) /\ call' = [call EXCEPT ![p].at = NextNode(n)] /\ UNCHANGED pc
  <2>1. /\ \A q \in Procs \ {p} : pc'[q] = pc[q] /\ call'[q] = call[q]
        /\ pc'[p] = "search" /\ call'[p].block = b /\ call'[p].at = NextNode(n)
    BY <1>0, <1>2, Zenon DEF Shape, TypeOK, CallType
  <2>2. /\ OneCall' /\ HeldOnce' /\ HeldIs' /\ CachedOnce' /\ CachedWhole'
        /\ \A q \in Procs \ {p} : pc'[q] = "idle"
    BY <1>0, <2>1, CallApart, Zenon
  <2>3. PICK k \in 1 .. Count : list[k] = n /\ \A j \in 1 .. k - 1 : ~matches(list[j], b)
    BY <1>0, <1>2, Zenon DEF Apart, SearchOK
  <2>4. \A j \in 1 .. k : ~matches(list[j], b)
    BY <1>2, <2>3
  <2>5. Position(list, n) = k
    <3>1. n \in Buffers
      BY <1>2, Zenon DEF Shape, TypeOK, CallType
    <3>2. Position(list, n) \in 1 .. Count /\ list[Position(list, n)] = n
      BY <3>1, PositionIs, Zenon DEF Shape
    <3> QED
      BY <2>3, <3>2, Zenon DEF Shape, Whole
  <2>6. CASE k = Count
    <3>1. NextNode(n) = ListHead
      BY <2>5, <2>6, Zenon DEF NextNode
    <3>2. NotCached(b)
      BY <2>4, <2>6 DEF NotCached, Shape, Whole
    <3>3. NotCached(call[p].block)'
      BY <1>0, <2>1, <3>2, Zenon DEF NotCached, matches
    <3>4. SearchOK'
      BY <2>1, <2>2, <3>1, <3>3, Zenon DEF SearchOK
    <3> QED
      BY <2>2, <3>4, Zenon DEF Apart
  <2>7. CASE k # Count
    <3>1. NextNode(n) = list[k + 1] /\ k + 1 \in 1 .. Count
      BY <2>5, <2>7, PoolAssumption DEF NextNode
    <3>2. list[k + 1] # ListHead
      BY <3>1, PoolAssumption DEF Shape, Whole, Buffers, ListHead
    <3>3. \A j \in 1 .. (k + 1) - 1 : ~matches(list[j], b)
      BY <2>4
    <3>4. \A j \in 1 .. (k + 1) - 1 : ~(buf'[list'[j]].valid = 1 /\ buf'[list'[j]].block = call'[p].block)
      BY <1>0, <2>1, <3>3, Zenon DEF matches
    <3>5. \E m \in 1 .. Count : /\ list'[m] = call'[p].at
            /\ \A j \in 1 .. m - 1 : ~(buf'[list'[j]].valid = 1 /\ buf'[list'[j]].block = call'[p].block)
      BY <1>0, <2>1, <3>1, <3>4, Zenon
    <3>6. SearchOK'
      BY <2>1, <2>2, <3>1, <3>2, <3>5 DEF SearchOK, matches
    <3> QED
      BY <2>2, <3>6, Zenon DEF Apart
  <2> QED
    BY <2>6, <2>7, Zenon
<1> QED
  BY <1>1, <1>2, Zenon DEF _search_buffer

\* Under the lock: the block is there, or a buffer is chosen to read it into.
LEMMA EnterApart ==
  ASSUME Shape, Apart, NEW p \in Procs, Enter(p)
  PROVE  Apart'
<1> DEFINE n == call[p].at
           b == call[p].block
<1>0. /\ pc[p] = "enter" /\ n \in Buffers \cup {ListHead} /\ b \in Blocks
      /\ \A q \in Procs \ {p} : pc[q] = "idle"
  BY Others, Zenon DEF Enter, Shape, TypeOK, CallType, CallsOK, Apart
<1>1. CASE n # ListHead
  <2>1. buf' = [buf EXCEPT ![n].pinned = 1] /\ Return(p, n, b)
    BY <1>1, Zenon DEF Enter
  <2>2. n \in Buffers /\ buf[n] \in BufType /\ matches(n, b)
    BY <1>0, <1>1, Zenon DEF Shape, TypeOK, Apart, SearchOK
  <2>3. /\ buf' \in [Buffers -> BufType]
        /\ \A m \in Buffers \ {n} : buf'[m] = buf[m]
        /\ buf'[n].valid = buf[n].valid /\ buf'[n].block = buf[n].block
        /\ buf'[n].data = buf[n].data /\ buf'[n].pinned = 1
    BY <2>1, <2>2, Zenon DEF Shape, TypeOK, BufType
  <2>4. \A m \in Buffers : ~Filling(m)
    BY <1>0, Zenon DEF Filling
  <2>5. \A m \in Buffers \ {n} : ~matches(m, b)
    BY <2>2, Zenon DEF Apart, CachedOnce, matches
  <2>6. \A i \in 1 .. NumSector : buf'[n].data[i] = b
    BY <2>2, <2>3, <2>4, Zenon DEF Apart, CachedWhole, matches
  <2>7. \A q \in Procs : \A h \in held[q] : h.at # n
    <3> SUFFICES ASSUME NEW q \in Procs, NEW h \in held[q], h.at = n PROVE FALSE
      BY Zenon
    <3>1. h.block = b
      BY <2>2, Zenon DEF Apart, HeldIs, matches
    <3> QED
      BY <1>0, <3>1, Zenon DEF Apart, HeldOnce
  <2>8. buf'[n].valid = 1 /\ buf'[n].block = b
    BY <2>2, <2>3, Zenon DEF matches
  <2> HIDE DEF n, b
  <2> QED
    BY <1>0, <2>1, <2>2, <2>3, <2>4, <2>5, <2>6, <2>7, <2>8, ReturnApart, Zenon DEF b
<1>2. CASE n = ListHead /\ unpinned = {}
  <2>1. /\ \A q \in Procs \ {p} : pc'[q] = pc[q] /\ call'[q] = call[q]
        /\ pc'[p] = "idle" /\ UNCHANGED <<buf, list, held>>
    BY <1>2, Zenon DEF Enter, Shape, TypeOK
  <2>2. /\ OneCall' /\ HeldOnce' /\ HeldIs' /\ CachedOnce' /\ CachedWhole'
        /\ \A q \in Procs \ {p} : pc'[q] = "idle"
    BY <1>0, <2>1, CallApart, Zenon
  <2> QED
    BY <2>1, <2>2, Zenon DEF Apart, SearchOK
<1>3. CASE n = ListHead /\ unpinned # {}
  <2>1. /\ call' = [call EXCEPT ![p].at = _alloc_buffer, ![p].i = 1]
        /\ pc' = [pc EXCEPT ![p] = "fill"] /\ UNCHANGED <<buf, list, held>>
    BY <1>3, Zenon DEF Enter
  <2>2. /\ \A q \in Procs \ {p} : pc'[q] = pc[q] /\ call'[q] = call[q]
        /\ pc'[p] = "fill" /\ call'[p].at = _alloc_buffer /\ call'[p].i = 1 /\ call'[p].block = b
    BY <2>1, Zenon DEF Shape, TypeOK, CallType
  <2>3. /\ OneCall' /\ HeldOnce' /\ HeldIs' /\ CachedOnce' /\ CachedWhole'
        /\ \A q \in Procs \ {p} : pc'[q] = "idle"
    BY <1>0, <2>1, <2>2, CallApart, Zenon
  <2>4. buf[_alloc_buffer].pinned = 0
    <3>1. Max(unpinned) \in unpinned
      BY <1>3, LastPlace, Zenon DEF unpinned
    <3> QED
      BY <3>1, Zenon DEF unpinned, _alloc_buffer
  <2>5. NotCached(b)
    BY <1>0, <1>3, Zenon DEF Apart, SearchOK
  <2>6. NotCached(call[p].block)'
    BY <2>1, <2>2, <2>5, Zenon DEF NotCached, matches
  <2>7. \A i \in 1 .. 1 - 1 : FALSE
    OBVIOUS
  <2>8. SearchOK'
    BY <2>1, <2>2, <2>3, <2>4, <2>6, <2>7, Zenon DEF SearchOK
  <2> QED
    BY <2>3, <2>8, Zenon DEF Apart
<1> QED
  BY <1>1, <1>2, <1>3, Zenon

\* A sector is read.
LEMMA FillApart ==
  ASSUME Shape, Apart, NEW p \in Procs, Fill(p)
  PROVE  Apart'
<1> DEFINE n == call[p].at
           b == call[p].block
           k == call[p].i
<1> USE PoolAssumption
<1>0. /\ pc[p] = "fill" /\ n \in Buffers /\ b \in Blocks /\ k \in 1 .. NumSector
      /\ buf[n] \in BufType
      /\ \A q \in Procs \ {p} : pc[q] = "idle"
  BY Others, Zenon DEF Fill, Shape, TypeOK, CallsOK, Apart
<1>1. /\ NotCached(b) /\ buf[n].pinned = 0
      /\ \A i \in 1 .. k - 1 : buf[n].data[i] = b
  BY <1>0, Zenon DEF Apart, SearchOK
<1>2. \A q \in Procs : \A h \in held[q] : h.at # n /\ h.at \in Buffers
  BY <1>1 DEF Apart, HeldIs, Shape, TypeOK, HoldType
<1>3. \A m \in Buffers \ {n} : ~Filling(m)
  BY <1>0, Zenon DEF Filling
<1>4. CASE k < NumSector
  <2>1. /\ buf' = [buf EXCEPT ![n].data[k] = b] /\ call' = [call EXCEPT ![p].i = k + 1]
        /\ UNCHANGED <<list, pc, held>>
    BY <1>0, <1>4 DEF Fill
  <2>2. /\ \A m \in Buffers \ {n} : buf'[m] = buf[m]
        /\ buf'[n].valid = buf[n].valid /\ buf'[n].block = buf[n].block /\ buf'[n].pinned = buf[n].pinned
        /\ \A i \in 1 .. NumSector : buf'[n].data[i] = IF i = k THEN b ELSE buf[n].data[i]
    BY <1>0, <2>1, Zenon DEF Shape, TypeOK, BufType
  <2>3. /\ \A q \in Procs \ {p} : call'[q] = call[q]
        /\ call'[p].at = n /\ call'[p].i = k + 1 /\ call'[p].block = b
    BY <2>1, Zenon DEF Shape, TypeOK, CallType
  <2>4. OneCall' /\ HeldOnce'
    BY <2>1, <2>3, SMTT(20) DEF Apart, OneCall, HeldOnce
  <2>5. HeldIs'
    BY <1>2, <2>1, <2>2 DEF Apart, HeldIs
  <2>6. \A m \in Buffers : buf'[m].valid = buf[m].valid /\ buf'[m].block = buf[m].block
    BY <2>2, Zenon
  <2>7. CachedOnce'
    BY <2>6, Zenon DEF Apart, CachedOnce, Buffers
  <2>8. CachedWhole'
    <3>1. pc'[p] = "fill" /\ call'[p].at = n
      BY <1>0, <2>1, <2>3, Zenon
    <3>2. \A m \in Buffers \ {n} : buf[m].valid = 1 => \A i \in 1 .. NumSector : buf[m].data[i] = buf[m].block
      BY <1>3, Zenon DEF Apart, CachedWhole
    <3> QED
      BY <2>2, <3>1, <3>2 DEF CachedWhole, Filling, Buffers
  <2>9. SearchOK'
    <3>1. NotCached(call[p].block)'
      BY <1>1, <2>3, <2>6, Zenon DEF NotCached, matches, Buffers
    <3>2. \A i \in 1 .. (k + 1) - 1 : buf'[n].data[i] = b
      BY <1>0, <1>1, <2>2
    <3>3. buf'[n].pinned = 0
      BY <1>1, <2>2, Zenon
    <3> QED
      BY <1>0, <2>1, <2>3, <3>1, <3>2, <3>3 DEF SearchOK
  <2> QED
    BY <2>4, <2>5, <2>7, <2>8, <2>9, Zenon DEF Apart
<1>5. CASE k = NumSector
  <2>1. buf' = [buf EXCEPT ![n] = filled(@, call[p])] /\ Return(p, n, b)
    BY <1>0, <1>5 DEF Fill
  <2>2. LET f == filled(buf[n], call[p])
        IN f \in BufType /\ f.valid = 1 /\ f.pinned = 1 /\ f.block = b
           /\ \A i \in 1 .. NumSector : f.data[i] = IF i = k THEN b ELSE buf[n].data[i]
    BY <1>0, Zenon DEF filled, BufType
  <2>3. /\ buf' \in [Buffers -> BufType] /\ \A m \in Buffers \ {n} : buf'[m] = buf[m]
        /\ buf'[n] = filled(buf[n], call[p])
    BY <1>0, <2>1, <2>2, Zenon DEF Shape, TypeOK
  <2>4. \A i \in 1 .. NumSector : buf'[n].data[i] = b
    BY <1>0, <1>1, <1>5, <2>2, <2>3
  <2>5. \A m \in Buffers \ {n} : ~matches(m, b)
    BY <1>1, Zenon DEF NotCached
  <2>6. buf'[n].valid = 1 /\ buf'[n].pinned = 1 /\ buf'[n].block = b
    BY <2>2, <2>3, Zenon
  <2> HIDE DEF n, b
  <2> QED
    BY <1>0, <1>2, <1>3, <2>1, <2>3, <2>4, <2>5, <2>6, ReturnApart DEF b
<1> QED
  BY <1>0, <1>4, <1>5

\* A buffer is unpinned: whoever else holds that buffer would hold the block.
LEMMA UnpinApart ==
  ASSUME Shape, Apart, NEW p \in Procs, NEW h \in held[p], unpin(p, h)
  PROVE  Apart'
<1>0. h.at \in Buffers /\ buf[h.at] \in BufType
  BY DEF Shape, TypeOK, HoldType
<1>1. /\ buf' = [buf EXCEPT ![h.at].pinned = 0] /\ UNCHANGED <<list, pc, call>>
      /\ held' = [held EXCEPT ![p] = @ \ {h}]
  BY Zenon DEF unpin
<1>2. /\ \A m \in Buffers : /\ buf'[m].valid = buf[m].valid /\ buf'[m].block = buf[m].block
                            /\ buf'[m].data = buf[m].data
                            /\ buf'[m].pinned = IF m = h.at THEN 0 ELSE buf[m].pinned
  BY <1>0, <1>1, Zenon DEF Shape, TypeOK, BufType
<1>3. \A q \in Procs : \A g \in held'[q] : g \in held[q] /\ (g # h \/ q # p) /\ g.at \in Buffers
  BY <1>1 DEF Shape, TypeOK, HoldType
<1>4. OneCall' /\ HeldOnce'
  <2>1. OneCall'
    BY <1>1, Zenon DEF Apart, OneCall
  <2> QED
    BY <1>1, <1>3, <2>1 DEF Apart, HeldOnce
<1>5. HeldIs'
  <2> SUFFICES ASSUME NEW q \in Procs, NEW g \in held'[q]
               PROVE  buf'[g.at].pinned = 1 /\ buf'[g.at].valid = 1 /\ buf'[g.at].block = g.block
    BY Zenon DEF HeldIs
  <2>1. g \in held[q] /\ g.at \in Buffers /\ (g # h \/ q # p)
    BY <1>3, Zenon
  <2>2. g.at # h.at
    BY <2>1 DEF Apart, HeldIs, HeldOnce
  <2> QED
    BY <1>2, <2>1, <2>2 DEF Apart, HeldIs
<1>6. CachedOnce'
  BY <1>2, Zenon DEF Apart, CachedOnce, Buffers
<1>7. CachedWhole'
  BY <1>1, <1>2 DEF Apart, CachedWhole, Filling, Buffers
<1>8. SearchOK'
  <2>1. \A n \in Buffers : \A b \in Blocks : matches(n, b)' <=> matches(n, b)
    BY <1>2, Zenon DEF matches
  <2> SUFFICES ASSUME NEW q \in Procs, pc[q] # "idle"
               PROVE  /\ pc[q] = "search" => IF call[q].at = ListHead THEN NotCached(call[q].block)'
                         ELSE \E k \in 1 .. Count : /\ list[k] = call[q].at
                                                    /\ \A j \in 1 .. k - 1 : ~matches(list[j], call[q].block)'
                      /\ pc[q] = "enter" => IF call[q].at = ListHead THEN NotCached(call[q].block)'
                                            ELSE matches(call[q].at, call[q].block)'
                      /\ pc[q] = "fill" => /\ NotCached(call[q].block)' /\ buf'[call[q].at].pinned = 0
                                           /\ \A i \in 1 .. call[q].i - 1 : buf'[call[q].at].data[i] = call[q].block
    BY <1>1 DEF SearchOK
  <2>2. call[q].block \in Blocks /\ UNCHANGED <<call, list>> /\ call[q].at \in Buffers \cup {ListHead}
    BY <1>1, Zenon DEF Shape, CallsOK, TypeOK, CallType
  <2>3. NotCached(call[q].block) => NotCached(call[q].block)'
    BY <1>2, <2>2, Zenon DEF NotCached, matches, Buffers
  <2>4. \A j \in 1 .. Count : matches(list[j], call[q].block)' <=> matches(list[j], call[q].block)
    BY <1>2, <2>2, Zenon DEF Shape, Whole, matches
  <2>5. call[q].at # ListHead => (matches(call[q].at, call[q].block)' <=> matches(call[q].at, call[q].block))
    BY <1>2, <2>2, Zenon DEF matches
  <2>6. CASE pc[q] = "search"
    <3>1. \A k \in 1 .. Count : \A j \in 1 .. k - 1 : j \in 1 .. Count
      BY PoolAssumption
    <3> QED
      BY <2>3, <2>4, <2>6, <3>1, Zenon DEF Apart, SearchOK
  <2>7. CASE pc[q] = "enter"
    BY <2>3, <2>5, <2>7, Zenon DEF Apart, SearchOK
  <2>8. CASE pc[q] = "fill"
    <3>1. call[q].at \in Buffers
      BY <2>8, Zenon DEF Shape, CallsOK
    <3> QED
      BY <1>2, <2>3, <2>8, <3>1 DEF Apart, SearchOK
  <2> QED
    BY <2>6, <2>7, <2>8, Zenon DEF Shape, TypeOK
<1> QED
  BY <1>4, <1>5, <1>6, <1>7, <1>8, Zenon DEF Apart

----------------------------------------------------------------------------
\* Every step keeps the invariant.
LEMMA StepInv == IInv /\ [Next]_vars => IInv'
<1> SUFFICES ASSUME IInv, [Next]_vars PROVE IInv'
  BY Zenon
<1>1. Shape /\ Shape'
  BY ShapeKept, Zenon DEF IInv, Shape
<1>2. apart' = 1 => Apart'
  <2> SUFFICES ASSUME apart' = 1 PROVE Apart'
    BY Zenon
  <2>1. apart = 1
    <3>1. ASSUME NEW p \in Procs, NEW b \in Blocks, request_block(p, b) PROVE apart = 1
      BY <3>1 DEF request_block
    <3>2. ASSUME NEW p \in Procs, _search_buffer(p) PROVE apart = 1
      BY <3>2, Zenon DEF _search_buffer
    <3>3. ASSUME NEW p \in Procs, Enter(p) PROVE apart = 1
      BY <3>3, Zenon DEF Enter
    <3>4. ASSUME NEW p \in Procs, Fill(p) PROVE apart = 1
      BY <3>4, Zenon DEF Fill
    <3>5. ASSUME NEW p \in Procs, NEW h \in held[p], unpin(p, h) PROVE apart = 1
      BY <3>5, Zenon DEF unpin
    <3>6. CASE UNCHANGED vars
      BY <3>6, Zenon DEF vars
    <3> QED
      BY <3>1, <3>2, <3>3, <3>4, <3>5, <3>6, Zenon DEF Next
  <2>2. Apart
    BY <2>1, Zenon DEF IInv
  <2>3. ASSUME NEW p \in Procs, NEW b \in Blocks, request_block(p, b) PROVE Apart'
    BY <1>1, <2>2, <2>3, RequestApart, Zenon
  <2>4. ASSUME NEW p \in Procs, _search_buffer(p) \/ Enter(p) \/ Fill(p) PROVE Apart'
    BY <1>1, <2>2, <2>4, SearchApart, EnterApart, FillApart, Zenon
  <2>5. ASSUME NEW p \in Procs, NEW h \in held[p], unpin(p, h) PROVE Apart'
    BY <1>1, <2>2, <2>5, UnpinApart, Zenon
  <2>6. CASE UNCHANGED vars
    <3>1. /\ buf' = buf /\ list' = list /\ pc' = pc /\ call' = call /\ held' = held
      BY <2>6, Zenon DEF vars
    <3>2. /\ OneCall' = OneCall /\ HeldOnce' = HeldOnce /\ CachedWhole' = CachedWhole
      BY <3>1 DEF OneCall, HeldOnce, CachedWhole, Filling
    <3>3. HeldIs' = HeldIs /\ CachedOnce' = CachedOnce
      BY <3>1 DEF HeldIs, CachedOnce, matches
    <3>4. SearchOK' = SearchOK
      BY <3>1 DEF SearchOK, NotCached, matches
    <3> QED BY <2>2, <3>2, <3>3, <3>4, Zenon DEF Apart
  <2> QED
    BY <2>3, <2>4, <2>5, <2>6, Zenon DEF Next
<1> QED
  BY <1>1, <1>2, Zenon DEF IInv, Shape

\* The invariant holds throughout, whatever calls of request_block and unpin
\* interleave.
THEOREM Invariance == Spec => []IInv
BY InitInv, StepInv, PTL DEF Spec

(* The list of the pool has every buffer once, whatever calls of           *)
(* request_block and unpin overlap, however many processes and buffers     *)
(* there are.                                                              *)
THEOREM ListAlwaysWhole == Spec => []ListWhole
<1>1. IInv => ListWhole
  <2> SUFFICES ASSUME IInv PROVE ListWhole
    BY Zenon
  <2>1. Len(list) = Count /\ list \in [1 .. Count -> Buffers]
    BY PoolAssumption DEF IInv, Whole
  <2>2. Range(list) = Buffers
    BY <2>1 DEF Range, IInv, Whole
  <2> QED
    BY <2>1, <2>2, Zenon DEF ListWhole, IInv
<1> QED
  BY <1>1, Invariance, PTL

(* While calls come one after the other no block is cached twice, and      *)
(* every sector a caller of request_block has a pointer to is of the block *)
(* it asked for.                                                           *)
THEOREM HeldAlwaysWhole == Spec => []HeldWhole
<1>1. IInv => HeldWhole
  <2> SUFFICES ASSUME IInv, apart = 1
               PROVE  /\ CachedOnce
                      /\ \A p \in Procs : \A h \in held[p] :
                           \A i \in 1 .. NumSector : buf[h.at].data[i] = h.block
    BY Zenon DEF HeldWhole, CachedOnce
  <2>1. Apart /\ Shape
    BY Zenon DEF IInv, Shape
  <2> SUFFICES ASSUME NEW p \in Procs, NEW h \in held[p]
               PROVE  \A i \in 1 .. NumSector : buf[h.at].data[i] = h.block
    BY <2>1, Zenon DEF Apart
  <2>2. h.at \in Buffers /\ buf[h.at].pinned = 1 /\ buf[h.at].valid = 1 /\ buf[h.at].block = h.block
    BY <2>1 DEF Apart, HeldIs, Shape, TypeOK, HoldType
  <2>3. ~Filling(h.at)
    BY <2>1, <2>2 DEF Apart, SearchOK, Filling
  <2> QED
    BY <2>1, <2>2, <2>3, Zenon DEF Apart, CachedWhole
<1> QED
  BY <1>1, Invariance, PTL

\* A buffer that was pinned for a caller stays pinned until that caller
\* unpins it, while calls come one after the other.
THEOREM PinAlwaysHolds == Spec => []PinHolds
<1>1. IInv => PinHolds
  BY Zenon DEF IInv, Apart, HeldIs, PinHolds
<1> QED
  BY <1>1, Invariance, PTL
=============================================================================
