--------------------------- MODULE BuddyAllocator ---------------------------
(***************************************************************************)
(* The buddy allocator of physical pages (mm/buddy_algorithmn).            *)
(*                                                                         *)
(* An allocator is a record: info is _alloc_infos, one entry per page;     *)
(* list[k] is the free list of order k, its head first; hdr[p] is the      *)
(* _area_size, in pages, of the BuddyNode stored in page p, and 0 where    *)
(* the page holds no node (buddy_unused_magic, or a client's data);        *)
(* alloc_size counts the pages given out.  Pages are numbered from         *)
(* _mem_addr.  Both calls run under _lock, so each is one function.        *)
(***************************************************************************)
EXTENDS Integers, Sequences, SequencesExt, FiniteSetsExt

CONSTANT NPages            \* _mem_size / page_size

ASSUME NPagesAssumption == NPages \in Nat \ {0}

Pages  == 0 .. NPages - 1
Orders == {k \in 0 .. NPages : 2 ^ k <= NPages}

Info(o, u, a) == [order |-> o, in_use |-> u, area_flag |-> a]

PageInfo == Info(0, 0, 0)

\* The areas: one for each binary digit of the page count, smallest first.
AreaOrders    == {k \in Orders : (NPages \div 2 ^ k) % 2 = 1}
AreaStart(k)  == NPages % 2 ^ k

belong_area(p) == CHOOSE k \in AreaOrders :
                    AreaStart(k) <= p /\ p < AreaStart(k) + 2 ^ k

BuddyInit ==
  [info |-> [p \in Pages |-> IF \E k \in AreaOrders : AreaStart(k) = p
                              THEN Info(belong_area(p), 0, 1) ELSE PageInfo],
   list |-> [k \in Orders |-> IF k \in AreaOrders THEN <<AreaStart(k)>> ELSE <<>>],
   hdr  |-> [p \in Pages |-> IF \E k \in AreaOrders : AreaStart(k) = p
                              THEN 2 ^ belong_area(p) ELSE 0],
   alloc_size |-> 0]

OrderOf(count) == Min({k \in 0 .. count : 2 ^ k >= count})

\* The result of a call: the allocator after it, and what it returns.
Null == -1
Result(b, v) == [b |-> b, ret |-> v]

\* _split_node at order j + 1 leaves the node at p in two: the upper half goes
\* to list j.
Half(p, j) == p + 2 ^ j

Halves(p, o, i) == {Half(p, j) : j \in o .. i - 1}

HalfOrder(p, o, i, q) == CHOOSE j \in o .. i - 1 : q = Half(p, j)

(***************************************************************************)
(* alloc_pages: pop a node of the least order i that has one and split it  *)
(* down to the order asked for.                                            *)
(***************************************************************************)
alloc_pages(b, count) ==
  LET o   == OrderOf(count)
      fit == {i \in Orders : o <= i /\ b.list[i] # <<>>}
      i   == Min(fit)
      p   == Head(b.list[i])
      up  == Halves(p, o, i)
  IN CASE count = 0 \/ fit = {} -> Result(b, Null)
       [] fit # {} /\ b.hdr[p] = 0 -> Result([b EXCEPT !.list[i] = Tail(@)], Null)
       [] OTHER -> Result(
            [info |-> [q \in Pages |->
                         IF q = p THEN Info(o, 1, 1)
                         ELSE IF q \in up THEN Info(HalfOrder(p, o, i, q), 0, 1)
                         ELSE b.info[q]],
             list |-> [k \in Orders |->
                         IF k = i THEN Tail(b.list[k])
                         ELSE IF k \in o .. i - 1 THEN <<Half(p, k)>> \o b.list[k]
                         ELSE b.list[k]],
             hdr  |-> [q \in Pages |->
                         IF q = p THEN 2 ^ o
                         ELSE IF q \in up THEN 2 ^ HalfOrder(p, o, i, q)
                         ELSE b.hdr[q]],
             alloc_size |-> b.alloc_size + 2 ^ o], p)

----------------------------------------------------------------------------
\* The node that contains page p at order k, and _get_buddy_node of it: both
\* are counted from the start of the area.
NodeAt(p, k) ==
  LET base == AreaStart(belong_area(p))
  IN base + ((p - base) \div 2 ^ k) * 2 ^ k

buddy_node(p, k) ==
  LET base == AreaStart(belong_area(p))
      n    == (p - base) \div 2 ^ k
  IN base + (IF n % 2 = 0 THEN n + 1 ELSE n - 1) * 2 ^ k

(* variant: never forms the whole area again *)
Stops_Short(b, p, k) == \/ k + 1 >= belong_area(p)
                        \/ b.info[buddy_node(p, k)].in_use = 1
                        \/ b.hdr[buddy_node(p, k)] # 2 ^ k

(* variant: merges with the buddy whatever its state *)
Stops_Blind(b, p, k) == k = belong_area(p)

\* free_pages stops merging: the node is its area, the buddy is used or split.
Stops(b, p, k) == \/ k = belong_area(p)
                  \/ b.info[buddy_node(p, k)].in_use = 1
                  \/ b.hdr[buddy_node(p, k)] # 2 ^ k

merge_top(b, p) == Min({k \in b.info[p].order .. belong_area(p) : Stops(b, p, k)})

\* The higher node of each merged pair becomes an ordinary page.
Absorbed(p, o, top) == {Max({NodeAt(p, k), buddy_node(p, k)}) : k \in o .. top - 1}

(* variant: the buddy stays in its list *)
remove_node_None(l, n) == l

remove_node(l, n) == Remove(l, n)

refund(b, o) == b.alloc_size - 2 ^ o

(***************************************************************************)
(* free_pages: a page inside a block is ignored (0), a block that is free  *)
(* already is refused (-3); otherwise the node merges upwards with its     *)
(* free buddies.                                                           *)
(***************************************************************************)
free_pages(b, p) ==
  LET o    == b.info[p].order
      top  == merge_top(b, p)
      node == NodeAt(p, top)
      gone == Absorbed(p, o, top)
  IN CASE b.info[p].area_flag = 0 -> Result(b, 0)
       [] b.info[p].area_flag = 1 /\ b.info[p].in_use = 0 -> Result(b, -3)
       [] OTHER -> Result(
            [info |-> [q \in Pages |-> IF q = node THEN Info(top, 0, 1)
                                       ELSE IF q \in gone THEN PageInfo
                                       ELSE b.info[q]],
             list |-> [k \in Orders |->
                         IF k \in o .. top - 1 THEN remove_node(b.list[k], buddy_node(p, k))
                         ELSE IF k = top THEN <<node>> \o b.list[k]
                         ELSE b.list[k]],
             hdr  |-> [q \in Pages |-> IF q = node THEN 2 ^ top
                                       ELSE IF q \in gone THEN 0
                                       ELSE b.hdr[q]],
             alloc_size |-> refund(b, o)], 0)

----------------------------------------------------------------------------
(***************************************************************************)
(* PhysicalMemoryManager: the same two calls, which also fill the pages.   *)
(***************************************************************************)
\* _fill_pages: a filled page holds no node any more.
fill_pages(b, p, cnt) ==
  [b EXCEPT !.hdr = [q \in Pages |-> IF q \in p .. p + cnt - 1 THEN 0 ELSE @[q]]]

\* alloc_pages, and alloc_page with cnt = 1
pmm_alloc(b, cnt) ==
  LET r == alloc_pages(b, cnt)
  IN IF r.ret = Null THEN r ELSE [r EXCEPT !.b = fill_pages(@, r.ret, cnt)]

\* free_pages fills as many pages as the allocator's return value says: none
\* after a free, and after a repeated free 2^32 - 3, which is all there are.
pmm_free(b, p) ==
  LET r == free_pages(b, p)
  IN fill_pages(r.b, p, IF r.ret < 0 THEN NPages ELSE r.ret)

----------------------------------------------------------------------------
Heads(b)    == {p \in Pages : b.info[p].area_flag = 1}
InUse(b)    == {p \in Heads(b) : b.info[p].in_use = 1}
Block(b, p) == p .. p + 2 ^ b.info[p].order - 1
=============================================================================
