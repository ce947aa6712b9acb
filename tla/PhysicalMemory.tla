--------------------------- MODULE PhysicalMemory ---------------------------
(***************************************************************************)
(* PhysicalMemoryManager over the buddy allocator: alloc_pages and         *)
(* free_pages with the filling they do, called by clients that free a      *)
(* block either by its first page or, as vm_unmap does, page by page.      *)
(***************************************************************************)
EXTENDS BuddyAllocator

CONSTANT Requests          \* the page counts clients ask for

VARIABLE buddy             \* k_phy_alloc

PmmInit == buddy = BuddyInit

AllocPages(cnt) == buddy' = pmm_alloc(buddy, cnt).b

\* p is any page of a block in use, its first page or another.
FreePages(p) ==
  /\ \E h \in InUse(buddy) : p \in Block(buddy, h)
  /\ buddy' = pmm_free(buddy, p)

PmmNext == \/ \E cnt \in Requests : AllocPages(cnt)
           \/ \E p \in Pages : FreePages(p)

PmmSpec == PmmInit /\ [][PmmNext]_buddy

----------------------------------------------------------------------------
Free(b) == Heads(b) \ InUse(b)

(* Every field keeps its range; in particular _alloc_size stays between      *)
(* nothing and all pages.                                                    *)
TypeOK ==
  /\ buddy.info \in [Pages -> [order : Orders, in_use : {0, 1}, area_flag : {0, 1}]]
  /\ DOMAIN buddy.list = Orders
  /\ \A k \in Orders : Range(buddy.list[k]) \subseteq Pages
  /\ buddy.hdr \in [Pages -> {0} \cup {2 ^ k : k \in Orders}]
  /\ buddy.alloc_size \in 0 .. NPages

(* The entries with area_flag cut memory into blocks: every page lies in     *)
(* exactly one.  This is what makes free_pages of an inner page harmless and *)
(* lets the merge loop trust the entry of the buddy's first page.            *)
Tiled == \A p \in Pages : Cardinality({h \in Heads(buddy) : p \in Block(buddy, h)}) = 1

(* The free lists, the entries and the nodes stored in the pages agree: list *)
(* k holds each free block of order k once, and its node says so.            *)
ListsMatch ==
  \A k \in Orders :
    /\ Range(buddy.list[k]) = {p \in Free(buddy) : buddy.info[p].order = k}
    /\ Cardinality(Range(buddy.list[k])) = Len(buddy.list[k])
    /\ \A p \in Range(buddy.list[k]) : buddy.hdr[p] = 2 ^ k

(* Any sequence of splits and merges leaves the allocator's books whole:     *)
(* alloc_pages and free_pages find in entries, lists and nodes the same      *)
(* blocks, and these cover memory.                                           *)
BlocksOK == TypeOK /\ Tiled /\ ListsMatch

(* No fragmentation outlives its cause: an aligned run of 2^k free pages     *)
(* lies in one free block, so alloc_pages refuses a request only when no     *)
(* aligned run is left for it.                                               *)
Coalesced ==
  \A a \in AreaOrders : \A k \in 0 .. a : \A i \in 0 .. 2 ^ (a - k) - 1 :
    LET R == AreaStart(a) + i * 2 ^ k .. AreaStart(a) + (i + 1) * 2 ^ k - 1
    IN (\A h \in InUse(buddy) : R \cap Block(buddy, h) = {})
         => \E h \in Free(buddy) : R \subseteq Block(buddy, h)

Source == INSTANCE PageSource
            WITH PageSet <- Pages,
                 held <- {[at |-> h, len |-> 2 ^ buddy.info[h].order] : h \in InUse(buddy)}

(* The allocator is a source of pages: a block it hands out shares no page   *)
(* with another client's, and a free takes back exactly one whole block, or  *)
(* nothing.                                                                  *)
Refines == Source!SourceSpec
=============================================================================
