-------------------------------- MODULE Heap --------------------------------
(***************************************************************************)
(* The kernel heap: L_Allocator (mm/liballoc_algorithmn), which cuts       *)
(* chunks of pages into pieces, over the buddy allocator it takes the      *)
(* chunks from.  HeapMemoryManager only passes calls on.                   *)
(*                                                                         *)
(* malloc and free run under _lock and are one step each.  A chunk has the *)
(* number of its first page, its size and usage in bytes, and its minors:  *)
(* the offset of each tag and the size behind it, in the order of the      *)
(* list.  The running totals that print_heap_usage prints are left out.    *)
(***************************************************************************)
EXTENDS BuddyAllocator

CONSTANTS PageSize,        \* hsai::page_size
          Major, Minor,    \* sizeof( L_TagMajor ), sizeof( L_TagMinor )
          Alignment,       \* _alignment_
          PagePerChunk,    \* _page_per_chunk
          Sizes            \* the sizes clients ask for

ASSUME HeapAssumption == /\ Major % Alignment = 0 /\ Minor % Alignment = 0
                         /\ Major + Minor < PageSize /\ PagePerChunk \in Nat \ {0}

VARIABLES chunks,    \* the list from _mem_root
          best,      \* _best_bet: the chunk's first page, or NoChunk
          buddy,     \* k_pmm
          held,      \* what clients have: address and size
          others     \* pages that other clients of k_pmm have

vars == <<chunks, best, buddy, held, others>>

NoChunk == -1

(* variant: rounds down *)
size_align_Down(n) == (n \div Alignment) * Alignment
size_align(n) == ((n + Alignment - 1) \div Alignment) * Alignment

FreeIn(c) == c.size - c.usage
At(c)     == c.at * PageSize

\* The gap behind minor i, or behind the chunk's tag for i = 0
GapFrom(c, i) == IF i = 0 THEN Major ELSE c.mins[i].off + Minor + c.mins[i].size
GapTo(c, i)   == IF i = Len(c.mins) THEN c.size ELSE c.mins[i + 1].off

fits(c, size) == {i \in 0 .. Len(c.mins) : GapTo(c, i) - GapFrom(c, i) >= size + Minor}

\* Cases 2, 3, 4.1 and 4.2: the first gap that is long enough
place(c, size) ==
  LET i == Min(fits(c, size))
  IN [c EXCEPT !.mins  = InsertAt(@, i + 1, [off |-> GapFrom(c, i), size |-> size]),
               !.usage = @ + size + Minor]

Pointer(c, size) == [at |-> At(c) + GapFrom(c, Min(fits(c, size))) + Minor, len |-> size]

Run(a, n) == [k \in 1 .. n + 1 - a |-> a + k - 1]
Index(l, page) == CHOOSE k \in 1 .. Len(l) : l[k].at = page

\* malloc starts at the best bet if that has room, and if it is led to the end
\* of the list once more at the root.
(* variant: it does not start again *)
visits_Once(size) ==
  IF best # NoChunk /\ FreeIn(chunks[Index(chunks, best)]) > size + Minor
  THEN Run(Index(chunks, best), Len(chunks)) ELSE Run(1, Len(chunks))
visits(size) ==
  IF best # NoChunk /\ FreeIn(chunks[Index(chunks, best)]) > size + Minor
  THEN Run(Index(chunks, best), Len(chunks)) \o Run(1, Len(chunks)) ELSE Run(1, Len(chunks))

\* A bet: a chunk and how much is free in it.  A chunk with more replaces it.
better(b, c) == IF FreeIn(c) > b.free THEN [at |-> c.at, free |-> FreeIn(c)] ELSE b
NoBet == [at |-> NoChunk, free |-> 0]
Bet   == IF best = NoChunk THEN NoBet ELSE better(NoBet, chunks[Index(chunks, best)])

\* One round of malloc's loop, over chunk k
look(a, k, size) ==
  IF a.found # 0 THEN a
  ELSE [found |-> IF fits(chunks[k], size) # {} THEN k ELSE 0, bet |-> better(a.bet, chunks[k])]

\* _allocate_new_chunk
chunk_pages(size) == Max({PagePerChunk, (size + Major + Minor + PageSize - 1) \div PageSize})

new_chunk(page, size) ==
  [at |-> page, size |-> chunk_pages(size) * PageSize, usage |-> Major, mins |-> <<>>]

\* The chunk c, last in the list, receives a piece of its own.
Into(l, c, size, b) ==
  /\ chunks' = Append(l, place(c, size))
  /\ held' = held \cup {Pointer(c, size)}
  /\ best' = b.at

\* The last of the chunks looked at was left in case 1: its new neighbour is
\* used at once.  In case 5 the loop goes round again, and looks at it first.
NewBet(b, c, size) ==
  IF chunks # <<>> /\ FreeIn(Last(chunks)) < size + Minor THEN b ELSE better(b, c)

Grow(size, b) ==
  LET r == pmm_alloc(buddy, chunk_pages(size))
      c == new_chunk(r.ret, size)
  IN /\ buddy' = r.b
     /\ IF r.ret = Null THEN best' = b.at /\ UNCHANGED <<chunks, held>>
        ELSE Into(chunks, c, size, NewBet(b, c, size))
     /\ UNCHANGED others

malloc(req) ==
  LET size == size_align(req)
      r    == FoldLeft(LAMBDA a, k : look(a, k, size), [found |-> 0, bet |-> Bet], visits(size))
  IN IF r.found = 0 THEN Grow(size, r.bet)
     ELSE /\ chunks' = [chunks EXCEPT ![r.found] = place(@, size)]
          /\ held' = held \cup {Pointer(chunks[r.found], size)}
          /\ best' = r.bet.at
          /\ UNCHANGED <<buddy, others>>

----------------------------------------------------------------------------
\* The chunk and the minor that pointer p belongs to
Owner(p) == CHOOSE k \in 1 .. Len(chunks) :
              \E i \in 1 .. Len(chunks[k].mins) : At(chunks[k]) + chunks[k].mins[i].off + Minor = p.at

\* free in a chunk with other pieces left: the chunk may be the better bet
bet_after(c) ==
  IF best # NoChunk /\ best # c.at /\ FreeIn(c) > FreeIn(chunks[Index(chunks, best)]) THEN c.at ELSE best

(* variant: the bet is kept when its chunk goes *)
forget_Kept(page) == best
forget(page) == IF best = page THEN NoChunk ELSE best

give_back(c) == buddy' = pmm_free(buddy, c.at)

free(p) ==
  LET k == Owner(p)
      m == SelectSeq(chunks[k].mins, LAMBDA x : At(chunks[k]) + x.off + Minor # p.at)
      c == [chunks[k] EXCEPT !.mins = m, !.usage = @ - p.len - Minor]
  IN /\ p \in held
     /\ held' = held \ {p}
     /\ IF m # <<>> THEN /\ chunks' = [chunks EXCEPT ![k] = c]
                         /\ best' = bet_after(c)
                         /\ UNCHANGED buddy
        ELSE /\ chunks' = RemoveAt(chunks, k)
             /\ best' = forget(c.at)
             /\ give_back(c)
     /\ UNCHANGED others

----------------------------------------------------------------------------
\* The other clients of k_pmm take and return single pages.
OtherAlloc ==
  LET r == pmm_alloc(buddy, 1)
  IN /\ r.ret # Null
     /\ buddy' = r.b /\ others' = others \cup {r.ret}
     /\ UNCHANGED <<chunks, best, held>>

OtherFree(page) ==
  /\ page \in others
  /\ buddy' = pmm_free(buddy, page) /\ others' = others \ {page}
  /\ UNCHANGED <<chunks, best, held>>

Init == /\ chunks = <<>> /\ best = NoChunk
        /\ buddy = BuddyInit
        /\ held = {} /\ others = {}

Next == \/ \E req \in Sizes : malloc(req)
        \/ \E p \in held : free(p)
        \/ OtherAlloc \/ \E page \in others : OtherFree(page)

Spec == Init /\ [][Next]_vars

----------------------------------------------------------------------------
Listed == {chunks[k].at : k \in 1 .. Len(chunks)}

\* The type of the state; a chunk in the list is never empty, since free gives
\* it back with its last piece.
TypeOK ==
  /\ best \in Pages \cup {NoChunk} /\ others \subseteq Pages
  /\ \A k \in 1 .. Len(chunks) : /\ chunks[k].at \in Pages /\ chunks[k].mins # <<>>
                                 /\ chunks[k].usage \in 0 .. chunks[k].size
  /\ \A p \in held : p.at \in 0 .. NPages * PageSize - 1 /\ p.len \in Nat

\* The books of a chunk are right: the minors lie in order, behind the chunk's
\* tag and within its pages, none reaches into the next, and usage is the tag
\* and what the minors take.
Carved ==
  \A k \in 1 .. Len(chunks) : LET c == chunks[k] IN
    /\ \A i \in 0 .. Len(c.mins) : GapFrom(c, i) <= GapTo(c, i)
    /\ c.usage = Major + FoldLeft(LAMBDA n, x : n + x.size + Minor, 0, c.mins)

\* The pages of the chunks and of the other clients are what the buddy
\* allocator has given out: each chunk's first page starts a block in use that
\* has room for it, no page has two owners, and no block is forgotten.
PagesOwned ==
  /\ InUse(buddy) = Listed \cup others /\ Listed \cap others = {}
  /\ Cardinality(Listed) = Len(chunks)
  /\ \A k \in 1 .. Len(chunks) : chunks[k].size <= PageSize * 2 ^ buddy.info[chunks[k].at].order

\* The heap's books hold for any sequence of malloc and free, and _best_bet is
\* never left pointing into a chunk that was given back.
BooksOK == TypeOK /\ Carved /\ PagesOwned /\ best \in Listed \cup {NoChunk}

\* A new chunk is taken only when no gap in any chunk can hold the request:
\* starting at the best bet overlooks nothing.
GrowsLast ==
  [][Len(chunks') > Len(chunks) =>
       \A p \in held' \ held, k \in 1 .. Len(chunks) : fits(chunks[k], p.len) = {}]_vars

Source == INSTANCE PageSource
            WITH PageSet <- 0 .. NPages * PageSize - 1, Requests <- Sizes

\* The heap is a source of memory: what malloc returns shares no byte with
\* another client's piece and is as long as was asked for, and free takes back
\* exactly one piece.
Refines == Source!SourceSpec
=============================================================================
