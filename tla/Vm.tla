--------------------------------- MODULE Vm ---------------------------------
(***************************************************************************)
(* User address spaces: VirtualMemoryManager (map_pages, vm_alloc,         *)
(* vm_dealloc, vm_unmap, vm_copy) and the calls of ProcessManager that use *)
(* it: brk, mmap, munmap, mremap, fork, execve, exit_proc and freeproc.    *)
(*                                                                         *)
(* Addresses and sizes count half pages, so that a size can be unaligned;  *)
(* Up and Down round to virtual page numbers.  The virtual pages of a      *)
(* process are the loaded section (page 0), the program headers (page 1),  *)
(* the heap from page 2, the mappings from _sz, the stack and the trap     *)
(* frame.  The directory pages of the page table are left out.             *)
(*                                                                         *)
(* Physical memory is a PageSource: a block is named by the process and    *)
(* the virtual page it was allocated for, a number that keeps names apart, *)
(* and its length; a page is a block's name and an offset.  Freeing a      *)
(* block's first page frees the block, freeing another page does nothing.  *)
(***************************************************************************)
EXTENDS Integers, Sequences, SequencesExt, FiniteSetsExt

CONSTANTS Procs,           \* slots of k_proc_pool, positive numbers
          First,           \* the process that runs at first
          UserPages,       \* virtual pages below the stack
          StackPages,      \* pages of the stack, its guard page included
          MaxVma,          \* max_vma_num
          Programs         \* the calls a program makes, for each kind of program:
                           \*   fork, remap   1 if it calls fork, mremap
                           \*   budgets       how many allocations of a call may succeed
                           \*   sizes         lengths passed to mmap and mremap, half pages
                           \*   extra         what munmap's length adds to the mapping's
                           \*   breaks        addresses passed to brk, half pages
                           \*   room          the page its mappings stay below
                           \*   args          execve argument lists: "fit", "long"

VARIABLES mem,    \* blocks: the blocks in use; pt: page tables; left: how many
                  \* allocations will succeed; panic: log_panic's text; leaf:
                  \* freewalk met a page that is still mapped
          proc,   \* the bookkeeping of each Pcb
          refs,   \* reference count of the file that mmap maps
          prog    \* the kind of program that runs; never changes

vars == <<mem, proc, refs, prog>>

SecPages   == 2                    \* the loaded section and the headers
StackPage  == UserPages
TrapPage   == UserPages + StackPages
VPages     == 0 .. TrapPage
NoPage     == <<>>
Null       == <<>>

Up(x)   == (x + 1) \div 2
Down(x) == x \div 2
Aligned(x) == x % 2 = 0

NoVma == [is_used |-> 0, address |-> 0, length |-> 0, vfile |-> 0]

\* The entry v given up: its address is cleared, and what else it may still
\* hold is never read.
closed(v) == NoVma

New == 0                   \* the page table execve builds

Run(a, n) == [i \in 1 .. n |-> a + i - 1]

Panic(m, why) == IF m.panic = "no" THEN [m EXCEPT !.panic = why] ELSE m

\* The result of a call: the memory after it and whether it succeeded.
Done(m) == [m |-> m, ok |-> TRUE]
Fail(m) == [m |-> m, ok |-> FALSE]

----------------------------------------------------------------------------
\* k_pmm.alloc_pages of a block for virtual page va of process p
Name(m, p, va, len) ==
  <<p, va, Min({k \in 0 .. Cardinality(m.blocks) : <<p, va, k, len>> \notin m.blocks}), len>>

pmm_alloc(m, p, va, len) ==
  IF m.left = 0 THEN [m |-> m, ret |-> Null]
  ELSE LET b == Name(m, p, va, len)
       IN [m |-> [m EXCEPT !.blocks = @ \cup {b}, !.left = @ - 1], ret |-> b]

PageOf(b, i)  == Append(b, i)
BlockOf(page) == Front(page)

\* k_pmm.free_pages: a block that is not in use is the allocator's repeated
\* free, after which free_pages fills all of memory.
pmm_free(m, page) ==
  CASE Last(page) # 0 -> m
    [] Last(page) = 0 /\ BlockOf(page) \in m.blocks -> [m EXCEPT !.blocks = @ \ {BlockOf(page)}]
    [] OTHER -> Panic(m, "repeat free")

(* variant: the page is never given back *)
unmap_page_NoFree(m, p, va, do_free) ==
  IF va \notin VPages \/ m.pt[p][va] = NoPage THEN Panic(m, "vmunmap: not mapped")
  ELSE [m EXCEPT !.pt[p][va] = NoPage]

\* vm_unmap of one page: walk panics on a hole.
unmap_page(m, p, va, do_free) ==
  IF va \notin VPages \/ m.pt[p][va] = NoPage THEN Panic(m, "vmunmap: not mapped")
  ELSE LET f == IF do_free THEN pmm_free(m, m.pt[p][va]) ELSE m
       IN [f EXCEPT !.pt[p][va] = NoPage]

vm_unmap(m, p, va, npages, do_free) ==
  FoldLeft(LAMBDA a, v : IF a.panic # "no" THEN a ELSE unmap_page(a, p, v, do_free),
           m, Run(va, npages))

\* map_pages stops at the first page that is mapped already; what it mapped
\* before stays mapped.
map_pages(m, p, va, n, b) ==
  LET taken == {v \in va .. va + n - 1 : v \notin VPages \/ m.pt[p][v] # NoPage}
      end   == IF taken = {} THEN va + n ELSE Min(taken)
  IN [m  |-> [m EXCEPT !.pt[p] = [v \in VPages |-> IF v \in va .. end - 1
                                                   THEN PageOf(b, v - va) ELSE @[v]]],
      ok |-> taken = {}]

vm_dealloc(m, p, old, new) ==
  IF Up(new) < Up(old) THEN vm_unmap(m, p, Up(new), Up(old) - Up(new), TRUE) ELSE m

\* vm_alloc: one block for each binary digit of the page count, smallest first.
Digits(n) == SetToSortSeq({k \in 0 .. n : (n \div 2 ^ k) % 2 = 1}, <)

\* vm_dealloc of what the call has mapped so far, from page oa up to page at
(* variant: nothing is undone *)
undo_None(m, pt, oa, at) == m
undo(m, pt, oa, at) == vm_unmap(m, pt, oa, at - oa, TRUE)

alloc_digit(a, pt, p, oa, k) ==
  LET r  == pmm_alloc(a.m, p, a.at, 2 ^ k)
      mp == map_pages(r.m, pt, a.at, 2 ^ k, r.ret)
      failed(m) == [a EXCEPT !.m = undo(m, pt, oa, a.at), !.ok = FALSE]
  IN CASE r.ret = Null -> failed(r.m)
       [] r.ret # Null /\ mp.ok -> [a EXCEPT !.m = mp.m, !.at = @ + 2 ^ k]
       [] OTHER -> failed(pmm_free(mp.m, PageOf(r.ret, 0)))

\* into page table pt, for process p
vm_alloc(m, pt, p, old, new) ==
  LET oa == Up(old)
      r  == FoldLeft(LAMBDA a, k : IF a.ok THEN alloc_digit(a, pt, p, oa, k) ELSE a,
                     [m |-> m, at |-> oa, ok |-> TRUE], Digits(Up(new) - oa))
  IN IF new < old THEN Done(m) ELSE [m |-> r.m, ok |-> r.ok]

\* vm_copy of one page of p into q
copy_page(a, p, q, start, v) ==
  LET r  == pmm_alloc(a.m, q, v, 1)
      mp == map_pages(r.m, q, v, 1, r.ret)
      Undo(m) == Fail(vm_unmap(m, q, start, v - start, TRUE))
  IN CASE a.m.pt[p][v] = NoPage -> Fail(Panic(a.m, "uvmcopy: page not present"))
       [] a.m.pt[p][v] # NoPage /\ r.ret = Null -> Undo(r.m)
       [] a.m.pt[p][v] # NoPage /\ r.ret # Null /\ mp.ok -> Done(mp.m)
       [] OTHER -> Undo(pmm_free(r.m, PageOf(r.ret, 0)))

vm_copy(m, p, q, start, size) ==
  IF ~ Aligned(start) \/ ~ Aligned(size) THEN Fail(Panic(m, "vm copy : not page-align"))
  ELSE FoldLeft(LAMBDA a, v : IF a.ok THEN copy_page(a, p, q, Down(start), v) ELSE a,
                Done(m), Run(Down(start), Down(size)))

\* freewalk gives back the table itself; a leaf that is left is only reported.
freewalk(m, p) ==
  [m EXCEPT !.pt[p] = [v \in VPages |-> NoPage],
            !.leaf  = IF \E v \in VPages : m.pt[p][v] # NoPage THEN 1 ELSE @]

----------------------------------------------------------------------------
(***************************************************************************)
(* freeproc: trap frame, sections, stack, heap, table.  An unsigned heap   *)
(* size below zero is larger than the address space.                       *)
(***************************************************************************)
HeapPages(r) == IF r.heap_ptr < r.heap_start THEN TrapPage + 2
                ELSE Up(r.heap_ptr - r.heap_start)

freeproc(m, p, r) ==
  LET m1 == vm_unmap(m, p, TrapPage, 1, TRUE)
      m2 == vm_unmap(m1, p, 0, r.secs, TRUE)
      m3 == vm_unmap(m2, p, StackPage, StackPages, TRUE)
      m4 == vm_unmap(m3, p, Down(r.heap_start), HeapPages(r), TRUE)
  IN IF m4.panic # "no" THEN m4 ELSE freewalk(m4, p)

Freed(r) == [r EXCEPT !.st = "unused", !.secs = 0, !.sz = 0, !.heap_ptr = 0]

----------------------------------------------------------------------------
Live(p) == mem.panic = "no" /\ proc[p].st = "live"

\* The memory a call starts with: any number of its allocations may succeed.
Start(k) == [mem EXCEPT !.left = k]
End(m)   == [m EXCEPT !.left = 0]

Brk(p, n, k) ==
  LET r  == proc[p]
      al == vm_alloc(Start(k), p, p, r.heap_ptr, n)
  IN /\ Live(p)
     /\ n # r.heap_ptr
     /\ \/ /\ n < r.heap_ptr
           /\ mem' = vm_dealloc(mem, p, r.heap_ptr, n)
           /\ proc' = [proc EXCEPT ![p].heap_ptr = n]
        \/ /\ n > r.heap_ptr
           /\ mem' = End(al.m)
           /\ proc' = IF al.ok THEN [proc EXCEPT ![p].heap_ptr = n] ELSE proc
     /\ UNCHANGED refs

Vma(a, len, f) == [is_used |-> 1, address |-> a, length |-> len, vfile |-> f]

FreeSlots(r) == {i \in 1 .. MaxVma : r.vma[i].is_used = 0}

\* The bound on the address space: the mapping ends below the stack.
Room(p, len) == Up(proc[p].sz + len) <= prog.room

MmapAnon(p, len, k) ==
  LET r  == proc[p]
      al == vm_alloc(Start(k), p, p, r.sz, r.sz + len)
      full == FreeSlots(r) = {}
  IN /\ Live(p) /\ Room(p, len)
     /\ mem' = End(al.m)
     /\ proc' = IF ~ al.ok \/ full THEN proc
                ELSE [proc EXCEPT ![p].vma[Min(FreeSlots(r))] = Vma(r.sz, len, 0),
                                  ![p].sz = @ + len]
     /\ UNCHANGED refs

MmapFile(p, len, k) ==
  LET r  == proc[p]
      al == vm_alloc(Start(k), p, p, r.sz, r.sz + len)
  IN /\ Live(p) /\ Room(p, len)
     /\ FreeSlots(r) # {}
     /\ mem' = End(al.m)
     /\ proc' = IF ~ al.ok THEN proc
                ELSE [proc EXCEPT ![p].vma[Min(FreeSlots(r))] = Vma(r.sz, len, 1),
                                  ![p].sz = @ + len]
     /\ refs' = IF al.ok THEN refs + 1 ELSE refs

\* munmap of the mapping at va, with its length and x more; the program passes
\* no null address, which an entry not in use would match.
Munmap(p, va, x) ==
  LET r  == proc[p]
      at == {i \in 1 .. MaxVma : r.vma[i].address = 2 * Down(va)}
      i  == Min(at)
  IN /\ Live(p)
     /\ \/ at = {} /\ UNCHANGED <<mem, proc, refs>>
        \/ /\ at # {}
           /\ mem' = vm_unmap(mem, p, Down(va), Up(r.vma[i].length + x), TRUE)
           /\ proc' = [proc EXCEPT ![p].vma[i] = closed(@)]
           /\ refs' = refs - r.vma[i].vfile

moved(v, sz, len) == [v EXCEPT !.address = sz, !.length = len]

\* mremap writes the old pages to the file, moves the entry and allocates.
Mremap(p, j, len, k) ==
  LET r  == proc[p]
      al == vm_alloc(Start(k), p, p, r.sz, r.sz + len)
  IN /\ Live(p) /\ Room(p, len)
     /\ r.vma[j].is_used = 1 /\ r.vma[j].vfile = 1
     /\ mem' = End(al.m)
     /\ proc' = [proc EXCEPT ![p].vma[j] = moved(@, r.sz, len), ![p].sz = @ + len]
     /\ UNCHANGED refs

----------------------------------------------------------------------------
(***************************************************************************)
(* fork: trap frame, sections, heap, stack and mappings in turn; whatever  *)
(* fails, freeproc is called on the child as far as it has come.           *)
(***************************************************************************)
fork_section(a, p, q) ==
  LET c == vm_copy(a.m, p, q, 2 * a.secs, 2)
  IN IF ~ a.ok THEN a
     ELSE [a EXCEPT !.m = c.m, !.ok = c.ok, !.secs = IF c.ok THEN @ + 1 ELSE @]

(* variant: the file is not dup'ed *)
fork_vma_NoDup(a, p, q, i) ==
  LET v == proc[p].vma[i]
      c == vm_copy(a.m, p, q, v.address, v.length)
  IN CASE ~ a.ok \/ v.is_used = 0 -> a
       [] a.ok /\ v.is_used = 1 /\ ~ c.ok -> [a EXCEPT !.m = c.m, !.ok = FALSE]
       [] OTHER -> [a EXCEPT !.m = c.m, !.vma[i] = v]

fork_vma(a, p, q, i) ==
  LET v == proc[p].vma[i]
      c == vm_copy(a.m, p, q, v.address, v.length)
  IN CASE ~ a.ok \/ v.is_used = 0 -> a
       [] a.ok /\ v.is_used = 1 /\ ~ c.ok -> [a EXCEPT !.m = c.m, !.ok = FALSE]
       [] OTHER -> [a EXCEPT !.m = c.m, !.vma[i] = v, !.dups = @ + v.vfile]

Fork(p, q, k) ==
  LET r   == proc[p]
      old == proc[q]
      tf  == pmm_alloc(Start(k), q, TrapPage, 1)
      s0  == [m |-> [tf.m EXCEPT !.pt[q][TrapPage] = PageOf(tf.ret, 0)],
              ok |-> TRUE, secs |-> 0, vma |-> old.vma, dups |-> 0]
      s1  == FoldLeft(LAMBDA a, i : fork_section(a, p, q), s0, Run(1, r.secs))
      hp  == vm_copy(s1.m, p, q, r.heap_start, 2 * Up(r.heap_ptr - r.heap_start))
      st  == vm_copy(hp.m, p, q, 2 * StackPage, 2 * StackPages)
      s4  == FoldLeft(LAMBDA a, i : fork_vma(a, p, q, i), [s1 EXCEPT !.m = st.m], Run(1, MaxVma))
      np  == [old EXCEPT !.secs = s1.secs]
      nph == [np EXCEPT !.heap_start = r.heap_start, !.heap_ptr = r.heap_ptr, !.sz = r.sz]
      npv == [nph EXCEPT !.vma = s4.vma]
      Ends(m, n, dups) == mem' = End(m) /\ proc' = [proc EXCEPT ![q] = n] /\ refs' = refs + dups
  IN /\ Live(p)
     /\ proc[q].st = "unused"
     /\ CASE tf.ret = Null -> Ends(freeproc(mem, q, old), Freed(old), 0)
          [] tf.ret # Null /\ ~ s1.ok -> Ends(freeproc(s1.m, q, np), Freed(np), 0)
          [] tf.ret # Null /\ s1.ok /\ ~ hp.ok -> Ends(freeproc(hp.m, q, np), Freed(np), 0)
          [] tf.ret # Null /\ s1.ok /\ hp.ok /\ ~ st.ok -> Ends(freeproc(st.m, q, nph), Freed(nph), 0)
          [] OTHER -> IF s4.ok THEN Ends(s4.m, [npv EXCEPT !.st = "live"], s4.dups)
                      ELSE Ends(freeproc(s4.m, q, npv), Freed(npv), s4.dups)

----------------------------------------------------------------------------
(***************************************************************************)
(* execve: build the new image aside, then take the old one down.          *)
(***************************************************************************)
\* _free_pt_with_sec
free_pt_with_sec(m, cnt) ==
  LET m1 == vm_unmap(m, New, 0, cnt, TRUE)
  IN IF m1.panic # "no" THEN m1 ELSE freewalk(m1, New)

\* The trap frame moves on to the new table.  (* variant: it is freed *)
drop_trap_Free(m, p) == vm_unmap(m, p, TrapPage, 1, TRUE)
drop_trap(m, p) == vm_unmap(m, p, TrapPage, 1, FALSE)

exec_vma(a, p, i) ==
  LET v == proc[p].vma[i]
      s == Down(v.address)
  IN IF v.is_used = 0 THEN a
     ELSE [m |-> vm_unmap(a.m, p, s, Up(v.address + v.length) - s, TRUE),
           vma |-> [a.vma EXCEPT ![i] = closed(@)], refs |-> a.refs - v.vfile]

Execve(p, args, k) ==
  LET r  == proc[p]
      l1 == vm_alloc(Start(k), New, p, 0, 2)
      l2 == vm_alloc(l1.m, New, p, 2, 4)
      l3 == vm_alloc(l2.m, New, p, 2 * StackPage, 2 * TrapPage)
      o1 == vm_unmap(l3.m, p, 0, r.secs, TRUE)
      o2 == FoldLeft(LAMBDA a, i : exec_vma(a, p, i),
                     [m |-> o1, vma |-> r.vma, refs |-> refs], Run(1, MaxVma))
      o3 == vm_unmap(o2.m, p, Down(r.heap_start), Up(r.heap_ptr) - Down(r.heap_start), TRUE)
      o4 == vm_unmap(o3, p, StackPage, StackPages, TRUE)
      o5 == drop_trap(o4, p)
      o6 == freewalk(o5, p)
      fail(m) == mem' = End(m) /\ UNCHANGED <<proc, refs>>
  IN /\ Live(p)
     /\ CASE ~ l1.ok -> fail(free_pt_with_sec(l1.m, 0))
          [] l1.ok /\ ~ l2.ok -> fail(free_pt_with_sec(l2.m, 1))
          [] l1.ok /\ l2.ok /\ ~ l3.ok -> fail(free_pt_with_sec(l3.m, 2))
          [] l1.ok /\ l2.ok /\ l3.ok /\ args = "long" -> fail(free_pt_with_sec(l3.m, 2))
          [] OTHER ->
               /\ mem' = IF o5.panic # "no" THEN End(o5)
                         ELSE [End(o6) EXCEPT !.pt[p] = [o6.pt[New] EXCEPT ![TrapPage] = mem.pt[p][TrapPage]],
                                         !.pt[New] = [v \in VPages |-> NoPage]]
               /\ proc' = [proc EXCEPT ![p] = [r EXCEPT !.secs = SecPages, !.vma = o2.vma,
                                                        !.sz = 2 * (SecPages + StackPages),
                                                        !.heap_start = 2 * SecPages,
                                                        !.heap_ptr = 2 * SecPages]]
               /\ refs' = o2.refs

----------------------------------------------------------------------------
\* exit_proc drops the mappings by their address, the rest is left to freeproc.
exit_vma(a, p, i) ==
  LET v == proc[p].vma[i]
  IN IF v.address = 0 THEN a
     ELSE [m |-> vm_unmap(a.m, p, Up(v.address), Down(v.length), TRUE),
           vma |-> [a.vma EXCEPT ![i] = closed(@)],
           refs |-> a.refs - v.vfile]

Exit(p) ==
  LET e == FoldLeft(LAMBDA a, i : exit_vma(a, p, i),
                    [m |-> mem, vma |-> proc[p].vma, refs |-> refs], Run(1, MaxVma))
  IN /\ Live(p) /\ p # First
     /\ mem' = e.m
     /\ proc' = [proc EXCEPT ![p].st = "zombie", ![p].vma = e.vma]
     /\ refs' = e.refs

Reap(p) ==
  /\ mem.panic = "no" /\ proc[p].st = "zombie"
  /\ mem' = freeproc(mem, p, proc[p])
  /\ proc' = [proc EXCEPT ![p] = Freed(@)]
  /\ UNCHANGED refs

----------------------------------------------------------------------------
NoProc == [st |-> "unused", secs |-> 0, sz |-> 0, heap_start |-> 0, heap_ptr |-> 0,
           vma |-> [i \in 1 .. MaxVma |-> NoVma]]

\* The first process has run execve.
Init ==
  LET Empty == [v \in VPages |-> NoPage]
      m0 == [blocks |-> {}, left |-> 99, panic |-> "no", leaf |-> 0,
             pt |-> [p \in Procs \cup {New} |-> Empty]]
      m1 == vm_alloc(m0, First, First, 2 * TrapPage, 2 * TrapPage + 2).m
      m2 == vm_alloc(m1, First, First, 0, 2).m
      m3 == vm_alloc(m2, First, First, 2, 4).m
  IN /\ mem = End(vm_alloc(m3, First, First, 2 * StackPage, 2 * TrapPage).m)
     /\ proc = [p \in Procs |-> IF p = First
                  THEN [NoProc EXCEPT !.st = "live", !.secs = SecPages, !.sz = 2 * (SecPages + StackPages),
                                      !.heap_start = 2 * SecPages, !.heap_ptr = 2 * SecPages]
                  ELSE NoProc]
     /\ refs = 1
     /\ prog \in Programs

Next ==
  /\ UNCHANGED prog
  /\ \E p \in Procs :
       \/ \E k \in prog.budgets :
            \/ \E n \in prog.breaks : Brk(p, n, k)
            \/ \E len \in prog.sizes : MmapAnon(p, len, k) \/ MmapFile(p, len, k)
            \/ prog.remap = 1 /\ \E j \in 1 .. MaxVma, len \in prog.sizes : Mremap(p, j, len, k)
            \/ prog.fork = 1 /\ \E q \in Procs : Fork(p, q, k)
            \/ \E a \in prog.args : Execve(p, a, k)
       \/ \E va \in 2 .. 2 * UserPages, x \in prog.extra : Munmap(p, va, x)
       \/ Exit(p)
       \/ Reap(p)

Spec == Init /\ [][Next]_vars

----------------------------------------------------------------------------
Spaces == Procs \cup {New}
Mapped == {<<p, v>> \in Spaces \X VPages : mem.pt[p][v] # NoPage}

\* The type of the state: page tables hold pages or nothing, the break and
\* _sz stay below the stack, the mapped file keeps its opener's reference.
TypeOK ==
  /\ \A p \in Spaces, v \in VPages : Len(mem.pt[p][v]) \in {0, 5}
  /\ \A b \in mem.blocks : Len(b) = 4 /\ b[1] \in Procs
  /\ mem.leaf \in {0, 1} /\ mem.left = 0
  /\ \A p \in Procs : /\ proc[p].st \in {"unused", "live", "zombie"}
                      /\ proc[p].sz \in 0 .. 2 * UserPages
                      /\ proc[p].heap_ptr \in 0 .. 2 * UserPages
                      /\ \A i \in 1 .. MaxVma : proc[p].vma[i].is_used \in {0, 1}
  /\ refs \in Nat \ {0}

(***************************************************************************)
(* Every page a page table maps belongs to a block the allocator has given *)
(* out, and no two page table entries map the same page: vm_unmap frees a  *)
(* block exactly when its first page goes, and fork, execve and exit_proc  *)
(* leave no entry behind for a page that was freed.                        *)
(***************************************************************************)
MappedOwned ==
  TypeOK /\ (mem.panic = "no" =>
    /\ \A x \in Mapped : BlockOf(mem.pt[x[1]][x[2]]) \in mem.blocks
    /\ \A x, y \in Mapped : mem.pt[x[1]][x[2]] = mem.pt[y[1]][y[2]] => x = y)

\* fork finds the memory it needs; when it does not, it leaves the child's
\* slot with the mappings copied so far.
ForkFits == prog.fork = 1 => prog.budgets = {99}

\* A program keeps to what the bookkeeping allows for: its lengths are whole
\* pages, munmap gets the length mmap got, argument lists fit, and fork has
\* the memory it needs.
WellFormed ==
  /\ \A len \in prog.sizes : Aligned(len)
  /\ prog.extra = {0} /\ "long" \notin prog.args
  /\ ForkFits

\* It does not move mappings either: mremap leaves the old pages mapped.
Regular == WellFormed /\ prog.remap = 0

\* Every block in use can still be freed: its first page is mapped somewhere,
\* whichever calls succeeded, failed half way or took an image down, and
\* freewalk never meets a page that is still mapped, which it would only
\* report ("freewalk: leaf") and lose.
NoLeak == Regular /\ mem.panic = "no" =>
  mem.leaf = 0 /\ \A b \in mem.blocks : \E x \in Mapped : mem.pt[x[1]][x[2]] = PageOf(b, 0)

\* The mapped file's reference count is its opener's and one for each mapping
\* in use (mmap and fork dup it; munmap, execve and exit_proc free it).
RefsMatch == ForkFits /\ mem.panic = "no" =>
   refs = 1 + Cardinality({x \in Procs \X (1 .. MaxVma) :
                             LET v == proc[x[1]].vma[x[2]] IN v.is_used = 1 /\ v.vfile = 1})

\* The pages that the Pcb of p accounts for
SpanOf(r) == 0 .. r.secs - 1 \cup (Down(r.heap_start) .. Up(r.heap_ptr) - 1)
             \cup (StackPage .. TrapPage)
             \cup UNION {Down(r.vma[i].address) .. Up(r.vma[i].address + r.vma[i].length) - 1 :
                          i \in {j \in 1 .. MaxVma : r.vma[j].is_used = 1}}

\* What a live process has mapped is exactly what its Pcb accounts for: the
\* sections, the heap up to the break, the stack, the trap frame and the
\* mappings in use.  freeproc, execve and fork rely on it: no log_panic of
\* vm_unmap, vm_copy or walk is reached and no page is freed twice.
Accounted ==
  /\ WellFormed => mem.panic = "no"
  /\ Regular => \A p \in Procs : proc[p].st = "live" =>
      {v \in VPages : mem.pt[p][v] # NoPage} = SpanOf(proc[p])
=============================================================================
