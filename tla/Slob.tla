-------------------------------- MODULE Slob --------------------------------
(***************************************************************************)
(* The SLOB heap of assignments/a4/slob.c with the group's changes: pages  *)
(* on three free lists, the page search of slob_alloc ("best fit"),        *)
(* slob_free, the kmalloc and kmem_cache front ends with RCU-deferred      *)
(* frees, and the counter "pages" that the new system calls read.          *)
(*                                                                         *)
(* Threads run concurrently.  A critical section under slob_lock is one    *)
(* step; what happens between two of them (alloc_pages, free_pages,        *)
(* pages++ and pages--) are steps of their own.  Inside a page the module  *)
(* uses the contract that SlobPage implements: first fit over the units    *)
(* that no block occupies.  CONFIG_NUMA is off (the i386 build).           *)
(***************************************************************************)
EXTENDS SlobUnits, SequencesExt

CONSTANTS Frames,        \* the page frames that alloc_pages can hand out
          NoFrame,       \* no frame
          Threads,       \* the tasks and CPUs that call the allocator
          KmallocSizes,  \* sizes in bytes that callers pass to kmalloc
          Caches,        \* kmem caches: [size (bytes), align (units), rcu]
          SLOB_BREAK1, SLOB_BREAK2,  \* bytes, 256 and 1024 in the code
          KMALLOC_ALIGN,   \* bytes: the kmalloc header and alignment
          RCU_SIZE,        \* bytes: sizeof(struct slob_rcu)
          ScanLimit,       \* how far the best-fit scan looks, 50 in the code
          ULONG,           \* the values of an unsigned long: 2^32
          SMP              \* pages++ of two CPUs may overlap

SLOB_UNIT == 2                       \* sizeof(slob_t), bytes
PAGE_SIZE == PAGE_UNITS * SLOB_UNIT
SLOB_UNITS(size) == (size + SLOB_UNIT - 1) \div SLOB_UNIT

Lists == {"small", "medium", "large"}

ASSUME SlobAssumption ==
  /\ IsFiniteSet(Frames) /\ NoFrame \notin Frames
  /\ KmallocSizes \subseteq Nat \ {0}  \* kmalloc(0) returns before any change
  /\ Caches \subseteq [size : Nat \ {0}, align : Nat, rcu : BOOLEAN]
  /\ SLOB_BREAK1 \in Nat /\ SLOB_BREAK2 \in Nat
  /\ KMALLOC_ALIGN \in Nat \ {0} /\ KMALLOC_ALIGN % SLOB_UNIT = 0
  /\ RCU_SIZE \in Nat
  /\ \A c \in Caches : c.rcu => c.size + RCU_SIZE < PAGE_SIZE
  /\ ScanLimit \in Nat
  /\ ULONG \in Nat /\ ULONG > Cardinality(Frames)
  /\ SMP \in BOOLEAN

VARIABLES avail,     \* frames the page allocator has
          PageSlab,  \* frames flagged as SLOB pages
          units,     \* sp->units of every frame
          slobfree,  \* frames flagged PageSlobFree
          lists,     \* free_slob_small, _medium and _large
          blocks,    \* blocks carved from SLOB pages and not yet given back
          rcu,       \* the blocks among them that wait for an RCU callback
          big,       \* frames handed out directly, without slob_alloc
          pages,     \* the counter
          pc, loc    \* where each thread stands, and its local variables
heap  == <<PageSlab, units, slobfree, lists, blocks>>
vars  == <<avail, heap, rcu, big, pages, pc, loc>>

\* The requests: what the front ends ask of slob_alloc.  The kmalloc header
\* comes on top of the size, the RCU footer is in the cache's size.
KmallocSrc(n) == [kind |-> "kmalloc", size |-> n,
                  align |-> KMALLOC_ALIGN \div SLOB_UNIT]
CacheSrc(c)   == [kind |-> IF c.rcu THEN "rcu" ELSE "cache",
                  size |-> c.size + IF c.rcu THEN RCU_SIZE ELSE 0,
                  align |-> c.align]
Sources == {KmallocSrc(n) : n \in KmallocSizes} \cup {CacheSrc(c) : c \in Caches}

AllocSize(src) == src.size + IF src.kind = "kmalloc" THEN KMALLOC_ALIGN ELSE 0

\* Mutant: a header is assumed in front of every object.
FreeSize_bug(src) == src.size + KMALLOC_ALIGN

\* kfree reads the size from the header; kmem_cache_free knows the cache's.
FreeSize(src) == src.size + IF src.kind = "kmalloc" THEN KMALLOC_ALIGN ELSE 0

\* Mutant: the header is left out of the comparison.
FromSlob_bug(src) == src.size < PAGE_SIZE

\* Objects of a page or more come from the page allocator.
FromSlob(src) == AllocSize(src) < PAGE_SIZE

Blocks == [page : Frames, off : Units, units : 1 .. PAGE_UNITS, src : Sources]
BlocksOf(f) == {b \in blocks : b.page = f}
Free(f) == FreeUnits(BlocksOf(f))

ListFor(size) == CASE size < SLOB_BREAK1 -> "small"
                   [] size >= SLOB_BREAK1 /\ size < SLOB_BREAK2 -> "medium"
                   [] OTHER -> "large"

\* A thread's local variables: the request it serves, the page it adds or
\* gives back, what it adds to "pages" and what it loaded from it.
NoSrc == [kind |-> "none", size |-> 0, align |-> 0]
NoLoc == [src |-> NoSrc, page |-> NoFrame, delta |-> 0, reg |-> 0]

Goto(t, label, local) == /\ pc' = [pc EXCEPT ![t] = label]
                         /\ loc' = [loc EXCEPT ![t] = local]

Return(t) == Goto(t, "idle", NoLoc)
-----------------------------------------------------------------------------
(* slob_page_alloc, as its caller sees it: see SlobPageSpec. *)

CanPlace(f, src) ==
  Places(Free(f), SLOB_UNITS(AllocSize(src)), src.align) # {}

NewBlock(f, free, src) ==
  [page |-> f, src |-> src, units |-> SLOB_UNITS(AllocSize(src)),
   off |-> FirstFit(free, SLOB_UNITS(AllocSize(src)), src.align)]

\* Mutant: a page without free units stays on its list.
Unlink_bug(l, k, u) == l

\* slob_page_alloc leaves u units of the k-th page of l free: with none left,
\* the page leaves the list.
Unlink(l, k, u) == IF u = 0 THEN RemoveAt(l, k) ELSE l
-----------------------------------------------------------------------------
(* slob_alloc. *)

\* The page the inner loop settles on when the outer one stands at the i-th
\* page of l: the one with the fewest units that suffice, among the pages in
\* front of the i-th that the scan reaches and the i-th itself.
Best(l, i, need) ==
  LET C == {k \in 1 .. i : /\ k = i \/ k <= ScanLimit
                           /\ units[l[k]] >= need}
      M == {k \in C : \A j \in C : units[l[k]] <= units[l[j]]}
  IN IF i \in M THEN i ELSE CHOOSE k \in M : \A j \in M : k <= j

\* The pages of l, in order, at which the outer loop's attempt succeeds.
Hits(l, src) ==
  LET need == SLOB_UNITS(AllocSize(src)) IN
  {i \in 1 .. Len(l) : /\ units[l[i]] >= need
                       /\ CanPlace(l[Best(l, i, need)], src)}

\* list_move_tail(slob_list, prev->next): the list starts at its k-th page.
RotateTo(l, k) == SubSeq(l, k, Len(l)) \o SubSeq(l, 1, k - 1)

\* The search succeeds under the first critical section.
AllocHit(t, src) ==
  LET ln   == ListFor(AllocSize(src))
      l    == lists[ln]
      need == SLOB_UNITS(AllocSize(src))
      hits == Hits(l, src)
      k    == Best(l, CHOOSE i \in hits : \A j \in hits : i <= j, need)
      f    == l[k]
      left == units[f] - need
  IN /\ pc[t] = "idle"
     /\ FromSlob(src)
     /\ hits # {}
     /\ blocks' = blocks \cup {NewBlock(f, Free(f), src)}
     /\ units' = [units EXCEPT ![f] = left]
     /\ slobfree' = IF left = 0 THEN slobfree \ {f} ELSE slobfree
     /\ lists' = [lists EXCEPT ![ln] = RotateTo(Unlink(l, k, left), k)]
     /\ UNCHANGED <<avail, PageSlab, rcu, big, pages, pc, loc>>

\* No page of the list will do: the lock is dropped to get a new one.
AllocMiss(t, src) ==
  /\ pc[t] = "idle"
  /\ FromSlob(src)
  /\ Hits(lists[ListFor(AllocSize(src))], src) = {}
  /\ Goto(t, "newpage", [NoLoc EXCEPT !.src = src])
  /\ UNCHANGED <<avail, heap, rcu, big, pages>>

\* slob_new_pages: a frame, now a SLOB page, or NULL, which ends the call.
NewPageOk(t, f) ==
  /\ pc[t] = "newpage"
  /\ f \in avail
  /\ avail' = avail \ {f}
  /\ PageSlab' = PageSlab \cup {f}
  /\ Goto(t, "addpage", [loc[t] EXCEPT !.page = f])
  /\ UNCHANGED <<units, slobfree, lists, blocks, rcu, big, pages>>

NewPageFails(t) ==
  /\ pc[t] = "newpage"
  /\ Return(t)
  /\ UNCHANGED <<avail, heap, rcu, big, pages>>

\* The second critical section: the page enters the heap with all units free
\* and at once gives the block; it may be full already.  A failure here is
\* the BUG_ON(!b).
AddPage(t) ==
  LET f    == loc[t].page
      src  == loc[t].src
      ln   == ListFor(AllocSize(src))
      left == PAGE_UNITS - SLOB_UNITS(AllocSize(src))
      fits == Places(Units, SLOB_UNITS(AllocSize(src)), src.align) # {}
  IN /\ pc[t] = "addpage"
     /\ IF fits
        THEN /\ blocks' = blocks \cup {NewBlock(f, Units, src)}
             /\ units' = [units EXCEPT ![f] = left]
             /\ slobfree' = IF left = 0 THEN slobfree ELSE slobfree \cup {f}
             /\ lists' = [lists EXCEPT ![ln] = Unlink(<<f>> \o @, 1, left)]
             /\ Goto(t, "count", [NoLoc EXCEPT !.delta = 1])
        ELSE /\ Goto(t, "bug", NoLoc)
             /\ UNCHANGED <<blocks, units, slobfree, lists>>
     /\ UNCHANGED <<avail, PageSlab, rcu, big, pages>>

\* pages++ or pages--, after the lock was released: a load and a store that
\* another CPU's can fall between.  On one CPU they are one instruction, and the
\* qemu that the kernel was run on (a1's write-up, no -smp) has one; SMP is the
\* machine with more.
CountLoad(t) ==
  /\ pc[t] = "count"
  /\ SMP \/ \A u \in Threads : pc[u] # "store"
  /\ Goto(t, "store", [loc[t] EXCEPT !.reg = pages])
  /\ UNCHANGED <<avail, heap, rcu, big, pages>>

CountStore(t) ==
  /\ pc[t] = "store"
  /\ pages' = (loc[t].reg + loc[t].delta) % ULONG
  /\ Return(t)
  /\ UNCHANGED <<avail, heap, rcu, big>>
-----------------------------------------------------------------------------
(* slob_free of block b, for kfree, kmem_cache_free and kmem_rcu_free. *)

\* Mutant: the page is given back one unit too early.
LastBlock_bug(b) == units[b.page] + SLOB_UNITS(FreeSize(b.src)) >= PAGE_UNITS - 1

LastBlock(b) == units[b.page] + SLOB_UNITS(FreeSize(b.src)) = PAGE_UNITS

\* list_del(&sp->list), on whichever list l page f is.
Delist(l, f) == IF f \in ToSet(l)
                THEN RemoveAt(l, CHOOSE i \in DOMAIN l : l[i] = f)
                ELSE l

\* With this block the whole page is free: it leaves the heap.
FreeLast(t, b) ==
  LET f == b.page IN
  /\ LastBlock(b)
  /\ slobfree' = slobfree \ {f}
  /\ lists' = IF f \in slobfree THEN [n \in Lists |-> Delist(lists[n], f)]
                                ELSE lists
  /\ blocks' = blocks \ {b}
  /\ Goto(t, "putpage", [NoLoc EXCEPT !.page = f, !.delta = -1])
  /\ UNCHANGED <<PageSlab, units>>

\* A full page becomes partially free and enters the list for this size.
FreeFirst(t, b) ==
  LET f == b.page
      size == FreeSize(b.src)
  IN /\ ~LastBlock(b)
     /\ f \notin slobfree
     /\ units' = [units EXCEPT ![f] = SLOB_UNITS(size)]
     /\ slobfree' = slobfree \cup {f}
     /\ lists' = [lists EXCEPT ![ListFor(size)] = <<f>> \o @]
     /\ blocks' = blocks \ {b}
     /\ UNCHANGED <<PageSlab, pc, loc>>

FreeMore(t, b) ==
  /\ ~LastBlock(b)
  /\ b.page \in slobfree
  /\ units' = [units EXCEPT ![b.page] = @ + SLOB_UNITS(FreeSize(b.src))]
  /\ blocks' = blocks \ {b}
  /\ UNCHANGED <<PageSlab, slobfree, lists, pc, loc>>

slob_free(t, b) ==
  /\ pc[t] = "idle"
  /\ FreeLast(t, b) \/ FreeFirst(t, b) \/ FreeMore(t, b)
  /\ UNCHANGED <<avail, big, pages>>

\* Mutant: pages-- is missing.
PutPage_bug(t) ==
  LET f == loc[t].page IN
  /\ pc[t] = "putpage"
  /\ PageSlab' = PageSlab \ {f}
  /\ avail' = avail \cup {f}
  /\ Return(t)
  /\ UNCHANGED <<units, slobfree, lists, blocks, rcu, big, pages>>

\* Outside the lock the page goes back to the page allocator.
PutPage(t) ==
  LET f == loc[t].page IN
  /\ pc[t] = "putpage"
  /\ PageSlab' = PageSlab \ {f}
  /\ avail' = avail \cup {f}
  /\ Goto(t, "count", [NoLoc EXCEPT !.delta = -1])
  /\ UNCHANGED <<units, slobfree, lists, blocks, rcu, big, pages>>

FreeBlock(t, b) ==
  /\ b.src.kind # "rcu"
  /\ slob_free(t, b)
  /\ UNCHANGED rcu

\* kmem_cache_free of a SLAB_DESTROY_BY_RCU object only queues the callback.
FreeByRcu(t, b) ==
  /\ pc[t] = "idle"
  /\ b.src.kind = "rcu"
  /\ b \notin rcu
  /\ rcu' = rcu \cup {b}
  /\ UNCHANGED <<avail, heap, big, pages, pc, loc>>

\* The callback, when the grace period is over.
kmem_rcu_free(t, b) ==
  /\ b \in rcu
  /\ slob_free(t, b)
  /\ rcu' = rcu \ {b}
-----------------------------------------------------------------------------
(* Objects of a page or more: slob_new_pages and free_pages directly. *)

get_order(size) == CHOOSE k \in 0 .. size :
                     /\ PAGE_SIZE * 2^k >= size
                     /\ \A j \in 0 .. k - 1 : PAGE_SIZE * 2^j < size

AllocBig(t, src) ==
  /\ pc[t] = "idle"
  /\ ~FromSlob(src)
  /\ \E fs \in SUBSET avail :
       /\ Cardinality(fs) = 2^get_order(src.size)
       /\ avail' = avail \ fs
       /\ big' = big \cup {fs}
  /\ UNCHANGED <<heap, rcu, pages, pc, loc>>

\* kfree finds PageSlab clear.
FreeBig(t, fs) ==
  /\ pc[t] = "idle"
  /\ fs \cap PageSlab = {}
  /\ big' = big \ {fs}
  /\ avail' = avail \cup fs
  /\ UNCHANGED <<heap, rcu, pages, pc, loc>>
-----------------------------------------------------------------------------
Init ==
  /\ avail = Frames
  /\ PageSlab = {} /\ slobfree = {} /\ blocks = {} /\ rcu = {} /\ big = {}
  /\ units = [f \in Frames |-> 0]
  /\ lists = [n \in Lists |-> <<>>]
  /\ pages = 0
  /\ pc = [t \in Threads |-> "idle"]
  /\ loc = [t \in Threads |-> NoLoc]

ThreadStep(t) ==
  \/ \E src \in Sources : AllocHit(t, src) \/ AllocMiss(t, src) \/ AllocBig(t, src)
  \/ \E f \in Frames : NewPageOk(t, f)
  \/ NewPageFails(t) \/ AddPage(t)
  \/ CountLoad(t) \/ CountStore(t)
  \/ PutPage(t)
  \/ \E b \in blocks : FreeBlock(t, b) \/ FreeByRcu(t, b) \/ kmem_rcu_free(t, b)
  \/ \E fs \in big : FreeBig(t, fs)

Next == \E t \in Threads : ThreadStep(t)

Spec == Init /\ [][Next]_vars
-----------------------------------------------------------------------------
(* Properties. *)

\* The SLOB pages that are neither on their way in nor on their way out.
HeapPages ==
  {f \in PageSlab : \A t \in Threads :
     pc[t] \in {"addpage", "putpage"} => loc[t].page # f}

TypeOK ==
  /\ avail \subseteq Frames
  /\ PageSlab \subseteq Frames
  /\ slobfree \subseteq Frames
  /\ units \in [Frames -> 0 .. PAGE_UNITS]
  /\ lists \in [Lists -> Seq(Frames)]
  /\ blocks \subseteq Blocks
  /\ rcu \subseteq blocks
  /\ big \subseteq SUBSET Frames
  /\ pages \in 0 .. ULONG - 1
  /\ pc \in [Threads -> {"idle", "newpage", "addpage", "count", "store",
                         "putpage", "bug"}]
  /\ loc \in [Threads -> [src : Sources \cup {NoSrc},
                          page : Frames \cup {NoFrame},
                          delta : {-1, 0, 1}, reg : 0 .. ULONG - 1]]

\* No two callers are ever given the same memory: live blocks of a page do not
\* overlap (blocks waiting for RCU included), they lie in pages that belong to
\* the heap, and no frame is at once a SLOB page, a page-sized object and the
\* page allocator's.
BlocksApart ==
  /\ \A b, c \in blocks :
       b # c /\ b.page = c.page => Span(b) \cap Span(c) = {}
  /\ \A b \in blocks : b.page \in HeapPages /\ Span(b) \subseteq Units
  /\ avail \cap PageSlab = {}
  /\ \A fs \in big : /\ fs \cap (avail \cup PageSlab) = {}
                     /\ \A gs \in big : gs = fs \/ gs \cap fs = {}

\* The pages of the heap that have free units.
Partial == {f \in HeapPages : Free(f) # {}}

\* "All partially free slob pages go on these lists" (slob.c:99-101): exactly
\* the pages of the heap with free units are on a list, each on one list and
\* once, PageSlobFree says so, and sp->units counts the free units, whatever
\* moves pages between lists.
ListsExact ==
  /\ slobfree = Partial
  /\ UNION {ToSet(lists[n]) : n \in Lists} = Partial
  /\ \A n, m \in Lists : \A i \in DOMAIN lists[n], j \in DOMAIN lists[m] :
       lists[n][i] = lists[m][j] => n = m /\ i = j
  /\ \A f \in HeapPages : units[f] = Cardinality(Free(f))

\* A page whose last block is freed leaves the heap with that free: no empty
\* page stays behind on a list.
NoEmptyPage == \A f \in HeapPages : BlocksOf(f) # {}

\* BUG_ON(!b) in slob_alloc is never hit: a fresh page serves every request
\* that the front ends let through.
NoBug == \A t \in Threads : pc[t] # "bug"

\* Whenever no call is under way, "pages" is the number of SLOB pages: what
\* sys_slob_units_used multiplies with the units of a page.
PagesCounted ==
  (\A t \in Threads : pc[t] \in {"idle", "newpage"})
     => pages = Cardinality(PageSlab)

\* "keep track of best fit" (slob.c:306): a block placed in a page of the list
\* goes to the one with the fewest free units among those that can hold it.
BestFit ==
  [][\A b \in blocks' \ blocks : b.page \in slobfree =>
       LET l == lists[ListFor(AllocSize(b.src))]
       IN \A i \in 1 .. Len(l) :
            CanPlace(l[i], b.src) => units[b.page] <= units[l[i]]]_vars

\* "Not enough space: must allocate a new page" (slob.c:338): a search that goes
\* on to a new page left no page on the list that has room.  The code fails it:
\* a page with few but scattered free units is taken for the best again at
\* every page behind it, which are then never tried.
RoomFound ==
  [][\A t \in Threads : pc[t] # "newpage" /\ pc'[t] = "newpage" =>
       LET src == loc'[t].src
           l   == lists[ListFor(AllocSize(src))]
       IN  \A i \in 1 .. Len(l) : ~CanPlace(l[i], src)]_vars
=============================================================================
