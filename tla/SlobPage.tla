------------------------------ MODULE SlobPage ------------------------------
(***************************************************************************)
(* One page of the SLOB heap with the free list that slob.c keeps inside   *)
(* the free blocks themselves: slob_page_alloc, the insertion half of      *)
(* slob_free, and the encoding they share.  Every iteration of the two     *)
(* list walks is a step; slob_lock is held throughout, so walks of the     *)
(* same page never interleave and the page runs one operation at a time.   *)
(***************************************************************************)
EXTENDS SlobUnits

CONSTANT Requests        \* pairs <<units, align>> callers ask for, in units

ASSUME RequestsAssumption ==
  \A r \in Requests : r[1] \in 1 .. PAGE_UNITS /\ r[2] \in 0 .. PAGE_UNITS

VARIABLES mem,           \* slob_block.units of every unit of the page
          freelist,      \* sp->freelist
          units,         \* sp->units
          slobfree,      \* PageSlobFree(sp): the page is on a free list
          blocks,        \* the blocks callers hold
          pc,            \* where the operation under slob_lock stands
          prev, cur,     \* the walk's pointers (cur is "next" in slob_free)
          req,           \* the operation's arguments
          ret            \* what the last slob_page_alloc returned
vars == <<mem, freelist, units, slobfree, blocks, pc, prev, cur, req, ret>>

NULL == -1

\* What callers leave in their blocks, and what a page from alloc_pages holds.
\* set_slob never writes it: sizes and offsets are not 0.
JUNK == 0

NoReq == [off |-> NULL, units |-> 0, align |-> 0]

TypeOK ==
  /\ mem \in [Units -> -PAGE_UNITS .. PAGE_UNITS]
  /\ freelist \in 0 .. PAGE_UNITS
  /\ units \in 0 .. PAGE_UNITS
  /\ slobfree \in BOOLEAN
  /\ blocks \subseteq [off : Units, units : 1 .. PAGE_UNITS]
  /\ pc \in {"nopage", "idle", "scan", "walk"}
  /\ prev \in NULL .. PAGE_UNITS
  /\ cur \in NULL .. PAGE_UNITS
  /\ req \in [off : NULL .. PAGE_UNITS, units : 0 .. PAGE_UNITS,
              align : 0 .. PAGE_UNITS]
  /\ ret \in NULL .. PAGE_UNITS
-----------------------------------------------------------------------------
(* The encoding of a free block in the page's memory. *)

\* Encode the given size and next pointer into the free block at s.
set_slob(m, s, size, next) ==
  IF size > 1 THEN [m EXCEPT ![s] = size, ![s + 1] = next]
              ELSE [m EXCEPT ![s] = -next]

slob_units(m, s) == IF m[s] > 0 THEN m[s] ELSE 1

\* Mutant: the encoding of one-unit blocks is forgotten.
slob_next_bug(m, s) == IF s + 1 < PAGE_UNITS THEN m[s + 1] ELSE PAGE_UNITS

slob_next(m, s) == IF m[s] < 0 THEN -m[s] ELSE m[s + 1]

\* The next pointer is page aligned: it is the base of the following page.
slob_last(m, s) == slob_next(m, s) % PAGE_UNITS = 0
-----------------------------------------------------------------------------
(* slob_page_alloc: the scan for room. *)

\* How far the aligned address lies behind the block's start.
Delta(s, align) == IF align = 0 THEN 0 ELSE ALIGN(s, align) - s

\* Mutant: the units lost to alignment are not counted.
RoomEnough_bug(m, s, u, align) == slob_units(m, s) >= u

RoomEnough(m, s, u, align) == slob_units(m, s) >= u + Delta(s, align)

\* The block at c, whose predecessor in the list is p, gives its u units at
\* the aligned address: a head in front of it stays a free block of its own,
\* the rest behind it becomes one or, on an exact fit, is unlinked.
Carve(m, fl, p, c, u, align) ==
  LET avail == slob_units(m, c)
      delta == Delta(c, align)
      a     == c + delta
      m1    == IF delta = 0 THEN m
               ELSE set_slob(set_slob(m, a, avail - delta, slob_next(m, c)),
                             c, delta, a)
      p1    == IF delta = 0 THEN p ELSE c
      rest  == slob_units(m1, a) - u
      next  == slob_next(m1, a)
      after == IF rest = 0 THEN next ELSE a + u
      m2    == IF p1 = NULL THEN m1
               ELSE set_slob(m1, p1, slob_units(m1, p1), after)
  IN [off      |-> a,
      freelist |-> IF p1 = NULL THEN after ELSE fl,
      mem      |-> IF rest = 0 THEN m2 ELSE set_slob(m2, a + u, rest, next)]

EndOp == pc' = "idle" /\ prev' = NULL /\ cur' = NULL /\ req' = NoReq

StartScan(r, fl) ==
  /\ pc' = "scan"
  /\ prev' = NULL
  /\ cur' = fl
  /\ req' = [off |-> NULL, units |-> r[1], align |-> r[2]]

\* slob_alloc found no page with room: a page from alloc_pages becomes one
\* free block, and the request is served from it under the same lock.
NewPage(r) ==
  /\ pc = "nopage"
  /\ units' = PAGE_UNITS
  /\ freelist' = 0
  /\ mem' = set_slob([i \in Units |-> JUNK], 0, PAGE_UNITS, PAGE_UNITS)
  /\ slobfree' = TRUE
  /\ StartScan(r, 0)
  /\ UNCHANGED <<blocks, ret>>

\* slob_alloc tries this page: it is on a list and its sp->units suffice.
AllocStart(r) ==
  /\ pc = "idle"
  /\ slobfree
  /\ units >= r[1]
  /\ StartScan(r, freelist)
  /\ UNCHANGED <<mem, freelist, units, slobfree, blocks, ret>>

\* External: the caller overwrites the block it was given.
OwnerWrites(m, b) == [i \in Units |-> IF i \in Span(b) THEN JUNK ELSE m[i]]

AllocTake ==
  /\ pc = "scan"
  /\ RoomEnough(mem, cur, req.units, req.align)
  /\ LET c == Carve(mem, freelist, prev, cur, req.units, req.align)
         b == [off |-> c.off, units |-> req.units]
     IN /\ mem' = OwnerWrites(c.mem, b)
        /\ freelist' = c.freelist
        /\ ret' = c.off
        /\ blocks' = blocks \cup {b}
  /\ units' = units - req.units
  /\ slobfree' = (slobfree /\ units' # 0)
  /\ EndOp

AllocFail ==
  /\ pc = "scan"
  /\ ~RoomEnough(mem, cur, req.units, req.align)
  /\ slob_last(mem, cur)
  /\ ret' = NULL
  /\ EndOp
  /\ UNCHANGED <<mem, freelist, units, slobfree, blocks>>

AllocAdvance ==
  /\ pc = "scan"
  /\ ~RoomEnough(mem, cur, req.units, req.align)
  /\ ~slob_last(mem, cur)
  /\ prev' = cur
  /\ cur' = slob_next(mem, cur)
  /\ UNCHANGED <<mem, freelist, units, slobfree, blocks, pc, req, ret>>

-----------------------------------------------------------------------------
(* slob_free of a block b = [off, units]. *)

\* The block was the last one: the page goes back to the page allocator.
FreeRelease(b) ==
  /\ pc = "idle"
  /\ units + b.units = PAGE_UNITS
  /\ slobfree' = FALSE
  /\ blocks' = blocks \ {b}
  /\ pc' = "nopage"
  /\ UNCHANGED <<mem, freelist, units, prev, cur, req, ret>>

\* The page was full: the block becomes its whole free list.
FreeFirst(b) ==
  /\ pc = "idle"
  /\ units + b.units # PAGE_UNITS
  /\ ~slobfree
  /\ units' = b.units
  /\ freelist' = b.off
  /\ mem' = set_slob(mem, b.off, b.units, PAGE_UNITS)
  /\ slobfree' = TRUE
  /\ blocks' = blocks \ {b}
  /\ UNCHANGED <<pc, prev, cur, req, ret>>

\* The block lies in front of the list: it absorbs an adjacent first block.
FreeFront(b) ==
  LET joins == b.off + b.units = freelist IN
  /\ pc = "idle"
  /\ units + b.units # PAGE_UNITS
  /\ slobfree
  /\ b.off < freelist
  /\ units' = units + b.units
  /\ mem' = set_slob(mem, b.off,
                     b.units + IF joins THEN slob_units(mem, freelist) ELSE 0,
                     IF joins THEN slob_next(mem, freelist) ELSE freelist)
  /\ freelist' = b.off
  /\ blocks' = blocks \ {b}
  /\ UNCHANGED <<slobfree, pc, prev, cur, req, ret>>

\* Otherwise the walk for the insertion point starts behind the first block.
FreeStart(b) ==
  /\ pc = "idle"
  /\ units + b.units # PAGE_UNITS
  /\ slobfree
  /\ b.off >= freelist
  /\ units' = units + b.units
  /\ pc' = "walk"
  /\ prev' = freelist
  /\ cur' = slob_next(mem, freelist)
  /\ req' = [off |-> b.off, units |-> b.units, align |-> 0]
  /\ UNCHANGED <<mem, freelist, slobfree, blocks, ret>>

\* Mutant: the loop forgets to follow the next pointer.
FreeAdvance_bug ==
  /\ pc = "walk"
  /\ req.off > cur
  /\ prev' = cur
  /\ UNCHANGED <<mem, freelist, units, slobfree, blocks, pc, cur, req, ret>>

FreeAdvance ==
  /\ pc = "walk"
  /\ req.off > cur
  /\ prev' = cur
  /\ cur' = slob_next(mem, cur)
  /\ UNCHANGED <<mem, freelist, units, slobfree, blocks, pc, req, ret>>

\* Mutant: the freed block is not joined with the free block in front of it.
Link_bug(m, p, n, b, u) ==
  set_slob(set_slob(m, b, u, n), p, slob_units(m, p), b)

\* The freed block (b, u) enters the list between p and n and is joined with
\* whichever of the two it touches.
Link(m, p, n, b, u) ==
  LET m1 == IF ~slob_last(m, p) /\ b + u = n
            THEN set_slob(m, b, u + slob_units(m, n), slob_next(m, n))
            ELSE set_slob(m, b, u, n)
  IN IF p + slob_units(m1, p) = b
     THEN set_slob(m1, p, slob_units(m1, b) + slob_units(m1, p),
                   slob_next(m1, b))
     ELSE set_slob(m1, p, slob_units(m1, p), b)

FreeLink ==
  /\ pc = "walk"
  /\ req.off <= cur
  /\ mem' = Link(mem, prev, cur, req.off, req.units)
  /\ blocks' = blocks \ {[off |-> req.off, units |-> req.units]}
  /\ EndOp
  /\ UNCHANGED <<freelist, units, slobfree, ret>>
-----------------------------------------------------------------------------
Init ==
  /\ mem = [i \in Units |-> JUNK]
  /\ freelist = 0
  /\ units = 0
  /\ slobfree = FALSE
  /\ blocks = {}
  /\ pc = "nopage"
  /\ prev = NULL /\ cur = NULL /\ req = NoReq /\ ret = NULL

Step == AllocTake \/ AllocFail \/ AllocAdvance \/ FreeAdvance \/ FreeLink

Next ==
  \/ \E r \in Requests : NewPage(r) \/ AllocStart(r)
  \/ \E b \in blocks : \/ FreeRelease(b) \/ FreeFirst(b) \/ FreeFront(b)
                       \/ FreeStart(b)
  \/ Step

\* A walk runs with interrupts off under slob_lock and never blocks.
Spec == Init /\ [][Next]_vars /\ WF_vars(Step)
-----------------------------------------------------------------------------
(* Properties. *)

Free == FreeUnits(blocks)

\* The units of the block that slob_free is inserting are counted already.
InTransit == IF pc = "walk" THEN req.units ELSE 0

\* sp->units, which slob_alloc's search and sys_slob_units_free read instead
\* of the list, is the number of free units; a page is on a free list exactly
\* as long as it has some.
UnitsExact ==
  pc # "nopage" => /\ units = Cardinality(Free) + InTransit
                   /\ slobfree = (Free # {})

IsHead(s) == s \in Free /\ s - 1 \notin Free

\* The list threaded through the page's memory is in address order, reaches
\* exactly the free units, and has one entry for every maximal run of them: no
\* sequence of frees leaves two neighbouring blocks apart (slob.c:21-25).
FreeListExact ==
  pc # "nopage" =>
    /\ Free # {} => IsHead(freelist) /\ \A i \in Free : freelist <= i
    /\ \A s \in Free : IsHead(s) =>
         LET e == s + slob_units(mem, s)
             n == slob_next(mem, s)
         IN /\ s .. e - 1 \subseteq Free
            /\ e \notin Free
            /\ n \in Free \cup {PAGE_UNITS}
            /\ n >= e
            /\ \A i \in e .. n - 1 : i \notin Free

\* A walk that is started ends: the list has no cycle, so slob_lock is not
\* held for ever.
WalkEnds == (pc \in {"scan", "walk"}) ~> (pc = "idle")

\* The page with its embedded list implements the first-fit page.
Page == INSTANCE SlobPageSpec WITH inuse <- pc # "nopage"

PageSpec == Page!Spec
=============================================================================
