---------------------------- MODULE SlobPageSpec ----------------------------
(***************************************************************************)
(* What one page of the SLOB heap promises to slob_alloc and slob_free:    *)
(* blocks are handed out first fit, a request fails only when no run of    *)
(* free units can hold it, and the page is given back when, and only when, *)
(* its last block is freed.  The free list does not appear here; SlobPage  *)
(* shows that the list kept inside the page implements this.               *)
(***************************************************************************)
EXTENDS SlobUnits

CONSTANT Requests        \* pairs <<units, align>> that callers ask for

VARIABLES inuse,         \* the page belongs to the SLOB heap (PageSlab)
          blocks,        \* the blocks callers hold
          ret            \* what the last slob_page_alloc returned
vars == <<inuse, blocks, ret>>

NULL == -1

Init == inuse = FALSE /\ blocks = {} /\ ret = NULL

NewPage == /\ ~inuse
           /\ inuse' = TRUE
           /\ UNCHANGED <<blocks, ret>>

Alloc(u, align) ==
  LET free == FreeUnits(blocks) IN
  /\ inuse
  /\ Places(free, u, align) # {}
  /\ ret' = FirstFit(free, u, align)
  /\ blocks' = blocks \cup {[off |-> ret', units |-> u]}
  /\ UNCHANGED inuse

Fail(u, align) ==
  /\ inuse
  /\ Places(FreeUnits(blocks), u, align) = {}
  /\ ret' = NULL
  /\ UNCHANGED <<inuse, blocks>>

Free(b) ==
  /\ inuse
  /\ blocks' = blocks \ {b}
  /\ inuse' = (blocks' # {})
  /\ UNCHANGED ret

Next == \/ NewPage
        \/ \E r \in Requests : Alloc(r[1], r[2]) \/ Fail(r[1], r[2])
        \/ \E b \in blocks : Free(b)

Spec == Init /\ [][Next]_vars
=============================================================================
