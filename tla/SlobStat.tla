------------------------------ MODULE SlobStat ------------------------------
(***************************************************************************)
(* The system calls sys_slob_units_free and sys_slob_units_used that       *)
(* assignment 4 adds to slob.c, called while the heap of module Slob is in *)
(* use.  free_units holds slob_lock; the counter "pages" is read without   *)
(* it, before or after, since C leaves the order of the two operands of    *)
(* the subtraction open.                                                   *)
(***************************************************************************)
EXTENDS Slob

VARIABLES stat,   \* the call under way: which operand it has, and its value
          ret     \* what the last call returned, [call, val]
svars == <<vars, stat, ret>>

Idle  == [have |-> "none", val |-> 0, still |-> FALSE]
NoRet == [call |-> "none", val |-> 0]

\* External: an unsigned long returned as a long, in two's complement.
AsLong(x) == LET u == x % ULONG IN IF 2 * u >= ULONG THEN u - ULONG ELSE u

\* Mutant: the total misses the pages on one of the three lists.
free_units_bug ==
  LET Total(l) == FoldLeft(LAMBDA acc, f : acc + units[f], 0, l)
  IN Total(lists["small"]) + Total(lists["medium"])

free_units ==
  LET Total(l) == FoldLeft(LAMBDA acc, f : acc + units[f], 0, l)
  IN Total(lists["small"]) + Total(lists["medium"]) + Total(lists["large"])

Returns(call, val) ==
  /\ stat' = Idle
  /\ ret' = [call |-> call, val |-> AsLong(val)]

sys_slob_units_free ==
  /\ stat = Idle
  /\ Returns("free", free_units)

\* The operand that sys_slob_units_used evaluates first, and then the other.
\* "still" is a history variable: nothing happened since the first one.
UsedFirst ==
  /\ stat = Idle
  /\ \E have \in {"pages", "free"} :
       stat' = [have |-> have, still |-> TRUE,
                val |-> IF have = "pages" THEN pages ELSE free_units]
  /\ ret' = NoRet

\* Mutant: the counter is taken for a number of units.
UsedUnits_bug(p, free) == p - free

UsedUnits(p, free) == PAGE_UNITS * p - free

UsedSecond ==
  /\ stat # Idle
  /\ Returns("used", IF stat.have = "pages" THEN UsedUnits(stat.val, free_units)
                                            ELSE UsedUnits(pages, stat.val))

StatStep == /\ sys_slob_units_free \/ UsedFirst \/ UsedSecond
            /\ UNCHANGED vars

HeapStep == /\ Next
            /\ stat' = [stat EXCEPT !.still = FALSE]
            /\ UNCHANGED ret

StatInit == Init /\ stat = Idle /\ ret = NoRet
StatNext == HeapStep \/ StatStep
StatSpec == StatInit /\ [][StatNext]_svars
-----------------------------------------------------------------------------
(* Properties. *)

BlockUnits(bs) == FoldSet(LAMBDA b, acc : acc + b.units, 0, bs)

\* sys_slob_units_free counts, at the moment it takes the lock, exactly the
\* units of the pages of the heap that no block occupies, whichever lists the
\* pages are on and however many calls are half done.
FreeExact ==
  [][sys_slob_units_free =>
       ret'.val = PAGE_UNITS * Cardinality(HeapPages) - BlockUnits(blocks)]_svars

\* Calls that have put a page on its list, or taken one off, and have still to
\* count it.
NotYet(delta) ==
  {t \in Threads : pc[t] \in {"putpage", "count", "store"} /\ loc[t].delta = delta}

\* sys_slob_units_used, when the heap stands still between its two operands,
\* returns the units of the live blocks, less a page for every call that has put
\* a page on its list and not counted it yet, and a page more for every one that
\* has taken a page off and still counts it: exact when no call is half done,
\* below zero when a page has just come, whatever happened before.  It does on
\* one CPU; with several an update of "pages" is lost now and then, and every
\* later call is off by a page.
UsedExact ==
  [][UsedSecond /\ stat.still =>
       ret'.val = BlockUnits(blocks) + PAGE_UNITS * (Cardinality(NotYet(-1))
                                                     - Cardinality(NotYet(1)))]_svars
=============================================================================
