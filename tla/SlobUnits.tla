----------------------------- MODULE SlobUnits -----------------------------
(***************************************************************************)
(* The arithmetic of a SLOB page, shared by the modules about              *)
(* assignments/a4/slob.c.  Addresses inside a page are counted in          *)
(* SLOB_UNITs from the page's base, so a slob_t pointer is a number and    *)
(* the base of the following page is PAGE_UNITS.  A block handed to a      *)
(* caller is a record [off, units].                                        *)
(***************************************************************************)
EXTENDS Integers, FiniteSets

CONSTANT PAGE_UNITS      \* SLOB_UNITS(PAGE_SIZE)

\* slobidx_t is an s16 as long as PAGE_SIZE <= 32767 * 2 (slob.c:88), so both
\* a size and an offset of a page fit in it.
ASSUME PageUnitsAssumption == PAGE_UNITS \in 1 .. 32767

Units == 0 .. PAGE_UNITS - 1

\* The units that block b occupies.
Span(b) == b.off .. b.off + b.units - 1

\* The units of a page that no block of bs occupies.
FreeUnits(bs) == {i \in Units : \A b \in bs : i \notin Span(b)}

\* The kernel's ALIGN macro; align = 0 asks for no alignment.
ALIGN(x, align) == ((x + align - 1) \div align) * align

IsAligned(x, align) == align = 0 \/ x % align = 0

\* Where a block of u units could start, given the free units, and the lowest
\* of those addresses: what "address-ordered first fit" means (slob.c:21-25).
Places(free, u, align) ==
  {x \in Units : IsAligned(x, align) /\ x .. x + u - 1 \subseteq free}

FirstFit(free, u, align) ==
  CHOOSE x \in Places(free, u, align) :
    \A y \in Places(free, u, align) : x <= y
=============================================================================
