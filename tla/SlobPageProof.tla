--------------------------- MODULE SlobPageProof ---------------------------
(***************************************************************************)
(* The page of the SLOB heap for every page size and every request that    *)
(* fits in a page: the free list that slob.c threads through the free      *)
(* blocks is exact after every operation, so are sp->units and the page's  *)
(* place on a free list, and the page implements first fit.                *)
(***************************************************************************)
EXTENDS SlobPage, FiniteSetTheorems, TLAPS

\* The memory at s describes a free block of k units whose successor is n: a
\* block of one unit has no room for its size.
Coded(m, s, k, n) == \/ k = 1 /\ m[s] = -n
                     \/ k > 1 /\ m[s] = k /\ m[s + 1] = n

\* In the set F of free units, s starts a maximal run of k units, and n is the
\* next free unit behind it, or the end of the page.
Run(F, s, k, n) ==
  /\ s \in F /\ s - 1 \notin F
  /\ \A i \in s .. s + k - 1 : i \in F
  /\ s + k \notin F
  /\ n \in F \cup {PAGE_UNITS} /\ n >= s + k
  /\ \A i \in s + k .. n - 1 : i \notin F

ListedAt(m, F, s) == \E k, n \in 1 .. PAGE_UNITS : Run(F, s, k, n) /\ Coded(m, s, k, n)

\* Every run of free units is an entry of the list.
Listed(m, F) == \A s \in F : s - 1 \notin F => ListedAt(m, F, s)

First(fl, F) == F # {} => fl \in F /\ \A i \in F : fl <= i

\* The blocks that callers hold lie in the page and do not overlap.
Apart ==
  /\ \A b \in blocks : Span(b) \subseteq Units
  /\ \A b, c \in blocks : b # c => Span(b) \cap Span(c) = {}

\* slob_page_alloc stands at an entry of the list, and nothing in front of it
\* has room.
Scanning ==
  /\ \E r \in Requests : req.units = r[1] /\ req.align = r[2]
  /\ IsHead(cur)
  /\ \/ prev = NULL /\ cur = freelist
     \/ IsHead(prev) /\ slob_next(mem, prev) = cur
  /\ \A x \in Places(Free, req.units, req.align) : x >= cur

\* slob_free stands behind an entry in front of the block, which is not the
\* page's last one.
Walking ==
  /\ [off |-> req.off, units |-> req.units] \in blocks
  /\ IsHead(prev) /\ slob_next(mem, prev) = cur
  /\ prev < req.off
  /\ units # PAGE_UNITS

\* The inductive invariant.
IInv ==
  /\ TypeOK /\ UnitsExact /\ Apart
  /\ pc = "nopage" => blocks = {}
  /\ pc # "nopage" => Listed(mem, Free) /\ First(freelist, Free)
  /\ pc = "scan" => Scanning
  /\ pc = "walk" => Walking
-----------------------------------------------------------------------------
(* The encoding. *)

Memory == [Units -> -PAGE_UNITS .. PAGE_UNITS]

\* The page's size as a number.
LEMMA PageNat == PAGE_UNITS \in Nat \ {0}
BY PageUnitsAssumption

\* Size and successor of an entry are read as they are encoded.
LEMMA CodedRead ==
  ASSUME NEW m, NEW s \in Units, NEW k \in 1 .. PAGE_UNITS, NEW n \in 1 .. PAGE_UNITS,
         Coded(m, s, k, n)
  PROVE  slob_units(m, s) = k /\ slob_next(m, s) = n
BY PageNat DEF Coded, slob_units, slob_next

\* set_slob encodes, and writes only within the block.
LEMMA SetSlob ==
  ASSUME NEW m \in Memory, NEW s \in Units, NEW k \in 1 .. PAGE_UNITS,
         s + k <= PAGE_UNITS, NEW n \in 1 .. PAGE_UNITS
  PROVE  /\ set_slob(m, s, k, n) \in Memory
         /\ Coded(set_slob(m, s, k, n), s, k, n)
         /\ \A i \in Units : i \notin s .. s + k - 1 => set_slob(m, s, k, n)[i] = m[i]
<1>1. CASE k = 1
  <2>1. set_slob(m, s, k, n) = [m EXCEPT ![s] = -n]
    BY <1>1 DEF set_slob
  <2>2. -n \in -PAGE_UNITS .. PAGE_UNITS
    BY PageNat
  <2> QED BY <1>1, <2>1, <2>2, PageNat DEF Memory, Coded, Units
<1>2. CASE k > 1
  <2>1. set_slob(m, s, k, n) = [m EXCEPT ![s] = k, ![s + 1] = n]
    BY <1>2 DEF set_slob
  <2>2. s + 1 \in Units /\ s + 1 # s /\ s + 1 \in s .. s + k - 1 /\ s \in s .. s + k - 1
    BY <1>2, PageNat DEF Units
  <2>3. k \in -PAGE_UNITS .. PAGE_UNITS /\ n \in -PAGE_UNITS .. PAGE_UNITS
    BY PageNat
  <2> QED BY <1>2, <2>1, <2>2, <2>3 DEF Memory, Coded
<1> QED BY <1>1, <1>2

\* An entry is not disturbed by what is written outside its block.
LEMMA CodedFrame ==
  ASSUME NEW m, NEW m2, NEW s \in Int, NEW k \in 1 .. PAGE_UNITS, NEW n,
         Coded(m, s, k, n), \A i \in s .. s + k - 1 : m2[i] = m[i]
  PROVE  Coded(m2, s, k, n)
<1>1. s \in s .. s + k - 1 /\ (k > 1 => s + 1 \in s .. s + k - 1)
  BY PageNat
<1> QED BY <1>1 DEF Coded
-----------------------------------------------------------------------------
(* Runs of free units. *)

\* The bounds of a run.
LEMMA RunBounds ==
  ASSUME NEW F, F \subseteq Units, NEW s, NEW k \in 1 .. PAGE_UNITS,
         NEW n \in 1 .. PAGE_UNITS, Run(F, s, k, n)
  PROVE  /\ s \in Units /\ s + k <= PAGE_UNITS /\ s + k <= n
         /\ n < PAGE_UNITS => n > s + k
<1>1. s \in Units /\ s + k - 1 \in s .. s + k - 1
  BY PageNat DEF Run, Units
<1>2. s + k - 1 \in F
  BY <1>1 DEF Run
<1>3. s + k <= PAGE_UNITS
  BY <1>1, <1>2, PageNat DEF Units
<1>4. n < PAGE_UNITS => n > s + k
  BY <1>1, PageNat DEF Run, Units
<1> QED BY <1>1, <1>3, <1>4 DEF Run

\* A free unit behind the start of a run is in it, or at its successor, or
\* behind that.
LEMMA RunOrder ==
  ASSUME NEW F, F \subseteq Units, NEW s, NEW k \in 1 .. PAGE_UNITS,
         NEW n \in 1 .. PAGE_UNITS, Run(F, s, k, n), NEW t \in F, t >= s
  PROVE  t < s + k \/ t >= n
<1>1. s \in Units /\ t \in Units
  BY DEF Run
<1> QED BY <1>1, PageNat DEF Run, Units

\* A later run starts at the successor or behind it.
LEMMA HeadOrder ==
  ASSUME NEW F, F \subseteq Units, NEW s, NEW k \in 1 .. PAGE_UNITS,
         NEW n \in 1 .. PAGE_UNITS, Run(F, s, k, n),
         NEW t \in F, t - 1 \notin F, t > s
  PROVE  t >= n
<1>1. s \in Units /\ t \in Units
  BY DEF Run
<1>2. ~ (t < s + k)
  <2> SUFFICES ASSUME t < s + k PROVE FALSE
    OBVIOUS
  <2>1. t - 1 \in s .. s + k - 1
    BY <1>1, PageNat DEF Units
  <2> QED BY <2>1 DEF Run
<1>3. t >= s
  BY <1>1 DEF Units
<1> QED BY <1>2, <1>3, RunOrder

\* A run is not disturbed by what changes outside it and its gap.
LEMMA RunFrame ==
  ASSUME NEW F, F \subseteq Units, NEW G, NEW s, NEW k \in 1 .. PAGE_UNITS,
         NEW n \in 1 .. PAGE_UNITS, Run(F, s, k, n),
         \A i \in s - 1 .. n : i \in F <=> i \in G
  PROVE  Run(G, s, k, n)
<1>1. s \in Int /\ s + k <= n
  <2>1. s \in Units /\ s + k <= n
    BY RunBounds
  <2> QED BY <2>1 DEF Units
<1>2. \A i \in s .. s + k : i \in s - 1 .. n
  BY <1>1, PageNat
<1>3. \A i \in s + k .. n - 1 : i \in s - 1 .. n
  BY <1>1, PageNat
<1>4. s - 1 \in s - 1 .. n /\ s \in s - 1 .. n /\ n \in s - 1 .. n /\ s + k \in s - 1 .. n
  BY <1>1, PageNat
<1>5. \A i \in s .. s + k - 1 : i \in s - 1 .. n
  BY <1>1, PageNat
<1> QED BY <1>3, <1>4, <1>5 DEF Run

\* Size and successor of a run are determined.
LEMMA RunUnique ==
  ASSUME NEW F, F \subseteq Units, NEW s,
         NEW k \in 1 .. PAGE_UNITS, NEW n \in 1 .. PAGE_UNITS, Run(F, s, k, n),
         NEW j \in 1 .. PAGE_UNITS, NEW p \in 1 .. PAGE_UNITS, Run(F, s, j, p)
  PROVE  j = k /\ p = n
<1>1. s \in Units /\ s \in Int
  BY DEF Run, Units
<1>2. ~ (j < k) /\ ~ (k < j)
  <2>1. j < k => s + j \in s .. s + k - 1
    BY <1>1, PageNat
  <2>2. k < j => s + k \in s .. s + j - 1
    BY <1>1, PageNat
  <2> QED BY <2>1, <2>2 DEF Run
<1>3. j = k
  BY <1>2, PageNat
<1>4. ~ (p < n) /\ ~ (n < p)
  <2>1. p < n => p \in s + k .. n - 1 /\ p # PAGE_UNITS
    BY <1>1, <1>3, PageNat DEF Run
  <2>2. n < p => n \in s + k .. p - 1 /\ n # PAGE_UNITS
    BY <1>1, PageNat DEF Run
  <2> QED BY <1>3, <2>1, <2>2 DEF Run
<1> QED BY <1>3, <1>4, PageNat

\* p is the entry in front of z: a run of k units with its successor at z or
\* behind it.  NULL when there is none.
Before(F, p, k, n, z) ==
  \/ p = NULL /\ \A i \in F : i >= z
  \/ p < z /\ n >= z /\ Run(F, p, k, n)

\* Free units and memory change in z .. w only, and in the block in front of
\* it: the entries that are neither there nor right behind it stay as they are.
LEMMA Splice ==
  ASSUME NEW F, F \subseteq Units, NEW G, G \subseteq Units, NEW m, NEW m2,
         Listed(m, F),
         NEW z \in Int, NEW w \in Int,
         \A i \in Int : i \notin z .. w => (i \in F <=> i \in G),
         NEW p \in Int, NEW k \in 1 .. PAGE_UNITS, NEW n \in 1 .. PAGE_UNITS,
         Before(F, p, k, n, z),
         \A i \in Units : i \notin z .. w /\ (p # NULL => i \notin p .. p + k - 1)
                            => m2[i] = m[i],
         \A t \in G : t - 1 \notin G /\ (t = p \/ t \in z .. w + 1) => ListedAt(m2, G, t)
  PROVE  Listed(m2, G)
<1> SUFFICES ASSUME NEW t \in G, t - 1 \notin G, t # p, t \notin z .. w + 1
             PROVE  ListedAt(m2, G, t)
  BY DEF Listed
<1>1. t \in Int /\ t - 1 \in Int
  BY DEF Units
<1>2. t \notin z .. w /\ t - 1 \notin z .. w
  <2>1. CASE t > w + 1
    BY <1>1, <2>1
  <2>2. CASE t < z
    BY <1>1, <2>2
  <2> QED BY <1>1, <2>1, <2>2
<1>3. t \in F /\ t - 1 \notin F
  BY <1>1, <1>2
<1>4. PICK kt \in 1 .. PAGE_UNITS, nt \in 1 .. PAGE_UNITS :
        Run(F, t, kt, nt) /\ Coded(m, t, kt, nt)
  BY <1>3 DEF Listed, ListedAt
<1>5. t \in Units /\ t + kt <= PAGE_UNITS /\ t + kt <= nt
  BY <1>4, RunBounds
<1>6. p # NULL => p < z /\ n >= z /\ Run(F, p, k, n) /\ p \in Units /\ p + k <= n
  <2>1. p # NULL => p < z /\ n >= z /\ Run(F, p, k, n)
    BY DEF Before
  <2> QED BY <2>1, RunBounds
<1>7. \A i \in t .. t + kt - 1 : i \in Units
  BY <1>5, PageNat DEF Units
<1>8. CASE t > w + 1
  <2>1. \A i \in t - 1 .. nt : i \in Int /\ i \notin z .. w
    BY <1>1, <1>8, PageNat
  <2>2. p # NULL => t >= p + k \/ t < p
    <3> SUFFICES ASSUME p # NULL, t > p PROVE t >= p + k
      BY <1>1
    <3>1. t >= n
      BY <1>3, <1>6, HeadOrder
    <3> QED BY <1>1, <1>6, <3>1, PageNat
  <2>3. p # NULL /\ t < p => t + kt <= p
    <3> SUFFICES ASSUME p # NULL, t < p PROVE t + kt <= p
      OBVIOUS
    <3>1. p \in F /\ p - 1 \notin F /\ p > t
      BY <1>1, <1>6 DEF Run
    <3>2. p >= nt
      BY <1>4, <3>1, HeadOrder
    <3> QED BY <1>1, <1>5, <3>2, PageNat
  <2>4. \A i \in t .. t + kt - 1 : m2[i] = m[i]
    <3> SUFFICES ASSUME NEW i \in t .. t + kt - 1 PROVE m2[i] = m[i]
      OBVIOUS
    <3>1. i \in Units /\ i \notin z .. w
      BY <1>1, <1>7, <1>8
    <3>2. p # NULL => i \notin p .. p + k - 1
      BY <1>1, <2>2, <2>3
    <3> QED BY <3>1, <3>2
  <2>5. Run(G, t, kt, nt)
    BY <1>4, <2>1, RunFrame
  <2>6. Coded(m2, t, kt, nt)
    BY <1>1, <1>4, <2>4, CodedFrame
  <2> QED BY <2>5, <2>6 DEF ListedAt
<1>9. CASE t < z
  <2>1. p # NULL
    BY <1>1, <1>3, <1>9, PageNat DEF Before, Run, NULL, Units
  <2>2. ~ (t > p)
    <3> SUFFICES ASSUME t > p PROVE FALSE
      OBVIOUS
    <3>1. t >= n
      BY <1>3, <1>6, <2>1, HeadOrder
    <3> QED BY <1>1, <1>6, <1>9, <2>1, <3>1
  <2>3. p >= nt
    <3>1. p \in F /\ p - 1 \notin F /\ p > t
      BY <1>1, <1>6, <2>1, <2>2 DEF Run
    <3> QED BY <1>4, <3>1, HeadOrder
  <2>4. \A i \in t - 1 .. nt : i \in Int /\ i \notin z .. w
    BY <1>1, <1>6, <2>1, <2>3, PageNat
  <2>5. \A i \in t .. t + kt - 1 : m2[i] = m[i]
    <3> SUFFICES ASSUME NEW i \in t .. t + kt - 1 PROVE m2[i] = m[i]
      OBVIOUS
    <3>1. i \in Units /\ i < p /\ i < z
      BY <1>1, <1>5, <1>6, <1>7, <2>1, <2>3, PageNat
    <3> QED BY <1>1, <3>1
  <2>6. Run(G, t, kt, nt)
    BY <1>4, <2>4, RunFrame
  <2>7. Coded(m2, t, kt, nt)
    BY <1>1, <1>4, <2>5, CodedFrame
  <2> QED BY <2>6, <2>7 DEF ListedAt
<1> QED BY <1>1, <1>8, <1>9
-----------------------------------------------------------------------------
(* slob_page_alloc: a block is taken out of the list. *)

\* The end of slob_page_alloc.  The block at a, of ka units, gives its first u
\* units; it follows the entry at p of kp units, if there is one.
UnlinkAfter(a, ka, u, n) == IF ka - u = 0 THEN n ELSE a + u
UnlinkPrev(m, p, after) ==
  IF p = NULL THEN m ELSE set_slob(m, p, slob_units(m, p), after)
Unlink(m, p, a, ka, u, n) ==
  LET m2 == UnlinkPrev(m, p, UnlinkAfter(a, ka, u, n))
  IN IF ka - u = 0 THEN m2 ELSE set_slob(m2, a + u, ka - u, n)

\* What Unlink encodes and what it leaves alone.
Unlinked(m, m3, p, kp, a, ka, u, n, after) ==
  /\ m3 \in Memory
  /\ p # NULL => Coded(m3, p, kp, after)
  /\ ka # u => Coded(m3, a + u, ka - u, n)
  /\ \A i \in Units : i \notin a .. a + ka - 1 /\ (p # NULL => i \notin p .. p + kp - 1)
                        => m3[i] = m[i]

\* Unlink does so.
LEMMA UnlinkFacts ==
  ASSUME NEW m \in Memory, NEW a \in Units, NEW ka \in 1 .. PAGE_UNITS,
         a + ka <= PAGE_UNITS, NEW u \in 1 .. ka, NEW n \in 1 .. PAGE_UNITS,
         NEW p \in Int, NEW kp \in 1 .. PAGE_UNITS, NEW np \in 1 .. PAGE_UNITS,
         p # NULL => p \in Units /\ p + kp <= a /\ Coded(m, p, kp, np),
         NEW after, after = UnlinkAfter(a, ka, u, n),
         NEW m3, m3 = Unlink(m, p, a, ka, u, n)
  PROVE  Unlinked(m, m3, p, kp, a, ka, u, n, after)
<1> USE DEF Unlinked
<1> DEFINE m2 == UnlinkPrev(m, p, after)
<1>1. after \in 1 .. PAGE_UNITS
  BY PageNat DEF UnlinkAfter, Units
<1>2. /\ m2 \in Memory
      /\ p # NULL => Coded(m2, p, kp, after)
      /\ \A i \in Units : (p # NULL => i \notin p .. p + kp - 1) => m2[i] = m[i]
  <2>1. CASE p = NULL
    BY <2>1 DEF UnlinkPrev
  <2>2. CASE p # NULL
    <3>1. slob_units(m, p) = kp
      BY <2>2, CodedRead
    <3>2. m2 = set_slob(m, p, kp, after)
      BY <2>2, <3>1 DEF UnlinkPrev
    <3>3. p \in Units /\ p + kp <= PAGE_UNITS
      BY <2>2, PageNat DEF Units
    <3> HIDE DEF m2
    <3> QED BY <1>1, <2>2, <3>2, <3>3, SetSlob
  <2> QED BY <2>1, <2>2
<1>3. m3 = IF ka - u = 0 THEN m2 ELSE set_slob(m2, a + u, ka - u, n)
  BY DEF Unlink
<1> HIDE DEF m2
<1>4. CASE ka = u
  <2>1. m3 = m2
    BY <1>3, <1>4, PageNat
  <2> QED BY <1>2, <1>4, <2>1
<1>5. CASE ka # u
  <2>1. /\ ka - u \in 1 .. PAGE_UNITS /\ a + u \in Units /\ (a + u) + (ka - u) <= PAGE_UNITS
        /\ ka - u # 0
    BY <1>5, PageNat DEF Units
  <2>2. m3 = set_slob(m2, a + u, ka - u, n)
    BY <1>3, <2>1
  <2>3. /\ m3 \in Memory /\ Coded(m3, a + u, ka - u, n)
        /\ \A i \in Units : i \notin a + u .. (a + u) + (ka - u) - 1 => m3[i] = m2[i]
    BY <1>2, <2>1, <2>2, SetSlob
  <2>4. \A i \in Units : i \notin a .. a + ka - 1 => m3[i] = m2[i]
    BY <2>1, <2>3, PageNat DEF Units
  <2>5. p # NULL => Coded(m3, p, kp, after)
    <3> SUFFICES ASSUME p # NULL PROVE Coded(m3, p, kp, after)
      OBVIOUS
    <3>1. \A i \in p .. p + kp - 1 : i \in Units /\ i \notin a .. a + ka - 1
      BY PageNat DEF Units
    <3>2. \A i \in p .. p + kp - 1 : m3[i] = m2[i]
      BY <2>4, <3>1
    <3> QED BY <1>2, <3>2, CodedFrame
  <2> QED BY <1>2, <2>3, <2>4, <2>5
<1> QED BY <1>4, <1>5

\* The entries around c when u units at a = c + d are taken out of its run.
Taken(F, G, c, k, n, d, u, a, after) ==
  /\ G \subseteq Units
  /\ \A i \in Int : i \notin c .. c + k - 1 => (i \in F <=> i \in G)
  /\ k - d # u => Run(G, a + u, k - d - u, n)
  /\ d # 0 => Run(G, c, d, after)
  /\ \A p, kp \in Int :
       kp >= 1 /\ Run(F, p, kp, c) => Run(G, p, kp, IF d = 0 THEN after ELSE c)
  /\ \A t \in G : t - 1 \notin G /\ t \in c .. c + k =>
       (t = c /\ d # 0) \/ (t = a + u /\ k - d # u)

\* They are as slob_page_alloc encodes them.
LEMMA TakenRuns ==
  ASSUME NEW F, F \subseteq Units, NEW c, NEW k \in 1 .. PAGE_UNITS,
         NEW n \in 1 .. PAGE_UNITS, Run(F, c, k, n),
         NEW d \in Nat, NEW u \in 1 .. PAGE_UNITS, d + u <= k,
         NEW a, a = c + d, NEW G, G = F \ (a .. a + u - 1),
         NEW after, after = UnlinkAfter(a, k - d, u, n)
  PROVE  Taken(F, G, c, k, n, d, u, a, after)
<1>1. c \in Units /\ c \in Int /\ a \in Int /\ c + k <= PAGE_UNITS /\ c + k <= n
  <2>1. c \in Units /\ c + k <= PAGE_UNITS /\ c + k <= n
    BY RunBounds
  <2> QED BY <2>1 DEF Units
<1>2. /\ c - 1 \notin F /\ c + k \notin F /\ n \in F \cup {PAGE_UNITS}
      /\ \A i \in c .. c + k - 1 : i \in F
      /\ \A i \in c + k .. n - 1 : i \notin F
  BY DEF Run
<1>3. /\ G \subseteq Units
      /\ \A i \in Int : i \in G <=> i \in F /\ ~ (a <= i /\ i < a + u)
  BY <1>1, PageNat DEF Units
<1>4. \A i \in Int : i \notin c .. c + k - 1 => (i \in F <=> i \in G)
  BY <1>1, <1>3, PageNat
<1>5. n \in G \cup {PAGE_UNITS} /\ c + k \notin G /\ \A i \in c + k .. n - 1 : i \notin G
  BY <1>1, <1>2, <1>3, PageNat
<1>6. k - d # u => Run(G, a + u, k - d - u, n)
  <2> SUFFICES ASSUME k - d # u PROVE Run(G, a + u, k - d - u, n)
    OBVIOUS
  <2>1. a + u \in G /\ (a + u) - 1 \notin G
    BY <1>1, <1>2, <1>3, PageNat
  <2>2. \A i \in a + u .. (a + u) + (k - d - u) - 1 : i \in G
    BY <1>1, <1>2, <1>3, PageNat
  <2>3. (a + u) + (k - d - u) = c + k
    BY <1>1, PageNat
  <2> QED BY <1>1, <1>5, <2>1, <2>2, <2>3 DEF Run
<1>7. /\ after \in G \cup {PAGE_UNITS}
      /\ after >= a + u
      /\ after \in Int
      /\ \A i \in a .. after - 1 : i \notin G
  <2>1. CASE k - d = u
    <3>1. after = n
      BY <2>1 DEF UnlinkAfter
    <3>2. \A i \in a .. n - 1 : i \notin G
      BY <1>1, <1>3, <1>5, <2>1, PageNat
    <3> QED BY <1>1, <1>5, <2>1, <3>1, <3>2, PageNat
  <2>2. CASE k - d # u
    <3>1. after = a + u
      BY <2>2, PageNat DEF UnlinkAfter
    <3>2. \A i \in a .. (a + u) - 1 : i \notin G
      BY <1>1, <1>3, PageNat
    <3>3. a + u \in G
      BY <1>1, <1>2, <1>3, <2>2, PageNat
    <3> QED BY <1>1, <3>1, <3>2, <3>3, PageNat
  <2> QED BY <2>1, <2>2
<1>8. d # 0 => Run(G, c, d, after)
  <2> SUFFICES ASSUME d # 0 PROVE Run(G, c, d, after)
    OBVIOUS
  <2>1. c \in G /\ c - 1 \notin G /\ \A i \in c .. c + d - 1 : i \in G
    BY <1>1, <1>2, <1>3, PageNat
  <2>2. c + d \notin G /\ after >= c + d /\ \A i \in c + d .. after - 1 : i \notin G
    BY <1>1, <1>3, <1>7, PageNat
  <2> QED BY <1>7, <2>1, <2>2 DEF Run
<1>9. ASSUME NEW p \in Int, NEW kp \in Int, kp >= 1, Run(F, p, kp, c)
      PROVE  Run(G, p, kp, IF d = 0 THEN after ELSE c)
  <2>1. p + kp <= c /\ p \in F /\ p - 1 \notin F /\ p + kp \notin F
    BY <1>9 DEF Run
  <2>2. p \in G /\ p - 1 \notin G /\ p + kp \notin G
    BY <1>1, <1>3, <1>9, <2>1
  <2>3. \A i \in p .. p + kp - 1 : i \in G
    BY <1>1, <1>3, <1>9, <2>1 DEF Run
  <2>4. \A i \in p + kp .. c - 1 : i \notin G
    BY <1>1, <1>3, <1>9 DEF Run
  <2>5. CASE d # 0
    <3>1. c \in G
      BY <1>1, <1>2, <1>3, <2>5, PageNat
    <3> QED BY <1>1, <2>1, <2>2, <2>3, <2>4, <2>5, <3>1 DEF Run
  <2>6. CASE d = 0
    <3>1. after >= p + kp /\ \A i \in p + kp .. after - 1 : i \notin G
      BY <1>1, <1>7, <1>9, <2>1, <2>4, <2>6, PageNat
    <3> QED BY <1>7, <2>2, <2>3, <2>6, <3>1 DEF Run
  <2> QED BY <2>5, <2>6
<1>10. ASSUME NEW t \in G, t - 1 \notin G, t \in c .. c + k
       PROVE  (t = c /\ d # 0) \/ (t = a + u /\ k - d # u)
  <2>1. t \in Int /\ t # c + k /\ ~ (a <= t /\ t < a + u)
    BY <1>1, <1>3, <1>5, <1>10
  <2>2. CASE t < a
    <3>1. t > c => t - 1 \in G
      BY <1>1, <1>2, <1>3, <1>10, <2>1, <2>2
    <3> QED BY <1>1, <1>10, <2>1, <2>2, <3>1
  <2>3. CASE t >= a + u
    <3>1. t > a + u => t - 1 \in G
      BY <1>1, <1>2, <1>3, <1>10, <2>1, <2>3, PageNat
    <3> QED BY <1>1, <1>10, <2>1, <2>3, <3>1, PageNat
  <2> QED BY <1>1, <2>1, <2>2, <2>3, PageNat
<1> QED BY <1>3, <1>4, <1>6, <1>8, <1>9, <1>10 DEF Taken

\* Carve at the entry c with a run of k units: which memory it leaves, and
\* what is the list's first entry.
LEMMA CarveSteps ==
  ASSUME NEW m, NEW fl, NEW p, NEW c, NEW u, NEW align,
         NEW k, slob_units(m, c) = k, NEW n, slob_next(m, c) = n,
         NEW d, d = Delta(c, align), NEW a, a = c + d,
         NEW m1, m1 = IF d = 0 THEN m ELSE set_slob(set_slob(m, a, k - d, n), c, d, a),
         NEW p1, p1 = IF d = 0 THEN p ELSE c,
         slob_units(m1, a) = k - d, slob_next(m1, a) = n
  PROVE  Carve(m, fl, p, c, u, align) =
           [off |-> a,
            freelist |-> IF p1 = NULL THEN UnlinkAfter(a, k - d, u, n) ELSE fl,
            mem |-> Unlink(m1, p1, a, k - d, u, n)]
BY DEF Carve, Unlink, UnlinkPrev, UnlinkAfter

\* slob_page_alloc takes u units at a from the entry c, which follows p.
TakeAt(F, m, fl, p, c, u, align, d, a, x) ==
  /\ F \subseteq Units /\ m \in Memory /\ Listed(m, F) /\ First(fl, F)
  /\ c \in F /\ c - 1 \notin F /\ p \in Int
  /\ \/ p = NULL /\ c = fl
     \/ p \in F /\ p - 1 \notin F /\ slob_next(m, p) = c
  /\ u \in 1 .. PAGE_UNITS /\ d \in Nat /\ d = Delta(c, align)
  /\ RoomEnough(m, c, u, align) /\ a = c + d
  /\ x = Carve(m, fl, p, c, u, align)

\* The list without them, in the memory m4.
TakeDone(F, u, a, x, m4) ==
  /\ x.off = a /\ a .. a + u - 1 \subseteq F
  /\ x.mem \in Memory /\ x.freelist \in 0 .. PAGE_UNITS
  /\ Listed(m4, F \ (a .. a + u - 1)) /\ First(x.freelist, F \ (a .. a + u - 1))

\* The list after slob_page_alloc: u units at the aligned address in the run
\* of c are free no longer, and whatever their owner writes in them, the list
\* is exact.
LEMMA TakeListed ==
  ASSUME NEW F, NEW m, NEW fl, NEW p, NEW c, NEW u, NEW align, NEW d, NEW a, NEW x,
         TakeAt(F, m, fl, p, c, u, align, d, a, x),
         NEW m4, \A i \in Units : i \notin a .. a + u - 1 => m4[i] = x.mem[i]
  PROVE  TakeDone(F, u, a, x, m4)
<1>a. PICK G : G = F \ (a .. a + u - 1)
  OBVIOUS
<1> SUFFICES ASSUME F \subseteq Units, m \in Memory, Listed(m, F), First(fl, F),
                    c \in F, c - 1 \notin F, p \in Int,
                    \/ p = NULL /\ c = fl
                    \/ p \in F /\ p - 1 \notin F /\ slob_next(m, p) = c,
                    u \in 1 .. PAGE_UNITS, d \in Nat, d = Delta(c, align),
                    RoomEnough(m, c, u, align), a = c + d,
                    x = Carve(m, fl, p, c, u, align), G = F \ (a .. a + u - 1)
             PROVE  /\ x.off = a /\ a .. a + u - 1 \subseteq F
                    /\ x.mem \in Memory /\ x.freelist \in 0 .. PAGE_UNITS
                    /\ Listed(m4, G) /\ First(x.freelist, G)
  BY <1>a DEF TakeAt, TakeDone
<1>1. PICK k \in 1 .. PAGE_UNITS, n \in 1 .. PAGE_UNITS : Run(F, c, k, n) /\ Coded(m, c, k, n)
  BY DEF Listed, ListedAt
<1>2. /\ c \in Units /\ c + k <= PAGE_UNITS /\ c + k <= n
  BY <1>1, RunBounds
<1>3. slob_units(m, c) = k /\ slob_next(m, c) = n
  BY <1>1, <1>2, CodedRead
<1>4. d + u <= k
  BY <1>3, PageNat DEF RoomEnough
<1>5. /\ a \in Units /\ k - d \in 1 .. PAGE_UNITS /\ a + (k - d) = c + k
      /\ u \in 1 .. k - d /\ a + (k - d) <= PAGE_UNITS
  BY <1>2, <1>4, PageNat DEF Units
<1>6. PICK kp \in 1 .. PAGE_UNITS, np \in 1 .. PAGE_UNITS :
        p # NULL => /\ Run(F, p, kp, c) /\ Coded(m, p, kp, c)
                    /\ p \in Units /\ p + kp <= c /\ p < c /\ np = c
  <2>1. CASE p = NULL
    BY <2>1, PageNat
  <2>2. CASE p # NULL
    <3>1. PICK kp \in 1 .. PAGE_UNITS, np \in 1 .. PAGE_UNITS :
            Run(F, p, kp, np) /\ Coded(m, p, kp, np)
      BY <2>2 DEF Listed, ListedAt
    <3>2. p \in Units /\ p + kp <= np
      BY <3>1, RunBounds
    <3>3. np = c
      BY <2>2, <3>1, <3>2, CodedRead
    <3>4. p < c
      BY <3>2, <3>3, PageNat DEF Units
    <3> QED BY <3>1, <3>2, <3>3, <3>4
  <2> QED BY <2>1, <2>2
<1>7. Before(F, p, kp, np, c)
  <2>1. CASE p = NULL
    <3>1. c = fl
      BY <2>1, PageNat DEF NULL, Units
    <3>2. \A i \in F : c <= i /\ i \in Int
      BY <3>1 DEF First, Units
    <3>3. \A i \in F : i >= c
      BY <1>2, <3>2 DEF Units
    <3> QED BY <2>1, <3>3 DEF Before
  <2>2. CASE p # NULL
    BY <1>2, <1>6, <2>2 DEF Before, Units
  <2> QED BY <2>1, <2>2
<1> DEFINE after == UnlinkAfter(a, k - d, u, n)
<1>after. after = UnlinkAfter(a, k - d, u, n)
  OBVIOUS
<1> HIDE DEF after
<1>8. /\ G \subseteq Units
      /\ \A i \in Int : i \notin c .. c + k - 1 => (i \in F <=> i \in G)
      /\ k - d # u => Run(G, a + u, k - d - u, n)
      /\ d # 0 => Run(G, c, d, after)
      /\ p # NULL => Run(G, p, kp, IF d = 0 THEN after ELSE c)
      /\ \A t \in G : t - 1 \notin G /\ t \in c .. c + k =>
           (t = c /\ d # 0) \/ (t = a + u /\ k - d # u)
  <2>1. Taken(F, G, c, k, n, d, u, a, after)
    BY <1>1, <1>4, <1>after, TakenRuns
  <2>2. kp \in Int /\ kp >= 1
    BY PageNat
  <2> QED BY <1>6, <2>1, <2>2 DEF Taken
<1>9. after \in 1 .. PAGE_UNITS
  BY <1>5, <1>after, PageNat DEF UnlinkAfter, Units
<1>10. \A i \in a .. a + u - 1 : i \in F
  BY <1>1, <1>2, <1>4, PageNat DEF Run, Units
\* The memory when a head in front of the aligned address was split off.
<1> DEFINE mA == set_slob(m, a, k - d, n)
           m1 == IF d = 0 THEN m ELSE set_slob(mA, c, d, a)
           p1 == IF d = 0 THEN p ELSE c
           k1 == IF d = 0 THEN kp ELSE d
           n1 == IF d = 0 THEN np ELSE a
<1>11. /\ m1 \in Memory /\ Coded(m1, a, k - d, n)
       /\ p1 # NULL => p1 \in Units /\ p1 + k1 <= a /\ Coded(m1, p1, k1, n1)
       /\ p1 \in Int /\ k1 \in 1 .. PAGE_UNITS /\ n1 \in 1 .. PAGE_UNITS
       /\ \A i \in Units : i \notin c .. c + k - 1 => m1[i] = m[i]
  <2>1. CASE d = 0
    <3>1. a = c /\ k - d = k /\ m1 = m /\ p1 = p /\ k1 = kp /\ n1 = np
      BY <1>2, <2>1, PageNat DEF Units
    <3> QED BY <1>1, <1>6, <3>1
  <2>2. CASE d # 0
    <3>1. /\ d \in 1 .. PAGE_UNITS /\ a \in 1 .. PAGE_UNITS /\ c + d = a
          /\ c + d <= PAGE_UNITS /\ c \in Int
      BY <1>2, <1>5, <2>2, PageNat DEF Units
    <3>2. m1 = set_slob(mA, c, d, a) /\ p1 = c /\ k1 = d /\ n1 = a
      BY <2>2
    <3>3. /\ mA \in Memory /\ Coded(mA, a, k - d, n)
          /\ \A i \in Units : i \notin a .. a + (k - d) - 1 => mA[i] = m[i]
      BY ONLY <1>5, SetSlob, m \in Memory, n \in 1 .. PAGE_UNITS
    <3> HIDE DEF mA, m1
    <3>4. /\ m1 \in Memory /\ Coded(m1, c, d, a)
          /\ \A i \in Units : i \notin c .. c + d - 1 => m1[i] = mA[i]
      BY ONLY <1>2, <3>1, <3>2, <3>3, SetSlob
    <3>5. \A i \in a .. a + (k - d) - 1 : i \in Units /\ i \notin c .. c + d - 1
      BY <1>2, <1>5, <3>1, PageNat DEF Units
    <3>6. Coded(m1, a, k - d, n)
      <4>1. \A i \in a .. a + (k - d) - 1 : m1[i] = mA[i]
        BY <3>4, <3>5
      <4>2. a \in Int
        BY <1>5 DEF Units
      <4> QED BY <1>5, <3>3, <4>1, <4>2, CodedFrame
    <3>7. \A i \in Units : i \notin c .. c + k - 1 => m1[i] = m[i]
      <4> SUFFICES ASSUME NEW i \in Units, i \notin c .. c + k - 1 PROVE m1[i] = m[i]
        OBVIOUS
      <4>1. i \notin c .. c + d - 1 /\ i \notin a .. a + (k - d) - 1
        BY <1>2, <1>5, <3>1, PageNat DEF Units
      <4> QED BY <3>3, <3>4, <4>1
    <3>8. p1 + k1 <= a
      BY <1>5, <3>1, <3>2 DEF Units
    <3> QED BY <1>2, <3>1, <3>2, <3>4, <3>6, <3>7, <3>8
  <2> QED BY <2>1, <2>2
<1>12. slob_units(m1, a) = k - d /\ slob_next(m1, a) = n
  <2> HIDE DEF m1
  <2> QED BY <1>5, <1>11, CodedRead
<1>13. x = [off |-> a, freelist |-> IF p1 = NULL THEN after ELSE fl,
            mem |-> Unlink(m1, p1, a, k - d, u, n)]
  BY <1>3, <1>12, CarveSteps DEF after
<1> HIDE DEF m1, p1, k1, n1
<1>14. /\ x.off = a /\ x.freelist = (IF p1 = NULL THEN after ELSE fl)
       /\ x.mem = Unlink(m1, p1, a, k - d, u, n)
  BY <1>13
<1>15. /\ x.mem \in Memory
       /\ p1 # NULL => Coded(x.mem, p1, k1, after)
       /\ k - d # u => Coded(x.mem, a + u, k - d - u, n)
       /\ \A i \in Units : i \notin a .. a + (k - d) - 1 /\ (p1 # NULL => i \notin p1 .. p1 + k1 - 1)
                             => x.mem[i] = m1[i]
  <2> DEFINE m3 == Unlink(m1, p1, a, k - d, u, n)
  <2>1. Unlinked(m1, m3, p1, k1, a, k - d, u, n, after)
    <3>1. m3 = Unlink(m1, p1, a, k - d, u, n)
      OBVIOUS
    <3> HIDE DEF m3
    <3> QED BY <1>5, <1>11, <1>after, <3>1, UnlinkFacts
  <2> HIDE DEF m3
  <2>2. x.mem = m3
    BY <1>14 DEF m3
  <2> QED BY <2>1, <2>2 DEF Unlinked
<1>16. \A i \in Units : i \notin c .. c + k - 1 /\ (d = 0 /\ p # NULL => i \notin p .. p + kp - 1)
                          => m4[i] = m[i]
  <2> SUFFICES ASSUME NEW i \in Units, i \notin c .. c + k - 1,
                      d = 0 /\ p # NULL => i \notin p .. p + kp - 1
               PROVE  m4[i] = m[i]
    OBVIOUS
  <2>1. i \notin a .. a + (k - d) - 1 /\ i \notin a .. a + u - 1
    BY <1>2, <1>4, <1>5, PageNat DEF Units
  <2>2. p1 # NULL => i \notin p1 .. p1 + k1 - 1
    <3>1. CASE d = 0
      BY <3>1 DEF p1, k1
    <3>2. CASE d # 0
      BY <1>2, <1>4, <3>2, PageNat DEF p1, k1, Units
    <3> QED BY <3>1, <3>2
  <2> QED BY <1>11, <1>15, <2>1, <2>2
<1>17. p1 # NULL => Coded(m4, p1, k1, after)
  <2> SUFFICES ASSUME p1 # NULL PROVE Coded(m4, p1, k1, after)
    OBVIOUS
  <2>1. \A i \in p1 .. p1 + k1 - 1 : i \in Units /\ i \notin a .. a + u - 1
    BY <1>5, <1>11, PageNat DEF Units
  <2>2. \A i \in p1 .. p1 + k1 - 1 : m4[i] = x.mem[i]
    BY <2>1
  <2> QED BY <1>11, <1>15, <2>2, CodedFrame
<1>18. k - d # u => ListedAt(m4, G, a + u)
  <2> SUFFICES ASSUME k - d # u PROVE ListedAt(m4, G, a + u)
    OBVIOUS
  <2>1. k - d - u \in 1 .. PAGE_UNITS /\ a + u \in Int
    BY <1>5, PageNat DEF Units
  <2>2. \A i \in a + u .. (a + u) + (k - d - u) - 1 : i \in Units /\ i \notin a .. a + u - 1
    BY <1>5, PageNat DEF Units
  <2>3. \A i \in a + u .. (a + u) + (k - d - u) - 1 : m4[i] = x.mem[i]
    BY <2>2
  <2>4. Coded(m4, a + u, k - d - u, n)
    BY <1>15, <2>1, <2>3, CodedFrame
  <2> QED BY <1>8, <2>1, <2>4 DEF ListedAt
<1>19. d # 0 => ListedAt(m4, G, c)
  <2> SUFFICES ASSUME d # 0 PROVE ListedAt(m4, G, c)
    OBVIOUS
  <2>1. p1 = c /\ k1 = d /\ c # NULL
    BY <1>2, PageNat DEF p1, k1, NULL, Units
  <2> QED BY <1>8, <1>9, <1>11, <1>17, <2>1 DEF ListedAt
<1>20. p # NULL => ListedAt(m4, G, p)
  <2> SUFFICES ASSUME p # NULL PROVE ListedAt(m4, G, p)
    OBVIOUS
  <2>1. CASE d = 0
    <3>1. p1 = p /\ k1 = kp
      BY <2>1 DEF p1, k1
    <3> QED BY <1>8, <1>9, <1>17, <2>1, <3>1 DEF ListedAt
  <2>2. CASE d # 0
    <3>1. \A i \in p .. p + kp - 1 : i \in Units /\ i \notin c .. c + k - 1
      BY <1>2, <1>6, PageNat DEF Units
    <3>2. \A i \in p .. p + kp - 1 : m4[i] = m[i]
      BY <1>16, <2>2, <3>1
    <3>3. Coded(m4, p, kp, c)
      BY <1>6, <3>2, CodedFrame
    <3>4. c \in 1 .. PAGE_UNITS
      BY <1>6
    <3> QED BY <1>8, <2>2, <3>3, <3>4 DEF ListedAt
  <2> QED BY <2>1, <2>2
<1>21. Listed(m4, G)
  <2>1. c \in Int /\ c + k - 1 \in Int /\ (c + k - 1) + 1 = c + k
    BY <1>2, PageNat DEF Units
  <2>2. \A t \in G : t - 1 \notin G /\ (t = p \/ t \in c .. (c + k - 1) + 1)
                      => ListedAt(m4, G, t)
    <3> SUFFICES ASSUME NEW t \in G, t - 1 \notin G, t = p \/ t \in c .. c + k
                 PROVE  ListedAt(m4, G, t)
      BY <2>1
    <3>1. CASE t = p
      <4>1. p # NULL
        BY <1>8, <3>1, PageNat DEF NULL, Units
      <4> QED BY <1>20, <3>1, <4>1
    <3>2. CASE t \in c .. c + k
      BY <1>8, <1>18, <1>19, <3>2
    <3> QED BY <3>1, <3>2
  <2>3. \A i \in Units : i \notin c .. c + k - 1 /\ (p # NULL => i \notin p .. p + kp - 1)
                            => m4[i] = m[i]
    BY <1>16
  <2> QED BY ONLY <1>7, <1>8, <2>1, <2>2, <2>3, Splice, F \subseteq Units, Listed(m, F), p \in Int
<1>22. First(x.freelist, G) /\ x.freelist \in 0 .. PAGE_UNITS
  <2>1. CASE p1 = NULL
    <3>1. d = 0 /\ p = NULL /\ a = c /\ x.freelist = after
      BY <1>2, <1>14, <2>1, PageNat DEF p1, NULL, Units
    <3>2. ASSUME NEW g \in G
          PROVE  after \in G /\ after <= g
      <4>1. g \in F /\ g >= c /\ g \in Int /\ g < PAGE_UNITS /\ ~ (g < a + u)
        <5>1. g \in F /\ g \notin a .. a + u - 1 /\ c = fl
          BY <3>1, PageNat DEF NULL, Units
        <5>2. c <= g
          BY <5>1 DEF First
        <5> QED BY <1>2, <1>5, <3>1, <5>1, <5>2, PageNat DEF Units
      <4>2. g < c + k \/ g >= n
        BY <1>1, <4>1, RunOrder
      <4>3. CASE k - d = u
        <5>1. after = n
          BY <4>3 DEF after, UnlinkAfter
        <5>2. n <= g
          BY <1>2, <3>1, <4>1, <4>2, <4>3, PageNat DEF Units
        <5>3. n \in F
          BY <1>1, <4>1, <5>2, PageNat DEF Run
        <5>4. n \notin c .. c + k - 1 /\ n \in Int
          BY <1>2, PageNat DEF Units
        <5> QED BY <1>8, <5>1, <5>2, <5>3, <5>4
      <4>4. CASE k - d # u
        <5>1. after = a + u
          BY <1>5, <4>4, PageNat DEF after, UnlinkAfter
        <5>2. a + u \in G
          BY <1>8, <4>4 DEF Run
        <5> QED BY <1>5, <4>1, <5>1, <5>2 DEF Units
      <4> QED BY <4>3, <4>4
    <3>3. First(after, G)
      BY <3>2 DEF First
    <3> QED BY <1>9, <3>1, <3>3, PageNat
  <2>2. CASE p1 # NULL
    <3>1. x.freelist = fl
      BY <1>14, <2>2
    <3>2. fl \in F /\ (\A i \in F : fl <= i) /\ fl \in Int
      <4>1. fl \in F /\ \A i \in F : fl <= i
        BY DEF First
      <4> QED BY <4>1 DEF Units
    <3>3. fl < a
      <4>1. CASE p = NULL
        <5>1. d # 0 /\ fl = c
          BY <2>2, <4>1, PageNat DEF p1, NULL, Units
        <5> QED BY <1>2, <5>1 DEF Units
      <4>2. CASE p # NULL
        BY <1>2, <1>6, <3>2, <4>2 DEF Units
      <4> QED BY <4>1, <4>2
    <3>4. fl \in G
      BY <1>5, <3>2, <3>3 DEF Units
    <3>5. \A i \in G : fl <= i
      BY <3>2
    <3>6. fl \in 0 .. PAGE_UNITS
      BY <3>2, PageNat DEF Units
    <3> QED BY <3>1, <3>4, <3>5, <3>6 DEF First
  <2> QED BY <2>1, <2>2
<1> QED BY <1>10, <1>14, <1>15, <1>21, <1>22
-----------------------------------------------------------------------------
(* slob_free: a block enters the list. *)

\* A block in a full page is the whole list.
LEMMA FirstListed ==
  ASSUME NEW m \in Memory, NEW b \in Units, NEW u \in 1 .. PAGE_UNITS,
         b + u <= PAGE_UNITS, NEW G, G = b .. b + u - 1
  PROVE  /\ set_slob(m, b, u, PAGE_UNITS) \in Memory
         /\ Listed(set_slob(m, b, u, PAGE_UNITS), G) /\ First(b, G)
<1>1. PAGE_UNITS \in 1 .. PAGE_UNITS
  BY PageNat
<1>2. /\ set_slob(m, b, u, PAGE_UNITS) \in Memory
      /\ Coded(set_slob(m, b, u, PAGE_UNITS), b, u, PAGE_UNITS)
  BY <1>1, SetSlob
<1>3. Run(G, b, u, PAGE_UNITS)
  BY PageNat DEF Run, Units
<1>4. \A t \in G : t - 1 \notin G => t = b
  BY PageNat DEF Units
<1>5. First(b, G)
  BY PageNat DEF First, Units
<1> QED BY <1>1, <1>2, <1>3, <1>4, <1>5 DEF Listed, ListedAt

\* A block that is freed between the entry p and its successor n, or in front
\* of the first entry n when p is NULL.
Between(F, p, kp, n, b, u) ==
  /\ b \in Units /\ u \in 1 .. PAGE_UNITS /\ b + u <= n
  /\ n \in F \cup {PAGE_UNITS} /\ (n \in F => n - 1 \notin F)
  /\ \A i \in F : i < b \/ i >= n
  /\ \/ p = NULL /\ \A i \in F : i >= n
     \/ /\ p \in Units /\ p + kp <= b /\ Run(F, p, kp, n)

\* The new entry as it is encoded at first: joined with its successor, if it
\* touches one.
Joined(F, u, n, kn, nn, b, size, next) ==
  \/ /\ n \in F /\ b + u = n /\ Run(F, n, kn, nn)
     /\ size = u + kn /\ next = nn
  \/ /\ ~ (n \in F /\ b + u = n)
     /\ size = u /\ next = n

\* The runs that the freed block belongs to.
Given(F, G, p, kp, b, u, size, next) ==
  /\ G \subseteq Units
  /\ size \in 1 .. PAGE_UNITS /\ next \in 1 .. PAGE_UNITS
  /\ b + size <= PAGE_UNITS /\ u <= size
  /\ \A i \in Int : i \notin b .. b + size - 1 => (i \in F <=> i \in G)
  /\ p # NULL => kp + size <= PAGE_UNITS
  /\ ~ (p # NULL /\ p + kp = b) => Run(G, b, size, next)
  /\ p # NULL /\ p + kp = b => Run(G, p, kp + size, next)
  /\ p # NULL /\ p + kp # b => Run(G, p, kp, b)
  /\ \A t \in G : t - 1 \notin G /\ t \in b .. b + size => t = b

\* They are as slob_free encodes them.
LEMMA GivenRuns ==
  ASSUME NEW F, F \subseteq Units, NEW p \in Int, NEW kp \in 1 .. PAGE_UNITS,
         NEW n \in 1 .. PAGE_UNITS, NEW b, NEW u, Between(F, p, kp, n, b, u),
         NEW kn \in 1 .. PAGE_UNITS, NEW nn \in 1 .. PAGE_UNITS, NEW size, NEW next,
         Joined(F, u, n, kn, nn, b, size, next),
         NEW G, G = F \cup (b .. b + u - 1)
  PROVE  Given(F, G, p, kp, b, u, size, next)
<1>1. /\ b \in Int /\ b >= 0 /\ b < PAGE_UNITS /\ u \in Int /\ u >= 1 /\ b + u <= n
      /\ n \in Int /\ n <= PAGE_UNITS
  BY PageNat DEF Between, Units
<1>2. /\ G \subseteq Units
      /\ \A i \in Int : i \in G <=> i \in F \/ (b <= i /\ i < b + u)
      /\ \A i \in F : i \in Int /\ 0 <= i /\ i < PAGE_UNITS
  BY <1>1, PageNat DEF Units
<1>3. /\ n \in F \cup {PAGE_UNITS} /\ (n \in F => n - 1 \notin F)
      /\ \A i \in F : i < b \/ i >= n
  BY DEF Between
<1>4. /\ size \in 1 .. PAGE_UNITS /\ next \in 1 .. PAGE_UNITS
      /\ b + size <= PAGE_UNITS /\ u <= size
      /\ next >= b + size /\ next \in F \cup {PAGE_UNITS}
      /\ \A i \in b .. b + size - 1 : i \in G
      /\ b + size \notin G
      /\ \A i \in b + size .. next - 1 : i \notin G
      /\ \A i \in Int : i \notin b .. b + size - 1 => (i \in F <=> i \in G)
  <2>1. CASE n \in F /\ b + u = n
    <3>1. Run(F, n, kn, nn) /\ size = u + kn /\ next = nn
      BY <2>1 DEF Joined
    <3>2. n + kn <= PAGE_UNITS /\ n + kn <= nn
      BY <3>1, RunBounds
    <3>3. /\ \A i \in n .. n + kn - 1 : i \in F
          /\ n + kn \notin F /\ nn \in F \cup {PAGE_UNITS}
          /\ \A i \in n + kn .. nn - 1 : i \notin F
      BY <3>1 DEF Run
    <3>4. b + size = n + kn
      BY <1>1, <2>1, <3>1, PageNat
    <3>5. /\ size \in 1 .. PAGE_UNITS /\ next \in 1 .. PAGE_UNITS
          /\ b + size <= PAGE_UNITS /\ u <= size /\ next >= b + size
      BY <1>1, <3>1, <3>2, <3>4, PageNat
    <3>6. \A i \in b .. b + size - 1 : i \in G
      <4> SUFFICES ASSUME NEW i \in b .. b + size - 1 PROVE i \in G
        OBVIOUS
      <4>1. CASE i < n
        BY <1>1, <1>2, <2>1, <3>5, <4>1, PageNat
      <4>2. CASE i >= n
        <5>1. i \in n .. n + kn - 1
          BY <1>1, <3>4, <3>5, <4>2, PageNat
        <5> QED BY <3>3, <5>1
      <4> QED BY <1>1, <3>5, <4>1, <4>2, PageNat
    <3>7. b + size \notin G /\ \A i \in b + size .. next - 1 : i \notin G
      BY <1>1, <1>2, <2>1, <3>1, <3>3, <3>4, PageNat
    <3>8. \A i \in Int : i \notin b .. b + size - 1 => (i \in F <=> i \in G)
      BY <1>1, <1>2, <3>5, PageNat
    <3> QED BY <3>1, <3>3, <3>5, <3>6, <3>7, <3>8
  <2>2. CASE ~ (n \in F /\ b + u = n)
    <3>1. size = u /\ next = n
      BY <2>2 DEF Joined
    <3>2. b + u \notin F
      BY <1>1, <1>2, <1>3, <2>2
    <3>3. \A i \in b + u .. n - 1 : i \notin G
      BY <1>1, <1>2, <1>3
    <3>4. b + u \notin G
      BY <1>1, <1>2, <3>2
    <3>5. size \in 1 .. PAGE_UNITS /\ b + size <= PAGE_UNITS
      BY <1>1, <3>1, PageNat
    <3>6. \A i \in b .. b + size - 1 : i \in G
      BY <1>1, <1>2, <3>1
    <3>7. \A i \in Int : i \notin b .. b + size - 1 => (i \in F <=> i \in G)
      BY <1>1, <1>2, <3>1
    <3> QED BY <1>1, <1>3, <3>1, <3>3, <3>4, <3>5, <3>6, <3>7
  <2> QED BY <2>1, <2>2
<1>5. /\ next \in G \cup {PAGE_UNITS} /\ b \in G
      /\ size \in Int /\ size >= 1 /\ next \in Int
  BY <1>1, <1>2, <1>4, PageNat
<1>6. p # NULL => /\ p \in Int /\ p >= 0 /\ kp \in Int /\ kp >= 1 /\ p + kp <= b
                  /\ p \in G /\ p - 1 \notin G
                  /\ (\A i \in p .. p + kp - 1 : i \in G)
                  /\ p + kp \notin F
                  /\ \A i \in p + kp .. b - 1 : i \notin G
  <2> SUFFICES ASSUME p # NULL
               PROVE  /\ p \in Int /\ p >= 0 /\ kp \in Int /\ kp >= 1 /\ p + kp <= b
                      /\ p \in G /\ p - 1 \notin G
                      /\ (\A i \in p .. p + kp - 1 : i \in G)
                      /\ p + kp \notin F
                      /\ \A i \in p + kp .. b - 1 : i \notin G
    OBVIOUS
  <2>1. p \in Units /\ p + kp <= b /\ Run(F, p, kp, n)
    BY DEF Between
  <2>2. p \in Int /\ p >= 0 /\ kp \in Int /\ kp >= 1
    BY <2>1, PageNat DEF Units
  <2>3. /\ p \in F /\ p - 1 \notin F /\ p + kp \notin F
        /\ \A i \in p .. p + kp - 1 : i \in F
        /\ \A i \in p + kp .. n - 1 : i \notin F
    BY <2>1 DEF Run
  <2>4. p \in G /\ p - 1 \notin G /\ \A i \in p .. p + kp - 1 : i \in G
    BY <1>1, <1>2, <2>1, <2>2, <2>3
  <2>5. \A i \in p + kp .. b - 1 : i \notin G
    BY <1>1, <1>2, <2>1, <2>2, <2>3
  <2> QED BY <2>1, <2>2, <2>3, <2>4, <2>5
<1>7. p # NULL => kp + size <= PAGE_UNITS
  BY <1>1, <1>4, <1>5, <1>6, PageNat
<1>8. ~ (p # NULL /\ p + kp = b) => Run(G, b, size, next)
  <2> SUFFICES ASSUME ~ (p # NULL /\ p + kp = b) PROVE Run(G, b, size, next)
    OBVIOUS
  <2>1. b - 1 \notin F
    <3>1. CASE p = NULL
      <4>1. \A i \in F : i >= n
        BY <3>1, PageNat DEF Between, NULL, Units
      <4> QED BY <1>1, <1>2, <4>1
    <3>2. CASE p # NULL
      <4>1. p + kp < b
        BY <1>1, <1>6, <3>2
      <4>2. b - 1 \in p + kp .. b - 1
        BY <1>1, <1>6, <3>2, <4>1
      <4>3. b - 1 \notin G
        BY <1>6, <3>2, <4>2
      <4> QED BY <4>3
    <3> QED BY <3>1, <3>2
  <2>2. b - 1 \notin G
    BY <1>1, <1>2, <2>1
  <2> QED BY <1>4, <1>5, <2>2 DEF Run
<1>9. p # NULL /\ p + kp = b => Run(G, p, kp + size, next)
  <2> SUFFICES ASSUME p # NULL, p + kp = b PROVE Run(G, p, kp + size, next)
    OBVIOUS
  <2>1. p + (kp + size) = b + size
    BY <1>1, <1>5, <1>6
  <2>2. \A i \in p .. p + (kp + size) - 1 : i \in G
    BY <1>1, <1>4, <1>5, <1>6, <2>1
  <2> QED BY <1>4, <1>5, <1>6, <2>1, <2>2 DEF Run
<1>10. p # NULL /\ p + kp # b => Run(G, p, kp, b)
  <2> SUFFICES ASSUME p # NULL, p + kp # b PROVE Run(G, p, kp, b)
    OBVIOUS
  <2>1. p + kp \notin G
    BY <1>1, <1>2, <1>6
  <2>2. b >= p + kp
    BY <1>1, <1>6
  <2> QED BY <1>5, <1>6, <2>1, <2>2 DEF Run
<1>11. \A t \in G : t - 1 \notin G /\ t \in b .. b + size => t = b
  <2> SUFFICES ASSUME NEW t \in G, t - 1 \notin G, t \in b .. b + size, t # b PROVE FALSE
    OBVIOUS
  <2>1. t \in Int /\ t # b + size /\ t - 1 \in b .. b + size - 1
    BY <1>1, <1>4, <1>5
  <2> QED BY <1>4, <2>1
<1> QED BY <1>2, <1>4, <1>7, <1>8, <1>9, <1>10, <1>11 DEF Given

\* slob_free encodes the new entry, and joins it with p or makes it p's
\* successor.
Give(m, p, kp, b, size, next) ==
  LET m1 == set_slob(m, b, size, next)
  IN IF p = NULL THEN m1
     ELSE IF p + kp = b THEN set_slob(m1, p, kp + size, next)
                        ELSE set_slob(m1, p, kp, b)

\* The list after slob_free's insertion.
LEMMA GiveListed ==
  ASSUME NEW F, F \subseteq Units, NEW m \in Memory, Listed(m, F),
         NEW p \in Int, NEW kp \in 1 .. PAGE_UNITS, NEW n \in 1 .. PAGE_UNITS,
         NEW b, NEW u, Between(F, p, kp, n, b, u),
         NEW kn \in 1 .. PAGE_UNITS, NEW nn \in 1 .. PAGE_UNITS, NEW size, NEW next,
         Joined(F, u, n, kn, nn, b, size, next),
         NEW G, G = F \cup (b .. b + u - 1)
  PROVE  /\ Give(m, p, kp, b, size, next) \in Memory
         /\ Listed(Give(m, p, kp, b, size, next), G)
<1>m1. PICK m1 : m1 = set_slob(m, b, size, next)
  OBVIOUS
<1>m2. PICK m2 : m2 = Give(m, p, kp, b, size, next)
  OBVIOUS
<1>m3. m2 = IF p = NULL THEN m1
            ELSE IF p + kp = b THEN set_slob(m1, p, kp + size, next)
                               ELSE set_slob(m1, p, kp, b)
  BY <1>m1, <1>m2 DEF Give
<1>1. Given(F, G, p, kp, b, u, size, next)
  BY GivenRuns
<1>2. b \in Units /\ u \in 1 .. PAGE_UNITS /\ b + u <= n
  BY DEF Between
<1>3. b \in Int /\ b >= 0 /\ b < PAGE_UNITS /\ u >= 1 /\ u \in Int /\ n >= b
  BY <1>2, PageNat DEF Units
<1>4. /\ G \subseteq Units
      /\ size \in 1 .. PAGE_UNITS /\ next \in 1 .. PAGE_UNITS /\ b + size <= PAGE_UNITS
      /\ \A i \in Int : i \notin b .. b + size - 1 => (i \in F <=> i \in G)
      /\ \A t \in G : t - 1 \notin G /\ t \in b .. b + size => t = b
  BY <1>1 DEF Given
<1>5. /\ m1 \in Memory /\ Coded(m1, b, size, next)
      /\ \A i \in Units : i \notin b .. b + size - 1 => m1[i] = m[i]
  BY <1>2, <1>4, <1>m1, SetSlob
<1>6. p # NULL => p \in Units /\ p + kp <= b /\ Run(F, p, kp, n) /\ p \in Int /\ p >= 0
  BY DEF Between, Units
<1>7. Before(F, p, kp, n, b)
  <2>1. CASE p = NULL
    <3>1. \A i \in F : i >= n /\ i \in Int
      BY <2>1, PageNat DEF Between, NULL, Units
    <3> QED BY <1>3, <2>1, <3>1 DEF Before
  <2>2. CASE p # NULL
    BY <1>3, <1>6, <2>2 DEF Before
  <2> QED BY <2>1, <2>2
<1>8. /\ m2 \in Memory
      /\ p # NULL => ListedAt(m2, G, p)
      /\ ~ (p # NULL /\ p + kp = b) => ListedAt(m2, G, b)
      /\ \A i \in Units : i \notin b .. b + size - 1 /\ (p # NULL => i \notin p .. p + kp - 1)
                            => m2[i] = m[i]
  <2>1. CASE p = NULL
    <3>1. m2 = m1 /\ Run(G, b, size, next)
      BY <1>1, <1>m3, <2>1 DEF Given
    <3> QED BY <1>4, <1>5, <2>1, <3>1 DEF ListedAt
  <2>2. CASE p # NULL /\ p + kp = b
    <3>1. m2 = set_slob(m1, p, kp + size, next) /\ Run(G, p, kp + size, next)
      BY <1>1, <1>m3, <2>2 DEF Given
    <3>2. /\ p \in Units /\ kp + size \in 1 .. PAGE_UNITS
          /\ p + (kp + size) = b + size /\ p + (kp + size) <= PAGE_UNITS
      BY <1>1, <1>3, <1>4, <1>6, <2>2, PageNat DEF Given
    <3>3. /\ m2 \in Memory /\ Coded(m2, p, kp + size, next)
          /\ \A i \in Units : i \notin p .. p + (kp + size) - 1 => m2[i] = m1[i]
      BY <1>4, <1>5, <3>1, <3>2, SetSlob
    <3>4. \A i \in Units : i \notin b .. b + size - 1 /\ i \notin p .. p + kp - 1
                            => m2[i] = m[i]
      <4> SUFFICES ASSUME NEW i \in Units, i \notin b .. b + size - 1, i \notin p .. p + kp - 1
                   PROVE  m2[i] = m[i]
        OBVIOUS
      <4>1. i \notin p .. p + (kp + size) - 1
        <5>1. i \in Int /\ kp \in Int /\ size \in Int /\ p \in Int
          BY <1>4, PageNat DEF Units
        <5>2. i < p \/ i > p + kp - 1
          BY <5>1
        <5>3. i < b \/ i > b + size - 1
          BY <1>3, <5>1
        <5> QED BY <1>3, <2>2, <3>2, <5>1, <5>2, <5>3
      <4> QED BY <1>5, <3>3, <4>1
    <3>5. ListedAt(m2, G, p)
      BY <1>4, <3>1, <3>2, <3>3 DEF ListedAt
    <3> QED BY <2>2, <3>3, <3>4, <3>5
  <2>3. CASE p # NULL /\ p + kp # b
    <3>1. m2 = set_slob(m1, p, kp, b) /\ Run(G, p, kp, b) /\ Run(G, b, size, next)
      BY <1>1, <1>m3, <2>3 DEF Given
    <3>2. p \in Units /\ p + kp <= PAGE_UNITS /\ b \in 1 .. PAGE_UNITS
      BY <1>3, <1>6, <2>3, PageNat
    <3>3. /\ m2 \in Memory /\ Coded(m2, p, kp, b)
          /\ \A i \in Units : i \notin p .. p + kp - 1 => m2[i] = m1[i]
      BY <1>5, <3>1, <3>2, SetSlob
    <3>4. ListedAt(m2, G, p)
      BY <3>1, <3>2, <3>3 DEF ListedAt
    <3>5. Coded(m2, b, size, next)
      <4>1. \A i \in b .. b + size - 1 : i \in Units /\ i \notin p .. p + kp - 1
        BY <1>3, <1>4, <1>6, <2>3, PageNat DEF Units
      <4>2. \A i \in b .. b + size - 1 : m2[i] = m1[i]
        BY <3>3, <4>1
      <4> QED BY <1>3, <1>4, <1>5, <4>2, CodedFrame
    <3>6. ListedAt(m2, G, b)
      BY <1>4, <3>1, <3>5 DEF ListedAt
    <3> QED BY <1>5, <2>3, <3>3, <3>4, <3>6
  <2> QED BY <2>1, <2>2, <2>3
<1>9. \A t \in G : t - 1 \notin G /\ (t = p \/ t \in b .. (b + size - 1) + 1)
                     => ListedAt(m2, G, t)
  <2> SUFFICES ASSUME NEW t \in G, t - 1 \notin G, t = p \/ t \in b .. (b + size - 1) + 1
               PROVE  ListedAt(m2, G, t)
    OBVIOUS
  <2>1. CASE t = p
    <3>1. p # NULL
      BY <1>4, <2>1, PageNat DEF NULL, Units
    <3> QED BY <1>8, <2>1, <3>1
  <2>2. CASE t \in b .. (b + size - 1) + 1
    <3>1. t = b
      <4>1. t \in b .. b + size
        BY <1>3, <1>4, <2>2, PageNat
      <4> QED BY <1>4, <4>1
    <3>2. ~ (p # NULL /\ p + kp = b)
      <4> SUFFICES ASSUME p # NULL, p + kp = b PROVE FALSE
        OBVIOUS
      <4>1. b - 1 \in p .. p + kp - 1
        BY <1>3, <1>6, PageNat
      <4>2. b - 1 \in F
        BY <1>6, <4>1 DEF Run
      <4> QED BY <3>1, <4>2
    <3> QED BY <1>8, <3>1, <3>2
  <2> QED BY <2>1, <2>2
<1>10. b + size - 1 \in Int
  BY <1>3, <1>4, PageNat
<1>11. Listed(m2, G)
  BY ONLY <1>3, <1>4, <1>7, <1>8, <1>9, <1>10, Splice, F \subseteq Units, Listed(m, F),
          p \in Int, kp \in 1 .. PAGE_UNITS, n \in 1 .. PAGE_UNITS
<1> QED BY <1>m2, <1>8, <1>11

\* The successor n of the block that is freed, if there is one, has kn units
\* and the successor nn.
Follows(F, m, n, kn, nn, b, u) ==
  LET joins == n \in F /\ b + u = n
      size == IF joins THEN u + kn ELSE u
      next == IF joins THEN nn ELSE n
  IN /\ n \in F => slob_units(m, n) = kn /\ slob_next(m, n) = nn
     /\ Joined(F, u, n, kn, nn, b, size, next)

\* Some units and a successor it has.
LEMMA Successor ==
  ASSUME NEW F, F \subseteq Units, NEW m, Listed(m, F), NEW n \in 1 .. PAGE_UNITS,
         n \in F => n - 1 \notin F, NEW b \in Units, NEW u \in 1 .. PAGE_UNITS
  PROVE  \E kn, nn \in 1 .. PAGE_UNITS : Follows(F, m, n, kn, nn, b, u)
<1>1. CASE n \in F
  <2>1. PICK kn \in 1 .. PAGE_UNITS, nn \in 1 .. PAGE_UNITS :
          Run(F, n, kn, nn) /\ Coded(m, n, kn, nn)
    BY <1>1 DEF Listed, ListedAt
  <2>2. slob_units(m, n) = kn /\ slob_next(m, n) = nn
    BY <1>1, <2>1, CodedRead
  <2> QED BY <2>1, <2>2 DEF Joined, Follows
<1>2. CASE n \notin F
  BY <1>2 DEF Joined, Follows
<1> QED BY <1>1, <1>2

\* slob_free in front of the first entry.
LEMMA FrontListed ==
  ASSUME NEW F, F \subseteq Units, F # {}, NEW m \in Memory, Listed(m, F),
         NEW fl, First(fl, F),
         NEW b \in Units, NEW u \in 1 .. PAGE_UNITS, b < fl,
         (b .. b + u - 1) \cap F = {}, b + u <= PAGE_UNITS,
         NEW G, G = F \cup (b .. b + u - 1),
         NEW m2, m2 = set_slob(m, b,
                               u + (IF b + u = fl THEN slob_units(m, fl) ELSE 0),
                               IF b + u = fl THEN slob_next(m, fl) ELSE fl)
  PROVE  m2 \in Memory /\ Listed(m2, G) /\ First(b, G)
<1>1. /\ fl \in F /\ (\A i \in F : fl <= i) /\ fl \in 1 .. PAGE_UNITS /\ fl \in Int
      /\ b \in Int /\ u \in Int /\ u >= 1 /\ b >= 0
  <2>1. fl \in F /\ \A i \in F : fl <= i
    BY DEF First
  <2> QED BY <2>1, PageNat DEF Units
<1>2. \A i \in F : i \in Int /\ i >= fl
  BY <1>1 DEF Units
<1>3. fl - 1 \notin F
  BY <1>1, <1>2
<1>4. b + u <= fl
  <2> SUFFICES ASSUME b + u > fl PROVE FALSE
    BY <1>1
  <2>1. fl \in b .. b + u - 1
    BY <1>1
  <2> QED BY <1>1, <2>1
<1>5. PICK kn \in 1 .. PAGE_UNITS, nn \in 1 .. PAGE_UNITS :
        Follows(F, m, fl, kn, nn, b, u)
  BY <1>1, <1>3, Successor
<1> DEFINE size == IF b + u = fl THEN u + kn ELSE u
           next == IF b + u = fl THEN nn ELSE fl
<1>6. Joined(F, u, fl, kn, nn, b, size, next)
  BY <1>1, <1>5 DEF Follows
<1>7. m2 = set_slob(m, b, size, next)
  <2>1. u + 0 = u
    BY <1>1
  <2> QED BY <1>1, <1>5, <2>1 DEF Follows
<1> HIDE DEF size, next
<1>8. Between(F, NULL, 1, fl, b, u)
  BY <1>1, <1>2, <1>3, <1>4 DEF Between
<1>9. NULL \in Int /\ 1 \in 1 .. PAGE_UNITS
  BY PageNat DEF NULL
<1>10. m2 \in Memory /\ Listed(m2, G)
  <2>1. m2 = Give(m, NULL, 1, b, size, next)
    BY <1>7 DEF Give
  <2>2. /\ Give(m, NULL, 1, b, size, next) \in Memory
        /\ Listed(Give(m, NULL, 1, b, size, next), G)
    BY <1>1, <1>6, <1>8, <1>9, GiveListed
  <2> QED BY <2>1, <2>2
<1>11. First(b, G)
  BY <1>1, <1>2, <1>4, PageNat DEF First
<1> QED BY <1>10, <1>11

\* slob_free behind the entry p.
LEMMA LinkListed ==
  ASSUME NEW F, F \subseteq Units, NEW m \in Memory, Listed(m, F),
         NEW p \in F, p - 1 \notin F, NEW n, slob_next(m, p) = n,
         NEW b \in Units, NEW u \in 1 .. PAGE_UNITS, p < b, b <= n,
         (b .. b + u - 1) \cap F = {}, b + u <= PAGE_UNITS,
         NEW G, G = F \cup (b .. b + u - 1)
  PROVE  Link(m, p, n, b, u) \in Memory /\ Listed(Link(m, p, n, b, u), G)
<1>1. PICK kp \in 1 .. PAGE_UNITS, np \in 1 .. PAGE_UNITS : Run(F, p, kp, np) /\ Coded(m, p, kp, np)
  BY DEF Listed, ListedAt
<1>2. np = n /\ p \in Units /\ p + kp <= n /\ p + kp <= PAGE_UNITS
  <2>1. p \in Units /\ p + kp <= np /\ p + kp <= PAGE_UNITS
    BY <1>1, RunBounds
  <2> QED BY <1>1, <2>1, CodedRead
<1>3. n \in 1 .. PAGE_UNITS /\ Run(F, p, kp, n) /\ Coded(m, p, kp, n)
  BY <1>1, <1>2
<1>4. /\ n \in Int /\ p \in Int /\ b \in Int /\ u \in Int /\ kp \in Int
      /\ u >= 1 /\ kp >= 1 /\ b >= 0 /\ b < PAGE_UNITS /\ n <= PAGE_UNITS /\ p >= 0
  BY <1>2, <1>3, PageNat DEF Units
<1>5. /\ n \in F \cup {PAGE_UNITS} /\ (\A i \in p .. p + kp - 1 : i \in F)
      /\ \A i \in p + kp .. n - 1 : i \notin F
  BY <1>3 DEF Run
<1>6. b \notin F /\ \A i \in b .. b + u - 1 : i \notin F
  BY <1>4
<1>7. p + kp <= b
  <2> SUFFICES ASSUME p + kp > b PROVE FALSE
    BY <1>4
  <2>1. b \in p .. p + kp - 1
    BY <1>4
  <2> QED BY <1>5, <1>6, <2>1
<1>8. b + u <= n
  <2>1. CASE n = PAGE_UNITS
    BY <2>1
  <2>2. CASE n # PAGE_UNITS
    <3>1. n \notin b .. b + u - 1
      BY <1>5, <1>6, <2>2
    <3> QED BY <1>4, <3>1
  <2> QED BY <2>1, <2>2
<1>9. n \in F => n - 1 \notin F
  <2>1. n \in F => n < PAGE_UNITS
    BY PageNat DEF Units
  <2>2. n < PAGE_UNITS => n > p + kp
    BY <1>3, RunBounds
  <2>3. n > p + kp => n - 1 \in p + kp .. n - 1
    BY <1>4
  <2> QED BY <1>5, <2>1, <2>2, <2>3
<1>10. \A i \in F : i < b \/ i >= n
  <2> SUFFICES ASSUME NEW i \in F, i >= b PROVE i >= n
    BY <1>4 DEF Units
  <2>1. i \in Int /\ i >= p
    BY <1>4 DEF Units
  <2>2. i < p + kp \/ i >= n
    BY <1>3, <2>1, RunOrder
  <2> QED BY <1>4, <1>7, <2>1, <2>2
<1>11. Between(F, p, kp, n, b, u)
  BY <1>2, <1>3, <1>5, <1>7, <1>8, <1>9, <1>10 DEF Between
<1>12. PICK kn \in 1 .. PAGE_UNITS, nn \in 1 .. PAGE_UNITS :
         Follows(F, m, n, kn, nn, b, u)
  BY <1>3, <1>9, Successor
<1>13. slob_last(m, p) <=> n \notin F
  <2>1. slob_last(m, p) <=> n = PAGE_UNITS
    BY <1>4, <1>3, PageNat DEF slob_last
  <2>2. n = PAGE_UNITS => n \notin F
    BY PageNat DEF Units
  <2> QED BY <1>5, <2>1, <2>2
<1> DEFINE joins == n \in F /\ b + u = n
           size == IF joins THEN u + kn ELSE u
           next == IF joins THEN nn ELSE n
           m1 == set_slob(m, b, size, next)
<1>14. /\ Joined(F, u, n, kn, nn, b, size, next)
       /\ m1 = IF ~ slob_last(m, p) /\ b + u = n
               THEN set_slob(m, b, u + slob_units(m, n), slob_next(m, n))
               ELSE set_slob(m, b, u, n)
  BY <1>12, <1>13 DEF Follows
<1> HIDE DEF size, next
<1>15. Given(F, G, p, kp, b, u, size, next)
  BY <1>3, <1>4, <1>11, <1>14, GivenRuns
<1>16. size \in 1 .. PAGE_UNITS /\ next \in 1 .. PAGE_UNITS /\ b + size <= PAGE_UNITS
  BY <1>15 DEF Given
<1>17. /\ m1 \in Memory /\ Coded(m1, b, size, next)
       /\ \A i \in Units : i \notin b .. b + size - 1 => m1[i] = m[i]
  BY <1>16, SetSlob
<1>18. slob_units(m1, p) = kp /\ slob_units(m1, b) = size /\ slob_next(m1, b) = next
  <2>1. \A i \in p .. p + kp - 1 : i \in Units /\ i \notin b .. b + size - 1
    BY <1>2, <1>4, <1>7, <1>16, PageNat DEF Units
  <2>2. \A i \in p .. p + kp - 1 : m1[i] = m[i]
    BY <1>17, <2>1
  <2> HIDE DEF m1
  <2>3. Coded(m1, p, kp, n)
    BY <1>3, <1>4, <2>2, CodedFrame
  <2> QED BY <1>2, <1>3, <1>16, <1>17, <2>3, CodedRead
<1>19. Link(m, p, n, b, u) = IF p + kp = b THEN set_slob(m1, p, kp + size, next)
                                           ELSE set_slob(m1, p, kp, b)
  <2>1. Link(m, p, n, b, u) =
          IF p + slob_units(m1, p) = b
          THEN set_slob(m1, p, slob_units(m1, b) + slob_units(m1, p), slob_next(m1, b))
          ELSE set_slob(m1, p, slob_units(m1, p), b)
    <3>1. m1 = IF ~ slob_last(m, p) /\ b + u = n
               THEN set_slob(m, b, u + slob_units(m, n), slob_next(m, n))
               ELSE set_slob(m, b, u, n)
      BY <1>14
    <3> HIDE DEF m1
    <3> QED BY <3>1, Zenon DEF Link
  <2>2. size + kp = kp + size
    BY <1>4, <1>16, PageNat
  <2> HIDE DEF m1
  <2> QED BY <1>18, <2>1, <2>2
<1>20. p # NULL
  BY <1>4 DEF NULL
<1>21. Link(m, p, n, b, u) = Give(m, p, kp, b, size, next)
  BY <1>19, <1>20 DEF Give
<1>22. Joined(F, u, n, kn, nn, b, size, next)
  BY <1>14
<1>23. /\ Give(m, p, kp, b, size, next) \in Memory
       /\ Listed(Give(m, p, kp, b, size, next), G)
  BY <1>3, <1>4, <1>11, <1>22, GiveListed
<1> QED BY <1>21, <1>23
-----------------------------------------------------------------------------
(* Alignment, and the units of blocks. *)

\* A multiple leaves no remainder.
LEMMA Multiple ==
  ASSUME NEW g \in Nat \ {0}, NEW q \in Int
  PROVE  (q * g) % g = 0
<1>1. q * g \in Int
  OBVIOUS
<1> DEFINE x == q * g
           d == x \div g
           r == x % g
<1>2. x = g * d + r /\ d \in Int /\ r \in 0 .. g - 1
  BY <1>1
<1> HIDE DEF d, r
<1>3. (q - d) * g = q * g - g * d /\ q - d \in Int /\ g * d \in Int
  BY <1>2
<1>4. r = (q - d) * g
  BY <1>1, <1>2, <1>3
<1>5. q - d >= 1 => (q - d) * g >= g
  BY <1>3
<1>6. q - d <= -1 => (q - d) * g <= -g
  BY <1>3
<1>7. x % g = 0
  BY <1>2, <1>3, <1>4, <1>5, <1>6 DEF r
<1> QED BY <1>7 DEF x

\* ALIGN rounds up to the next address that is aligned.
LEMMA AlignUp ==
  ASSUME NEW x \in Nat, NEW g \in Nat
  PROVE  /\ Delta(x, g) \in Nat /\ IsAligned(x + Delta(x, g), g)
         /\ \A y \in Nat : y >= x /\ IsAligned(y, g) => y >= x + Delta(x, g)
<1>1. CASE g = 0
  BY <1>1 DEF Delta, IsAligned
<1>2. CASE g # 0
  <2> DEFINE z == x + g - 1
             q == z \div g
             r == z % g
  <2>1. z \in Nat /\ g \in Nat \ {0}
    BY <1>2
  <2>2. Delta(x, g) = q * g - x
    BY <1>2 DEF Delta, ALIGN
  <2> HIDE DEF z
  <2>3. q \in Int /\ r \in 0 .. g - 1 /\ z = g * q + r
    BY <2>1
  <2> HIDE DEF q, r
  <2>4. q * g \in Int /\ q * g = g * q /\ g * q \in Int
    BY <2>1, <2>3
  <2>5. q * g >= x
    BY <2>1, <2>3, <2>4 DEF z
  <2>6. Delta(x, g) \in Nat /\ x + Delta(x, g) = q * g
    BY <2>2, <2>4, <2>5
  <2>7. (q * g) % g = 0
    BY <2>1, <2>3, Multiple
  <2>8. ASSUME NEW y \in Nat, y >= x, y % g = 0
        PROVE  y >= q * g
    <3> DEFINE j == y \div g
    <3>1. j \in Int /\ y = g * j
      BY <2>1, <2>8
    <3> HIDE DEF j
    <3>2. CASE j >= q
      <4>1. g * j >= g * q
        BY <2>1, <2>3, <3>1, <3>2
      <4> QED BY <2>4, <3>1, <4>1
    <3>3. CASE j <= q - 1
      <4>1. g * j <= g * (q - 1)
        BY <2>1, <2>3, <3>1, <3>3
      <4>2. g * (q - 1) = g * q - g
        BY <2>1, <2>3
      <4>3. y < x
        BY <2>1, <2>3, <2>4, <3>1, <4>1, <4>2 DEF z
      <4> QED BY <2>8, <4>3
    <3> QED BY <2>3, <3>1, <3>2, <3>3
  <2> QED BY <1>2, <2>6, <2>7, <2>8 DEF IsAligned
<1> QED BY <1>1, <1>2

\* A set of free units is finite, and has at most as many as the page.
LEMMA UnitsFinite ==
  ASSUME NEW F, F \subseteq Units
  PROVE  IsFiniteSet(F) /\ Cardinality(F) \in 0 .. PAGE_UNITS /\ (Cardinality(F) = 0 <=> F = {})
<1>1. IsFiniteSet(Units) /\ Cardinality(Units) = PAGE_UNITS
  BY PageNat, FS_Interval DEF Units
<1>2. IsFiniteSet(F) /\ Cardinality(F) <= Cardinality(Units)
  BY <1>1, FS_Subset
<1>3. Cardinality(F) \in Nat
  BY <1>2, FS_CardinalityType
<1>4. Cardinality(F) = 0 <=> F = {}
  BY <1>2, FS_EmptySet
<1> QED BY <1>1, <1>2, <1>3, <1>4, PageNat

\* The size of a union of two sets without common elements.
LEMMA DisjointUnion ==
  ASSUME NEW A, IsFiniteSet(A), NEW B, IsFiniteSet(B), A \cap B = {}
  PROVE  /\ IsFiniteSet(A \cup B)
         /\ Cardinality(A) \in Nat /\ Cardinality(B) \in Nat
         /\ Cardinality(A \cup B) = Cardinality(A) + Cardinality(B)
<1>1. /\ IsFiniteSet(A \cup B)
      /\ Cardinality(A \cup B) =
           Cardinality(A) + Cardinality(B) - Cardinality(A \cap B)
  BY FS_Union
<1>2. Cardinality(A) \in Nat /\ Cardinality(B) \in Nat
  BY FS_CardinalityType
<1>3. Cardinality(A \cap B) = 0
  BY FS_EmptySet
<1> QED BY <1>1, <1>2, <1>3

\* Free units and a block beside them.
LEMMA CountBlock ==
  ASSUME NEW F, F \subseteq Units, NEW b \in Units, NEW u \in 1 .. PAGE_UNITS,
         b .. b + u - 1 \subseteq Units, F \cap (b .. b + u - 1) = {}
  PROVE  /\ F \cup (b .. b + u - 1) \subseteq Units
         /\ Cardinality(F \cup (b .. b + u - 1)) = Cardinality(F) + u
         /\ Cardinality(F) \in Nat
<1>1. /\ IsFiniteSet(b .. b + u - 1) /\ Cardinality(b .. b + u - 1) = u
  <2>1. b \in Int /\ b + u - 1 \in Int /\ b <= b + u - 1 /\ (b + u - 1) - b + 1 = u
    BY PageNat DEF Units
  <2> QED BY <2>1, FS_Interval
<1>2. IsFiniteSet(F)
  BY UnitsFinite
<1>3. /\ Cardinality(F) \in Nat
      /\ Cardinality(F \cup (b .. b + u - 1)) = Cardinality(F) + Cardinality(b .. b + u - 1)
  BY <1>1, <1>2, DisjointUnion
<1> QED BY <1>1, <1>3

\* The units of a block that is handed out are free no longer.
LEMMA FreeMinus ==
  ASSUME NEW bs, NEW b
  PROVE  FreeUnits(bs \cup {b}) = FreeUnits(bs) \ Span(b)
BY DEF FreeUnits

\* The units of a block that is freed are free, and were not.
LEMMA FreePlus ==
  ASSUME NEW bs, NEW b \in bs, Span(b) \subseteq Units,
         \A c \in bs : c # b => Span(b) \cap Span(c) = {}
  PROVE  /\ FreeUnits(bs \ {b}) = FreeUnits(bs) \cup Span(b)
         /\ FreeUnits(bs) \cap Span(b) = {}
<1>1. \A i \in Units : i \in FreeUnits(bs \ {b}) <=> i \in FreeUnits(bs) \/ i \in Span(b)
  BY DEF FreeUnits
<1>2. FreeUnits(bs \ {b}) \subseteq Units /\ FreeUnits(bs) \subseteq Units
  BY DEF FreeUnits
<1>3. FreeUnits(bs) \cap Span(b) = {}
  BY DEF FreeUnits
<1> QED BY <1>1, <1>2, <1>3

\* First fit at an entry in front of which nothing fits: its aligned address is
\* the first that fits if the run has room, and nothing up to the successor
\* fits if it has not.
LEMMA Fits ==
  ASSUME NEW F, F \subseteq Units, NEW c, NEW k \in 1 .. PAGE_UNITS,
         NEW n \in 1 .. PAGE_UNITS, Run(F, c, k, n),
         NEW u \in 1 .. PAGE_UNITS, NEW g \in Nat, NEW d, d = Delta(c, g),
         \A x \in Places(F, u, g) : x >= c
  PROVE  /\ d \in Nat
         /\ k >= u + d => /\ c + d \in Places(F, u, g)
                          /\ \A x \in Places(F, u, g) : c + d <= x
         /\ ~ (k >= u + d) => \A x \in Places(F, u, g) : x >= n
<1>1. c \in Units /\ c + k <= PAGE_UNITS /\ c + k <= n
  BY RunBounds
<1>2. c \in Nat
  BY <1>1, PageNat DEF Units
<1>3. /\ d \in Nat /\ IsAligned(c + d, g)
      /\ \A y \in Nat : y >= c /\ IsAligned(y, g) => y >= c + d
  BY <1>2, AlignUp
<1>4. ASSUME NEW x \in Places(F, u, g)
      PROVE  /\ x \in Nat /\ x >= c + d /\ x \in F /\ x + u - 1 \in F
             /\ \A i \in x .. x + u - 1 : i \in F
  <2>1. x \in Units /\ IsAligned(x, g) /\ \A i \in x .. x + u - 1 : i \in F
    BY DEF Places
  <2>2. x \in Nat /\ x \in x .. x + u - 1 /\ x + u - 1 \in x .. x + u - 1
    BY <2>1, PageNat DEF Units
  <2> QED BY <1>3, <2>1, <2>2
<1>5. ASSUME k >= u + d
      PROVE  c + d \in Places(F, u, g) /\ \A x \in Places(F, u, g) : c + d <= x
  <2>1. \A i \in c + d .. (c + d) + u - 1 : i \in F
    BY <1>2, <1>3, <1>5, PageNat DEF Run
  <2>2. c + d \in Units
    BY <1>1, <1>2, <1>3, <1>5, PageNat DEF Units
  <2>3. c + d \in Places(F, u, g)
    BY <1>3, <2>1, <2>2 DEF Places
  <2>4. \A x \in Places(F, u, g) : c + d <= x
    BY <1>2, <1>3, <1>4
  <2> QED BY <2>3, <2>4
<1>6. ASSUME ~ (k >= u + d), NEW x \in Places(F, u, g)
      PROVE  x >= n
  <2>1. x \in Nat /\ x >= c + d /\ x \in F /\ \A i \in x .. x + u - 1 : i \in F
    BY <1>4
  <2>2. ~ (x < c + k)
    <3> SUFFICES ASSUME x < c + k PROVE FALSE
      OBVIOUS
    <3>1. c + k \in x .. x + u - 1
      BY <1>2, <1>3, <1>6, <2>1, PageNat
    <3> QED BY <2>1, <3>1 DEF Run
  <2>3. x >= c
    BY <1>2, <1>3, <2>1
  <2> QED BY <2>1, <2>2, <2>3, RunOrder
<1> QED BY <1>3, <1>5, <1>6

\* The first address that fits, by what it is.
LEMMA FirstFitIs ==
  ASSUME NEW F, NEW u, NEW g, NEW a \in Places(F, u, g),
         \A x \in Places(F, u, g) : a <= x
  PROVE  FirstFit(F, u, g) = a
<1>1. \E y \in Places(F, u, g) : \A x \in Places(F, u, g) : y <= x
  OBVIOUS
<1> DEFINE y == FirstFit(F, u, g)
<1>2. y \in Places(F, u, g) /\ \A x \in Places(F, u, g) : y <= x
  BY <1>1 DEF FirstFit
<1> HIDE DEF y
<1>3. a <= y /\ y <= a /\ a \in Int /\ y \in Int
  BY <1>2 DEF Places, Units
<1>4. y = a
  BY <1>3
<1> QED BY <1>4 DEF y
-----------------------------------------------------------------------------
(* What holds in every state. *)

\* The blocks and the free units.
LEMMA BlockFacts ==
  ASSUME IInv, NEW b \in blocks
  PROVE  /\ b = [off |-> b.off, units |-> b.units]
         /\ b.off \in Units /\ b.units \in 1 .. PAGE_UNITS
         /\ b.off + b.units <= PAGE_UNITS
         /\ Span(b) = b.off .. b.off + b.units - 1 /\ Span(b) \subseteq Units
         /\ FreeUnits(blocks \ {b}) = Free \cup (b.off .. b.off + b.units - 1)
         /\ Free \cap (b.off .. b.off + b.units - 1) = {}
         /\ Cardinality(FreeUnits(blocks \ {b})) = Cardinality(Free) + b.units
         /\ Cardinality(Free) + b.units = PAGE_UNITS <=> blocks = {b}
<1>1. /\ b = [off |-> b.off, units |-> b.units]
      /\ b.off \in Units /\ b.units \in 1 .. PAGE_UNITS
  BY DEF IInv, TypeOK
<1>2. Span(b) = b.off .. b.off + b.units - 1 /\ Span(b) \subseteq Units
  BY DEF IInv, Apart, Span
<1>3. b.off + b.units <= PAGE_UNITS
  <2>1. b.off + b.units - 1 \in b.off .. b.off + b.units - 1
    BY <1>1, PageNat DEF Units
  <2>2. b.off + b.units - 1 \in Units
    BY <1>2, <2>1
  <2> QED BY <1>1, <2>2, PageNat DEF Units
<1>4. \A c \in blocks : c # b => Span(b) \cap Span(c) = {}
  BY DEF IInv, Apart
<1>5. /\ FreeUnits(blocks \ {b}) = Free \cup Span(b) /\ Free \cap Span(b) = {}
  BY <1>2, <1>4, FreePlus DEF Free
<1>6. Free \subseteq Units
  BY DEF Free, FreeUnits
<1>7. Cardinality(FreeUnits(blocks \ {b})) = Cardinality(Free) + b.units
  <2>1. /\ FreeUnits(blocks \ {b}) = Free \cup (b.off .. b.off + b.units - 1)
        /\ Free \cap (b.off .. b.off + b.units - 1) = {}
        /\ b.off .. b.off + b.units - 1 \subseteq Units
    BY <1>2, <1>5
  <2>2. Cardinality(Free \cup (b.off .. b.off + b.units - 1)) = Cardinality(Free) + b.units
    BY <1>1, <1>6, <2>1, CountBlock
  <2> QED BY <2>1, <2>2
<1>8. blocks = {b} => Cardinality(Free) + b.units = PAGE_UNITS
  <2> SUFFICES ASSUME blocks = {b} PROVE Cardinality(Free) + b.units = PAGE_UNITS
    OBVIOUS
  <2>1. FreeUnits(blocks \ {b}) = Units
    BY DEF FreeUnits
  <2>2. Cardinality(Units) = PAGE_UNITS
    BY PageNat, FS_Interval DEF Units
  <2> QED BY <1>7, <2>1, <2>2
<1>9. Cardinality(Free) + b.units = PAGE_UNITS => blocks = {b}
  <2> SUFFICES ASSUME Cardinality(Free) + b.units = PAGE_UNITS, NEW c \in blocks, c # b
               PROVE  FALSE
    OBVIOUS
  <2>1. c.off \in Units /\ c.units \in 1 .. PAGE_UNITS /\ Span(c) \subseteq Units
    BY DEF IInv, TypeOK, Apart
  <2>2. c.off \in Span(c)
    BY <2>1, PageNat DEF Span, Units
  <2>3. c.off \notin FreeUnits(blocks \ {b})
    BY <2>2 DEF FreeUnits
  <2> DEFINE G == FreeUnits(blocks \ {b})
  <2>4. G \subseteq Units /\ c.off \in Units /\ c.off \notin G /\ Cardinality(G) = PAGE_UNITS
    BY <1>7, <2>1, <2>3 DEF FreeUnits
  <2> HIDE DEF G
  <2>5. IsFiniteSet(G)
    BY <2>4, UnitsFinite
  <2>6. G \cup {c.off} \subseteq Units /\ Cardinality(G \cup {c.off}) = PAGE_UNITS + 1
    BY <2>4, <2>5, FS_AddElement
  <2>7. Cardinality(G \cup {c.off}) \in 0 .. PAGE_UNITS
    BY <2>6, UnitsFinite
  <2> QED BY <2>6, <2>7, PageNat
<1> QED BY <1>1, <1>2, <1>3, <1>5, <1>7, <1>8, <1>9

\* The entry that slob_page_alloc stands at, and what it asks for.
LEMMA ScanFacts ==
  ASSUME IInv, pc = "scan"
  PROVE  /\ req.units \in 1 .. PAGE_UNITS /\ req.align \in Nat
         /\ \E r \in Requests : req.units = r[1] /\ req.align = r[2]
         /\ cur \in Free /\ cur - 1 \notin Free /\ cur \in Units
         /\ prev \in Int
         /\ \/ prev = NULL /\ cur = freelist
            \/ prev \in Free /\ prev - 1 \notin Free /\ slob_next(mem, prev) = cur
         /\ \A x \in Places(Free, req.units, req.align) : x >= cur
         /\ Free \subseteq Units /\ mem \in Memory
         /\ Listed(mem, Free) /\ First(freelist, Free)
<1>1. PICK r \in Requests : req.units = r[1] /\ req.align = r[2]
  BY DEF IInv, Scanning
<1>2. req.units \in 1 .. PAGE_UNITS /\ req.align \in Nat
  BY <1>1, RequestsAssumption, PageNat
<1>3. Free \subseteq Units /\ mem \in Memory
  BY DEF IInv, TypeOK, Memory, Free, FreeUnits
<1>4. prev \in Int
  BY PageNat DEF IInv, TypeOK, NULL
<1>5. /\ cur \in Free /\ cur - 1 \notin Free
      /\ \/ prev = NULL /\ cur = freelist
         \/ prev \in Free /\ prev - 1 \notin Free /\ slob_next(mem, prev) = cur
      /\ \A x \in Places(Free, req.units, req.align) : x >= cur
      /\ Listed(mem, Free) /\ First(freelist, Free)
  BY DEF IInv, Scanning, IsHead
<1> QED BY <1>1, <1>2, <1>3, <1>4, <1>5
-----------------------------------------------------------------------------
(* The steps. *)

\* The invariant holds before the first page.
LEMMA InitIInv == Init => IInv
<1> SUFFICES ASSUME Init PROVE IInv
  OBVIOUS
<1>1. /\ mem = [i \in Units |-> JUNK] /\ freelist = 0 /\ units = 0 /\ slobfree = FALSE
      /\ blocks = {} /\ pc = "nopage" /\ prev = NULL /\ cur = NULL /\ req = NoReq
      /\ ret = NULL
  BY DEF Init
<1>2. TypeOK
  <2>1. mem \in [Units -> -PAGE_UNITS .. PAGE_UNITS]
    BY <1>1, PageNat DEF JUNK
  <2>2. req \in [off : NULL .. PAGE_UNITS, units : 0 .. PAGE_UNITS, align : 0 .. PAGE_UNITS]
    BY <1>1, PageNat DEF NoReq, NULL
  <2>3. NULL \in NULL .. PAGE_UNITS /\ 0 \in 0 .. PAGE_UNITS
    BY PageNat DEF NULL
  <2> QED BY <1>1, <2>1, <2>2, <2>3 DEF TypeOK
<1> QED BY <1>1, <1>2 DEF IInv, UnitsExact, Apart

\* A new page is one free block.
LEMMA NewPageIInv ==
  ASSUME IInv, NEW r \in Requests, NewPage(r)
  PROVE  IInv'
<1>1. /\ pc = "nopage" /\ units' = PAGE_UNITS /\ freelist' = 0
      /\ mem' = set_slob([i \in Units |-> JUNK], 0, PAGE_UNITS, PAGE_UNITS)
      /\ slobfree' = TRUE /\ pc' = "scan" /\ prev' = NULL /\ cur' = 0
      /\ req' = [off |-> NULL, units |-> r[1], align |-> r[2]]
      /\ blocks' = blocks /\ ret' = ret
  BY DEF NewPage, StartScan
<1>2. blocks = {} /\ blocks' = {}
  BY <1>1 DEF IInv
<1>3. Free' = Units
  BY <1>2 DEF Free, FreeUnits
<1>4. 0 \in Units /\ 0 + PAGE_UNITS <= PAGE_UNITS /\ PAGE_UNITS \in 1 .. PAGE_UNITS
      /\ Units = 0 .. 0 + PAGE_UNITS - 1 /\ -1 \notin Units
  BY PageNat DEF Units
<1>5. [i \in Units |-> JUNK] \in Memory
  BY PageNat DEF Memory, JUNK
<1>6. mem' \in Memory /\ Listed(mem', Units) /\ First(0, Units)
  BY <1>1, <1>4, <1>5, FirstListed
<1>7. Cardinality(Units) = PAGE_UNITS
  BY PageNat, FS_Interval DEF Units
<1>8. TypeOK'
  <2>1. r[1] \in 1 .. PAGE_UNITS /\ r[2] \in 0 .. PAGE_UNITS
    BY RequestsAssumption
  <2>2. req' \in [off : NULL .. PAGE_UNITS, units : 0 .. PAGE_UNITS, align : 0 .. PAGE_UNITS]
    BY <1>1, <2>1, PageNat DEF NULL
  <2>3. ret' \in NULL .. PAGE_UNITS
    BY <1>1 DEF IInv, TypeOK
  <2> QED BY <1>1, <1>2, <1>6, <2>2, <2>3, PageNat DEF TypeOK, Memory, NULL
<1>9. UnitsExact'
  <2>1. InTransit' = 0 /\ units' = Cardinality(Free') + 0
    BY <1>1, <1>3, <1>7, PageNat DEF InTransit
  <2>2. slobfree' = (Free' # {})
    BY <1>1, <1>3, <1>4
  <2> QED BY <2>1, <2>2 DEF UnitsExact
<1>10. Apart'
  BY <1>2 DEF Apart
<1>11. Scanning'
  <2>1. \A x \in Units : x >= 0
    BY DEF Units
  <2>2. \A x \in Places(Free', req'.units, req'.align) : x >= 0
    BY <2>1 DEF Places
  <2>3. IsHead(0)'
    BY <1>3, <1>4 DEF IsHead
  <2>4. req'.units = r[1] /\ req'.align = r[2]
    BY <1>1
  <2> QED BY <1>1, <2>2, <2>3, <2>4 DEF Scanning, IsHead
<1> QED BY <1>1, <1>3, <1>6, <1>8, <1>9, <1>10, <1>11 DEF IInv

\* slob_alloc tries the page: the scan starts at the first entry.
LEMMA AllocStartIInv ==
  ASSUME IInv, NEW r \in Requests, AllocStart(r)
  PROVE  IInv'
<1>1. /\ pc = "idle" /\ slobfree /\ pc' = "scan" /\ prev' = NULL /\ cur' = freelist
      /\ req' = [off |-> NULL, units |-> r[1], align |-> r[2]]
      /\ UNCHANGED <<mem, freelist, units, slobfree, blocks, ret>>
  BY DEF AllocStart, StartScan
<1>2. Free' = Free /\ Free # {} /\ Free \subseteq Units
  BY <1>1 DEF Free, FreeUnits, IInv, UnitsExact
<1>3. /\ Listed(mem, Free) /\ First(freelist, Free)
      /\ freelist \in Free /\ \A i \in Free : freelist <= i
  BY <1>1, <1>2 DEF IInv, First
<1>4. freelist \in Units /\ freelist - 1 \notin Free
  BY <1>2, <1>3 DEF Units
<1>5. TypeOK'
  <2>1. r[1] \in 1 .. PAGE_UNITS /\ r[2] \in 0 .. PAGE_UNITS
    BY RequestsAssumption
  <2>2. req' \in [off : NULL .. PAGE_UNITS, units : 0 .. PAGE_UNITS, align : 0 .. PAGE_UNITS]
    BY <1>1, <2>1, PageNat DEF NULL
  <2>3. cur' \in NULL .. PAGE_UNITS /\ prev' \in NULL .. PAGE_UNITS
    BY <1>1, <1>4, PageNat DEF NULL, Units
  <2> QED BY <1>1, <2>2, <2>3 DEF IInv, TypeOK
<1>6. UnitsExact' /\ Apart'
  BY <1>1, <1>2 DEF IInv, UnitsExact, InTransit, Apart
<1>7. Scanning'
  <2>1. \A x \in Places(Free', req'.units, req'.align) : x >= cur'
    <3> SUFFICES ASSUME NEW x \in Places(Free, req'.units, req'.align) PROVE x >= freelist
      BY <1>1, <1>2
    <3>1. x \in Units /\ x .. x + req'.units - 1 \subseteq Free
      BY DEF Places
    <3>2. x \in x .. x + req'.units - 1
      BY <1>1, <3>1, RequestsAssumption, PageNat DEF Units
    <3>3. freelist <= x
      BY <1>3, <3>1, <3>2
    <3> QED BY <1>4, <3>1, <3>3 DEF Units
  <2>2. req'.units = r[1] /\ req'.align = r[2]
    BY <1>1
  <2> QED BY <1>1, <1>2, <1>3, <1>4, <2>1, <2>2 DEF Scanning, IsHead
<1> QED BY <1>1, <1>2, <1>3, <1>5, <1>6, <1>7 DEF IInv

\* The scan goes on to the next entry.
LEMMA AllocAdvanceIInv ==
  ASSUME IInv, AllocAdvance
  PROVE  IInv'
<1>1. /\ pc = "scan" /\ pc' = "scan" /\ prev' = cur /\ cur' = slob_next(mem, cur)
      /\ ~ RoomEnough(mem, cur, req.units, req.align) /\ ~ slob_last(mem, cur)
      /\ UNCHANGED <<mem, freelist, units, slobfree, blocks, req, ret>>
  BY DEF AllocAdvance
<1>2. Free' = Free /\ Free \subseteq Units
  BY <1>1 DEF Free, FreeUnits
<1>3. /\ cur \in Free /\ cur - 1 \notin Free /\ cur \in Units
      /\ req.units \in 1 .. PAGE_UNITS /\ req.align \in Nat
      /\ \A x \in Places(Free, req.units, req.align) : x >= cur
      /\ \E r \in Requests : req.units = r[1] /\ req.align = r[2]
      /\ Listed(mem, Free)
  BY <1>1, ScanFacts
<1>4. PICK k \in 1 .. PAGE_UNITS, n \in 1 .. PAGE_UNITS :
        Run(Free, cur, k, n) /\ Coded(mem, cur, k, n)
  BY <1>3 DEF Listed, ListedAt
<1>5. slob_units(mem, cur) = k /\ slob_next(mem, cur) = n
  BY <1>3, <1>4, CodedRead
<1>6. n # PAGE_UNITS
  BY <1>1, <1>5, PageNat DEF slob_last
<1>7. n \in Free /\ n - 1 \notin Free
  <2>1. n \in Free
    BY <1>4, <1>6 DEF Run
  <2>2. n > cur + k
    BY <1>2, <1>4, <1>6, RunBounds, PageNat
  <2>3. n - 1 \in cur + k .. n - 1
    BY <1>3, <2>2, PageNat DEF Units
  <2> QED BY <1>4, <2>1, <2>3 DEF Run
<1>8. \A x \in Places(Free, req.units, req.align) : x >= n
  BY <1>1, <1>2, <1>3, <1>4, <1>5, Fits DEF RoomEnough
<1>9. TypeOK'
  <2>1. cur' \in NULL .. PAGE_UNITS /\ prev' \in NULL .. PAGE_UNITS
    BY <1>1, <1>3, <1>5, PageNat DEF NULL, Units
  <2> QED BY <1>1, <2>1 DEF IInv, TypeOK
<1>10. UnitsExact' /\ Apart'
  BY <1>1, <1>2 DEF IInv, UnitsExact, InTransit, Apart
<1>11. Scanning'
  BY <1>1, <1>2, <1>3, <1>5, <1>7, <1>8 DEF Scanning, IsHead
<1> QED BY <1>1, <1>2, <1>9, <1>10, <1>11 DEF IInv

\* Nothing fits.
LEMMA AllocFailIInv ==
  ASSUME IInv, AllocFail
  PROVE  IInv'
<1>1. /\ pc = "scan" /\ pc' = "idle" /\ prev' = NULL /\ cur' = NULL /\ req' = NoReq
      /\ ret' = NULL /\ UNCHANGED <<mem, freelist, units, slobfree, blocks>>
  BY DEF AllocFail, EndOp
<1>2. Free' = Free
  BY <1>1 DEF Free, FreeUnits
<1>3. TypeOK'
  BY <1>1, PageNat DEF IInv, TypeOK, NoReq, NULL
<1>4. UnitsExact' /\ Apart'
  BY <1>1, <1>2 DEF IInv, UnitsExact, InTransit, Apart
<1> QED BY <1>1, <1>2, <1>3, <1>4 DEF IInv

\* The effect of slob_page_alloc's success: the block lies at the first
\* address that fits, and the list is exact without it.
LEMMA TakeFacts ==
  ASSUME IInv, AllocTake, NEW u, u = req.units, NEW g, g = req.align
  PROVE  /\ pc = "scan" /\ ret' \in Units
         /\ ret' \in Places(Free, u, g) /\ \A x \in Places(Free, u, g) : ret' <= x
         /\ blocks' = blocks \cup {[off |-> ret', units |-> u]}
         /\ ret' .. ret' + u - 1 \subseteq Free
         /\ mem' \in Memory /\ freelist' \in 0 .. PAGE_UNITS
         /\ Listed(mem', Free \ (ret' .. ret' + u - 1))
         /\ First(freelist', Free \ (ret' .. ret' + u - 1))
         /\ units' = units - u /\ slobfree' = (slobfree /\ units' # 0)
         /\ pc' = "idle" /\ prev' = NULL /\ cur' = NULL /\ req' = NoReq
<1>1. PICK x : x = Carve(mem, freelist, prev, cur, u, g)
  OBVIOUS
<1>2. PICK b : b = [off |-> x.off, units |-> u]
  OBVIOUS
<1>3. /\ pc = "scan" /\ RoomEnough(mem, cur, u, g)
      /\ mem' = OwnerWrites(x.mem, b) /\ freelist' = x.freelist /\ ret' = x.off
      /\ blocks' = blocks \cup {b} /\ units' = units - u
      /\ slobfree' = (slobfree /\ units' # 0)
      /\ pc' = "idle" /\ prev' = NULL /\ cur' = NULL /\ req' = NoReq
  BY <1>1, <1>2 DEF AllocTake, EndOp
<1>4. /\ u \in 1 .. PAGE_UNITS /\ g \in Nat
      /\ cur \in Free /\ cur - 1 \notin Free /\ cur \in Units /\ prev \in Int
      /\ \/ prev = NULL /\ cur = freelist
         \/ prev \in Free /\ prev - 1 \notin Free /\ slob_next(mem, prev) = cur
      /\ \A y \in Places(Free, u, g) : y >= cur
      /\ Free \subseteq Units /\ mem \in Memory
      /\ Listed(mem, Free) /\ First(freelist, Free)
  BY <1>3, ScanFacts
<1>5. PICK k \in 1 .. PAGE_UNITS, n \in 1 .. PAGE_UNITS :
        Run(Free, cur, k, n) /\ Coded(mem, cur, k, n)
  BY <1>4 DEF Listed, ListedAt
<1>6. slob_units(mem, cur) = k
  BY <1>4, <1>5, CodedRead
<1>7. PICK d : d = Delta(cur, g)
  OBVIOUS
<1>8. PICK a : a = cur + d
  OBVIOUS
<1>9. d \in Nat /\ a \in Places(Free, u, g) /\ \A y \in Places(Free, u, g) : a <= y
  BY <1>3, <1>4, <1>5, <1>6, <1>7, <1>8, Fits DEF RoomEnough
<1>10. TakeAt(Free, mem, freelist, prev, cur, u, g, d, a, x)
  BY <1>1, <1>3, <1>4, <1>7, <1>8, <1>9 DEF TakeAt
<1>11. ASSUME NEW m4, \A i \in Units : i \notin a .. a + u - 1 => m4[i] = x.mem[i]
       PROVE  TakeDone(Free, u, a, x, m4)
  BY <1>10, <1>11, TakeListed
<1>12. x.off = a /\ x.mem \in Memory
  BY <1>11 DEF TakeDone
<1>13. a \in Units /\ Span(b) = a .. a + u - 1
  BY <1>2, <1>9, <1>12 DEF Places, Span
<1>14. mem' = [i \in Units |-> IF i \in Span(b) THEN JUNK ELSE x.mem[i]]
  BY <1>3 DEF OwnerWrites
<1>15. mem' \in Memory /\ \A i \in Units : i \notin a .. a + u - 1 => mem'[i] = x.mem[i]
  BY <1>12, <1>13, <1>14, PageNat DEF JUNK, Memory
<1>16. TakeDone(Free, u, a, x, mem')
  <2>1. PICK m4 : m4 = mem'
    OBVIOUS
  <2> QED BY <1>11, <1>15, <2>1
<1>17. /\ x.freelist \in 0 .. PAGE_UNITS /\ a .. a + u - 1 \subseteq Free
       /\ Listed(mem', Free \ (a .. a + u - 1)) /\ First(x.freelist, Free \ (a .. a + u - 1))
  BY <1>16 DEF TakeDone
<1>18. ret' = a /\ b = [off |-> a, units |-> u]
  BY <1>2, <1>3, <1>12
<1> QED BY <1>3, <1>9, <1>13, <1>15, <1>17, <1>18

\* A block is handed out.
LEMMA AllocTakeIInv ==
  ASSUME IInv, AllocTake
  PROVE  IInv'
<1>1. PICK u, g : u = req.units /\ g = req.align
  OBVIOUS
<1>2. PICK a : a = ret'
  OBVIOUS
<1>3. PICK b : b = [off |-> a, units |-> u]
  OBVIOUS
<1>4. /\ pc = "scan" /\ a \in Units /\ blocks' = blocks \cup {b}
      /\ a .. a + u - 1 \subseteq Free
      /\ mem' \in Memory /\ freelist' \in 0 .. PAGE_UNITS
      /\ Listed(mem', Free \ (a .. a + u - 1)) /\ First(freelist', Free \ (a .. a + u - 1))
      /\ units' = units - u /\ slobfree' = (slobfree /\ units' # 0)
      /\ pc' = "idle" /\ prev' = NULL /\ cur' = NULL /\ req' = NoReq
  BY <1>1, <1>2, <1>3, TakeFacts
<1>5. u \in 1 .. PAGE_UNITS /\ Free \subseteq Units
  BY <1>1, <1>4, ScanFacts
<1>6. b.off = a /\ b.units = u /\ Span(b) = a .. a + u - 1
  BY <1>3 DEF Span
<1>7. Free' = Free \ (a .. a + u - 1)
  BY <1>4, <1>6, FreeMinus DEF Free
<1>8. Cardinality(Free) = Cardinality(Free') + u /\ Cardinality(Free') \in Nat
  <2>1. PICK F, G : F = Free /\ G = Free'
    OBVIOUS
  <2>2. /\ G \subseteq Units /\ G \cap (a .. a + u - 1) = {}
        /\ a .. a + u - 1 \subseteq Units /\ F = G \cup (a .. a + u - 1)
    BY <1>4, <1>5, <1>7, <2>1
  <2>3. Cardinality(F) = Cardinality(G) + u /\ Cardinality(G) \in Nat
    BY <1>4, <1>5, <2>2, CountBlock
  <2> QED BY <2>1, <2>3
<1>9. units = Cardinality(Free) /\ slobfree = (Free # {})
  <2>1. units = Cardinality(Free) + 0 /\ slobfree = (Free # {})
    BY <1>4 DEF IInv, UnitsExact, InTransit
  <2> QED BY <1>5, <1>8, <2>1, PageNat
<1>10. units' = Cardinality(Free')
  BY <1>4, <1>5, <1>8, <1>9, PageNat
<1>11. UnitsExact'
  <2>1. Free' \subseteq Units /\ (Cardinality(Free') = 0 <=> Free' = {})
    BY <1>5, <1>7, UnitsFinite
  <2>2. Free # {}
    BY <1>4, ScanFacts
  <2>3. slobfree' = (Free' # {})
    BY <1>4, <1>9, <1>10, <2>1, <2>2
  <2>4. InTransit' = 0
    BY <1>4 DEF InTransit
  <2>5. units' = Cardinality(Free') + 0
    BY <1>8, <1>10
  <2> QED BY <2>3, <2>4, <2>5 DEF UnitsExact
<1>12. TypeOK'
  <2>1. units' \in 0 .. PAGE_UNITS
    <3>1. units \in 0 .. PAGE_UNITS
      BY DEF IInv, TypeOK
    <3> QED BY <1>5, <1>8, <1>9, <1>10, <3>1, PageNat
  <2>2. blocks' \subseteq [off : Units, units : 1 .. PAGE_UNITS]
    <3>1. b \in [off : Units, units : 1 .. PAGE_UNITS]
      BY <1>3, <1>4, <1>5
    <3>2. blocks \subseteq [off : Units, units : 1 .. PAGE_UNITS]
      BY DEF IInv, TypeOK
    <3> QED BY <1>4, <3>1, <3>2
  <2>3. req' \in [off : NULL .. PAGE_UNITS, units : 0 .. PAGE_UNITS, align : 0 .. PAGE_UNITS]
    BY <1>4, PageNat DEF NoReq, NULL
  <2>4. NULL \in NULL .. PAGE_UNITS /\ ret' \in NULL .. PAGE_UNITS
    BY <1>2, <1>4, PageNat DEF NULL, Units
  <2>5. slobfree' \in BOOLEAN
    BY <1>4
  <2> QED BY <1>4, <2>1, <2>2, <2>3, <2>4, <2>5 DEF TypeOK, Memory
<1>13. Apart'
  <2>1. \A c \in blocks : Span(c) \cap Free = {}
    BY DEF Free, FreeUnits
  <2>2. \A c \in blocks : Span(c) \cap Span(b) = {}
    BY <1>4, <1>6, <2>1
  <2>3. /\ \A c \in blocks : Span(c) \subseteq Units
        /\ \A c, e \in blocks : c # e => Span(c) \cap Span(e) = {}
    BY DEF IInv, Apart
  <2>4. Span(b) \subseteq Units
    BY <1>4, <1>5, <1>6
  <2>5. \A c, e \in blocks \cup {b} : c # e => Span(c) \cap Span(e) = {}
    BY <2>2, <2>3
  <2> QED BY <1>4, <2>3, <2>4, <2>5 DEF Apart
<1> QED BY <1>4, <1>7, <1>11, <1>12, <1>13 DEF IInv

\* What slob_free finds when it starts, and which units are free without the
\* block.
LEMMA FreeFacts ==
  ASSUME IInv, pc = "idle", NEW b \in blocks
  PROVE  /\ mem \in Memory /\ Free \subseteq Units /\ Listed(mem, Free)
         /\ First(freelist, Free) /\ slobfree = (Free # {})
         /\ units = Cardinality(Free) /\ units \in 0 .. PAGE_UNITS
         /\ units + b.units = PAGE_UNITS <=> blocks = {b}
<1>1. mem \in Memory /\ Free \subseteq Units /\ Listed(mem, Free) /\ First(freelist, Free)
  BY DEF IInv, TypeOK, Memory, Free, FreeUnits
<1>2. Cardinality(Free) \in 0 .. PAGE_UNITS
  BY <1>1, UnitsFinite
<1>3. units = Cardinality(Free) /\ slobfree = (Free # {})
  <2>1. units = Cardinality(Free) + 0 /\ slobfree = (Free # {})
    BY DEF IInv, UnitsExact, InTransit
  <2> QED BY <1>2, <2>1
<1>4. Cardinality(Free) + b.units = PAGE_UNITS <=> blocks = {b}
  BY BlockFacts
<1> QED BY <1>1, <1>2, <1>3, <1>4

\* Without b the blocks are still apart.
LEMMA ApartWithout ==
  ASSUME IInv, NEW b, blocks' = blocks \ {b}
  PROVE  Apart' /\ blocks' \subseteq [off : Units, units : 1 .. PAGE_UNITS]
<1>1. blocks \subseteq [off : Units, units : 1 .. PAGE_UNITS]
  BY DEF IInv, TypeOK
<1>2. /\ \A c \in blocks : Span(c) \subseteq Units
      /\ \A c, e \in blocks : c # e => Span(c) \cap Span(e) = {}
  BY DEF IInv, Apart
<1> QED BY <1>1, <1>2 DEF Apart

\* The last block is freed and the page given back.
LEMMA FreeReleaseIInv ==
  ASSUME IInv, NEW b \in blocks, FreeRelease(b)
  PROVE  IInv' /\ blocks = {b}
<1>1. /\ pc = "idle" /\ units + b.units = PAGE_UNITS /\ slobfree' = FALSE
      /\ blocks' = blocks \ {b} /\ pc' = "nopage"
      /\ UNCHANGED <<mem, freelist, units, prev, cur, req, ret>>
  BY DEF FreeRelease
<1>2. blocks = {b}
  BY <1>1, FreeFacts
<1>3. blocks' = {}
  BY <1>1, <1>2
<1>4. TypeOK'
  BY <1>1, <1>3 DEF IInv, TypeOK
<1> QED BY <1>1, <1>2, <1>3, <1>4 DEF IInv, UnitsExact, Apart

\* A block of a full page is freed.
LEMMA FreeFirstIInv ==
  ASSUME IInv, NEW b \in blocks, FreeFirst(b)
  PROVE  IInv'
<1>1. /\ pc = "idle" /\ ~ slobfree /\ units' = b.units
      /\ freelist' = b.off /\ mem' = set_slob(mem, b.off, b.units, PAGE_UNITS)
      /\ slobfree' = TRUE /\ blocks' = blocks \ {b}
      /\ UNCHANGED <<pc, prev, cur, req, ret>>
  BY DEF FreeFirst
<1>2. Free = {} /\ units = Cardinality(Free) /\ units \in 0 .. PAGE_UNITS /\ mem \in Memory
  BY <1>1, FreeFacts
<1>3. /\ b.off \in Units /\ b.units \in 1 .. PAGE_UNITS /\ b.off + b.units <= PAGE_UNITS
      /\ Free' = Free \cup (b.off .. b.off + b.units - 1)
      /\ Cardinality(Free') = Cardinality(Free) + b.units
  BY <1>1, BlockFacts DEF Free
<1>4. Free' = b.off .. b.off + b.units - 1
  BY <1>2, <1>3
<1>5. mem' \in Memory /\ Listed(mem', Free') /\ First(freelist', Free')
  BY <1>1, <1>2, <1>3, <1>4, FirstListed
<1>6. UnitsExact'
  <2>1. Cardinality(Free) = 0
    BY <1>2, FS_EmptySet
  <2>2. units' = Cardinality(Free') + 0
    BY <1>1, <1>3, <2>1, PageNat
  <2>3. b.off \in Free'
    BY <1>3, <1>4, PageNat DEF Units
  <2>4. slobfree' = (Free' # {})
    BY <1>1, <2>3
  <2>5. InTransit' = 0
    BY <1>1 DEF InTransit
  <2> QED BY <2>2, <2>4, <2>5 DEF UnitsExact
<1>7. Apart' /\ blocks' \subseteq [off : Units, units : 1 .. PAGE_UNITS]
  BY <1>1, ApartWithout
<1>8. TypeOK'
  <2>1. units' \in 0 .. PAGE_UNITS /\ freelist' \in 0 .. PAGE_UNITS
    BY <1>1, <1>3, PageNat DEF Units
  <2> QED BY <1>1, <1>5, <1>7, <2>1 DEF IInv, TypeOK, Memory
<1> QED BY <1>1, <1>5, <1>6, <1>7, <1>8 DEF IInv

\* sp->units stays exact, and in the page, when b's units are added.
LEMMA UnitsPlus ==
  ASSUME IInv, NEW b \in blocks, pc = "idle", units + b.units # PAGE_UNITS
  PROVE  /\ units + b.units \in 0 .. PAGE_UNITS
         /\ units + b.units = Cardinality(Free) + b.units
         /\ Cardinality(FreeUnits(blocks \ {b})) = units + b.units
<1>1. units = Cardinality(Free) /\ units \in 0 .. PAGE_UNITS
  BY FreeFacts
<1>2. /\ b.units \in 1 .. PAGE_UNITS
      /\ Cardinality(FreeUnits(blocks \ {b})) = Cardinality(Free) + b.units
  BY BlockFacts
<1>3. FreeUnits(blocks \ {b}) \subseteq Units
  BY DEF FreeUnits
<1>4. Cardinality(FreeUnits(blocks \ {b})) \in 0 .. PAGE_UNITS
  BY <1>3, UnitsFinite
<1> QED BY <1>1, <1>2, <1>4

\* A block in front of the list is freed.
LEMMA FreeFrontIInv ==
  ASSUME IInv, NEW b \in blocks, FreeFront(b)
  PROVE  IInv'
<1>1. /\ pc = "idle" /\ units + b.units # PAGE_UNITS /\ slobfree /\ b.off < freelist
      /\ units' = units + b.units /\ freelist' = b.off
      /\ mem' = set_slob(mem, b.off,
                  b.units + (IF b.off + b.units = freelist THEN slob_units(mem, freelist) ELSE 0),
                  IF b.off + b.units = freelist THEN slob_next(mem, freelist) ELSE freelist)
      /\ blocks' = blocks \ {b}
      /\ UNCHANGED <<slobfree, pc, prev, cur, req, ret>>
  BY DEF FreeFront
<1>2. /\ Free # {} /\ Free \subseteq Units /\ mem \in Memory /\ Listed(mem, Free)
      /\ First(freelist, Free)
  BY <1>1, FreeFacts
<1>3. /\ b.off \in Units /\ b.units \in 1 .. PAGE_UNITS /\ b.off + b.units <= PAGE_UNITS
      /\ Free' = Free \cup (b.off .. b.off + b.units - 1)
      /\ (b.off .. b.off + b.units - 1) \cap Free = {}
  BY <1>1, BlockFacts DEF Free
<1>4. mem' \in Memory /\ Listed(mem', Free') /\ First(freelist', Free')
  <2>1. PICK F, G, m, m2, fl, o, u :
          /\ F = Free /\ G = Free' /\ m = mem /\ m2 = mem' /\ fl = freelist
          /\ o = b.off /\ u = b.units
    OBVIOUS
  <2>2. /\ F \subseteq Units /\ F # {} /\ m \in Memory /\ Listed(m, F) /\ First(fl, F)
        /\ o \in Units /\ u \in 1 .. PAGE_UNITS /\ o < fl
        /\ (o .. o + u - 1) \cap F = {} /\ o + u <= PAGE_UNITS
        /\ G = F \cup (o .. o + u - 1)
    BY <1>1, <1>2, <1>3, <2>1
  <2>3. m2 = set_slob(m, o, u + (IF o + u = fl THEN slob_units(m, fl) ELSE 0),
                      IF o + u = fl THEN slob_next(m, fl) ELSE fl)
    BY <1>1, <2>1
  <2>4. m2 \in Memory /\ Listed(m2, G) /\ First(o, G)
    BY <2>2, <2>3, FrontListed
  <2> QED BY <1>1, <2>1, <2>4
<1>5. units' \in 0 .. PAGE_UNITS /\ Cardinality(Free') = units'
  BY <1>1, UnitsPlus DEF Free
<1>6. UnitsExact'
  <2>1. Free' # {}
    BY <1>2, <1>3
  <2>2. slobfree' = (Free' # {})
    <3>1. slobfree' = TRUE
      BY <1>1 DEF IInv, TypeOK
    <3> QED BY <2>1, <3>1
  <2>3. InTransit' = 0
    BY <1>1 DEF InTransit
  <2>4. PICK n : n = Cardinality(Free')
    OBVIOUS
  <2>5. n \in Nat /\ units' = n
    BY <1>5, <2>4, PageNat
  <2>6. units' = Cardinality(Free') + 0
    BY <2>4, <2>5
  <2> QED BY <2>2, <2>3, <2>6 DEF UnitsExact
<1>7. Apart' /\ blocks' \subseteq [off : Units, units : 1 .. PAGE_UNITS]
  BY <1>1, ApartWithout
<1>8. TypeOK'
  <2>1. freelist' \in 0 .. PAGE_UNITS
    BY <1>1, <1>3, PageNat DEF Units
  <2> QED BY <1>1, <1>4, <1>5, <1>7, <2>1 DEF IInv, TypeOK, Memory
<1> QED BY <1>1, <1>4, <1>6, <1>7, <1>8 DEF IInv

\* An entry's successor is the page's end or an entry, behind it.
LEMMA NextEntry ==
  ASSUME NEW F, F \subseteq Units, NEW m, Listed(m, F), NEW s \in F, s - 1 \notin F,
         NEW n, n = slob_next(m, s)
  PROVE  /\ n \in 1 .. PAGE_UNITS /\ n > s
         /\ n # PAGE_UNITS => n \in F /\ n - 1 \notin F
<1>1. PICK k \in 1 .. PAGE_UNITS, j \in 1 .. PAGE_UNITS : Run(F, s, k, j) /\ Coded(m, s, k, j)
  BY DEF Listed, ListedAt
<1>2. s \in Units /\ s + k <= j /\ (j < PAGE_UNITS => j > s + k)
  BY <1>1, RunBounds
<1>3. n = j
  BY <1>1, <1>2, CodedRead
<1>4. j # PAGE_UNITS => j \in F /\ j - 1 \notin F
  <2> SUFFICES ASSUME j # PAGE_UNITS PROVE j \in F /\ j - 1 \notin F
    OBVIOUS
  <2>1. j \in F
    BY <1>1 DEF Run
  <2>2. j - 1 \in s + k .. j - 1
    BY <1>2, PageNat DEF Units
  <2> QED BY <1>1, <2>1, <2>2 DEF Run
<1> QED BY <1>2, <1>3, <1>4, PageNat DEF Units

\* The walk of slob_free starts.
LEMMA FreeStartIInv ==
  ASSUME IInv, NEW b \in blocks, FreeStart(b)
  PROVE  IInv'
<1>1. /\ pc = "idle" /\ units + b.units # PAGE_UNITS /\ slobfree /\ b.off >= freelist
      /\ units' = units + b.units /\ pc' = "walk" /\ prev' = freelist
      /\ cur' = slob_next(mem, freelist)
      /\ req' = [off |-> b.off, units |-> b.units, align |-> 0]
      /\ UNCHANGED <<mem, freelist, slobfree, blocks, ret>>
  BY DEF FreeStart
<1>2. /\ Free # {} /\ Free \subseteq Units /\ mem \in Memory /\ Listed(mem, Free)
      /\ First(freelist, Free)
  BY <1>1, FreeFacts
<1>3. /\ b.off \in Units /\ b.units \in 1 .. PAGE_UNITS
      /\ b = [off |-> b.off, units |-> b.units]
      /\ Free \cap (b.off .. b.off + b.units - 1) = {}
  BY BlockFacts
<1>4. freelist \in Free /\ freelist \in Units /\ freelist - 1 \notin Free
  <2>1. freelist \in Free /\ \A i \in Free : freelist <= i
    BY <1>2 DEF First
  <2> QED BY <1>2, <2>1 DEF Units
<1>5. freelist < b.off
  <2>1. b.off \in b.off .. b.off + b.units - 1
    BY <1>3, PageNat DEF Units
  <2>2. freelist # b.off
    BY <1>3, <1>4, <2>1
  <2> QED BY <1>1, <1>3, <1>4, <2>2 DEF Units
<1>6. cur' \in 1 .. PAGE_UNITS
  BY <1>1, <1>2, <1>4, NextEntry
<1>7. units' \in 0 .. PAGE_UNITS /\ units' = Cardinality(Free) + b.units
  BY <1>1, UnitsPlus
<1>8. Free' = Free
  BY <1>1 DEF Free, FreeUnits
<1>9. TypeOK'
  <2>1. prev' \in NULL .. PAGE_UNITS /\ cur' \in NULL .. PAGE_UNITS
    BY <1>1, <1>4, <1>6, PageNat DEF NULL, Units
  <2>2. req' \in [off : NULL .. PAGE_UNITS, units : 0 .. PAGE_UNITS, align : 0 .. PAGE_UNITS]
    BY <1>1, <1>3, PageNat DEF NULL, Units
  <2> QED BY <1>1, <1>7, <2>1, <2>2 DEF IInv, TypeOK
<1>10. UnitsExact'
  <2>1. InTransit' = b.units
    BY <1>1 DEF InTransit
  <2>2. slobfree' = (Free' # {})
    BY <1>1, <1>8 DEF IInv, UnitsExact
  <2>3. units' = Cardinality(Free') + InTransit'
    BY <1>7, <1>8, <2>1
  <2> QED BY <2>2, <2>3 DEF UnitsExact
<1>11. Apart'
  BY <1>1 DEF IInv, Apart
<1>12. Walking'
  <2>1. [off |-> req'.off, units |-> req'.units] = b
    BY <1>1, <1>3
  <2>2. [off |-> req'.off, units |-> req'.units] \in blocks'
    BY <1>1, <2>1
  <2>3. prev' < req'.off
    BY <1>1, <1>5
  <2>4. IsHead(prev)' /\ slob_next(mem', prev') = cur'
    BY <1>1, <1>4, <1>8 DEF IsHead
  <2> QED BY <1>1, <2>2, <2>3, <2>4 DEF Walking
<1> QED BY <1>1, <1>2, <1>8, <1>9, <1>10, <1>11, <1>12 DEF IInv

\* The walk goes on to the next entry.
LEMMA FreeAdvanceIInv ==
  ASSUME IInv, FreeAdvance
  PROVE  IInv'
<1>1. /\ pc = "walk" /\ pc' = "walk" /\ req.off > cur /\ prev' = cur
      /\ cur' = slob_next(mem, cur)
      /\ UNCHANGED <<mem, freelist, units, slobfree, blocks, req, ret>>
  BY DEF FreeAdvance
<1>2. Free' = Free /\ Free \subseteq Units /\ Listed(mem, Free)
  BY <1>1 DEF Free, FreeUnits, IInv
<1>3. /\ [off |-> req.off, units |-> req.units] \in blocks
      /\ prev \in Free /\ prev - 1 \notin Free /\ slob_next(mem, prev) = cur
  BY <1>1 DEF IInv, Walking, IsHead
<1>4. cur \in 1 .. PAGE_UNITS /\ (cur # PAGE_UNITS => cur \in Free /\ cur - 1 \notin Free)
  BY <1>2, <1>3, NextEntry
<1>5. req.off \in Units
  <2>1. blocks \subseteq [off : Units, units : 1 .. PAGE_UNITS]
    BY DEF IInv, TypeOK
  <2> QED BY <1>3, <2>1
<1>6. cur # PAGE_UNITS
  BY <1>1, <1>4, <1>5, PageNat DEF Units
<1>7. cur' \in 1 .. PAGE_UNITS
  BY <1>1, <1>2, <1>4, <1>6, NextEntry
<1>8. TypeOK'
  <2>1. prev' \in NULL .. PAGE_UNITS /\ cur' \in NULL .. PAGE_UNITS
    BY <1>1, <1>4, <1>7, PageNat DEF NULL
  <2> QED BY <1>1, <2>1 DEF IInv, TypeOK
<1>9. UnitsExact' /\ Apart'
  BY <1>1, <1>2 DEF IInv, UnitsExact, InTransit, Apart
<1>10. Walking'
  <2>1. prev' < req'.off
    BY <1>1, <1>4, <1>5, PageNat DEF Units
  <2>2. units # PAGE_UNITS
    BY <1>1 DEF IInv, Walking
  <2> QED BY <1>1, <1>2, <1>3, <1>4, <1>6, <2>1, <2>2 DEF Walking, IsHead
<1> QED BY <1>1, <1>2, <1>8, <1>9, <1>10 DEF IInv

\* The block that slob_free has found the place for.
LEMMA WalkFacts ==
  ASSUME IInv, FreeLink, NEW b, b = [off |-> req.off, units |-> req.units]
  PROVE  /\ b \in blocks /\ blocks' = blocks \ {b} /\ blocks # {b}
         /\ pc = "walk" /\ units = Cardinality(Free) + b.units
<1>1. /\ pc = "walk" /\ blocks' = blocks \ {b}
  BY DEF FreeLink
<1>2. b \in blocks /\ units # PAGE_UNITS /\ b.units = req.units
  BY <1>1 DEF IInv, Walking
<1>3. units = Cardinality(Free) + b.units
  BY <1>1, <1>2 DEF IInv, UnitsExact, InTransit
<1>4. Cardinality(Free) + b.units = PAGE_UNITS <=> blocks = {b}
  BY <1>2, BlockFacts
<1> QED BY <1>1, <1>2, <1>3, <1>4

\* The block enters the list.
LEMMA FreeLinkIInv ==
  ASSUME IInv, FreeLink
  PROVE  IInv'
<1>1. PICK b : b = [off |-> req.off, units |-> req.units]
  OBVIOUS
<1>2. /\ pc = "walk" /\ req.off <= cur /\ mem' = Link(mem, prev, cur, req.off, req.units)
      /\ pc' = "idle" /\ prev' = NULL /\ cur' = NULL /\ req' = NoReq
      /\ UNCHANGED <<freelist, units, slobfree, ret>>
  BY DEF FreeLink, EndOp
<1>3. b \in blocks /\ blocks' = blocks \ {b} /\ units = Cardinality(Free) + b.units
  BY <1>1, WalkFacts
<1>4. PICK o, u : o = b.off /\ u = b.units
  OBVIOUS
<1>5. /\ o \in Units /\ u \in 1 .. PAGE_UNITS /\ o + u <= PAGE_UNITS
      /\ Free' = Free \cup (o .. o + u - 1) /\ Free \cap (o .. o + u - 1) = {}
      /\ Cardinality(Free') = Cardinality(Free) + u
  BY <1>3, <1>4, BlockFacts DEF Free
<1>6. o = req.off /\ u = req.units
  BY <1>1, <1>4
<1>7. /\ prev \in Free /\ prev - 1 \notin Free /\ slob_next(mem, prev) = cur /\ prev < o
      /\ mem \in Memory /\ Free \subseteq Units /\ Listed(mem, Free)
      /\ First(freelist, Free) /\ slobfree = (Free # {})
  BY <1>2, <1>6
     DEF IInv, Walking, IsHead, TypeOK, Memory, Free, FreeUnits, UnitsExact
<1>8. mem' \in Memory /\ Listed(mem', Free')
  <2>1. PICK F, G, m, p, n : F = Free /\ G = Free' /\ m = mem /\ p = prev /\ n = cur
    OBVIOUS
  <2>2. /\ F \subseteq Units /\ m \in Memory /\ Listed(m, F)
        /\ p \in F /\ p - 1 \notin F /\ slob_next(m, p) = n /\ p < o /\ o <= n
        /\ (o .. o + u - 1) \cap F = {} /\ G = F \cup (o .. o + u - 1)
    BY <1>2, <1>5, <1>6, <1>7, <2>1
  <2>3. Link(m, p, n, o, u) \in Memory /\ Listed(Link(m, p, n, o, u), G)
    BY <1>5, <2>2, LinkListed
  <2> QED BY <1>2, <1>6, <2>1, <2>3
<1>9. First(freelist', Free')
  <2>1. freelist \in Free /\ freelist <= prev /\ \A i \in Free : freelist <= i
    BY <1>7 DEF First
  <2>2. \A i \in o .. o + u - 1 : freelist <= i
    BY <1>5, <1>7, <2>1 DEF Units
  <2> QED BY <1>2, <1>5, <2>1, <2>2 DEF First
<1>10. UnitsExact'
  <2>1. InTransit' = 0
    BY <1>2 DEF InTransit
  <2>2. PICK n : n = Cardinality(Free')
    OBVIOUS
  <2>3. n = units /\ units \in 0 .. PAGE_UNITS
    BY <1>3, <1>4, <1>5, <2>2 DEF IInv, TypeOK
  <2>4. units' = n + 0
    BY <1>2, <2>3
  <2>5. slobfree' = (Free' # {})
    BY <1>2, <1>5, <1>7
  <2> QED BY <2>1, <2>2, <2>4, <2>5 DEF UnitsExact
<1>11. Apart' /\ blocks' \subseteq [off : Units, units : 1 .. PAGE_UNITS]
  BY <1>3, ApartWithout
<1>12. TypeOK'
  <2>1. req' \in [off : NULL .. PAGE_UNITS, units : 0 .. PAGE_UNITS, align : 0 .. PAGE_UNITS]
    BY <1>2, PageNat DEF NoReq, NULL
  <2>2. NULL \in NULL .. PAGE_UNITS
    BY PageNat DEF NULL
  <2> QED BY <1>2, <1>8, <1>11, <2>1, <2>2 DEF IInv, TypeOK, Memory
<1> QED BY <1>2, <1>8, <1>9, <1>10, <1>11, <1>12 DEF IInv

\* Every step keeps the invariant.
LEMMA NextIInv ==
  ASSUME IInv, [Next]_vars
  PROVE  IInv'
<1>1. ASSUME NEW r \in Requests, NewPage(r) PROVE IInv'
  BY <1>1, NewPageIInv
<1>2. ASSUME NEW r \in Requests, AllocStart(r) PROVE IInv'
  BY <1>2, AllocStartIInv
<1>3. ASSUME NEW b \in blocks, FreeRelease(b) PROVE IInv'
  BY <1>3, FreeReleaseIInv
<1>4. ASSUME NEW b \in blocks, FreeFirst(b) PROVE IInv'
  BY <1>4, FreeFirstIInv
<1>5. ASSUME NEW b \in blocks, FreeFront(b) PROVE IInv'
  BY <1>5, FreeFrontIInv
<1>6. ASSUME NEW b \in blocks, FreeStart(b) PROVE IInv'
  BY <1>6, FreeStartIInv
<1>7. Step => IInv'
  BY AllocTakeIInv, AllocFailIInv, AllocAdvanceIInv, FreeAdvanceIInv, FreeLinkIInv DEF Step
<1>8. CASE UNCHANGED vars
  <2>1. UNCHANGED <<mem, freelist, units, slobfree, blocks, pc, prev, cur, req, ret>>
    BY <1>8 DEF vars
  <2>2. Free' = Free
    BY <2>1 DEF Free
  <2>3. TypeOK' /\ Apart'
    BY <2>1 DEF IInv, TypeOK, Apart
  <2>4. UnitsExact'
    BY <2>1, <2>2 DEF IInv, UnitsExact, InTransit
  <2>5. (Scanning => Scanning') /\ (Walking => Walking')
    BY <2>1, <2>2 DEF Scanning, Walking, IsHead
  <2> QED BY <2>1, <2>2, <2>3, <2>4, <2>5 DEF IInv
<1> QED BY <1>1, <1>2, <1>3, <1>4, <1>5, <1>6, <1>7, <1>8 DEF Next

\* The invariant is inductive.
LEMMA Inductive == Spec => []IInv
BY InitIInv, NextIInv, PTL DEF Spec
-----------------------------------------------------------------------------
(* What the invariant says of the page. *)

\* The variables keep their types.
THEOREM TypeCorrect == Spec => []TypeOK
<1>1. IInv => TypeOK
  BY DEF IInv
<1> QED BY <1>1, Inductive, PTL

\* sp->units is the number of free units, and the page is on a free list
\* exactly as long as it has some.
THEOREM CountExact == Spec => []UnitsExact
<1>1. IInv => UnitsExact
  BY DEF IInv
<1> QED BY <1>1, Inductive, PTL

\* The list in the page's memory is in address order and has one entry for
\* every maximal run of free units.
THEOREM ListExact == Spec => []FreeListExact
<1>1. IInv => FreeListExact
  <2> SUFFICES ASSUME IInv, pc # "nopage" PROVE FreeListExact
    BY DEF FreeListExact
  <2>1. Listed(mem, Free) /\ First(freelist, Free) /\ Free \subseteq Units
    BY DEF IInv, Free, FreeUnits
  <2>2. Free # {} => IsHead(freelist) /\ \A i \in Free : freelist <= i
    <3> SUFFICES ASSUME Free # {} PROVE IsHead(freelist) /\ \A i \in Free : freelist <= i
      OBVIOUS
    <3>1. freelist \in Free /\ \A i \in Free : freelist <= i
      BY <2>1 DEF First
    <3>2. freelist - 1 \notin Free
      BY <2>1, <3>1 DEF Units
    <3> QED BY <3>1, <3>2 DEF IsHead
  <2>3. ASSUME NEW s \in Free, IsHead(s),
               NEW e, e = s + slob_units(mem, s), NEW n, n = slob_next(mem, s)
        PROVE  /\ s .. e - 1 \subseteq Free /\ e \notin Free
               /\ n \in Free \cup {PAGE_UNITS} /\ n >= e
               /\ \A i \in e .. n - 1 : i \notin Free
    <3>1. PICK k \in 1 .. PAGE_UNITS, j \in 1 .. PAGE_UNITS :
            Run(Free, s, k, j) /\ Coded(mem, s, k, j)
      BY <2>1, <2>3 DEF Listed, ListedAt, IsHead
    <3>2. s \in Units
      BY <2>1
    <3>3. e = s + k /\ n = j
      BY <2>3, <3>1, <3>2, CodedRead
    <3> QED BY <3>1, <3>3 DEF Run
  <2> QED BY <2>2, <2>3 DEF FreeListExact
<1> QED BY <1>1, Inductive, PTL

\* An iteration of either walk moves up in the page: with its end as a bound,
\* this is why slob_lock is not held for ever.
THEOREM WalkClimbs ==
  Spec => [][(AllocAdvance \/ FreeAdvance) => (cur < cur' /\ cur' <= PAGE_UNITS)]_vars
<1>1. ASSUME IInv, AllocAdvance \/ FreeAdvance
      PROVE  cur < cur' /\ cur' <= PAGE_UNITS
  <2>1. cur' = slob_next(mem, cur) /\ pc \in {"scan", "walk"}
    BY <1>1 DEF AllocAdvance, FreeAdvance
  <2>2. Free \subseteq Units /\ Listed(mem, Free)
    BY <1>1, <2>1 DEF IInv, Free, FreeUnits
  <2>3. cur \in Free /\ cur - 1 \notin Free
    <3>1. CASE pc = "scan"
      BY <1>1, <3>1, ScanFacts
    <3>2. CASE pc = "walk"
      <4>1. /\ [off |-> req.off, units |-> req.units] \in blocks
            /\ prev \in Free /\ prev - 1 \notin Free /\ slob_next(mem, prev) = cur
        BY <1>1, <3>2 DEF IInv, Walking, IsHead
      <4>2. req.off \in Units /\ req.off > cur
        <5>1. blocks \subseteq [off : Units, units : 1 .. PAGE_UNITS]
          BY <1>1 DEF IInv, TypeOK
        <5>2. req.off > cur
          BY <1>1, <3>2 DEF AllocAdvance, FreeAdvance
        <5> QED BY <4>1, <5>1, <5>2
      <4>3. /\ cur \in 1 .. PAGE_UNITS
            /\ cur # PAGE_UNITS => cur \in Free /\ cur - 1 \notin Free
        BY <2>2, <4>1, NextEntry
      <4> QED BY <4>2, <4>3, PageNat DEF Units
    <3> QED BY <2>1, <3>1, <3>2
  <2>4. cur' \in 1 .. PAGE_UNITS /\ cur' > cur
    BY <2>1, <2>2, <2>3, NextEntry
  <2>5. cur \in Int
    BY <2>2, <2>3 DEF Units
  <2> QED BY <2>4, <2>5, PageNat
<1>2. IInv /\ [Next]_vars =>
        [(AllocAdvance \/ FreeAdvance) => (cur < cur' /\ cur' <= PAGE_UNITS)]_vars
  BY <1>1
<1> QED BY <1>2, Inductive, PTL DEF Spec
-----------------------------------------------------------------------------
(* The page implements first fit. *)

\* Both specifications mean the same by an address that fits.
LEMMA SameUnits ==
  ASSUME NEW bs, NEW F, NEW u, NEW g
  PROVE  /\ Page!FreeUnits(bs) = FreeUnits(bs)
         /\ Page!Places(F, u, g) = Places(F, u, g)
         /\ Page!FirstFit(F, u, g) = FirstFit(F, u, g)
<1>1. Page!FreeUnits(bs) = FreeUnits(bs)
  BY DEF Page!FreeUnits, FreeUnits, Page!Units, Units, Page!Span, Span
<1>2. Page!Places(F, u, g) = Places(F, u, g)
  BY DEF Page!Places, Places, Page!Units, Units, Page!IsAligned, IsAligned
<1>3. Page!FirstFit(F, u, g) = FirstFit(F, u, g)
  BY <1>2 DEF Page!FirstFit, FirstFit
<1> QED BY <1>1, <1>2, <1>3

\* slob_free of a block that is not the page's last one.
LEMMA FreeIsFree ==
  ASSUME NEW b \in blocks, blocks # {b}, pc # "nopage", pc' # "nopage",
         blocks' = blocks \ {b}, ret' = ret
  PROVE  Page!Next
<1>1. blocks' # {}
  OBVIOUS
<1>2. Page!Free(b)
  BY <1>1 DEF Page!Free
<1> QED BY <1>2 DEF Page!Next

\* A successful scan returns the first address that fits.
LEMMA TakeIsAlloc ==
  ASSUME IInv, AllocTake
  PROVE  Page!Next
<1>1. PICK u, g : u = req.units /\ g = req.align
  OBVIOUS
<1>2. /\ pc = "scan" /\ pc' = "idle"
      /\ ret' \in Places(Free, u, g) /\ \A x \in Places(Free, u, g) : ret' <= x
      /\ blocks' = blocks \cup {[off |-> ret', units |-> u]}
  BY <1>1, TakeFacts
<1>3. PICK r \in Requests : u = r[1] /\ g = r[2]
  BY <1>1, <1>2, ScanFacts
<1>4. FirstFit(Free, u, g) = ret'
  BY <1>2, FirstFitIs
<1>5. Page!Alloc(u, g)
  <2>1. Page!FreeUnits(blocks) = Free
    BY SameUnits DEF Free
  <2>2. Page!Places(Free, u, g) # {} /\ Page!FirstFit(Free, u, g) = ret'
    BY <1>2, <1>4, SameUnits
  <2> QED BY <1>2, <2>1, <2>2 DEF Page!Alloc
<1> QED BY <1>3, <1>5 DEF Page!Next

\* A scan fails only when nothing fits.
LEMMA FailIsFail ==
  ASSUME IInv, AllocFail
  PROVE  Page!Next
<1>1. /\ pc = "scan" /\ pc' = "idle" /\ ret' = NULL /\ blocks' = blocks
      /\ ~ RoomEnough(mem, cur, req.units, req.align) /\ slob_last(mem, cur)
  BY DEF AllocFail, EndOp
<1>2. PICK u, g : u = req.units /\ g = req.align
  OBVIOUS
<1>3. /\ cur \in Free /\ cur - 1 \notin Free /\ cur \in Units
      /\ u \in 1 .. PAGE_UNITS /\ g \in Nat
      /\ \A x \in Places(Free, u, g) : x >= cur
      /\ \E r \in Requests : u = r[1] /\ g = r[2]
      /\ Listed(mem, Free) /\ Free \subseteq Units
  BY <1>1, <1>2, ScanFacts
<1>4. PICK k \in 1 .. PAGE_UNITS, n \in 1 .. PAGE_UNITS :
        Run(Free, cur, k, n) /\ Coded(mem, cur, k, n)
  BY <1>3 DEF Listed, ListedAt
<1>5. slob_units(mem, cur) = k /\ slob_next(mem, cur) = n
  BY <1>3, <1>4, CodedRead
<1>6. n = PAGE_UNITS
  BY <1>1, <1>5, PageNat DEF slob_last
<1>7. \A x \in Places(Free, u, g) : x >= n
  BY <1>1, <1>2, <1>3, <1>4, <1>5, Fits DEF RoomEnough
<1>8. Places(Free, u, g) = {}
  <2>1. \A x \in Places(Free, u, g) : x \in Units /\ x >= PAGE_UNITS
    BY <1>6, <1>7 DEF Places
  <2> QED BY <2>1, PageNat DEF Units
<1>9. Page!Fail(u, g)
  <2>1. Page!FreeUnits(blocks) = Free
    BY SameUnits DEF Free
  <2>2. Page!Places(Free, u, g) = {}
    BY <1>8, SameUnits
  <2> QED BY <1>1, <2>1, <2>2 DEF Page!Fail, Page!NULL, NULL
<1> QED BY <1>3, <1>9 DEF Page!Next

\* Every step of the page is a step of the first-fit page or changes nothing
\* of it.
LEMMA NextPage ==
  ASSUME IInv, [Next]_vars
  PROVE  [Page!Next]_Page!vars
<1> USE DEF Page!vars
<1>1. ASSUME NEW r \in Requests, NewPage(r) PROVE Page!Next
  BY <1>1 DEF NewPage, StartScan, Page!Next, Page!NewPage
<1>2. ASSUME NEW r \in Requests, AllocStart(r) PROVE UNCHANGED Page!vars
  BY <1>2 DEF AllocStart, StartScan
<1>3. ASSUME NEW b \in blocks, FreeRelease(b) PROVE Page!Next
  <2>1. pc = "idle" /\ pc' = "nopage" /\ blocks' = {} /\ ret' = ret /\ blocks' = blocks \ {b}
    BY <1>3, FreeReleaseIInv DEF FreeRelease
  <2>2. Page!Free(b)
    BY <2>1 DEF Page!Free
  <2> QED BY <2>2 DEF Page!Next
<1>4. ASSUME NEW b \in blocks, FreeFirst(b) \/ FreeFront(b) PROVE Page!Next
  <2>1. /\ pc = "idle" /\ pc' = "idle" /\ units + b.units # PAGE_UNITS
        /\ blocks' = blocks \ {b} /\ ret' = ret
    BY <1>4 DEF FreeFirst, FreeFront
  <2>2. blocks # {b}
    BY <2>1, FreeFacts
  <2> QED BY <2>1, <2>2, FreeIsFree
<1>5. ASSUME NEW b \in blocks, FreeStart(b) PROVE UNCHANGED Page!vars
  BY <1>5 DEF FreeStart
<1>6. CASE AllocTake
  BY <1>6, TakeIsAlloc
<1>7. CASE AllocFail
  BY <1>7, FailIsFail
<1>8. CASE AllocAdvance \/ FreeAdvance
  BY <1>8 DEF AllocAdvance, FreeAdvance
<1>9. CASE FreeLink
  <2>1. PICK b : b = [off |-> req.off, units |-> req.units]
    OBVIOUS
  <2>2. b \in blocks /\ blocks' = blocks \ {b} /\ blocks # {b} /\ pc = "walk"
    BY <1>9, <2>1, WalkFacts
  <2>3. pc' = "idle" /\ ret' = ret
    BY <1>9 DEF FreeLink, EndOp
  <2> QED BY <2>2, <2>3, FreeIsFree
<1>10. CASE UNCHANGED vars
  BY <1>10 DEF vars
<1> QED BY <1>1, <1>2, <1>3, <1>4, <1>5, <1>6, <1>7, <1>8, <1>9, <1>10 DEF Next, Step

\* With its list inside the free blocks the page is the first-fit page: a
\* request gets the lowest address that fits and fails only when none does,
\* and the page is given back with its last block.
THEOREM Implements == Spec => PageSpec
<1>1. Init => Page!Init
  BY DEF Init, Page!Init, NULL, Page!NULL
<1>2. IInv /\ [Next]_vars => [Page!Next]_Page!vars
  BY NextPage
<1> QED BY <1>1, <1>2, Inductive, PTL DEF Spec, PageSpec, Page!Spec
=============================================================================
