----------------------------- MODULE SlobProof -----------------------------
(***************************************************************************)
(* Safety of the SLOB heap for every number of frames and threads, every   *)
(* page size and every set of request sizes and caches.                    *)
(***************************************************************************)
EXTENDS Slob, WellFoundedInduction, FiniteSetTheorems, TLAPS

-----------------------------------------------------------------------------
(* Numbers, finite sets, and lists in which nothing is repeated. *)

\* Every nonempty set of natural numbers has a least element.
LEMMA Minimum ==
  ASSUME NEW T, T \subseteq Nat, T # {}
  PROVE  \E x \in T : \A y \in T : x <= y
<1> DEFINE R == OpToRel(<, Nat)
<1>1. IsWellFoundedOn(R, Nat)
  BY NatLessThanWellFounded
<1>2. \A x, y \in Nat : <<x, y>> \in R <=> x < y
  BY Zenon DEF OpToRel
<1> HIDE DEF R
<1>3. PICK x \in T : \A y \in T : ~ (<<y, x>> \in R)
  BY <1>1, WFMin
<1>4. ASSUME NEW y \in T PROVE x <= y
  <2>1. x \in Nat /\ y \in Nat
    BY <1>3
  <2>2. ~ (y < x)
    BY <2>1, <1>3, <1>2
  <2> QED BY <2>1, <2>2
<1> QED BY <1>3, <1>4

\* The size of a union of two sets without common elements.
LEMMA DisjointUnion ==
  ASSUME NEW A, IsFiniteSet(A), NEW B, IsFiniteSet(B), A \cap B = {}
  PROVE  /\ IsFiniteSet(A \cup B)
         /\ Cardinality(A) \in Nat /\ Cardinality(B) \in Nat
         /\ Cardinality(A \cup B) = Cardinality(A) + Cardinality(B)
<1>1. /\ IsFiniteSet(A \cup B)
      /\ Cardinality(A \cup B) =
           Cardinality(A) + Cardinality(B) - Cardinality(A \cap B)
  BY FS_Union
<1>2. Cardinality(A) \in Nat /\ Cardinality(B) \in Nat
  BY FS_CardinalityType
<1>3. Cardinality(A \cap B) = 0
  BY FS_EmptySet
<1> QED BY <1>1, <1>2, <1>3

\* Sets that differ at most in x differ in size by x.
LEMMA ButOne ==
  ASSUME NEW S, IsFiniteSet(S), NEW T, NEW x, S \ {x} = T \ {x}
  PROVE  /\ IsFiniteSet(T) /\ Cardinality(S) \in Nat /\ Cardinality(T) \in Nat
         /\ Cardinality(T) = Cardinality(S) + (IF x \in T THEN 1 ELSE 0)
                                            - (IF x \in S THEN 1 ELSE 0)
<1> DEFINE R == S \ {x}
<1>1. IsFiniteSet(R) /\ Cardinality(R) \in Nat
  BY FS_Subset, FS_CardinalityType
<1>2. x \notin R /\ R = T \ {x}
  OBVIOUS
<1>3. IsFiniteSet(R \cup {x}) /\ Cardinality(R \cup {x}) = Cardinality(R) + 1
  BY <1>1, <1>2, FS_AddElement
<1>4. S = (IF x \in S THEN R \cup {x} ELSE R) /\ T = (IF x \in T THEN R \cup {x} ELSE R)
  OBVIOUS
<1> HIDE DEF R
<1>5. /\ IsFiniteSet(T)
      /\ Cardinality(S) = Cardinality(R) + IF x \in S THEN 1 ELSE 0
      /\ Cardinality(T) = Cardinality(R) + IF x \in T THEN 1 ELSE 0
  <2>1. Cardinality(S) = Cardinality(R) + IF x \in S THEN 1 ELSE 0
    BY <1>1, <1>3, <1>4
  <2>2. IsFiniteSet(T) /\ Cardinality(T) = Cardinality(R) + IF x \in T THEN 1 ELSE 0
    BY <1>1, <1>3, <1>4
  <2> QED BY <2>1, <2>2
<1> QED BY <1>1, <1>5

Congruent(n, a, b) == \E k \in Int : a = b + k * n

\* Congruent numbers stay so when the same is added to both.
LEMMA CongruentPlus ==
  ASSUME NEW n \in Nat \ {0}, NEW a \in Int, NEW b \in Int, NEW c \in Int,
         Congruent(n, a, b)
  PROVE  Congruent(n, a + c, b + c)
<1>1. PICK k \in Int : a = b + k * n
  BY DEF Congruent
<1>2. k * n \in Int
  OBVIOUS
<1>3. a + c = (b + c) + k * n
  BY <1>1, <1>2
<1> QED BY <1>3 DEF Congruent

\* A number may be reduced.
LEMMA CongruentMod ==
  ASSUME NEW n \in Nat \ {0}, NEW a \in Int, NEW b \in Int, NEW c \in Int,
         Congruent(n, a + c, b)
  PROVE  Congruent(n, (a % n) + c, b) /\ a % n \in 0 .. n - 1
<1>1. PICK k \in Int : a + c = b + k * n
  BY DEF Congruent
<1>2. a = n * (a \div n) + (a % n) /\ a \div n \in Int /\ a % n \in 0 .. n - 1
  OBVIOUS
<1> DEFINE q == a \div n
           r == a % n
<1> HIDE DEF q, r
<1>3. k - q \in Int /\ (k - q) * n = k * n - n * q
  BY <1>2 DEF q
<1>4. r + c = b + (k - q) * n
  <2>1. n * q \in Int /\ k * n \in Int
    BY <1>2 DEF q
  <2> QED BY <1>1, <1>2, <1>3, <2>1 DEF q, r
<1> QED BY <1>2, <1>3, <1>4 DEF Congruent, r

\* Congruent numbers below n are equal.
LEMMA CongruentEqual ==
  ASSUME NEW n \in Nat \ {0}, NEW a \in 0 .. n - 1, NEW b \in 0 .. n - 1,
         Congruent(n, a, b)
  PROVE  a = b
<1>1. PICK k \in Int : a = b + k * n
  BY DEF Congruent
<1>2. CASE k >= 1
  <2>1. k * n >= n
    BY <1>2
  <2> QED BY <1>1, <2>1
<1>3. CASE k <= -1
  <2>1. k * n <= -n
    BY <1>3
  <2> QED BY <1>1, <2>1
<1> QED BY <1>1, <1>2, <1>3

\* No element occurs twice.
Once(l) == \A i, j \in 1 .. Len(l) : l[i] = l[j] => i = j

\* Concatenation by its indices.
LEMMA Concat ==
  ASSUME NEW S, NEW a \in Seq(S), NEW b \in Seq(S)
  PROVE  /\ a \o b \in Seq(S) /\ Len(a \o b) = Len(a) + Len(b)
         /\ \A i \in 1 .. Len(a) + Len(b) :
              (a \o b)[i] = IF i <= Len(a) THEN a[i] ELSE b[i - Len(a)]
OBVIOUS

\* RemoveAt by its indices.
LEMMA RemoveAtIndices ==
  ASSUME NEW S, NEW l \in Seq(S), NEW k \in 1 .. Len(l)
  PROVE  /\ RemoveAt(l, k) \in Seq(S)
         /\ Len(RemoveAt(l, k)) = Len(l) - 1
         /\ \A i \in 1 .. Len(l) - 1 :
              RemoveAt(l, k)[i] = IF i < k THEN l[i] ELSE l[i + 1]
<1> DEFINE a == SubSeq(l, 1, k - 1)
           b == SubSeq(l, k + 1, Len(l))
<1>1. /\ a \in Seq(S) /\ Len(a) = k - 1
      /\ \A i \in 1 .. k - 1 : a[i] = l[i]
  OBVIOUS
<1>2. /\ b \in Seq(S) /\ Len(b) = Len(l) - k
      /\ \A i \in 1 .. Len(l) - k : b[i] = l[i + k]
  OBVIOUS
<1>3. RemoveAt(l, k) = a \o b
  BY DEF RemoveAt
<1> HIDE DEF a, b
<1>4. /\ a \o b \in Seq(S) /\ Len(a \o b) = Len(a) + Len(b)
      /\ \A i \in 1 .. Len(a) + Len(b) :
           (a \o b)[i] = IF i <= Len(a) THEN a[i] ELSE b[i - Len(a)]
  BY <1>1, <1>2, Concat
<1> QED BY <1>1, <1>2, <1>3, <1>4

\* Rotation by its indices.
LEMMA RotateIndices ==
  ASSUME NEW S, NEW l \in Seq(S), NEW k \in 1 .. Len(l) + 1
  PROVE  LET r == SubSeq(l, k, Len(l)) \o SubSeq(l, 1, k - 1) IN
         /\ r \in Seq(S)
         /\ Len(r) = Len(l)
         /\ \A i \in 1 .. Len(l) :
              r[i] = IF i <= Len(l) - k + 1 THEN l[i + k - 1]
                                           ELSE l[i - (Len(l) - k + 1)]
<1> DEFINE a == SubSeq(l, k, Len(l))
           b == SubSeq(l, 1, k - 1)
<1>1. /\ a \in Seq(S) /\ Len(a) = Len(l) - k + 1
      /\ \A i \in 1 .. Len(l) - k + 1 : a[i] = l[i + k - 1]
  OBVIOUS
<1>2. /\ b \in Seq(S) /\ Len(b) = k - 1
      /\ \A i \in 1 .. k - 1 : b[i] = l[i]
  OBVIOUS
<1> HIDE DEF a, b
<1>3. /\ a \o b \in Seq(S) /\ Len(a \o b) = Len(a) + Len(b)
      /\ \A i \in 1 .. Len(a) + Len(b) :
           (a \o b)[i] = IF i <= Len(a) THEN a[i] ELSE b[i - Len(a)]
  BY <1>1, <1>2, Concat
<1>4. /\ a \o b \in Seq(S) /\ Len(a \o b) = Len(l)
      /\ \A i \in 1 .. Len(l) :
           (a \o b)[i] = IF i <= Len(l) - k + 1
                         THEN l[i + k - 1] ELSE l[i - (Len(l) - k + 1)]
  BY <1>1, <1>2, <1>3
<1> QED BY <1>4 DEF a, b

\* The sequence r picks each of the places P of l once: p says which, when.
Picks(r, l, P, p) ==
  /\ p \in [1 .. Len(r) -> P]
  /\ \A i \in 1 .. Len(r) : r[i] = l[p[i]]
  /\ \A i, j \in 1 .. Len(r) : p[i] = p[j] => i = j
  /\ \A k \in P : \E i \in 1 .. Len(r) : p[i] = k

\* Such a sequence has the elements at these places, each once.
LEMMA Picked ==
  ASSUME NEW S, NEW l \in Seq(S), NEW r \in Seq(S), Once(l),
         NEW P \in SUBSET (1 .. Len(l)), NEW p, Picks(r, l, P, p)
  PROVE  Once(r) /\ ToSet(r) = {l[k] : k \in P}
<1> USE DEF Picks
<1>1. DOMAIN r = 1 .. Len(r)
  OBVIOUS
<1>2. Once(r)
  <2> SUFFICES ASSUME NEW i \in 1 .. Len(r), NEW j \in 1 .. Len(r), r[i] = r[j]
               PROVE  i = j
    BY Zenon DEF Once
  <2>1. p[i] \in 1 .. Len(l) /\ p[j] \in 1 .. Len(l) /\ l[p[i]] = l[p[j]]
    OBVIOUS
  <2> QED BY <2>1 DEF Once
<1>3. ASSUME NEW x \in ToSet(r) PROVE x \in {l[k] : k \in P}
  <2>1. PICK i \in 1 .. Len(r) : r[i] = x
    BY <1>1, <1>3 DEF ToSet
  <2>2. p[i] \in P /\ x = l[p[i]]
    BY <2>1
  <2> QED BY <2>2
<1>4. ASSUME NEW k \in P PROVE l[k] \in ToSet(r)
  BY <1>1 DEF ToSet
<1> QED BY <1>2, <1>3, <1>4

\* What is left when the k-th element is removed.
LEMMA RemoveAtOnce ==
  ASSUME NEW S, NEW l \in Seq(S), Once(l), NEW k \in 1 .. Len(l)
  PROVE  /\ RemoveAt(l, k) \in Seq(S)
         /\ Once(RemoveAt(l, k))
         /\ ToSet(RemoveAt(l, k)) = ToSet(l) \ {l[k]}
<1> DEFINE r == RemoveAt(l, k)
           P == (1 .. Len(l)) \ {k}
           p == [i \in 1 .. Len(r) |-> IF i < k THEN i ELSE i + 1]
<1>1. /\ r \in Seq(S) /\ Len(r) = Len(l) - 1
      /\ \A i \in 1 .. Len(l) - 1 : r[i] = IF i < k THEN l[i] ELSE l[i + 1]
  BY RemoveAtIndices
<1> HIDE DEF r
<1>2. /\ p \in [1 .. Len(r) -> P]
      /\ \A i \in 1 .. Len(r) : r[i] = l[p[i]]
      /\ \A i, j \in 1 .. Len(r) : p[i] = p[j] => i = j
  BY <1>1
<1>3. ASSUME NEW j \in P PROVE \E i \in 1 .. Len(r) : p[i] = j
  <2>1. CASE j < k
    BY <2>1, <1>1
  <2>2. CASE j > k
    <3>1. j - 1 \in 1 .. Len(r) /\ p[j - 1] = j
      BY <2>2, <1>1
    <3> QED BY <3>1
  <2> QED BY <2>1, <2>2
<1>4. P \in SUBSET (1 .. Len(l))
  OBVIOUS
<1>5. {l[j] : j \in P} = ToSet(l) \ {l[k]}
  BY DEF ToSet, Once
<1> HIDE DEF P, p
<1>6. Picks(r, l, P, p)
  BY <1>2, <1>3, Zenon DEF Picks
<1>7. Once(r) /\ ToSet(r) = {l[j] : j \in P}
  BY <1>1, <1>4, <1>6, Picked
<1> QED BY <1>1, <1>5, <1>7 DEF r

\* Moving the first k - 1 elements to the end keeps the elements.
LEMMA RotateOnce ==
  ASSUME NEW S, NEW l \in Seq(S), Once(l), NEW k \in 1 .. Len(l) + 1
  PROVE  LET r == SubSeq(l, k, Len(l)) \o SubSeq(l, 1, k - 1) IN
         r \in Seq(S) /\ Once(r) /\ ToSet(r) = ToSet(l)
<1> DEFINE r == SubSeq(l, k, Len(l)) \o SubSeq(l, 1, k - 1)
           P == 1 .. Len(l)
           n == Len(l) - k + 1
           p == [i \in 1 .. Len(r) |-> IF i <= n THEN i + k - 1 ELSE i - n]
<1>1. /\ r \in Seq(S) /\ Len(r) = Len(l)
      /\ \A i \in 1 .. Len(l) : r[i] = IF i <= n THEN l[i + k - 1] ELSE l[i - n]
  BY RotateIndices
<1> HIDE DEF r
<1>2. /\ p \in [1 .. Len(r) -> P]
      /\ \A i \in 1 .. Len(r) : r[i] = l[p[i]]
      /\ \A i, j \in 1 .. Len(r) : p[i] = p[j] => i = j
  BY <1>1
<1>3. ASSUME NEW j \in P PROVE \E i \in 1 .. Len(r) : p[i] = j
  <2>1. CASE j >= k
    <3>1. j - k + 1 \in 1 .. Len(r) /\ p[j - k + 1] = j
      BY <2>1, <1>1
    <3> QED BY <3>1
  <2>2. CASE j < k
    <3>1. j + n \in 1 .. Len(r) /\ p[j + n] = j
      BY <2>2, <1>1
    <3> QED BY <3>1
  <2> QED BY <2>1, <2>2
<1>4. P \in SUBSET (1 .. Len(l))
  OBVIOUS
<1>5. {l[j] : j \in P} = ToSet(l)
  BY DEF ToSet
<1> HIDE DEF P, p
<1>6. Picks(r, l, P, p)
  BY <1>2, <1>3, Zenon DEF Picks
<1>7. Once(r) /\ ToSet(r) = {l[j] : j \in P}
  BY <1>1, <1>4, <1>6, Picked
<1> QED BY <1>1, <1>5, <1>7 DEF r

\* A new element in front.
LEMMA PushOnce ==
  ASSUME NEW S, NEW l \in Seq(S), Once(l), NEW x \in S, x \notin ToSet(l)
  PROVE  /\ <<x>> \o l \in Seq(S)
         /\ Once(<<x>> \o l)
         /\ ToSet(<<x>> \o l) = ToSet(l) \cup {x}
<1> DEFINE h == <<x>>
           r == h \o l
<1>1. h \in Seq(S) /\ Len(h) = 1 /\ h[1] = x
  OBVIOUS
<1> HIDE DEF h
<1>2. /\ r \in Seq(S) /\ Len(r) = Len(h) + Len(l)
      /\ \A i \in 1 .. Len(h) + Len(l) :
           r[i] = IF i <= Len(h) THEN h[i] ELSE l[i - Len(h)]
  BY <1>1, Concat
<1> HIDE DEF r
<1>3. /\ DOMAIN r = 1 .. Len(l) + 1 /\ Len(r) = Len(l) + 1
      /\ DOMAIN l = 1 .. Len(l) /\ Len(l) \in Nat
      /\ r[1] = x
      /\ \A i \in 2 .. Len(l) + 1 : r[i] = l[i - 1]
      /\ \A i \in 1 .. Len(l) : r[i + 1] = l[i]
  BY <1>1, <1>2
<1>4. \A i \in 1 .. Len(l) : l[i] # x
  BY <1>3 DEF ToSet
<1>5. Once(r)
  <2> SUFFICES ASSUME NEW i \in 1 .. Len(l) + 1, NEW j \in 1 .. Len(l) + 1,
                      r[i] = r[j]
               PROVE  i = j
    BY <1>3 DEF Once
  <2>1. CASE i = 1 \/ j = 1
    <3>1. ASSUME NEW m \in 1 .. Len(l) + 1, m # 1 PROVE r[m] # x
      <4>1. m - 1 \in 1 .. Len(l) /\ r[m] = l[m - 1]
        BY <3>1, <1>3
      <4> QED BY <4>1, <1>4
    <3>2. r[i] = x /\ r[j] = x
      BY <2>1, <1>3
    <3> QED BY <3>1, <3>2
  <2>2. CASE i # 1 /\ j # 1
    <3>1. i - 1 \in 1 .. Len(l) /\ j - 1 \in 1 .. Len(l) /\ l[i - 1] = l[j - 1]
      BY <2>2, <1>3
    <3> QED BY <3>1, <1>3 DEF Once
  <2> QED BY <2>1, <2>2
<1>6. ASSUME NEW y \in ToSet(r) PROVE y \in ToSet(l) \cup {x}
  <2>1. PICK i \in 1 .. Len(l) + 1 : r[i] = y
    BY <1>3 DEF ToSet
  <2>2. CASE i = 1
    BY <2>1, <2>2, <1>3
  <2>3. CASE i # 1
    <3>1. i - 1 \in 1 .. Len(l) /\ l[i - 1] = y
      BY <2>1, <2>3, <1>3
    <3> QED BY <3>1, <1>3 DEF ToSet
  <2> QED BY <2>2, <2>3
<1>7. ASSUME NEW y \in ToSet(l) PROVE y \in ToSet(r)
  <2>1. PICK i \in 1 .. Len(l) : l[i] = y
    BY <1>3 DEF ToSet
  <2>2. i + 1 \in 1 .. Len(l) + 1 /\ r[i + 1] = y
    BY <2>1, <1>3
  <2> QED BY <2>2, <1>3 DEF ToSet
<1>8. x \in ToSet(r)
  BY <1>3 DEF ToSet
<1> QED BY <1>2, <1>5, <1>6, <1>7, <1>8 DEF r, h
-----------------------------------------------------------------------------
\* The units a request takes.
Need(src) == SLOB_UNITS(AllocSize(src))

\* A thread's local variables.
Locals == [src : Sources \cup {NoSrc}, page : Frames \cup {NoFrame},
           delta : {-1, 0, 1}, reg : 0 .. ULONG - 1]

\* A thread holds a SLOB page that is not in the heap yet, or not any more.
Holds(t) == pc[t] \in {"addpage", "putpage"}

\* Such pages are SLOB pages, and no two threads hold the same one.
HeldApart ==
  \A t \in Threads : Holds(t) =>
    /\ loc[t].page \in PageSlab
    /\ \A u \in Threads : u # t /\ Holds(u) => loc[u].page # loc[t].page

\* A thread that is after a new page serves a request of less than a page.
Asking ==
  \A t \in Threads : pc[t] \in {"newpage", "addpage"} =>
    loc[t].src \in Sources /\ FromSlob(loc[t].src)

\* What slob_free will compute from a block is what slob_alloc gave.
Sized == \A b \in blocks : b.units = Need(b.src)

\* Callbacks are only queued for objects of a SLAB_DESTROY_BY_RCU cache.
RcuOnly == \A b \in rcu : b.src.kind = "rcu"

\* The inductive invariant.
IInv == /\ TypeOK /\ BlocksApart /\ ListsExact /\ NoEmptyPage /\ NoBug
        /\ HeldApart /\ Asking /\ Sized /\ RcuOnly
-----------------------------------------------------------------------------
(* Requests and blocks. *)

\* A page has units.
LEMMA PageUnitsNat == PAGE_UNITS \in Nat \ {0}
BY PageUnitsAssumption

\* The header and the footer make no request empty, and less than a page of
\* bytes is at most a page of units.
LEMMA SourceFacts ==
  ASSUME NEW src \in Sources
  PROVE  /\ src.align \in Nat
         /\ FreeSize(src) = AllocSize(src)
         /\ Need(src) \in Nat \ {0}
         /\ FromSlob(src) => Need(src) <= PAGE_UNITS
<1>1. src.size \in Nat \ {0} /\ src.align \in Nat
  <2>1. CASE \E n \in KmallocSizes : src = KmallocSrc(n)
    BY <2>1, SlobAssumption DEF KmallocSrc, SLOB_UNIT
  <2>2. CASE \E c \in Caches : src = CacheSrc(c)
    BY <2>2, SlobAssumption DEF CacheSrc
  <2> QED BY <2>1, <2>2 DEF Sources
<1>2. AllocSize(src) \in Nat \ {0}
  BY <1>1, SlobAssumption DEF AllocSize
<1>3. Need(src) \in Nat \ {0}
  BY <1>2 DEF Need, SLOB_UNITS, SLOB_UNIT
<1>4. FromSlob(src) => Need(src) <= PAGE_UNITS
  BY <1>2, PageUnitsNat
  DEF FromSlob, Need, SLOB_UNITS, SLOB_UNIT, PAGE_SIZE
<1> QED BY <1>1, <1>3, <1>4 DEF FreeSize, AllocSize

\* A block occupies as many units as it says.
LEMMA SpanFacts ==
  ASSUME NEW b, b.off \in Units, b.units \in 1 .. PAGE_UNITS
  PROVE  /\ IsFiniteSet(Span(b)) /\ Cardinality(Span(b)) = b.units
         /\ b.off \in Span(b)
<1>1. b.off \in Int /\ b.off + b.units - 1 \in Int /\ b.units >= 1
  BY PageUnitsNat DEF Units
<1>2. /\ IsFiniteSet(b.off .. b.off + b.units - 1)
      /\ Cardinality(b.off .. b.off + b.units - 1) = b.units
  BY <1>1, FS_Interval
<1> QED BY <1>1, <1>2 DEF Span

\* The free units of a page are finitely many, and without blocks all of them.
LEMMA FreeFinite ==
  ASSUME NEW bs
  PROVE  /\ IsFiniteSet(FreeUnits(bs)) /\ Cardinality(FreeUnits(bs)) \in 0 .. PAGE_UNITS
         /\ IsFiniteSet(Units) /\ Cardinality(Units) = PAGE_UNITS
<1>1. IsFiniteSet(Units) /\ Cardinality(Units) = PAGE_UNITS
  BY FS_Interval, PageUnitsNat DEF Units
<1>2. FreeUnits(bs) \subseteq Units
  BY DEF FreeUnits
<1>3. IsFiniteSet(FreeUnits(bs)) /\ Cardinality(FreeUnits(bs)) <= Cardinality(Units)
  BY <1>1, <1>2, FS_Subset
<1>4. Cardinality(FreeUnits(bs)) \in Nat
  BY <1>3, FS_CardinalityType
<1> QED BY <1>1, <1>3, <1>4, PageUnitsNat

\* First fit finds room if there is any.
LEMMA FirstFitFacts ==
  ASSUME NEW free, NEW u, NEW align, Places(free, u, align) # {}
  PROVE  FirstFit(free, u, align) \in Places(free, u, align)
<1>1. Places(free, u, align) \subseteq Nat
  BY PageUnitsNat DEF Places, Units
<1>2. \E x \in Places(free, u, align) : \A y \in Places(free, u, align) : x <= y
  BY <1>1, Minimum
<1> QED BY <1>2 DEF FirstFit

\* A block placed in free units takes just these.
LEMMA Carved ==
  ASSUME NEW bs, NEW b, b.off \in Units, b.units \in 1 .. PAGE_UNITS,
         Span(b) \subseteq FreeUnits(bs)
  PROVE  /\ FreeUnits(bs \cup {b}) = FreeUnits(bs) \ Span(b)
         /\ Cardinality(FreeUnits(bs \cup {b})) = Cardinality(FreeUnits(bs)) - b.units
<1> DEFINE F == FreeUnits(bs)
           G == FreeUnits(bs \cup {b})
           S == Span(b)
<1>1. G = F \ S /\ F = G \cup S /\ G \cap S = {}
  BY DEF FreeUnits
<1>2. /\ IsFiniteSet(S) /\ Cardinality(S) = b.units
      /\ IsFiniteSet(F) /\ Cardinality(F) \in Nat
      /\ IsFiniteSet(G) /\ Cardinality(G) \in Nat
  BY SpanFacts, FreeFinite, PageUnitsNat
<1> HIDE DEF F, G, S
<1>3. Cardinality(F) = Cardinality(G) + Cardinality(S)
  BY <1>1, <1>2, DisjointUnion
<1>4. Cardinality(G) = Cardinality(F) - b.units
  BY <1>2, <1>3
<1> QED BY <1>1, <1>4 DEF F, G, S

\* A block that goes gives its units back, and no others; if the page is free
\* then, it was the last block.
LEMMA Returned ==
  ASSUME NEW bs, NEW b \in bs,
         \A c \in bs : c.off \in Units /\ c.units \in 1 .. PAGE_UNITS,
         \A c \in bs : Span(c) \subseteq Units,
         \A c \in bs : c # b => Span(c) \cap Span(b) = {}
  PROVE  /\ FreeUnits(bs \ {b}) = FreeUnits(bs) \cup Span(b)
         /\ Cardinality(FreeUnits(bs \ {b})) = Cardinality(FreeUnits(bs)) + b.units
         /\ Cardinality(FreeUnits(bs)) + b.units = PAGE_UNITS => bs = {b}
<1> DEFINE F == FreeUnits(bs)
           G == FreeUnits(bs \ {b})
           S == Span(b)
<1>1. G = F \cup S /\ F \cap S = {}
  BY DEF FreeUnits
<1>2. /\ IsFiniteSet(S) /\ Cardinality(S) = b.units
      /\ IsFiniteSet(F) /\ Cardinality(F) \in Nat
      /\ IsFiniteSet(G) /\ Cardinality(G) \in Nat
      /\ IsFiniteSet(Units) /\ Cardinality(Units) = PAGE_UNITS
  BY SpanFacts, FreeFinite, PageUnitsNat
<1>0. G \subseteq Units
  BY DEF FreeUnits
<1>3. ASSUME G = Units PROVE bs = {b}
  <2> SUFFICES ASSUME NEW c \in bs, c # b PROVE FALSE
    OBVIOUS
  <2>1. c.off \in Span(c) /\ c.off \in Units
    BY SpanFacts
  <2> QED BY <2>1, <1>3 DEF FreeUnits
<1> HIDE DEF F, G, S
<1>4. Cardinality(G) = Cardinality(F) + b.units
  BY <1>1, <1>2, DisjointUnion
<1>5. ASSUME Cardinality(F) + b.units = PAGE_UNITS PROVE bs = {b}
  BY <1>0, <1>2, <1>3, <1>4, <1>5, FS_Subset
<1> QED BY <1>1, <1>4, <1>5 DEF F, G, S
-----------------------------------------------------------------------------
(* The three lists. *)

\* The pages on some list.
OnAny(L) == UNION {ToSet(L[n]) : n \in Lists}

\* No page is on a list twice, or on two lists.
Listed(L) ==
  /\ \A n \in Lists : Once(L[n])
  /\ \A n, m \in Lists : n # m => ToSet(L[n]) \cap ToSet(L[m]) = {}

\* A page is on some list.
LEMMA OnAnyList ==
  ASSUME NEW L PROVE \A x : x \in OnAny(L) <=> \E n \in Lists : x \in ToSet(L[n])
BY DEF OnAny

\* That is what ListsExact says place by place.
LEMMA ListedPlaces ==
  ASSUME NEW L \in [Lists -> Seq(Frames)]
  PROVE  Listed(L) <=>
           \A n, m \in Lists : \A i \in DOMAIN L[n], j \in DOMAIN L[m] :
             L[n][i] = L[m][j] => n = m /\ i = j
<1>1. \A n \in Lists : L[n] \in Seq(Frames) /\ DOMAIN L[n] = 1 .. Len(L[n])
  OBVIOUS
<1>2. ASSUME Listed(L), NEW n \in Lists, NEW m \in Lists,
             NEW i \in DOMAIN L[n], NEW j \in DOMAIN L[m], L[n][i] = L[m][j]
      PROVE  n = m /\ i = j
  <2>1. L[n][i] \in ToSet(L[n]) /\ L[m][j] \in ToSet(L[m])
    BY DEF ToSet
  <2>2. n = m
    BY <1>2, <2>1 DEF Listed
  <2> QED BY <1>1, <1>2, <2>2 DEF Listed, Once
<1>3. ASSUME \A n, m \in Lists : \A i \in DOMAIN L[n], j \in DOMAIN L[m] :
               L[n][i] = L[m][j] => n = m /\ i = j
      PROVE  Listed(L)
  <2>1. \A n \in Lists : Once(L[n])
    BY <1>1, <1>3 DEF Once
  <2>2. ASSUME NEW n \in Lists, NEW m \in Lists, n # m
        PROVE  ToSet(L[n]) \cap ToSet(L[m]) = {}
    BY <1>3, <2>2 DEF ToSet
  <2> QED BY <2>1, <2>2 DEF Listed
<1> QED BY <1>2, <1>3

\* The lists after a page f came to the front of list n, after a search that
\* left u units on the k-th page of list n, and after list_del of f.
Pushed(L, n, f)     == [L EXCEPT ![n] = <<f>> \o @]
Rotated(L, n, k, u) == [L EXCEPT ![n] = RotateTo(Unlink(@, k, u), k)]
Delisted(L, f)      == [n \in Lists |-> Delist(L[n], f)]

\* A page comes to the front of a list.
LEMMA ListPush ==
  ASSUME NEW L \in [Lists -> Seq(Frames)], Listed(L), NEW n \in Lists,
         NEW f \in Frames, f \notin OnAny(L)
  PROVE  LET M == Pushed(L, n, f) IN
         /\ M \in [Lists -> Seq(Frames)] /\ Listed(M)
         /\ OnAny(M) = OnAny(L) \cup {f}
<1> DEFINE l == <<f>> \o L[n]
           M == [L EXCEPT ![n] = l]
<1>1. L[n] \in Seq(Frames) /\ Once(L[n]) /\ f \notin ToSet(L[n])
  BY DEF Listed, OnAny
<1>2. l \in Seq(Frames) /\ Once(l) /\ ToSet(l) = ToSet(L[n]) \cup {f}
  BY <1>1, PushOnce
<1> HIDE DEF l
<1>3. M \in [Lists -> Seq(Frames)] /\ M[n] = l /\ \A m \in Lists \ {n} : M[m] = L[m]
  BY <1>2
<1> HIDE DEF M
<1>4. Listed(M)
  <2>1. \A m \in Lists \ {n} : f \notin ToSet(L[m])
    BY OnAnyList
  <2>2. ASSUME NEW m \in Lists
        PROVE  /\ Once(M[m])
               /\ ToSet(M[m]) = ToSet(L[m]) \cup (IF m = n THEN {f} ELSE {})
    BY <1>2, <1>3 DEF Listed
  <2>3. ASSUME NEW m \in Lists, NEW o \in Lists, m # o
        PROVE  ToSet(M[m]) \cap ToSet(M[o]) = {}
    <3>1. ToSet(L[m]) \cap ToSet(L[o]) = {}
      BY <2>3 DEF Listed
    <3>2. CASE m = n
      BY <1>2, <1>3, <2>1, <2>3, <3>1, <3>2
    <3>3. CASE o = n
      BY <1>2, <1>3, <2>1, <2>3, <3>1, <3>3
    <3>4. CASE m # n /\ o # n
      BY <1>3, <3>1, <3>4
    <3> QED BY <3>2, <3>3, <3>4
  <2> QED BY <2>2, <2>3 DEF Listed
<1>5. OnAny(M) = OnAny(L) \cup {f}
  <2>1. \A m \in Lists :
          ToSet(M[m]) = ToSet(L[m]) \cup (IF m = n THEN {f} ELSE {})
    BY <1>2, <1>3
  <2>2. \A x : x \in OnAny(M) <=> x \in OnAny(L) \/ x = f
    BY <2>1, OnAnyList
  <2> QED BY <2>2
<1> QED BY <1>3, <1>4, <1>5 DEF Pushed, M, l

\* The search leaves a list rotated to start at its k-th place, with the page
\* there or, if that page became full, without it.
LEMMA ListRotate ==
  ASSUME NEW L \in [Lists -> Seq(Frames)], Listed(L), NEW n \in Lists,
         NEW k \in 1 .. Len(L[n]), NEW u
  PROVE  LET M == Rotated(L, n, k, u) IN
         /\ M \in [Lists -> Seq(Frames)] /\ Listed(M)
         /\ OnAny(M) = IF u = 0 THEN OnAny(L) \ {L[n][k]} ELSE OnAny(L)
<1> DEFINE l == Unlink(L[n], k, u)
           r == RotateTo(l, k)
           M == [L EXCEPT ![n] = r]
           gone == IF u = 0 THEN {L[n][k]} ELSE {}
<1>1. L[n] \in Seq(Frames) /\ Once(L[n]) /\ L[n][k] \in ToSet(L[n])
  BY DEF Listed, ToSet
<1>2. /\ l \in Seq(Frames) /\ Once(l) /\ ToSet(l) = ToSet(L[n]) \ gone
      /\ k \in 1 .. Len(l) + 1
  <2>1. CASE u = 0
    BY <1>1, <2>1, RemoveAtOnce, RemoveAtIndices DEF Unlink
  <2>2. CASE u # 0
    BY <1>1, <2>2 DEF Unlink
  <2> QED BY <2>1, <2>2
<1> HIDE DEF l
<1>3. r \in Seq(Frames) /\ Once(r) /\ ToSet(r) = ToSet(l)
  BY <1>2, RotateOnce DEF RotateTo
<1> HIDE DEF r
<1>4. M \in [Lists -> Seq(Frames)] /\ M[n] = r /\ \A m \in Lists \ {n} : M[m] = L[m]
  BY <1>3
<1>5. \A m \in Lists \ {n} : L[n][k] \notin ToSet(L[m])
  BY <1>1 DEF Listed
<1> HIDE DEF M
<1> HIDE DEF gone
<1>6. \A m \in Lists \ {n} : ToSet(L[m]) \cap gone = {}
  BY <1>5 DEF gone
<1>7. \A m \in Lists : Once(M[m]) /\ ToSet(M[m]) = ToSet(L[m]) \ gone
  BY <1>2, <1>3, <1>4, <1>6 DEF Listed
<1>8. Listed(M)
  BY <1>7 DEF Listed
<1>9. OnAny(M) = OnAny(L) \ gone
  BY <1>7, OnAnyList
<1> QED BY <1>4, <1>8, <1>9 DEF Rotated, M, r, l, gone

\* list_del takes a page off whichever list it is on.
LEMMA ListDelist ==
  ASSUME NEW L \in [Lists -> Seq(Frames)], Listed(L), NEW f
  PROVE  LET M == Delisted(L, f) IN
         /\ M \in [Lists -> Seq(Frames)] /\ Listed(M)
         /\ OnAny(M) = OnAny(L) \ {f}
<1> DEFINE M == [n \in Lists |-> Delist(L[n], f)]
<1>1. ASSUME NEW n \in Lists
      PROVE  /\ M[n] \in Seq(Frames) /\ Once(M[n])
             /\ ToSet(M[n]) = ToSet(L[n]) \ {f}
  <2> DEFINE l == L[n]
  <2>1. l \in Seq(Frames) /\ Once(l) /\ M[n] = Delist(l, f) /\ DOMAIN l = 1 .. Len(l)
    BY DEF Listed
  <2> HIDE DEF l, M
  <2>2. CASE f \notin ToSet(l)
    BY <2>1, <2>2 DEF Delist, l
  <2>3. CASE f \in ToSet(l)
    <3> DEFINE i == CHOOSE i \in DOMAIN l : l[i] = f
    <3>1. i \in 1 .. Len(l) /\ l[i] = f
      BY <2>1, <2>3 DEF ToSet
    <3>2. M[n] = RemoveAt(l, i)
      BY <2>1, <2>3 DEF Delist
    <3> HIDE DEF i
    <3> QED BY <2>1, <3>1, <3>2, RemoveAtOnce DEF l
  <2> QED BY <2>2, <2>3
<1>2. M \in [Lists -> Seq(Frames)]
  BY <1>1
<1> HIDE DEF M
<1>3. Listed(M)
  BY <1>1 DEF Listed
<1>4. OnAny(M) = OnAny(L) \ {f}
  BY <1>1, OnAnyList
<1> QED BY <1>2, <1>3, <1>4 DEF Delisted, M
-----------------------------------------------------------------------------
(* The search of slob_alloc. *)

\* The inner loop settles on a page that it has seen and that has the units.
LEMMA BestFacts ==
  ASSUME NEW l \in Seq(Frames), NEW i \in 1 .. Len(l), NEW need \in Nat,
         units \in [Frames -> Nat], units[l[i]] >= need
  PROVE  /\ Best(l, i, need) \in 1 .. Len(l)
         /\ units[l[Best(l, i, need)]] >= need
<1> DEFINE C == {k \in 1 .. i : (k = i \/ k <= ScanLimit) /\ units[l[k]] >= need}
           M == {k \in C : \A j \in C : units[l[k]] <= units[l[j]]}
           V == {units[l[k]] : k \in C}
<1>1. C \subseteq 1 .. Len(l) /\ i \in C
  OBVIOUS
<1>2. \A k \in 1 .. Len(l) : units[l[k]] \in Nat
  OBVIOUS
<1>3. V \subseteq Nat /\ V # {}
  BY <1>1, <1>2
<1>4. M # {}
  <2>1. PICK v \in V : \A w \in V : v <= w
    <3> HIDE DEF V
    <3> QED BY <1>3, Minimum
  <2> HIDE DEF C
  <2>2. PICK k \in C : units[l[k]] = v
    OBVIOUS
  <2>3. k \in M
    BY <2>1, <2>2
  <2> QED BY <2>3
<1>5. M \subseteq Nat /\ M \subseteq C
  BY <1>1
<1>6. \E k \in M : \A j \in M : k <= j
  <2> HIDE DEF M
  <2> QED BY <1>4, <1>5, Minimum
<1>7. Best(l, i, need) \in M
  <2>1. Best(l, i, need) =
          IF i \in M THEN i ELSE CHOOSE k \in M : \A j \in M : k <= j
    BY DEF Best
  <2> HIDE DEF M
  <2> QED BY <1>6, <2>1
<1>8. Best(l, i, need) \in C
  BY <1>5, <1>7
<1> QED BY <1>1, <1>8

\* The page that a successful search takes the block from.
LEMMA HitFacts ==
  ASSUME NEW l \in Seq(Frames), NEW src \in Sources,
         units \in [Frames -> Nat], Hits(l, src) # {}
  PROVE  LET i == CHOOSE i \in Hits(l, src) : \A j \in Hits(l, src) : i <= j
             k == Best(l, i, Need(src))
         IN  /\ k \in 1 .. Len(l)
             /\ units[l[k]] >= Need(src)
             /\ CanPlace(l[k], src)
<1> DEFINE H == Hits(l, src)
           i == CHOOSE i \in H : \A j \in H : i <= j
<1>1. H = {j \in 1 .. Len(l) : /\ units[l[j]] >= Need(src)
                               /\ CanPlace(l[Best(l, j, Need(src))], src)}
  BY DEF Hits, Need
<1>2. H \subseteq Nat
  BY <1>1
<1>3. \E j \in H : \A m \in H : j <= m
  BY <1>2, Minimum
<1>4. i \in H
  BY <1>3
<1> HIDE DEF i, H
<1>5. /\ i \in 1 .. Len(l) /\ units[l[i]] >= Need(src)
      /\ CanPlace(l[Best(l, i, Need(src))], src)
  BY <1>1, <1>4
<1>6. Need(src) \in Nat
  BY SourceFacts
<1> QED BY <1>5, <1>6, BestFacts DEF i, H
-----------------------------------------------------------------------------
(* One block more, one block less. *)

\* A block carved from page f: it lies in units that were free, it is new, and
\* the other pages are not concerned.
LEMMA TakeBlock ==
  ASSUME IInv, NEW f \in Frames, NEW src \in Sources, FromSlob(src),
         CanPlace(f, src), blocks' = blocks \cup {NewBlock(f, Free(f), src)}
  PROVE  /\ blocks' \subseteq Blocks
         /\ \A b, c \in blocks' : b # c /\ b.page = c.page => Span(b) \cap Span(c) = {}
         /\ \A b \in blocks' : b \in blocks \/ b.page = f
         /\ \A b \in blocks' : Span(b) \subseteq Units
         /\ BlocksOf(f)' # {}
         /\ Sized'
         /\ \A g \in Frames : g # f => BlocksOf(g)' = BlocksOf(g) /\ Free(g)' = Free(g)
         /\ Cardinality(Free(f)') = Cardinality(Free(f)) - Need(src)
<1> DEFINE nb == NewBlock(f, Free(f), src)
<1>1. /\ nb.page = f /\ nb.src = src /\ nb.units = Need(src)
      /\ nb.off \in Places(Free(f), Need(src), src.align)
      /\ nb = [page |-> f, src |-> src, units |-> nb.units, off |-> nb.off]
  BY FirstFitFacts DEF NewBlock, CanPlace, Need
<1>2. nb.units \in 1 .. PAGE_UNITS
  BY <1>1, SourceFacts, PageUnitsNat
<1> HIDE DEF nb
<1>3. nb.off \in Units /\ Span(nb) \subseteq Free(f)
  BY <1>1 DEF Places, Span
<1>4. nb \in Blocks
  BY <1>1, <1>2, <1>3 DEF Blocks
<1>5. \A c \in blocks : c.page = f => Span(c) \cap Span(nb) = {}
  BY <1>3 DEF Free, FreeUnits, BlocksOf
<1>6. blocks' = blocks \cup {nb}
  BY DEF nb
<1>7. blocks \subseteq Blocks
  BY DEF IInv, TypeOK
<1>8. BlocksOf(f)' = BlocksOf(f) \cup {nb}
  BY <1>1, <1>6 DEF BlocksOf
<1>9. \A g \in Frames : g # f => BlocksOf(g)' = BlocksOf(g) /\ Free(g)' = Free(g)
  BY <1>1, <1>6 DEF BlocksOf, Free
<1>10. Cardinality(Free(f)') = Cardinality(Free(f)) - Need(src)
  <2>1. Cardinality(FreeUnits(BlocksOf(f) \cup {nb}))
          = Cardinality(FreeUnits(BlocksOf(f))) - nb.units
    BY <1>2, <1>3, Carved DEF Free
  <2> QED BY <1>1, <1>8, <2>1 DEF Free
<1>11. \A b, c \in blocks' : b # c /\ b.page = c.page => Span(b) \cap Span(c) = {}
  BY <1>1, <1>5, <1>6 DEF IInv, BlocksApart
<1>12. \A b \in blocks' : Span(b) \subseteq Units
  <2>1. Span(nb) \subseteq Units
    BY <1>3 DEF Free, FreeUnits
  <2> QED BY <1>6, <2>1 DEF IInv, BlocksApart
<1>13. Sized'
  BY <1>1, <1>6 DEF Sized, Need, IInv
<1> QED BY <1>1, <1>4, <1>6, <1>7, <1>8, <1>9, <1>10, <1>11, <1>12, <1>13

\* A block that is given back: its units are free again, the other pages are
\* not concerned, and the test of slob_free recognises the last block.
LEMMA GiveBlock ==
  ASSUME IInv, NEW b \in blocks, blocks' = blocks \ {b}
  PROVE  /\ b.page \in Frames /\ b.page \in HeapPages
         /\ SLOB_UNITS(FreeSize(b.src)) = b.units
         /\ b.units \in 1 .. PAGE_UNITS
         /\ \A g \in Frames : g # b.page => BlocksOf(g)' = BlocksOf(g) /\ Free(g)' = Free(g)
         /\ Cardinality(Free(b.page)') = Cardinality(Free(b.page)) + b.units
         /\ Free(b.page)' # {}
         /\ LastBlock(b) <=> BlocksOf(b.page)' = {}
<1> DEFINE f == b.page
<1>1. /\ b \in Blocks /\ f \in Frames /\ f \in HeapPages /\ b.src \in Sources
      /\ b.units \in 1 .. PAGE_UNITS /\ b.off \in Units /\ b.units = Need(b.src)
  BY DEF IInv, TypeOK, Blocks, BlocksApart, Sized
<1>2. SLOB_UNITS(FreeSize(b.src)) = b.units
  BY <1>1, SourceFacts DEF Need
<1>3. units[f] = Cardinality(Free(f))
  BY <1>1 DEF IInv, ListsExact
<1>4. BlocksOf(f)' = BlocksOf(f) \ {b} /\ b \in BlocksOf(f)
  BY DEF BlocksOf
<1>5. \A g \in Frames : g # f => BlocksOf(g)' = BlocksOf(g) /\ Free(g)' = Free(g)
  BY DEF BlocksOf, Free
<1>6. /\ \A c \in BlocksOf(f) : c.off \in Units /\ c.units \in 1 .. PAGE_UNITS
      /\ \A c \in BlocksOf(f) : Span(c) \subseteq Units
      /\ \A c \in BlocksOf(f) : c # b => Span(c) \cap Span(b) = {}
  BY DEF BlocksOf, IInv, TypeOK, Blocks, BlocksApart
<1> HIDE DEF f
<1>7. /\ FreeUnits(BlocksOf(f) \ {b}) = Free(f) \cup Span(b)
      /\ Cardinality(FreeUnits(BlocksOf(f) \ {b})) = Cardinality(Free(f)) + b.units
      /\ Cardinality(Free(f)) + b.units = PAGE_UNITS => BlocksOf(f) = {b}
  BY <1>4, <1>6, Returned DEF Free
<1>8. /\ Free(f)' = Free(f) \cup Span(b)
      /\ Cardinality(Free(f)') = Cardinality(Free(f)) + b.units
  BY <1>4, <1>7 DEF Free
<1>9. Free(f)' # {}
  BY <1>1, <1>8, SpanFacts
<1>10. ASSUME LastBlock(b) PROVE BlocksOf(f)' = {}
  BY <1>2, <1>3, <1>4, <1>7, <1>10 DEF LastBlock, f
<1>11. ASSUME BlocksOf(f)' = {} PROVE LastBlock(b)
  <2>1. Free(f)' = Units
    BY <1>11 DEF Free, FreeUnits
  <2>2. Cardinality(Units) = PAGE_UNITS
    BY FreeFinite
  <2> QED BY <1>2, <1>3, <1>8, <2>1, <2>2 DEF LastBlock, f
<1> QED BY <1>1, <1>2, <1>5, <1>8, <1>9, <1>10, <1>11 DEF f

\* The blocks that stay are as apart as before.
LEMMA StayApart ==
  ASSUME IInv, NEW b \in blocks, blocks' = blocks \ {b}
  PROVE  /\ blocks' \subseteq Blocks
         /\ \A c, d \in blocks' : c # d /\ c.page = d.page => Span(c) \cap Span(d) = {}
         /\ \A c \in blocks' : Span(c) \subseteq Units
         /\ Sized'
BY DEF IInv, TypeOK, BlocksApart, Sized, Need

\* The units of a page that is full, and of one that is not.
LEMMA Counted ==
  ASSUME NEW f, Cardinality(Free(f)) \in Nat
  PROVE  Free(f) = {} <=> Cardinality(Free(f)) = 0
BY FreeFinite, FS_EmptySet DEF Free

\* A step that leaves the heap alone.
LEMMA HeapStill ==
  ASSUME IInv, HeapPages' = HeapPages, UNCHANGED <<units, slobfree, lists, blocks>>
  PROVE  /\ ListsExact' /\ NoEmptyPage' /\ Sized'
         /\ \A b \in blocks' : b.page \in HeapPages' /\ Span(b) \subseteq Units
         /\ \A b, c \in blocks' : b # c /\ b.page = c.page => Span(b) \cap Span(c) = {}
<1>1. \A g : BlocksOf(g)' = BlocksOf(g) /\ Free(g)' = Free(g)
  BY DEF BlocksOf, Free
<1>2. Partial' = Partial
  BY <1>1 DEF Partial
<1> QED BY <1>1, <1>2 DEF IInv, ListsExact, NoEmptyPage, Sized, Need, BlocksApart
-----------------------------------------------------------------------------
(* The invariant. *)

\* The heap is empty when the kernel starts.
LEMMA InitIInv == Init => IInv
<1> SUFFICES ASSUME Init PROVE IInv
  OBVIOUS
<1>1. ULONG \in Nat /\ ULONG > 0
  BY SlobAssumption, FS_CardinalityType
<1>2. TypeOK
  BY <1>1, PageUnitsNat DEF Init, TypeOK, NoLoc, NoSrc, Lists
<1>3. HeapPages = {} /\ Partial = {}
  BY DEF Init, HeapPages, Partial
<1>4. BlocksApart /\ NoEmptyPage /\ NoBug
  BY <1>3 DEF Init, BlocksApart, NoEmptyPage, NoBug
<1>5. ListsExact
  <2>1. \A n \in Lists : lists[n] = <<>>
    BY DEF Init
  <2>2. \A n \in Lists : ToSet(lists[n]) = {} /\ DOMAIN lists[n] = {}
    BY <2>1 DEF ToSet
  <2> QED BY <1>3, <2>2 DEF Init, ListsExact
<1>6. HeldApart /\ Asking /\ Sized /\ RcuOnly
  BY DEF Init, HeldApart, Holds, Asking, Sized, RcuOnly
<1> QED BY <1>2, <1>4, <1>5, <1>6 DEF IInv

\* Each size belongs to one of the three lists.
LEMMA ListForType == \A size : ListFor(size) \in Lists
BY DEF ListFor, Lists

\* What a successful search does: it takes the block from page f, the k-th of
\* the list, and leaves "left" units there.
LEMMA AllocHitEffect ==
  ASSUME IInv, NEW t \in Threads, NEW src \in Sources, AllocHit(t, src)
  PROVE  LET ln == ListFor(AllocSize(src)) IN
         \E k \in 1 .. Len(lists[ln]), f \in Frames, left \in Int :
           /\ f = lists[ln][k] /\ f \in ToSet(lists[ln])
           /\ left = units[f] - Need(src) /\ units[f] >= Need(src)
           /\ CanPlace(f, src)
           /\ blocks' = blocks \cup {NewBlock(f, Free(f), src)}
           /\ units' = [units EXCEPT ![f] = left]
           /\ slobfree' = IF left = 0 THEN slobfree \ {f} ELSE slobfree
           /\ lists' = [lists EXCEPT ![ln] = RotateTo(Unlink(lists[ln], k, left), k)]
<1> DEFINE ln   == ListFor(AllocSize(src))
           l    == lists[ln]
           hits == Hits(l, src)
           k    == Best(l, CHOOSE i \in hits : \A j \in hits : i <= j, Need(src))
           f    == l[k]
           left == units[f] - Need(src)
<1>1. ln \in Lists /\ l \in Seq(Frames) /\ units \in [Frames -> Nat]
  BY ListForType, PageUnitsNat DEF IInv, TypeOK
<1>2. /\ hits # {}
      /\ blocks' = blocks \cup {NewBlock(f, Free(f), src)}
      /\ units' = [units EXCEPT ![f] = left]
      /\ slobfree' = IF left = 0 THEN slobfree \ {f} ELSE slobfree
      /\ lists' = [lists EXCEPT ![ln] = RotateTo(Unlink(l, k, left), k)]
  BY DEF AllocHit, Need
<1>3. k \in 1 .. Len(l) /\ units[f] >= Need(src) /\ CanPlace(f, src)
  BY <1>1, <1>2, HitFacts
<1> HIDE DEF hits, k
<1>4. f \in Frames /\ f \in ToSet(l)
  BY <1>1, <1>3 DEF ToSet
<1>5. left \in Int
  BY <1>1, <1>4, SourceFacts
<1> HIDE DEF f, left
<1> QED BY <1>2, <1>3, <1>4, <1>5 DEF f, left

\* slob_alloc finds room in a page of its list.
LEMMA AllocHitIInv ==
  ASSUME IInv, NEW t \in Threads, NEW src \in Sources, AllocHit(t, src)
  PROVE  IInv'
<1> DEFINE ln == ListFor(AllocSize(src))
<1>1. ln \in Lists /\ units \in [Frames -> 0 .. PAGE_UNITS]
  BY ListForType DEF IInv, TypeOK
<1>2. PICK k \in 1 .. Len(lists[ln]), f \in Frames, left \in Int :
        /\ f = lists[ln][k] /\ f \in ToSet(lists[ln])
        /\ left = units[f] - Need(src) /\ units[f] >= Need(src)
        /\ CanPlace(f, src)
        /\ blocks' = blocks \cup {NewBlock(f, Free(f), src)}
        /\ units' = [units EXCEPT ![f] = left]
        /\ slobfree' = IF left = 0 THEN slobfree \ {f} ELSE slobfree
        /\ lists' = [lists EXCEPT ![ln] = RotateTo(Unlink(lists[ln], k, left), k)]
  BY AllocHitEffect
<1>3. FromSlob(src) /\ UNCHANGED <<avail, PageSlab, rcu, big, pages, pc, loc>>
  BY DEF AllocHit
<1>4. Need(src) \in Nat \ {0} /\ Need(src) <= PAGE_UNITS
  BY <1>3, SourceFacts
<1> HIDE DEF ln
<1>6. f \in Partial /\ f \in HeapPages
  BY <1>1, <1>2 DEF IInv, ListsExact, Partial
<1>7. HeapPages' = HeapPages
  BY <1>3 DEF HeapPages
<1>8. /\ blocks' \subseteq Blocks
      /\ \A b, c \in blocks' : b # c /\ b.page = c.page => Span(b) \cap Span(c) = {}
      /\ \A b \in blocks' : b \in blocks \/ b.page = f
      /\ \A b \in blocks' : Span(b) \subseteq Units
      /\ BlocksOf(f)' # {}
      /\ Sized'
      /\ \A g \in Frames : g # f => BlocksOf(g)' = BlocksOf(g) /\ Free(g)' = Free(g)
      /\ Cardinality(Free(f)') = Cardinality(Free(f)) - Need(src)
  BY <1>2, <1>3, TakeBlock
<1>9. left = Cardinality(Free(f)') /\ left \in 0 .. PAGE_UNITS
  <2>1. units[f] = Cardinality(Free(f))
    BY <1>6 DEF IInv, ListsExact
  <2>2. left = units[f] - Need(src) /\ units[f] >= Need(src)
    BY <1>2
  <2>3. Cardinality(Free(f)') = Cardinality(Free(f)) - Need(src)
    BY <1>8
  <2>4. units[f] \in 0 .. PAGE_UNITS
    BY <1>1
  <2> QED BY <1>4, <2>1, <2>2, <2>3, <2>4, PageUnitsNat
<1>10. /\ lists' \in [Lists -> Seq(Frames)] /\ Listed(lists')
       /\ OnAny(lists') = IF left = 0 THEN OnAny(lists) \ {f} ELSE OnAny(lists)
  <2>1. lists \in [Lists -> Seq(Frames)] /\ Listed(lists)
    BY ListedPlaces DEF IInv, TypeOK, ListsExact
  <2>2. lists' = Rotated(lists, ln, k, left)
    BY <1>2 DEF Rotated
  <2>3. ln \in Lists /\ k \in 1 .. Len(lists[ln]) /\ f = lists[ln][k]
    BY <1>1, <1>2
  <2> QED BY <2>1, <2>2, <2>3, ListRotate
<1>11. Free(f)' = {} <=> left = 0
  <2>1. IsFiniteSet(Free(f)')
    BY FreeFinite DEF Free
  <2> QED BY <1>9, <2>1, FS_EmptySet
<1>12. HeapPages \subseteq Frames
  BY DEF HeapPages, IInv, TypeOK
<1>13. Partial' = IF left = 0 THEN Partial \ {f} ELSE Partial
  BY <1>6, <1>7, <1>8, <1>11, <1>12 DEF Partial
<1>14. ListsExact'
  <2>1. slobfree' = Partial' /\ OnAny(lists') = Partial'
    BY <1>2, <1>10, <1>13 DEF IInv, ListsExact, OnAny
  <2>2. \A g \in HeapPages' : units'[g] = Cardinality(Free(g)')
    BY <1>1, <1>2, <1>7, <1>8, <1>9, <1>12 DEF IInv, ListsExact
  <2>3. UNION {ToSet(lists[n]) : n \in Lists}' = Partial'
    BY <2>1 DEF OnAny
  <2> QED BY <1>10, <2>1, <2>2, <2>3, ListedPlaces DEF ListsExact
<1>15. TypeOK'
  <2>1. units' \in [Frames -> 0 .. PAGE_UNITS]
    BY <1>1, <1>2, <1>9
  <2>2. slobfree' \subseteq Frames /\ rcu' \subseteq blocks'
    BY <1>2, <1>3 DEF IInv, TypeOK
  <2> QED BY <1>3, <1>8, <1>10, <2>1, <2>2 DEF IInv, TypeOK
<1>16. BlocksApart'
  BY <1>3, <1>6, <1>7, <1>8 DEF IInv, BlocksApart
<1>17. NoEmptyPage'
  BY <1>7, <1>8, <1>12 DEF IInv, NoEmptyPage
<1>18. NoBug' /\ HeldApart' /\ Asking' /\ RcuOnly'
  BY <1>3 DEF IInv, NoBug, HeldApart, Holds, Asking, RcuOnly
<1> QED BY <1>8, <1>14, <1>15, <1>16, <1>17, <1>18 DEF IInv

\* A step that only moves a thread that holds no page and will hold none.
LEMMA LocalIInv ==
  ASSUME IInv, NEW t \in Threads, ~Holds(t),
         NEW label \in {"idle", "newpage", "count", "store"}, NEW local,
         Goto(t, label, local),
         local \in Locals,
         label = "newpage" => local.src \in Sources /\ FromSlob(local.src),
         UNCHANGED <<avail, heap, rcu, big>>, pages' \in 0 .. ULONG - 1
  PROVE  IInv'
<1>1. /\ pc' = [pc EXCEPT ![t] = label] /\ loc' = [loc EXCEPT ![t] = local]
      /\ pc \in [Threads -> {"idle", "newpage", "addpage", "count", "store",
                             "putpage", "bug"}]
      /\ \A u \in Threads : pc'[u] = IF u = t THEN label ELSE pc[u]
      /\ \A u \in Threads : loc'[u] = IF u = t THEN local ELSE loc[u]
  BY DEF Goto, IInv, TypeOK
<1>2. HeapPages' = HeapPages
  BY <1>1 DEF HeapPages, Holds, heap
<1>3. TypeOK'
  BY <1>1 DEF IInv, TypeOK, Locals, heap
<1>4. HeldApart' /\ Asking' /\ NoBug' /\ RcuOnly'
  BY <1>1 DEF IInv, HeldApart, Holds, Asking, NoBug, RcuOnly, heap
<1>5. ListsExact' /\ NoEmptyPage' /\ Sized' /\ BlocksApart'
  BY <1>2, HeapStill DEF heap, IInv, BlocksApart
<1> QED BY <1>3, <1>4, <1>5 DEF IInv

\* The local variables of a thread.
LEMMA LocalType ==
  /\ ULONG \in Nat /\ ULONG > 0
  /\ NoLoc \in Locals
<1>1. ULONG \in Nat /\ ULONG > 0
  BY SlobAssumption, FS_CardinalityType
<1> QED BY <1>1 DEF NoLoc, Locals

\* No room: the thread goes for a new page, and may not get one.
LEMMA AllocMissIInv ==
  ASSUME IInv, NEW t \in Threads, NEW src \in Sources, AllocMiss(t, src)
  PROVE  IInv'
<1>1. ~Holds(t) /\ FromSlob(src)
  BY DEF AllocMiss, Holds
<1>2. [NoLoc EXCEPT !.src = src] \in Locals
  BY LocalType DEF Locals
<1>3. [NoLoc EXCEPT !.src = src].src = src
  BY DEF NoLoc
<1> QED BY <1>1, <1>2, <1>3, LocalIInv DEF AllocMiss, IInv, TypeOK

\* Calls that end, and the two halves of pages++ and pages--.
LEMMA ReturnIInv ==
  ASSUME IInv, NEW t \in Threads,
         NewPageFails(t) \/ CountLoad(t) \/ CountStore(t)
  PROVE  IInv'
<1>1. ~Holds(t)
  BY DEF NewPageFails, CountLoad, CountStore, Holds
<1>2. /\ pages \in 0 .. ULONG - 1 /\ loc[t].delta \in Int /\ loc[t].reg \in Int
      /\ loc[t] \in Locals
  BY LocalType DEF IInv, TypeOK, Locals
<1>3. CASE NewPageFails(t)
  BY <1>1, <1>2, <1>3, LocalType, LocalIInv DEF NewPageFails, Return
<1>4. CASE CountLoad(t)
  <2>1. [loc[t] EXCEPT !.reg = pages] \in Locals
    BY <1>2 DEF Locals
  <2> QED BY <1>1, <1>2, <1>4, <2>1, LocalIInv DEF CountLoad
<1>5. CASE CountStore(t)
  <2>1. pages' \in 0 .. ULONG - 1
    BY <1>2, <1>5, LocalType DEF CountStore
  <2> QED BY <1>1, <1>5, <2>1, LocalType, LocalIInv DEF CountStore, Return
<1> QED BY <1>3, <1>4, <1>5

\* A frame from the page allocator becomes a SLOB page that the thread holds.
LEMMA NewPageOkIInv ==
  ASSUME IInv, NEW t \in Threads, NEW f \in Frames, NewPageOk(t, f)
  PROVE  IInv'
<1> DEFINE local == [loc[t] EXCEPT !.page = f]
<1>1. /\ pc[t] = "newpage" /\ f \in avail
      /\ avail' = avail \ {f} /\ PageSlab' = PageSlab \cup {f}
      /\ UNCHANGED <<units, slobfree, lists, blocks, rcu, big, pages>>
  BY DEF NewPageOk
<1>2. /\ pc' = [pc EXCEPT ![t] = "addpage"]
      /\ \A u \in Threads : pc'[u] = IF u = t THEN "addpage" ELSE pc[u]
      /\ loc' = [loc EXCEPT ![t] = local]
      /\ \A u \in Threads : loc'[u] = IF u = t THEN local ELSE loc[u]
  BY DEF NewPageOk, Goto, IInv, TypeOK
<1>3. /\ local.page = f /\ local.src = loc[t].src
      /\ local \in Locals
  <2>1. loc[t] \in Locals
    BY DEF IInv, TypeOK, Locals
  <2> QED BY <2>1 DEF Locals
<1> HIDE DEF local
<1>4. f \notin PageSlab
  BY <1>1 DEF IInv, BlocksApart
<1>5. HeapPages' = HeapPages
  BY <1>1, <1>2, <1>3, <1>4 DEF HeapPages
<1>6. TypeOK'
  BY <1>1, <1>2, <1>3 DEF IInv, TypeOK, Locals
<1>7. HeldApart'
  BY <1>1, <1>2, <1>3, <1>4 DEF IInv, HeldApart, Holds
<1>8. Asking' /\ NoBug' /\ RcuOnly'
  BY <1>1, <1>2, <1>3 DEF IInv, Asking, NoBug, RcuOnly
<1>9. ListsExact' /\ NoEmptyPage' /\ Sized' /\ BlocksApart'
  <2>1. /\ ListsExact' /\ NoEmptyPage' /\ Sized'
        /\ \A b \in blocks' : b.page \in HeapPages' /\ Span(b) \subseteq Units
        /\ \A b, c \in blocks' : b # c /\ b.page = c.page => Span(b) \cap Span(c) = {}
    BY <1>1, <1>5, HeapStill
  <2>2. /\ avail' \cap PageSlab' = {}
        /\ \A fs \in big' : fs \cap (avail' \cup PageSlab') = {}
    BY <1>1 DEF IInv, BlocksApart
  <2> QED BY <1>1, <2>1, <2>2 DEF IInv, BlocksApart
<1> QED BY <1>6, <1>7, <1>8, <1>9 DEF IInv

\* A step that changes one page f of the heap, or brings it in or takes it out:
\* what it must do to the page's units, flag and lists.
LEMMA PageStep ==
  ASSUME IInv, NEW f \in Frames,
         HeapPages' \subseteq Frames, HeapPages' \ {f} = HeapPages \ {f},
         \A g \in Frames : g # f => BlocksOf(g)' = BlocksOf(g) /\ Free(g)' = Free(g),
         \A g \in Frames : g # f => units'[g] = units[g],
         f \in HeapPages' => BlocksOf(f)' # {} /\ units'[f] = Cardinality(Free(f)'),
         lists' \in [Lists -> Seq(Frames)], Listed(lists'),
         NEW S, S = {g \in {f} : f \in HeapPages' /\ Free(f)' # {}},
         slobfree' = (slobfree \ {f}) \cup S,
         OnAny(lists') = (OnAny(lists) \ {f}) \cup S
  PROVE  ListsExact' /\ NoEmptyPage'
<1>1. Partial' = (Partial \ {f}) \cup S
  BY DEF Partial
<1>2. slobfree' = Partial' /\ OnAny(lists') = Partial'
  BY <1>1 DEF IInv, ListsExact, OnAny
<1>3. UNION {ToSet(lists[n]) : n \in Lists}' = Partial'
  BY <1>2 DEF OnAny
<1>4. \A g \in HeapPages' : units'[g] = Cardinality(Free(g)') /\ BlocksOf(g)' # {}
  BY DEF IInv, ListsExact, NoEmptyPage
<1> QED BY <1>2, <1>3, <1>4, ListedPlaces DEF ListsExact, NoEmptyPage

\* A request of at most a page fits a page without blocks.
LEMMA FitsFresh ==
  ASSUME NEW src \in Sources, FromSlob(src)
  PROVE  Places(Units, Need(src), src.align) # {}
<1>1. /\ src.align \in Nat /\ Need(src) \in Nat \ {0} /\ Need(src) <= PAGE_UNITS
      /\ PAGE_UNITS \in Nat \ {0}
  BY SourceFacts, PageUnitsNat
<1>2. IsAligned(0, src.align)
  BY <1>1 DEF IsAligned
<1>3. 0 \in Units /\ 0 .. 0 + Need(src) - 1 \subseteq Units
  BY <1>1 DEF Units
<1>4. 0 \in Places(Units, Need(src), src.align)
  BY <1>2, <1>3 DEF Places
<1> QED BY <1>4

\* A page that is full as soon as it came to the front leaves the list again.
LEMMA PushAndDrop ==
  ASSUME NEW l \in Seq(Frames), NEW f \in Frames
  PROVE  RemoveAt(<<f>> \o l, 1) = l
<1> DEFINE h == <<f>>
           p == h \o l
           r == RemoveAt(p, 1)
<1>1. h \in Seq(Frames) /\ Len(h) = 1
  OBVIOUS
<1>2. /\ p \in Seq(Frames) /\ Len(p) = 1 + Len(l) /\ Len(l) \in Nat
      /\ \A i \in 1 .. 1 + Len(l) : p[i] = IF i <= 1 THEN f ELSE l[i - 1]
  BY <1>1, Concat
<1> HIDE DEF p
<1>3. /\ r \in Seq(Frames) /\ Len(r) = Len(l)
      /\ \A i \in 1 .. Len(l) : r[i] = p[i + 1]
  <2>1. 1 \in 1 .. Len(p) /\ Len(p) - 1 = Len(l)
    BY <1>2
  <2>2. /\ r \in Seq(Frames) /\ Len(r) = Len(p) - 1
        /\ \A i \in 1 .. Len(p) - 1 : r[i] = IF i < 1 THEN p[i] ELSE p[i + 1]
    BY <1>2, <2>1, RemoveAtIndices
  <2> HIDE DEF r
  <2> QED BY <1>2, <2>1, <2>2
<1> HIDE DEF r
<1>4. \A i \in 1 .. Len(l) : r[i] = l[i]
  BY <1>2, <1>3
<1>5. r = l
  BY <1>3, <1>4
<1> QED BY <1>5 DEF r, p, h

\* The new page enters the heap and gives the block.
LEMMA AddPageIInv ==
  ASSUME IInv, NEW t \in Threads, AddPage(t)
  PROVE  IInv'
<1>1. /\ pc[t] = "addpage" /\ loc[t].src \in Sources /\ FromSlob(loc[t].src)
      /\ loc[t].page \in PageSlab /\ loc[t].page \in Frames
      /\ \A u \in Threads : u # t /\ Holds(u) => loc[u].page # loc[t].page
  BY DEF AddPage, IInv, Asking, HeldApart, Holds, TypeOK
<1>2. PICK f \in Frames, src \in Sources : f = loc[t].page /\ src = loc[t].src
  BY <1>1
<1> DEFINE ln == ListFor(AllocSize(src))
           left == PAGE_UNITS - Need(src)
           local == [NoLoc EXCEPT !.delta = 1]
<1>3. Places(Units, Need(src), src.align) # {}
  BY <1>1, <1>2, FitsFresh
<1>4. /\ blocks' = blocks \cup {NewBlock(f, Units, src)}
      /\ units' = [units EXCEPT ![f] = left]
      /\ slobfree' = IF left = 0 THEN slobfree ELSE slobfree \cup {f}
      /\ lists' = [lists EXCEPT ![ln] = Unlink(<<f>> \o @, 1, left)]
      /\ Goto(t, "count", local)
      /\ UNCHANGED <<avail, PageSlab, rcu, big, pages>>
  BY <1>2, <1>3 DEF AddPage, Need
<1>5. local \in Locals
  BY LocalType DEF Locals
<1>6. ln \in Lists
  BY ListForType
<1>7. Need(src) \in Nat \ {0} /\ left \in 0 .. PAGE_UNITS
  BY <1>1, <1>2, SourceFacts, PageUnitsNat
<1> HIDE DEF ln, left, local
<1>8. /\ pc' = [pc EXCEPT ![t] = "count"] /\ loc' = [loc EXCEPT ![t] = local]
      /\ \A u \in Threads : pc'[u] = IF u = t THEN "count" ELSE pc[u]
      /\ \A u \in Threads : loc'[u] = IF u = t THEN local ELSE loc[u]
  BY <1>4 DEF Goto, IInv, TypeOK
<1>9. f \notin HeapPages
  BY <1>1, <1>2 DEF HeapPages
<1>10. HeapPages' = HeapPages \cup {f}
  BY <1>1, <1>2, <1>4, <1>8 DEF HeapPages, Holds
<1>11. HeapPages' \subseteq Frames
  BY <1>10 DEF HeapPages, IInv, TypeOK
<1>12. BlocksOf(f) = {} /\ Free(f) = Units
  <2>1. BlocksOf(f) = {}
    BY <1>9 DEF BlocksOf, IInv, BlocksApart
  <2> QED BY <2>1 DEF Free, FreeUnits
<1>13. /\ blocks' \subseteq Blocks
       /\ \A b, c \in blocks' : b # c /\ b.page = c.page => Span(b) \cap Span(c) = {}
       /\ \A b \in blocks' : b \in blocks \/ b.page = f
       /\ \A b \in blocks' : Span(b) \subseteq Units
       /\ BlocksOf(f)' # {}
       /\ Sized'
       /\ \A g \in Frames : g # f => BlocksOf(g)' = BlocksOf(g) /\ Free(g)' = Free(g)
       /\ Cardinality(Free(f)') = Cardinality(Free(f)) - Need(src)
  <2>1. CanPlace(f, src)
    BY <1>3, <1>12 DEF CanPlace, Need
  <2>2. blocks' = blocks \cup {NewBlock(f, Free(f), src)} /\ FromSlob(src)
    BY <1>1, <1>2, <1>4, <1>12
  <2> QED BY <2>1, <2>2, TakeBlock
<1>14. Cardinality(Free(f)') = left
  BY <1>12, <1>13, FreeFinite DEF left
<1>15. Free(f)' = {} <=> left = 0
  <2>1. IsFiniteSet(Free(f)')
    BY FreeFinite DEF Free
  <2> QED BY <1>14, <2>1, FS_EmptySet
<1>16. lists \in [Lists -> Seq(Frames)] /\ Listed(lists) /\ OnAny(lists) = Partial
       /\ slobfree = Partial /\ f \notin Partial
  BY <1>9, ListedPlaces DEF IInv, TypeOK, ListsExact, OnAny, Partial
<1>17. /\ lists' \in [Lists -> Seq(Frames)] /\ Listed(lists')
       /\ OnAny(lists') = IF left = 0 THEN OnAny(lists) ELSE OnAny(lists) \cup {f}
  <2>1. CASE left = 0
    <3>1. lists[ln] \in Seq(Frames)
      BY <1>6, <1>16
    <3>2. Unlink(<<f>> \o lists[ln], 1, left) = lists[ln]
      BY <2>1, <3>1, PushAndDrop DEF Unlink
    <3>3. lists' = lists
      BY <1>4, <1>16, <3>2
    <3> QED BY <1>16, <2>1, <3>3
  <2>2. CASE left # 0
    <3>1. lists' = Pushed(lists, ln, f)
      BY <1>4, <2>2 DEF Pushed, Unlink
    <3>2. f \notin OnAny(lists)
      BY <1>16
    <3> QED BY <1>6, <1>16, <2>2, <3>1, <3>2, ListPush
  <2> QED BY <2>1, <2>2
<1>18. ListsExact' /\ NoEmptyPage'
  <2> DEFINE S == {g \in {f} : f \in HeapPages' /\ Free(f)' # {}}
  <2>1. S = IF left = 0 THEN {} ELSE {f}
    BY <1>10, <1>15
  <2>2. \A g \in Frames : units'[g] = IF g = f THEN left ELSE units[g]
    BY <1>4 DEF IInv, TypeOK
  <2>3. /\ slobfree' = (slobfree \ {f}) \cup S
        /\ OnAny(lists') = (OnAny(lists) \ {f}) \cup S
    BY <1>4, <1>16, <1>17, <2>1
  <2>4. HeapPages' \ {f} = HeapPages \ {f}
    BY <1>10
  <2> HIDE DEF S
  <2>5. S = {g \in {f} : f \in HeapPages' /\ Free(f)' # {}}
    BY DEF S
  <2> QED BY <1>11, <1>13, <1>14, <1>17, <2>2, <2>3, <2>4, <2>5, PageStep
<1>19. TypeOK'
  <2>1. units' \in [Frames -> 0 .. PAGE_UNITS] /\ slobfree' \subseteq Frames
    BY <1>4, <1>7 DEF IInv, TypeOK
  <2>2. rcu' \subseteq blocks'
    BY <1>4 DEF IInv, TypeOK
  <2>3. /\ pc' \in [Threads -> {"idle", "newpage", "addpage", "count", "store",
                                "putpage", "bug"}]
        /\ loc' \in [Threads -> Locals]
    BY <1>5, <1>8 DEF IInv, TypeOK, Locals
  <2> QED BY <1>4, <1>13, <1>17, <2>1, <2>2, <2>3 DEF IInv, TypeOK, Locals
<1>20. BlocksApart'
  BY <1>4, <1>10, <1>13 DEF IInv, BlocksApart
<1>21. NoBug' /\ HeldApart' /\ Asking' /\ RcuOnly'
  BY <1>4, <1>8 DEF IInv, NoBug, HeldApart, Holds, Asking, RcuOnly
<1> QED BY <1>13, <1>18, <1>19, <1>20, <1>21 DEF IInv

\* What all three cases of slob_free do to page f of the block, given the
\* units, the flag and the lists that each leaves.
LEMMA FreedIInv ==
  ASSUME IInv, NEW t \in Threads, pc[t] = "idle", NEW b \in blocks,
         blocks' = blocks \ {b}, rcu' \subseteq rcu, b \notin rcu',
         UNCHANGED <<avail, PageSlab, big, pages>>,
         NEW f \in Frames, f = b.page,
         lists' \in [Lists -> Seq(Frames)], Listed(lists'),
         units' \in [Frames -> 0 .. PAGE_UNITS],
         \A g \in Frames : g # f => units'[g] = units[g],
         \/ /\ LastBlock(b)
            /\ Goto(t, "putpage", [NoLoc EXCEPT !.page = f, !.delta = -1])
            /\ slobfree' = slobfree \ {f}
            /\ OnAny(lists') = OnAny(lists) \ {f}
         \/ /\ ~LastBlock(b)
            /\ UNCHANGED <<pc, loc>>
            /\ units'[f] = Cardinality(Free(f)) + b.units
            /\ slobfree' = slobfree \cup {f}
            /\ OnAny(lists') = OnAny(lists) \cup {f}
  PROVE  IInv'
<1> DEFINE local == [NoLoc EXCEPT !.page = f, !.delta = -1]
           S == {g \in {f} : f \in HeapPages' /\ Free(f)' # {}}
<1>1. /\ f \in HeapPages
      /\ \A g \in Frames : g # f => BlocksOf(g)' = BlocksOf(g) /\ Free(g)' = Free(g)
      /\ Cardinality(Free(f)') = Cardinality(Free(f)) + b.units
      /\ Free(f)' # {}
      /\ LastBlock(b) <=> BlocksOf(f)' = {}
  <2>1. /\ b.page \in HeapPages
        /\ \A g \in Frames : g # b.page => BlocksOf(g)' = BlocksOf(g) /\ Free(g)' = Free(g)
        /\ Cardinality(FreeUnits(BlocksOf(b.page)')) = Cardinality(Free(b.page)) + b.units
        /\ FreeUnits(BlocksOf(b.page)') # {}
        /\ LastBlock(b) <=> BlocksOf(b.page)' = {}
    BY GiveBlock DEF Free
  <2> QED BY <2>1 DEF Free
<1>2. /\ blocks' \subseteq Blocks
      /\ \A c, d \in blocks' : c # d /\ c.page = d.page => Span(c) \cap Span(d) = {}
      /\ \A c \in blocks' : Span(c) \subseteq Units
      /\ Sized'
  BY StayApart
<1>3. local \in Locals /\ local.page = f
  BY LocalType DEF Locals, NoLoc
<1> HIDE DEF local, S
<1>4. /\ pc \in [Threads -> {"idle", "newpage", "addpage", "count", "store",
                             "putpage", "bug"}]
      /\ loc \in [Threads -> Locals]
  BY DEF IInv, TypeOK, Locals
<1>5. f \in PageSlab /\ \A u \in Threads : Holds(u) => loc[u].page # f
  BY <1>1 DEF HeapPages, Holds
<1>6. RcuOnly' /\ rcu' \subseteq blocks'
  BY DEF IInv, TypeOK, RcuOnly
<1>7. slobfree' \subseteq Frames
  BY DEF IInv, TypeOK
<1>8. S = {g \in {f} : f \in HeapPages' /\ Free(f)' # {}}
  BY DEF S
<1>9. CASE /\ LastBlock(b)
           /\ Goto(t, "putpage", local)
           /\ slobfree' = slobfree \ {f}
           /\ OnAny(lists') = OnAny(lists) \ {f}
  <2>1. /\ pc' = [pc EXCEPT ![t] = "putpage"] /\ loc' = [loc EXCEPT ![t] = local]
        /\ \A u \in Threads : pc'[u] = IF u = t THEN "putpage" ELSE pc[u]
        /\ \A u \in Threads : loc'[u] = IF u = t THEN local ELSE loc[u]
    BY <1>4, <1>9 DEF Goto
  <2>2. HeapPages' = HeapPages \ {f}
    BY <1>3, <2>1 DEF HeapPages
  <2>3. HeapPages' \subseteq Frames
    BY <2>2 DEF HeapPages, IInv, TypeOK
  <2>4. ListsExact' /\ NoEmptyPage'
    <3>1. f \notin HeapPages' /\ HeapPages' \ {f} = HeapPages \ {f}
      BY <2>2
    <3>2. S = {}
      BY <1>8, <3>1
    <3>3. /\ slobfree' = (slobfree \ {f}) \cup S
          /\ OnAny(lists') = (OnAny(lists) \ {f}) \cup S
      BY <1>9, <3>2
    <3> QED BY <1>1, <1>8, <2>3, <3>1, <3>3, PageStep
  <2>5. \A c \in blocks' : c.page \in HeapPages'
    <3>1. \A c \in blocks' : c.page # f
      BY <1>1, <1>9 DEF BlocksOf
    <3> QED BY <2>2, <3>1 DEF IInv, BlocksApart
  <2>6. BlocksApart'
    BY <1>2, <2>5 DEF IInv, BlocksApart
  <2>7. TypeOK'
    <3>1. /\ pc' \in [Threads -> {"idle", "newpage", "addpage", "count", "store",
                                  "putpage", "bug"}]
          /\ loc' \in [Threads -> Locals]
      BY <1>3, <1>4, <2>1
    <3> QED BY <1>2, <1>6, <1>7, <3>1 DEF IInv, TypeOK, Locals
  <2>8. HeldApart'
    BY <1>3, <1>5, <2>1 DEF IInv, HeldApart, Holds
  <2>9. NoBug' /\ Asking'
    BY <2>1 DEF IInv, NoBug, Asking
  <2> QED BY <1>2, <1>6, <2>4, <2>6, <2>7, <2>8, <2>9 DEF IInv
<1>10. CASE /\ ~LastBlock(b)
            /\ UNCHANGED <<pc, loc>>
            /\ units'[f] = Cardinality(Free(f)) + b.units
            /\ slobfree' = slobfree \cup {f}
            /\ OnAny(lists') = OnAny(lists) \cup {f}
  <2>1. HeapPages' = HeapPages /\ HeapPages \subseteq Frames
    BY <1>10 DEF HeapPages, IInv, TypeOK
  <2>2. ListsExact' /\ NoEmptyPage'
    <3>1. S = {f}
      BY <1>1, <1>8, <2>1
    <3>2. /\ slobfree' = (slobfree \ {f}) \cup S
          /\ OnAny(lists') = (OnAny(lists) \ {f}) \cup S
      BY <1>10, <3>1
    <3>3. BlocksOf(f)' # {} /\ units'[f] = Cardinality(Free(f)')
      BY <1>1, <1>10
    <3>4. HeapPages' \ {f} = HeapPages \ {f} /\ HeapPages' \subseteq Frames
      BY <2>1
    <3> QED BY <1>1, <1>8, <3>2, <3>3, <3>4, PageStep
  <2>3. BlocksApart'
    BY <1>2, <2>1 DEF IInv, BlocksApart
  <2>4. TypeOK'
    BY <1>2, <1>6, <1>7, <1>10 DEF IInv, TypeOK, Locals
  <2>5. NoBug' /\ Asking' /\ HeldApart'
    BY <1>10 DEF IInv, NoBug, Asking, HeldApart, Holds
  <2> QED BY <1>2, <1>6, <2>2, <2>3, <2>4, <2>5 DEF IInv
<1> QED BY <1>9, <1>10 DEF local

\* slob_free, from kfree, kmem_cache_free or an RCU callback.
LEMMA SlobFreeIInv ==
  ASSUME IInv, NEW t \in Threads, NEW b \in blocks, slob_free(t, b),
         rcu' \subseteq rcu, b \notin rcu'
  PROVE  IInv'
<1>1. pc[t] = "idle" /\ UNCHANGED <<avail, big, pages>>
  BY DEF slob_free
<1>2. PICK f \in Frames : f = b.page /\ f \in HeapPages
  BY DEF IInv, TypeOK, Blocks, BlocksApart
<1>3. /\ lists \in [Lists -> Seq(Frames)] /\ Listed(lists)
      /\ OnAny(lists) = Partial /\ slobfree = Partial
      /\ units \in [Frames -> 0 .. PAGE_UNITS] /\ units[f] = Cardinality(Free(f))
  BY <1>2, ListedPlaces DEF IInv, TypeOK, ListsExact, OnAny
<1>4. CASE FreeLast(t, b)
  <2>1. /\ LastBlock(b) /\ slobfree' = slobfree \ {f} /\ blocks' = blocks \ {b}
        /\ lists' = IF f \in slobfree THEN Delisted(lists, f) ELSE lists
        /\ Goto(t, "putpage", [NoLoc EXCEPT !.page = f, !.delta = -1])
        /\ UNCHANGED <<PageSlab, units>>
    BY <1>2, <1>4 DEF FreeLast, Delisted
  <2>2. /\ lists' \in [Lists -> Seq(Frames)] /\ Listed(lists')
        /\ OnAny(lists') = OnAny(lists) \ {f}
    <3>1. CASE f \in slobfree
      <4>1. lists' = Delisted(lists, f)
        BY <2>1, <3>1
      <4> QED BY <1>3, <4>1, ListDelist
    <3>2. CASE f \notin slobfree
      BY <1>3, <2>1, <3>2
    <3> QED BY <3>1, <3>2
  <2>3. \A g \in Frames : g # f => units'[g] = units[g]
    BY <2>1
  <2>4. units' \in [Frames -> 0 .. PAGE_UNITS]
    BY <1>3, <2>1
  <2> QED BY <1>1, <1>2, <2>1, <2>2, <2>3, <2>4, FreedIInv
<1>5. ASSUME blocks' = blocks \ {b}
      PROVE  /\ SLOB_UNITS(FreeSize(b.src)) = b.units
             /\ b.units \in 1 .. PAGE_UNITS
             /\ Cardinality(Free(f)) + b.units \in 0 .. PAGE_UNITS
  <2>1. /\ SLOB_UNITS(FreeSize(b.src)) = b.units
        /\ b.units \in 1 .. PAGE_UNITS
        /\ Cardinality(FreeUnits(BlocksOf(b.page)')) = Cardinality(Free(b.page)) + b.units
    BY <1>5, GiveBlock DEF Free
  <2>2. Cardinality(FreeUnits(BlocksOf(b.page)')) \in 0 .. PAGE_UNITS
    BY FreeFinite
  <2> QED BY <1>2, <2>1, <2>2
<1>6. CASE FreeFirst(t, b)
  <2>1. /\ ~LastBlock(b) /\ f \notin slobfree /\ blocks' = blocks \ {b}
        /\ units' = [units EXCEPT ![f] = SLOB_UNITS(FreeSize(b.src))]
        /\ slobfree' = slobfree \cup {f}
        /\ lists' = Pushed(lists, ListFor(FreeSize(b.src)), f)
        /\ UNCHANGED <<PageSlab, pc, loc>>
    BY <1>2, <1>6 DEF FreeFirst, Pushed
  <2>2. /\ lists' \in [Lists -> Seq(Frames)] /\ Listed(lists')
        /\ OnAny(lists') = OnAny(lists) \cup {f}
    <3>1. f \notin OnAny(lists) /\ ListFor(FreeSize(b.src)) \in Lists
      BY <1>3, <2>1, ListForType
    <3> QED BY <1>3, <2>1, <3>1, ListPush
  <2>3. Cardinality(Free(f)) = 0
    <3>1. Free(f) = {}
      BY <1>2, <1>3, <2>1 DEF Partial
    <3> QED BY <3>1, FS_EmptySet
  <2>4. /\ units' \in [Frames -> 0 .. PAGE_UNITS]
        /\ \A g \in Frames : g # f => units'[g] = units[g]
        /\ units'[f] = Cardinality(Free(f)) + b.units
    BY <1>3, <1>5, <2>1, <2>3
  <2> QED BY <1>1, <1>2, <2>1, <2>2, <2>4, FreedIInv
<1>7. CASE FreeMore(t, b)
  <2>1. /\ ~LastBlock(b) /\ f \in slobfree /\ blocks' = blocks \ {b}
        /\ units' = [units EXCEPT ![f] = units[f] + SLOB_UNITS(FreeSize(b.src))]
        /\ UNCHANGED <<PageSlab, slobfree, lists, pc, loc>>
    BY <1>2, <1>7 DEF FreeMore
  <2>2. /\ units' \in [Frames -> 0 .. PAGE_UNITS]
        /\ \A g \in Frames : g # f => units'[g] = units[g]
        /\ units'[f] = Cardinality(Free(f)) + b.units
    BY <1>3, <1>5, <2>1
  <2>3. slobfree' = slobfree \cup {f} /\ OnAny(lists') = OnAny(lists) \cup {f}
    BY <1>3, <2>1
  <2>4. lists' \in [Lists -> Seq(Frames)] /\ Listed(lists')
    BY <1>3, <2>1
  <2>5. /\ ~LastBlock(b) /\ blocks' = blocks \ {b} /\ f = b.page
        /\ UNCHANGED <<PageSlab, pc, loc>>
    BY <1>2, <2>1
  <2> QED BY <1>1, <2>2, <2>3, <2>4, <2>5, FreedIInv
<1> QED BY <1>4, <1>6, <1>7 DEF slob_free

\* The front ends' frees: at once, or through an RCU callback.
LEMMA FreesIInv ==
  ASSUME IInv, NEW t \in Threads, NEW b \in blocks,
         FreeBlock(t, b) \/ FreeByRcu(t, b) \/ kmem_rcu_free(t, b)
  PROVE  IInv'
<1>1. CASE FreeBlock(t, b)
  <2>1. b \notin rcu
    BY <1>1 DEF FreeBlock, IInv, RcuOnly
  <2> QED BY <1>1, <2>1, SlobFreeIInv DEF FreeBlock
<1>2. CASE kmem_rcu_free(t, b)
  BY <1>2, SlobFreeIInv DEF kmem_rcu_free
<1>3. CASE FreeByRcu(t, b)
  <2>1. /\ b.src.kind = "rcu" /\ rcu' = rcu \cup {b}
        /\ UNCHANGED <<avail, heap, big, pages, pc, loc>>
    BY <1>3 DEF FreeByRcu
  <2>2. HeapPages' = HeapPages
    BY <2>1 DEF HeapPages, heap
  <2>3. ListsExact' /\ NoEmptyPage' /\ Sized' /\ BlocksApart'
    BY <2>1, <2>2, HeapStill DEF heap, IInv, BlocksApart
  <2>4. TypeOK' /\ RcuOnly'
    BY <2>1 DEF heap, IInv, TypeOK, RcuOnly
  <2>5. NoBug' /\ Asking' /\ HeldApart'
    BY <2>1 DEF heap, IInv, NoBug, Asking, HeldApart, Holds
  <2> QED BY <2>3, <2>4, <2>5 DEF IInv
<1> QED BY <1>1, <1>2, <1>3

\* The page goes back to the page allocator.
LEMMA PutPageIInv ==
  ASSUME IInv, NEW t \in Threads, PutPage(t)
  PROVE  IInv'
<1> DEFINE local == [NoLoc EXCEPT !.delta = -1]
<1>1. /\ pc[t] = "putpage" /\ loc[t].page \in PageSlab /\ loc[t].page \in Frames
      /\ \A u \in Threads : u # t /\ Holds(u) => loc[u].page # loc[t].page
  BY DEF PutPage, IInv, HeldApart, Holds, TypeOK
<1>2. PICK f \in Frames : f = loc[t].page
  BY <1>1
<1>3. /\ PageSlab' = PageSlab \ {f} /\ avail' = avail \cup {f}
      /\ Goto(t, "count", local)
      /\ UNCHANGED <<units, slobfree, lists, blocks, rcu, big, pages>>
  BY <1>2 DEF PutPage
<1>4. local \in Locals
  BY LocalType DEF Locals
<1> HIDE DEF local
<1>5. /\ pc' = [pc EXCEPT ![t] = "count"] /\ loc' = [loc EXCEPT ![t] = local]
      /\ \A u \in Threads : pc'[u] = IF u = t THEN "count" ELSE pc[u]
      /\ \A u \in Threads : loc'[u] = IF u = t THEN local ELSE loc[u]
  BY <1>3 DEF Goto, IInv, TypeOK
<1>6. HeapPages' = HeapPages
  BY <1>1, <1>2, <1>3, <1>5 DEF HeapPages
<1>7. /\ ListsExact' /\ NoEmptyPage' /\ Sized'
      /\ \A b \in blocks' : b.page \in HeapPages' /\ Span(b) \subseteq Units
      /\ \A b, c \in blocks' : b # c /\ b.page = c.page => Span(b) \cap Span(c) = {}
  BY <1>3, <1>6, HeapStill
<1>8. BlocksApart'
  <2>1. avail' \cap PageSlab' = {} /\ avail' \cup PageSlab' = avail \cup PageSlab
    BY <1>1, <1>2, <1>3 DEF IInv, BlocksApart
  <2> QED BY <1>3, <1>7, <2>1 DEF IInv, BlocksApart
<1>9. TypeOK'
  BY <1>3, <1>4, <1>5 DEF IInv, TypeOK, Locals
<1>10. HeldApart'
  BY <1>1, <1>2, <1>3, <1>5 DEF IInv, HeldApart, Holds
<1>11. NoBug' /\ Asking' /\ RcuOnly'
  BY <1>3, <1>5 DEF IInv, NoBug, Asking, RcuOnly
<1> QED BY <1>7, <1>8, <1>9, <1>10, <1>11 DEF IInv

\* Page-sized objects only pass frames to and from the page allocator.
LEMMA BigIInv ==
  ASSUME IInv, NEW t \in Threads,
         \/ \E src \in Sources : AllocBig(t, src)
         \/ \E fs \in big : FreeBig(t, fs)
  PROVE  IInv'
<1>1. UNCHANGED <<heap, rcu, pages, pc, loc>>
  BY DEF AllocBig, FreeBig
<1>2. PICK fs : \/ fs \subseteq avail /\ avail' = avail \ fs /\ big' = big \cup {fs}
                \/ fs \in big /\ avail' = avail \cup fs /\ big' = big \ {fs}
  BY DEF AllocBig, FreeBig
<1>3. HeapPages' = HeapPages
  BY <1>1 DEF HeapPages, heap
<1>4. /\ ListsExact' /\ NoEmptyPage' /\ Sized'
      /\ \A b \in blocks' : b.page \in HeapPages' /\ Span(b) \subseteq Units
      /\ \A b, c \in blocks' : b # c /\ b.page = c.page => Span(b) \cap Span(c) = {}
  BY <1>1, <1>3, HeapStill DEF heap
<1>5. /\ avail' \cap PageSlab' = {}
      /\ \A gs \in big' : gs \cap (avail' \cup PageSlab') = {}
      /\ \A gs, hs \in big' : gs = hs \/ gs \cap hs = {}
  BY <1>1, <1>2 DEF heap, IInv, BlocksApart
<1>6. BlocksApart'
  BY <1>4, <1>5 DEF BlocksApart
<1>7. TypeOK'
  BY <1>1, <1>2 DEF heap, IInv, TypeOK
<1>8. NoBug' /\ Asking' /\ HeldApart' /\ RcuOnly'
  BY <1>1 DEF heap, IInv, NoBug, Asking, HeldApart, Holds, RcuOnly
<1> QED BY <1>4, <1>6, <1>7, <1>8 DEF IInv

\* No step breaks the invariant.
LEMMA NextIInv == IInv /\ [Next]_vars => IInv'
<1> SUFFICES ASSUME IInv, [Next]_vars PROVE IInv'
  OBVIOUS
<1>1. CASE UNCHANGED vars
  <2>1. UNCHANGED <<avail, heap, rcu, big, pages, pc, loc>>
    BY <1>1 DEF vars
  <2>2. HeapPages' = HeapPages
    BY <2>1 DEF HeapPages, heap
  <2>3. ListsExact' /\ NoEmptyPage' /\ Sized' /\ BlocksApart'
    BY <2>1, <2>2, HeapStill DEF heap, IInv, BlocksApart
  <2>4. TypeOK' /\ RcuOnly'
    BY <2>1 DEF heap, IInv, TypeOK, RcuOnly
  <2>5. NoBug' /\ Asking' /\ HeldApart'
    BY <2>1 DEF heap, IInv, NoBug, Asking, HeldApart, Holds
  <2> QED BY <2>3, <2>4, <2>5 DEF IInv
<1>2. ASSUME NEW t \in Threads, ThreadStep(t) PROVE IInv'
  <2>1. CASE \E src \in Sources : AllocHit(t, src)
    BY <2>1, AllocHitIInv
  <2>2. CASE \E src \in Sources : AllocMiss(t, src)
    BY <2>2, AllocMissIInv
  <2>3. CASE \E f \in Frames : NewPageOk(t, f)
    BY <2>3, NewPageOkIInv
  <2>4. CASE AddPage(t)
    BY <2>4, AddPageIInv
  <2>5. CASE NewPageFails(t) \/ CountLoad(t) \/ CountStore(t)
    BY <2>5, ReturnIInv
  <2>6. CASE PutPage(t)
    BY <2>6, PutPageIInv
  <2>7. CASE \E b \in blocks : FreeBlock(t, b) \/ FreeByRcu(t, b) \/ kmem_rcu_free(t, b)
    BY <2>7, FreesIInv
  <2>8. CASE (\E src \in Sources : AllocBig(t, src)) \/ (\E fs \in big : FreeBig(t, fs))
    BY <2>8, BigIInv
  <2> QED BY <1>2, <2>1, <2>2, <2>3, <2>4, <2>5, <2>6, <2>7, <2>8 DEF ThreadStep
<1> QED BY <1>1, <1>2 DEF Next

\* The invariant holds at all times.
LEMMA Inductive == Spec => []IInv
BY InitIInv, NextIInv, PTL DEF Spec

\* The heap's variables keep their types, with any number of threads between
\* their critical sections.
THEOREM TypeCorrect == Spec => []TypeOK
<1>1. IInv => TypeOK
  BY DEF IInv
<1> QED BY <1>1, Inductive, PTL

\* kmalloc and the caches never hand out memory that somebody has already,
\* whatever threads and RCU callbacks allocate and free at the same time.
THEOREM MemoryApart == Spec => []BlocksApart
<1>1. IInv => BlocksApart
  BY DEF IInv
<1> QED BY <1>1, Inductive, PTL

\* The rotation and the best-fit choice of the group's slob_alloc lose no page:
\* the three lists hold exactly the partially free pages, each once, and
\* sp->units is exact.
THEOREM ListsKept == Spec => []ListsExact
<1>1. IInv => ListsExact
  BY DEF IInv
<1> QED BY <1>1, Inductive, PTL

\* slob_free recognises the last block of a page and lets no empty page stay.
THEOREM EmptyPagesLeave == Spec => []NoEmptyPage
<1>1. IInv => NoEmptyPage
  BY DEF IInv
<1> QED BY <1>1, Inductive, PTL

\* The BUG_ON(!b) of slob_alloc is dead code.
THEOREM BugOnUnreached == Spec => []NoBug
<1>1. IInv => NoBug
  BY DEF IInv
<1> QED BY <1>1, Inductive, PTL
-----------------------------------------------------------------------------
(* The counter "pages" on one processor. *)

\* What every thread has still to add to "pages" for the pages that it brought
\* into the heap or gave back.
Owing == [t \in Threads |->
            IF pc[t] = "addpage" THEN 1
            ELSE IF pc[t] \in {"count", "store"} THEN loc[t].delta ELSE 0]

Owes(o, d) == {t \in Threads : o[t] = d}
Debt(o) == Cardinality(Owes(o, 1)) - Cardinality(Owes(o, -1))

\* "pages" and what is owed make up the SLOB pages, in the arithmetic of an
\* unsigned long, and no thread is about to store an old value.
CountExact ==
  /\ IsFiniteSet(Owes(Owing, 1)) /\ IsFiniteSet(Owes(Owing, -1))
  /\ Congruent(ULONG, pages + Debt(Owing), Cardinality(PageSlab))
  /\ \A t \in Threads : pc[t] = "store" =>
       /\ loc[t].reg = pages
       /\ \A u \in Threads : pc[u] = "store" => u = t

\* One thread's debt changes.
LEMMA DebtOne ==
  ASSUME NEW o \in [Threads -> {-1, 0, 1}], NEW t \in Threads, NEW d \in {-1, 0, 1},
         IsFiniteSet(Owes(o, 1)), IsFiniteSet(Owes(o, -1))
  PROVE  LET p == [o EXCEPT ![t] = d] IN
         /\ IsFiniteSet(Owes(p, 1)) /\ IsFiniteSet(Owes(p, -1))
         /\ Debt(o) \in Int /\ Debt(p) = Debt(o) + d - o[t]
<1> DEFINE p == [o EXCEPT ![t] = d]
<1>1. /\ p \in [Threads -> {-1, 0, 1}] /\ p[t] = d /\ o[t] \in {-1, 0, 1}
      /\ \A u \in Threads : u # t => p[u] = o[u]
  OBVIOUS
<1> HIDE DEF p
<1>2. ASSUME NEW e \in {-1, 1}
      PROVE  /\ Owes(p, e) \ {t} = Owes(o, e) \ {t}
             /\ t \in Owes(p, e) <=> d = e
             /\ t \in Owes(o, e) <=> o[t] = e
  BY <1>1 DEF Owes
<1>3. ASSUME NEW e \in {-1, 1}, IsFiniteSet(Owes(o, e))
      PROVE  /\ IsFiniteSet(Owes(p, e))
             /\ Cardinality(Owes(o, e)) \in Nat /\ Cardinality(Owes(p, e)) \in Nat
             /\ Cardinality(Owes(p, e)) = Cardinality(Owes(o, e))
                  + (IF d = e THEN 1 ELSE 0) - (IF o[t] = e THEN 1 ELSE 0)
  BY <1>2, <1>3, ButOne
<1>4. Debt(o) \in Int /\ Debt(p) = Debt(o) + d - o[t]
  BY <1>1, <1>3 DEF Debt
<1> QED BY <1>3, <1>4 DEF p

\* What a thread owes is one page at most.
LEMMA OwingType ==
  ASSUME IInv PROVE Owing \in [Threads -> {-1, 0, 1}] /\ pages \in 0 .. ULONG - 1
BY DEF IInv, TypeOK, Owing

\* The number of SLOB pages is a number below ULONG.
LEMMA SlabCount ==
  ASSUME IInv
  PROVE  /\ IsFiniteSet(PageSlab) /\ Cardinality(PageSlab) \in 0 .. ULONG - 1
         /\ ULONG \in Nat \ {0}
<1>1. PageSlab \subseteq Frames /\ IsFiniteSet(Frames)
  BY SlobAssumption DEF IInv, TypeOK
<1>2. /\ IsFiniteSet(PageSlab) /\ Cardinality(PageSlab) <= Cardinality(Frames)
      /\ Cardinality(PageSlab) \in Nat /\ Cardinality(Frames) \in Nat
  BY <1>1, FS_Subset, FS_CardinalityType
<1> QED BY <1>2, SlobAssumption

\* Thread t comes to owe d where it owed Owing[t], "pages" becomes p up to
\* whole ULONGs, and the SLOB pages change by as much as the two together.
LEMMA CountStep ==
  ASSUME IInv, CountExact, NEW t \in Threads, NEW d \in {-1, 0, 1},
         Owing' = [Owing EXCEPT ![t] = d],
         NEW p \in Int, pages' = p % ULONG,
         Cardinality(PageSlab') = Cardinality(PageSlab) + (p - pages) + (d - Owing[t]),
         \A u \in Threads : pc'[u] = "store" =>
           /\ loc'[u].reg = pages'
           /\ \A v \in Threads : pc'[v] = "store" => v = u
  PROVE  CountExact'
<1>1. /\ IsFiniteSet(Owes(Owing, 1)) /\ IsFiniteSet(Owes(Owing, -1))
      /\ Congruent(ULONG, pages + Debt(Owing), Cardinality(PageSlab))
      /\ Owing \in [Threads -> {-1, 0, 1}] /\ pages \in Nat
      /\ Cardinality(PageSlab) \in Nat /\ ULONG \in Nat \ {0}
  BY OwingType, SlabCount DEF CountExact
<1>2. /\ IsFiniteSet(Owes(Owing', 1)) /\ IsFiniteSet(Owes(Owing', -1))
      /\ Debt(Owing) \in Int /\ Debt(Owing') = Debt(Owing) + d - Owing[t]
  BY <1>1, DebtOne
<1> DEFINE D == Debt(Owing)
           E == Debt(Owing')
           c == (p - pages) + (d - Owing[t])
<1>3. D \in Int /\ E = D + d - Owing[t] /\ Owing[t] \in Int /\ c \in Int /\ E \in Int
  BY <1>1, <1>2
<1>4. Congruent(ULONG, (pages + D) + c, Cardinality(PageSlab) + c)
  <2>1. pages + D \in Int /\ Congruent(ULONG, pages + D, Cardinality(PageSlab))
    BY <1>1, <1>3
  <2>2. Cardinality(PageSlab) \in Int
    BY <1>1
  <2> HIDE DEF D, c
  <2> QED BY <1>1, <1>3, <2>1, <2>2, CongruentPlus, Zenon
<1>5. (pages + D) + c = p + E
  <2> HIDE DEF D, E
  <2> QED BY <1>1, <1>3
<1>6. Congruent(ULONG, p + E, Cardinality(PageSlab'))
  <2>1. Cardinality(PageSlab') = Cardinality(PageSlab) + c
    BY <1>1, <1>3
  <2> HIDE DEF D, E, c
  <2> QED BY <1>4, <1>5, <2>1
<1>7. Congruent(ULONG, (p % ULONG) + E, Cardinality(PageSlab'))
  <2>1. Cardinality(PageSlab') \in Int
    BY <1>1, <1>3
  <2> HIDE DEF E
  <2> QED BY <1>1, <1>3, <1>6, <2>1, CongruentMod, Zenon
<1> QED BY <1>2, <1>7 DEF CountExact

\* A step that leaves the debts, the counter and the pages alone.
LEMMA CountStill ==
  ASSUME IInv, CountExact, Owing' = Owing, PageSlab' = PageSlab, pages' = pages,
         \A u \in Threads : pc'[u] = "store" => pc[u] = "store" /\ loc'[u] = loc[u]
  PROVE  CountExact'
BY DEF CountExact

\* No step of any thread breaks the count if pages++ is not interrupted.
LEMMA NextCount ==
  ASSUME ~SMP, IInv, IInv', CountExact, Next
  PROVE  CountExact'
<1>1. PICK t \in Threads : ThreadStep(t)
  BY DEF Next
<1>2. /\ pc \in [Threads -> {"idle", "newpage", "addpage", "count", "store",
                             "putpage", "bug"}]
      /\ DOMAIN loc = Threads /\ pages \in 0 .. ULONG - 1
      /\ avail \cap PageSlab = {} /\ ULONG \in Nat \ {0}
      /\ IsFiniteSet(PageSlab) /\ Cardinality(PageSlab) \in Nat
      /\ Owing \in [Threads -> {-1, 0, 1}]
  BY SlabCount, OwingType DEF IInv, TypeOK, BlocksApart
<1>3. pages % ULONG = pages
  BY <1>2
<1>4. CASE UNCHANGED <<PageSlab, pages, pc, loc>>
  <2>1. Owing' = Owing
    BY <1>4 DEF Owing
  <2> QED BY <1>4, <2>1, CountStill
\* The thread goes from a to b without owing anything, before or after.
<1>5. ASSUME NEW a \in {"idle", "newpage"}, NEW b \in {"idle", "newpage", "putpage"},
             NEW l, pc[t] = a, Goto(t, b, l), UNCHANGED <<PageSlab, pages>>
      PROVE  CountExact'
  <2>1. \A u \in Threads : /\ pc'[u] = IF u = t THEN b ELSE pc[u]
                           /\ loc'[u] = IF u = t THEN l ELSE loc[u]
    BY <1>2, <1>5 DEF Goto
  <2>2. Owing' = Owing
    BY <1>5, <2>1 DEF Owing
  <2> QED BY <1>5, <2>1, <2>2, CountStill
<1>6. CASE \E src \in Sources : AllocHit(t, src) \/ AllocBig(t, src)
  BY <1>4, <1>6 DEF AllocHit, AllocBig, heap
<1>7. CASE \E src \in Sources : AllocMiss(t, src)
  BY <1>5, <1>7 DEF AllocMiss, heap
<1>8. CASE NewPageFails(t)
  BY <1>5, <1>8 DEF NewPageFails, Return, heap
<1>9. CASE \E f \in Frames : NewPageOk(t, f)
  <2>1. PICK f \in Frames : NewPageOk(t, f)
    BY <1>9
  <2>2. PICK l : Goto(t, "addpage", l)
    BY <2>1 DEF NewPageOk
  <2>3. /\ pc[t] = "newpage" /\ f \in avail /\ PageSlab' = PageSlab \cup {f}
        /\ pages' = pages
    BY <2>1 DEF NewPageOk
  <2>4. \A u \in Threads : /\ pc'[u] = IF u = t THEN "addpage" ELSE pc[u]
                           /\ u # t => loc'[u] = loc[u]
    BY <1>2, <2>2 DEF Goto
  <2>5. Owing' = [Owing EXCEPT ![t] = 1] /\ Owing[t] = 0
    BY <2>3, <2>4 DEF Owing
  <2>6. Cardinality(PageSlab') = Cardinality(PageSlab) + 1
    BY <1>2, <2>3, FS_AddElement
  <2>7. \A u \in Threads : pc'[u] = "store" =>
          /\ loc'[u].reg = pages'
          /\ \A v \in Threads : pc'[v] = "store" => v = u
    BY <2>3, <2>4 DEF CountExact
  <2>8. pages \in Int /\ pages' = pages % ULONG
    BY <1>2, <1>3, <2>3
  <2>9. Cardinality(PageSlab') =
          Cardinality(PageSlab) + (pages - pages) + (1 - Owing[t])
    BY <1>2, <2>5, <2>6
  <2> QED BY <2>5, <2>7, <2>8, <2>9, CountStep
<1>10. CASE AddPage(t)
  <2>1. pc'[t] # "bug"
    BY DEF IInv, NoBug
  <2>2. /\ pc[t] = "addpage" /\ UNCHANGED <<PageSlab, pages>>
        /\ Goto(t, "count", [NoLoc EXCEPT !.delta = 1]) \/ Goto(t, "bug", NoLoc)
    BY <1>10 DEF AddPage
  <2>3. Goto(t, "count", [NoLoc EXCEPT !.delta = 1])
    BY <1>2, <2>1, <2>2 DEF Goto
  <2>4. \A u \in Threads :
          /\ pc'[u] = IF u = t THEN "count" ELSE pc[u]
          /\ loc'[u] = IF u = t THEN [NoLoc EXCEPT !.delta = 1] ELSE loc[u]
    BY <1>2, <2>3 DEF Goto
  <2>5. [NoLoc EXCEPT !.delta = 1].delta = 1
    BY DEF NoLoc
  <2>6. Owing' = Owing
    BY <2>2, <2>4, <2>5 DEF Owing
  <2> QED BY <2>2, <2>4, <2>6, CountStill
<1>11. CASE CountLoad(t)
  <2>1. /\ pc[t] = "count" /\ (\A u \in Threads : pc[u] # "store")
        /\ Goto(t, "store", [loc[t] EXCEPT !.reg = pages])
        /\ UNCHANGED <<PageSlab, pages>>
    BY <1>11 DEF CountLoad, heap
  <2>2. \A u \in Threads :
          /\ pc'[u] = IF u = t THEN "store" ELSE pc[u]
          /\ loc'[u] = IF u = t THEN [loc[t] EXCEPT !.reg = pages] ELSE loc[u]
    BY <1>2, <2>1 DEF Goto
  <2>3. /\ [loc[t] EXCEPT !.reg = pages].delta = loc[t].delta
        /\ [loc[t] EXCEPT !.reg = pages].reg = pages
    BY DEF IInv, TypeOK
  <2>4. Owing' = Owing
    BY <2>1, <2>2, <2>3 DEF Owing
  <2> QED BY <2>1, <2>2, <2>3, <2>4 DEF CountExact
<1>12. CASE CountStore(t)
  <2>1. /\ pc[t] = "store" /\ loc[t].reg = pages
        /\ \A u \in Threads : pc[u] = "store" => u = t
    BY <1>12 DEF CountStore, CountExact
  <2>2. /\ pages' = (pages + loc[t].delta) % ULONG /\ PageSlab' = PageSlab
        /\ Goto(t, "idle", NoLoc)
    BY <1>12, <2>1 DEF CountStore, Return, heap
  <2>3. \A u \in Threads : pc'[u] = (IF u = t THEN "idle" ELSE pc[u])
    BY <1>2, <2>2 DEF Goto
  <2>4. \A u \in Threads : u # t => loc'[u] = loc[u]
    BY <1>2, <2>2 DEF Goto
  <2>5. Owing' = [Owing EXCEPT ![t] = 0] /\ Owing[t] = loc[t].delta
    BY <2>1, <2>3, <2>4 DEF Owing
  <2>6. \A u \in Threads : pc'[u] # "store"
    BY <2>1, <2>3
  <2> DEFINE p == pages + loc[t].delta
  <2>7. p \in Int /\ Cardinality(PageSlab) \in Int /\ loc[t].delta \in Int /\ pages \in Int
    BY <1>2, <2>5
  <2>8. Cardinality(PageSlab') = Cardinality(PageSlab) + (p - pages) + (0 - Owing[t])
    BY <2>2, <2>5, <2>7
  <2> QED BY <2>2, <2>5, <2>6, <2>7, <2>8, CountStep
<1>13. CASE PutPage(t)
  <2>1. /\ pc[t] = "putpage" /\ PageSlab' = PageSlab \ {loc[t].page} /\ pages' = pages
        /\ Goto(t, "count", [NoLoc EXCEPT !.delta = -1])
    BY <1>13 DEF PutPage
  <2>2. \A u \in Threads :
          /\ pc'[u] = IF u = t THEN "count" ELSE pc[u]
          /\ loc'[u] = IF u = t THEN [NoLoc EXCEPT !.delta = -1] ELSE loc[u]
    BY <1>2, <2>1 DEF Goto
  <2>3. [NoLoc EXCEPT !.delta = -1].delta = -1
    BY DEF NoLoc
  <2>4. Owing' = [Owing EXCEPT ![t] = -1] /\ Owing[t] = 0
    BY <2>1, <2>2, <2>3 DEF Owing
  <2>5. loc[t].page \in PageSlab
    BY <2>1 DEF IInv, HeldApart, Holds
  <2>6. Cardinality(PageSlab') = Cardinality(PageSlab) - 1
    BY <1>2, <2>1, <2>5, FS_RemoveElement
  <2>7. \A u \in Threads : pc'[u] = "store" =>
          /\ loc'[u].reg = pages'
          /\ \A v \in Threads : pc'[v] = "store" => v = u
    BY <2>1, <2>2 DEF CountExact
  <2>8. pages \in Int /\ pages' = pages % ULONG
    BY <1>2, <1>3, <2>1
  <2>9. Cardinality(PageSlab') =
          Cardinality(PageSlab) + (pages - pages) + (-1 - Owing[t])
    BY <1>2, <2>4, <2>6
  <2> QED BY <2>4, <2>7, <2>8, <2>9, CountStep
<1>14. ASSUME NEW b \in blocks, slob_free(t, b) PROVE CountExact'
  <2>1. pc[t] = "idle" /\ pages' = pages
    BY <1>14 DEF slob_free
  <2>2. CASE FreeLast(t, b)
    BY <1>5, <2>1, <2>2 DEF FreeLast
  <2>3. CASE FreeFirst(t, b) \/ FreeMore(t, b)
    BY <1>4, <2>1, <2>3 DEF FreeFirst, FreeMore
  <2> QED BY <1>14, <2>2, <2>3 DEF slob_free
<1>15. CASE \E b \in blocks : FreeBlock(t, b) \/ FreeByRcu(t, b) \/ kmem_rcu_free(t, b)
  BY <1>4, <1>14, <1>15 DEF FreeBlock, FreeByRcu, kmem_rcu_free, heap
<1>16. CASE \E fs \in big : FreeBig(t, fs)
  BY <1>4, <1>16 DEF FreeBig, heap
<1> QED BY <1>1, <1>6, <1>7, <1>8, <1>9, <1>10, <1>11, <1>12, <1>13, <1>15, <1>16
        DEF ThreadStep

\* At first there are no pages and no debts.
LEMMA InitCount == Init => CountExact
<1> SUFFICES ASSUME Init PROVE CountExact
  OBVIOUS
<1>1. /\ PageSlab = {} /\ pages = 0 /\ pc = [t \in Threads |-> "idle"]
  BY DEF Init
<1>2. Owes(Owing, 1) = {} /\ Owes(Owing, -1) = {}
  BY <1>1 DEF Owes, Owing
<1>3. IsFiniteSet({}) /\ Cardinality({}) = 0
  BY FS_EmptySet
<1>4. Debt(Owing) = 0
  BY <1>2, <1>3 DEF Debt
<1>5. ULONG \in Nat /\ 0 * ULONG = 0
  BY SlobAssumption
<1>6. Congruent(ULONG, pages + Debt(Owing), Cardinality(PageSlab))
  BY <1>1, <1>3, <1>4, <1>5 DEF Congruent
<1> QED BY <1>1, <1>2, <1>3, <1>6 DEF CountExact

\* When nobody owes anything, the counter is exact.
LEMMA NothingOwed ==
  ASSUME IInv, CountExact PROVE PagesCounted
<1> SUFFICES ASSUME \A t \in Threads : pc[t] \in {"idle", "newpage"}
             PROVE  pages = Cardinality(PageSlab)
  BY DEF PagesCounted
<1>1. Owes(Owing, 1) = {} /\ Owes(Owing, -1) = {}
  BY DEF Owes, Owing
<1>2. Debt(Owing) = 0
  BY <1>1, FS_EmptySet DEF Debt
<1>3. /\ pages \in 0 .. ULONG - 1 /\ Cardinality(PageSlab) \in 0 .. ULONG - 1
      /\ ULONG \in Nat \ {0}
  BY OwingType, SlabCount
<1>4. Congruent(ULONG, pages, Cardinality(PageSlab))
  BY <1>2, <1>3 DEF CountExact
<1> QED BY <1>3, <1>4, CongruentEqual

\* On one processor the counter that sys_slob_units_used reads is the number
\* of SLOB pages whenever no call is half done, although pages++ and pages--
\* run outside slob_lock, in any order, and may wrap in between.
THEOREM CountKept == ASSUME ~SMP PROVE Spec => []PagesCounted
<1>1. Init => CountExact
  BY InitCount
<1>2. IInv /\ IInv' /\ CountExact /\ [Next]_vars => CountExact'
  <2> SUFFICES ASSUME IInv, IInv', CountExact, [Next]_vars PROVE CountExact'
    OBVIOUS
  <2>1. CASE Next
    BY <2>1, NextCount
  <2>2. CASE UNCHANGED vars
    <3>1. UNCHANGED <<PageSlab, pages, pc, loc>>
      BY <2>2 DEF vars, heap
    <3>2. Owing' = Owing
      BY <3>1 DEF Owing
    <3> QED BY <3>1, <3>2, CountStill
  <2> QED BY <2>1, <2>2
<1>3. IInv /\ CountExact => PagesCounted
  BY NothingOwed
<1> QED BY <1>1, <1>2, <1>3, Inductive, PTL DEF Spec
=============================================================================
