-------------------------- MODULE PhilosopherProof --------------------------
(***************************************************************************)
(* Safety of the dining philosophers for any number of them and any number *)
(* of meals.  The inductive invariant adds to the type invariant what the  *)
(* semaphores stand for: "lock" counts the free seats, a fork's semaphore  *)
(* is 1 exactly when neither neighbour holds the fork, main has started    *)
(* exactly the threads below "created", and a round is left to whoever has *)
(* not finished.                                                           *)
(***************************************************************************)
EXTENDS Philosopher, WellFoundedInduction, FiniteSetTheorems, TLAPS

-----------------------------------------------------------------------------
(* Natural numbers. *)

\* Every nonempty set of natural numbers has a least element.
LEMMA Minimum ==
  ASSUME NEW T, T \subseteq Nat, T # {}
  PROVE  \E x \in T : \A y \in T : x <= y
<1> DEFINE R == OpToRel(<, Nat)
<1>1. IsWellFoundedOn(R, Nat)
  BY NatLessThanWellFounded
<1>2. \A x, y \in Nat : <<x, y>> \in R <=> x < y
  BY Zenon DEF OpToRel
<1> HIDE DEF R
<1>3. PICK x \in T : \A y \in T : ~ (<<y, x>> \in R)
  BY <1>1, WFMin
<1>4. ASSUME NEW y \in T PROVE x <= y
  <2>1. x \in Nat /\ y \in Nat
    BY <1>3
  <2>2. ~ (y < x)
    BY <2>1, <1>3, <1>2
  <2> QED BY <2>1, <2>2
<1> QED BY <1>3, <1>4

\* What holds of 0, and of n + 1 whenever it holds of n, holds of 0 .. m.
LEMMA Climb ==
  ASSUME NEW m \in Nat, NEW S, 0 \in S,
         \A n \in 0 .. m - 1 : n \in S => n + 1 \in S
  PROVE  0 .. m \subseteq S
<1> DEFINE T == (0 .. m) \ S
<1> SUFFICES ASSUME T # {} PROVE FALSE
  OBVIOUS
<1>1. T \subseteq Nat
  OBVIOUS
<1>2. PICK x \in T : \A y \in T : x <= y
  <2> HIDE DEF T
  <2> QED BY <1>1, Minimum
<1>3. x \in 1 .. m /\ x \notin S
  OBVIOUS
<1>4. x - 1 \in 0 .. m - 1 /\ x - 1 \notin T
  BY <1>2, <1>3
<1>5. x - 1 \in S
  BY <1>4
<1> QED BY <1>3, <1>4, <1>5
-----------------------------------------------------------------------------
Table == {i \in Phils : AtTable(i)}

SeatsExact == lock = Seats - Cardinality(Table)

StartedExact == \A i \in Phils : pc[i] = "new" <=> i >= created

RoundsLeft == \A i \in Phils : pc[i] # "done" => meals[i] < MEALS

Shape ==
  /\ lock \in Nat
  /\ forks \in [Phils -> 0 .. 1]
  /\ created \in 0 .. N
  /\ pc \in [Phils -> {"new", "think", "left", "right", "eat", "put",
                       "leave", "done"}]
  /\ meals \in [Phils -> 0 .. MEALS]

IInv == Shape /\ ForksExact /\ SeatsExact /\ StartedExact /\ RoundsLeft
-----------------------------------------------------------------------------
\* The forks lie in a ring: Right maps the philosophers onto the forks, one to
\* one, and nobody has the same fork on both sides.
LEMMA Ring ==
  /\ \A i \in Phils : Right(i) \in Phils /\ Right(i) # i
  /\ \A i, j \in Phils : Right(i) = Right(j) => i = j
  /\ \A k \in Phils : \E i \in Phils : Right(i) = k
<1>1. \A i \in Phils : Right(i) = IF i = N - 1 THEN 0 ELSE i + 1
  BY NAssumption DEF Phils, Right
<1>2. /\ \A i \in Phils : Right(i) \in Phils /\ Right(i) # i
      /\ \A i, j \in Phils : Right(i) = Right(j) => i = j
  BY <1>1, NAssumption DEF Phils
<1>3. ASSUME NEW k \in Phils PROVE \E i \in Phils : Right(i) = k
  <2>1. CASE k = 0
    <3>1. N - 1 \in Phils /\ Right(N - 1) = k
      BY <2>1, <1>1, NAssumption DEF Phils
    <3> QED BY <3>1
  <2>2. CASE k # 0
    <3>1. k - 1 \in Phils /\ Right(k - 1) = k
      BY <2>2, <1>1, NAssumption DEF Phils
    <3> QED BY <3>1
  <2> QED BY <2>1, <2>2
<1> QED BY <1>2, <1>3

\* The philosophers at the table are a finite set.
LEMMA TableFinite == IsFiniteSet(Table) /\ Cardinality(Table) \in Nat
<1>1. IsFiniteSet(Phils)
  BY FS_Interval, NAssumption DEF Phils
<1>2. Table \subseteq Phils
  BY DEF Table
<1> QED BY <1>1, <1>2, FS_Subset, FS_CardinalityType

\* The invariant holds when main begins.
LEMMA InitIInv == Init => IInv
<1> SUFFICES ASSUME Init PROVE IInv
  OBVIOUS
<1>1. Shape /\ StartedExact /\ RoundsLeft
  BY NAssumption, MealsAssumption
  DEF Init, Shape, StartedExact, RoundsLeft, Phils, Seats
<1>2. ForksExact
  BY Ring DEF Init, ForksExact, HoldsLeft, HoldsRight
<1>3. Table = {}
  BY DEF Init, Table, AtTable
<1>4. SeatsExact
  BY <1>3, FS_EmptySet, NAssumption DEF Init, SeatsExact, Seats
<1> QED BY <1>1, <1>2, <1>4 DEF IInv

\* sem_wait(lock) is how a philosopher comes to the table, and it takes a seat.
LEMMA SitDownSeats ==
  ASSUME NEW i \in Phils, IInv, SitDown(i) PROVE SeatsExact'
<1>1. Table' = Table \cup {i} /\ i \notin Table
  BY DEF SitDown, Goto, Table, AtTable, IInv, Shape
<1>2. Cardinality(Table') = Cardinality(Table) + 1
  BY <1>1, TableFinite, FS_AddElement
<1> QED BY <1>2, TableFinite, NAssumption
        DEF SitDown, SeatsExact, Seats, IInv, Shape

\* sem_post(lock) gives it back as he leaves.
LEMMA LeaveSeats ==
  ASSUME NEW i \in Phils, IInv, Leave(i) PROVE SeatsExact'
<1>1. Table' = Table \ {i} /\ i \in Table
  BY DEF Leave, Goto, Table, AtTable, IInv, Shape
<1>2. Cardinality(Table') = Cardinality(Table) - 1
  BY <1>1, TableFinite, FS_RemoveElement
<1> QED BY <1>2, TableFinite, NAssumption
        DEF Leave, SeatsExact, Seats, IInv, Shape

\* Every step keeps the invariant.
LEMMA NextIInv == IInv /\ [Next]_vars => IInv'
<1> SUFFICES ASSUME IInv, [Next]_vars PROVE IInv'
  OBVIOUS
<1> USE NAssumption, MealsAssumption
<1>1. CASE UNCHANGED vars
  <2>1. Table' = Table
    BY <1>1 DEF vars, Table, AtTable
  <2> QED BY <1>1, <2>1
      DEF vars, IInv, Shape, ForksExact, SeatsExact, StartedExact, RoundsLeft,
          HoldsLeft, HoldsRight
<1>2. CASE Create
  <2>1. created \in Phils /\ pc[created] = "new"
    BY <1>2 DEF Create, IInv, Shape, StartedExact, Phils
  <2>2. Table' = Table
    BY <1>2, <2>1 DEF Create, Goto, Table, AtTable, IInv, Shape
  <2>3. Shape' /\ StartedExact' /\ RoundsLeft'
    BY <1>2, <2>1
    DEF Create, Goto, IInv, Shape, StartedExact, RoundsLeft, Phils
  <2>4. ForksExact'
    BY <1>2, <2>1, Ring
    DEF Create, Goto, IInv, Shape, ForksExact, HoldsLeft, HoldsRight
  <2> QED BY <1>2, <2>2, <2>3, <2>4 DEF Create, IInv, SeatsExact
<1>3. ASSUME NEW i \in Phils, SitDown(i) PROVE IInv'
  <2>1. Shape' /\ StartedExact' /\ RoundsLeft'
    BY <1>3 DEF SitDown, Goto, IInv, Shape, StartedExact, RoundsLeft
  <2>2. ForksExact'
    BY <1>3, Ring
    DEF SitDown, Goto, IInv, Shape, ForksExact, HoldsLeft, HoldsRight
  <2> QED BY <1>3, <2>1, <2>2, SitDownSeats DEF IInv
<1>4. ASSUME NEW i \in Phils, TakeLeft(i) PROVE IInv'
  <2>1. Shape' /\ StartedExact' /\ RoundsLeft' /\ Table' = Table
    BY <1>4 DEF TakeLeft, Wait, Left, Goto, IInv, Shape, StartedExact,
                RoundsLeft, Table, AtTable
  <2>2. ForksExact'
    BY <1>4, Ring
    DEF TakeLeft, Wait, Left, Goto, IInv, Shape, ForksExact, HoldsLeft,
        HoldsRight
  <2> QED BY <1>4, <2>1, <2>2 DEF TakeLeft, IInv, SeatsExact
<1>5. ASSUME NEW i \in Phils, TakeRight(i) PROVE IInv'
  <2>1. Shape' /\ StartedExact' /\ RoundsLeft' /\ Table' = Table
    BY <1>5, Ring DEF TakeRight, Wait, Goto, IInv, Shape, StartedExact,
                RoundsLeft, Table, AtTable
  <2>2. ForksExact'
    BY <1>5, Ring
    DEF TakeRight, Wait, Goto, IInv, Shape, ForksExact, HoldsLeft, HoldsRight
  <2> QED BY <1>5, <2>1, <2>2 DEF TakeRight, IInv, SeatsExact
<1>6. ASSUME NEW i \in Phils, PutLeft(i) PROVE IInv'
  <2>0. forks[i] = 0
    BY <1>6, Ring DEF PutLeft, IInv, Shape, ForksExact, HoldsLeft
  <2>1. Shape' /\ StartedExact' /\ RoundsLeft' /\ Table' = Table
    BY <1>6, <2>0 DEF PutLeft, Post, Left, Goto, IInv, Shape, StartedExact,
                RoundsLeft, Table, AtTable
  <2>2. ForksExact'
    BY <1>6, <2>0, Ring
    DEF PutLeft, Post, Left, Goto, IInv, Shape, ForksExact, HoldsLeft,
        HoldsRight
  <2> QED BY <1>6, <2>1, <2>2 DEF PutLeft, IInv, SeatsExact
<1>7. ASSUME NEW i \in Phils, PutRight(i) PROVE IInv'
  <2>0. Right(i) \in Phils /\ forks[Right(i)] = 0
    BY <1>7, Ring DEF PutRight, IInv, Shape, ForksExact, HoldsRight
  <2>1. Shape' /\ StartedExact' /\ RoundsLeft' /\ Table' = Table
    BY <1>7, <2>0 DEF PutRight, Post, Goto, IInv, Shape, StartedExact,
                RoundsLeft, Table, AtTable
  <2>2. ForksExact'
    BY <1>7, <2>0, Ring
    DEF PutRight, Post, Goto, IInv, Shape, ForksExact, HoldsLeft, HoldsRight
  <2> QED BY <1>7, <2>1, <2>2 DEF PutRight, IInv, SeatsExact
<1>8. ASSUME NEW i \in Phils, Leave(i) PROVE IInv'
  <2>1. Shape' /\ StartedExact' /\ RoundsLeft'
    BY <1>8 DEF Leave, Goto, IInv, Shape, StartedExact, RoundsLeft
  <2>2. ForksExact'
    BY <1>8, Ring
    DEF Leave, Goto, IInv, Shape, ForksExact, HoldsLeft, HoldsRight
  <2> QED BY <1>8, <2>1, <2>2, LeaveSeats DEF IInv
<1> QED BY <1>1, <1>2, <1>3, <1>4, <1>5, <1>6, <1>7, <1>8 DEF Next, Phil
-----------------------------------------------------------------------------
\* The invariant holds throughout.
LEMMA Inductive == Spec => []IInv
BY InitIInv, NextIInv, PTL DEF Spec

\* A set of philosophers that contains everybody's right neighbour with him is
\* empty or has them all.
LEMMA AllRound ==
  ASSUME NEW S, S \subseteq Phils, S # {}, \A i \in S : Right(i) \in S
  PROVE  S = Phils
<1> USE NAssumption
<1>1. \A i \in Phils : Right(i) = IF i = N - 1 THEN 0 ELSE i + 1
  BY DEF Phils, Right
<1>2. N - 1 \in S
  <2> DEFINE D == {d \in 0 .. N - 1 : (N - 1) - d \in S}
  <2>1. D \subseteq Nat
    OBVIOUS
  <2>2. D # {}
    <3>1. PICK i \in S : TRUE
      OBVIOUS
    <3>2. (N - 1) - i \in D
      BY <3>1 DEF Phils
    <3> QED BY <3>2
  <2>3. PICK d \in D : \A e \in D : d <= e
    <3> HIDE DEF D
    <3> QED BY <2>1, <2>2, Minimum
  <2>4. CASE d = 0
    BY <2>3, <2>4
  <2>5. CASE d # 0
    <3>1. (N - 1) - (d - 1) \in S
      BY <1>1, <2>3, <2>5 DEF Phils
    <3>2. d - 1 \in D
      BY <3>1, <2>3, <2>5
    <3> QED BY <3>2, <2>3, <2>5
  <2> QED BY <2>4, <2>5
<1>3. 0 \in S
  BY <1>1, <1>2 DEF Phils
<1>4. \A n \in 0 .. (N - 1) - 1 : n \in S => n + 1 \in S
  BY <1>1 DEF Phils
<1>5. 0 .. N - 1 \subseteq S
  BY <1>3, <1>4, Climb
<1> QED BY <1>5 DEF Phils

\* In a state of the invariant somebody can move, or nobody needs to.
LEMMA IInvNotStuck == IInv => NotStuck
<1> SUFFICES ASSUME IInv, created = N, \A i \in Phils : ~CanMove(i)
             PROVE  \A i \in Phils : pc[i] = "done"
  BY NAssumption DEF NotStuck, IInv, Shape
<1> USE NAssumption
<1> DEFINE S == {i \in Phils : pc[i] = "right"}
<1>1. \A i \in Phils : pc[i] # "new"
  BY DEF IInv, StartedExact, Phils
<1>2. \A i \in Phils : ~HoldsRight(i)
  BY DEF HoldsRight, CanMove
<1>3. \A k \in Phils : forks[k] = 1 <=> ~HoldsLeft(k)
  BY <1>2, Ring DEF IInv, ForksExact
<1>4. \A i \in Phils : pc[i] \in {"think", "right", "done"}
  BY <1>1, <1>3 DEF CanMove, Left, HoldsLeft, IInv, Shape
<1>5. \A i \in S : Right(i) \in S
  BY <1>3, <1>4, Ring DEF CanMove, HoldsLeft, IInv, Shape
<1>6. Table = S
  BY <1>4 DEF Table, AtTable
<1>7. S = {}
  <2> SUFFICES ASSUME S # {} PROVE FALSE
    OBVIOUS
  <2>1. Table = Phils
    BY <1>5, <1>6, AllRound
  <2>2. Cardinality(Table) = N
    BY <2>1, FS_Interval DEF Phils
  <2> QED BY <2>2 DEF IInv, SeatsExact, Shape, Seats
<1>8. lock = N - 1
  BY <1>6, <1>7, FS_EmptySet DEF IInv, SeatsExact, Seats
<1> QED BY <1>4, <1>7, <1>8 DEF CanMove
-----------------------------------------------------------------------------
\* Type correctness: every semaphore keeps within its bounds, a fork's within
\* 0 and 1, although they are counting semaphores.
THEOREM TypeCorrect == Spec => []TypeOK
<1>1. IInv => TypeOK
  BY TableFinite, NAssumption DEF IInv, Shape, SeatsExact, Seats, TypeOK
<1> QED BY <1>1, Inductive, PTL

\* Mutual exclusion: neighbours never eat at the same time, for any number of
\* philosophers and meals.
THEOREM Exclusion == Spec => []NeighboursApart
<1>1. IInv => NeighboursApart
  BY DEF IInv, ForksExact, NeighboursApart, HoldsLeft, HoldsRight
<1> QED BY <1>1, Inductive, PTL

\* No fork is lost or duplicated.
THEOREM ForksKept == Spec => []ForksExact
<1>1. IInv => ForksExact
  BY DEF IInv
<1> QED BY <1>1, Inductive, PTL

\* No deadlock: the seats of "lock" leave somebody who can move, for any number
\* of philosophers.
THEOREM DeadlockFree == Spec => []NotStuck
BY IInvNotStuck, Inductive, PTL
=============================================================================
