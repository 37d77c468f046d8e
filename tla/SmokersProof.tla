---------------------------- MODULE SmokersProof ----------------------------
(***************************************************************************)
(* Safety of the cigarette smokers for any number of smokers and any limit *)
(* of the semaphores.                                                      *)
(***************************************************************************)
EXTENDS Smokers, FiniteSetTheorems, TLAPS

\* How often item k is under way between agent and smoker: handed to its
\* admin, carried by it, on the table.
One(b) == IF b THEN 1 ELSE 0
Copies(k) == admin_sem[k] + One(k \in carrying) + One(items_available[k])

\* The items that are under way, if they are the ones of H, each once.
Handed(H) == \A k \in Objects : Copies(k) = One(k \in H)

\* Whom the smokers' semaphores let go on: the smokers of the items K.
Woken(K) == \A k \in Objects : smoker_sem[k] = One(k \in K)

\* The stations of a round of agent r: it may begin, it has handed out one
\* item, both, they were joined, the cigarette is being made.
MayStart == /\ agent_lock = 1 /\ placing = {} /\ making = {}
            /\ Handed({}) /\ Woken({})
OneOut(r) == /\ agent_lock = 0 /\ placing = {r} /\ making = {}
             /\ Handed({r}) /\ Woken({})
BothOut(r) == /\ agent_lock = 0 /\ placing = {} /\ making = {}
              /\ Handed({r, Plus(r, 1)}) /\ Woken({})
Joined(r) == /\ agent_lock = 0 /\ placing = {} /\ making = {}
             /\ Handed({}) /\ Woken({Plus(r, 2)})
BeingMade == /\ agent_lock = 0 /\ placing = {} /\ (\E i \in SmokerIds : making = {i})
             /\ Handed({}) /\ Woken({})

\* As long as every smoker that goes on had items, the round of the agent is
\* at one of these stations.
Station == round # UPSET => \/ MayStart \/ BeingMade
                            \/ OneOut(round) \/ BothOut(round) \/ Joined(round)

\* The inductive invariant.
IInv == TypeOK /\ TableOne /\ Station
-----------------------------------------------------------------------------
\* Three items: the ones after k are the other two.
LEMMA Items ==
  ASSUME NEW k \in Objects
  PROVE  /\ Plus(k, 1) \in Objects /\ Plus(k, 2) \in Objects
         /\ Plus(k, 1) # k /\ Plus(k, 2) # k /\ Plus(k, 1) # Plus(k, 2)
         /\ Plus(Plus(k, 1), 1) = Plus(k, 2) /\ Plus(Plus(k, 1), 2) = k
         /\ \A j \in Objects : j = k \/ j = Plus(k, 1) \/ j = Plus(k, 2)
BY DEF Objects, Plus

\* sem_post keeps within the limit, and a semaphore at 0 goes up.
LEMMA PostFacts ==
  ASSUME NEW n \in 0 .. SEM_VALUE_MAX
  PROVE  Post(n) \in 0 .. SEM_VALUE_MAX /\ (n = 0 => Post(n) = 1)
BY SmokersAssumption DEF Post

\* What admin k finds on the table: the nearer of the other items.
LEMMA Nearer ==
  ASSUME NEW k \in Objects, TypeOK, Matches(k) # {}
  PROVE  LET d == Min(Matches(k)) IN
         /\ d \in {1, 2} /\ items_available[Plus(k, d)]
         /\ d = 2 => ~items_available[Plus(k, 1)]
<1> DEFINE d == Min(Matches(k))
<1>1. Matches(k) \subseteq {1, 2}
  BY DEF Matches
<1>2. \E x \in Matches(k) : \A y \in Matches(k) : x <= y
  <2>1. CASE 1 \in Matches(k)
    BY <1>1, <2>1
  <2>2. CASE 1 \notin Matches(k)
    <3>1. Matches(k) = {2}
      BY <1>1, <2>2
    <3> QED BY <3>1
  <2> QED BY <2>1, <2>2
<1>3. d \in Matches(k) /\ \A y \in Matches(k) : d <= y
  BY <1>2 DEF Min
<1> QED BY <1>1, <1>3 DEF Matches

\* The size of a union of two sets without common elements.
LEMMA DisjointUnion ==
  ASSUME NEW A, IsFiniteSet(A), NEW B, IsFiniteSet(B), A \cap B = {}
  PROVE  /\ IsFiniteSet(A \cup B)
         /\ Cardinality(A) \in Nat /\ Cardinality(B) \in Nat
         /\ Cardinality(A \cup B) = Cardinality(A) + Cardinality(B)
<1>1. /\ IsFiniteSet(A \cup B)
      /\ Cardinality(A \cup B) =
           Cardinality(A) + Cardinality(B) - Cardinality(A \cap B)
  BY FS_Union
<1>2. Cardinality(A) \in Nat /\ Cardinality(B) \in Nat
  BY FS_CardinalityType
<1>3. Cardinality(A \cap B) = 0
  BY FS_EmptySet
<1> QED BY <1>1, <1>2, <1>3

\* The size of a set of items, item by item.
LEMMA ItemsCount ==
  ASSUME NEW S, S \subseteq Objects
  PROVE  Cardinality(S) = One(0 \in S) + One(1 \in S) + One(2 \in S)
<1> DEFINE P(k) == S \cap {k}
<1>1. ASSUME NEW k \in Objects
      PROVE  IsFiniteSet(P(k)) /\ Cardinality(P(k)) = One(k \in S)
  <2>1. CASE k \in S
    <3>1. P(k) = {k}
      BY <2>1
    <3> QED BY <2>1, <3>1, FS_Singleton DEF One
  <2>2. CASE k \notin S
    <3>1. P(k) = {}
      BY <2>2
    <3> QED BY <2>2, <3>1, FS_EmptySet DEF One
  <2> QED BY <2>1, <2>2
<1> DEFINE A == P(0)
           B == P(1)
           C == P(2)
<1> DEFINE D == A \cup B
<1>2. A \cap B = {} /\ D \cap C = {} /\ D \cup C = S
  <2>1. \A x \in S : x = 0 \/ x = 1 \/ x = 2
    BY DEF Objects
  <2> QED BY <2>1
<1>3. /\ IsFiniteSet(A) /\ Cardinality(A) = One(0 \in S)
      /\ IsFiniteSet(B) /\ Cardinality(B) = One(1 \in S)
      /\ IsFiniteSet(C) /\ Cardinality(C) = One(2 \in S)
  BY <1>1 DEF Objects
<1> HIDE DEF A, B, C
<1>4. IsFiniteSet(D) /\ Cardinality(D) = One(0 \in S) + One(1 \in S)
  BY <1>2, <1>3, DisjointUnion
<1> HIDE DEF D
<1>5. Cardinality(D \cup C) = One(0 \in S) + One(1 \in S) + One(2 \in S)
  BY <1>2, <1>3, <1>4, DisjointUnion
<1> QED BY <1>2, <1>5
-----------------------------------------------------------------------------
\* At every station two items are under way, and only the right smokers are
\* woken.
LEMMA StationKept ==
  ASSUME IInv PROVE RoundKept
<1> SUFFICES ASSUME round # UPSET
             PROVE  /\ UnderWay = 2
                    /\ \A k \in Objects : smoker_sem[k] > 0 => k = Plus(round, 2)
  BY DEF RoundKept
<1>1. /\ round \in Objects /\ agent_lock \in Nat
      /\ smoker_sem \in [Objects -> Nat] /\ admin_sem \in [Objects -> Nat]
      /\ placing \subseteq Objects /\ carrying \subseteq Objects
  BY SmokersAssumption DEF IInv, TypeOK
<1> DEFINE T == {k \in Objects : items_available[k]}
<1>2. /\ Cardinality(carrying) = One(0 \in carrying) + One(1 \in carrying) + One(2 \in carrying)
      /\ Cardinality(T) = One(0 \in T) + One(1 \in T) + One(2 \in T)
  BY <1>1, ItemsCount
<1>3. \A k \in Objects : One(k \in T) = One(items_available[k])
  BY DEF One
<1>4. Total(admin_sem) + Cardinality(carrying) + Cardinality(T)
        = Copies(0) + Copies(1) + Copies(2)
  <2>1. \A k \in Objects : /\ admin_sem[k] \in Nat
                           /\ One(k \in carrying) \in Nat /\ One(items_available[k]) \in Nat
    BY <1>1 DEF One
  <2> HIDE DEF T
  <2> QED BY <1>2, <1>3, <2>1 DEF Total, Copies, Objects
<1> DEFINE Rest == 2 * agent_lock + Cardinality(placing) + 2 * Total(smoker_sem)
                   + 2 * Cardinality(making)
<1>5. ASSUME NEW H, Handed(H)
      PROVE  Copies(0) + Copies(1) + Copies(2) = One(0 \in H) + One(1 \in H) + One(2 \in H)
  BY <1>5 DEF Handed, Objects
<1>6. ASSUME NEW K, Woken(K)
      PROVE  Total(smoker_sem) = One(0 \in K) + One(1 \in K) + One(2 \in K)
  BY <1>6 DEF Woken, Objects, Total
<1>7. Cardinality({}) = 0 /\ \A x : Cardinality({x}) = 1
  BY FS_EmptySet, FS_Singleton
<1>8. UnderWay = Rest + (Total(admin_sem) + Cardinality(carrying) + Cardinality(T))
  <2>1. /\ Cardinality(placing) \in Nat /\ Cardinality(carrying) \in Nat
        /\ Cardinality(T) \in Nat /\ Cardinality(making) \in Nat
        /\ Total(admin_sem) \in Nat /\ Total(smoker_sem) \in Nat
    <3>0. /\ making = {} \/ \E i : making = {i}
          /\ placing = {} \/ \E i : placing = {i}
      BY DEF IInv, Station, MayStart, OneOut, BothOut, Joined, BeingMade
    <3>1. Cardinality(making) \in {0, 1}
      BY <1>7, <3>0, Zenon
    <3>2. Cardinality(placing) \in {0, 1}
      BY <1>7, <3>0, Zenon
    <3> HIDE DEF T
    <3> QED BY <1>1, <1>2, <3>1, <3>2 DEF Total, Objects, One
  <2> QED BY <1>1, <2>1 DEF UnderWay
<1> HIDE DEF T
<1>9. CASE MayStart
  <2>1. Rest = 2
    BY <1>6, <1>7, <1>9 DEF MayStart, One
  <2>2. Copies(0) + Copies(1) + Copies(2) = 0
    BY <1>5, <1>9 DEF MayStart, One
  <2> QED BY <1>4, <1>8, <1>9, <2>1, <2>2 DEF MayStart, Woken, One
<1>10. CASE OneOut(round)
  <2>1. Rest = 1
    BY <1>6, <1>7, <1>10 DEF OneOut, One
  <2>2. Copies(0) + Copies(1) + Copies(2) = 1
    BY <1>1, <1>5, <1>10 DEF OneOut, One, Objects
  <2> QED BY <1>4, <1>8, <1>10, <2>1, <2>2 DEF OneOut, Woken, One
<1>11. CASE BothOut(round)
  <2>1. Rest = 0
    BY <1>6, <1>7, <1>11 DEF BothOut, One
  <2>2. Copies(0) + Copies(1) + Copies(2) = 2
    BY <1>1, <1>5, <1>11 DEF BothOut, One, Objects, Plus
  <2> QED BY <1>4, <1>8, <1>11, <2>1, <2>2 DEF BothOut, Woken, One
<1>12. CASE Joined(round)
  <2>1. Rest = 2
    BY <1>1, <1>6, <1>7, <1>12 DEF Joined, One, Objects, Plus
  <2>2. Copies(0) + Copies(1) + Copies(2) = 0
    BY <1>5, <1>12 DEF Joined, One
  <2> QED BY <1>4, <1>8, <1>12, <2>1, <2>2 DEF Joined, Woken, One
<1>13. CASE BeingMade
  <2>1. Rest = 2
    BY <1>6, <1>7, <1>13 DEF BeingMade, One
  <2>2. Copies(0) + Copies(1) + Copies(2) = 0
    BY <1>5, <1>13 DEF BeingMade, One
  <2> QED BY <1>4, <1>8, <1>13, <2>1, <2>2 DEF BeingMade, Woken, One
<1> QED BY <1>9, <1>10, <1>11, <1>12, <1>13 DEF IInv, Station
-----------------------------------------------------------------------------
(* The steps. *)

\* The invariant holds at first.
LEMMA InitIInv == Init => IInv
<1> SUFFICES ASSUME Init PROVE IInv
  OBVIOUS
<1>1. TypeOK /\ TableOne
  BY SmokersAssumption DEF Init, TypeOK, TableOne, Objects
<1>2. MayStart
  BY DEF Init, MayStart, Handed, Woken, Copies, One
<1> QED BY <1>1, <1>2 DEF IInv, Station

\* A smoker that finds items has the round's; one that does not upsets it.
LEMMA TimedWaitIInv ==
  ASSUME IInv, NEW i \in SmokerIds, SmokerTimedWait(i)
  PROVE  IInv'
<1> DEFINE k == i % 3
<1>1. k \in Objects
  BY SmokersAssumption DEF Objects
<1>2. /\ i \notin making /\ making' = making \cup {i}
      /\ smoker_sem' = [smoker_sem EXCEPT ![k] = IF @ > 0 THEN @ - 1 ELSE @]
      /\ round' = IF smoker_sem[k] = 0 THEN UPSET ELSE round
      /\ UNCHANGED <<admin_sem, agent_lock, items_available, placing, carrying>>
  BY DEF SmokerTimedWait
<1> HIDE DEF k
<1>3. smoker_sem \in [Objects -> 0 .. SEM_VALUE_MAX]
  BY DEF IInv, TypeOK
<1>4. TypeOK' /\ TableOne'
  BY <1>1, <1>2, <1>3, SmokersAssumption DEF IInv, TypeOK, TableOne
<1>5. ASSUME round' # UPSET PROVE BeingMade'
  <2>1. smoker_sem[k] # 0 /\ round # UPSET /\ round' = round
    BY <1>2, <1>5
  <2>2. Joined(round) /\ k = Plus(round, 2)
    BY <1>1, <2>1
    DEF IInv, Station, MayStart, BeingMade, OneOut, BothOut, Joined, Woken, One
  <2>3. making' = {i} /\ agent_lock' = 0 /\ placing' = {}
    BY <1>2, <2>2 DEF Joined
  <2>4. Handed({})'
    BY <1>2, <2>2 DEF Joined, Handed, Copies
  <2>5. Woken({})'
    BY <1>1, <1>2, <1>3, <2>2 DEF Joined, Woken, One
  <2> QED BY <2>3, <2>4, <2>5 DEF BeingMade
<1> QED BY <1>4, <1>5 DEF IInv, Station

\* The agents may go on.
LEMMA DoneIInv ==
  ASSUME IInv, NEW i \in SmokerIds, SmokerDone(i)
  PROVE  IInv'
<1>1. /\ i \in making /\ making' = making \ {i} /\ agent_lock' = Post(agent_lock)
      /\ UNCHANGED <<smoker_sem, admin_sem, items_available, placing, carrying, round>>
  BY DEF SmokerDone, NextRound
<1>2. TypeOK' /\ TableOne'
  BY <1>1, PostFacts DEF IInv, TypeOK, TableOne
<1>3. ASSUME round' # UPSET PROVE MayStart'
  <2>1. BeingMade
    BY <1>1, <1>3 DEF IInv, Station, MayStart, OneOut, BothOut, Joined
  <2>2. agent_lock' = 1 /\ making' = {} /\ placing' = {}
    BY <1>1, <2>1, PostFacts DEF BeingMade, IInv, TypeOK
  <2> QED BY <1>1, <2>1, <2>2 DEF BeingMade, MayStart, Handed, Copies, Woken
<1> QED BY <1>2, <1>3 DEF IInv, Station

\* A round begins: nothing of the last one is left.
LEMMA FirstIInv ==
  ASSUME IInv, NEW k \in Objects, AgentFirst(k)
  PROVE  IInv'
<1>1. /\ k \notin placing /\ agent_lock > 0 /\ agent_lock' = agent_lock - 1
      /\ admin_sem' = [admin_sem EXCEPT ![k] = Post(@)]
      /\ placing' = placing \cup {k}
      /\ round' = IF round = UPSET THEN UPSET ELSE k
      /\ UNCHANGED <<smoker_sem, items_available, making, carrying>>
  BY DEF AgentFirst, MayBegin
<1>2. admin_sem \in [Objects -> 0 .. SEM_VALUE_MAX]
  BY DEF IInv, TypeOK
<1>3. TypeOK' /\ TableOne'
  BY <1>1, <1>2, PostFacts, SmokersAssumption DEF IInv, TypeOK, TableOne
<1>4. ASSUME round' # UPSET PROVE OneOut(round)'
  <2>1. MayStart /\ round' = k
    BY <1>1, <1>4
    DEF IInv, Station, MayStart, BeingMade, OneOut, BothOut, Joined
  <2>2. \A j \in Objects : Copies(j) = 0
    BY <2>1 DEF MayStart, Handed, One
  <2>3. \A j \in Objects : Copies(j)' = One(j \in {k})
    <3>1. \A j \in Objects : admin_sem[j] = 0
      BY <1>2, <2>2, SmokersAssumption DEF Copies, One
    <3> QED BY <1>1, <1>2, <2>2, <3>1, PostFacts DEF Copies, One
  <2>4. agent_lock' = 0 /\ placing' = {round'} /\ making' = {} /\ Woken({})'
    BY <1>1, <2>1 DEF MayStart, Woken
  <2> QED BY <2>1, <2>3, <2>4 DEF OneOut, Handed
<1> QED BY <1>3, <1>4 DEF IInv, Station

\* The agent of the round hands out its second item.
LEMMA SecondIInv ==
  ASSUME IInv, NEW k \in Objects, AgentSecond(k)
  PROVE  IInv'
<1> DEFINE j == Plus(k, 1)
<1>1. /\ k \in placing /\ placing' = placing \ {k}
      /\ admin_sem' = [admin_sem EXCEPT ![j] = Post(@)]
      /\ UNCHANGED <<smoker_sem, agent_lock, items_available, making, carrying, round>>
  BY DEF AgentSecond, SecondItem
<1>2. admin_sem \in [Objects -> 0 .. SEM_VALUE_MAX] /\ j \in Objects /\ j # k
  BY Items DEF IInv, TypeOK
<1> HIDE DEF j
<1>3. TypeOK' /\ TableOne'
  BY <1>1, <1>2, PostFacts DEF IInv, TypeOK, TableOne
<1>4. ASSUME round' # UPSET PROVE BothOut(round)'
  <2>1. OneOut(round) /\ round = k /\ round' = k
    BY <1>1, <1>4
    DEF IInv, Station, MayStart, BeingMade, OneOut, BothOut, Joined
  <2>2. \A o \in Objects : Copies(o) = One(o \in {k})
    BY <2>1 DEF OneOut, Handed
  <2>3. admin_sem[j] = 0
    BY <1>2, <2>2, SmokersAssumption DEF Copies, One
  <2>4. \A o \in Objects : Copies(o)' = One(o \in {k, j})
    <3> SUFFICES ASSUME NEW o \in Objects PROVE Copies(o)' = One(o \in {k, j})
      OBVIOUS
    <3>1. CASE o = j
      BY <1>1, <1>2, <2>2, <2>3, <3>1, PostFacts DEF Copies, One
    <3>2. CASE o # j
      BY <1>1, <1>2, <2>2, <3>2 DEF Copies, One
    <3> QED BY <3>1, <3>2
  <2>5. agent_lock' = 0 /\ placing' = {} /\ making' = {} /\ Woken({})'
    BY <1>1, <2>1 DEF OneOut, Woken
  <2> QED BY <2>1, <2>4, <2>5 DEF BothOut, Handed, j
<1> QED BY <1>3, <1>4 DEF IInv, Station

\* An admin takes the item that it was handed.
LEMMA AdminWaitIInv ==
  ASSUME IInv, NEW k \in Objects, AdminWait(k)
  PROVE  IInv'
<1>1. /\ k \notin carrying /\ admin_sem[k] > 0
      /\ admin_sem' = [admin_sem EXCEPT ![k] = @ - 1]
      /\ carrying' = carrying \cup {k}
      /\ UNCHANGED <<smoker_sem, agent_lock, items_available, making, placing, round>>
  BY DEF AdminWait
<1>2. admin_sem \in [Objects -> 0 .. SEM_VALUE_MAX]
  BY DEF IInv, TypeOK
<1>3. TypeOK' /\ TableOne'
  BY <1>1, <1>2, SmokersAssumption DEF IInv, TypeOK, TableOne
<1>4. \A j \in Objects : Copies(j)' = Copies(j)
  BY <1>1, <1>2, SmokersAssumption DEF Copies, One
<1>5. \A H : Handed(H)' <=> Handed(H)
  BY <1>4 DEF Handed
<1>6. Station'
  BY <1>1, <1>5 DEF IInv, Station, MayStart, BeingMade, OneOut, BothOut, Joined, Woken
<1> QED BY <1>3, <1>6 DEF IInv

\* An admin joins its item with the one on the table, or lays it down.
LEMMA AdminPushIInv ==
  ASSUME IInv, NEW k \in Objects, AdminPush(k)
  PROVE  IInv'
<1>1. /\ k \in carrying /\ carrying' = carrying \ {k}
      /\ UNCHANGED <<admin_sem, agent_lock, making, placing, round>>
  BY DEF AdminPush
<1>2. /\ admin_sem \in [Objects -> 0 .. SEM_VALUE_MAX]
      /\ smoker_sem \in [Objects -> 0 .. SEM_VALUE_MAX]
      /\ items_available \in [Objects -> BOOLEAN]
      /\ round \in Objects \cup {UPSET}
  BY DEF IInv, TypeOK
<1>3. ASSUME round # UPSET
      PROVE  /\ \/ OneOut(round) /\ k = round
                \/ BothOut(round) /\ k \in {round, Plus(round, 1)}
             /\ Copies(k) = 1 /\ admin_sem[k] = 0 /\ ~items_available[k]
  <2>1. /\ Copies(k) > 0
        /\ Copies(k) = 1 => admin_sem[k] = 0 /\ ~items_available[k]
    BY <1>1, <1>2, SmokersAssumption DEF Copies, One
  <2>2. ASSUME NEW H, Handed(H) PROVE k \in H /\ Copies(k) = 1
    BY <2>1, <2>2 DEF Handed, One
  <2>3. ~Handed({})
    BY <2>2
  <2>4. OneOut(round) \/ BothOut(round)
    BY <1>3, <2>3 DEF IInv, Station, MayStart, BeingMade, Joined
  <2>5. CASE OneOut(round)
    BY <2>1, <2>2, <2>5 DEF OneOut
  <2>6. CASE BothOut(round)
    BY <2>1, <2>2, <2>6 DEF BothOut
  <2> QED BY <2>4, <2>5, <2>6
<1>4. CASE Matches(k) = {}
  <2>1. /\ items_available' = [items_available EXCEPT ![k] = TRUE]
        /\ smoker_sem' = smoker_sem
    BY <1>4 DEF AdminPush
  <2>2. ~items_available[Plus(k, 1)] /\ ~items_available[Plus(k, 2)]
    BY <1>4 DEF Matches
  <2>3. TypeOK' /\ TableOne'
    <3>1. \A j \in Objects : items_available'[j] => j = k
      BY <1>2, <2>1, <2>2, Items
    <3> QED BY <1>1, <2>1, <3>1 DEF IInv, TypeOK, TableOne
  <2>4. ASSUME round # UPSET PROVE \A j \in Objects : Copies(j)' = Copies(j)
    BY <1>1, <1>2, <1>3, <2>1, <2>4, SmokersAssumption DEF Copies, One
  <2>5. ASSUME round # UPSET PROVE \A H : Handed(H)' <=> Handed(H)
    BY <2>4, <2>5 DEF Handed
  <2>6. Station'
    BY <1>1, <2>1, <2>5
    DEF IInv, Station, MayStart, BeingMade, OneOut, BothOut, Joined, Woken
  <2> QED BY <2>3, <2>6 DEF IInv
<1>5. CASE Matches(k) # {}
  <2> DEFINE d == Min(Matches(k))
  <2>0. /\ d \in {1, 2} /\ items_available[Plus(k, d)]
        /\ items_available' = [items_available EXCEPT ![Plus(k, d)] = FALSE]
        /\ smoker_sem' = [smoker_sem EXCEPT ![Plus(k, 3 - d)] = Post(@)]
    BY <1>5, Nearer DEF AdminPush, IInv
  <2> HIDE DEF d
  <2>1. PICK o \in Objects, s \in Objects :
          /\ (o = Plus(k, 1) /\ s = Plus(k, 2)) \/ (o = Plus(k, 2) /\ s = Plus(k, 1))
          /\ items_available[o]
          /\ items_available' = [items_available EXCEPT ![o] = FALSE]
          /\ smoker_sem' = [smoker_sem EXCEPT ![s] = Post(@)]
    <3>1. CASE d = 1
      <4>1. Plus(k, 3 - d) = Plus(k, 2) /\ Plus(k, d) = Plus(k, 1)
        BY <3>1
      <4>2. Plus(k, 1) \in Objects /\ Plus(k, 2) \in Objects
        BY Items
      <4> QED BY <2>0, <4>1, <4>2, Zenon
    <3>2. CASE d = 2
      <4>1. Plus(k, 3 - d) = Plus(k, 1) /\ Plus(k, d) = Plus(k, 2)
        BY <3>2
      <4>2. Plus(k, 1) \in Objects /\ Plus(k, 2) \in Objects
        BY Items
      <4> QED BY <2>0, <4>1, <4>2, Zenon
    <3> QED BY <2>0, <3>1, <3>2
  <2>2. items_available[o]
    BY <2>1
  <2>3. /\ o # k
        /\ (o = Plus(k, 1) /\ s = Plus(k, 2)) \/ (o = Plus(k, 2) /\ s = Plus(k, 1))
    BY <2>1, Items
  <2>4. TypeOK' /\ TableOne'
    BY <1>1, <1>2, <2>1, <2>3, PostFacts DEF IInv, TypeOK, TableOne
  <2>5. ASSUME round' # UPSET PROVE Joined(round)'
    <3>1. round # UPSET /\ round' = round /\ round \in Objects
      BY <1>1, <1>2, <2>5
    <3>2. BothOut(round) /\ {k, o} = {round, Plus(round, 1)}
      <4>1. Copies(o) > 0
        BY <1>2, <2>2, <2>3, SmokersAssumption DEF Copies, One
      <4>2. ASSUME NEW H, Handed(H) PROVE o \in H
        BY <4>1, <4>2 DEF Handed, One
      <4>3. ~OneOut(round) \/ k # round
        BY <2>3, <4>2 DEF OneOut
      <4>4. BothOut(round) /\ k \in {round, Plus(round, 1)}
        BY <1>3, <3>1, <4>3
      <4>5. o \in {round, Plus(round, 1)}
        BY <4>2, <4>4 DEF BothOut
      <4> QED BY <2>3, <4>4, <4>5
    <3>3. s = Plus(round, 2)
      BY <2>3, <3>1, <3>2, Items
    <3>4. \A j \in Objects : Copies(j) = One(j \in {k, o})
      BY <3>2 DEF BothOut, Handed
    <3>5. ASSUME NEW j \in Objects PROVE Copies(j)' = 0
      <4>1. CASE j = k
        BY <1>1, <1>2, <1>3, <2>1, <2>3, <3>1, <4>1 DEF Copies, One
      <4>2. CASE j = o
        BY <1>1, <1>2, <2>1, <2>2, <2>3, <3>4, <4>2, SmokersAssumption DEF Copies, One
      <4>3. CASE j # k /\ j # o
        BY <1>1, <1>2, <2>1, <2>3, <3>4, <4>3, SmokersAssumption DEF Copies, One
      <4> QED BY <4>1, <4>2, <4>3
    <3>6. Handed({})'
      BY <3>5 DEF Handed, One
    <3>7. Woken({s})'
      BY <1>2, <2>1, <2>3, <3>2, PostFacts DEF BothOut, Woken, One
    <3>8. agent_lock' = 0 /\ placing' = {} /\ making' = {}
      BY <1>1, <3>2 DEF BothOut
    <3> QED BY <3>1, <3>3, <3>6, <3>7, <3>8 DEF Joined
  <2> QED BY <2>4, <2>5 DEF IInv, Station
<1> QED BY <1>4, <1>5

\* No step breaks the invariant.
LEMMA NextIInv == IInv /\ [Next]_vars => IInv'
<1> SUFFICES ASSUME IInv, [Next]_vars PROVE IInv'
  OBVIOUS
<1>1. ASSUME NEW i \in SmokerIds, Smoker(i) PROVE IInv'
  BY <1>1, TimedWaitIInv, DoneIInv DEF Smoker
<1>2. ASSUME NEW k \in Objects, Agent(k) PROVE IInv'
  BY <1>2, FirstIInv, SecondIInv DEF Agent
<1>3. ASSUME NEW k \in Objects, Admin(k) PROVE IInv'
  BY <1>3, AdminWaitIInv, AdminPushIInv DEF Admin
<1>4. CASE UNCHANGED vars
  BY <1>4 DEF vars, IInv, TypeOK, TableOne, Station, MayStart, BeingMade, OneOut,
              BothOut, Joined, Handed, Copies, Woken
<1> QED BY <1>1, <1>2, <1>3, <1>4 DEF Next

\* The invariant holds at all times.
LEMMA Inductive == Spec => []IInv
BY InitIInv, NextIInv, PTL DEF Spec

\* The semaphores keep within their bounds, for any number of smokers.
THEOREM TypeCorrect == Spec => []TypeOK
<1>1. IInv => TypeOK
  BY DEF IInv
<1> QED BY <1>1, Inductive, PTL

\* However many rounds the agents are ahead, the admins never leave two items
\* on the table that they could have joined.
THEOREM TableKept == Spec => []TableOne
<1>1. IInv => TableOne
  BY DEF IInv
<1> QED BY <1>1, Inductive, PTL

\* A smoker that goes on without items is the only thing that upsets the
\* rounds: until then one round is under way, neither of its items is lost,
\* and the semaphore that is posted is the one of the smokers who lack the
\* third item.
THEOREM RoundsApart == Spec => []RoundKept
<1>1. IInv => RoundKept
  BY StationKept
<1> QED BY <1>1, Inductive, PTL
=============================================================================
