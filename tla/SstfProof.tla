----------------------------- MODULE SstfProof -----------------------------
(***************************************************************************)
(* Safety of the SSTF scheduler for every number of requests and every     *)
(* size of the disk, whatever memory behind the list head holds.           *)
(***************************************************************************)
EXTENDS Sstf, TLAPS

-----------------------------------------------------------------------------
(* Lists in which nothing is repeated. *)

\* No element occurs twice.
Once(l) == \A i, j \in 1 .. Len(l) : l[i] = l[j] => i = j

\* Concatenation by its indices.
LEMMA Concat ==
  ASSUME NEW S, NEW a \in Seq(S), NEW b \in Seq(S)
  PROVE  /\ a \o b \in Seq(S) /\ Len(a \o b) = Len(a) + Len(b)
         /\ \A i \in 1 .. Len(a) + Len(b) :
              (a \o b)[i] = IF i <= Len(a) THEN a[i] ELSE b[i - Len(a)]
OBVIOUS

\* RemoveAt by its indices.
LEMMA RemoveAtIndices ==
  ASSUME NEW S, NEW l \in Seq(S), NEW k \in 1 .. Len(l)
  PROVE  /\ RemoveAt(l, k) \in Seq(S)
         /\ Len(RemoveAt(l, k)) = Len(l) - 1
         /\ \A i \in 1 .. Len(l) - 1 :
              RemoveAt(l, k)[i] = IF i < k THEN l[i] ELSE l[i + 1]
<1> DEFINE a == SubSeq(l, 1, k - 1)
           b == SubSeq(l, k + 1, Len(l))
<1>1. /\ a \in Seq(S) /\ Len(a) = k - 1
      /\ \A i \in 1 .. k - 1 : a[i] = l[i]
  OBVIOUS
<1>2. /\ b \in Seq(S) /\ Len(b) = Len(l) - k
      /\ \A i \in 1 .. Len(l) - k : b[i] = l[i + k]
  OBVIOUS
<1>3. RemoveAt(l, k) = a \o b
  BY DEF RemoveAt
<1> HIDE DEF a, b
<1>4. /\ a \o b \in Seq(S) /\ Len(a \o b) = Len(a) + Len(b)
      /\ \A i \in 1 .. Len(a) + Len(b) :
           (a \o b)[i] = IF i <= Len(a) THEN a[i] ELSE b[i - Len(a)]
  BY <1>1, <1>2, Concat
<1> QED BY <1>1, <1>2, <1>3, <1>4

\* The sequence r picks each of the places P of l once: p says which, when.
Picks(r, l, P, p) ==
  /\ p \in [1 .. Len(r) -> P]
  /\ \A i \in 1 .. Len(r) : r[i] = l[p[i]]
  /\ \A i, j \in 1 .. Len(r) : p[i] = p[j] => i = j
  /\ \A k \in P : \E i \in 1 .. Len(r) : p[i] = k

\* Such a sequence has the elements at these places, each once.
LEMMA Picked ==
  ASSUME NEW S, NEW l \in Seq(S), NEW r \in Seq(S), Once(l),
         NEW P \in SUBSET (1 .. Len(l)), NEW p, Picks(r, l, P, p)
  PROVE  Once(r) /\ ToSet(r) = {l[k] : k \in P}
<1> USE DEF Picks
<1>1. DOMAIN r = 1 .. Len(r)
  OBVIOUS
<1>2. Once(r)
  <2> SUFFICES ASSUME NEW i \in 1 .. Len(r), NEW j \in 1 .. Len(r), r[i] = r[j]
               PROVE  i = j
    BY Zenon DEF Once
  <2>1. p[i] \in 1 .. Len(l) /\ p[j] \in 1 .. Len(l) /\ l[p[i]] = l[p[j]]
    OBVIOUS
  <2> QED BY <2>1 DEF Once
<1>3. ASSUME NEW x \in ToSet(r) PROVE x \in {l[k] : k \in P}
  <2>1. PICK i \in 1 .. Len(r) : r[i] = x
    BY <1>1, <1>3 DEF ToSet
  <2>2. p[i] \in P /\ x = l[p[i]]
    BY <2>1
  <2> QED BY <2>2
<1>4. ASSUME NEW k \in P PROVE l[k] \in ToSet(r)
  BY <1>1 DEF ToSet
<1> QED BY <1>2, <1>3, <1>4

\* What is left when the k-th element is removed.
LEMMA RemoveAtOnce ==
  ASSUME NEW S, NEW l \in Seq(S), Once(l), NEW k \in 1 .. Len(l)
  PROVE  /\ RemoveAt(l, k) \in Seq(S)
         /\ Once(RemoveAt(l, k))
         /\ ToSet(RemoveAt(l, k)) = ToSet(l) \ {l[k]}
<1> DEFINE r == RemoveAt(l, k)
           P == (1 .. Len(l)) \ {k}
           p == [i \in 1 .. Len(r) |-> IF i < k THEN i ELSE i + 1]
<1>1. /\ r \in Seq(S) /\ Len(r) = Len(l) - 1
      /\ \A i \in 1 .. Len(l) - 1 : r[i] = IF i < k THEN l[i] ELSE l[i + 1]
  BY RemoveAtIndices
<1> HIDE DEF r
<1>2. /\ p \in [1 .. Len(r) -> P]
      /\ \A i \in 1 .. Len(r) : r[i] = l[p[i]]
      /\ \A i, j \in 1 .. Len(r) : p[i] = p[j] => i = j
  BY <1>1
<1>3. ASSUME NEW j \in P PROVE \E i \in 1 .. Len(r) : p[i] = j
  <2>1. CASE j < k
    BY <2>1, <1>1
  <2>2. CASE j > k
    <3>1. j - 1 \in 1 .. Len(r) /\ p[j - 1] = j
      BY <2>2, <1>1
    <3> QED BY <3>1
  <2> QED BY <2>1, <2>2
<1>4. P \in SUBSET (1 .. Len(l))
  OBVIOUS
<1>5. {l[j] : j \in P} = ToSet(l) \ {l[k]}
  BY DEF ToSet, Once
<1> HIDE DEF P, p
<1>6. Picks(r, l, P, p)
  BY <1>2, <1>3, Zenon DEF Picks
<1>7. Once(r) /\ ToSet(r) = {l[j] : j \in P}
  BY <1>1, <1>4, <1>6, Picked
<1> QED BY <1>1, <1>5, <1>7 DEF r

\* InsertAt by its indices.
LEMMA InsertAtIndices ==
  ASSUME NEW S, NEW l \in Seq(S), NEW k \in 1 .. Len(l) + 1, NEW x \in S
  PROVE  /\ InsertAt(l, k, x) \in Seq(S)
         /\ Len(InsertAt(l, k, x)) = Len(l) + 1
         /\ \A i \in 1 .. Len(l) + 1 :
              InsertAt(l, k, x)[i] = IF i < k THEN l[i]
                                     ELSE IF i = k THEN x ELSE l[i - 1]
<1> DEFINE a == SubSeq(l, 1, k - 1)
           h == <<x>>
           b == SubSeq(l, k, Len(l))
<1>1. /\ a \in Seq(S) /\ Len(a) = k - 1
      /\ \A i \in 1 .. k - 1 : a[i] = l[i]
  OBVIOUS
<1>2. /\ b \in Seq(S) /\ Len(b) = Len(l) - k + 1
      /\ \A i \in 1 .. Len(l) - k + 1 : b[i] = l[i + k - 1]
  OBVIOUS
<1>3. h \in Seq(S) /\ Len(h) = 1 /\ h[1] = x
  OBVIOUS
<1>4. InsertAt(l, k, x) = (a \o h) \o b
  BY DEF InsertAt
<1> HIDE DEF a, b, h
<1> DEFINE c == a \o h
<1>5. /\ c \in Seq(S) /\ Len(c) = k
      /\ \A i \in 1 .. k : c[i] = IF i < k THEN l[i] ELSE x
  <2>1. /\ c \in Seq(S) /\ Len(c) = Len(a) + Len(h)
        /\ \A i \in 1 .. Len(a) + Len(h) :
             c[i] = IF i <= Len(a) THEN a[i] ELSE h[i - Len(a)]
    BY <1>1, <1>3, Concat
  <2> HIDE DEF c
  <2> QED BY <1>1, <1>3, <2>1
<1> HIDE DEF c
<1>6. /\ c \o b \in Seq(S) /\ Len(c \o b) = Len(c) + Len(b)
      /\ \A i \in 1 .. Len(c) + Len(b) :
           (c \o b)[i] = IF i <= Len(c) THEN c[i] ELSE b[i - Len(c)]
  BY <1>2, <1>5, Concat
<1> QED BY <1>2, <1>4, <1>5, <1>6 DEF c

\* A new element at place k.
LEMMA InsertAtOnce ==
  ASSUME NEW S, NEW l \in Seq(S), Once(l), NEW k \in 1 .. Len(l) + 1,
         NEW x \in S, x \notin ToSet(l)
  PROVE  /\ InsertAt(l, k, x) \in Seq(S)
         /\ Once(InsertAt(l, k, x))
         /\ ToSet(InsertAt(l, k, x)) = ToSet(l) \cup {x}
<1> DEFINE r == InsertAt(l, k, x)
<1>1. /\ r \in Seq(S) /\ Len(r) = Len(l) + 1
      /\ \A i \in 1 .. Len(l) + 1 :
           r[i] = IF i < k THEN l[i] ELSE IF i = k THEN x ELSE l[i - 1]
  <2>1. r \in Seq(S) /\ Len(r) = Len(l) + 1
    BY InsertAtIndices
  <2>2. ASSUME NEW i \in 1 .. Len(l) + 1
        PROVE  r[i] = IF i < k THEN l[i] ELSE IF i = k THEN x ELSE l[i - 1]
    <3>1. \A j \in 1 .. Len(l) + 1 :
            InsertAt(l, k, x)[j] = IF j < k THEN l[j] ELSE IF j = k THEN x ELSE l[j - 1]
      BY ONLY InsertAtIndices, l \in Seq(S), k \in 1 .. Len(l) + 1, x \in S
    <3> QED BY <3>1
  <2> QED BY <2>1, <2>2
<1> HIDE DEF r
<1>2. /\ DOMAIN r = 1 .. Len(l) + 1 /\ DOMAIN l = 1 .. Len(l)
      /\ \A i \in 1 .. Len(l) : l[i] # x
  BY <1>1 DEF ToSet
<1> DEFINE p(i) == IF i < k THEN i ELSE i - 1
<1>3. Once(r)
  <2> SUFFICES ASSUME NEW i \in 1 .. Len(l) + 1, NEW j \in 1 .. Len(l) + 1,
                      r[i] = r[j]
               PROVE  i = j
    BY <1>1 DEF Once
  <2>1. CASE i = k \/ j = k
    BY <1>1, <1>2, <2>1
  <2>2. CASE i # k /\ j # k
    <3>1. /\ p(i) \in 1 .. Len(l) /\ r[i] = l[p(i)]
          /\ p(j) \in 1 .. Len(l) /\ r[j] = l[p(j)]
      BY <1>1, <2>2
    <3>2. p(i) = p(j)
      BY <3>1 DEF Once
    <3> QED BY <2>2, <3>2
  <2> QED BY <2>1, <2>2
<1>4. ASSUME NEW y \in ToSet(r) PROVE y \in ToSet(l) \cup {x}
  <2>1. PICK i \in 1 .. Len(l) + 1 : r[i] = y
    BY <1>2 DEF ToSet
  <2>2. y = x \/ \E j \in 1 .. Len(l) : l[j] = y
    BY <1>1, <2>1
  <2> QED BY <1>2, <2>2 DEF ToSet
<1>5. ASSUME NEW y \in ToSet(l) PROVE y \in ToSet(r)
  <2>1. PICK i \in 1 .. Len(l) : l[i] = y
    BY <1>2 DEF ToSet
  <2>2. CASE i < k
    BY <1>1, <1>2, <2>1, <2>2 DEF ToSet
  <2>3. CASE i >= k
    <3>1. i + 1 \in 1 .. Len(l) + 1 /\ r[i + 1] = y
      BY <1>1, <2>1, <2>3
    <3> QED BY <1>2, <3>1 DEF ToSet
  <2> QED BY <2>2, <2>3
<1>6. x \in ToSet(r)
  BY <1>1, <1>2 DEF ToSet
<1> QED BY <1>1, <1>3, <1>4, <1>5, <1>6 DEF r
-----------------------------------------------------------------------------
\* The insertion under way: two places of the circular list, and a request
\* that was given to the elevator and is not in the list, which is not empty.
AddSane ==
  /\ add \in [rq : Requests \cup {NoRequest},
              prev : 0 .. Len(queue), next : 0 .. Len(queue)]
  /\ add.rq = NoRequest => add = NoAdd
  /\ add.rq # NoRequest => /\ state = "up" /\ queue # <<>>
                           /\ add.rq \in owned /\ add.rq \notin ToSet(queue)

\* Requests end on the disk, also those that grew by merges.
OnDisk == \A r \in Requests : pos[r] + nsect[r] <= Capacity

\* An elevator that is off or drained has no requests.
EmptyWhenOff == state \in {"off", "drained"} => queue = <<>>

\* The inductive invariant.
IInv == TypeOK /\ NoneLost /\ AddSane /\ OnDisk /\ EmptyWhenOff
-----------------------------------------------------------------------------
\* The circular list's neighbours are places of it; they are the next numbers
\* but at the ends.
LEMMA Neighbours ==
  ASSUME queue \in Seq(Requests), NEW i \in 0 .. Len(queue)
  PROVE  /\ Forward(i) = IF i = Len(queue) THEN 0 ELSE i + 1
         /\ Backward(i) = IF i = 0 THEN Len(queue) ELSE i - 1
         /\ Len(queue) \in Nat
BY DEF Forward, Backward

\* sstf_dispatch chooses a request of the list.
LEMMA ChoiceFacts ==
  ASSUME queue \in Seq(Requests), queue # <<>>, direction \in {"F", "B"}
  PROVE  Choice.at \in 1 .. Len(queue) /\ Choice.dir \in {"F", "B"}
<1>1. Len(queue) \in Nat \ {0}
  OBVIOUS
<1> QED BY <1>1 DEF Choice

\* When the state of the list and what was handed over change alike, nothing
\* is lost.
LEMMA Kept ==
  ASSUME NoneLost
  PROVE  Once(queue) /\ ToSet(queue) = owned \ {add.rq}
BY DEF NoneLost, Once

\* A request leaves the list and the elevator: it is dispatched or merged.
LEMMA TakenOut ==
  ASSUME IInv, Ready, NEW k \in 1 .. Len(queue),
         queue' = RemoveAt(queue, k), owned' = owned \ {queue[k]},
         state = "up" \/ state = "drain",
         UNCHANGED <<state, add>>
  PROVE  NoneLost' /\ AddSane' /\ EmptyWhenOff' /\ queue' \in Seq(Requests)
<1>1. queue \in Seq(Requests) /\ owned \subseteq Requests /\ add = NoAdd
  BY DEF IInv, TypeOK, Ready
<1>2. Once(queue) /\ ToSet(queue) = owned
  BY <1>1, Kept, SstfAssumption DEF IInv, NoAdd
<1>3. /\ queue' \in Seq(Requests) /\ Once(queue')
      /\ ToSet(queue') = ToSet(queue) \ {queue[k]}
  BY <1>1, <1>2, RemoveAtOnce
<1>4. NoneLost'
  <2>1. ToSet(queue') = owned' \ {add'.rq}
    BY <1>1, <1>2, <1>3, SstfAssumption DEF NoAdd
  <2> QED BY <1>3, <2>1 DEF NoneLost, Once
<1>5. AddSane'
  <2>1. Len(queue') \in Nat
    BY <1>3
  <2> QED BY <1>1, <2>1 DEF AddSane, NoAdd
<1> QED BY <1>3, <1>4, <1>5 DEF IInv, EmptyWhenOff

\* sstf_dispatch, also when the elevator is drained.
LEMMA DispatchIInv ==
  ASSUME IInv, Ready, sstf_dispatch, state = "up" \/ state = "drain"
  PROVE  IInv'
<1>1. /\ queue \in Seq(Requests) /\ queue # <<>> /\ direction \in {"F", "B"}
      /\ pos \in [Requests -> 0 .. Capacity] /\ nsect \in [Requests -> 0 .. Capacity]
      /\ owned \subseteq Requests
  BY DEF IInv, TypeOK, sstf_dispatch
<1>2. PICK k \in 1 .. Len(queue) : k = Choice.at
  BY <1>1, ChoiceFacts
<1>3. /\ queue' = RemoveAt(queue, k) /\ owned' = owned \ {queue[k]}
      /\ direction' \in {"F", "B"}
      /\ sector' = nsect[queue[k]] + pos[queue[k]]
      /\ UNCHANGED <<state, add, pos, nsect>>
  BY <1>1, <1>2, ChoiceFacts DEF sstf_dispatch, Dispatched
<1>4. NoneLost' /\ AddSane' /\ EmptyWhenOff' /\ queue' \in Seq(Requests)
  BY <1>3, TakenOut
<1>5. sector' \in 0 .. Capacity
  <2>1. queue[k] \in Requests
    BY <1>1
  <2>2. pos[queue[k]] + nsect[queue[k]] <= Capacity
    BY <2>1 DEF IInv, OnDisk
  <2> QED BY <1>1, <1>3, <2>1, <2>2, SstfAssumption
<1>6. TypeOK'
  BY <1>1, <1>3, <1>4, <1>5 DEF IInv, TypeOK, AddSane
<1>7. OnDisk'
  BY <1>3 DEF IInv, OnDisk
<1> QED BY <1>4, <1>6, <1>7 DEF IInv

\* A merge: the request that takes over the sectors still ends on the disk.
LEMMA MergeIInv ==
  ASSUME IInv, Ready, state = "up", NEW i \in 1 .. Len(queue),
         NEW j \in 1 .. Len(queue), i # j, Merge(queue[i], j)
  PROVE  IInv'
<1> DEFINE r == queue[i]
           q == queue[j]
<1>1. /\ queue \in Seq(Requests) /\ r \in Requests /\ q \in Requests
      /\ pos \in [Requests -> 0 .. Capacity] /\ nsect \in [Requests -> 0 .. Capacity]
      /\ owned \subseteq Requests
  BY DEF IInv, TypeOK
<1>2. /\ pos[r] + nsect[r] = pos[q]
      /\ queue' = RemoveAt(queue, j) /\ owned' = owned \ {q}
      /\ nsect' = [nsect EXCEPT ![r] = @ + nsect[q]]
      /\ UNCHANGED <<state, direction, sector, add, pos>>
  BY DEF Merge
<1>3. NoneLost' /\ AddSane' /\ EmptyWhenOff' /\ queue' \in Seq(Requests)
  BY <1>2, TakenOut
<1> HIDE DEF r, q
<1>4. pos[q] + nsect[q] <= Capacity
  BY <1>1 DEF IInv, OnDisk
<1>5. /\ nsect'[r] = nsect[r] + nsect[q]
      /\ \A s \in Requests : s # r => nsect'[s] = nsect[s]
  BY <1>1, <1>2
<1>6. pos[r] + nsect'[r] <= Capacity /\ nsect'[r] \in 0 .. Capacity
  <2>1. /\ pos[r] \in 0 .. Capacity /\ pos[q] \in 0 .. Capacity
        /\ nsect[r] \in 0 .. Capacity /\ nsect[q] \in 0 .. Capacity
    BY <1>1
  <2>2. pos[r] + nsect[r] = pos[q]
    BY <1>2
  <2> QED BY <1>4, <1>5, <2>1, <2>2, SstfAssumption
<1>7. nsect' \in [Requests -> 0 .. Capacity]
  BY <1>1, <1>2, <1>5, <1>6
<1>8. TypeOK'
  BY <1>1, <1>2, <1>3, <1>7 DEF IInv, TypeOK, AddSane
<1>9. OnDisk'
  BY <1>2, <1>5, <1>6 DEF IInv, OnDisk
<1> QED BY <1>3, <1>8, <1>9 DEF IInv

\* A request arrives.
LEMMA ArrivesFacts ==
  ASSUME IInv, NEW r \in Requests, NEW p \in 0 .. Capacity - 1,
         NEW n \in 1 .. Capacity, Arrives(r, p, n)
  PROVE  /\ r \notin owned /\ owned' = owned \cup {r} /\ owned' \subseteq Requests
         /\ pos' \in [Requests -> 0 .. Capacity]
         /\ nsect' \in [Requests -> 0 .. Capacity]
         /\ OnDisk'
<1>1. /\ pos \in [Requests -> 0 .. Capacity] /\ nsect \in [Requests -> 0 .. Capacity]
      /\ owned \subseteq Requests
  BY DEF IInv, TypeOK
<1>2. /\ r \notin owned /\ p + n <= Capacity /\ owned' = owned \cup {r}
      /\ pos' = [pos EXCEPT ![r] = p] /\ nsect' = [nsect EXCEPT ![r] = n]
  BY DEF Arrives
<1>3. pos' \in [Requests -> 0 .. Capacity] /\ nsect' \in [Requests -> 0 .. Capacity]
  BY <1>1, <1>2, SstfAssumption
<1>4. OnDisk'
  <2> SUFFICES ASSUME NEW s \in Requests PROVE pos'[s] + nsect'[s] <= Capacity
    BY DEF OnDisk
  <2>1. CASE s = r
    BY <1>1, <1>2, <2>1
  <2>2. CASE s # r
    BY <1>1, <1>2, <2>2 DEF IInv, OnDisk
  <2> QED BY <2>1, <2>2
<1> QED BY <1>1, <1>2, <1>3, <1>4

\* The first request of an empty list.
LEMMA AddFirstIInv ==
  ASSUME IInv, NEW r \in Requests, NEW p \in 0 .. Capacity - 1,
         NEW n \in 1 .. Capacity, AddFirst(r, p, n)
  PROVE  IInv'
<1>1. /\ state = "up" /\ add = NoAdd /\ queue = <<>> /\ Arrives(r, p, n)
      /\ queue' = <<r>> /\ UNCHANGED <<state, direction, sector, add>>
  BY DEF AddFirst, Ready
<1>2. /\ r \notin owned /\ owned' = owned \cup {r} /\ owned' \subseteq Requests
      /\ pos' \in [Requests -> 0 .. Capacity]
      /\ nsect' \in [Requests -> 0 .. Capacity]
      /\ OnDisk'
  BY <1>1, ArrivesFacts
<1>3. owned = {}
  <2>1. ToSet(queue) = {}
    BY <1>1 DEF ToSet
  <2> QED BY <1>1, <2>1, SstfAssumption DEF IInv, NoneLost, TypeOK, NoAdd
<1>4. /\ queue' \in Seq(Requests) /\ Len(queue') = 1 /\ queue'[1] = r
      /\ ToSet(queue') = {r}
  BY <1>1 DEF ToSet
<1>5. NoneLost'
  BY <1>1, <1>2, <1>3, <1>4, SstfAssumption DEF NoneLost, NoAdd
<1>6. AddSane'
  BY <1>1, <1>4 DEF AddSane, NoAdd
<1>7. TypeOK'
  BY <1>1, <1>2, <1>4, <1>6 DEF IInv, TypeOK, AddSane
<1> QED BY <1>1, <1>2, <1>5, <1>6, <1>7 DEF IInv, EmptyWhenOff

\* The search for a place begins, with the request outside the list.
LEMMA AddStartIInv ==
  ASSUME IInv, NEW r \in Requests, NEW p \in 0 .. Capacity - 1,
         NEW n \in 1 .. Capacity, AddStart(r, p, n)
  PROVE  IInv'
<1>1. /\ state = "up" /\ add = NoAdd /\ queue # <<>> /\ Arrives(r, p, n)
      /\ add' = [rq |-> r, prev |-> Len(queue), next |-> 1]
      /\ UNCHANGED <<state, queue, direction, sector>>
  BY DEF AddStart, Ready
<1>2. /\ r \notin owned /\ owned' = owned \cup {r} /\ owned' \subseteq Requests
      /\ pos' \in [Requests -> 0 .. Capacity]
      /\ nsect' \in [Requests -> 0 .. Capacity]
      /\ OnDisk'
  BY <1>1, ArrivesFacts
<1>3. queue \in Seq(Requests) /\ Len(queue) \in Nat \ {0}
  BY <1>1 DEF IInv, TypeOK
<1>4. Once(queue) /\ ToSet(queue) = owned
  BY <1>1, Kept, SstfAssumption DEF IInv, NoAdd, TypeOK
<1>5. NoneLost'
  BY <1>1, <1>2, <1>4 DEF NoneLost, Once
<1>6. AddSane'
  BY <1>1, <1>2, <1>3, <1>4, SstfAssumption DEF AddSane
<1>7. TypeOK'
  BY <1>1, <1>2, <1>3, <1>6 DEF IInv, TypeOK, AddSane
<1> QED BY <1>1, <1>2, <1>5, <1>6, <1>7 DEF IInv, EmptyWhenOff

\* The two pointers advance, and stay places of the list.
LEMMA AddAdvanceIInv ==
  ASSUME IInv, AddAdvance
  PROVE  IInv'
<1>1. /\ add \in [rq : Requests \cup {NoRequest},
                  prev : 0 .. Len(queue), next : 0 .. Len(queue)]
      /\ add.rq # NoRequest /\ queue \in Seq(Requests)
  BY DEF IInv, AddSane, AddAdvance, Ready, TypeOK
<1>2. /\ add' = [add EXCEPT !.prev = Backward(@), !.next = Forward(@)]
      /\ UNCHANGED <<state, queue, direction, sector, pos, nsect, owned>>
  BY DEF AddAdvance
<1>3. Backward(add.prev) \in 0 .. Len(queue) /\ Forward(add.next) \in 0 .. Len(queue)
  BY <1>1, Neighbours
<1>4. /\ add'.rq = add.rq
      /\ add' \in [rq : Requests \cup {NoRequest},
                   prev : 0 .. Len(queue), next : 0 .. Len(queue)]
  BY <1>1, <1>2, <1>3
<1>5. AddSane'
  BY <1>1, <1>2, <1>4 DEF IInv, AddSane
<1>6. NoneLost' /\ OnDisk' /\ EmptyWhenOff'
  BY <1>2, <1>4 DEF IInv, NoneLost, OnDisk, EmptyWhenOff
<1>7. TypeOK'
  BY <1>2, <1>4 DEF IInv, TypeOK
<1> QED BY <1>5, <1>6, <1>7 DEF IInv

\* The request enters the list behind prev, wherever that is.
LEMMA AddInsertIInv ==
  ASSUME IInv, AddInsert
  PROVE  IInv'
<1>1. /\ add \in [rq : Requests \cup {NoRequest},
                  prev : 0 .. Len(queue), next : 0 .. Len(queue)]
      /\ add.rq # NoRequest /\ queue \in Seq(Requests) /\ owned \subseteq Requests
      /\ state = "up" /\ add.rq \in owned /\ add.rq \notin ToSet(queue)
  BY DEF IInv, AddSane, AddInsert, Ready, TypeOK
<1>2. PICK k \in 1 .. Len(queue) + 1 : k = add.prev + 1
  BY <1>1
<1>3. /\ queue' = InsertAt(queue, k, add.rq) /\ add' = NoAdd
      /\ UNCHANGED <<state, direction, sector, pos, nsect, owned>>
  BY <1>2 DEF AddInsert, Inserted
<1>4. Once(queue) /\ ToSet(queue) = owned \ {add.rq}
  BY Kept DEF IInv
<1>5. add.rq \in Requests
  BY <1>1
<1>6. /\ queue' \in Seq(Requests) /\ Once(queue')
      /\ ToSet(queue') = ToSet(queue) \cup {add.rq}
  BY <1>1, <1>3, <1>4, <1>5, InsertAtOnce, SMTT(30)
<1>7. NoneLost'
  <2>1. ToSet(queue') = owned' \ {add'.rq}
    BY <1>1, <1>3, <1>4, <1>6, SstfAssumption DEF NoAdd
  <2> QED BY <1>6, <2>1 DEF NoneLost, Once
<1>8. AddSane'
  <2>1. Len(queue') \in Nat
    BY <1>6
  <2> QED BY <1>3, <2>1 DEF AddSane, NoAdd
<1>9. TypeOK'
  BY <1>3, <1>6, <1>8 DEF IInv, TypeOK, AddSane
<1> QED BY <1>1, <1>3, <1>7, <1>8, <1>9 DEF IInv, OnDisk, EmptyWhenOff

\* The elevator is set up, replaced and torn down.
LEMMA LifeIInv ==
  ASSUME IInv, InitQueue \/ Switch \/ DrainEnd \/ ExitQueue
  PROVE  IInv'
<1>1. /\ UNCHANGED <<add, pos, nsect, owned>>
      /\ queue' = queue
      /\ state' \in {"off", "up", "drain", "drained"}
      /\ state' \in {"off", "drained"} => queue = <<>>
      /\ direction' \in {"F", "B"} /\ sector' \in 0 .. Capacity
      /\ state # "up" \/ Ready
  BY SstfAssumption
  DEF IInv, TypeOK, InitQueue, Switch, DrainEnd, ExitQueue, EmptyWhenOff, NothingLeft
<1>2. add.rq = NoRequest
  BY <1>1 DEF IInv, AddSane, Ready, NoAdd
<1>3. AddSane'
  BY <1>1, <1>2 DEF IInv, AddSane
<1>4. NoneLost' /\ OnDisk' /\ EmptyWhenOff'
  BY <1>1 DEF IInv, NoneLost, OnDisk, EmptyWhenOff
<1>5. TypeOK'
  BY <1>1 DEF IInv, TypeOK
<1> QED BY <1>3, <1>4, <1>5 DEF IInv
-----------------------------------------------------------------------------
\* The invariant holds at first.
LEMMA InitIInv == Init => IInv
<1> SUFFICES ASSUME Init PROVE IInv
  OBVIOUS
<1>1. /\ state = "off" /\ queue = <<>> /\ direction = "F" /\ sector = 0
      /\ add = NoAdd /\ owned = {}
      /\ pos = [r \in Requests |-> 0] /\ nsect = [r \in Requests |-> 0]
  BY DEF Init
<1>2. queue \in Seq(Requests) /\ Len(queue) = 0 /\ ToSet(queue) = {}
  BY <1>1 DEF ToSet
<1>3. TypeOK /\ OnDisk
  BY <1>1, <1>2, SstfAssumption DEF TypeOK, OnDisk, NoAdd
<1>4. NoneLost /\ AddSane
  BY <1>1, <1>2 DEF NoneLost, AddSane, NoAdd
<1> QED BY <1>1, <1>3, <1>4 DEF IInv, EmptyWhenOff

\* No step breaks it.
LEMMA NextIInv == IInv /\ [Next]_vars => IInv'
<1> SUFFICES ASSUME IInv, [Next]_vars PROVE IInv'
  OBVIOUS
<1>1. CASE InitQueue \/ Switch \/ DrainEnd \/ ExitQueue
  BY <1>1, LifeIInv
<1>2. CASE Drain
  <2>1. Ready
    BY <1>2 DEF Drain, IInv, AddSane, Ready
  <2> QED BY <1>2, <2>1, DispatchIInv DEF Drain
<1>3. CASE Dispatch
  BY <1>3, DispatchIInv DEF Dispatch
<1>4. CASE AddStep
  BY <1>4, AddAdvanceIInv, AddInsertIInv DEF AddStep
<1>5. ASSUME NEW r \in Requests, NEW p \in 0 .. Capacity - 1, NEW n \in 1 .. Capacity,
             AddFirst(r, p, n) \/ AddStart(r, p, n)
      PROVE  IInv'
  BY <1>5, AddFirstIInv, AddStartIInv
<1>6. ASSUME NEW i \in 1 .. Len(queue), BackMerge(i) \/ FrontMerge(i)
      PROVE  IInv'
  <2>1. queue \in Seq(Requests)
    BY DEF IInv, TypeOK
  <2>2. CASE BackMerge(i)
    <3>1. Forward(i) \in 1 .. Len(queue) /\ Forward(i) # i
      BY <2>1, <2>2, Neighbours DEF BackMerge, sstf_latter_request
    <3> QED BY <2>2, <3>1, MergeIInv DEF BackMerge
  <2>3. CASE FrontMerge(i)
    <3>1. /\ Backward(i) \in 1 .. Len(queue) /\ Backward(i) # i
          /\ sstf_former_request(i) = queue[Backward(i)]
      BY <2>1, <2>3, Neighbours DEF FrontMerge, sstf_former_request
    <3> QED BY <2>3, <3>1, MergeIInv DEF FrontMerge
  <2> QED BY <1>6, <2>2, <2>3
<1>7. CASE UNCHANGED vars
  BY <1>7 DEF vars, IInv, TypeOK, NoneLost, AddSane, OnDisk, EmptyWhenOff
<1> QED BY <1>1, <1>2, <1>3, <1>4, <1>5, <1>6, <1>7 DEF Next, DrainStep

\* The invariant holds at all times.
LEMMA Inductive == Spec => []IInv
BY InitIInv, NextIInv, PTL DEF Spec

\* The list, its two insertion pointers, positions and sectors keep within
\* their bounds: no request ever ends beyond the disk, and the pointers run
\* over the list head without leaving the list.
THEOREM TypeCorrect == Spec => []TypeOK
<1>1. IInv => TypeOK
  BY DEF IInv
<1> QED BY <1>1, Inductive, PTL

\* sstf_add_request, sstf_dispatch and merges lose and duplicate no request,
\* for any number of requests and whatever is read behind the list head.
THEOREM RequestsKept == Spec => []NoneLost
<1>1. IInv => NoneLost
  BY DEF IInv
<1> QED BY <1>1, Inductive, PTL

\* Whatever was queued when the elevator was replaced has been passed on by the
\* time it is torn down.  That the list is empty then is the drain's own test;
\* that nothing is owed any more needs the list to be exact and no insertion
\* to be under way.
THEOREM AllPassedOn == Spec => []HandedOver
<1>1. IInv => HandedOver
  <2> SUFFICES ASSUME IInv, state \in {"off", "drained"} PROVE owned = {}
    BY DEF HandedOver
  <2>1. queue = <<>> /\ add.rq = NoRequest
    BY DEF IInv, EmptyWhenOff, AddSane
  <2>2. owned \subseteq Requests /\ ToSet(queue) = owned \ {add.rq}
    BY DEF IInv, TypeOK, NoneLost
  <2>3. ToSet(queue) = {}
    BY <2>1 DEF ToSet
  <2> QED BY <2>1, <2>2, <2>3, SstfAssumption
<1> QED BY <1>1, Inductive, PTL
=============================================================================
