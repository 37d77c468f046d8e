-------------------------- MODULE SearchListProof --------------------------
(***************************************************************************)
(* The list of recitations/concurrency3.c for any number of searchers,     *)
(* inserters, deleters and nodes: the semaphores exclude whom they should  *)
(* and nobody waits in vain, and as long as no thread goes in with an old  *)
(* head the list is intact.                                                *)
(***************************************************************************)
EXTENDS SearchList, TLAPS

\* Thread t has taken s and not given it back.
Holds(t, s) == \/ pc[t] = "take" /\ loc[t].k = 2 /\ s = Takes(t)[1]
               \/ pc[t] \in {"head", "walk", "give"} /\ s \in Gives(t)

\* A semaphore is 1 when nobody holds it, and 0 when one thread does.
SemsExact ==
  \A s \in Sems :
    \/ sem[s] = 1 /\ \A t \in Threads : ~ Holds(t, s)
    \/ sem[s] = 0 /\ \E t \in Threads : Holds(t, s) /\ \A u \in Threads : Holds(u, s) => u = t

\* What the threads' places say, whatever became of the list.
Places ==
  /\ \A t \in Threads : pc[t] = "take" => loc[t].k \in 1 .. Len(Takes(t))
  /\ \A t \in Inserters : pc[t] = "walk" => loc[t].cur # NULL
  /\ (\E t \in Threads : pc[t] = "dead") => freedUse /\ \A t \in Threads : pc[t] = "dead"

\* A set that holds the head and with a node its successor.
Closed(S, h, x) == {h} \ {NULL} \subseteq S /\ \A m \in S : x[m] \in S \cup {NULL}

\* A is the chain of nodes from h along x to NULL.
Chain(A, h, x) ==
  /\ A \subseteq Nodes
  /\ Closed(A, h, x)
  /\ \A S \in SUBSET Nodes : Closed(S, h, x) => A \subseteq S
  /\ h = NULL \/ \E n \in A : x[n] = NULL
  /\ \A n, m \in A : x[n] = x[m] /\ x[n] # NULL => n = m
  /\ \A n \in A : x[n] = h => h = NULL

\* The nodes inserted and not deleted.
Kept == alloc \ InFlight

\* Inserter t has a node of its own.
Creating(t) == t \in Inserters /\ pc[t] \in {"take", "head", "walk"}

\* The nodes of the inserters are not in the list yet, and each is one's own.
OwnNodes ==
  /\ \A t \in Inserters : Creating(t) => loc[t].prev \in alloc /\ nxt[loc[t].prev] = NULL
  /\ \A t, u \in Inserters : Creating(t) /\ Creating(u) /\ loc[t].prev = loc[u].prev => t = u

\* Where the threads inside stand in the list.
InList(t) ==
  /\ pc[t] = "walk" /\ t \notin Deleters => loc[t].cur \in Kept \cup {NULL}
  /\ pc[t] = "head" /\ t \in Deleters => loc[t].cur \in {NULL, head} /\ loc[t].prev = loc[t].cur
  /\ pc[t] = "walk" /\ t \in Deleters =>
       \/ loc[t].cur = NULL
       \/ loc[t].cur = head /\ loc[t].prev = head /\ data[head] # loc[t].val
       \/ /\ loc[t].cur \in Kept /\ loc[t].prev \in Kept
          /\ nxt[loc[t].prev] = loc[t].cur /\ loc[t].prev # loc[t].cur
  /\ pc[t] = "take" /\ t \in Deleters => loc[t].prev = loc[t].cur

\* The list is as Intact says, and nobody is astray in it.
Sound ==
  /\ ~freedUse
  /\ Chain(Kept, head, nxt)
  /\ OwnNodes
  /\ \A t \in Threads : InList(t)

\* The inductive invariant.
IInv ==
  /\ TypeOK /\ Places
  /\ (\A t \in Threads : pc[t] # "dead") => SemsExact
  /\ ~outdated => Sound
-----------------------------------------------------------------------------
(* Chains of nodes. *)

\* What one reaches from the head is the chain.
LEMMA ChainReached ==
  ASSUME NEW A, Chain(A, head, nxt)
  PROVE  Reachable = A
<1>1. A \in SUBSET Nodes /\ Closed(A, head, nxt)
  BY DEF Chain
<1>2. ASSUME NEW n \in Reachable PROVE n \in A
  BY <1>1 DEF Reachable, Closed
<1>3. ASSUME NEW n \in A PROVE n \in Reachable
  <2>1. n \in Nodes
    BY <1>1
  <2>2. ASSUME NEW S \in SUBSET Nodes, Closed(S, head, nxt) PROVE n \in S
    BY <2>2 DEF Chain
  <2> QED BY <2>1, <2>2 DEF Reachable, Closed
<1> QED BY <1>2, <1>3

\* A chain is not disturbed by what changes outside it.
LEMMA ChainFrame ==
  ASSUME NEW A, NEW h, NEW x, NEW y, Chain(A, h, x), \A n \in A : y[n] = x[n]
  PROVE  Chain(A, h, y)
<1>1. A \subseteq Nodes /\ Closed(A, h, x)
  BY DEF Chain
<1>2. Closed(A, h, y)
  BY <1>1 DEF Closed
<1>3. ASSUME NEW S \in SUBSET Nodes, Closed(S, h, y) PROVE A \subseteq S
  <2>1. S \cap A \in SUBSET Nodes
    OBVIOUS
  <2>2. Closed(S \cap A, h, x)
    BY <1>1, <1>3 DEF Closed
  <2> QED BY <2>1, <2>2 DEF Chain
<1>4. h = NULL \/ \E n \in A : y[n] = NULL
  BY DEF Chain
<1>5. \A n, m \in A : y[n] = y[m] /\ y[n] # NULL => n = m
  BY DEF Chain
<1>6. \A n \in A : y[n] = h => h = NULL
  BY DEF Chain
<1> QED BY <1>1, <1>2, <1>3, <1>4, <1>5, <1>6 DEF Chain

\* The chain of an empty list.
LEMMA ChainEmpty ==
  ASSUME NEW A, NEW x
  PROVE  /\ Chain({}, NULL, x)
         /\ Chain(A, NULL, x) => A = {}
<1>1. Closed({}, NULL, x)
  BY DEF Closed
<1> QED BY <1>1 DEF Chain

\* create puts n into an empty list.
LEMMA ChainFirst ==
  ASSUME NEW n \in Nodes, NEW x, x[n] = NULL
  PROVE  Chain({n}, n, x)
<1>1. n # NULL
  BY SearchListAssumption
<1>2. Closed({n}, n, x)
  BY DEF Closed
<1>3. ASSUME NEW S \in SUBSET Nodes, Closed(S, n, x) PROVE {n} \subseteq S
  BY <1>1, <1>3 DEF Closed
<1> QED BY <1>1, <1>2, <1>3 DEF Chain

\* create appends n behind the last node c.
LEMMA ChainAppend ==
  ASSUME NEW A, NEW h, NEW x \in [Nodes -> Nodes \cup {NULL}], Chain(A, h, x),
         NEW c \in A, x[c] = NULL, NEW n \in Nodes, n \notin A, x[n] = NULL,
         NEW y, y = [x EXCEPT ![c] = n]
  PROVE  Chain(A \cup {n}, h, y)
<1>1. A \subseteq Nodes /\ Closed(A, h, x) /\ n # NULL /\ n # c /\ c \in Nodes
  BY SearchListAssumption DEF Chain
<1>2. y[c] = n /\ y[n] = NULL /\ \A m \in A : m # c => y[m] = x[m]
  BY <1>1
<1>3. Closed(A \cup {n}, h, y)
  BY <1>1, <1>2 DEF Closed
<1>4. ASSUME NEW S \in SUBSET Nodes, Closed(S, h, y) PROVE A \cup {n} \subseteq S
  <2>1. Closed(S \cap A, h, x)
    BY <1>1, <1>2, <1>4 DEF Closed
  <2>2. A \subseteq S
    BY <2>1 DEF Chain
  <2> QED BY <1>1, <1>2, <1>4, <2>2 DEF Closed
<1>5. \A m \in A : x[m] # n
  BY <1>1 DEF Closed
<1>6. \A m \in A \cup {n} : m # c => y[m] # n
  BY <1>1, <1>2, <1>5
<1>7. \A k, m \in A \cup {n} : y[k] = y[m] /\ y[k] # NULL => k = m
  <2> SUFFICES ASSUME NEW k \in A \cup {n}, NEW m \in A \cup {n}, y[k] = y[m], y[k] # NULL
               PROVE  k = m
    OBVIOUS
  <2>1. k \in A /\ m \in A
    BY <1>2
  <2>2. CASE k = c \/ m = c
    BY <1>2, <1>6, <2>2
  <2>3. CASE k # c /\ m # c
    BY <1>2, <2>1, <2>3 DEF Chain
  <2> QED BY <2>2, <2>3
<1>8. \A m \in A \cup {n} : y[m] = h => h = NULL
  <2>1. h # n
    BY <1>1 DEF Closed
  <2> QED BY <1>2, <2>1 DEF Chain
<1> QED BY <1>1, <1>2, <1>3, <1>4, <1>7, <1>8 DEF Chain

\* remov takes the head out.
LEMMA ChainDropHead ==
  ASSUME NEW A, NEW h \in Nodes, NEW x \in [Nodes -> Nodes \cup {NULL}], Chain(A, h, x),
         NEW y, y = [x EXCEPT ![h] = NULL]
  PROVE  h \in A /\ Chain(A \ {h}, x[h], y)
<1>1. A \subseteq Nodes /\ Closed(A, h, x) /\ h # NULL /\ h \in A
  BY SearchListAssumption DEF Chain, Closed
<1>2. \A m \in A \ {h} : y[m] = x[m] /\ x[m] # h
  BY <1>1 DEF Chain
<1>3. x[h] # h
  BY <1>1 DEF Chain
<1>4. Closed(A \ {h}, x[h], y)
  BY <1>1, <1>2, <1>3 DEF Closed
<1>5. ASSUME NEW S \in SUBSET Nodes, Closed(S, x[h], y) PROVE A \ {h} \subseteq S
  <2>1. Closed((S \cap A) \cup {h}, h, x)
    <3>1. x[h] \in (S \cap A) \cup {NULL}
      BY <1>1, <1>5 DEF Closed
    <3>2. ASSUME NEW m \in S \cap A, m # h PROVE x[m] \in (S \cap A) \cup {NULL}
      BY <1>1, <1>2, <1>5, <3>2 DEF Closed
    <3> QED BY <3>1, <3>2 DEF Closed
  <2>2. (S \cap A) \cup {h} \in SUBSET Nodes
    BY <1>1
  <2>3. A \subseteq (S \cap A) \cup {h}
    BY <2>1, <2>2 DEF Chain
  <2> QED BY <2>3
<1>6. x[h] = NULL \/ \E n \in A \ {h} : y[n] = NULL
  BY <1>1, <1>2 DEF Chain
<1>7. \A n, m \in A \ {h} : y[n] = y[m] /\ y[n] # NULL => n = m
  BY <1>2 DEF Chain
<1>8. \A n \in A \ {h} : y[n] = x[h] => x[h] = NULL
  BY <1>1, <1>2 DEF Chain
<1> QED BY <1>1, <1>4, <1>5, <1>6, <1>7, <1>8 DEF Chain

\* remov takes c out behind p.
LEMMA ChainDrop ==
  ASSUME NEW A, NEW h, NEW x \in [Nodes -> Nodes \cup {NULL}], Chain(A, h, x),
         NEW p \in A, NEW c \in A, x[p] = c, p # c,
         NEW y, y = [[x EXCEPT ![p] = x[c]] EXCEPT ![c] = NULL]
  PROVE  Chain(A \ {c}, h, y)
<1>1. A \subseteq Nodes /\ Closed(A, h, x) /\ c # NULL /\ c \in Nodes /\ p \in Nodes
  BY SearchListAssumption DEF Chain
<1>2. c # h
  BY <1>1 DEF Chain
<1>3. y[p] = x[c] /\ \A m \in A \ {c} : m # p => y[m] = x[m]
  BY <1>1
<1>4. \A m \in A : m # p => x[m] # c
  BY <1>1 DEF Chain
<1>5. x[c] # c
  BY <1>4
<1>6. Closed(A \ {c}, h, y)
  BY <1>1, <1>2, <1>3, <1>4, <1>5 DEF Closed
<1>7. ASSUME NEW S \in SUBSET Nodes, Closed(S, h, y) PROVE A \ {c} \subseteq S
  <2> DEFINE T == (S \cap (A \ {c})) \cup (IF p \in S THEN {c} ELSE {})
  <2>1. T \in SUBSET Nodes
    BY <1>1
  <2>2. {h} \ {NULL} \subseteq T
    BY <1>1, <1>2, <1>7 DEF Closed
  <2>3. ASSUME NEW m \in T PROVE x[m] \in T \cup {NULL}
    <3>1. CASE m = c
      <4>1. p \in S
        BY <3>1
      <4>2. x[c] \in S \cup {NULL}
        BY <1>3, <1>7, <4>1 DEF Closed
      <4>3. x[c] \in (A \ {c}) \cup {NULL}
        BY <1>1, <1>5 DEF Closed
      <4> QED BY <3>1, <4>2, <4>3
    <3>2. CASE m = p
      BY <3>2
    <3>3. CASE m # c /\ m # p
      <4>1. m \in S /\ m \in A \ {c} /\ y[m] = x[m]
        BY <1>3, <3>3
      <4>2. x[m] \in S \cup {NULL} /\ x[m] \in A \cup {NULL} /\ x[m] # c
        BY <1>1, <1>4, <1>7, <3>3, <4>1 DEF Closed
      <4> QED BY <4>2
    <3> QED BY <3>1, <3>2, <3>3
  <2>4. Closed(T, h, x)
    BY <2>2, <2>3 DEF Closed
  <2>5. A \subseteq T
    BY <2>1, <2>4 DEF Chain
  <2> QED BY <2>5
<1>8. h = NULL \/ \E n \in A \ {c} : y[n] = NULL
  <2> SUFFICES ASSUME h # NULL PROVE \E n \in A \ {c} : y[n] = NULL
    OBVIOUS
  <2>1. PICK n \in A : x[n] = NULL
    BY DEF Chain
  <2>2. CASE n = c
    BY <1>3, <2>1, <2>2
  <2>3. CASE n # c
    BY <1>1, <1>3, <2>1, <2>3
  <2> QED BY <2>2, <2>3
<1>9. \A n, m \in A \ {c} : y[n] = y[m] /\ y[n] # NULL => n = m
  <2> SUFFICES ASSUME NEW n \in A \ {c}, NEW m \in A \ {c}, y[n] = y[m], y[n] # NULL
               PROVE  n = m
    OBVIOUS
  <2>1. CASE n # p /\ m # p
    BY <1>3, <2>1 DEF Chain
  <2>2. CASE n = p /\ m # p
    <3>1. x[c] = x[m] /\ x[c] # NULL
      BY <1>3, <2>2
    <3> QED BY <3>1 DEF Chain
  <2>3. CASE m = p /\ n # p
    <3>1. x[c] = x[n] /\ x[c] # NULL
      BY <1>3, <2>3
    <3> QED BY <3>1 DEF Chain
  <2> QED BY <2>1, <2>2, <2>3
<1>10. \A n \in A \ {c} : y[n] = h => h = NULL
  BY <1>3 DEF Chain
<1> QED BY <1>1, <1>6, <1>7, <1>8, <1>9, <1>10 DEF Chain
-----------------------------------------------------------------------------
(* Threads and semaphores. *)

Labels == {"idle", "take", "head", "walk", "give", "dead"}
Inside == {"head", "walk", "give"}
Locals == [k : 1 .. 2, cur : Nodes \cup {NULL}, prev : Nodes \cup {NULL}, val : Values]

\* Which semaphores each kind of thread takes and gives.
LEMMA Kinds ==
  ASSUME NEW t \in Threads
  PROVE  /\ t \in Searchers => /\ t \notin Deleters /\ t \notin Inserters
                               /\ Takes(t) = <<"no_searcher">> /\ Len(Takes(t)) = 1
                               /\ Gives(t) = {"no_searcher"}
         /\ t \in Deleters => /\ t \notin Searchers /\ t \notin Inserters
                              /\ Takes(t) = <<"no_searcher", "no_inserter">>
                              /\ Len(Takes(t)) = 2
                              /\ Gives(t) = {"no_searcher", "no_inserter"}
         /\ t \in Inserters => /\ t \notin Searchers /\ t \notin Deleters
                               /\ Takes(t) = <<"no_inserter", "inserter">>
                               /\ Len(Takes(t)) = 2
                               /\ Gives(t) = {"inserter", "no_inserter"}
         /\ t \in Searchers \/ t \in Deleters \/ t \in Inserters
<1>1. t \in Searchers \/ t \in Deleters \/ t \in Inserters
  BY DEF Threads
<1>2. CASE t \in Searchers
  <2>1. t \notin Deleters /\ t \notin Inserters
    BY <1>2, SearchListAssumption
  <2> QED BY <1>2, <2>1 DEF Takes, Gives
<1>3. CASE t \in Deleters
  <2>1. t \notin Searchers /\ t \notin Inserters
    BY <1>3, SearchListAssumption
  <2> QED BY <1>3, <2>1 DEF Takes, Gives
<1>4. CASE t \in Inserters
  <2>1. t \notin Searchers /\ t \notin Deleters
    BY <1>4, SearchListAssumption
  <2> QED BY <1>4, <2>1 DEF Takes, Gives
<1> QED BY <1>1, <1>2, <1>3, <1>4

\* A thread gives back what it took.
LEMMA TakesGives ==
  ASSUME NEW t \in Threads
  PROVE  /\ Len(Takes(t)) \in 1 .. 2
         /\ \A i \in 1 .. Len(Takes(t)) : Takes(t)[i] \in Sems
         /\ Gives(t) \subseteq Sems
         /\ Len(Takes(t)) = 1 => Gives(t) = {Takes(t)[1]}
         /\ Len(Takes(t)) = 2 => Gives(t) = {Takes(t)[1], Takes(t)[2]} /\ Takes(t)[1] # Takes(t)[2]
<1>1. CASE t \in Searchers
  BY <1>1, Kinds DEF Sems
<1>2. CASE t \in Deleters
  BY <1>2, Kinds DEF Sems
<1>3. CASE t \in Inserters
  BY <1>3, Kinds DEF Sems
<1> QED BY <1>1, <1>2, <1>3, Kinds

\* A jump changes the place and the locals of its thread.
LEMMA GotoFacts ==
  ASSUME TypeOK, NEW t \in Threads, NEW l \in Labels, NEW r \in Locals, Goto(t, l, r)
  PROVE  /\ pc' \in [Threads -> Labels] /\ loc' \in [Threads -> Locals]
         /\ pc'[t] = l /\ loc'[t] = r
         /\ \A u \in Threads : u # t => pc'[u] = pc[u] /\ loc'[u] = loc[u]
<1>1. pc \in [Threads -> Labels] /\ loc \in [Threads -> Locals]
  BY DEF TypeOK, Labels, Locals
<1>2. pc' = [pc EXCEPT ![t] = l] /\ loc' = [loc EXCEPT ![t] = r]
  BY DEF Goto
<1> QED BY <1>1, <1>2

\* The locals at the beginning of a call.
LEMMA NoLocType ==
  /\ NoLoc \in Locals /\ NoLoc.k = 1 /\ NoLoc.cur = NULL /\ NoLoc.prev = NULL
  /\ AnyValue \in Values
<1>1. AnyValue \in Values
  BY SearchListAssumption DEF AnyValue
<1> QED BY <1>1 DEF NoLoc, Locals

\* Before the use of freed memory no thread is dead and the semaphores are
\* exact.
LEMMA Alive ==
  ASSUME IInv, ~freedUse
  PROVE  SemsExact /\ \A t \in Threads : pc[t] # "dead"
BY DEF IInv, Places

\* Who can be inside with whom.
LEMMA InsideWith ==
  ASSUME SemsExact, NEW t \in Threads, NEW u \in Threads, t # u,
         pc[t] \in Inside, pc[u] \in Inside
  PROVE  (t \in Inserters /\ u \in Searchers) \/ (t \in Searchers /\ u \in Inserters)
<1>1. \A s \in Sems : ~ (s \in Gives(t) /\ s \in Gives(u))
  BY DEF SemsExact, Holds, Inside
<1>2. \A s \in {"no_searcher", "no_inserter", "inserter"} : ~ (s \in Gives(t) /\ s \in Gives(u))
  BY <1>1 DEF Sems
<1> QED BY <1>2, Kinds

\* The semaphores stay exact when no thread takes or gives one.
LEMMA SemsKeep ==
  ASSUME SemsExact, sem' = sem,
         \A u \in Threads, s \in Sems : Holds(u, s)' <=> Holds(u, s)
  PROVE  SemsExact'
<1> SUFFICES ASSUME NEW s \in Sems
             PROVE  \/ sem'[s] = 1 /\ \A t \in Threads : ~ Holds(t, s)'
                    \/ sem'[s] = 0 /\ \E t \in Threads :
                                        Holds(t, s)' /\ \A u \in Threads : Holds(u, s)' => u = t
  BY DEF SemsExact
<1>1. CASE sem[s] = 1 /\ \A t \in Threads : ~ Holds(t, s)
  BY <1>1
<1>2. CASE sem[s] = 0 /\ \E t \in Threads :
                           Holds(t, s) /\ \A u \in Threads : Holds(u, s) => u = t
  <2>1. PICK t \in Threads : Holds(t, s) /\ \A u \in Threads : Holds(u, s) => u = t
    BY <1>2
  <2>2. Holds(t, s)' /\ \A u \in Threads : Holds(u, s)' => u = t
    BY <2>1
  <2> QED BY <1>2, <2>2
<1> QED BY <1>1, <1>2 DEF SemsExact

\* A call begins or goes on inside.
LEMMA MoveSems ==
  ASSUME SemsExact, TypeOK, NEW t \in Threads, NEW l \in Labels, NEW r \in Locals,
         Goto(t, l, r), sem' = sem,
         \/ pc[t] = "idle" /\ l = "take" /\ r.k = 1
         \/ pc[t] \in {"head", "walk"} /\ l \in Inside
  PROVE  SemsExact'
<1>1. /\ pc'[t] = l /\ loc'[t] = r
      /\ \A u \in Threads : u # t => pc'[u] = pc[u] /\ loc'[u] = loc[u]
  BY GotoFacts
<1>2. ASSUME NEW u \in Threads, NEW s \in Sems, u # t PROVE Holds(u, s)' <=> Holds(u, s)
  BY <1>1, <1>2 DEF Holds
<1>3. ASSUME NEW s \in Sems PROVE Holds(t, s)' <=> Holds(t, s)
  BY <1>1 DEF Holds, Inside
<1> QED BY <1>2, <1>3, SemsKeep

\* The nodes in flight, by the inserters that have them.
LEMMA InFlightIs ==
  ASSUME \A u \in Inserters : /\ Creating(u)' <=> Creating(u)
                              /\ Creating(u) => loc'[u].prev = loc[u].prev
  PROVE  InFlight' = InFlight
<1>1. InFlight = {loc[u].prev : u \in {v \in Inserters : Creating(v)}}
  BY DEF InFlight, Creating
<1>2. InFlight' = {loc'[u].prev : u \in {v \in Inserters : Creating(v)'}}
  BY DEF InFlight, Creating
<1>3. {v \in Inserters : Creating(v)'} = {v \in Inserters : Creating(v)}
  OBVIOUS
<1> QED BY <1>1, <1>2, <1>3

\* Thread t goes on and keeps the node that it has, if it has one.
KeepsNode(t, l, r) ==
  t \in Inserters =>
    /\ (pc[t] \in {"take", "head", "walk"}) <=> (l \in {"take", "head", "walk"})
    /\ pc[t] \in {"take", "head", "walk"} => r.prev = loc[t].prev

\* The list and the nodes in flight stay when t only goes on.
LEMMA QuietKept ==
  ASSUME TypeOK, NEW t \in Threads, NEW l \in Labels, NEW r \in Locals, Goto(t, l, r),
         KeepsNode(t, l, r)
  PROVE  /\ InFlight' = InFlight
         /\ \A u \in Inserters : /\ Creating(u)' <=> Creating(u)
                                 /\ Creating(u) => loc'[u].prev = loc[u].prev
<1>1. /\ pc'[t] = l /\ loc'[t] = r
      /\ \A u \in Threads : u # t => pc'[u] = pc[u] /\ loc'[u] = loc[u]
  BY GotoFacts
<1>2. ASSUME NEW u \in Inserters
      PROVE  /\ Creating(u)' <=> Creating(u)
             /\ Creating(u) => loc'[u].prev = loc[u].prev
  <2>1. u \in Threads
    BY DEF Threads
  <2>2. CASE u = t
    BY <1>1, <2>2 DEF KeepsNode, Creating
  <2>3. CASE u # t
    BY <1>1, <2>1, <2>3 DEF Creating
  <2> QED BY <2>2, <2>3
<1> QED BY <1>2, InFlightIs

\* So does everything else about the list.
LEMMA QuietSound ==
  ASSUME Sound, TypeOK, NEW t \in Threads, NEW l \in Labels, NEW r \in Locals,
         Goto(t, l, r), KeepsNode(t, l, r), UNCHANGED list, ~freedUse', InList(t)'
  PROVE  Sound'
<1>1. \A u \in Threads : u # t => pc'[u] = pc[u] /\ loc'[u] = loc[u]
  BY GotoFacts
<1>2. head' = head /\ nxt' = nxt /\ data' = data /\ alloc' = alloc
  BY DEF list
<1>3. /\ InFlight' = InFlight
      /\ \A u \in Inserters : /\ Creating(u)' <=> Creating(u)
                              /\ Creating(u) => loc'[u].prev = loc[u].prev
  BY QuietKept
<1>4. Kept' = Kept
  BY <1>2, <1>3 DEF Kept
<1>5. Chain(Kept', head', nxt')
  BY <1>2, <1>4 DEF Sound
<1>6. OwnNodes'
  <2>1. OwnNodes
    BY DEF Sound
  <2>2. ASSUME NEW u \in Inserters, Creating(u)'
        PROVE  loc'[u].prev \in alloc' /\ nxt'[loc'[u].prev] = NULL
    BY <1>2, <1>3, <2>1, <2>2 DEF OwnNodes
  <2>3. ASSUME NEW u \in Inserters, NEW v \in Inserters, Creating(u)', Creating(v)',
               loc'[u].prev = loc'[v].prev
        PROVE  u = v
    BY <1>3, <2>1, <2>3 DEF OwnNodes
  <2> QED BY <2>2, <2>3 DEF OwnNodes
<1>7. ASSUME NEW u \in Threads, u # t PROVE InList(u)'
  <2>1. InList(u) /\ pc'[u] = pc[u] /\ loc'[u] = loc[u]
    BY <1>1, <1>7 DEF Sound
  <2> QED BY <1>2, <1>4, <2>1 DEF InList
<1> QED BY <1>5, <1>6, <1>7 DEF Sound

\* What the places say when t goes on.
LEMMA PlacesKeep ==
  ASSUME IInv, ~freedUse, NEW t \in Threads, NEW l \in Labels, NEW r \in Locals, Goto(t, l, r),
         l # "dead", l = "take" => r.k \in 1 .. Len(Takes(t)),
         t \in Inserters /\ l = "walk" => r.cur # NULL
  PROVE  Places'
<1>1. TypeOK /\ Places /\ \A u \in Threads : pc[u] # "dead"
  BY Alive DEF IInv
<1>2. /\ pc'[t] = l /\ loc'[t] = r
      /\ \A u \in Threads : u # t => pc'[u] = pc[u] /\ loc'[u] = loc[u]
  BY <1>1, GotoFacts
<1>3. ASSUME NEW u \in Threads, pc'[u] = "take" PROVE loc'[u].k \in 1 .. Len(Takes(u))
  <2>1. CASE u = t
    BY <1>2, <1>3, <2>1
  <2>2. CASE u # t
    BY <1>1, <1>2, <1>3, <2>2 DEF Places
  <2> QED BY <2>1, <2>2
<1>4. ASSUME NEW u \in Inserters, pc'[u] = "walk" PROVE loc'[u].cur # NULL
  <2>1. u \in Threads
    BY DEF Threads
  <2>2. CASE u = t
    BY <1>2, <1>4, <2>2
  <2>3. CASE u # t
    BY <1>1, <1>2, <1>4, <2>1, <2>3 DEF Places
  <2> QED BY <2>2, <2>3
<1>5. \A u \in Threads : pc'[u] # "dead"
  BY <1>1, <1>2
<1> QED BY <1>3, <1>4, <1>5 DEF Places

\* The head is a node of the list.
LEMMA HeadKept ==
  ASSUME Sound
  PROVE  /\ head \in Kept \cup {NULL} /\ Kept \subseteq alloc /\ Kept \subseteq Nodes
         /\ \A n \in Kept : nxt[n] \in Kept \cup {NULL}
<1>1. Closed(Kept, head, nxt) /\ Kept \subseteq Nodes
  BY DEF Sound, Chain
<1> QED BY <1>1 DEF Closed, Kept

\* A call begins.
LEMMA BeginIInv ==
  ASSUME IInv, ~freedUse, NEW t \in Threads, Begin(t)
  PROVE  IInv'
<1> DEFINE r == [NoLoc EXCEPT !.cur = head,
                              !.prev = IF t \in Deleters THEN head ELSE NULL]
<1>1. /\ pc[t] = "idle" /\ t \in Searchers \cup Deleters /\ Goto(t, "take", r)
      /\ UNCHANGED <<list, sem, outdated, freedUse>>
  BY DEF Begin
<1>2. head \in Nodes \cup {NULL} /\ TypeOK
  BY DEF IInv, TypeOK
<1>3. /\ r \in Locals /\ r.k = 1 /\ r.cur = head
      /\ t \in Deleters => r.prev = head
  BY <1>2, NoLocType DEF NoLoc, Locals
<1>4. "take" \in Labels
  BY DEF Labels
<1> HIDE DEF r
<1>5. /\ pc' \in [Threads -> Labels] /\ loc' \in [Threads -> Locals]
      /\ pc'[t] = "take" /\ loc'[t] = r
      /\ \A u \in Threads : u # t => pc'[u] = pc[u] /\ loc'[u] = loc[u]
  BY <1>1, <1>2, <1>3, <1>4, GotoFacts
<1>6. TypeOK'
  BY <1>1, <1>2, <1>5 DEF TypeOK, list, Labels, Locals
<1>7. Places'
  <2>1. 1 \in 1 .. Len(Takes(t))
    BY TakesGives
  <2>2. r.k \in 1 .. Len(Takes(t))
    BY <1>3, <2>1, Zenon
  <2> QED BY <1>1, <1>3, <1>4, <2>2, PlacesKeep
<1>8. SemsExact'
  BY <1>1, <1>2, <1>3, <1>4, Alive, MoveSems
<1>9. ASSUME ~outdated' PROVE Sound'
  <2>1. Sound
    BY <1>1, <1>9 DEF IInv
  <2>2. InList(t)'
    BY <1>1, <1>3, <1>5 DEF InList, list
  <2>3. KeepsNode(t, "take", r)
    BY <1>1, Kinds DEF KeepsNode
  <2> QED BY <1>1, <1>2, <1>3, <1>4, <2>1, <2>2, <2>3, QuietSound
<1> QED BY <1>6, <1>7, <1>8, <1>9 DEF IInv

\* Nodes in flight are allocated.
LEMMA InFlightKept ==
  ASSUME OwnNodes
  PROVE  InFlight \subseteq alloc /\ \A u \in Inserters : Creating(u) => loc[u].prev \in InFlight
<1>1. InFlight = {loc[u].prev : u \in {v \in Inserters : Creating(v)}}
  BY DEF InFlight, Creating
<1> QED BY <1>1 DEF OwnNodes

\* create fills in a new node.
LEMMA BeginCreateIInv ==
  ASSUME IInv, ~freedUse, NEW t \in Threads, BeginCreate(t)
  PROVE  IInv'
<1>1. PICK n \in Nodes \ alloc, v \in Values :
        /\ pc[t] = "idle" /\ t \in Inserters
        /\ alloc' = alloc \cup {n} /\ nxt' = [nxt EXCEPT ![n] = NULL]
        /\ data' = [data EXCEPT ![n] = v]
        /\ Goto(t, "take", [NoLoc EXCEPT !.prev = n])
        /\ head' = head /\ UNCHANGED <<sem, outdated, freedUse>>
  BY DEF BeginCreate
<1> DEFINE r == [NoLoc EXCEPT !.prev = n]
<1>2. TypeOK /\ n \in Nodes
  BY DEF IInv
<1>3. r \in Locals /\ r.k = 1 /\ r.prev = n
  BY <1>2, NoLocType DEF NoLoc, Locals
<1>4. "take" \in Labels /\ Goto(t, "take", r)
  BY <1>1 DEF Labels
<1> HIDE DEF r
<1>5. /\ pc' \in [Threads -> Labels] /\ loc' \in [Threads -> Locals]
      /\ pc'[t] = "take" /\ loc'[t] = r
      /\ \A u \in Threads : u # t => pc'[u] = pc[u] /\ loc'[u] = loc[u]
  BY <1>2, <1>3, <1>4, GotoFacts
<1>6. TypeOK'
  BY <1>1, <1>2, <1>5 DEF TypeOK, Labels, Locals
<1>7. Places'
  <2>1. 1 \in 1 .. Len(Takes(t))
    BY TakesGives
  <2>2. r.k \in 1 .. Len(Takes(t))
    BY <1>3, <2>1, Zenon
  <2> QED BY <1>1, <1>3, <1>4, <2>2, PlacesKeep
<1>8. SemsExact'
  BY <1>1, <1>2, <1>3, <1>4, Alive, MoveSems
<1>9. ASSUME ~outdated' PROVE Sound'
  <2>1. Sound
    BY <1>1, <1>9 DEF IInv
  <2>2. OwnNodes /\ Chain(Kept, head, nxt)
    BY <2>1 DEF Sound
  <2>3. ASSUME NEW u \in Inserters
        PROVE  /\ Creating(u)' <=> (Creating(u) \/ u = t)
               /\ u # t => loc'[u] = loc[u]
    <3>1. u \in Threads
      BY DEF Threads
    <3>2. CASE u = t
      BY <1>1, <1>5, <3>2 DEF Creating
    <3>3. CASE u # t
      BY <1>5, <3>1, <3>3 DEF Creating
    <3> QED BY <3>2, <3>3
  <2>4. ~ Creating(t) /\ loc'[t].prev = n
    BY <1>1, <1>3, <1>5 DEF Creating
  <2>5. InFlight' = InFlight \cup {n}
    <3>1. InFlight = {loc[u].prev : u \in {w \in Inserters : Creating(w)}}
      BY DEF InFlight, Creating
    <3>2. InFlight' = {loc'[u].prev : u \in {w \in Inserters : Creating(w)'}}
      BY DEF InFlight, Creating
    <3>3. {w \in Inserters : Creating(w)'} = {w \in Inserters : Creating(w)} \cup {t}
      BY <1>1, <2>3
    <3> QED BY <2>3, <2>4, <3>1, <3>2, <3>3
  <2>6. InFlight \subseteq alloc
    BY <2>2, InFlightKept
  <2>7. Kept' = Kept /\ n \notin Kept
    BY <1>1, <2>5, <2>6 DEF Kept
  <2>8. Kept \subseteq Nodes /\ head \in Kept \cup {NULL} /\ n \notin Kept
    BY <2>1, <2>7, HeadKept
  <2>9. \A m \in Nodes : m # n => nxt'[m] = nxt[m] /\ data'[m] = data[m]
    BY <1>1, <1>2 DEF TypeOK
  <2>10. Chain(Kept', head', nxt')
    <3>1. \A m \in Kept : nxt'[m] = nxt[m]
      BY <2>8, <2>9
    <3>2. Chain(Kept, head, nxt')
      <4>1. PICK A, h, x, y : A = Kept /\ h = head /\ x = nxt /\ y = nxt'
        OBVIOUS
      <4>2. Chain(A, h, y)
        BY <2>2, <3>1, <4>1, ChainFrame
      <4> QED BY <4>1, <4>2
    <3> QED BY <1>1, <2>7, <3>2
  <2>11. OwnNodes'
    <3>1. nxt'[n] = NULL /\ n \in alloc'
      BY <1>1, <1>2 DEF TypeOK
    <3>2. ASSUME NEW u \in Inserters, Creating(u)'
          PROVE  loc'[u].prev \in alloc' /\ nxt'[loc'[u].prev] = NULL
      <4>1. CASE u = t
        BY <2>4, <3>1, <4>1
      <4>2. CASE u # t
        <5>1. loc'[u].prev \in alloc /\ nxt[loc'[u].prev] = NULL
          BY <2>2, <2>3, <3>2, <4>2 DEF OwnNodes
        <5>2. alloc \subseteq Nodes
          BY <1>2 DEF TypeOK
        <5> QED BY <1>1, <2>9, <5>1, <5>2
      <4> QED BY <4>1, <4>2
    <3>3. ASSUME NEW u \in Inserters, NEW w \in Inserters, Creating(u)', Creating(w)',
                 loc'[u].prev = loc'[w].prev
          PROVE  u = w
      <4>1. \A z \in Inserters : Creating(z) => loc[z].prev # n
        BY <1>1, <2>2 DEF OwnNodes
      <4>2. CASE u = t \/ w = t
        BY <2>3, <2>4, <3>3, <4>1, <4>2
      <4>3. CASE u # t /\ w # t
        BY <2>2, <2>3, <3>3, <4>3 DEF OwnNodes
      <4> QED BY <4>2, <4>3
    <3> QED BY <3>2, <3>3 DEF OwnNodes
  <2>12. ASSUME NEW u \in Threads PROVE InList(u)'
    <3>1. CASE u = t
      BY <1>1, <1>5, <3>1, Kinds DEF InList
    <3>2. CASE u # t
      <4>1. InList(u) /\ pc'[u] = pc[u] /\ loc'[u] = loc[u]
        BY <1>5, <2>1, <3>2 DEF Sound
      <4>2. head # NULL => data'[head] = data[head]
        BY <2>8, <2>9
      <4>3. \A m \in Kept : nxt'[m] = nxt[m]
        BY <2>8, <2>9
      <4> QED BY <1>1, <2>7, <4>1, <4>2, <4>3 DEF InList
    <3> QED BY <3>1, <3>2
  <2> QED BY <1>1, <2>10, <2>11, <2>12 DEF Sound
<1> QED BY <1>6, <1>7, <1>8, <1>9 DEF IInv

\* A thread takes s, which nobody held.
LEMMA TakeSems ==
  ASSUME SemsExact, NEW t \in Threads, NEW s \in Sems, sem \in [Sems -> 0 .. 1], sem[s] > 0,
         sem' = [sem EXCEPT ![s] = @ - 1],
         \A u \in Threads, z \in Sems : u # t => (Holds(u, z)' <=> Holds(u, z)),
         \A z \in Sems : Holds(t, z)' <=> (Holds(t, z) \/ z = s)
  PROVE  SemsExact' /\ sem' \in [Sems -> 0 .. 1]
<1>1. sem[s] = 1 /\ \A u \in Threads : ~ Holds(u, s)
  BY DEF SemsExact
<1>2. sem'[s] = 0 /\ sem' \in [Sems -> 0 .. 1] /\ \A z \in Sems : z # s => sem'[z] = sem[z]
  BY <1>1
<1>3. ASSUME NEW z \in Sems
      PROVE  \/ sem'[z] = 1 /\ \A u \in Threads : ~ Holds(u, z)'
             \/ sem'[z] = 0 /\ \E u \in Threads :
                                 Holds(u, z)' /\ \A w \in Threads : Holds(w, z)' => w = u
  <2>1. CASE z = s
    <3>1. Holds(t, z)' /\ \A w \in Threads : Holds(w, z)' => w = t
      BY <1>1, <2>1
    <3> QED BY <1>2, <2>1, <3>1
  <2>2. CASE z # s
    <3>1. \A u \in Threads : Holds(u, z)' <=> Holds(u, z)
      BY <2>2
    <3>2. CASE sem[z] = 1 /\ \A u \in Threads : ~ Holds(u, z)
      BY <1>2, <2>2, <3>1, <3>2
    <3>3. CASE sem[z] = 0 /\ \E u \in Threads :
                               Holds(u, z) /\ \A w \in Threads : Holds(w, z) => w = u
      <4>1. PICK u \in Threads : Holds(u, z) /\ \A w \in Threads : Holds(w, z) => w = u
        BY <3>3
      <4>2. Holds(u, z)' /\ \A w \in Threads : Holds(w, z)' => w = u
        BY <3>1, <4>1
      <4> QED BY <1>2, <2>2, <3>3, <4>2
    <3> QED BY <3>2, <3>3 DEF SemsExact
  <2> QED BY <2>1, <2>2
<1> QED BY <1>2, <1>3 DEF SemsExact

\* sem_wait returns.
LEMMA TakeIInv ==
  ASSUME IInv, ~freedUse, NEW t \in Threads, Take(t)
  PROVE  IInv'
<1> DEFINE s == Takes(t)[loc[t].k]
           last == loc[t].k = Len(Takes(t))
<1>1. /\ pc[t] = "take" /\ sem[s] > 0 /\ sem' = [sem EXCEPT ![s] = @ - 1]
      /\ IF ~last THEN Goto(t, "take", [loc[t] EXCEPT !.k = @ + 1])
         ELSE \E v \in Values :
                Goto(t, IF t \in Searchers THEN "walk" ELSE "head",
                     [loc[t] EXCEPT !.val = IF t \in Inserters THEN @ ELSE v])
      /\ outdated' = (outdated \/ (/\ last /\ t \notin Inserters
                                   /\ loc[t].cur \notin {NULL, head}))
      /\ UNCHANGED list /\ freedUse' = freedUse
  BY DEF Take
<1>2. TypeOK /\ SemsExact /\ loc[t] \in Locals
  BY Alive DEF IInv, TypeOK, Locals
<1>3. loc[t].k \in 1 .. Len(Takes(t)) /\ Len(Takes(t)) \in 1 .. 2 /\ s \in Sems
  <2>1. loc[t].k \in 1 .. Len(Takes(t))
    BY <1>1 DEF IInv, Places
  <2> QED BY <2>1, TakesGives
<1>4. PICK l \in Labels, r \in Locals :
        /\ Goto(t, l, r) /\ r.cur = loc[t].cur /\ r.prev = loc[t].prev
        /\ ~last => l = "take" /\ r.k = 2 /\ loc[t].k = 1 /\ Len(Takes(t)) = 2
        /\ last => l = IF t \in Searchers THEN "walk" ELSE "head"
  <2>1. CASE ~last
    <3>1. loc[t].k = 1 /\ Len(Takes(t)) = 2
      <4>1. \A k, n \in Nat : (k \in 1 .. n /\ n \in 1 .. 2 /\ k # n) => (k = 1 /\ n = 2)
        OBVIOUS
      <4>2. loc[t].k \in Nat /\ Len(Takes(t)) \in Nat
        BY <1>2, <1>3 DEF Locals
      <4> QED BY <1>3, <2>1, <4>1, <4>2, Zenon
    <3> DEFINE r == [loc[t] EXCEPT !.k = @ + 1]
    <3>2. r \in Locals /\ r.cur = loc[t].cur /\ r.prev = loc[t].prev /\ r.k = 2
      BY <1>2, <3>1 DEF Locals
    <3>3. "take" \in Labels /\ Goto(t, "take", r)
      BY <1>1, <2>1 DEF Labels
    <3> QED BY <2>1, <3>1, <3>2, <3>3
  <2>2. CASE last
    <3>1. PICK v \in Values : Goto(t, IF t \in Searchers THEN "walk" ELSE "head",
                                   [loc[t] EXCEPT !.val = IF t \in Inserters THEN @ ELSE v])
      BY <1>1, <2>2
    <3> DEFINE r == [loc[t] EXCEPT !.val = IF t \in Inserters THEN @ ELSE v]
               l == IF t \in Searchers THEN "walk" ELSE "head"
    <3>2. r \in Locals /\ r.cur = loc[t].cur /\ r.prev = loc[t].prev
      BY <1>2 DEF Locals
    <3>3. l \in Labels /\ Goto(t, l, r)
      BY <3>1 DEF Labels
    <3> QED BY <2>2, <3>2, <3>3
  <2> QED BY <2>1, <2>2
<1>5. /\ pc' \in [Threads -> Labels] /\ loc' \in [Threads -> Locals]
      /\ pc'[t] = l /\ loc'[t] = r
      /\ \A u \in Threads : u # t => pc'[u] = pc[u] /\ loc'[u] = loc[u]
  BY <1>2, <1>4, GotoFacts
<1>6. ASSUME NEW u \in Threads, NEW z \in Sems, u # t PROVE Holds(u, z)' <=> Holds(u, z)
  BY <1>5, <1>6 DEF Holds
<1>7. ASSUME NEW z \in Sems PROVE Holds(t, z)' <=> (Holds(t, z) \/ z = s)
  <2>1. CASE ~last
    BY <1>1, <1>4, <1>5, <2>1 DEF Holds
  <2>2. CASE last /\ Len(Takes(t)) = 1
    <3>1. loc[t].k = 1 /\ s = Takes(t)[1] /\ Gives(t) = {Takes(t)[1]}
      BY <2>2, TakesGives
    <3> QED BY <1>1, <1>4, <1>5, <2>2, <3>1 DEF Holds
  <2>3. CASE last /\ Len(Takes(t)) = 2
    <3>1. loc[t].k = 2 /\ s = Takes(t)[2] /\ Gives(t) = {Takes(t)[1], Takes(t)[2]}
      BY <2>3, TakesGives
    <3> QED BY <1>1, <1>4, <1>5, <2>3, <3>1 DEF Holds
  <2> QED BY <1>3, <2>1, <2>2, <2>3
<1>8. SemsExact' /\ sem' \in [Sems -> 0 .. 1]
  <2>1. sem \in [Sems -> 0 .. 1]
    BY <1>2 DEF TypeOK
  <2> HIDE DEF s
  <2> QED BY <1>1, <1>2, <1>3, <1>6, <1>7, <2>1, TakeSems
<1>9. TypeOK'
  BY <1>1, <1>2, <1>5, <1>8 DEF TypeOK, list, Labels, Locals
<1>10. Places'
  <2>1. l # "dead" /\ (l = "take" => r.k \in 1 .. Len(Takes(t)))
    BY <1>4
  <2>2. t \in Inserters => l # "walk"
    BY <1>4, Kinds
  <2> QED BY <1>4, <2>1, <2>2, PlacesKeep
<1>11. ASSUME ~outdated' PROVE Sound'
  <2>1. Sound /\ InList(t)
    BY <1>1, <1>11 DEF IInv, Sound
  <2>2. last /\ t \notin Inserters => loc[t].cur \in {NULL, head}
    BY <1>1, <1>11
  <2>3. KeepsNode(t, l, r)
    BY <1>1, <1>4, Kinds DEF KeepsNode
  <2>4. head' = head /\ Kept' = Kept
    <3>1. InFlight' = InFlight
      BY <1>2, <1>4, <2>3, QuietKept
    <3> QED BY <1>1, <3>1 DEF list, Kept
  <2>5. head \in Kept \cup {NULL}
    BY <2>1, HeadKept
  <2>6. InList(t)'
    <3>1. CASE ~last
      BY <1>1, <1>4, <1>5, <2>1, <3>1 DEF InList
    <3>2. CASE last /\ t \in Searchers
      BY <1>4, <1>5, <2>2, <2>4, <2>5, <3>2, Kinds DEF InList
    <3>3. CASE last /\ t \in Deleters
      BY <1>1, <1>4, <1>5, <2>1, <2>2, <2>4, <3>3, Kinds DEF InList
    <3>4. CASE last /\ t \in Inserters
      BY <1>4, <1>5, <3>4, Kinds DEF InList
    <3> QED BY <3>1, <3>2, <3>3, <3>4, Kinds
  <2> QED BY <1>1, <1>2, <1>4, <2>1, <2>3, <2>6, QuietSound
<1> QED BY <1>8, <1>9, <1>10, <1>11 DEF IInv

\* sem_post, and the call is over.
LEMMA GiveIInv ==
  ASSUME IInv, ~freedUse, NEW t \in Threads, Give(t)
  PROVE  IInv'
<1>1. /\ pc[t] = "give" /\ sem' = [s \in Sems |-> sem[s] + IF s \in Gives(t) THEN 1 ELSE 0]
      /\ Goto(t, "idle", NoLoc) /\ UNCHANGED list /\ UNCHANGED <<outdated, freedUse>>
  BY DEF Give
<1>2. TypeOK /\ SemsExact /\ NoLoc \in Locals /\ "idle" \in Labels
  BY Alive, NoLocType DEF IInv, Labels
<1>3. /\ pc' \in [Threads -> Labels] /\ loc' \in [Threads -> Locals]
      /\ pc'[t] = "idle" /\ loc'[t] = NoLoc
      /\ \A u \in Threads : u # t => pc'[u] = pc[u] /\ loc'[u] = loc[u]
  BY <1>1, <1>2, GotoFacts
<1>4. ASSUME NEW z \in Sems
      PROVE  /\ ~ Holds(t, z)' /\ (Holds(t, z) <=> z \in Gives(t))
             /\ \A u \in Threads : u # t => (Holds(u, z)' <=> Holds(u, z))
  BY <1>1, <1>3 DEF Holds
<1>5. ASSUME NEW z \in Sems
      PROVE  /\ \/ sem'[z] = 1 /\ \A u \in Threads : ~ Holds(u, z)'
                \/ sem'[z] = 0 /\ \E u \in Threads :
                                    Holds(u, z)' /\ \A w \in Threads : Holds(w, z)' => w = u
             /\ sem'[z] \in 0 .. 1
  <2>1. CASE z \in Gives(t)
    <3>1. sem[z] = 0 /\ \A u \in Threads : Holds(u, z) => u = t
      BY <1>2, <1>4, <2>1 DEF SemsExact
    <3>2. \A u \in Threads : ~ Holds(u, z)'
      BY <1>4, <3>1
    <3>3. sem'[z] = 1
      BY <1>1, <2>1, <3>1
    <3> QED BY <3>2, <3>3
  <2>2. CASE z \notin Gives(t)
    <3>1. \A u \in Threads : Holds(u, z)' <=> Holds(u, z)
      BY <1>4, <2>2
    <3>2. sem'[z] = sem[z] /\ sem[z] \in 0 .. 1
      BY <1>1, <1>2, <2>2 DEF TypeOK
    <3>3. CASE sem[z] = 1 /\ \A u \in Threads : ~ Holds(u, z)
      BY <3>1, <3>2, <3>3
    <3>4. CASE sem[z] = 0 /\ \E u \in Threads :
                               Holds(u, z) /\ \A w \in Threads : Holds(w, z) => w = u
      <4>1. PICK u \in Threads : Holds(u, z) /\ \A w \in Threads : Holds(w, z) => w = u
        BY <3>4
      <4>2. Holds(u, z)' /\ \A w \in Threads : Holds(w, z)' => w = u
        BY <3>1, <4>1
      <4> QED BY <3>2, <3>4, <4>2
    <3> QED BY <1>2, <3>3, <3>4 DEF SemsExact
  <2> QED BY <2>1, <2>2
<1>6. SemsExact' /\ sem' \in [Sems -> 0 .. 1]
  BY <1>1, <1>5 DEF SemsExact
<1>7. TypeOK'
  BY <1>1, <1>2, <1>3, <1>6 DEF TypeOK, list, Labels, Locals
<1>8. Places'
  BY <1>1, <1>2, PlacesKeep
<1>9. ASSUME ~outdated' PROVE Sound'
  <2>1. Sound /\ ~ freedUse'
    BY <1>1, <1>9 DEF IInv
  <2>2. KeepsNode(t, "idle", NoLoc)
    BY <1>1 DEF KeepsNode
  <2>3. InList(t)'
    BY <1>3 DEF InList
  <2> QED BY <1>1, <1>2, <2>1, <2>2, <2>3, QuietSound
<1> QED BY <1>6, <1>7, <1>8, <1>9 DEF IInv

\* A thread inside goes on and leaves the list as it is.
LEMMA QuietIInv ==
  ASSUME IInv, ~freedUse, NEW t \in Threads, NEW l \in Inside, NEW r \in Locals, Goto(t, l, r),
         pc[t] \in {"head", "walk"}, UNCHANGED list, UNCHANGED <<sem, outdated>>,
         t \in Inserters /\ l = "walk" => r.cur # NULL,
         ~outdated => ~freedUse' /\ KeepsNode(t, l, r) /\ InList(t)'
  PROVE  IInv'
<1>1. TypeOK /\ SemsExact /\ l \in Labels /\ l # "dead" /\ l # "take"
  BY Alive DEF IInv, Inside, Labels
<1>2. /\ pc' \in [Threads -> Labels] /\ loc' \in [Threads -> Locals]
  BY <1>1, GotoFacts
<1>3. TypeOK'
  BY <1>1, <1>2 DEF TypeOK, list, Labels, Locals
<1>4. Places'
  BY <1>1, PlacesKeep
<1>5. SemsExact'
  BY <1>1, MoveSems
<1>6. ASSUME ~outdated' PROVE Sound'
  BY <1>1, <1>6, QuietSound DEF IInv
<1> QED BY <1>3, <1>4, <1>5, <1>6 DEF IInv

\* find visits a node.
LEMMA SearchIInv ==
  ASSUME IInv, ~freedUse, NEW t \in Threads, Search(t)
  PROVE  IInv'
<1> DEFINE c == loc[t].cur
<1>1. /\ pc[t] = "walk" /\ t \in Searchers /\ UNCHANGED list /\ UNCHANGED <<sem, outdated>>
      /\ \/ c = NULL /\ Leave(t) /\ freedUse' = freedUse
         \/ /\ c # NULL /\ freedUse' = (freedUse \/ ~({c} \subseteq alloc))
            /\ \E d \in DataOf(c) :
                 IF d = loc[t].val THEN Leave(t)
                 ELSE Goto(t, "walk", [loc[t] EXCEPT !.cur = nxt[c]])
  BY DEF Search, Uses
<1>2. TypeOK /\ loc[t] \in Locals /\ t \notin Inserters /\ t \notin Deleters
  BY <1>1, Kinds DEF IInv, TypeOK, Locals
<1>3. PICK l \in Inside, r \in Locals :
        /\ Goto(t, l, r)
        /\ l = "give" \/ (l = "walk" /\ c # NULL /\ r.cur = nxt[c])
  <2>1. CASE Leave(t)
    BY <2>1, NoLocType DEF Leave, Inside
  <2>2. CASE c # NULL /\ Goto(t, "walk", [loc[t] EXCEPT !.cur = nxt[c]])
    <3>1. nxt[c] \in Nodes \cup {NULL}
      BY <1>2, <2>2 DEF TypeOK, Locals
    <3>2. [loc[t] EXCEPT !.cur = nxt[c]] \in Locals /\ [loc[t] EXCEPT !.cur = nxt[c]].cur = nxt[c]
      BY <1>2, <3>1 DEF Locals
    <3> QED BY <2>2, <3>2 DEF Inside
  <2> QED BY <1>1, <2>1, <2>2
<1>4. ASSUME ~outdated PROVE ~freedUse' /\ KeepsNode(t, l, r) /\ InList(t)'
  <2>1. Sound /\ InList(t)
    BY <1>4 DEF IInv, Sound
  <2>2. c \in Kept \cup {NULL} /\ Kept \subseteq alloc /\ \A n \in Kept : nxt[n] \in Kept \cup {NULL}
    BY <1>1, <1>2, <2>1, HeadKept DEF InList
  <2>3. ~freedUse'
    BY <1>1, <2>2
  <2>4. KeepsNode(t, l, r)
    BY <1>2 DEF KeepsNode
  <2>5. l \in Labels
    BY DEF Inside, Labels
  <2>6. pc'[t] = l /\ loc'[t] = r /\ InFlight' = InFlight
    BY <1>2, <1>3, <2>4, <2>5, GotoFacts, QuietKept
  <2>7. Kept' = Kept
    BY <1>1, <2>6 DEF Kept, list
  <2>8. InList(t)'
    BY <1>2, <1>3, <2>2, <2>6, <2>7 DEF InList
  <2> QED BY <2>3, <2>4, <2>8
<1> QED BY <1>1, <1>2, <1>3, <1>4, QuietIInv

\* A deleter inside is alone.
LEMMA DeleterAlone ==
  ASSUME IInv, ~freedUse, NEW t \in Threads, t \in Deleters, pc[t] \in Inside,
         NEW u \in Threads, u # t
  PROVE  pc[u] \notin Inside
<1>1. SemsExact /\ t \notin Inserters /\ t \notin Searchers
  BY Alive, Kinds
<1> QED BY <1>1, InsideWith

\* A deleter takes the node c out and leaves; nobody else is in the list.
LEMMA DropIInv ==
  ASSUME IInv, ~freedUse, NEW t \in Threads, t \in Deleters, pc[t] \in {"head", "walk"},
         Leave(t), NEW c \in Nodes, NEW y \in [Nodes -> Nodes \cup {NULL}],
         head' \in Nodes \cup {NULL}, Free(c, y), UNCHANGED <<sem, outdated>>,
         ~outdated => /\ ~freedUse' /\ c \in Kept
                      /\ Chain(Kept \ {c}, head', [y EXCEPT ![c] = NULL])
                      /\ \A n \in Nodes \ Kept : y[n] = nxt[n]
  PROVE  IInv'
<1>1. /\ alloc' = alloc \ {c} /\ nxt' = [y EXCEPT ![c] = NULL]
      /\ data' = [data EXCEPT ![c] = AnyValue]
      /\ Goto(t, "give", NoLoc)
  BY DEF Free, Leave
<1>2. TypeOK /\ SemsExact /\ NoLoc \in Locals /\ "give" \in Labels /\ "give" \in Inside
  BY Alive, NoLocType DEF IInv, Labels, Inside
<1>3. /\ pc' \in [Threads -> Labels] /\ loc' \in [Threads -> Locals]
      /\ pc'[t] = "give" /\ loc'[t] = NoLoc
      /\ \A u \in Threads : u # t => pc'[u] = pc[u] /\ loc'[u] = loc[u]
  BY <1>1, <1>2, GotoFacts
<1>4. TypeOK'
  <2>1. nxt' \in [Nodes -> Nodes \cup {NULL}] /\ data' \in [Nodes -> Values]
    BY <1>1, <1>2, NoLocType DEF TypeOK
  <2>2. alloc' \subseteq Nodes /\ sem' \in [Sems -> 0 .. 1]
    BY <1>1, <1>2 DEF TypeOK
  <2> QED BY <1>3, <2>1, <2>2 DEF TypeOK, Labels, Locals
<1>5. Places'
  BY <1>1, <1>2, PlacesKeep
<1>6. SemsExact'
  BY <1>1, <1>2, MoveSems
<1>7. ASSUME ~outdated' PROVE Sound'
  <2>1. /\ Sound /\ ~freedUse' /\ c \in Kept /\ Chain(Kept \ {c}, head', nxt')
        /\ \A n \in Nodes \ Kept : y[n] = nxt[n]
    BY <1>1, <1>7 DEF IInv
  <2>2. KeepsNode(t, "give", NoLoc)
    BY Kinds DEF KeepsNode
  <2>3. /\ InFlight' = InFlight
        /\ \A u \in Inserters : /\ Creating(u)' <=> Creating(u)
                                /\ Creating(u) => loc'[u].prev = loc[u].prev
    BY <1>1, <1>2, <2>2, QuietKept
  <2>4. Kept' = Kept \ {c}
    BY <1>1, <2>3 DEF Kept
  <2>5. OwnNodes /\ \A u \in Inserters : Creating(u) => loc[u].prev \in InFlight
    BY <2>1, InFlightKept DEF Sound
  <2>6. OwnNodes'
    <3>1. ASSUME NEW u \in Inserters, Creating(u)'
          PROVE  loc'[u].prev \in alloc' /\ nxt'[loc'[u].prev] = NULL
      <4> DEFINE n == loc[u].prev
      <4>1. Creating(u) /\ loc'[u].prev = n /\ n \in alloc /\ nxt[n] = NULL /\ n \in InFlight
        BY <2>3, <2>5, <3>1 DEF OwnNodes
      <4>2. n \in Nodes \ Kept
        BY <1>2, <4>1 DEF TypeOK, Kept
      <4> HIDE DEF n
      <4>3. n # c /\ y[n] = NULL
        BY <2>1, <4>1, <4>2
      <4>4. n \in alloc' /\ nxt'[n] = NULL
        BY <1>1, <4>1, <4>2, <4>3
      <4> QED BY <4>1, <4>4
    <3>2. ASSUME NEW u \in Inserters, NEW v \in Inserters, Creating(u)', Creating(v)',
                 loc'[u].prev = loc'[v].prev
          PROVE  u = v
      BY <2>3, <2>5, <3>2 DEF OwnNodes
    <3> QED BY <3>1, <3>2 DEF OwnNodes
  <2>7. ASSUME NEW u \in Threads PROVE InList(u)'
    <3>1. CASE u = t
      BY <1>3, <3>1 DEF InList
    <3>2. CASE u # t
      <4>1. pc[u] \notin Inside
        BY <3>2, DeleterAlone DEF Inside
      <4>2. InList(u) /\ pc'[u] = pc[u] /\ loc'[u] = loc[u]
        BY <1>3, <2>1, <3>2 DEF Sound
      <4> QED BY <4>1, <4>2 DEF InList, Inside
    <3> QED BY <3>1, <3>2
  <2> QED BY <2>1, <2>4, <2>6, <2>7 DEF Sound
<1> QED BY <1>4, <1>5, <1>6, <1>7 DEF IInv

\* remov looks at the head.
LEMMA RemoveHeadIInv ==
  ASSUME IInv, ~freedUse, NEW t \in Threads, RemoveHead(t)
  PROVE  IInv'
<1>1. /\ pc[t] = "head" /\ t \in Deleters /\ t \notin Inserters /\ UNCHANGED <<sem, outdated>>
      /\ TypeOK /\ loc[t] \in Locals
  BY Kinds DEF RemoveHead, IInv, TypeOK, Locals
<1>2. ASSUME ~outdated
      PROVE  /\ Sound /\ InList(t) /\ Chain(Kept, head, nxt) /\ Kept \subseteq alloc
             /\ head \in Kept \cup {NULL}
  BY <1>2, HeadKept DEF IInv, Sound
<1>3. CASE /\ head # NULL /\ head' = nxt[head] /\ Free(head, nxt) /\ Uses({head}) /\ Leave(t)
  <2>1. head \in Nodes /\ nxt \in [Nodes -> Nodes \cup {NULL}] /\ head' \in Nodes \cup {NULL}
    BY <1>1, <1>3 DEF TypeOK
  <2>2. ASSUME ~outdated
        PROVE  /\ ~freedUse' /\ head \in Kept
               /\ Chain(Kept \ {head}, head', [nxt EXCEPT ![head] = NULL])
    <3>1. PICK A : A = Kept
      OBVIOUS
    <3>2. PICK x \in [Nodes -> Nodes \cup {NULL}], h \in Nodes : x = nxt /\ h = head
      BY <2>1
    <3>3. Chain(A, h, x)
      BY <1>2, <2>2, <3>2, <3>1
    <3>4. Chain(A \ {h}, x[h], [x EXCEPT ![h] = NULL])
      BY <3>3, <3>2, ChainDropHead
    <3> QED BY <1>2, <1>3, <2>1, <2>2, <3>2, <3>4, <3>1 DEF Uses
  <2> QED BY <1>1, <1>3, <2>1, <2>2, DropIInv
<1>4. CASE /\ head = NULL \/ \E d \in DataOf(head) : d # loc[t].val
           /\ Uses({head} \ {NULL}) /\ Goto(t, "walk", loc[t]) /\ UNCHANGED list
  <2>1. "walk" \in Inside /\ "walk" \in Labels
    BY DEF Inside, Labels
  <2>2. ASSUME ~outdated
        PROVE  ~freedUse' /\ KeepsNode(t, "walk", loc[t]) /\ InList(t)'
    <3>1. ~freedUse' /\ KeepsNode(t, "walk", loc[t])
      BY <1>1, <1>2, <1>4, <2>2 DEF Uses, KeepsNode
    <3>2. head = NULL \/ data[head] # loc[t].val
      BY <1>2, <1>4, <2>2 DEF DataOf
    <3>3. loc[t].cur \in {NULL, head} /\ loc[t].prev = loc[t].cur
      BY <1>1, <1>2, <2>2 DEF InList
    <3>4. pc'[t] = "walk" /\ loc'[t] = loc[t] /\ head' = head /\ data' = data
      BY <1>1, <1>4, <2>1, GotoFacts DEF list
    <3> QED BY <1>1, <3>1, <3>2, <3>3, <3>4 DEF InList
  <2> QED BY <1>1, <1>4, <2>1, <2>2, QuietIInv
<1> QED BY <1>3, <1>4 DEF RemoveHead

\* remov visits a node.
LEMMA RemoveWalkIInv ==
  ASSUME IInv, ~freedUse, NEW t \in Threads, RemoveWalk(t)
  PROVE  IInv'
<1> DEFINE c == loc[t].cur
           p == loc[t].prev
<1>1. /\ pc[t] = "walk" /\ t \in Deleters /\ t \notin Inserters /\ UNCHANGED <<sem, outdated>>
      /\ TypeOK /\ loc[t] \in Locals
      /\ \/ c = NULL /\ Leave(t) /\ UNCHANGED list /\ freedUse' = freedUse
         \/ /\ c # NULL /\ Uses({c, p})
            /\ \E d \in DataOf(c) :
                 \/ d = loc[t].val /\ Free(c, Unlinked(p, c)) /\ Leave(t) /\ head' = head
                 \/ /\ d # loc[t].val /\ UNCHANGED list
                    /\ Goto(t, "walk", [loc[t] EXCEPT !.prev = c, !.cur = nxt[c]])
  BY Kinds DEF RemoveWalk, IInv, TypeOK, Locals
<1>2. c \in Nodes \cup {NULL} /\ p \in Nodes \cup {NULL}
  BY <1>1 DEF Locals
<1>3. ASSUME ~outdated, c # NULL
      PROVE  /\ Sound /\ Chain(Kept, head, nxt) /\ Kept \subseteq alloc /\ Kept \subseteq Nodes
             /\ c \in Kept /\ p \in Kept /\ nxt[c] \in Kept \cup {NULL}
             /\ \/ c = head /\ p = head /\ data[head] # loc[t].val
                \/ nxt[p] = c /\ p # c
  <2>1. Sound /\ InList(t)
    BY <1>3 DEF IInv, Sound
  <2>2. /\ head \in Kept \cup {NULL} /\ Kept \subseteq alloc /\ Kept \subseteq Nodes
        /\ \A n \in Kept : nxt[n] \in Kept \cup {NULL}
    BY <2>1, HeadKept
  <2>3. \/ c = head /\ p = head /\ data[head] # loc[t].val
        \/ c \in Kept /\ p \in Kept /\ nxt[p] = c /\ p # c
    BY <1>1, <1>3, <2>1 DEF InList
  <2> QED BY <1>3, <2>1, <2>2, <2>3 DEF Sound
<1> HIDE DEF c, p
<1>4. CASE c = NULL /\ Leave(t) /\ UNCHANGED list /\ freedUse' = freedUse
  <2>1. "give" \in Inside /\ "give" \in Labels /\ NoLoc \in Locals /\ Goto(t, "give", NoLoc)
    BY <1>4, NoLocType DEF Inside, Labels, Leave
  <2>2. InList(t)' /\ KeepsNode(t, "give", NoLoc)
    <3>1. pc'[t] = "give"
      BY <1>1, <2>1, GotoFacts
    <3> QED BY <1>1, <3>1 DEF InList, KeepsNode
  <2> QED BY <1>1, <1>4, <2>1, <2>2, QuietIInv
<1>5. CASE /\ c # NULL /\ Uses({c, p}) /\ loc[t].val \in DataOf(c)
           /\ Free(c, Unlinked(p, c)) /\ Leave(t) /\ head' = head
  <2> DEFINE y == Unlinked(p, c)
  <2>1. c \in Nodes /\ y = [nxt EXCEPT ![p] = nxt[c]] /\ y \in [Nodes -> Nodes \cup {NULL}]
        /\ head' \in Nodes \cup {NULL} /\ nxt \in [Nodes -> Nodes \cup {NULL}]
    BY <1>1, <1>2, <1>5 DEF TypeOK, Unlinked
  <2>2. ASSUME ~outdated
        PROVE  /\ ~freedUse' /\ c \in Kept /\ Chain(Kept \ {c}, head', [y EXCEPT ![c] = NULL])
               /\ \A n \in Nodes \ Kept : y[n] = nxt[n]
    <3>1. DataOf(c) = {data[c]} /\ ~freedUse'
      BY <1>3, <1>5, <2>2 DEF DataOf, Uses
    <3>2. nxt[p] = c /\ p # c
      BY <1>3, <1>5, <2>2, <3>1
    <3>3. PICK A : A = Kept
      OBVIOUS
    <3>4. PICK x \in [Nodes -> Nodes \cup {NULL}], h \in Nodes \cup {NULL} : x = nxt /\ h = head
      BY <1>1, <2>1 DEF TypeOK
    <3>5. Chain(A, h, x)
      BY <1>3, <1>5, <2>2, <3>4, <3>3
    <3>6. PICK q \in A, d \in A : q = p /\ d = c /\ x[q] = d /\ q # d
      BY <1>3, <1>5, <2>2, <3>2, <3>4, <3>3
    <3>7. Chain(A \ {d}, h, [[x EXCEPT ![q] = x[d]] EXCEPT ![d] = NULL])
      BY <3>5, <3>4, <3>6, ChainDrop
    <3>8. \A n \in Nodes \ Kept : y[n] = nxt[n]
      BY <1>3, <1>5, <2>1, <2>2
    <3> QED BY <1>3, <1>5, <2>1, <2>2, <3>1, <3>4, <3>6, <3>7, <3>8, <3>3
  <2> HIDE DEF y
  <2>3. Free(c, y)
    BY <1>5 DEF y
  <2> QED BY <1>1, <1>5, <2>1, <2>2, <2>3, DropIInv
<1>6. CASE /\ c # NULL /\ Uses({c, p}) /\ UNCHANGED list
           /\ Goto(t, "walk", [loc[t] EXCEPT !.prev = c, !.cur = nxt[c]])
  <2>1. nxt[c] \in Nodes \cup {NULL}
    BY <1>1, <1>2, <1>6 DEF TypeOK
  <2>2. PICK r \in Locals : Goto(t, "walk", r) /\ r.prev = c /\ r.cur = nxt[c]
    <3> DEFINE r == [loc[t] EXCEPT !.prev = c, !.cur = nxt[c]]
    <3>1. r \in Locals /\ r.prev = c /\ r.cur = nxt[c]
      BY <1>1, <1>2, <2>1 DEF Locals
    <3> QED BY <1>6, <3>1
  <2>3. "walk" \in Inside /\ "walk" \in Labels
    BY DEF Inside, Labels
  <2>4. ASSUME ~outdated PROVE ~freedUse' /\ KeepsNode(t, "walk", r) /\ InList(t)'
    <3>1. ~freedUse' /\ KeepsNode(t, "walk", r)
      BY <1>1, <1>3, <1>6, <2>4 DEF Uses, KeepsNode
    <3>2. pc'[t] = "walk" /\ loc'[t] = r /\ InFlight' = InFlight
      BY <1>1, <2>2, <2>3, <3>1, GotoFacts, QuietKept
    <3>3. head' = head /\ nxt' = nxt /\ Kept' = Kept
      BY <1>6, <3>2 DEF list, Kept
    <3>4. nxt[c] # c
      BY <1>3, <1>6, <2>4 DEF Chain
    <3> QED BY <1>1, <1>3, <1>6, <2>2, <2>4, <3>1, <3>2, <3>3, <3>4 DEF InList
  <2> QED BY <1>1, <1>6, <2>2, <2>3, <2>4, QuietIInv
<1> QED BY <1>1, <1>4, <1>5, <1>6

\* An inserter links its node and leaves; at most searchers are in the list.
LEMMA LinkIInv ==
  ASSUME IInv, ~freedUse, NEW t \in Threads, t \in Inserters, pc[t] \in {"head", "walk"},
         Leave(t), NEW y \in [Nodes -> Nodes \cup {NULL}], nxt' = y,
         head' \in Nodes \cup {NULL}, data' = data, alloc' = alloc, UNCHANGED <<sem, outdated>>,
         ~outdated => /\ ~freedUse' /\ Chain(Kept \cup {loc[t].prev}, head', y)
                      /\ \A n \in Nodes \ Kept : y[n] = nxt[n]
  PROVE  IInv'
<1>1. Goto(t, "give", NoLoc)
  BY DEF Leave
<1>2. TypeOK /\ SemsExact /\ NoLoc \in Locals /\ "give" \in Labels /\ "give" \in Inside
  BY Alive, NoLocType DEF IInv, Labels, Inside
<1>3. /\ pc' \in [Threads -> Labels] /\ loc' \in [Threads -> Locals]
      /\ pc'[t] = "give" /\ loc'[t] = NoLoc
      /\ \A u \in Threads : u # t => pc'[u] = pc[u] /\ loc'[u] = loc[u]
  BY <1>1, <1>2, GotoFacts
<1>4. TypeOK'
  BY <1>2, <1>3 DEF TypeOK, Labels, Locals
<1>5. Places'
  BY <1>1, <1>2, PlacesKeep
<1>6. SemsExact'
  BY <1>1, <1>2, MoveSems
<1>7. ASSUME ~outdated' PROVE Sound'
  <2>1. /\ Sound /\ OwnNodes /\ ~freedUse' /\ Chain(Kept \cup {loc[t].prev}, head', nxt')
        /\ \A n \in Nodes \ Kept : nxt'[n] = nxt[n]
    BY <1>7 DEF IInv, Sound
  <2>2. InFlight \subseteq alloc /\ \A u \in Inserters : Creating(u) => loc[u].prev \in InFlight
    BY <2>1, InFlightKept
  <2>3. Creating(t) /\ loc[t].prev \in alloc /\ ~ Creating(t)'
    BY <1>3, <2>1 DEF Creating, OwnNodes
  <2>4. ASSUME NEW u \in Inserters, u # t
        PROVE  (Creating(u)' <=> Creating(u)) /\ loc'[u].prev = loc[u].prev
    <3>1. u \in Threads
      BY DEF Threads
    <3> QED BY <1>3, <2>4, <3>1 DEF Creating
  <2>5. InFlight' = InFlight \ {loc[t].prev}
    <3>1. InFlight = {loc[u].prev : u \in {v \in Inserters : Creating(v)}}
      BY DEF InFlight, Creating
    <3>2. InFlight' = {loc'[u].prev : u \in {v \in Inserters : Creating(v)'}}
      BY DEF InFlight, Creating
    <3>3. ASSUME NEW n \in InFlight' PROVE n \in InFlight /\ n # loc[t].prev
      <4>1. PICK u \in Inserters : Creating(u)' /\ n = loc'[u].prev
        BY <3>2
      <4>2. u # t /\ Creating(u) /\ n = loc[u].prev
        BY <2>3, <2>4, <4>1
      <4> QED BY <2>1, <2>2, <2>3, <4>2 DEF OwnNodes
    <3>4. ASSUME NEW n \in InFlight, n # loc[t].prev PROVE n \in InFlight'
      <4>1. PICK u \in Inserters : Creating(u) /\ n = loc[u].prev
        BY <3>1
      <4>2. Creating(u)' /\ n = loc'[u].prev
        BY <2>4, <3>4, <4>1
      <4> QED BY <3>2, <4>2
    <3> QED BY <3>3, <3>4
  <2>6. Kept' = Kept \cup {loc[t].prev}
    BY <2>3, <2>5 DEF Kept
  <2>7. OwnNodes'
    <3>1. ASSUME NEW u \in Inserters, Creating(u)'
          PROVE  loc'[u].prev \in alloc' /\ nxt'[loc'[u].prev] = NULL
      <4>1. u # t /\ Creating(u) /\ loc'[u].prev = loc[u].prev
        BY <2>3, <2>4, <3>1
      <4>2. loc[u].prev \in alloc /\ nxt[loc[u].prev] = NULL /\ loc[u].prev \in Nodes \ Kept
        BY <1>2, <2>1, <2>2, <4>1 DEF OwnNodes, Kept, TypeOK
      <4> QED BY <2>1, <4>1, <4>2
    <3>2. ASSUME NEW u \in Inserters, NEW v \in Inserters, Creating(u)', Creating(v)',
                 loc'[u].prev = loc'[v].prev
          PROVE  u = v
      <4>1. /\ u # t /\ v # t /\ Creating(u) /\ Creating(v)
            /\ loc'[u].prev = loc[u].prev /\ loc'[v].prev = loc[v].prev
        BY <2>3, <2>4, <3>2
      <4> QED BY <2>1, <3>2, <4>1 DEF OwnNodes
    <3> QED BY <3>1, <3>2 DEF OwnNodes
  <2>8. ASSUME NEW u \in Threads PROVE InList(u)'
    <3>1. CASE u = t
      BY <1>3, <3>1 DEF InList
    <3>2. CASE u # t
      <4>1. pc[u] \in Inside => u \in Searchers /\ u \notin Deleters
        <5>1. pc[t] \in Inside /\ t \notin Searchers
          BY Kinds DEF Inside
        <5>2. pc[u] \in Inside => u \in Searchers
          BY <1>2, <3>2, <5>1, InsideWith
        <5> QED BY <5>2, Kinds
      <4>2. InList(u) /\ pc'[u] = pc[u] /\ loc'[u] = loc[u]
        BY <1>3, <2>1, <3>2 DEF Sound
      <4> QED BY <2>6, <4>1, <4>2 DEF InList, Inside
    <3> QED BY <3>1, <3>2
  <2> QED BY <2>1, <2>6, <2>7, <2>8 DEF Sound
<1> QED BY <1>4, <1>5, <1>6, <1>7 DEF IInv

\* An inserter's own node, when the list is sound.
LEMMA OwnNode ==
  ASSUME Sound, TypeOK, NEW t \in Threads, Creating(t)
  PROVE  /\ loc[t].prev \in Nodes /\ loc[t].prev \notin Kept /\ nxt[loc[t].prev] = NULL
BY InFlightKept DEF Sound, OwnNodes, Kept, TypeOK, Creating

\* create looks at the head.
LEMMA CreateHeadIInv ==
  ASSUME IInv, ~freedUse, NEW t \in Threads, CreateHead(t)
  PROVE  IInv'
<1>1. /\ pc[t] = "head" /\ t \in Inserters /\ t \notin Deleters
      /\ nxt' = nxt /\ data' = data /\ alloc' = alloc /\ UNCHANGED <<sem, outdated>>
      /\ freedUse' = freedUse /\ TypeOK /\ loc[t] \in Locals /\ Creating(t)
      /\ nxt \in [Nodes -> Nodes \cup {NULL}]
  BY Kinds DEF CreateHead, IInv, TypeOK, Locals, Creating
<1>2. CASE head = NULL /\ head' = loc[t].prev /\ Leave(t)
  <2>1. head' \in Nodes \cup {NULL}
    BY <1>1, <1>2 DEF Locals
  <2>2. ASSUME ~outdated
        PROVE  ~freedUse' /\ Chain(Kept \cup {loc[t].prev}, head', nxt)
    <3>1. Sound /\ Chain(Kept, NULL, nxt)
      BY <1>2, <2>2 DEF IInv, Sound
    <3>2. Kept = {}
      BY <3>1, ChainEmpty
    <3>3. PICK n \in Nodes : n = loc[t].prev /\ nxt[n] = NULL
      BY <1>1, <3>1, OwnNode
    <3>4. Chain({n}, n, nxt)
      BY <3>3, ChainFirst
    <3>5. Kept \cup {loc[t].prev} = {n}
      BY <3>2, <3>3
    <3> QED BY <1>1, <1>2, <3>3, <3>4, <3>5
  <2> QED BY <1>1, <1>2, <2>1, <2>2, LinkIInv
<1>3. CASE head # NULL /\ Goto(t, "walk", [loc[t] EXCEPT !.cur = head]) /\ head' = head
  <2>1. head \in Nodes \cup {NULL}
    BY <1>1 DEF TypeOK
  <2>2. PICK r \in Locals : Goto(t, "walk", r) /\ r.prev = loc[t].prev /\ r.cur = head
    <3> DEFINE r == [loc[t] EXCEPT !.cur = head]
    <3>1. r \in Locals /\ r.prev = loc[t].prev /\ r.cur = head
      BY <1>1, <2>1 DEF Locals
    <3> QED BY <1>3, <3>1
  <2>3. "walk" \in Inside /\ "walk" \in Labels /\ UNCHANGED list
    BY <1>1, <1>3 DEF Inside, Labels, list
  <2>4. ASSUME ~outdated PROVE ~freedUse' /\ KeepsNode(t, "walk", r) /\ InList(t)'
    <3>1. ~freedUse' /\ KeepsNode(t, "walk", r)
      BY <1>1, <2>2 DEF KeepsNode
    <3>2. pc'[t] = "walk" /\ loc'[t] = r /\ InFlight' = InFlight
      BY <1>1, <2>2, <2>3, <3>1, GotoFacts, QuietKept
    <3>3. Kept' = Kept /\ head \in Kept \cup {NULL}
      BY <1>1, <2>4, <3>2, HeadKept DEF Kept, IInv
    <3> QED BY <1>1, <2>2, <3>1, <3>2, <3>3 DEF InList
  <2> QED BY <1>1, <1>3, <2>2, <2>3, <2>4, QuietIInv
<1> QED BY <1>2, <1>3 DEF CreateHead

\* create visits a node.
LEMMA CreateWalkIInv ==
  ASSUME IInv, ~freedUse, NEW t \in Threads, CreateWalk(t)
  PROVE  IInv'
<1> DEFINE c == loc[t].cur
<1>1. /\ pc[t] = "walk" /\ t \in Inserters /\ t \notin Deleters
      /\ head' = head /\ data' = data /\ alloc' = alloc /\ UNCHANGED <<sem, outdated>>
      /\ Uses({c}) /\ TypeOK /\ loc[t] \in Locals /\ Creating(t)
      /\ nxt \in [Nodes -> Nodes \cup {NULL}]
      /\ \/ nxt[c] # NULL /\ Goto(t, "walk", [loc[t] EXCEPT !.cur = nxt[c]]) /\ nxt' = nxt
         \/ nxt[c] = NULL /\ nxt' = [nxt EXCEPT ![c] = loc[t].prev] /\ Leave(t)
  BY Kinds DEF CreateWalk, IInv, TypeOK, Locals, Creating
<1>2. c \in Nodes
  BY <1>1 DEF IInv, Places, Locals
<1>3. ASSUME ~outdated
      PROVE  /\ Sound /\ Chain(Kept, head, nxt) /\ c \in Kept /\ nxt[c] \in Kept \cup {NULL}
             /\ ~freedUse'
  <2>1. Sound /\ InList(t)
    BY <1>3 DEF IInv, Sound
  <2>2. c \in Kept
    BY <1>1, <1>2, <2>1, SearchListAssumption DEF InList
  <2>3. Kept \subseteq alloc /\ \A n \in Kept : nxt[n] \in Kept \cup {NULL}
    BY <2>1, HeadKept
  <2> QED BY <1>1, <2>1, <2>2, <2>3 DEF Sound, Uses
<1> HIDE DEF c
<1>4. CASE nxt[c] # NULL /\ Goto(t, "walk", [loc[t] EXCEPT !.cur = nxt[c]]) /\ nxt' = nxt
  <2>1. nxt[c] \in Nodes \cup {NULL}
    BY <1>1, <1>2
  <2>2. PICK r \in Locals : Goto(t, "walk", r) /\ r.prev = loc[t].prev /\ r.cur = nxt[c]
    <3> DEFINE r == [loc[t] EXCEPT !.cur = nxt[c]]
    <3>1. r \in Locals /\ r.prev = loc[t].prev /\ r.cur = nxt[c]
      BY <1>1, <2>1 DEF Locals
    <3> QED BY <1>4, <3>1
  <2>3. "walk" \in Inside /\ "walk" \in Labels /\ UNCHANGED list
    BY <1>1, <1>4 DEF Inside, Labels, list
  <2>4. ASSUME ~outdated PROVE ~freedUse' /\ KeepsNode(t, "walk", r) /\ InList(t)'
    <3>1. KeepsNode(t, "walk", r)
      BY <1>1, <2>2 DEF KeepsNode
    <3>2. pc'[t] = "walk" /\ loc'[t] = r /\ InFlight' = InFlight
      BY <1>1, <2>2, <2>3, <3>1, GotoFacts, QuietKept
    <3>3. Kept' = Kept
      BY <1>1, <3>2 DEF Kept
    <3> QED BY <1>1, <1>3, <2>2, <2>4, <3>1, <3>2, <3>3 DEF InList
  <2> QED BY <1>1, <1>4, <2>2, <2>3, <2>4, QuietIInv
<1>5. CASE nxt[c] = NULL /\ nxt' = [nxt EXCEPT ![c] = loc[t].prev] /\ Leave(t)
  <2> DEFINE y == [nxt EXCEPT ![c] = loc[t].prev]
  <2>1. y \in [Nodes -> Nodes \cup {NULL}] /\ head' \in Nodes \cup {NULL}
    BY <1>1 DEF Locals, TypeOK
  <2>2. ASSUME ~outdated
        PROVE  /\ Chain(Kept \cup {loc[t].prev}, head', y)
               /\ \A n \in Nodes \ Kept : y[n] = nxt[n]
    <3>1. PICK A : A = Kept
      OBVIOUS
    <3>2. PICK x \in [Nodes -> Nodes \cup {NULL}], h \in Nodes \cup {NULL} : x = nxt /\ h = head
      BY <1>1 DEF TypeOK
    <3>3. PICK n \in Nodes : n = loc[t].prev /\ n \notin A /\ x[n] = NULL
      BY <1>1, <1>3, <2>2, <3>1, <3>2, OwnNode
    <3>4. PICK d \in A : d = c /\ x[d] = NULL
      BY <1>3, <1>5, <2>2, <3>1, <3>2
    <3>5. Chain(A, h, x)
      BY <1>3, <2>2, <3>1, <3>2
    <3>6. Chain(A \cup {n}, h, [x EXCEPT ![d] = n])
      BY <3>3, <3>4, <3>5, ChainAppend
    <3>7. \A m \in Nodes \ Kept : y[m] = nxt[m]
      BY <1>1, <1>3, <2>2
    <3> QED BY <1>1, <3>1, <3>2, <3>3, <3>4, <3>6, <3>7
  <2>3. ~outdated => ~freedUse'
    BY <1>3
  <2>4. nxt' = y
    BY <1>5
  <2> HIDE DEF y
  <2> QED BY <1>1, <1>5, <2>1, <2>2, <2>3, <2>4, LinkIInv
<1> QED BY <1>1, <1>4, <1>5

\* What follows the use of freed memory.
LEMMA UndefinedIInv ==
  ASSUME IInv, Undefined
  PROVE  IInv'
<1>1. /\ freedUse /\ freedUse' = freedUse /\ pc' = [t \in Threads |-> "dead"]
      /\ UNCHANGED list /\ sem' = sem /\ loc' = loc /\ outdated' = outdated
      /\ \E t \in Threads : pc[t] # "dead"
  BY DEF Undefined
<1>2. TypeOK /\ outdated
  BY <1>1 DEF IInv, Sound
<1>3. \A t \in Threads : pc'[t] = "dead"
  BY <1>1
<1>4. TypeOK'
  BY <1>1, <1>2 DEF TypeOK, list
<1>5. Places'
  <2>1. \A t \in Inserters : t \in Threads
    BY DEF Threads
  <2> QED BY <1>1, <1>3, <2>1 DEF Places
<1> QED BY <1>1, <1>2, <1>3, <1>4, <1>5 DEF IInv

LEMMA InitIInv == Init => IInv
<1> SUFFICES ASSUME Init PROVE IInv
  OBVIOUS
<1>1. NoLoc \in Locals /\ AnyValue \in Values
  BY NoLocType
<1>2. \A t \in Threads : pc[t] = "idle" /\ loc[t] = NoLoc
  BY DEF Init
<1>3. TypeOK
  BY <1>1 DEF Init, TypeOK, Locals, Sems
<1>4. Places
  <2>1. \A t \in Inserters : t \in Threads
    BY DEF Threads
  <2> QED BY <1>2, <2>1 DEF Places
<1>5. SemsExact
  BY <1>2 DEF Init, SemsExact, Holds
<1>6. Sound
  <2>1. \A t \in Inserters : ~ Creating(t)
    BY <1>2 DEF Creating, Threads
  <2>2. Kept = {} /\ Chain(Kept, head, nxt)
    <3>1. Kept = {} /\ head = NULL
      BY DEF Init, Kept
    <3> QED BY <3>1, ChainEmpty
  <2>3. OwnNodes
    BY <2>1 DEF OwnNodes
  <2>4. \A t \in Threads : InList(t)
    BY <1>2 DEF InList
  <2> QED BY <2>2, <2>3, <2>4 DEF Sound, Init
<1> QED BY <1>3, <1>4, <1>5, <1>6 DEF IInv

LEMMA StutterIInv ==
  ASSUME IInv, UNCHANGED vars
  PROVE  IInv'
<1>1. /\ head' = head /\ nxt' = nxt /\ data' = data /\ alloc' = alloc /\ sem' = sem
      /\ pc' = pc /\ loc' = loc /\ outdated' = outdated /\ freedUse' = freedUse
  BY DEF vars, list
<1>2. TypeOK' /\ Places'
  BY <1>1 DEF IInv, TypeOK, Places
<1>3. SemsExact' <=> SemsExact
  BY <1>1 DEF SemsExact, Holds
<1>4. Sound' <=> Sound
  <2>1. Kept' = Kept
    BY <1>1 DEF Kept, InFlight
  <2>2. OwnNodes' <=> OwnNodes
    BY <1>1 DEF OwnNodes, Creating
  <2>3. \A t \in Threads : InList(t)' <=> InList(t)
    BY <1>1, <2>1 DEF InList
  <2>4. Chain(Kept, head, nxt)' <=> Chain(Kept, head, nxt)
    BY <1>1, <2>1
  <2> QED BY <1>1, <2>2, <2>3, <2>4 DEF Sound
<1> QED BY <1>1, <1>2, <1>3, <1>4 DEF IInv

\* Every step keeps the invariant.
LEMMA NextIInv == IInv /\ [Next]_vars => IInv'
<1> SUFFICES ASSUME IInv, [Next]_vars PROVE IInv'
  OBVIOUS
<1>1. CASE Undefined
  BY <1>1, UndefinedIInv
<1>2. ASSUME ~freedUse, NEW t \in Threads, Take(t) PROVE IInv'
  BY <1>2, TakeIInv
<1>3. ASSUME ~freedUse, NEW t \in Threads, Step(t) PROVE IInv'
  BY <1>3, BeginIInv, BeginCreateIInv, GiveIInv, SearchIInv, RemoveHeadIInv, RemoveWalkIInv,
     CreateHeadIInv, CreateWalkIInv DEF Step
<1>4. CASE UNCHANGED vars
  BY <1>4, StutterIInv
<1> QED BY <1>1, <1>2, <1>3, <1>4 DEF Next

LEMMA Inductive == Spec => []IInv
BY InitIInv, NextIInv, PTL DEF Spec
-----------------------------------------------------------------------------
(* The theorems. *)

\* The variables keep their types; with it, no semaphore is ever above 1.
THEOREM TypeCorrect == Spec => []TypeOK
<1>1. IInv => TypeOK
  BY DEF IInv
<1> QED BY <1>1, Inductive, PTL

\* As long as no thread went in with an old head, the list holds exactly the
\* nodes that create has linked and remov has not freed, in one chain that ends
\* with NULL, and no freed node was touched.
THEOREM ListIntact == Spec => []Intact
<1>1. IInv => Intact
  <2> SUFFICES ASSUME IInv, ~outdated
               PROVE  /\ ~freedUse
                      /\ Reachable = alloc \ InFlight
                      /\ head = NULL \/ \E n \in Reachable : nxt[n] = NULL
                      /\ \A n, m \in Reachable : nxt[n] = nxt[m] /\ nxt[n] # NULL => n = m
    BY DEF Intact
  <2>1. ~freedUse /\ Chain(Kept, head, nxt)
    BY DEF IInv, Sound
  <2>2. Reachable = Kept
    BY <2>1, ChainReached
  <2>3. /\ head = NULL \/ \E n \in Kept : nxt[n] = NULL
        /\ \A n, m \in Kept : nxt[n] = nxt[m] /\ nxt[n] # NULL => n = m
    BY <2>1 DEF Chain
  <2>4. Kept = alloc \ InFlight
    BY DEF Kept
  <2> HIDE DEF Kept
  <2> QED BY <2>1, <2>2, <2>3, <2>4
<1> QED BY <1>1, Inductive, PTL

\* A deleter is alone in the list and so is an inserter among the inserters:
\* the semaphores of find, remov and create see to it, whatever became of the
\* list.
THEOREM SemaphoresExclude == Spec => []Exclusion
<1>1. IInv => Exclusion
  <2> SUFFICES ASSUME IInv, NEW t \in Threads, NEW u \in Threads, t # u,
                      pc[t] \in {"head", "walk"}, pc[u] \in {"head", "walk"}
               PROVE  \/ t \in Inserters /\ u \in Searchers
                      \/ t \in Searchers /\ u \in Inserters
    BY DEF Exclusion
  <2>1. CASE SemsExact
    BY <2>1, InsideWith DEF Inside
  <2>2. CASE \E w \in Threads : pc[w] = "dead"
    BY <2>2 DEF IInv, Places
  <2> QED BY <2>1, <2>2 DEF IInv
<1> QED BY <1>1, Inductive, PTL

\* When all threads wait or are outside, one who waits holds its first
\* semaphore only, and it is no searcher.
LEMMA Waits ==
  ASSUME SemsExact, Places, NEW s \in Sems, sem[s] # 1,
         \A t \in Threads : pc[t] \notin Inside
  PROVE  \E h \in Threads : /\ pc[h] = "take" /\ loc[h].k = 2 /\ s = Takes(h)[1]
                            /\ h \in Deleters \/ h \in Inserters
<1>1. PICK h \in Threads : Holds(h, s)
  BY DEF SemsExact
<1>2. pc[h] = "take" /\ loc[h].k = 2 /\ s = Takes(h)[1]
  BY <1>1 DEF Holds, Inside
<1>3. loc[h].k \in 1 .. Len(Takes(h))
  BY <1>2 DEF Places
<1>4. h \notin Searchers
  <2>1. loc[h].k = 2
    BY <1>2
  <2>2. 2 \in 1 .. Len(Takes(h)) /\ ~ (2 \in 1 .. 1)
    BY <1>3, <2>1
  <2> QED BY <2>2, Kinds
<1> QED BY <1>2, <1>4, Kinds

\* The threads never all wait for one another: who holds no_searcher waits for
\* no_inserter only, who holds that one for inserter, and who holds inserter
\* waits for nothing.
THEOREM NobodyStuck == Spec => []NotStuck
<1>1. IInv => NotStuck
  <2> SUFFICES ASSUME IInv, NEW t \in Threads, pc[t] = "take",
                      \A u \in Threads : pc[u] \notin {"head", "walk", "give", "dead"},
                      \A u \in Threads : pc[u] = "take" => ~ (sem[Takes(u)[loc[u].k]] > 0)
               PROVE  FALSE
    BY DEF NotStuck
  <2>1. SemsExact /\ Places /\ \A u \in Threads : pc[u] \notin Inside
    BY DEF IInv, Inside
  <2>2. ASSUME NEW u \in Threads, pc[u] = "take"
        PROVE  sem[Takes(u)[loc[u].k]] # 1
    BY <2>2
  <2>3. "inserter" \in Sems /\ "no_inserter" \in Sems
    BY DEF Sems
  <2>4. sem["inserter"] = 1
    <3> SUFFICES ASSUME sem["inserter"] # 1 PROVE FALSE
      OBVIOUS
    <3>1. PICK h \in Threads : /\ "inserter" = Takes(h)[1]
                               /\ h \in Deleters \/ h \in Inserters
      BY <2>1, <2>3, Waits
    <3> QED BY <3>1, Kinds
  <2>5. ASSUME NEW u \in Threads, pc[u] = "take", loc[u].k = 2 PROVE u \notin Inserters
    <3>1. u \in Inserters => Takes(u)[2] = "inserter"
      BY Kinds
    <3> QED BY <2>2, <2>4, <2>5, <3>1
  <2>6. sem["no_inserter"] = 1
    <3> SUFFICES ASSUME sem["no_inserter"] # 1 PROVE FALSE
      OBVIOUS
    <3>1. PICK h \in Threads : /\ pc[h] = "take" /\ loc[h].k = 2 /\ "no_inserter" = Takes(h)[1]
                               /\ h \in Deleters \/ h \in Inserters
      BY <2>1, <2>3, Waits
    <3>2. h \in Inserters
      BY <3>1, Kinds
    <3> QED BY <2>5, <3>1, <3>2
  <2>7. ASSUME NEW u \in Threads, pc[u] = "take", loc[u].k = 2 PROVE FALSE
    <3>1. u \in Deleters => Takes(u)[2] = "no_inserter"
      BY Kinds
    <3>2. loc[u].k \in 1 .. Len(Takes(u))
      BY <2>1, <2>7 DEF Places
    <3>3. u \notin Searchers
      <4>1. Len(Takes(u)) # 1
        BY <2>7, <3>2
      <4> QED BY <4>1, Kinds
    <3> QED BY <2>2, <2>5, <2>6, <2>7, <3>1, <3>3, Kinds
  <2>8. \A s \in Sems : sem[s] = 1
    BY <2>1, <2>7, Waits
  <2>9. loc[t].k \in 1 .. Len(Takes(t)) /\ Takes(t)[loc[t].k] \in Sems
    BY <2>1, TakesGives DEF Places
  <2> QED BY <2>2, <2>8, <2>9
<1> QED BY <1>1, Inductive, PTL
=============================================================================
