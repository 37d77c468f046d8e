----------------------------- MODULE SearchList -----------------------------
(***************************************************************************)
(* The linked list of recitations/concurrency3.c, shared by searchers,     *)
(* inserters and deleters under three semaphores.  remov and find read the *)
(* list's head before they wait for their semaphores and start from what   *)
(* they read.  Nodes are memory: a freed one can be allocated again, and   *)
(* reading it before gives anything.  lst->tail is NULL for ever (only a   *)
(* node that it points to would change it).                                *)
(***************************************************************************)
EXTENDS Naturals, Sequences, TLC

CONSTANTS Inserters, Searchers, Deleters,   \* two of each in main
          Nodes,     \* bound: the nodes malloc can hand out
          NULL,
          Values     \* what random_gen returns

ASSUME SearchListAssumption ==
  /\ Inserters \cap Searchers = {} /\ Inserters \cap Deleters = {}
  /\ Searchers \cap Deleters = {}
  /\ NULL \notin Nodes
  /\ Values # {}

Threads == Inserters \cup Searchers \cup Deleters
Sems    == {"no_searcher", "no_inserter", "inserter"}

VARIABLES head, nxt, data,   \* the list; nxt and data of every node
          alloc,             \* nodes that are allocated
          sem,               \* the semaphores' values
          pc, loc,           \* where the threads stand, their local variables
          outdated,          \* history: a thread went in with an old head
          freedUse           \* a freed node was read, written or freed
list == <<head, nxt, data, alloc>>
vars == <<list, sem, pc, loc, outdated, freedUse>>

\* Mutant: a deleter does not keep searchers away.
Takes_bug(t) == CASE t \in Searchers -> <<"no_searcher">>
                  [] t \in Deleters  -> <<"no_inserter">>
                  [] t \in Inserters -> <<"no_inserter", "inserter">>

\* The semaphores that find, remov and create wait for, in this order.
Takes(t) == CASE t \in Searchers -> <<"no_searcher">>
              [] t \in Deleters  -> <<"no_searcher", "no_inserter">>
              [] t \in Inserters -> <<"no_inserter", "inserter">>

\* Mutant: create posts the semaphore of the searchers.
Gives_bug(t) == CASE t \in Searchers -> {"no_searcher"}
                  [] t \in Deleters  -> {"no_searcher", "no_inserter"}
                  [] t \in Inserters -> {"inserter", "no_searcher"}

\* The semaphores they post at the end; no post can block.
Gives(t) == CASE t \in Searchers -> {"no_searcher"}
              [] t \in Deleters  -> {"no_searcher", "no_inserter"}
              [] t \in Inserters -> {"inserter", "no_inserter"}

\* The semaphore to take next, the nodes cur and prev (new_node for create),
\* and the value looked for.
AnyValue == CHOOSE v \in Values : TRUE
NoLoc == [k |-> 1, cur |-> NULL, prev |-> NULL, val |-> AnyValue]

Init ==
  /\ head = NULL /\ alloc = {}
  /\ nxt = [n \in Nodes |-> NULL]
  /\ data = [n \in Nodes |-> AnyValue]
  /\ sem = [s \in Sems |-> 1]
  /\ pc = [t \in Threads |-> "idle"]
  /\ loc = [t \in Threads |-> NoLoc]
  /\ outdated = FALSE /\ freedUse = FALSE

Goto(t, label, local) == /\ pc' = [pc EXCEPT ![t] = label]
                         /\ loc' = [loc EXCEPT ![t] = local]

\* What reading a node's data can give, and whether that uses freed memory.
DataOf(n) == IF n \in alloc THEN {data[n]} ELSE Values
Uses(ns)  == freedUse' = (freedUse \/ ~(ns \subseteq alloc))

\* free(n), with the pointers as nx has them; what n held is of no use any more.
Free(n, nx) == /\ alloc' = alloc \ {n}
               /\ nxt' = [nx EXCEPT ![n] = NULL]
               /\ data' = [data EXCEPT ![n] = AnyValue]
-----------------------------------------------------------------------------
(* Calls begin, take semaphores and give them back. *)

\* find and remov: the head is read before any semaphore is taken.
Begin(t) ==
  /\ pc[t] = "idle"
  /\ t \in Searchers \cup Deleters
  /\ Goto(t, "take", [NoLoc EXCEPT !.cur = head,
                                   !.prev = IF t \in Deleters THEN head ELSE NULL])
  /\ UNCHANGED <<list, sem, outdated, freedUse>>

\* create: the new node is filled in first.
BeginCreate(t) ==
  /\ pc[t] = "idle"
  /\ t \in Inserters
  /\ \E n \in Nodes \ alloc, v \in Values :
       /\ alloc' = alloc \cup {n}
       /\ nxt' = [nxt EXCEPT ![n] = NULL]
       /\ data' = [data EXCEPT ![n] = v]
       /\ Goto(t, "take", [NoLoc EXCEPT !.prev = n])
  /\ UNCHANGED <<head, sem, outdated, freedUse>>

\* sem_wait; after the last one the thread is inside (where the random value
\* that it drew before is first used).
Take(t) ==
  LET s == Takes(t)[loc[t].k]
      last == loc[t].k = Len(Takes(t))
  IN /\ pc[t] = "take"
     /\ sem[s] > 0
     /\ sem' = [sem EXCEPT ![s] = @ - 1]
     /\ IF ~last THEN Goto(t, "take", [loc[t] EXCEPT !.k = @ + 1])
        ELSE \E v \in Values :
               Goto(t, IF t \in Searchers THEN "walk" ELSE "head",
                    [loc[t] EXCEPT !.val = IF t \in Inserters THEN @ ELSE v])
     /\ outdated' = (outdated \/ (/\ last /\ t \notin Inserters
                                  /\ loc[t].cur \notin {NULL, head}))
     /\ UNCHANGED <<list, freedUse>>

\* sem_post, and the call is over.
Give(t) ==
  /\ pc[t] = "give"
  /\ sem' = [s \in Sems |-> sem[s] + IF s \in Gives(t) THEN 1 ELSE 0]
  /\ Goto(t, "idle", NoLoc)
  /\ UNCHANGED <<list, outdated, freedUse>>

Leave(t) == Goto(t, "give", NoLoc)
-----------------------------------------------------------------------------
(* Inside. *)

\* find looks at the next node.
Search(t) ==
  LET cur == loc[t].cur IN
  /\ pc[t] = "walk" /\ t \in Searchers
  /\ \/ /\ cur = NULL
        /\ Leave(t)
        /\ UNCHANGED freedUse
     \/ /\ cur # NULL
        /\ Uses({cur})
        /\ \E d \in DataOf(cur) :
             IF d = loc[t].val THEN Leave(t)
             ELSE Goto(t, "walk", [loc[t] EXCEPT !.cur = nxt[cur]])
  /\ UNCHANGED <<list, sem, outdated>>

\* remov first looks at the head as it is now.
RemoveHead(t) ==
  /\ pc[t] = "head" /\ t \in Deleters
  /\ \/ /\ head # NULL
        /\ loc[t].val \in DataOf(head)
        /\ head' = nxt[head]
        /\ Free(head, nxt)
        /\ Uses({head})
        /\ Leave(t)
     \/ /\ head = NULL \/ \E d \in DataOf(head) : d # loc[t].val
        /\ Uses({head} \ {NULL})
        /\ Goto(t, "walk", loc[t])
        /\ UNCHANGED list
  /\ UNCHANGED <<sem, outdated>>

\* Mutant: the node is freed but stays in the list.
Unlinked_bug(prev, cur) == nxt

Unlinked(prev, cur) == [nxt EXCEPT ![prev] = nxt[cur]]

\* Then it walks on from the head it read before.
RemoveWalk(t) ==
  LET cur == loc[t].cur
      prev == loc[t].prev
  IN /\ pc[t] = "walk" /\ t \in Deleters
     /\ \/ /\ cur = NULL
           /\ Leave(t)
           /\ UNCHANGED <<list, freedUse>>
        \/ /\ cur # NULL
           /\ Uses({cur, prev})
           /\ \E d \in DataOf(cur) :
                IF d = loc[t].val
                THEN /\ Free(cur, Unlinked(prev, cur))
                     /\ Leave(t)
                     /\ UNCHANGED head
                ELSE /\ Goto(t, "walk", [loc[t] EXCEPT !.prev = cur, !.cur = nxt[cur]])
                     /\ UNCHANGED list
     /\ UNCHANGED <<sem, outdated>>

\* create puts its node into an empty list, or goes to the list's end.
CreateHead(t) ==
  /\ pc[t] = "head" /\ t \in Inserters
  /\ IF head = NULL
     THEN /\ head' = loc[t].prev
          /\ Leave(t)
     ELSE /\ Goto(t, "walk", [loc[t] EXCEPT !.cur = head])
          /\ UNCHANGED head
  /\ UNCHANGED <<nxt, data, alloc, sem, outdated, freedUse>>

CreateWalk(t) ==
  LET cur == loc[t].cur IN
  /\ pc[t] = "walk" /\ t \in Inserters
  /\ Uses({cur})
  /\ IF nxt[cur] # NULL
     THEN /\ Goto(t, "walk", [loc[t] EXCEPT !.cur = nxt[cur]])
          /\ UNCHANGED nxt
     ELSE /\ nxt' = [nxt EXCEPT ![cur] = loc[t].prev]
          /\ Leave(t)
  /\ UNCHANGED <<head, data, alloc, sem, outdated>>

\* What follows the use of freed memory is undefined, a crash included; the
\* model does not follow it.
Undefined ==
  /\ freedUse
  /\ \E t \in Threads : pc[t] # "dead"
  /\ pc' = [t \in Threads |-> "dead"]
  /\ UNCHANGED <<list, sem, loc, outdated, freedUse>>
-----------------------------------------------------------------------------
Step(t) == \/ Begin(t) \/ BeginCreate(t) \/ Give(t) \/ Search(t)
           \/ RemoveHead(t) \/ RemoveWalk(t) \/ CreateHead(t) \/ CreateWalk(t)

Next == \/ Undefined
        \/ ~freedUse /\ \E t \in Threads : Take(t) \/ Step(t)

Spec == Init /\ [][Next]_vars
\* The threads of a kind are alike, and so are the nodes.
Symmetry == Permutations(Nodes) \cup Permutations(Deleters)
              \cup Permutations(Inserters)
-----------------------------------------------------------------------------
(* Properties. *)

TypeOK ==
  /\ head \in Nodes \cup {NULL} /\ alloc \subseteq Nodes
  /\ nxt \in [Nodes -> Nodes \cup {NULL}] /\ data \in [Nodes -> Values]
  /\ sem \in [Sems -> 0 .. 1]
  /\ pc \in [Threads -> {"idle", "take", "head", "walk", "give", "dead"}]
  /\ loc \in [Threads -> [k : 1 .. 2, cur : Nodes \cup {NULL},
                          prev : Nodes \cup {NULL}, val : Values]]

\* The nodes that one reaches from the head.
Reachable ==
  {n \in Nodes : \A S \in SUBSET Nodes :
     {head} \ {NULL} \subseteq S /\ (\A m \in S : nxt[m] \in S \cup {NULL}) => n \in S}

\* The nodes that create holds and has not linked yet.
InFlight == {loc[t].prev : t \in {u \in Inserters : pc[u] \in {"take", "head", "walk"}}}

\* The old head that remov and find start from is the only way to break the
\* list: as long as no thread went in with one, the list holds exactly the
\* nodes inserted and not deleted, none of them freed, and ends with NULL, and
\* no freed node was touched, although inserters and searchers run together.
Intact ==
  ~outdated =>
    /\ ~freedUse
    /\ Reachable = alloc \ InFlight
    /\ head = NULL \/ \E n \in Reachable : nxt[n] = NULL
    /\ \A n, m \in Reachable : nxt[n] = nxt[m] /\ nxt[n] # NULL => n = m

\* A deleter is alone inside, and so is an inserter among inserters.
Exclusion ==
  LET In(S) == {t \in S : pc[t] \in {"head", "walk"}} IN
  \A t, u \in Threads : t # u /\ t \in In(Threads) /\ u \in In(Threads) =>
    (t \in Inserters /\ u \in Searchers) \/ (t \in Searchers /\ u \in Inserters)

\* Threads never all wait for one another: as long as a call is under way,
\* some thread is inside and goes on, or finds the semaphore that it waits for.
NotStuck ==
  (\E t \in Threads : pc[t] = "take") =>
    \E t \in Threads : \/ pc[t] \in {"head", "walk", "give", "dead"}
                       \/ pc[t] = "take" /\ sem[Takes(t)[loc[t].k]] > 0

\* "you will see an element omitted from the second list, proving that it was
\* deleted successfully" (a3/writeup.tex:27-28): remov, when it has found its
\* value, takes one node out of the list.  The code fails it: the head that it
\* read before it waited may be freed, or be another's new node, by the time
\* it starts from there.
DeletesOne ==
  [][\A t \in Deleters :
       /\ pc'[t] = "give"
       /\ pc[t] = "head" \/ (pc[t] = "walk" /\ loc[t].cur # NULL)
       => \E n \in Reachable : Reachable' = Reachable \ {n}]_vars
=============================================================================
