------------------------------ MODULE Smokers ------------------------------
(***************************************************************************)
(* The cigarette smokers of recitations/concurrency5.cpp.  Agent k puts    *)
(* the items k and k + 1 (modulo 3) into the hands of two admins; an admin *)
(* lays its item on the table, or joins it with the one that lies there    *)
(* and wakes the smokers that need the two.  The deadline ts of            *)
(* sem_timedwait lies in the past: a smoker that finds no items goes on at *)
(* once, and allows the agents another round like one that had them.       *)
(***************************************************************************)
EXTENDS Integers, FiniteSetsExt

CONSTANTS SmokerIds,       \* 0 .. 5 in the code
          SEM_VALUE_MAX    \* sem_post beyond it fails, which nobody checks

ASSUME SmokersAssumption == SmokerIds \subseteq Nat /\ SEM_VALUE_MAX \in Nat \ {0}

Objects == 0 .. 2
Plus(k, d) == (k + d) % 3
UPSET == -1

VARIABLES smoker_sem, admin_sem, agent_lock,   \* the semaphores
          items_available,                     \* the table
          making,     \* smokers who are making a cigarette
          placing,    \* agents who have handed out their first item only
          carrying,   \* admins who have been handed an item
          round       \* history: whose round it is, or UPSET once a smoker
                      \* went on without items
vars == <<smoker_sem, admin_sem, agent_lock, items_available, making, placing,
          carrying, round>>

Init ==
  /\ smoker_sem = [k \in Objects |-> 0]
  /\ admin_sem = [k \in Objects |-> 0]
  /\ agent_lock = 1
  /\ items_available = [k \in Objects |-> FALSE]
  /\ making = {} /\ placing = {} /\ carrying = {}
  /\ round = 0

\* External: sem_post, which leaves a semaphore at its maximum alone.
Post(n) == IF n < SEM_VALUE_MAX THEN n + 1 ELSE n
-----------------------------------------------------------------------------
\* sem_timedwait takes the semaphore if it can, and fails at once otherwise.
SmokerTimedWait(i) ==
  LET k == i % 3 IN
  /\ i \notin making
  /\ making' = making \cup {i}
  /\ smoker_sem' = [smoker_sem EXCEPT ![k] = IF @ > 0 THEN @ - 1 ELSE @]
  /\ round' = IF smoker_sem[k] = 0 THEN UPSET ELSE round
  /\ UNCHANGED <<admin_sem, agent_lock, items_available, placing, carrying>>

\* Mutant: the agents are not told.
NextRound_bug == agent_lock

NextRound == Post(agent_lock)

\* The cigarette is made: the agents may go on.
SmokerDone(i) ==
  /\ i \in making
  /\ making' = making \ {i}
  /\ agent_lock' = NextRound
  /\ UNCHANGED <<smoker_sem, admin_sem, items_available, placing, carrying, round>>

\* Mutant: the agent does not wait for its turn.
MayBegin_bug == TRUE

MayBegin == agent_lock > 0

\* sem_wait(&agent_lock), and the first of the two items.
AgentFirst(k) ==
  /\ k \notin placing
  /\ MayBegin
  /\ agent_lock' = agent_lock - 1
  /\ admin_sem' = [admin_sem EXCEPT ![k] = Post(@)]
  /\ placing' = placing \cup {k}
  /\ round' = IF round = UPSET THEN UPSET ELSE k
  /\ UNCHANGED <<smoker_sem, items_available, making, carrying>>

\* Mutant: the agent hands the same item out twice.
SecondItem_bug(k) == k

SecondItem(k) == Plus(k, 1)

AgentSecond(k) ==
  /\ k \in placing
  /\ admin_sem' = [admin_sem EXCEPT ![SecondItem(k)] = Post(@)]
  /\ placing' = placing \ {k}
  /\ UNCHANGED <<smoker_sem, agent_lock, items_available, making, carrying, round>>

AdminWait(k) ==
  /\ k \notin carrying
  /\ admin_sem[k] > 0
  /\ admin_sem' = [admin_sem EXCEPT ![k] = @ - 1]
  /\ carrying' = carrying \cup {k}
  /\ UNCHANGED <<smoker_sem, agent_lock, items_available, making, placing, round>>

\* Mutant: only one of the other two items is looked for.
Matches_bug(k) == {d \in {1} : items_available[Plus(k, d)]}

\* The other items that lie on the table, as distances from k.
Matches(k) == {d \in {1, 2} : items_available[Plus(k, d)]}

\* With admin_lock held: the nearer item that matches is taken off the table
\* and the smokers of the third one are woken, or item k is laid down.
AdminPush(k) ==
  /\ k \in carrying
  /\ carrying' = carrying \ {k}
  /\ IF Matches(k) = {}
     THEN /\ items_available' = [items_available EXCEPT ![k] = TRUE]
          /\ UNCHANGED smoker_sem
     ELSE LET d == Min(Matches(k)) IN
          /\ items_available' = [items_available EXCEPT ![Plus(k, d)] = FALSE]
          /\ smoker_sem' = [smoker_sem EXCEPT ![Plus(k, 3 - d)] = Post(@)]
  /\ UNCHANGED <<admin_sem, agent_lock, making, placing, round>>
-----------------------------------------------------------------------------
Smoker(i) == SmokerTimedWait(i) \/ SmokerDone(i)
Agent(k)  == AgentFirst(k) \/ AgentSecond(k)
Admin(k)  == AdminWait(k) \/ AdminPush(k)

Next == (\E i \in SmokerIds : Smoker(i)) \/ (\E k \in Objects : Agent(k) \/ Admin(k))

\* Every thread that can go on does; sleeps end.
Fairness == /\ \A i \in SmokerIds : WF_vars(Smoker(i))
            /\ \A k \in Objects : WF_vars(Agent(k)) /\ WF_vars(Admin(k))

Spec == Init /\ [][Next]_vars /\ Fairness
-----------------------------------------------------------------------------
(* Properties. *)

TypeOK ==
  /\ smoker_sem \in [Objects -> 0 .. SEM_VALUE_MAX]
  /\ admin_sem \in [Objects -> 0 .. SEM_VALUE_MAX]
  /\ agent_lock \in 0 .. SEM_VALUE_MAX
  /\ items_available \in [Objects -> BOOLEAN]
  /\ making \subseteq SmokerIds
  /\ placing \subseteq Objects /\ carrying \subseteq Objects
  /\ round \in Objects \cup {UPSET}

\* At most one item lies on the table, however many rounds the agents are
\* ahead and in whatever order the admins come: an admin never leaves two
\* items lying that it could have joined.
TableOne == \A j, k \in Objects : items_available[j] /\ items_available[k] => j = k

\* How many items are under way, a round that may begin counted as two.
Total(f) == f[0] + f[1] + f[2]
UnderWay ==
  2 * agent_lock + Cardinality(placing) + Total(admin_sem) + Cardinality(carrying)
  + Cardinality({k \in Objects : items_available[k]})
  + 2 * Total(smoker_sem) + 2 * Cardinality(making)

\* Going on without items is the only thing that upsets the rounds: before a
\* smoker does, one round is under way at a time, none of its two items is
\* lost, and they go to the smokers that the agent's message names (line 87).
RoundKept ==
  round # UPSET => /\ UnderWay = 2
                   /\ \A k \in Objects : smoker_sem[k] > 0 => k = Plus(round, 2)

\* "To prevent deadlocking" (concurrency5.cpp:16): agents hand out items again
\* and again.  Items that are lost on the table do not stop them.
AgentsGoOn == []<>(placing # {})
=============================================================================
