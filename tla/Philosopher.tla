----------------------------- MODULE Philosopher -----------------------------
(***************************************************************************)
(* The dining philosophers of recitations/philosopher.c: one semaphore per *)
(* fork, and a counting semaphore "lock" that admits one philosopher less  *)
(* than there are.  Every sem_wait and sem_post is a step of its thread.   *)
(***************************************************************************)
EXTENDS Integers, FiniteSets

CONSTANTS N,        \* num_phil, 4 in main
          MEALS     \* rounds of the loop in phil, 3 in the code

ASSUME NAssumption     == N \in Nat /\ N >= 2
ASSUME MealsAssumption == MEALS \in Nat \ {0}

Phils == 0 .. N - 1

VARIABLES lock,     \* the value of semaphore lock
          forks,    \* the value of every fork's semaphore
          created,  \* how many threads main has started
          pc,       \* where every philosopher stands
          meals     \* i, the finished rounds of every philosopher
vars == <<lock, forks, created, pc, meals>>

\* The two forks of philosopher i: forks[pos] and forks[(pos + 1) % count].
Left(i)  == i
Right(i) == (i + 1) % N

\* sem_wait and sem_post on fork k.
Wait(k) == /\ forks[k] > 0
           /\ forks' = [forks EXCEPT ![k] = @ - 1]
Post(k) == forks' = [forks EXCEPT ![k] = @ + 1]

Goto(i, label) == pc' = [pc EXCEPT ![i] = label]

\* Mutant: every philosopher is admitted.
Seats_bug == N

Seats == N - 1

Init ==
  /\ lock = Seats
  /\ forks = [k \in Phils |-> 1]
  /\ created = 0
  /\ pc = [i \in Phils |-> "new"]
  /\ meals = [i \in Phils |-> 0]

\* main, in run, starts the threads one after the other.
Create ==
  /\ created < N
  /\ created' = created + 1
  /\ Goto(created, "think")
  /\ UNCHANGED <<lock, forks, meals>>

SitDown(i) ==
  /\ pc[i] = "think"
  /\ lock > 0
  /\ lock' = lock - 1
  /\ Goto(i, "left")
  /\ UNCHANGED <<forks, created, meals>>

TakeLeft(i) ==
  /\ pc[i] = "left"
  /\ Wait(Left(i))
  /\ Goto(i, "right")
  /\ UNCHANGED <<lock, created, meals>>

\* Mutant: the second fork is not waited for.
TakeRight_bug(i) ==
  /\ pc[i] = "right"
  /\ forks' = [forks EXCEPT ![Right(i)] = 0]
  /\ Goto(i, "eat")
  /\ UNCHANGED <<lock, created, meals>>

TakeRight(i) ==
  /\ pc[i] = "right"
  /\ Wait(Right(i))
  /\ Goto(i, "eat")
  /\ UNCHANGED <<lock, created, meals>>

PutLeft(i) ==
  /\ pc[i] = "eat"
  /\ Post(Left(i))
  /\ Goto(i, "put")
  /\ UNCHANGED <<lock, created, meals>>

\* Mutant: the fork that is put down is the first one again.
PutRight_bug(i) ==
  /\ pc[i] = "put"
  /\ Post(Left(i))
  /\ Goto(i, "leave")
  /\ UNCHANGED <<lock, created, meals>>

PutRight(i) ==
  /\ pc[i] = "put"
  /\ Post(Right(i))
  /\ Goto(i, "leave")
  /\ UNCHANGED <<lock, created, meals>>

\* sem_post(lock), and the end of the round.
Leave(i) ==
  /\ pc[i] = "leave"
  /\ lock' = lock + 1
  /\ meals' = [meals EXCEPT ![i] = @ + 1]
  /\ Goto(i, IF meals'[i] < MEALS THEN "think" ELSE "done")
  /\ UNCHANGED <<forks, created>>

Phil(i) == \/ SitDown(i) \/ TakeLeft(i) \/ TakeRight(i)
           \/ PutLeft(i) \/ PutRight(i) \/ Leave(i)

Next == Create \/ \E i \in Phils : Phil(i)

\* The kernel runs every thread that can run.  A semaphore that stays
\* available is eventually obtained; nothing is assumed about the order in
\* which waiters obtain one.
Spec == /\ Init /\ [][Next]_vars
        /\ WF_vars(Create)
        /\ \A i \in Phils : WF_vars(Phil(i))
-----------------------------------------------------------------------------
(* Properties. *)

HoldsLeft(i)  == pc[i] \in {"right", "eat"}
HoldsRight(i) == pc[i] \in {"eat", "put"}
AtTable(i)    == pc[i] \in {"left", "right", "eat", "put", "leave"}

TypeOK ==
  /\ lock \in 0 .. Seats
  /\ forks \in [Phils -> 0 .. 1]
  /\ created \in 0 .. N
  /\ pc \in [Phils -> {"new", "think", "left", "right", "eat", "put",
                       "leave", "done"}]
  /\ meals \in [Phils -> 0 .. MEALS]

\* Neighbours never eat at the same time, whatever the order in which the
\* semaphores are taken and given back.
NeighboursApart ==
  \A i \in Phils : ~(pc[i] = "eat" /\ pc[Right(i)] = "eat")

\* A fork's semaphore is 1 exactly when neither of the philosophers who share
\* it holds it, and they never both do: no fork is lost or duplicated.
ForksExact ==
  \A i \in Phils :
    /\ ~(HoldsRight(i) /\ HoldsLeft(Right(i)))
    /\ forks[Right(i)] = 1 <=> ~HoldsRight(i) /\ ~HoldsLeft(Right(i))

\* What keeps philosopher i waiting does not keep all of them waiting: unless
\* main has threads to start or all are done, some philosopher's next sem_wait
\* or sem_post does not block.  That is what "lock" is for.
CanMove(i) == \/ pc[i] = "think" /\ lock > 0
              \/ pc[i] = "left" /\ forks[Left(i)] > 0
              \/ pc[i] = "right" /\ forks[Right(i)] > 0
              \/ pc[i] \in {"eat", "put", "leave"}

NotStuck == \/ created < N
            \/ \A i \in Phils : pc[i] = "done"
            \/ \E i \in Phils : CanMove(i)

\* The program ends: every philosopher eats his meals, without
\* any assumption on the order in which waiters obtain a semaphore.
AllEat == <>(\A i \in Phils : pc[i] = "done" /\ meals[i] = MEALS)
=============================================================================
