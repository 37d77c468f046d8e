---------------------------- MODULE SmokersGiven ----------------------------
(***************************************************************************)
(* The smokers of module Smokers together with a record of whom the agents *)
(* gave items to, for what becomes of the items of overlapping rounds.     *)
(***************************************************************************)
EXTENDS Smokers

VARIABLE owed   \* for each kind of smoker, rounds meant for it less wake-ups

givenvars == <<vars, owed>>

\* An agent begins a round for the smokers of the third item; an admin wakes.
Given(k) == IF \E a \in placing' \ placing : Plus(a, 2) = k THEN 1 ELSE 0
Woken(k) == IF smoker_sem'[k] > smoker_sem[k] THEN 1 ELSE 0

GivenNext == /\ Next
             /\ owed' = [k \in Objects |-> owed[k] + Given(k) - Woken(k)]

GivenSpec == /\ Init /\ owed = [k \in Objects |-> 0]
             /\ [][GivenNext]_givenvars

\* "Agent %d giving out %s" (concurrency5.cpp:87): smokers are woken only with
\* items that an agent gave out for them.  The code fails it: a smoker goes on
\* when its wait fails (line 57) and lets the agents begin another round, and
\* the admins join items of the two that nobody gave out together.
WokenAsGiven == \A k \in Objects : owed[k] >= 0
=============================================================================
