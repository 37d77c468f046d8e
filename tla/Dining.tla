------------------------------- MODULE Dining -------------------------------
(***************************************************************************)
(* The dining philosophers of assignments/a2/concurrency.py.  Forks are    *)
(* Python 2 locks: they have no owner, anybody may release them, and       *)
(* releasing one that is not locked raises an error, which ends the        *)
(* thread.  When the time is over, main clears every philosopher's dining; *)
(* one who is not at the table then leaves get_forks without forks, but    *)
(* eats and puts forks down all the same.                                  *)
(***************************************************************************)
EXTENDS Naturals

CONSTANT N    \* 5 in the code

Phils == 0 .. N - 1
Left(p)  == p
Right(p) == (p + 1) % N

VARIABLES locked,   \* forks that are locked
          dining,   \* philosophers whose dining is True
          pc        \* where each philosopher stands
vars == <<locked, dining, pc>>

Init == /\ locked = {}
        /\ dining = Phils
        /\ pc = [p \in Phils |-> "run"]

Goto(p, label) == pc' = [pc EXCEPT ![p] = label]

\* acquire(False), whose result is only used for the right fork.
TryAcquire(p, fork, label) ==
  /\ locked' = locked \cup {fork}
  /\ Goto(p, label)
  /\ UNCHANGED dining

\* release(): an error ends the thread, with whatever it has locked.
Release(p, fork, label) ==
  /\ Goto(p, IF fork \in locked THEN label ELSE "error")
  /\ locked' = locked \ {fork}
  /\ UNCHANGED dining
-----------------------------------------------------------------------------
\* while self.dining, in run; then it thinks.
Run(p) ==
  /\ pc[p] = "run"
  /\ Goto(p, IF p \in dining THEN "hungry" ELSE "done")
  /\ UNCHANGED <<locked, dining>>

\* while self.dining, in get_forks.
GetForks(p) ==
  /\ pc[p] = "hungry"
  /\ Goto(p, IF p \in dining THEN "left" ELSE "eat")
  /\ UNCHANGED <<locked, dining>>

\* left_fork.acquire(True) blocks.
TakeLeft(p) ==
  /\ pc[p] = "left"
  /\ Left(p) \notin locked
  /\ TryAcquire(p, Left(p), "right")

TakeRight(p) ==
  /\ pc[p] = "right"
  /\ TryAcquire(p, Right(p), IF Right(p) \in locked THEN "backoff" ELSE "eat")

\* Without the right fork: acquire(False) again, and release.
BackOff(p)  == pc[p] = "backoff" /\ TryAcquire(p, Left(p), "giveup")
GiveUp(p)   == pc[p] = "giveup" /\ Release(p, Left(p), "hungry")

\* put_forks makes sure that each fork is locked, and releases it.
SureLeft(p)  == pc[p] = "eat" /\ TryAcquire(p, Left(p), "putleft")
PutLeft(p)   == pc[p] = "putleft" /\ Release(p, Left(p), "sureright")
SureRight(p) == pc[p] = "sureright" /\ TryAcquire(p, Right(p), "putright")
PutRight(p)  == pc[p] = "putright" /\ Release(p, Right(p), "run")

\* main, when the time is over, one philosopher after the other.
Stop ==
  /\ dining # {}
  /\ dining' = dining \ {CHOOSE p \in dining : \A q \in dining : p <= q}
  /\ UNCHANGED <<locked, pc>>
-----------------------------------------------------------------------------
Philosopher(p) ==
  \/ Run(p) \/ GetForks(p) \/ TakeLeft(p) \/ TakeRight(p) \/ BackOff(p)
  \/ GiveUp(p) \/ SureLeft(p) \/ PutLeft(p) \/ SureRight(p) \/ PutRight(p)

Next == Stop \/ \E p \in Phils : Philosopher(p)

\* The interpreter lets every thread run that can, and the sleeps end; a fork
\* that becomes free again and again is obtained some time.
Spec == /\ Init /\ [][Next]_vars
        /\ WF_vars(Stop)
        /\ \A p \in Phils : WF_vars(Philosopher(p)) /\ SF_vars(TakeLeft(p))
-----------------------------------------------------------------------------
(* Properties. *)

\* "After runtime is depleted, set their dining variable to False so the
\* threads stop running" (concurrency.py:75): all philosophers come to an end.
AllStop == <>(\A p \in Phils : pc[p] \in {"done", "error"})
=============================================================================
