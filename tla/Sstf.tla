-------------------------------- MODULE Sstf --------------------------------
(***************************************************************************)
(* The I/O scheduler of assignments/a2/sstf-iosched.c: the circular list   *)
(* of requests, the insertion of sstf_add_request, the choice of           *)
(* sstf_dispatch, merges, and the life of the elevator from                *)
(* sstf_init_queue to sstf_exit_queue.  The block layer (external) calls   *)
(* all of them with queue_lock held, so they do not overlap; the loop of   *)
(* sstf_add_request is modelled iteration by iteration, because it follows *)
(* two pointers that can leave the requests and run over the list head.    *)
(***************************************************************************)
EXTENDS Integers, SequencesExt

CONSTANTS Requests,      \* struct requests
          NoRequest,
          Capacity       \* sectors of the disk

ASSUME SstfAssumption == NoRequest \notin Requests /\ Capacity \in Nat \ {0}

VARIABLES state,         \* "off", "up", "drain", "drained" or "bug"
          queue,         \* nd->queue, from nd->queue.next on
          direction,     \* nd->direction
          sector,        \* nd->sector
          add,           \* the insertion under way: request, prev and next
          pos, nsect,    \* blk_rq_pos and blk_rq_sectors of every request
          owned          \* requests given to the elevator and not yet passed on
vars == <<state, queue, direction, sector, add, pos, nsect, owned>>

\* Places in the circular list: i is the i-th request, 0 the list head.
Forward(i)  == (i + 1) % (Len(queue) + 1)

\* Mutant: the list is not circular towards the front.
Backward_bug(i) == i - 1

Backward(i) == (i - 1) % (Len(queue) + 1)

NoAdd == [rq |-> NoRequest, prev |-> 0, next |-> 0]

\* No call into the scheduler is under way.
Ready == add = NoAdd

Init ==
  /\ state = "off"
  /\ queue = <<>> /\ direction = "F" /\ sector = 0 /\ add = NoAdd
  /\ pos = [r \in Requests |-> 0] /\ nsect = [r \in Requests |-> 0]
  /\ owned = {}
-----------------------------------------------------------------------------
(* The life of the elevator. *)

\* sstf_init_queue; a failed allocation, which changes nothing that lasts,
\* leaves the device with its old elevator.
InitQueue ==
  /\ state = "off"
  /\ state' \in {"up", "off"}
  /\ queue' = <<>> /\ direction' = "F" /\ sector' = 0
  /\ UNCHANGED <<add, pos, nsect, owned>>

\* External: the device is given another elevator, and this one is drained.
Switch ==
  /\ state = "up"
  /\ Ready
  /\ state' = "drain"
  /\ UNCHANGED <<queue, direction, sector, add, pos, nsect, owned>>

\* sstf_exit_queue, BUG_ON included.
ExitQueue ==
  /\ state = "drained"
  /\ state' = IF queue = <<>> THEN "off" ELSE "bug"
  /\ UNCHANGED <<queue, direction, sector, add, pos, nsect, owned>>
-----------------------------------------------------------------------------
(* sstf_dispatch. *)

\* The place that is dispatched, and the direction kept for the next call.
Choice ==
  LET last == Len(queue) IN
  IF last = 1 THEN [at |-> 1, dir |-> direction]
  ELSE IF direction = "B"
       THEN IF sector >= pos[queue[last]] THEN [at |-> last, dir |-> "B"]
                                          ELSE [at |-> 1, dir |-> "F"]
       ELSE IF sector >= pos[queue[1]] THEN [at |-> 1, dir |-> "F"]
                                       ELSE [at |-> last, dir |-> "B"]

\* Mutant: the request that is removed is not the one that is dispatched.
Dispatched_bug == /\ owned' = owned \ {queue[Choice.at]}
                  /\ queue' = RemoveAt(queue, 1)

\* list_del_init and elv_dispatch_add_tail: the request moves on.
Dispatched == /\ owned' = owned \ {queue[Choice.at]}
              /\ queue' = RemoveAt(queue, Choice.at)

sstf_dispatch ==
  LET rq == queue[Choice.at] IN
  /\ queue # <<>>
  /\ Dispatched
  /\ direction' = Choice.dir
  /\ sector' = nsect[rq] + pos[rq]
  /\ UNCHANGED <<state, add, pos, nsect>>

\* The block layer asks for a request.
Dispatch ==
  /\ state = "up"
  /\ Ready
  /\ sstf_dispatch

\* sstf_dispatch returns 0.
NothingLeft == queue = <<>>

\* External: elv_drain_elevator calls sstf_dispatch until it returns 0.
Drain ==
  /\ state = "drain"
  /\ ~NothingLeft
  /\ sstf_dispatch

DrainEnd ==
  /\ state = "drain"
  /\ NothingLeft
  /\ state' = "drained"
  /\ UNCHANGED <<queue, direction, sector, add, pos, nsect, owned>>
-----------------------------------------------------------------------------
(* sstf_add_request. *)

\* A request for n sectors at p.
Arrives(r, p, n) ==
  /\ r \notin owned
  /\ p + n <= Capacity
  /\ owned' = owned \cup {r}
  /\ pos' = [pos EXCEPT ![r] = p]
  /\ nsect' = [nsect EXCEPT ![r] = n]

AddFirst(r, p, n) ==
  /\ state = "up" /\ Ready
  /\ queue = <<>>
  /\ Arrives(r, p, n)
  /\ queue' = <<r>>
  /\ UNCHANGED <<state, direction, sector, add>>

AddStart(r, p, n) ==
  /\ state = "up" /\ Ready
  /\ queue # <<>>
  /\ Arrives(r, p, n)
  /\ add' = [rq |-> r, prev |-> Len(queue), next |-> 1]
  /\ UNCHANGED <<state, queue, direction, sector>>

\* What blk_rq_pos(next) can yield.  At the list head it reads beyond the end
\* of nd, where anything can be.
Positions(next) == IF next = 0 THEN 0 .. Capacity ELSE {pos[queue[next]]}

AddAdvance ==
  /\ ~Ready
  /\ \E p \in Positions(add.next) : p <= pos[add.rq]
  /\ add' = [add EXCEPT !.prev = Backward(@), !.next = Forward(@)]
  /\ UNCHANGED <<state, queue, direction, sector, pos, nsect, owned>>

\* Mutant: the new request takes the place of the one behind prev.
Inserted_bug(r, prev) == IF prev = Len(queue) THEN Append(queue, r)
                         ELSE ReplaceAt(queue, prev + 1, r)

\* list_add(&rq->queuelist, &prev->queuelist).
Inserted(r, prev) == InsertAt(queue, prev + 1, r)

AddInsert ==
  /\ ~Ready
  /\ \E p \in Positions(add.next) : p > pos[add.rq]
  /\ queue' = Inserted(add.rq, add.prev)
  /\ add' = NoAdd
  /\ UNCHANGED <<state, direction, sector, pos, nsect, owned>>
-----------------------------------------------------------------------------
(* Merges: the block layer asks for the request in front of or behind one  *)
(* (NULL at the ends) and merges the two if they touch on the disk.        *)

sstf_former_request(i) == IF Backward(i) = 0 THEN NoRequest
                                             ELSE queue[Backward(i)]
sstf_latter_request(i) == IF Forward(i) = 0 THEN NoRequest
                                            ELSE queue[Forward(i)]

\* sstf_merged_requests takes the request at place j off the list; its sectors
\* are the ones of request r from now on (external).
Merge(r, j) ==
  /\ pos[r] + nsect[r] = pos[queue[j]]
  /\ queue' = RemoveAt(queue, j)
  /\ owned' = owned \ {queue[j]}
  /\ nsect' = [nsect EXCEPT ![r] = @ + nsect[queue[j]]]
  /\ UNCHANGED <<state, direction, sector, add, pos>>

BackMerge(i) == /\ state = "up" /\ Ready
                /\ sstf_latter_request(i) # NoRequest
                /\ Merge(queue[i], Forward(i))

FrontMerge(i) == /\ state = "up" /\ Ready
                 /\ sstf_former_request(i) # NoRequest
                 /\ Merge(sstf_former_request(i), i)
-----------------------------------------------------------------------------
AddStep   == AddAdvance \/ AddInsert
DrainStep == Drain \/ DrainEnd \/ ExitQueue

Next ==
  \/ InitQueue \/ Switch \/ DrainStep \/ Dispatch \/ AddStep
  \/ \E r \in Requests, p \in 0 .. Capacity - 1, n \in 1 .. Capacity :
       AddFirst(r, p, n) \/ AddStart(r, p, n)
  \/ \E i \in 1 .. Len(queue) : BackMerge(i) \/ FrontMerge(i)

\* The steps of a call under queue_lock are taken without interruption, and
\* so is the draining of an elevator that is being replaced.
Spec == Init /\ [][Next]_vars /\ WF_vars(AddStep) /\ WF_vars(DrainStep)
-----------------------------------------------------------------------------
(* Properties. *)

TypeOK ==
  /\ state \in {"off", "up", "drain", "drained", "bug"}
  /\ queue \in Seq(Requests)
  /\ direction \in {"F", "B"}
  /\ sector \in 0 .. Capacity
  /\ add.rq \in Requests \cup {NoRequest}
  /\ add.prev \in 0 .. Len(queue) /\ add.next \in 0 .. Len(queue)
  /\ pos \in [Requests -> 0 .. Capacity]
  /\ nsect \in [Requests -> 0 .. Capacity]
  /\ owned \subseteq Requests

\* No request is lost or duplicated: the list holds, each once, exactly the
\* requests that were given to the elevator and neither dispatched nor merged,
\* but for the one being inserted, wherever the two pointers have run.
NoneLost ==
  /\ \A i, j \in 1 .. Len(queue) : queue[i] = queue[j] => i = j
  /\ ToSet(queue) = owned \ {add.rq}

\* An elevator that is drained or gone owes nobody a request: whatever was given
\* to it was dispatched or merged into one that was, so none is freed with nd.
HandedOver == state \in {"drained", "off"} => owned = {}

\* An elevator that is replaced hands over all its requests and is gone.
DrainEnds == (state = "drain") ~> (state = "off" /\ owned = {})

\* "iterating until correct position is found" (sstf-iosched.c:104): the loop
\* ends.
AddEnds == (add # NoAdd) ~> (add = NoAdd)

\* "insertion sort" (a2/writeup.tex:13): between calls the list is in order, one
\* way or the other.  The code fails it: prev starts at the last request and
\* moves away from next, so a request goes behind the last one whenever the
\* first one is larger.
Sorted ==
  Ready =>
    \/ \A i, j \in 1 .. Len(queue) : i < j => pos[queue[i]] <= pos[queue[j]]
    \/ \A i, j \in 1 .. Len(queue) : i < j => pos[queue[i]] >= pos[queue[j]]

\* "going up until it can't go up and then going down until it can't go down"
\* (a2/writeup.tex:16): on its way up the head jumps over no request, a dispatch
\* at or above nd->sector takes the lowest one waiting there.  The code fails
\* it: it looks at the two ends of a list that is not in order.
UpwardsInOrder ==
  [][sstf_dispatch =>
       LET waiting == {pos[queue[i]] : i \in 1 .. Len(queue)}
           at == pos[queue[Choice.at]]
       IN  at >= sector => \A p \in waiting : p >= sector => at <= p]_vars
=============================================================================
