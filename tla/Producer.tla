------------------------------ MODULE Producer ------------------------------
(***************************************************************************)
(* The producer and consumer of assignments/a1/producer.c: a stack of      *)
(* BUF items, a mutex, and the condition variable prod_cond on which the   *)
(* producer waits while the stack is full.  The consumer polls last_item   *)
(* and prints the top item without the mutex, and takes the mutex only to  *)
(* remove the top.  main starts one consumer and one producer and waits    *)
(* for them; as they never end, the other threads are never started.       *)
(***************************************************************************)
EXTENDS Integers

CONSTANTS BUF,     \* 32 in the code
          Items    \* what produce_item can return; a cleared cell is NoItem

NoItem == 0

ASSUME BufAssumption   == BUF \in Nat \ {0}
ASSUME ItemsAssumption == NoItem \notin Items

Slots == 0 .. BUF - 1

VARIABLES items, last_item,   \* the buffer
          mutex,              \* who holds buffer.lock
          ppc, cpc,           \* where the producer and the consumer stand
          shown               \* the item the consumer last printed as consumed
buffer == <<items, last_item>>
vars == <<items, last_item, mutex, ppc, cpc, shown>>

Init ==
  /\ items = [s \in Slots |-> NoItem]
  /\ last_item = -1
  /\ mutex = "none"
  /\ ppc = "new" /\ cpc = "new"
  /\ shown = NoItem

-----------------------------------------------------------------------------
(* main: the consumer first, then the producer, then pthread_join for ever. *)

StartConsumer ==
  /\ cpc = "new"
  /\ cpc' = "poll"
  /\ UNCHANGED <<buffer, mutex, ppc, shown>>

StartProducer ==
  /\ cpc # "new"
  /\ ppc = "new"
  /\ ppc' = "sleep"
  /\ UNCHANGED <<buffer, mutex, cpc, shown>>
-----------------------------------------------------------------------------
(* The producer. *)

\* pthread_mutex_lock, after sleeping or on the way out of pthread_cond_wait.
ProducerLock ==
  /\ ppc \in {"sleep", "woken"}
  /\ mutex = "none"
  /\ mutex' = "producer"
  /\ ppc' = "check"
  /\ UNCHANGED <<buffer, cpc, shown>>

\* Mutant: one more than the buffer has room for.
Full_bug == last_item = BUF

Full == last_item = BUF - 1

\* Mutant: the loop spins with the mutex held.
ProducerWait_bug ==
  /\ ppc = "check"
  /\ Full
  /\ UNCHANGED vars

\* pthread_cond_wait gives up the mutex and waits in one step.
ProducerWait ==
  /\ ppc = "check"
  /\ Full
  /\ mutex' = "none"
  /\ ppc' = "wait"
  /\ UNCHANGED <<buffer, cpc, shown>>

\* POSIX lets pthread_cond_wait return without a signal.
SpuriousWakeup ==
  /\ ppc = "wait"
  /\ ppc' = "woken"
  /\ UNCHANGED <<buffer, mutex, cpc, shown>>

\* Mutant: the last cell is written again.
ProducerWrite_bug ==
  /\ ppc = "check"
  /\ ~Full
  /\ \E x \in Items :
       items' = [items EXCEPT ![IF last_item = -1 THEN 0 ELSE last_item] = x]
  /\ ppc' = "grow"
  /\ UNCHANGED <<last_item, mutex, cpc, shown>>

\* The new item is stored behind the last one before last_item says so: the
\* consumer, who does not take the mutex to look, sees the two steps.
ProducerWrite ==
  /\ ppc = "check"
  /\ ~Full
  /\ \E x \in Items : items' = [items EXCEPT ![last_item + 1] = x]
  /\ ppc' = "grow"
  /\ UNCHANGED <<last_item, mutex, cpc, shown>>

ProducerGrow ==
  /\ ppc = "grow"
  /\ last_item' = last_item + 1
  /\ ppc' = "unlock"
  /\ UNCHANGED <<items, mutex, cpc, shown>>

ProducerUnlock ==
  /\ ppc = "unlock"
  /\ mutex' = "none"
  /\ ppc' = "sleep"
  /\ UNCHANGED <<buffer, cpc, shown>>
-----------------------------------------------------------------------------
(* The consumer. *)

\* Mutant: an off-by-one in the test.
ConsumerSees_bug ==
  /\ cpc = "poll"
  /\ last_item >= -1
  /\ cpc' = "sleep"
  /\ UNCHANGED <<buffer, mutex, ppc, shown>>

\* if (buffer.last_item > -1), without the mutex; otherwise it polls again.
ConsumerSees ==
  /\ cpc = "poll"
  /\ last_item > -1
  /\ cpc' = "sleep"
  /\ UNCHANGED <<buffer, mutex, ppc, shown>>

\* After its sleep it prints the top item as consumed, still without the mutex.
ConsumerPrint ==
  /\ cpc = "sleep"
  /\ shown' = items[last_item]
  /\ cpc' = "lock"
  /\ UNCHANGED <<buffer, mutex, ppc>>

\* Only then it locks.
ConsumerLock ==
  /\ cpc = "lock"
  /\ mutex = "none"
  /\ mutex' = "consumer"
  /\ cpc' = "remove"
  /\ UNCHANGED <<buffer, ppc, shown>>

\* Whatever is on top by now is cleared and last_item decremented; the producer
\* cannot look in between.
ConsumerRemove ==
  /\ cpc = "remove"
  /\ items' = [items EXCEPT ![last_item] = NoItem]
  /\ last_item' = last_item - 1
  /\ cpc' = "signal"
  /\ UNCHANGED <<mutex, ppc, shown>>

\* Mutant: the signal is forgotten.
ConsumerSignal_bug ==
  /\ cpc = "signal"
  /\ mutex' = "none"
  /\ cpc' = "poll"
  /\ UNCHANGED <<buffer, ppc, shown>>

\* pthread_cond_signal wakes a waiting producer, and is lost if none waits;
\* then the mutex is released.
ConsumerSignal ==
  /\ cpc = "signal"
  /\ ppc' = IF ppc = "wait" THEN "woken" ELSE ppc
  /\ mutex' = "none"
  /\ cpc' = "poll"
  /\ UNCHANGED <<buffer, shown>>
-----------------------------------------------------------------------------
Main     == StartConsumer \/ StartProducer
Producing == \/ ProducerLock \/ ProducerWait \/ ProducerWrite \/ ProducerGrow
             \/ ProducerUnlock
Consuming == \/ ConsumerSees \/ ConsumerPrint \/ ConsumerLock
             \/ ConsumerRemove \/ ConsumerSignal

Next == Main \/ Producing \/ SpuriousWakeup \/ Consuming

\* Threads that can run do run, sleep() ends, and a mutex that stays free is
\* eventually obtained; nothing is assumed about who obtains a contended one.
\* Spurious wake-ups are rare: they do not go on for ever.
Spec == /\ Init /\ [][Next]_vars
        /\ WF_vars(Main) /\ WF_vars(Producing) /\ WF_vars(Consuming)
        /\ <>[][~SpuriousWakeup]_vars
-----------------------------------------------------------------------------
(* Properties. *)

TypeOK ==
  /\ items \in [Slots -> Items \cup {NoItem}]
  /\ last_item \in -1 .. BUF - 1
  /\ mutex \in {"none", "producer", "consumer"}
  /\ ppc \in {"new", "sleep", "check", "wait", "woken", "grow", "unlock"}
  /\ cpc \in {"new", "poll", "sleep", "lock", "remove", "signal"}
  /\ shown \in Items \cup {NoItem}

\* The cells up to last_item hold items and the ones above are clear, but for
\* the one a producer is just adding: no cell in use is cleared and none is
\* left filled, although the consumer reads last_item before it takes the
\* mutex.  Which item leaves the buffer is another question: ConsumedRemoved.
BufferExact ==
  \A s \in Slots :
    IF s <= last_item THEN items[s] \in Items
    ELSE items[s] = NoItem \/ (ppc = "grow" /\ s = last_item + 1)

\* Whenever the consumer is about to print or to remove the top item there is
\* one: what it saw before it slept still holds, so it never takes from an
\* empty buffer.
TopThere == cpc \in {"sleep", "lock", "remove"} => last_item >= 0

\* What the consumer printed as consumed is an item, and still in the buffer
\* when the consumer comes to remove one: it printed no cleared cell, and
\* whatever the producer did meanwhile overwrote nothing.
ShownThere ==
  cpc \in {"lock", "remove"} =>
    /\ shown \in Items
    /\ \E s \in 0 .. last_item : items[s] = shown

\* The item that is printed as consumed is the one that is then removed.  The
\* code fails it: an item pushed between the print and the lock is removed in
\* its place, never consumed, and the printed one is consumed a second time.
ConsumedRemoved == cpc = "remove" => items[last_item] = shown

\* A producer that waits for room gets to add its item: no wake-up is lost.
ProducerServed == (ppc = "wait") ~> (ppc = "grow")

\* An item in the buffer makes the consumer remove one.
ConsumerServed == (last_item >= 0) ~> (cpc = "signal")
=============================================================================
