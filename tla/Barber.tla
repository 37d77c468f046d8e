------------------------------- MODULE Barber -------------------------------
(***************************************************************************)
(* The sleeping barber of recitations/concurrency4.c.  The count of        *)
(* customers, current, is changed by customers under queue_mutex and by    *)
(* the barber without it; sleeping is set under sleep_mutex and read       *)
(* without it.  Every access to either is a step of its own, and           *)
(* current++ and current-- are a load and a store.                         *)
(***************************************************************************)
EXTENDS Integers

CONSTANTS Customers,   \* the threads that customer_thread_func creates: five
          SEATS,       \* 4 in the code
          BELOW_ZERO   \* bound: how far below zero current is followed

Nobody == "nobody"

VARIABLES current, sleeping,
          queue_mutex,   \* who holds it
          bpc, breg,     \* where the barber stands, what it loaded
          cpc, creg      \* the same for every customer
vars == <<current, sleeping, queue_mutex, bpc, breg, cpc, creg>>
barber == <<bpc, breg>>

Init ==
  /\ current = 0 /\ sleeping = 0
  /\ queue_mutex = Nobody
  /\ bpc = "test" /\ breg = 0
  /\ cpc = [c \in Customers |-> "new"] /\ creg = [c \in Customers |-> 0]

To(c, label) == cpc' = [cpc EXCEPT ![c] = label]
-----------------------------------------------------------------------------
(* barber_shop. *)

Barber(from, to) == bpc = from /\ bpc' = to

BarberTest ==
  /\ bpc = "test"
  /\ bpc' = IF current = 0 THEN "doze" ELSE "cut"
  /\ UNCHANGED <<current, sleeping, queue_mutex, breg, cpc, creg>>

\* sleeping = 1; nobody else takes sleep_mutex, so it never blocks.
BarberDoze ==
  /\ Barber("doze", "lie")
  /\ sleeping' = 1
  /\ UNCHANGED <<current, queue_mutex, breg, cpc, creg>>

\* pthread_cond_wait: from here on, and only from here, a signal arrives.
BarberSleep ==
  /\ Barber("lie", "asleep")
  /\ UNCHANGED <<current, sleeping, queue_mutex, breg, cpc, creg>>

BarberWakes ==
  /\ Barber("woken", "test")
  /\ sleeping' = 0
  /\ UNCHANGED <<current, queue_mutex, breg, cpc, creg>>

\* pthread_cond_wait may also return without a signal.
BarberSpurious ==
  /\ Barber("asleep", "woken")
  /\ UNCHANGED <<current, sleeping, queue_mutex, breg, cpc, creg>>

BarberLoad ==
  /\ Barber("cut", "store")
  /\ breg' = current
  /\ UNCHANGED <<current, sleeping, queue_mutex, cpc, creg>>

BarberStore ==
  /\ Barber("store", "signal")
  /\ current' = IF breg > -BELOW_ZERO THEN breg - 1 ELSE breg
  /\ breg' = 0
  /\ UNCHANGED <<sleeping, queue_mutex, cpc, creg>>

\* pthread_cond_signal wakes one of the customers who wait, if there is one.
BarberSignal ==
  /\ Barber("signal", "test")
  /\ \/ \E c \in Customers : cpc[c] = "chair" /\ To(c, "new")
     \/ (\A c \in Customers : cpc[c] # "chair") /\ UNCHANGED cpc
  /\ UNCHANGED <<current, sleeping, queue_mutex, breg, creg>>
-----------------------------------------------------------------------------
(* waitingRoom and checkQueue; a customer comes back for ever. *)

CustomerLock(c) ==
  /\ cpc[c] = "new"
  /\ queue_mutex = Nobody
  /\ queue_mutex' = c
  /\ To(c, "load")
  /\ UNCHANGED <<current, sleeping, barber, creg>>

\* current++ and current-- (a customer that found no chair).
CustomerLoad(c) ==
  /\ cpc[c] \in {"load", "unload"}
  /\ creg' = [creg EXCEPT ![c] = current]
  /\ To(c, IF cpc[c] = "load" THEN "store" ELSE "unstore")
  /\ UNCHANGED <<current, sleeping, queue_mutex, barber>>

CustomerStore(c) ==
  /\ cpc[c] = "store"
  /\ current' = creg[c] + 1
  /\ creg' = [creg EXCEPT ![c] = 0]
  /\ To(c, "room")
  /\ UNCHANGED <<sleeping, queue_mutex, barber>>

\* if (current < seats); otherwise current is looked at again.
CustomerRoom(c) ==
  /\ cpc[c] = "room"
  /\ To(c, IF current < SEATS THEN "look" ELSE "full")
  /\ UNCHANGED <<current, sleeping, queue_mutex, barber, creg>>

\* if (sleeping == 1).
CustomerLook(c) ==
  /\ cpc[c] = "look"
  /\ To(c, IF sleeping = 1 THEN "wake" ELSE "unlock")
  /\ UNCHANGED <<current, sleeping, queue_mutex, barber, creg>>

\* The signal is lost on a barber who does not wait yet.
CustomerWake(c) ==
  /\ cpc[c] = "wake"
  /\ bpc' = IF bpc = "asleep" THEN "woken" ELSE bpc
  /\ To(c, "unlock")
  /\ UNCHANGED <<current, sleeping, queue_mutex, breg, creg>>

CustomerUnlock(c) ==
  /\ cpc[c] = "unlock"
  /\ queue_mutex' = Nobody
  /\ To(c, "sit")
  /\ UNCHANGED <<current, sleeping, barber, creg>>

\* wait_mutex and pthread_cond_wait: only now can the barber signal this one.
CustomerSit(c) ==
  /\ cpc[c] = "sit"
  /\ To(c, "chair")
  /\ UNCHANGED <<current, sleeping, queue_mutex, barber, creg>>

CustomerSpurious(c) ==
  /\ cpc[c] = "chair"
  /\ To(c, "new")
  /\ UNCHANGED <<current, sleeping, queue_mutex, barber, creg>>

\* if (current >= seats); if that has changed, checkQueue returns with
\* queue_mutex held.
CustomerFull(c) ==
  /\ cpc[c] = "full"
  /\ To(c, IF current >= SEATS THEN "unload" ELSE "new")
  /\ UNCHANGED <<current, sleeping, queue_mutex, barber, creg>>

CustomerLeave(c) ==
  /\ cpc[c] = "unstore"
  /\ current' = creg[c] - 1
  /\ creg' = [creg EXCEPT ![c] = 0]
  /\ queue_mutex' = Nobody
  /\ To(c, "new")
  /\ UNCHANGED <<sleeping, barber>>
-----------------------------------------------------------------------------
BarberStep == \/ BarberTest \/ BarberDoze \/ BarberSleep \/ BarberWakes
              \/ BarberLoad \/ BarberStore \/ BarberSignal
Customer(c) == \/ CustomerLock(c) \/ CustomerLoad(c) \/ CustomerStore(c)
               \/ CustomerRoom(c) \/ CustomerLook(c) \/ CustomerWake(c)
               \/ CustomerUnlock(c) \/ CustomerSit(c)
               \/ CustomerFull(c) \/ CustomerLeave(c)

Next == \/ BarberStep \/ BarberSpurious
        \/ \E c \in Customers : Customer(c) \/ CustomerSpurious(c)

\* Threads run and sleeps end; wake-ups without a signal cannot be relied on.
Spec == /\ Init /\ [][Next]_vars
        /\ WF_vars(BarberStep) /\ \A c \in Customers : WF_vars(Customer(c))
-----------------------------------------------------------------------------
(* Properties. *)

\* "No customers, barber is sleeping" (concurrency4.c:100) and "Barber was
\* sleeping, customer wakes him up." (138): a customer who waits in a chair
\* does not find the barber asleep for good.
BarberServes ==
  \A c \in Customers : (cpc[c] = "chair") ~> (bpc = "cut" \/ cpc[c] # "chair")
=============================================================================
