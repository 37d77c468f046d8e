--------------------------- MODULE ProducerProof ---------------------------
(***************************************************************************)
(* Safety of the producer and the consumer for every buffer size.  The     *)
(* invariants that TLC checks are not inductive: that the buffer is intact *)
(* depends on who may write to it, so IInv adds who holds the mutex, and   *)
(* that the producer, once past its test, has room and an item to add.     *)
(***************************************************************************)
EXTENDS Producer, TLAPS

MutexExact ==
  /\ mutex = "producer" <=> ppc \in {"check", "grow", "unlock"}
  /\ mutex = "consumer" <=> cpc \in {"remove", "signal"}

RoomToGrow ==
  ppc = "grow" => last_item + 1 \in Slots /\ items[last_item + 1] \in Items

IInv == /\ TypeOK /\ BufferExact /\ TopThere /\ ShownThere
        /\ MutexExact /\ RoomToGrow
-----------------------------------------------------------------------------
\* main leaves the buffer empty and both threads unstarted.
LEMMA InitIInv == Init => IInv
BY BufAssumption
DEF Init, IInv, TypeOK, BufferExact, TopThere, ShownThere, MutexExact, RoomToGrow, Slots

\* What the producer does, alone in the buffer while it holds the mutex.
LEMMA ProducingIInv == IInv /\ Producing => IInv'
<1> SUFFICES ASSUME IInv, Producing PROVE IInv'
  OBVIOUS
<1> USE BufAssumption, ItemsAssumption DEF IInv, TypeOK
<1>1. CASE ProducerLock
  BY <1>1 DEF ProducerLock, buffer, BufferExact, TopThere, ShownThere, MutexExact,
              RoomToGrow
<1>2. CASE ProducerWait
  BY <1>2 DEF ProducerWait, buffer, BufferExact, TopThere, ShownThere, MutexExact,
              RoomToGrow
<1>3. CASE ProducerWrite
  <2>1. last_item + 1 \in Slots
    BY <1>3 DEF ProducerWrite, Full, Slots
  <2>2. PICK x \in Items : items' = [items EXCEPT ![last_item + 1] = x]
    BY <1>3 DEF ProducerWrite
  <2>3. TypeOK' /\ TopThere' /\ ShownThere' /\ MutexExact'
    BY <1>3, <2>1, <2>2 DEF ProducerWrite, TopThere, ShownThere, MutexExact
  <2>4. RoomToGrow'
    BY <1>3, <2>1, <2>2 DEF ProducerWrite, RoomToGrow
  <2>5. BufferExact'
    BY <1>3, <2>1, <2>2 DEF ProducerWrite, BufferExact, Slots
  <2> QED BY <2>3, <2>4, <2>5
<1>4. CASE ProducerGrow
  <2>1. TypeOK' /\ TopThere' /\ ShownThere' /\ MutexExact' /\ RoomToGrow'
    BY <1>4 DEF ProducerGrow, TopThere, ShownThere, MutexExact, RoomToGrow, Slots
  <2>2. BufferExact'
    BY <1>4 DEF ProducerGrow, BufferExact, RoomToGrow, Slots
  <2> QED BY <2>1, <2>2
<1>5. CASE ProducerUnlock
  BY <1>5 DEF ProducerUnlock, buffer, BufferExact, TopThere, ShownThere, MutexExact,
              RoomToGrow
<1> QED BY <1>1, <1>2, <1>3, <1>4, <1>5 DEF Producing

\* What the consumer does: only its removal of the top item, with the mutex
\* held, disturbs the buffer.
LEMMA ConsumingIInv == IInv /\ Consuming => IInv'
<1> SUFFICES ASSUME IInv, Consuming PROVE IInv'
  OBVIOUS
<1> USE BufAssumption, ItemsAssumption DEF IInv, TypeOK
<1>1. CASE ConsumerSees
  BY <1>1 DEF ConsumerSees, buffer, BufferExact, TopThere, ShownThere, MutexExact,
              RoomToGrow
<1>2. CASE ConsumerPrint
  <2>1. last_item \in Slots /\ items[last_item] \in Items
    BY <1>2 DEF ConsumerPrint, TopThere, BufferExact, Slots
  <2>2. ShownThere'
    BY <1>2, <2>1 DEF ConsumerPrint, buffer, ShownThere, Slots
  <2> QED BY <1>2, <2>1, <2>2 DEF ConsumerPrint, buffer, BufferExact,
             TopThere, MutexExact, RoomToGrow
<1>3. CASE ConsumerLock
  BY <1>3 DEF ConsumerLock, buffer, BufferExact, TopThere, ShownThere, MutexExact,
              RoomToGrow
<1>4. CASE ConsumerRemove
  <2>1. last_item \in Slots /\ ppc # "grow"
    BY <1>4 DEF ConsumerRemove, TopThere, ShownThere, MutexExact, Slots
  <2>2. TypeOK' /\ TopThere' /\ ShownThere' /\ MutexExact' /\ RoomToGrow'
    BY <1>4, <2>1 DEF ConsumerRemove, TopThere, ShownThere, MutexExact, RoomToGrow, Slots
  <2>3. BufferExact'
    BY <1>4, <2>1 DEF ConsumerRemove, BufferExact, Slots
  <2> QED BY <2>2, <2>3
<1>5. CASE ConsumerSignal
  BY <1>5 DEF ConsumerSignal, buffer, BufferExact, TopThere, ShownThere, MutexExact,
              RoomToGrow
<1> QED BY <1>1, <1>2, <1>3, <1>4, <1>5 DEF Consuming

\* Every step keeps the invariant.
LEMMA NextIInv == IInv /\ [Next]_vars => IInv'
<1> SUFFICES ASSUME IInv, [Next]_vars PROVE IInv'
  OBVIOUS
<1>1. CASE UNCHANGED vars \/ Main \/ SpuriousWakeup
  BY <1>1 DEF vars, buffer, Main, StartConsumer, StartProducer, SpuriousWakeup,
     IInv, TypeOK, BufferExact, TopThere, ShownThere, MutexExact, RoomToGrow
<1> QED BY <1>1, ProducingIInv, ConsumingIInv DEF Next

\* The invariant holds throughout.
LEMMA Inductive == Spec => []IInv
BY InitIInv, NextIInv, PTL DEF Spec
-----------------------------------------------------------------------------
\* Type correctness, for every buffer size: last_item never leaves the buffer,
\* so no access does.
THEOREM TypeCorrect == Spec => []TypeOK
<1>1. IInv => TypeOK
  BY DEF IInv
<1> QED BY <1>1, Inductive, PTL

\* Exactly the cells up to last_item hold items: no cell in use is cleared and
\* none is left filled, for every buffer size.
THEOREM BufferKept == Spec => []BufferExact
<1>1. IInv => BufferExact
  BY DEF IInv
<1> QED BY <1>1, Inductive, PTL

\* What the consumer saw without the mutex, that there is a top item, is still
\* true when it prints and when it removes.
THEOREM PollSound == Spec => []TopThere
<1>1. IInv => TopThere
  BY DEF IInv
<1> QED BY <1>1, Inductive, PTL

\* What the consumer prints is an item, and the producer never overwrites it
\* before the consumer holds the mutex.
THEOREM ShownKept == Spec => []ShownThere
<1>1. IInv => ShownThere
  BY DEF IInv
<1> QED BY <1>1, Inductive, PTL
=============================================================================
