---------------------------- MODULE OneToOneQueue ----------------------------
(***************************************************************************)
(* utils::OneToOneQueue, the lock-free ring buffer between any two threads *)
(* of the RU builder: one thread enqueues, one other thread dequeues.      *)
(*                                                                         *)
(* A step is one access to what the two threads share: the pointers (which *)
(* are volatile) and the slots of the container.  Each thread's accesses   *)
(* take effect in program order.                                           *)
(***************************************************************************)
EXTENDS Naturals, Sequences

CONSTANTS
  Elements,    \* what is enqueued
  Blank,       \* T(), what a free slot holds
  Capacities   \* the sizes resize is called with

ASSUME CapacitiesAssumption == Capacities \subseteq Nat

VARIABLES
  size,          \* size_: the number of slots, one more than the capacity
  container,
  readPointer,   \* written by the consumer only
  writePointer,  \* written by the producer only
  producer,      \* where the producer is in enq, and with which element
  consumer,      \* where the consumer is in deq, and what it read
  enqResult, deqResult

vars == << size, container, readPointer, writePointer, producer, consumer,
           enqResult, deqResult >>

Slots == 0..(size - 1)

TypeOK ==
  /\ size \in Nat \ {0} /\ size - 1 \in Capacities
  /\ container \in [Slots -> Elements \cup {Blank}]
  /\ readPointer \in Slots /\ writePointer \in Slots
  /\ producer \in [at : {"idle", "store", "publish"}, element : Elements \cup {Blank}]
  /\ consumer \in [at : {"idle", "load", "clear", "advance"}, element : Elements \cup {Blank}]
  /\ enqResult \in {"true", "false"}
  /\ deqResult \in Seq(Elements \cup {Blank})

\* (p + 1) % size_
NextSlot(p) == IF p + 1 = size THEN 0 ELSE p + 1

\* elements()
NbElements == IF writePointer < readPointer THEN writePointer + size - readPointer
              ELSE writePointer - readPointer

Init ==
  /\ size \in { n + 1 : n \in Capacities }
  /\ container = [s \in Slots |-> Blank]
  /\ readPointer = 0 /\ writePointer = 0
  /\ producer = [at |-> "idle", element |-> Blank]
  /\ consumer = [at |-> "idle", element |-> Blank]
  /\ enqResult = "true" /\ deqResult = << >>

\* resize, while no thread uses the queue.
Resize(n) ==
  /\ producer.at = "idle" /\ consumer.at = "idle"
  /\ readPointer = writePointer
  /\ size' = n + 1
  /\ container' = [s \in 0..n |-> Blank]
  /\ readPointer' = 0 /\ writePointer' = 0
  /\ UNCHANGED << producer, consumer, enqResult, deqResult >>

-----------------------------------------------------------------------------
\* Faulty variant: the slot before readPointer_ is not kept free.
EnqTest_NoFreeSlot(e) ==
  /\ producer.at = "idle"
  /\ producer' = [at |-> "store", element |-> e]
  /\ UNCHANGED << size, container, readPointer, writePointer, consumer, enqResult, deqResult >>

\* enq: is there a free slot?
EnqTest(e) ==
  /\ producer.at = "idle"
  /\ IF NextSlot(writePointer) = readPointer
     THEN enqResult' = "false" /\ UNCHANGED producer
     ELSE producer' = [at |-> "store", element |-> e] /\ UNCHANGED enqResult
  /\ UNCHANGED << size, container, readPointer, writePointer, consumer, deqResult >>

EnqStore ==
  /\ producer.at = "store"
  /\ container' = [container EXCEPT ![writePointer] = producer.element]
  /\ producer' = [producer EXCEPT !.at = "publish"]
  /\ UNCHANGED << size, readPointer, writePointer, consumer, enqResult, deqResult >>

EnqPublish ==
  /\ producer.at = "publish"
  /\ writePointer' = NextSlot(writePointer)
  /\ producer' = [at |-> "idle", element |-> Blank]
  /\ enqResult' = "true"
  /\ UNCHANGED << size, container, readPointer, consumer, deqResult >>

-----------------------------------------------------------------------------
\* Faulty variant: the last element is left in the queue.
DeqTest_LeaveOne ==
  /\ consumer.at = "idle"
  /\ IF NextSlot(readPointer) = writePointer
     THEN deqResult' = << >> /\ UNCHANGED consumer
     ELSE consumer' = [consumer EXCEPT !.at = "load"] /\ UNCHANGED deqResult
  /\ UNCHANGED << size, container, readPointer, writePointer, producer, enqResult >>

\* deq: is there an element?
DeqTest ==
  /\ consumer.at = "idle"
  /\ IF readPointer = writePointer
     THEN deqResult' = << >> /\ UNCHANGED consumer
     ELSE consumer' = [consumer EXCEPT !.at = "load"] /\ UNCHANGED deqResult
  /\ UNCHANGED << size, container, readPointer, writePointer, producer, enqResult >>

DeqLoad ==
  /\ consumer.at = "load"
  /\ consumer' = [at |-> "clear", element |-> container[readPointer]]
  /\ UNCHANGED << size, container, readPointer, writePointer, producer, enqResult, deqResult >>

DeqClear ==
  /\ consumer.at = "clear"
  /\ container' = [container EXCEPT ![readPointer] = Blank]
  /\ consumer' = [consumer EXCEPT !.at = "advance"]
  /\ UNCHANGED << size, readPointer, writePointer, producer, enqResult, deqResult >>

DeqAdvance ==
  /\ consumer.at = "advance"
  /\ readPointer' = NextSlot(readPointer)
  /\ deqResult' = << consumer.element >>
  /\ consumer' = [at |-> "idle", element |-> Blank]
  /\ UNCHANGED << size, container, writePointer, producer, enqResult >>

-----------------------------------------------------------------------------
Producer == EnqStore \/ EnqPublish \/ \E e \in Elements : EnqTest(e)
Consumer == DeqTest \/ DeqLoad \/ DeqClear \/ DeqAdvance

Next == Producer \/ Consumer \/ \E n \in Capacities : Resize(n)

Spec == Init /\ [][Next]_vars

-----------------------------------------------------------------------------
\* The i-th slot in use.
SlotAt(i) == IF readPointer + i - 1 < size THEN readPointer + i - 1
             ELSE readPointer + i - 1 - size

UsedSlots == { SlotAt(i) : i \in 1..NbElements }

\* The two threads never work on the same slot, although neither takes a lock:
\* the producer does not overwrite what the consumer still reads, and the
\* consumer does not clear what the producer just stored.
ThreadsApart ==
  producer.at # "idle" /\ consumer.at # "idle" => readPointer # writePointer

\* Every slot that is neither in use nor just filled is blank: deq hands the
\* element over, so the queue keeps no event and no message buffer alive.
FreeSlotsBlank ==
  \A s \in Slots \ UsedSlots :
    container[s] # Blank => s = writePointer /\ producer.at = "publish"

\* The abstract queue: the slots in use, oldest first; a consumer that has
\* cleared its slot but not yet moved the pointer still holds the oldest.
Queue ==
  [i \in 1..NbElements |->
     IF i = 1 /\ consumer.at = "advance" THEN consumer.element ELSE container[SlotAt(i)]]

FIFO == INSTANCE BoundedFIFO WITH queue <- Queue, capacity <- size - 1

\* "A lock-free queue which is threadsafe if there is only one producer and one
\* consumer": whatever the interleaving, it behaves as an atomic bounded FIFO.
ImplementsFIFO == FIFO!Spec
=============================================================================
