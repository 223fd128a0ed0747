------------------------- MODULE OneToOneQueue_proofs -------------------------
(***************************************************************************)
(* OneToOneQueue implements an atomic bounded FIFO, for every capacity and *)
(* every set of elements, resizes included.                                *)
(***************************************************************************)
EXTENDS OneToOneQueue, TLAPS

\* Why it works: a producer past its test keeps a free slot, which only it can
\* use up; a consumer past its test keeps an element, which only it can take.
ProducerHasSlot ==
  producer.at # "idle" => NextSlot(writePointer) # readPointer /\ producer.element \in Elements
Stored   == producer.at = "publish" => container[writePointer] = producer.element
ConsumerHasElement == consumer.at # "idle" => readPointer # writePointer
Loaded   == consumer.at = "clear" => consumer.element = container[readPointer]

QueueInv == TypeOK /\ ProducerHasSlot /\ Stored /\ ConsumerHasElement /\ Loaded

LEMMA NextSlotType ==
  ASSUME TypeOK, NEW p \in Slots
  PROVE  NextSlot(p) \in Slots
BY DEF TypeOK, Slots, NextSlot

LEMMA InitInv == Init => QueueInv
BY CapacitiesAssumption
   DEF Init, QueueInv, TypeOK, ProducerHasSlot, Stored, ConsumerHasElement, Loaded, Slots

LEMMA NextInv == QueueInv /\ [Next]_vars => QueueInv'
<1> SUFFICES ASSUME QueueInv, [Next]_vars PROVE QueueInv'
  OBVIOUS
<1> USE DEF QueueInv, TypeOK, ProducerHasSlot, Stored, ConsumerHasElement, Loaded, Slots
<1>1. ASSUME NEW e \in Elements, EnqTest(e) PROVE QueueInv'
  BY <1>1 DEF EnqTest, NextSlot
<1>2. CASE EnqStore
  BY <1>2 DEF EnqStore, NextSlot
<1>3. CASE EnqPublish
  BY <1>3 DEF EnqPublish, NextSlot
<1>4. CASE DeqTest
  BY <1>4 DEF DeqTest, NextSlot
<1>5. CASE DeqLoad
  BY <1>5 DEF DeqLoad, NextSlot
<1>6. CASE DeqClear
  BY <1>6 DEF DeqClear, NextSlot
<1>7. CASE DeqAdvance
  <2>1. deqResult' \in Seq(Elements \cup {Blank})
    BY <1>7 DEF DeqAdvance
  <2> QED
    BY <1>7, <2>1 DEF DeqAdvance, NextSlot
<1>8. ASSUME NEW n \in Capacities, Resize(n) PROVE QueueInv'
  BY <1>8, CapacitiesAssumption DEF Resize
<1>9. CASE UNCHANGED vars
  BY <1>9 DEF vars, NextSlot
<1> QED
  BY <1>1, <1>2, <1>3, <1>4, <1>5, <1>6, <1>7, <1>8, <1>9 DEF Next, Producer, Consumer

-----------------------------------------------------------------------------
(***************************************************************************)
(* The abstract queue.                                                     *)
(***************************************************************************)
\* The slots in use lie between the pointers: none of them is the write
\* pointer's, and only the oldest is the read pointer's.
SlotsBetween ==
  /\ NbElements \in 0..(size - 1)
  /\ NbElements = 0 <=> readPointer = writePointer
  /\ \A i \in 1..NbElements :
       /\ SlotAt(i) \in Slots /\ SlotAt(i) # writePointer
       /\ SlotAt(i) = readPointer <=> i = 1

QueueShape ==
  /\ Queue \in Seq(Elements \cup {Blank})
  /\ Len(Queue) = NbElements
  /\ Queue = << >> <=> readPointer = writePointer

LEMMA UsedSlotsBetween == TypeOK => SlotsBetween
BY DEF TypeOK, SlotsBetween, Slots, NbElements, SlotAt

LEMMA QueueIsSequence == TypeOK => QueueShape
<1> SUFFICES ASSUME TypeOK PROVE QueueShape
  OBVIOUS
<1>1. NbElements \in Nat /\ (NbElements = 0 <=> readPointer = writePointer)
  BY UsedSlotsBetween DEF SlotsBetween
<1>2. \A i \in 1..NbElements :
        (IF i = 1 /\ consumer.at = "advance" THEN consumer.element ELSE container[SlotAt(i)])
          \in Elements \cup {Blank}
  BY UsedSlotsBetween DEF TypeOK, SlotsBetween
<1>3. Queue \in [1..NbElements -> Elements \cup {Blank}]
  BY <1>2 DEF Queue
<1>4. Queue \in Seq(Elements \cup {Blank}) /\ Len(Queue) = NbElements
  BY <1>1, <1>3
<1> QED
  BY <1>1, <1>4 DEF QueueShape

LEMMA QueueIsSequenceNext == TypeOK' => QueueShape'
BY QueueIsSequence, PTL

LEMMA StoreKeepsQueue == QueueInv /\ QueueInv' /\ EnqStore => Queue' = Queue
<1> SUFFICES ASSUME QueueInv, QueueInv', EnqStore PROVE Queue' = Queue
  OBVIOUS
<1>1. NbElements' = NbElements /\ \A i \in 1..NbElements : SlotAt(i)' = SlotAt(i)
  BY DEF EnqStore, NbElements, SlotAt
<1>2. \A s \in Slots : s # writePointer => container'[s] = container[s]
  BY DEF EnqStore, QueueInv, TypeOK
<1>3. \A i \in 1..NbElements : container'[SlotAt(i)] = container[SlotAt(i)]
  BY <1>2, UsedSlotsBetween DEF SlotsBetween, QueueInv
<1> QED
  BY <1>1, <1>3 DEF Queue, EnqStore

LEMMA PublishEnqueues ==
  QueueInv /\ QueueInv' /\ EnqPublish =>
    Len(Queue) < size - 1 /\ Queue' = Append(Queue, producer.element)
<1> SUFFICES ASSUME QueueInv, QueueInv', EnqPublish
             PROVE  Len(Queue) < size - 1 /\ Queue' = Append(Queue, producer.element)
  OBVIOUS
<1>1. NbElements' = NbElements + 1 /\ NbElements < size - 1 /\ NbElements \in Nat
  BY DEF EnqPublish, QueueInv, TypeOK, Slots, NbElements, NextSlot, ProducerHasSlot
<1>2. \A i \in 1..(NbElements + 1) : SlotAt(i)' = SlotAt(i)
  BY DEF EnqPublish, SlotAt
<1>3. SlotAt(NbElements + 1) = writePointer
  BY DEF QueueInv, TypeOK, Slots, NbElements, SlotAt
<1>4. container[writePointer] = producer.element
  BY DEF EnqPublish, QueueInv, Stored
<1>5. NbElements = 0 => consumer.at # "advance"
  BY UsedSlotsBetween DEF SlotsBetween, QueueInv, ConsumerHasElement
<1>6. /\ Queue' \in Seq(Elements \cup {Blank}) /\ Len(Queue') = NbElements + 1
      /\ Queue \in Seq(Elements \cup {Blank}) /\ Len(Queue) = NbElements
  BY <1>1, QueueIsSequence, QueueIsSequenceNext DEF QueueShape, QueueInv
<1>7. Queue' = [i \in 1..(NbElements + 1) |->
                  IF i = 1 /\ consumer.at = "advance" THEN consumer.element
                  ELSE container[SlotAt(i)]]
  BY <1>1, <1>2 DEF Queue, EnqPublish
<1>8. \A i \in 1..NbElements : Queue'[i] = Queue[i]
  BY <1>1, <1>7 DEF Queue
<1>9. Queue'[NbElements + 1] = producer.element
  BY <1>1, <1>3, <1>4, <1>5, <1>7
<1> QED
  BY <1>1, <1>6, <1>8, <1>9

LEMMA ClearKeepsQueue == QueueInv /\ QueueInv' /\ (DeqLoad \/ DeqClear) => Queue' = Queue
<1> SUFFICES ASSUME QueueInv, QueueInv', DeqLoad \/ DeqClear PROVE Queue' = Queue
  OBVIOUS
<1>1. NbElements' = NbElements /\ \A i \in 1..NbElements : SlotAt(i)' = SlotAt(i)
  BY DEF DeqLoad, DeqClear, NbElements, SlotAt
<1>2. CASE DeqLoad
  BY <1>1, <1>2 DEF Queue, DeqLoad
<1>3. CASE DeqClear
  <2>1. \A s \in Slots : s # readPointer => container'[s] = container[s]
    BY <1>3 DEF DeqClear, QueueInv, TypeOK
  <2>2. \A i \in 1..NbElements : i # 1 => container'[SlotAt(i)] = container[SlotAt(i)]
    BY <2>1, UsedSlotsBetween DEF SlotsBetween, QueueInv
  <2>3. 1 \in 1..NbElements => consumer.element = container[SlotAt(1)]
    BY <1>3, UsedSlotsBetween DEF SlotsBetween, DeqClear, QueueInv, Loaded
  <2>4. /\ consumer.at = "clear" /\ consumer'.at = "advance"
        /\ consumer'.element = consumer.element
    BY <1>3 DEF DeqClear, QueueInv, TypeOK
  <2> QED
    BY <1>1, <2>2, <2>3, <2>4 DEF Queue
<1> QED
  BY <1>2, <1>3

LEMMA AdvanceDequeues ==
  QueueInv /\ QueueInv' /\ DeqAdvance =>
    Queue # << >> /\ Queue' = Tail(Queue) /\ consumer.element = Head(Queue)
<1> SUFFICES ASSUME QueueInv, QueueInv', DeqAdvance
             PROVE  Queue # << >> /\ Queue' = Tail(Queue) /\ consumer.element = Head(Queue)
  OBVIOUS
<1>1. NbElements' = NbElements - 1 /\ NbElements \in Nat \ {0}
  BY DEF DeqAdvance, QueueInv, TypeOK, Slots, NbElements, NextSlot, ConsumerHasElement
<1>2. \A i \in 1..(NbElements - 1) : SlotAt(i)' = SlotAt(i + 1)
  BY DEF DeqAdvance, QueueInv, TypeOK, Slots, NbElements, NextSlot, SlotAt, ConsumerHasElement
<1>3. /\ Queue' \in Seq(Elements \cup {Blank}) /\ Len(Queue') = NbElements - 1
      /\ Queue \in Seq(Elements \cup {Blank}) /\ Len(Queue) = NbElements
  BY <1>1, QueueIsSequence, QueueIsSequenceNext DEF QueueShape, QueueInv
<1>4. \A i \in 1..(NbElements - 1) : Queue'[i] = container[SlotAt(i + 1)]
  BY <1>1, <1>2 DEF Queue, DeqAdvance
<1>5. \A i \in 1..(NbElements - 1) : Queue[i + 1] = container[SlotAt(i + 1)]
  BY <1>1 DEF Queue
<1>6. Queue[1] = consumer.element
  BY <1>1 DEF Queue, DeqAdvance
<1>7. Tail(Queue) \in Seq(Elements \cup {Blank}) /\ Len(Tail(Queue)) = NbElements - 1
  BY <1>1, <1>3
<1>8. \A i \in 1..(NbElements - 1) : Tail(Queue)[i] = Queue[i + 1]
  BY <1>1, <1>3
<1>9. \A i \in 1..(NbElements - 1) : Queue'[i] = Tail(Queue)[i]
  BY <1>4, <1>5, <1>8
<1>10. Queue' = Tail(Queue)
  BY <1>1, <1>3, <1>7, <1>9
<1> QED
  BY <1>1, <1>3, <1>6, <1>10

-----------------------------------------------------------------------------
(***************************************************************************)
(* Every step is a step of the bounded FIFO, or one it does not see.       *)
(***************************************************************************)
LEMMA InitImplements == Init => FIFO!Init
<1> SUFFICES ASSUME Init PROVE FIFO!Init
  OBVIOUS
<1>1. QueueInv /\ NbElements = 0
  BY InitInv DEF Init, NbElements
<1>2. Queue = << >>
  BY <1>1, QueueIsSequence DEF QueueShape, QueueInv
<1>3. size - 1 \in Capacities
  BY <1>1 DEF QueueInv, TypeOK
<1> QED
  BY <1>2, <1>3 DEF Init, FIFO!Init

LEMMA NextImplements ==
  QueueInv /\ QueueInv' /\ [Next]_vars => [FIFO!Next]_<< Queue, size - 1, enqResult, deqResult >>
<1> DEFINE Step == [FIFO!Next]_<< Queue, size - 1, enqResult, deqResult >>
<1> SUFFICES ASSUME QueueInv, QueueInv', [Next]_vars PROVE Step
  OBVIOUS
<1>1. ASSUME NEW e \in Elements, EnqTest(e) PROVE Step
  <2>1. Queue' = Queue
    BY <1>1 DEF EnqTest, Queue, NbElements, SlotAt
  <2>2. CASE NextSlot(writePointer) = readPointer
    <3>1. Len(Queue) = size - 1
      BY <2>2, QueueIsSequence DEF QueueShape, QueueInv, TypeOK, Slots, NextSlot, NbElements
    <3>2. FIFO!EnqFull
      BY <1>1, <2>1, <2>2, <3>1 DEF EnqTest, FIFO!EnqFull
    <3> QED
      BY <3>2 DEF FIFO!Next
  <2>3. CASE NextSlot(writePointer) # readPointer
    BY <1>1, <2>1, <2>3 DEF EnqTest
  <2> QED
    BY <2>2, <2>3
<1>2. CASE EnqStore
  BY <1>2, StoreKeepsQueue DEF EnqStore
<1>3. CASE EnqPublish
  <2>1. producer.element \in Elements
    BY <1>3 DEF EnqPublish, QueueInv, ProducerHasSlot
  <2>2. FIFO!Enq(producer.element)
    BY <1>3, PublishEnqueues DEF EnqPublish, FIFO!Enq
  <2> QED
    BY <2>1, <2>2 DEF FIFO!Next
<1>4. CASE DeqTest
  <2>1. Queue' = Queue
    <3>1. consumer.at # "advance" /\ consumer'.at # "advance"
      BY <1>4 DEF DeqTest, QueueInv, TypeOK
    <3>2. NbElements' = NbElements /\ UNCHANGED container /\ \A i \in Nat : SlotAt(i)' = SlotAt(i)
      BY <1>4 DEF DeqTest, NbElements, SlotAt
    <3>3. \A i \in 1..NbElements : i \in Nat
      OBVIOUS
    <3> QED
      BY <3>1, <3>2, <3>3 DEF Queue
  <2>2. CASE readPointer = writePointer
    <3>1. Queue = << >>
      BY <2>2, QueueIsSequence, UsedSlotsBetween DEF SlotsBetween, QueueShape, QueueInv
    <3>2. FIFO!DeqEmpty
      BY <1>4, <2>1, <2>2, <3>1 DEF DeqTest, FIFO!DeqEmpty
    <3> QED
      BY <3>2 DEF FIFO!Next
  <2>3. CASE readPointer # writePointer
    BY <1>4, <2>1, <2>3 DEF DeqTest
  <2> QED
    BY <2>2, <2>3
<1>5. CASE DeqLoad \/ DeqClear
  BY <1>5, ClearKeepsQueue DEF DeqLoad, DeqClear
<1>6. CASE DeqAdvance
  <2>1. FIFO!Deq
    BY <1>6, AdvanceDequeues DEF DeqAdvance, FIFO!Deq
  <2> QED
    BY <2>1 DEF FIFO!Next
<1>7. ASSUME NEW n \in Capacities, Resize(n) PROVE Step
  <2>1. Queue = << >>
    BY <1>7, QueueIsSequence, UsedSlotsBetween DEF SlotsBetween, QueueShape, QueueInv, Resize
  <2>2. Queue' = << >>
    BY <1>7, QueueIsSequenceNext, UsedSlotsBetween DEF SlotsBetween, QueueShape, QueueInv, Resize
  <2>3. n \in Nat /\ (size - 1)' = n
    BY <1>7, CapacitiesAssumption DEF Resize
  <2>4. FIFO!Resize(n)
    BY <1>7, <2>1, <2>2, <2>3 DEF Resize, FIFO!Resize
  <2> QED
    BY <2>4 DEF FIFO!Next
<1>8. CASE UNCHANGED vars
  BY <1>8 DEF vars, Queue, NbElements, SlotAt
<1> QED
  BY <1>1, <1>2, <1>3, <1>4, <1>5, <1>6, <1>7, <1>8 DEF Next, Producer, Consumer

\* The comment of the class, for every capacity: with one producer and one
\* consumer the lock-free ring buffer behaves as an atomic bounded FIFO.
THEOREM QueueImplementsFIFO == Spec => ImplementsFIFO
<1>1. Init => QueueInv
  BY InitInv
<1>2. QueueInv /\ [Next]_vars => QueueInv'
  BY NextInv
<1> QED
  BY <1>1, <1>2, InitImplements, NextImplements, PTL DEF Spec, ImplementsFIFO, FIFO!Spec, FIFO!vars

\* The producer never stores into a slot the consumer is working on.
THEOREM ThreadsStayApart == Spec => []ThreadsApart
<1>1. QueueInv => ThreadsApart
  BY DEF QueueInv, ConsumerHasElement, ThreadsApart
<1> QED
  BY <1>1, InitInv, NextInv, PTL DEF Spec
=============================================================================
