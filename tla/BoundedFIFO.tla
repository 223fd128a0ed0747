----------------------------- MODULE BoundedFIFO -----------------------------
(***************************************************************************)
(* What OneToOneQueue promises: a bounded first-in first-out queue whose   *)
(* operations are atomic.  An operation that cannot be done says so and    *)
(* changes nothing.                                                        *)
(***************************************************************************)
EXTENDS Naturals, Sequences

CONSTANTS
  Elements,   \* what is enqueued
  Capacities  \* the sizes the queue can be resized to

VARIABLES
  queue,
  capacity,
  enqResult,  \* what the last enq returned
  deqResult   \* what the last deq returned: << >>: nothing, <<e>>: e

vars == << queue, capacity, enqResult, deqResult >>

Init ==
  /\ queue = << >>
  /\ capacity \in Capacities
  /\ enqResult = "true" /\ deqResult = << >>

\* An enq that returns true.
Enq(e) ==
  /\ Len(queue) < capacity
  /\ queue' = Append(queue, e)
  /\ enqResult' = "true"
  /\ UNCHANGED << capacity, deqResult >>

\* An enq that returns false: only a full queue refuses an element.
EnqFull ==
  /\ Len(queue) = capacity
  /\ enqResult' = "false"
  /\ UNCHANGED << queue, capacity, deqResult >>

\* A deq that returns true.
Deq ==
  /\ queue # << >>
  /\ queue' = Tail(queue)
  /\ deqResult' = << Head(queue) >>
  /\ UNCHANGED << capacity, enqResult >>

\* A deq that returns false: only an empty queue gives nothing.
DeqEmpty ==
  /\ queue = << >>
  /\ deqResult' = << >>
  /\ UNCHANGED << queue, capacity, enqResult >>

Resize(n) ==
  /\ queue = << >>
  /\ capacity' = n
  /\ UNCHANGED << queue, enqResult, deqResult >>

Next ==
  \/ \E e \in Elements : Enq(e)
  \/ EnqFull \/ Deq \/ DeqEmpty
  \/ \E n \in Capacities : Resize(n)

Spec == Init /\ [][Next]_vars
=============================================================================
