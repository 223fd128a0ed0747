----------------------- MODULE OneToOneQueueCollection -----------------------
(***************************************************************************)
(* A collection of OneToOneQueues, one for each index: a queue is created  *)
(* when the first element comes for its index, and elements are taken from *)
(* a given queue, from the queues in turn, or from the fullest.  Each      *)
(* operation holds the lock of the collection.                             *)
(***************************************************************************)
EXTENDS Naturals, SequencesExt, FiniteSetsExt

\* next is nextQueue_, undefined before there is a queue: 0 stands for that.
EmptyCollection == [queues |-> << >>, next |-> 0]

Elements(c, index) == IF index \in DOMAIN c.queues THEN c.queues[index] ELSE << >>

\* A new queue becomes the next one to take from.
Enq(c, index, element) ==
  [queues |-> [i \in DOMAIN c.queues \cup {index} |->
                 IF i = index THEN Append(Elements(c, i), element) ELSE c.queues[i]],
   next   |-> IF index \in DOMAIN c.queues THEN c.next ELSE index]

CanDeq(c) == \E i \in DOMAIN c.queues : c.queues[i] # << >>

\* The index after i, and the first one again after the last.
Following(c, i) ==
  LET later == { j \in DOMAIN c.queues : j > i }
  IN Min(IF later = {} THEN DOMAIN c.queues ELSE later)

WithoutHead(c, index) == [c EXCEPT !.queues[index] = Tail(@)]

\* Faulty variant: the queue that was used is the next one again.
RoundRobin_SameAgain(c) ==
  LET filled == { i \in DOMAIN c.queues : c.queues[i] # << >> }
      first  == { i \in filled : i >= c.next }
      index  == Min(IF first = {} THEN filled ELSE first)
  IN [index |-> index, element |-> Head(c.queues[index]),
      rest |-> [WithoutHead(c, index) EXCEPT !.next = index]]

\* deq(element): from the first queue that is not empty, from the next one on.
RoundRobin(c) ==
  LET filled == { i \in DOMAIN c.queues : c.queues[i] # << >> }
      first  == { i \in filled : i >= c.next }
      index  == Min(IF first = {} THEN filled ELSE first)
  IN [index |-> index, element |-> Head(c.queues[index]),
      rest |-> [WithoutHead(c, index) EXCEPT !.next = Following(c, index)]]

\* deqFromFullest: the first of the longest queues.
FromFullest(c) ==
  LET longest == Max({ Len(c.queues[i]) : i \in DOMAIN c.queues })
      index   == Min({ i \in DOMAIN c.queues : Len(c.queues[i]) = longest })
  IN [index |-> index, element |-> Head(c.queues[index]), rest |-> WithoutHead(c, index)]

\* while ( deq(element) ) {}: the queues stay; the last element comes from the last, in turn, of the
\* longest queues.
Drained(c) ==
  LET longest == { i \in DOMAIN c.queues : \A j \in DOMAIN c.queues : Len(c.queues[j]) <= Len(c.queues[i]) }
      before  == { i \in longest : i < c.next }
  IN [queues |-> [i \in DOMAIN c.queues |-> << >>],
      next   |-> IF CanDeq(c) THEN Following(c, Max(IF before = {} THEN longest ELSE before)) ELSE c.next]
=============================================================================
