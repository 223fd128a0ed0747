-------------------------- MODULE RoundTrip_proofs --------------------------
(***************************************************************************)
(* Proofs about RoundTrip, for every set of RUs and of BUs, all parameters *)
(* of each configuration, and every size of a message or of a queue.       *)
(***************************************************************************)
EXTENDS RoundTrip, EvBidFactory_proofs, SequenceTheorems

-----------------------------------------------------------------------------
(* Queues.                                                                 *)

\* The elements of a queue, by their position.
LEMMA AppendAt ==
  ASSUME NEW S, NEW q \in Seq(S), NEW e \in S
  PROVE  /\ Append(q, e) \in Seq(S)
         /\ DOMAIN Append(q, e) = DOMAIN q \cup {Len(q) + 1}
         /\ DOMAIN q = 1..Len(q) /\ Len(q) \in Nat
         /\ \A i \in DOMAIN q : Append(q, e)[i] = q[i] /\ q[i] \in S
         /\ Append(q, e)[Len(q) + 1] = e /\ Len(Append(q, e)) = Len(q) + 1
<1>1. Append(q, e) \in Seq(S) /\ Len(Append(q, e)) = Len(q) + 1 /\ DOMAIN q = 1..Len(q) /\ Len(q) \in Nat
  OBVIOUS
<1>2. DOMAIN Append(q, e) = 1..(Len(q) + 1)
  BY <1>1
<1>3. DOMAIN Append(q, e) = DOMAIN q \cup {Len(q) + 1}
  BY <1>1, <1>2
<1>4. \A i \in DOMAIN q : Append(q, e)[i] = q[i] /\ q[i] \in S
  OBVIOUS
<1>5. Append(q, e)[Len(q) + 1] = e
  OBVIOUS
<1> QED
  BY <1>1, <1>3, <1>4, <1>5

LEMMA TailAt ==
  ASSUME NEW S, NEW q \in Seq(S), q # << >>
  PROVE  /\ Head(q) \in S /\ Tail(q) \in Seq(S)
         /\ 1 \in DOMAIN q /\ q[1] = Head(q)
         /\ DOMAIN q = 1..Len(q) /\ Len(q) \in Nat
         /\ \A i \in DOMAIN q : i \in Nat /\ q[i] \in S
         /\ \A i \in DOMAIN Tail(q) : i \in Nat /\ i + 1 # 1 /\ i + 1 \in DOMAIN q /\ Tail(q)[i] = q[i + 1]
         /\ \A i \in DOMAIN q : i = 1 \/ (i - 1 \in DOMAIN Tail(q) /\ Tail(q)[i - 1] = q[i])
<1>1. /\ Tail(q) \in Seq(S) /\ Len(Tail(q)) = Len(q) - 1 /\ Len(q) \in Nat /\ Len(q) > 0
      /\ DOMAIN q = 1..Len(q) /\ DOMAIN Tail(q) = 1..(Len(q) - 1) /\ Head(q) = q[1] /\ Head(q) \in S
  OBVIOUS
<1>2. \A i \in 1..(Len(q) - 1) : Tail(q)[i] = q[i + 1]
  OBVIOUS
<1>3. \A i \in 1..Len(q) : i = 1 \/ (i - 1 \in 1..(Len(q) - 1) /\ Tail(q)[i - 1] = q[i])
  BY <1>1, <1>2
<1>4. \A i \in DOMAIN Tail(q) : i \in Nat /\ i + 1 # 1 /\ i + 1 \in DOMAIN q /\ Tail(q)[i] = q[i + 1]
  BY <1>1, <1>2
<1>5. 1 \in DOMAIN q /\ \A i \in DOMAIN q : i \in Nat /\ q[i] \in S
  BY <1>1
<1> QED
  BY <1>1, <1>3, <1>4, <1>5

LEMMA RangeAppend ==
  ASSUME NEW S, NEW q \in Seq(S), NEW e \in S
  PROVE  /\ Range(Append(q, e)) = Range(q) \cup {e}
         /\ IsInjective(q) /\ e \notin Range(q) => IsInjective(Append(q, e))
<1>1. /\ DOMAIN Append(q, e) = DOMAIN q \cup {Len(q) + 1}
      /\ \A i \in DOMAIN q : Append(q, e)[i] = q[i]
      /\ Append(q, e)[Len(q) + 1] = e
  BY AppendAt
<1> QED
  BY <1>1 DEF Range, IsInjective

LEMMA RangeTail ==
  ASSUME NEW S, NEW q \in Seq(S), q # << >>
  PROVE  /\ Head(q) \in Range(q)
         /\ Range(q) = Range(Tail(q)) \cup {Head(q)}
         /\ IsInjective(q) => IsInjective(Tail(q)) /\ Range(Tail(q)) = Range(q) \ {Head(q)}
<1>1. /\ 1 \in DOMAIN q /\ q[1] = Head(q)
      /\ \A i \in DOMAIN Tail(q) : i \in Nat /\ i + 1 # 1 /\ i + 1 \in DOMAIN q /\ Tail(q)[i] = q[i + 1]
      /\ \A i \in DOMAIN q : i = 1 \/ (i - 1 \in DOMAIN Tail(q) /\ Tail(q)[i - 1] = q[i])
  BY TailAt
<1>2. Range(q) = Range(Tail(q)) \cup {Head(q)}
  BY <1>1 DEF Range
<1>3. ASSUME IsInjective(q) PROVE IsInjective(Tail(q)) /\ Head(q) \notin Range(Tail(q))
  <2>1. \A i, j \in DOMAIN Tail(q) : i + 1 = j + 1 => i = j
    BY <1>1
  <2>2. IsInjective(Tail(q))
    BY <1>1, <1>3, <2>1 DEF IsInjective
  <2>3. \A i \in DOMAIN Tail(q) : Tail(q)[i] # q[1]
    BY <1>1, <1>3 DEF IsInjective
  <2> QED
    BY <1>1, <2>2, <2>3 DEF Range
<1> QED
  BY <1>1, <1>2, <1>3 DEF Range

\* Two queues, the second of which feeds the first.
LEMMA MoveHead ==
  ASSUME NEW S, NEW p \in Seq(S), NEW q \in Seq(S), q # << >>
  PROVE  Append(p, Head(q)) \o Tail(q) = p \o q
<1> DEFINE x == Append(p, Head(q)) \o Tail(q)
           y == p \o q
<1>1. Head(q) \in S /\ Tail(q) \in Seq(S) /\ Append(p, Head(q)) \in Seq(S)
  OBVIOUS
<1>2. x \in Seq(S) /\ y \in Seq(S)
  BY <1>1
<1>3. Len(x) = Len(y)
  OBVIOUS
<1>4. \A i \in 1 .. Len(x) : x[i] = y[i]
  OBVIOUS
<1> HIDE DEF x, y
<1> QED
  BY <1>2, <1>3, <1>4, SeqEqual

LEMMA TakeHead ==
  ASSUME NEW S, NEW p \in Seq(S), NEW q \in Seq(S), p # << >>
  PROVE  /\ p \o q # << >> /\ Head(p \o q) = Head(p)
         /\ Tail(p) \o q = Tail(p \o q)
<1> DEFINE x == Tail(p) \o q
           y == Tail(p \o q)
<1>1. p \o q \in Seq(S) /\ Tail(p) \in Seq(S) /\ Len(p) \in Nat /\ Len(p) > 0 /\ Len(q) \in Nat
  OBVIOUS
<1>2. Len(p \o q) = Len(p) + Len(q) /\ Len(Tail(p)) = Len(p) - 1
  OBVIOUS
<1>3. p \o q # << >> /\ (p \o q)[1] = p[1]
  BY <1>1, <1>2
<1>4. x \in Seq(S) /\ y \in Seq(S) /\ Len(x) = Len(p) + Len(q) - 1 /\ Len(y) = Len(p) + Len(q) - 1
  BY <1>1, <1>2, <1>3
<1>5. \A i \in 1 .. Len(x) : x[i] = y[i]
  <2>1. \A i \in 1 .. Len(x) : x[i] = (p \o q)[i + 1]
    BY <1>1, <1>2, <1>4
  <2>2. \A i \in 1 .. Len(y) : y[i] = (p \o q)[i + 1]
    <3> DEFINE z == p \o q
    <3>1. z \in Seq(S) /\ z # << >>
      BY <1>1, <1>3
    <3> HIDE DEF z
    <3>2. \A i \in 1 .. Len(Tail(z)) : Tail(z)[i] = z[i + 1]
      BY <3>1
    <3> QED
      BY <3>2 DEF z
  <2> QED
    BY <1>4, <2>1, <2>2
<1> HIDE DEF x, y
<1>6. x = y
  BY <1>4, <1>5, SeqEqual
<1>7. Head(p \o q) = Head(p)
  BY <1>1, <1>3
<1> QED
  BY <1>3, <1>6, <1>7 DEF x, y

LEMMA AddLast ==
  ASSUME NEW S, NEW p \in Seq(S), NEW q \in Seq(S), NEW e \in S
  PROVE  p \o Append(q, e) = Append(p \o q, e)
<1> DEFINE x == p \o Append(q, e)
           y == Append(p \o q, e)
<1>1. x \in Seq(S) /\ y \in Seq(S) /\ Len(x) = Len(y)
  OBVIOUS
<1>2. \A i \in 1 .. Len(x) : x[i] = y[i]
  OBVIOUS
<1> HIDE DEF x, y
<1> QED
  BY <1>1, <1>2, SeqEqual

LEMMA RangeConcat ==
  ASSUME NEW S, NEW p \in Seq(S), NEW q \in Seq(S)
  PROVE  /\ p \o q \in Seq(S) /\ Range(p \o q) = Range(p) \cup Range(q)
         /\ IsInjective(p) /\ IsInjective(q) /\ Range(p) \cap Range(q) = {} => IsInjective(p \o q)
<1>1. /\ p \o q \in Seq(S) /\ DOMAIN p = 1..Len(p) /\ DOMAIN q = 1..Len(q) /\ DOMAIN (p \o q) = 1..(Len(p) + Len(q))
      /\ Len(p) \in Nat /\ Len(q) \in Nat
  OBVIOUS
<1>2. \A i \in 1..(Len(p) + Len(q)) : (p \o q)[i] = IF i <= Len(p) THEN p[i] ELSE q[i - Len(p)]
  OBVIOUS
<1>3. Range(p \o q) = Range(p) \cup Range(q)
  BY RangeConcatenation
<1>4. ASSUME IsInjective(p), IsInjective(q), Range(p) \cap Range(q) = {}
      PROVE  IsInjective(p \o q)
  <2>1. \A i \in 1..Len(p), j \in 1..Len(q) : p[i] # q[j]
    BY <1>1, <1>4 DEF Range
  <2>2. \A i, j \in 1..Len(p) : p[i] = p[j] => i = j
    BY <1>1, <1>4 DEF IsInjective
  <2>3. \A i, j \in 1..Len(q) : q[i] = q[j] => i = j
    BY <1>1, <1>4 DEF IsInjective
  <2>4. ASSUME NEW i \in 1..(Len(p) + Len(q)), NEW j \in 1..(Len(p) + Len(q)), (p \o q)[i] = (p \o q)[j]
        PROVE  i = j
    <3>1. CASE i <= Len(p) /\ j <= Len(p)
      BY <1>1, <1>2, <2>2, <2>4, <3>1
    <3>2. CASE i <= Len(p) /\ ~ (j <= Len(p))
      BY <1>1, <1>2, <2>1, <2>4, <3>2
    <3>3. CASE ~ (i <= Len(p)) /\ j <= Len(p)
      <4>1. p[j] = q[i - Len(p)] /\ i - Len(p) \in 1..Len(q) /\ j \in 1..Len(p)
        BY <1>1, <1>2, <2>4, <3>3
      <4> QED
        BY <2>1, <4>1
    <3>4. CASE ~ (i <= Len(p)) /\ ~ (j <= Len(p))
      <4>1. q[i - Len(p)] = q[j - Len(p)] /\ i - Len(p) \in 1..Len(q) /\ j - Len(p) \in 1..Len(q)
        BY <1>1, <1>2, <2>4, <3>4
      <4>2. i - Len(p) = j - Len(p)
        BY <2>3, <4>1
      <4> QED
        BY <1>1, <4>2
    <3> QED
      BY <3>1, <3>2, <3>3, <3>4
  <2> QED
    BY <1>1, <2>4 DEF IsInjective
<1> QED
  BY <1>1, <1>3, <1>4

-----------------------------------------------------------------------------
(* The collection of queues, one for each BU that has asked for events.    *)

LEMMA MinIsLeast ==
  ASSUME NEW S, S \subseteq Nat, S # {}
  PROVE  Min(S) \in S /\ \A x \in S : Min(S) <= x
<1>1. PICK m \in S : \A x \in S : m <= x
  BY Least
<1> QED
  BY <1>1 DEF Min

\* Among finitely many queues one is the longest.
LEMMA LongestQueue ==
  ASSUME NEW D, IsFiniteSet(D), D # {}, NEW q, \A i \in D : q[i] \in Seq(Nat)
  PROVE  \E i \in D : \A j \in D : Len(q[j]) <= Len(q[i])
<1> DEFINE R == StrictSubsetOrdering(D)
           Long(n) == { i \in D : n <= Len(q[i]) }
           U == { X \in SUBSET D : X # {} /\ \E n \in Nat : X = Long(n) }
<1>1. IsWellFoundedOn(R, FiniteSubsetsOf(D))
  BY FS_StrictSubsetOrderingWellFounded
<1>2. \A i \in D : Len(q[i]) \in Nat
  OBVIOUS
<1>3. FiniteSubsetsOf(D) = SUBSET D
  BY FS_FiniteSubsetsOfFinite
<1>4. D = Long(0)
  BY <1>2
<1>5. D \in U
  BY <1>4
<1>6. U \subseteq FiniteSubsetsOf(D) /\ U # {}
  BY <1>3, <1>5
<1>7. PICK X \in U : \A Y \in U : ~ (<<Y, X>> \in R)
  <2> HIDE DEF R, U
  <2> QED
    BY <1>1, <1>6, WFMin, Zenon
<1>8. PICK i \in X : TRUE
  OBVIOUS
<1>9. PICK n \in Nat : X = Long(n)
  OBVIOUS
<1>10. ASSUME NEW j \in D, Len(q[i]) < Len(q[j])
       PROVE  FALSE
  <2>1. j \in Long(Len(q[j])) /\ i \notin Long(Len(q[j]))
    BY <1>2, <1>8, <1>10
  <2>2. Long(Len(q[j])) \subseteq X
    <3>1. n <= Len(q[i])
      BY <1>8, <1>9
    <3> QED
      BY <1>2, <1>9, <1>10, <3>1
  <2>3. Long(Len(q[j])) \in U
    BY <1>2, <2>1
  <2>4. Long(Len(q[j])) # X
    BY <1>8, <2>1
  <2> HIDE DEF U, Long
  <2>5. << Long(Len(q[j])), X >> \in R
    BY <1>3, <1>6, <2>2, <2>3, <2>4 DEF StrictSubsetOrdering
  <2> QED
    BY <1>7, <2>3, <2>5
<1>11. i \in D
  BY <1>6, <1>8
<1>12. \A j \in D : Len(q[j]) <= Len(q[i])
  BY <1>2, <1>10, <1>11
<1> QED
  BY <1>11, <1>12

IsCollection(c, S) ==
  /\ c = [queues |-> c.queues, next |-> c.next]
  /\ DOMAIN c.queues \subseteq S
  /\ \A i \in DOMAIN c.queues : c.queues[i] \in Seq(Nat)
  /\ DOMAIN c.queues # {} => c.next \in DOMAIN c.queues

LEMMA EnqIsCollection ==
  ASSUME NEW S, NEW c, IsCollection(c, S), NEW i \in S, NEW e \in Nat
  PROVE  /\ IsCollection(Enq(c, i, e), S)
         /\ DOMAIN Enq(c, i, e).queues = DOMAIN c.queues \cup {i}
         /\ i \in DOMAIN c.queues => Enq(c, i, e).next = c.next
         /\ Elements(c, i) \in Seq(Nat)
         /\ \A j : Elements(Enq(c, i, e), j) = IF j = i THEN Append(Elements(c, i), e) ELSE Elements(c, j)
<1> DEFINE d == Enq(c, i, e)
<1>1. Elements(c, i) \in Seq(Nat)
  BY DEF IsCollection, Elements
<1>2. Append(Elements(c, i), e) \in Seq(Nat)
  BY <1>1
<1> DEFINE all == [j \in DOMAIN c.queues \cup {i} |-> IF j = i THEN Append(Elements(c, j), e) ELSE c.queues[j]]
           turn == IF i \in DOMAIN c.queues THEN c.next ELSE i
<1>3. d = [queues |-> all, next |-> turn]
  BY DEF Enq
<1>4. d.queues = all /\ d.next = turn
  BY <1>3
<1>5. /\ DOMAIN d.queues = DOMAIN c.queues \cup {i}
      /\ \A j \in DOMAIN d.queues : d.queues[j] = IF j = i THEN Append(Elements(c, i), e) ELSE c.queues[j]
  BY <1>4
<1>6. d = [queues |-> d.queues, next |-> d.next]
  BY <1>3, <1>4
<1> HIDE DEF d, all
<1>7. IsCollection(d, S)
  BY <1>2, <1>4, <1>5, <1>6 DEF IsCollection
<1>8. \A j : Elements(d, j) = IF j = i THEN Append(Elements(c, i), e) ELSE Elements(c, j)
  BY <1>5 DEF Elements
<1> QED
  BY <1>1, <1>7, <1>8, <1>4, <1>5 DEF d

LEMMA FollowingIsIn ==
  ASSUME NEW S, S \subseteq Nat, NEW c, IsCollection(c, S), DOMAIN c.queues # {}, NEW i
  PROVE  /\ Following(c, i) \in DOMAIN c.queues
         /\ i \in Nat => \/ /\ Following(c, i) > i
                            /\ \A j \in DOMAIN c.queues : ~ (i < j /\ j < Following(c, i))
                         \/ /\ \A j \in DOMAIN c.queues : j <= i
                            /\ \A j \in DOMAIN c.queues : Following(c, i) <= j
<1> DEFINE D == DOMAIN c.queues
           later == { j \in D : j > i }
           T == IF later = {} THEN D ELSE later
<1>1. T \subseteq Nat /\ T # {} /\ T \subseteq D
  BY DEF IsCollection
<1> DEFINE m == Min(T)
<1>2. m \in T /\ \A x \in T : m <= x
  BY <1>1, MinIsLeast
<1>3. Following(c, i) = m
  BY DEF Following
<1>4. m \in D /\ D \subseteq Nat
  BY <1>1, <1>2 DEF IsCollection
<1>5. ASSUME i \in Nat
      PROVE  \/ m > i /\ \A j \in D : ~ (i < j /\ j < m)
             \/ (\A j \in D : j <= i) /\ (\A j \in D : m <= j)
  <2>1. CASE later = {}
    <3>1. \A j \in D : m <= j
      BY <1>2, <2>1
    <3>2. \A j \in D : j <= i
      BY <1>4, <1>5, <2>1
    <3> QED
      BY <3>1, <3>2
  <2>2. CASE later # {}
    <3>1. m \in later /\ \A j \in later : m <= j
      BY <1>2, <2>2
    <3>2. \A j \in D : ~ (i < j /\ j < m)
      BY <1>4, <1>5, <3>1
    <3> QED
      BY <3>1, <3>2
  <2> QED
    BY <2>1, <2>2
<1> QED
  BY <1>3, <1>4, <1>5

LEMMA WithoutHeadIsCollection ==
  ASSUME NEW S, NEW c, IsCollection(c, S), NEW i \in DOMAIN c.queues, c.queues[i] # << >>
  PROVE  /\ IsCollection(WithoutHead(c, i), S)
         /\ DOMAIN WithoutHead(c, i).queues = DOMAIN c.queues /\ WithoutHead(c, i).next = c.next
         /\ Head(c.queues[i]) \in Nat /\ Elements(c, i) = c.queues[i]
         /\ \A j : Elements(WithoutHead(c, i), j) = IF j = i THEN Tail(Elements(c, i)) ELSE Elements(c, j)
<1> DEFINE d == WithoutHead(c, i)
           less == [c.queues EXCEPT ![i] = Tail(@)]
<1>1. c = [queues |-> c.queues, next |-> c.next]
  BY DEF IsCollection
<1>2. d = [c EXCEPT !.queues = less]
  BY DEF WithoutHead
<1>3. d = [queues |-> less, next |-> c.next]
  <2> HIDE DEF d, less
  <2> QED
    BY <1>1, <1>2
<1>4. d.queues = less /\ d.next = c.next
  BY <1>3
<1>5. /\ DOMAIN d.queues = DOMAIN c.queues
      /\ \A j \in DOMAIN c.queues : d.queues[j] = IF j = i THEN Tail(c.queues[i]) ELSE c.queues[j]
  BY <1>4
<1>6. c.queues[i] \in Seq(Nat)
  BY DEF IsCollection
<1>7. Tail(c.queues[i]) \in Seq(Nat) /\ Head(c.queues[i]) \in Nat
  BY <1>6
<1>8. d = [queues |-> d.queues, next |-> d.next]
  BY <1>3, <1>4
<1> HIDE DEF d, less
<1>9. IsCollection(d, S)
  BY <1>4, <1>5, <1>7, <1>8 DEF IsCollection
<1>10. \A j : Elements(d, j) = IF j = i THEN Tail(Elements(c, i)) ELSE Elements(c, j)
  BY <1>5 DEF Elements
<1> QED
  BY <1>4, <1>5, <1>7, <1>9, <1>10 DEF d, Elements

\* What is taken from a collection, and what stays.
IsTaken(c, taken, S) ==
  /\ taken.index \in DOMAIN c.queues /\ Elements(c, taken.index) # << >>
  /\ taken.element = Head(Elements(c, taken.index)) /\ taken.element \in Nat
  /\ IsCollection(taken.rest, S) /\ DOMAIN taken.rest.queues = DOMAIN c.queues
  /\ \A j : Elements(taken.rest, j) = IF j = taken.index THEN Tail(Elements(c, j)) ELSE Elements(c, j)

LEMMA FromFullestTakes ==
  ASSUME NEW S, IsFiniteSet(S), S \subseteq Nat, NEW c, IsCollection(c, S), CanDeq(c)
  PROVE  IsTaken(c, FromFullest(c), S)
<1> DEFINE D == DOMAIN c.queues
           lengths == { Len(c.queues[i]) : i \in D }
           m == Max(lengths)
           I == { i \in D : Len(c.queues[i]) = m }
           index == Min(I)
<1>1. PICK k \in D : c.queues[k] # << >>
  BY DEF CanDeq
<1>2. IsFiniteSet(D) /\ D \subseteq Nat
  BY FS_Subset DEF IsCollection
<1>3. \A i \in D : c.queues[i] \in Seq(Nat)
  BY DEF IsCollection
<1>4. PICK i \in D : \A j \in D : Len(c.queues[j]) <= Len(c.queues[i])
  <2> HIDE DEF D
  <2> QED
    BY <1>1, <1>2, <1>3, LongestQueue
<1>5. \A j \in D : Len(c.queues[j]) \in Nat
  BY <1>3
<1>6. Len(c.queues[i]) \in lengths /\ \A x \in lengths : Len(c.queues[i]) >= x
  BY <1>4, <1>5
<1>7. m \in lengths /\ \A x \in lengths : m >= x
  BY <1>6 DEF Max
<1>8. I # {} /\ I \subseteq Nat
  BY <1>2, <1>7
<1>9. index \in I
  <2> HIDE DEF I
  <2> QED
    BY <1>8, MinIsLeast
<1>10. Len(c.queues[index]) >= Len(c.queues[k])
  BY <1>1, <1>7, <1>9
<1>11. Len(c.queues[k]) > 0 /\ Len(c.queues[k]) \in Nat
  BY <1>1, <1>3
<1>12. index \in D /\ c.queues[index] # << >>
  BY <1>3, <1>5, <1>9, <1>10, <1>11
<1>13. FromFullest(c) = [index |-> index, element |-> Head(c.queues[index]), rest |-> WithoutHead(c, index)]
  BY DEF FromFullest
<1> HIDE DEF index
<1>14. /\ FromFullest(c).index = index /\ FromFullest(c).element = Head(c.queues[index])
       /\ FromFullest(c).rest = WithoutHead(c, index)
  BY <1>13
<1> QED
  BY <1>12, <1>14, WithoutHeadIsCollection DEF IsTaken

\* The queue that is taken from is the first, in turn, that is not empty.
FirstInTurn(filled, next, i) ==
  \/ i >= next /\ \A j \in filled : j >= next => i <= j
  \/ (\A j \in filled : j < next) /\ (\A j \in filled : i <= j)

Filled(c) == { i \in DOMAIN c.queues : c.queues[i] # << >> }

LEMMA RoundRobinTakes ==
  ASSUME NEW S, S \subseteq Nat, NEW c, IsCollection(c, S), CanDeq(c)
  PROVE  /\ IsTaken(c, RoundRobin(c), S)
         /\ FirstInTurn(Filled(c), c.next, RoundRobin(c).index)
         /\ RoundRobin(c).rest.next = Following(c, RoundRobin(c).index)
<1> DEFINE first == { i \in Filled(c) : i >= c.next }
           T == IF first = {} THEN Filled(c) ELSE first
           index == Min(T)
           rest == [WithoutHead(c, index) EXCEPT !.next = Following(c, index)]
<1>1. /\ DOMAIN c.queues \subseteq Nat /\ Filled(c) # {} /\ Filled(c) \subseteq DOMAIN c.queues
      /\ c.next \in Nat
  BY DEF CanDeq, IsCollection, Filled
<1>2. T \subseteq Nat /\ T # {} /\ T \subseteq Filled(c)
  BY <1>1
<1>3. index \in T /\ \A x \in T : index <= x
  <2> HIDE DEF T
  <2> QED
    BY <1>2, MinIsLeast
<1>4. FirstInTurn(Filled(c), c.next, index)
  <2>1. CASE first = {}
    <3>1. \A j \in Filled(c) : j < c.next
      BY <1>1, <2>1
    <3> QED
      BY <1>3, <2>1, <3>1 DEF FirstInTurn
  <2>2. CASE first # {}
    <3>1. index \in first /\ \A x \in first : index <= x
      BY <1>3, <2>2
    <3> QED
      BY <3>1 DEF FirstInTurn
  <2> QED
    BY <2>1, <2>2
<1>5. index \in DOMAIN c.queues /\ c.queues[index] # << >>
  BY <1>2, <1>3 DEF Filled
<1>6. RoundRobin(c) = [index |-> index, element |-> Head(c.queues[index]), rest |-> rest]
  BY DEF RoundRobin, Filled
<1> HIDE DEF index
<1> DEFINE d == WithoutHead(c, index)
<1>7. /\ IsCollection(d, S) /\ DOMAIN d.queues = DOMAIN c.queues
      /\ Head(c.queues[index]) \in Nat /\ Elements(c, index) = c.queues[index]
      /\ \A j : Elements(d, j) = IF j = index THEN Tail(Elements(c, index)) ELSE Elements(c, j)
  BY <1>5, WithoutHeadIsCollection
<1>8. Following(c, index) \in DOMAIN c.queues
  BY <1>5, FollowingIsIn
<1>9. d = [queues |-> d.queues, next |-> d.next]
  BY <1>7 DEF IsCollection
<1> HIDE DEF d
<1>10. rest = [queues |-> d.queues, next |-> Following(c, index)]
  BY <1>9 DEF d
<1>11. rest.queues = d.queues /\ rest.next = Following(c, index)
  BY <1>10
<1>12. /\ RoundRobin(c).index = index /\ RoundRobin(c).element = Head(c.queues[index])
       /\ RoundRobin(c).rest = rest
  BY <1>6
<1> HIDE DEF rest
<1>13. rest = [queues |-> rest.queues, next |-> rest.next]
  BY <1>10, <1>11
<1>14. IsCollection(rest, S)
  BY <1>7, <1>8, <1>11, <1>13 DEF IsCollection
<1>15. \A j : Elements(rest, j) = Elements(d, j)
  BY <1>11 DEF Elements
<1>16. IsTaken(c, RoundRobin(c), S)
  BY <1>5, <1>7, <1>11, <1>12, <1>14, <1>15 DEF IsTaken
<1> QED
  BY <1>4, <1>11, <1>12, <1>16

LEMMA DrainedIsCollection ==
  ASSUME NEW S, S \subseteq Nat, NEW c, IsCollection(c, S)
  PROVE  /\ IsCollection(Drained(c), S) /\ DOMAIN Drained(c).queues = DOMAIN c.queues
         /\ \A i : Elements(Drained(c), i) = << >>
<1>1. PICK m : Drained(c) = [queues |-> [i \in DOMAIN c.queues |-> << >>],
                             next   |-> IF CanDeq(c) THEN Following(c, m) ELSE c.next]
  BY DEF Drained
<1>2. /\ Drained(c).queues = [i \in DOMAIN c.queues |-> << >>]
      /\ Drained(c).next = IF CanDeq(c) THEN Following(c, m) ELSE c.next
  BY <1>1
<1>3. CanDeq(c) => Following(c, m) \in DOMAIN c.queues
  BY FollowingIsIn DEF CanDeq
<1>4. << >> \in Seq(Nat)
  OBVIOUS
<1>5. Drained(c) = [queues |-> Drained(c).queues, next |-> Drained(c).next]
  BY <1>1, <1>2
<1>6. IsCollection(Drained(c), S)
  BY <1>2, <1>3, <1>4, <1>5 DEF IsCollection
<1> QED
  BY <1>2, <1>6 DEF Elements

-----------------------------------------------------------------------------
(* Types.  What a list of RUs is made of is left open: it comes from the   *)
(* parameters.                                                             *)

Id      == Nat \ {0}
Token   == [evbId : Id, resource : Nat]
Element == [resource : Nat, release : Nat]
Block   == [ru : RUs, evbId : Id, resource : Nat]
Request == [bu : BUs, evbId : Id, resource : Nat]

SetupTypes ==
  /\ setup \in Setups
  /\ configuration \in Nat /\ configuration <= Len(setup.configurations)

EvmTypes ==
  /\ nbTriggers \in Nat /\ readout \in Seq(Id) /\ eventFIFO \in Seq(Id) /\ releasedEvbIdFIFO \in Seq(Id)
  /\ evbIdMap \subseteq Id /\ IsFiniteSet(evbIdMap)
  /\ IsCollection(requestFIFOs, BUs)
  /\ passed \in [BUs -> Nat] /\ joined \in [BUs -> Nat]

RuTypes ==
  /\ evbIdFIFO \in [RUs -> Seq(Id)] /\ toRU \in [RUs -> Seq(Id)]
  /\ data \in [RUs -> SUBSET Id]
  /\ requests \in [RUs -> SUBSET Request]

BuTypes ==
  /\ evtIdRqsts \in [BUs -> Seq(Element)] /\ toEVM \in [BUs -> Seq(Element)]
  /\ triggerFIFO \in [BUs -> Seq(Token)] /\ confirms \in [BUs -> Seq(Token)]
  /\ rqstForFrags \in [BUs -> Seq(Token)]
  /\ blockFIFO \in [BUs -> Seq(Block)]
  /\ rqsts \in [RUs -> [BUs -> Seq(Token)]]
  /\ blocks \in [BUs -> [RUs -> Seq(Token)]]

EventTypes ==
  /\ DOMAIN events = BUs
  /\ \A b \in BUs : \A r \in DOMAIN events[b] : events[b][r].evbId \in Id /\ events[b][r].resource \in Nat

Types == SetupTypes /\ EvmTypes /\ RuTypes /\ BuTypes /\ EventTypes

LEMMA PeersAreNumbers ==
  ASSUME setup \in Setups
  PROVE  /\ RUs \subseteq Nat /\ BUs \subseteq Nat /\ IsFiniteSet(RUs) /\ IsFiniteSet(BUs)
         /\ Len(setup.configurations) \in Nat
         /\ \A i \in 1 .. Len(setup.configurations) : setup.configurations[i].resources \in Nat
BY RoundTripAssumption DEF RUs, BUs

LEMMA TypesInit == Init => Types
<1> SUFFICES ASSUME Init PROVE Types
  OBVIOUS
<1>1. SetupTypes
  BY PeersAreNumbers DEF Init, SetupTypes
<1>2. IsCollection(requestFIFOs, BUs)
  <2>1. requestFIFOs.queues = << >> /\ requestFIFOs = [queues |-> requestFIFOs.queues, next |-> requestFIFOs.next]
    BY DEF Init, EmptyCollection
  <2>2. DOMAIN requestFIFOs.queues = {}
    BY <2>1
  <2> QED
    BY <2>1, <2>2 DEF IsCollection
<1>3. EvmTypes
  BY <1>2, FS_EmptySet DEF Init, EvmTypes
<1>4. RuTypes
  BY DEF Init, RuTypes, Empty
<1>5. BuTypes
  BY DEF Init, BuTypes, Empty
<1>6. EventTypes
  BY DEF Init, EventTypes, Empty
<1> QED
  BY <1>1, <1>3, <1>4, <1>5, <1>6 DEF Types

\* What is sent when processing starts.
LEMMA FirstRequestsTypes ==
  ASSUME NEW n \in Nat
  PROVE  /\ FirstRequests(n) \in Seq(Element) /\ Len(FirstRequests(n)) = n
         /\ \A i \in 1..n : FirstRequests(n)[i] = [resource |-> i, release |-> 0]
         /\ Posted(n) \in Nat /\ Posted(n) <= n
         /\ SubSeq(FirstRequests(n), 1, Posted(n)) \in Seq(Element)
         /\ SubSeq(FirstRequests(n), Posted(n) + 1, n) \in Seq(Element)
         /\ SubSeq(FirstRequests(n), 1, Posted(n)) \o SubSeq(FirstRequests(n), Posted(n) + 1, n) = FirstRequests(n)
<1> DEFINE q == FirstRequests(n)
           m == Posted(n)
<1>1. \A i \in 1..n : [resource |-> i, release |-> 0] \in Element
  BY DEF Element
<1>2. q \in [1..n -> Element]
  BY <1>1 DEF FirstRequests
<1>3. q \in Seq(Element) /\ Len(q) = n
  <2> HIDE DEF q
  <2> QED
    BY <1>2
<1>4. \A i \in 1..n : q[i] = [resource |-> i, release |-> 0]
  BY DEF FirstRequests
<1>5. m \in Nat /\ m <= n
  BY RoundTripAssumption DEF Posted
<1> HIDE DEF q, m
<1>6. \A i \in 1..n : q[i] \in Element
  BY <1>2
<1>7. SubSeq(q, 1, m) \in Seq(Element)
  BY <1>3, <1>5
<1>8. SubSeq(q, m + 1, n) \in Seq(Element)
  BY <1>3, <1>5
<1>9. SubSeq(q, 1, m) \o SubSeq(q, m + 1, n) = SubSeq(q, 1, n)
  <2>1. 1 \in 1 .. Len(q) + 1 /\ m \in 1 - 1 .. Len(q) /\ n \in m .. Len(q)
    BY <1>3, <1>5
  <2> QED
    BY <1>3, <2>1, ConcatAdjacentSubSeq
<1>10. SubSeq(q, 1, n) = q
  BY <1>3, SubSeqFull
<1> QED
  BY <1>3, <1>4, <1>5, <1>7, <1>8, <1>9, <1>10 DEF q, m

\* What CheckForCompleteEvent leaves, and what it puts into the message to the EVM.
LEMMA CheckTypes ==
  ASSUME NEW b \in BUs, NEW event, EventTypes, UNCHANGED setup,
         evtIdRqsts \in [BUs -> Seq(Element)], toEVM \in [BUs -> Seq(Element)],
         event.evbId \in Id, event.resource \in Nat,
         CheckForCompleteEvent(b, event)
  PROVE  /\ EventTypes'
         /\ evtIdRqsts' \in [BUs -> Seq(Element)] /\ toEVM' \in [BUs -> Seq(Element)]
<1>1. BUs' = BUs
  BY DEF BUs
<1> DEFINE e == [resource |-> event.resource, release |-> event.evbId]
<1>2. e \in Element /\ Append(evtIdRqsts[b], e) \in Seq(Element) /\ toEVM[b] \o Append(evtIdRqsts[b], e) \in Seq(Element)
  <2>1. e \in Element
    BY DEF Element, Id
  <2>2. Append(evtIdRqsts[b], e) \in Seq(Element)
    BY <2>1
  <2> QED
    BY <2>1, <2>2
<1>3. CASE event.nbCompleteSuperFragments = event.nbExpectedSuperFragments
  <2>1. events' = [events EXCEPT ![b] = [r \in DOMAIN events[b] \ {event.resource} |-> events[b][r]]]
    BY <1>3 DEF CheckForCompleteEvent
  <2>2. SendEvtIdRqst(b, e)
    BY <1>3 DEF CheckForCompleteEvent
  <2>3. EventTypes'
    BY <1>1, <2>1 DEF EventTypes
  <2> HIDE DEF e
  <2>4. \/ evtIdRqsts' = [evtIdRqsts EXCEPT ![b] = << >>] /\ toEVM' = [toEVM EXCEPT ![b] = @ \o Append(evtIdRqsts[b], e)]
        \/ evtIdRqsts' = [evtIdRqsts EXCEPT ![b] = Append(evtIdRqsts[b], e)] /\ toEVM' = toEVM
    BY <2>2 DEF SendEvtIdRqst
  <2>5. evtIdRqsts' \in [BUs -> Seq(Element)]
    <3>1. << >> \in Seq(Element)
      OBVIOUS
    <3> QED
      BY <1>2, <2>4, <3>1
  <2>6. toEVM' \in [BUs -> Seq(Element)]
    BY <1>2, <2>4
  <2> QED
    BY <2>3, <2>5, <2>6
<1>4. CASE event.nbCompleteSuperFragments # event.nbExpectedSuperFragments
  <2>1. events' = [events EXCEPT ![b] = [r \in DOMAIN events[b] \cup {event.resource} |->
                                           IF r = event.resource THEN event ELSE events[b][r]]]
    BY <1>4 DEF CheckForCompleteEvent
  <2>2. EventTypes'
    BY <1>1, <2>1 DEF EventTypes
  <2> QED
    BY <1>4, <2>2 DEF CheckForCompleteEvent
<1> QED
  BY <1>3, <1>4

LEMMA ConfigureTypes ==
  ASSUME Types, Configure
  PROVE  Types'
<1>1. /\ UNCHANGED << setup, nbTriggers, eventFIFO, releasedEvbIdFIFO, evbIdMap, evbIdFIFO, data, requests,
                      triggerFIFO, blockFIFO, events, built, toRU, confirms, rqsts, blocks >>
      /\ configuration' = configuration + 1 /\ configuration < Len(setup.configurations)
      /\ requestFIFOs' = Drained(requestFIFOs)
      /\ passed' = [b \in BUs |-> 0] /\ joined' = [b \in BUs |-> 0]
      /\ readout' = << >> /\ rqstForFrags' = Empty(BUs)
  BY DEF Configure, ruVars
<1>2. BUs' = BUs /\ RUs' = RUs
  BY <1>1 DEF BUs, RUs
<1>3. SetupTypes'
  BY <1>1, PeersAreNumbers DEF Types, SetupTypes
<1>4. IsCollection(requestFIFOs', BUs)
  BY <1>1, PeersAreNumbers, DrainedIsCollection DEF Types, SetupTypes, EvmTypes
<1>5. EvmTypes'
  BY <1>1, <1>2, <1>4 DEF Types, EvmTypes
<1>6. RuTypes' /\ EventTypes'
  BY <1>1, <1>2 DEF Types, RuTypes, EventTypes, Request
<1> DEFINE n == setup.configurations[configuration + 1].resources
           sent == IF mode' = "Enabled" THEN SubSeq(FirstRequests(n), 1, Posted(n)) ELSE << >>
           kept == IF mode' = "Enabled" THEN SubSeq(FirstRequests(n), Posted(n) + 1, n) ELSE << >>
<1>7. n \in Nat
  BY <1>1, PeersAreNumbers DEF Types, SetupTypes
<1>8. toEVM' = [b \in BUs |-> sent] /\ evtIdRqsts' = [b \in BUs |-> kept]
  BY DEF Configure
<1>9. sent \in Seq(Element) /\ kept \in Seq(Element)
  <2>1. /\ SubSeq(FirstRequests(n), 1, Posted(n)) \in Seq(Element)
        /\ SubSeq(FirstRequests(n), Posted(n) + 1, n) \in Seq(Element)
    BY ONLY <1>7, FirstRequestsTypes
  <2>2. << >> \in Seq(Element)
    OBVIOUS
  <2> QED
    BY <2>1, <2>2
<1> HIDE DEF sent, kept
<1>10. BuTypes'
  <2>1. BuTypes /\ Block' = Block
    BY <1>2 DEF Types, Block
  <2>2. toEVM' \in [BUs -> Seq(Element)] /\ evtIdRqsts' \in [BUs -> Seq(Element)]
    BY <1>8, <1>9
  <2>3. rqstForFrags' \in [BUs -> Seq(Token)]
    BY <1>1 DEF Empty
  <2> QED
    BY <1>1, <1>2, <2>1, <2>2, <2>3 DEF BuTypes
<1> QED
  BY <1>3, <1>5, <1>6, <1>10 DEF Types

LEMMA EvmStepTypes ==
  ASSUME Types, TakeTrigger \/ SendOldEvBids \/ ProcessNextReleasedEvent \/ ServiceBuRqst
  PROVE  Types'
<1>1. UNCHANGED << setup, configuration >> /\ BUs' = BUs /\ RUs' = RUs
  BY DEF TakeTrigger, SendOldEvBids, ProcessNextReleasedEvent, ServiceBuRqst, participants, BUs, RUs
<1>2. SetupTypes'
  BY <1>1 DEF Types, SetupTypes
<1>3. CASE TakeTrigger
  <2>1. nbTriggers' = nbTriggers + 1 /\ nbTriggers' \in Id
    BY <1>3 DEF TakeTrigger, Types, EvmTypes, Id
  <2>2. Append(readout, nbTriggers') \in Seq(Id) /\ Append(eventFIFO, nbTriggers') \in Seq(Id)
    BY <2>1 DEF Types, EvmTypes
  <2>3. PICK reached : AddEvBid(nbTriggers', reached)
    BY <1>3 DEF TakeTrigger
  <2> DEFINE msg == Append(readout, nbTriggers')
  <2>4. /\ readout' = msg \/ readout' = << >>
        /\ toRU' = toRU \/ toRU' = [u \in RUs |-> IF u \in reached THEN toRU[u] \o msg ELSE toRU[u]]
    BY <2>3 DEF AddEvBid, SendEvBidsToAllRUs
  <2>5. << >> \in Seq(Id) /\ \A u \in RUs : toRU[u] \in Seq(Id) /\ toRU[u] \o msg \in Seq(Id)
    BY <2>2 DEF Types, RuTypes
  <2>6. toRU \in [RUs -> Seq(Id)]
    BY DEF Types, RuTypes
  <2>7. readout' \in Seq(Id) /\ toRU' \in [RUs -> Seq(Id)]
    <3> HIDE DEF msg
    <3>1. readout' \in Seq(Id)
      BY <2>2, <2>4, <2>5 DEF msg
    <3> QED
      BY <2>4, <2>5, <2>6, <3>1
  <2>8. evbIdMap' = evbIdMap \/ evbIdMap' = evbIdMap \cup {nbTriggers'}
    BY <1>3 DEF TakeTrigger
  <2>9. eventFIFO' = eventFIFO \/ eventFIFO' = Append(eventFIFO, nbTriggers')
    BY <1>3 DEF TakeTrigger
  <2>10. evbIdMap' \subseteq Id /\ IsFiniteSet(evbIdMap')
    <3>1. evbIdMap \subseteq Id /\ IsFiniteSet(evbIdMap)
      BY DEF Types, EvmTypes
    <3>2. IsFiniteSet(evbIdMap \cup {nbTriggers'})
      BY <3>1, FS_AddElement
    <3> QED
      BY <2>1, <2>8, <3>1, <3>2
  <2>11. UNCHANGED << requestFIFOs, releasedEvbIdFIFO, passed, joined, ruVars, buVars, toEVM, confirms, rqsts, blocks >>
    BY <1>3 DEF TakeTrigger
  <2>12. EvmTypes'
    BY <1>1, <2>1, <2>2, <2>7, <2>9, <2>10, <2>11 DEF Types, EvmTypes, Id
  <2>13. RuTypes' /\ BuTypes' /\ EventTypes'
    BY <1>1, <2>7, <2>11 DEF Types, RuTypes, BuTypes, Block, EventTypes, Request, ruVars, buVars
  <2> QED
    BY <1>2, <2>12, <2>13 DEF Types
<1>4. CASE SendOldEvBids
  <2>1. /\ UNCHANGED << nbTriggers, eventFIFO, requestFIFOs, releasedEvbIdFIFO, evbIdMap, passed, joined,
                        ruVars, buVars, toEVM, confirms, rqsts, blocks >>
        /\ readout' = << >> \/ readout' = readout
        /\ \E reached : SendEvBidsToAllRUs(readout, reached)
    BY <1>4 DEF SendOldEvBids
  <2>2. toRU' \in [RUs -> Seq(Id)]
    BY <2>1 DEF SendEvBidsToAllRUs, Types, EvmTypes, RuTypes
  <2>3. readout' \in Seq(Id)
    <3>1. readout' = << >> \/ readout' = readout
      BY <2>1
    <3>2. << >> \in Seq(Id) /\ readout \in Seq(Id)
      BY DEF Types, EvmTypes
    <3> QED
      BY ONLY <3>1, <3>2
  <2>4. EvmTypes'
    BY <1>1, <2>1, <2>3 DEF Types, EvmTypes
  <2>5. RuTypes' /\ BuTypes' /\ EventTypes'
    BY <1>1, <2>1, <2>2 DEF Types, RuTypes, BuTypes, Block, EventTypes, Request, ruVars, buVars
  <2> QED
    BY <1>2, <2>4, <2>5 DEF Types
<1>5. CASE ProcessNextReleasedEvent
  <2>1. /\ UNCHANGED << nbTriggers, readout, eventFIFO, requestFIFOs, passed, joined, ruVars, buVars, netVars >>
        /\ releasedEvbIdFIFO # << >> /\ releasedEvbIdFIFO' = Tail(releasedEvbIdFIFO)
        /\ evbIdMap' = evbIdMap \/ evbIdMap' = evbIdMap \ {Head(releasedEvbIdFIFO)}
    BY <1>5 DEF ProcessNextReleasedEvent
  <2>2. evbIdMap' \subseteq Id /\ IsFiniteSet(evbIdMap')
    <3>1. evbIdMap \subseteq Id /\ IsFiniteSet(evbIdMap)
      BY DEF Types, EvmTypes
    <3>2. \A i : IsFiniteSet(evbIdMap \ {i})
      BY <3>1, FS_Subset
    <3>3. evbIdMap' = evbIdMap \/ \E i : evbIdMap' = evbIdMap \ {i}
      BY <2>1
    <3> QED
      BY <3>1, <3>2, <3>3
  <2>3. EvmTypes'
    BY <1>1, <2>1, <2>2 DEF Types, EvmTypes
  <2>4. RuTypes' /\ BuTypes' /\ EventTypes'
    BY <1>1, <2>1 DEF Types, RuTypes, BuTypes, Block, EventTypes, Request, ruVars, buVars, netVars
  <2> QED
    BY <1>2, <2>3, <2>4 DEF Types
<1>6. CASE ServiceBuRqst
  <2> DEFINE rqst == IF Parameters.assignRoundRobin THEN RoundRobin(requestFIFOs) ELSE FromFullest(requestFIFOs)
             m == [evbId |-> Head(eventFIFO), resource |-> rqst.element]
  <2>1. IsTaken(requestFIFOs, rqst, BUs)
    BY <1>6, RoundRobinTakes, FromFullestTakes, PeersAreNumbers DEF ServiceBuRqst, Types, SetupTypes, EvmTypes
  <2>2. /\ requestFIFOs' = rqst.rest
        /\ confirms' = [confirms EXCEPT ![rqst.index] = Append(@, m)]
        /\ passed' = [o \in BUs |-> IF o = rqst.index \/ ~ Waits(o) THEN 0 ELSE passed[o] + 1]
        /\ joined' = [joined EXCEPT ![rqst.index] = 0]
        /\ eventFIFO # << >> /\ eventFIFO' = Tail(eventFIFO)
        /\ UNCHANGED << nbTriggers, readout, releasedEvbIdFIFO, evbIdMap, ruVars, buVars, toRU, toEVM, rqsts, blocks >>
    BY <1>6 DEF ServiceBuRqst
  <2> HIDE DEF rqst
  <2>3. Head(eventFIFO) \in Id /\ Tail(eventFIFO) \in Seq(Id)
    BY <2>2 DEF Types, EvmTypes
  <2>4. m \in Token
    BY <2>1, <2>3 DEF Token, IsTaken
  <2>5. confirms' \in [BUs -> Seq(Token)]
    <3> HIDE DEF m
    <3>1. rqst.index \in BUs /\ confirms \in [BUs -> Seq(Token)]
      BY <2>1 DEF Types, EvmTypes, BuTypes, IsTaken, IsCollection
    <3>2. Append(confirms[rqst.index], m) \in Seq(Token)
      BY <2>4, <3>1
    <3> QED
      BY <2>2, <3>1, <3>2
  <2>6. passed' \in [BUs -> Nat] /\ joined' \in [BUs -> Nat] /\ IsCollection(requestFIFOs', BUs)
    <3>1. passed \in [BUs -> Nat] /\ joined \in [BUs -> Nat]
      BY DEF Types, EvmTypes
    <3>2. passed' \in [BUs -> Nat]
      BY <2>2, <3>1
    <3>3. joined' \in [BUs -> Nat]
      BY <2>2, <3>1
    <3>4. IsCollection(requestFIFOs', BUs)
      BY <2>1, <2>2 DEF IsTaken
    <3> QED
      BY <3>2, <3>3, <3>4
  <2>7. EvmTypes'
    BY <1>1, <2>2, <2>3, <2>6 DEF Types, EvmTypes
  <2>8. RuTypes' /\ BuTypes' /\ EventTypes'
    BY <1>1, <2>2, <2>5 DEF Types, RuTypes, BuTypes, Block, EventTypes, Request, ruVars, buVars
  <2> QED
    BY <1>2, <2>7, <2>8 DEF Types
<1> QED
  BY <1>3, <1>4, <1>5, <1>6

LEMMA RuStepTypes ==
  ASSUME Types, NEW u \in RUs, RuReadout(u) \/ ProcessTrigger(u) \/ \E b \in BUs : RuSend(u, b)
  PROVE  Types'
<1>1. /\ UNCHANGED << setup, configuration, nbTriggers, readout, eventFIFO, requestFIFOs, releasedEvbIdFIFO, evbIdMap,
                      passed, joined, evtIdRqsts, triggerFIFO, rqstForFrags, blockFIFO, events, built, toEVM, confirms >>
      /\ BUs' = BUs /\ RUs' = RUs
  BY DEF RuReadout, ProcessTrigger, RuSend, participants, BUs, RUs, evmVars, buVars
<1>2. SetupTypes' /\ EvmTypes' /\ EventTypes'
  BY <1>1 DEF Types, SetupTypes, EvmTypes, EventTypes
<1>3. CASE RuReadout(u)
  <2>1. /\ toRU[u] # << >> /\ evbIdFIFO' = [evbIdFIFO EXCEPT ![u] = Append(@, Head(toRU[u]))]
        /\ toRU' = [toRU EXCEPT ![u] = Tail(@)]
        /\ UNCHANGED << data, requests, rqsts, blocks >>
    BY <1>3 DEF RuReadout
  <2>2. Append(evbIdFIFO[u], Head(toRU[u])) \in Seq(Id) /\ Tail(toRU[u]) \in Seq(Id)
    BY <2>1 DEF Types, RuTypes
  <2>3. RuTypes'
    BY <1>1, <2>1, <2>2 DEF Types, RuTypes, Request
  <2> QED
    BY <1>1, <1>2, <2>1, <2>3 DEF Types, BuTypes, Block
<1>4. ASSUME NEW r \in Request, SendData(u, r)
      PROVE  blocks' \in [BUs -> [RUs -> Seq(Token)]]
  <2> DEFINE t == [evbId |-> r.evbId, resource |-> r.resource]
  <2>1. t \in Token /\ r.bu \in BUs
    BY DEF Token, Request
  <2>2. blocks \in [BUs -> [RUs -> Seq(Token)]] /\ blocks' = [blocks EXCEPT ![r.bu][u] = Append(@, t)]
    BY <1>4 DEF Types, BuTypes, SendData
  <2> HIDE DEF t
  <2>3. Append(blocks[r.bu][u], t) \in Seq(Token)
    BY <2>1, <2>2
  <2> QED
    BY <2>1, <2>2, <2>3
<1>5. CASE ProcessTrigger(u)
  <2> DEFINE evbId == Head(evbIdFIFO[u])
             asked == { r \in requests[u] : r.evbId = evbId }
  <2>1. /\ evbIdFIFO[u] # << >> /\ evbIdFIFO' = [evbIdFIFO EXCEPT ![u] = Tail(@)]
        /\ UNCHANGED << toRU, rqsts >>
        /\ \/ UNCHANGED << data, requests, blocks >>
           \/ data' = [data EXCEPT ![u] = @ \cup {evbId}] /\ UNCHANGED << requests, blocks >>
           \/ /\ \E r \in asked : SendData(u, r)
              /\ requests' = [requests EXCEPT ![u] = @ \ asked]
              /\ UNCHANGED data
    BY <1>5 DEF ProcessTrigger
  <2>2. evbId \in Id /\ Tail(evbIdFIFO[u]) \in Seq(Id)
    BY <2>1 DEF Types, RuTypes
  <2>3. requests[u] \subseteq Request
    BY DEF Types, RuTypes
  <2>4. evbIdFIFO' \in [RUs -> Seq(Id)]
    BY <2>1, <2>2 DEF Types, RuTypes
  <2>5. data' \in [RUs -> SUBSET Id] /\ requests' \in [RUs -> SUBSET Request]
    <3> HIDE DEF evbId, asked
    <3> QED
      BY <2>1, <2>2 DEF Types, RuTypes
  <2>6. blocks' \in [BUs -> [RUs -> Seq(Token)]]
    <3>1. blocks' = blocks \/ \E r \in Request : SendData(u, r)
      BY <2>1, <2>3
    <3> QED
      BY <1>4, <3>1 DEF Types, BuTypes
  <2>7. RuTypes' /\ BuTypes'
    BY <1>1, <2>1, <2>4, <2>5, <2>6 DEF Types, RuTypes, BuTypes, Block, Request
  <2> QED
    BY <1>2, <2>7 DEF Types
<1>6. ASSUME NEW b \in BUs, RuSend(u, b)
      PROVE  Types'
  <2> DEFINE h == Head(rqsts[u][b])
             r == [bu |-> b, evbId |-> h.evbId, resource |-> h.resource]
  <2>1. /\ rqsts[u][b] # << >> /\ rqsts' = [rqsts EXCEPT ![u][b] = Tail(@)]
        /\ UNCHANGED << toRU, evbIdFIFO >>
        /\ \/ UNCHANGED << data, requests, blocks >>
           \/ SendData(u, r) /\ data' = [data EXCEPT ![u] = @ \ {r.evbId}] /\ UNCHANGED requests
           \/ requests' = [requests EXCEPT ![u] = @ \cup {r}] /\ UNCHANGED << data, blocks >>
    BY <1>6 DEF RuSend
  <2>2. h \in Token /\ Tail(rqsts[u][b]) \in Seq(Token)
    BY <2>1 DEF Types, BuTypes
  <2>3. r \in Request
    BY <2>2 DEF Token, Request
  <2> HIDE DEF h, r
  <2>4. data' \in [RUs -> SUBSET Id] /\ requests' \in [RUs -> SUBSET Request]
    BY <2>1, <2>3 DEF Types, RuTypes
  <2>5. blocks' \in [BUs -> [RUs -> Seq(Token)]]
    BY <1>4, <2>1, <2>3 DEF Types, BuTypes
  <2>6. rqsts' \in [RUs -> [BUs -> Seq(Token)]]
    BY <2>1, <2>2 DEF Types, BuTypes
  <2>7. RuTypes' /\ BuTypes'
    BY <1>1, <2>1, <2>4, <2>5, <2>6 DEF Types, RuTypes, BuTypes, Block, Request
  <2> QED
    BY <1>2, <2>7 DEF Types
<1> QED
  BY <1>3, <1>5, <1>6

LEMMA BroadcastTypes ==
  ASSUME NEW b \in BUs, rqsts \in [RUs -> [BUs -> Seq(Token)]], NEW msg \in Seq(Token), NEW reached
  PROVE  [u \in RUs |-> IF u \in reached THEN [rqsts[u] EXCEPT ![b] = @ \o msg] ELSE rqsts[u]]
           \in [RUs -> [BUs -> Seq(Token)]]
<1>1. ASSUME NEW u \in RUs
      PROVE  [rqsts[u] EXCEPT ![b] = @ \o msg] \in [BUs -> Seq(Token)]
  <2>1. rqsts[u] \in [BUs -> Seq(Token)]
    OBVIOUS
  <2>2. rqsts[u][b] \o msg \in Seq(Token)
    BY <2>1
  <2> QED
    BY <2>1, <2>2
<1> QED
  BY <1>1

LEMMA BuStepTypes ==
  ASSUME Types, NEW b \in BUs,
         \/ AllocateClear(b) \/ BuConfirm(b) \/ StartConstruction(b) \/ AppendSuperFragment(b)
         \/ SendOldEvmRequests(b) \/ SendOldRuRequests(b) \/ \E u \in RUs : BuCache(b, u)
  PROVE  Types'
<1>1. /\ UNCHANGED << setup, configuration, nbTriggers, readout, eventFIFO, evbIdMap, toRU, evbIdFIFO, data, requests >>
      /\ BUs' = BUs /\ RUs' = RUs
  BY DEF AllocateClear, BuConfirm, StartConstruction, AppendSuperFragment, SendOldEvmRequests, SendOldRuRequests,
         BuCache, participants, BUs, RUs, evmVars, ruVars
<1>2. SetupTypes' /\ RuTypes'
  BY <1>1 DEF Types, SetupTypes, RuTypes, Request
<1>3. CASE AllocateClear(b)
  <2> DEFINE e == Head(toEVM[b])
  <2>1. /\ toEVM[b] # << >> /\ toEVM' = [toEVM EXCEPT ![b] = Tail(@)]
        /\ requestFIFOs' = Enq(requestFIFOs, b, e.resource)
        /\ releasedEvbIdFIFO' = IF e.release = 0 THEN releasedEvbIdFIFO ELSE Append(releasedEvbIdFIFO, e.release)
        /\ joined' = [o \in BUs |-> IF b \in DOMAIN requestFIFOs.queues \/ ~ Waits(o) THEN joined[o] ELSE joined[o] + 1]
        /\ passed' = passed
        /\ UNCHANGED << buVars, confirms, rqsts, blocks >>
    BY <1>3 DEF AllocateClear
  <2>2. e \in Element /\ Tail(toEVM[b]) \in Seq(Element)
    BY <2>1 DEF Types, BuTypes
  <2> HIDE DEF e
  <2>3. e.resource \in Nat /\ e.release \in Nat
    BY <2>2 DEF Element
  <2>4. IsCollection(requestFIFOs', BUs)
    BY <2>1, <2>3, EnqIsCollection DEF Types, EvmTypes
  <2>5. releasedEvbIdFIFO' \in Seq(Id)
    <3>1. releasedEvbIdFIFO \in Seq(Id)
      BY DEF Types, EvmTypes
    <3>2. e.release # 0 => Append(releasedEvbIdFIFO, e.release) \in Seq(Id)
      BY <2>3, <3>1 DEF Id
    <3> QED
      BY <2>1, <3>1, <3>2
  <2>6. joined' \in [BUs -> Nat]
    BY <2>1 DEF Types, EvmTypes
  <2>7. EvmTypes'
    BY <1>1, <2>1, <2>4, <2>5, <2>6 DEF Types, EvmTypes
  <2>8. BuTypes' /\ EventTypes'
    BY <1>1, <2>1, <2>2 DEF Types, BuTypes, Block, EventTypes, buVars
  <2> QED
    BY <1>2, <2>7, <2>8 DEF Types
<1>4. CASE BuConfirm(b)
  <2>1. /\ confirms[b] # << >>
        /\ triggerFIFO' = [triggerFIFO EXCEPT ![b] = Append(@, Head(confirms[b]))]
        /\ confirms' = [confirms EXCEPT ![b] = Tail(@)]
        /\ UNCHANGED << evmVars, evtIdRqsts, rqstForFrags, blockFIFO, events, toEVM, rqsts, blocks >>
    BY <1>4 DEF BuConfirm
  <2>2. Append(triggerFIFO[b], Head(confirms[b])) \in Seq(Token) /\ Tail(confirms[b]) \in Seq(Token)
    BY <2>1 DEF Types, BuTypes
  <2>3. BuTypes' /\ EventTypes' /\ EvmTypes'
    BY <1>1, <2>1, <2>2 DEF Types, BuTypes, Block, EventTypes, EvmTypes, evmVars
  <2> QED
    BY <1>2, <2>3 DEF Types
<1>5. ASSUME NEW u \in RUs, BuCache(b, u)
      PROVE  Types'
  <2> DEFINE h == Head(blocks[b][u])
             t == [ru |-> u, evbId |-> h.evbId, resource |-> h.resource]
  <2>1. /\ blocks[b][u] # << >>
        /\ blockFIFO' = [blockFIFO EXCEPT ![b] = Append(@, t)]
        /\ blocks' = [blocks EXCEPT ![b][u] = Tail(@)]
        /\ UNCHANGED << evmVars, evtIdRqsts, triggerFIFO, rqstForFrags, events, toEVM, confirms, rqsts >>
    BY <1>5 DEF BuCache
  <2>2. h \in Token /\ Tail(blocks[b][u]) \in Seq(Token)
    BY <2>1 DEF Types, BuTypes
  <2>3. t \in Block
    BY <2>2, PeersAreNumbers DEF Token, Block, Types, SetupTypes
  <2> HIDE DEF t
  <2>4. blockFIFO' \in [BUs -> Seq(Block)] /\ blocks' \in [BUs -> [RUs -> Seq(Token)]]
    BY <2>1, <2>2, <2>3 DEF Types, BuTypes
  <2>5. BuTypes' /\ EventTypes' /\ EvmTypes'
    BY <1>1, <2>1, <2>4 DEF Types, BuTypes, Block, EventTypes, EvmTypes, evmVars
  <2> QED
    BY <1>2, <2>5 DEF Types
<1>6. CASE StartConstruction(b)
  <2> DEFINE t == Head(triggerFIFO[b])
             event == Event(t, {}, 1, buRUs[b].ruCount + 1)
  <2>1. /\ triggerFIFO[b] # << >> /\ triggerFIFO' = [triggerFIFO EXCEPT ![b] = Tail(@)]
        /\ UNCHANGED << evmVars, blockFIFO, confirms, blocks >>
        /\ \/ UNCHANGED << events, evtIdRqsts, toEVM, rqstForFrags, rqsts >>
           \/ /\ CheckForCompleteEvent(b, event)
              /\ (\E reached : RequestDataForTrigger(b, t, reached)) \/ UNCHANGED << rqstForFrags, rqsts >>
    BY <1>6 DEF StartConstruction
  <2>2. t \in Token /\ Tail(triggerFIFO[b]) \in Seq(Token)
    BY <2>1 DEF Types, BuTypes
  <2>3. event.evbId \in Id /\ event.resource \in Nat
    BY <2>2 DEF Event, Token
  <2> HIDE DEF t, event
  <2>4. EventTypes' /\ evtIdRqsts' \in [BUs -> Seq(Element)] /\ toEVM' \in [BUs -> Seq(Element)]
    <3>1. EventTypes /\ evtIdRqsts \in [BUs -> Seq(Element)] /\ toEVM \in [BUs -> Seq(Element)]
      BY DEF Types, BuTypes
    <3>2. CASE UNCHANGED << events, evtIdRqsts, toEVM, rqstForFrags, rqsts >>
      BY <1>1, <3>1, <3>2 DEF EventTypes
    <3>3. CASE CheckForCompleteEvent(b, event)
      BY <1>1, <2>3, <3>1, <3>3, CheckTypes
    <3> QED
      BY <2>1, <3>2, <3>3
  <2> DEFINE msg == Append(rqstForFrags[b], t)
  <2>5. msg \in Seq(Token)
    BY <2>2 DEF Types, BuTypes
  <2>6. ASSUME NEW reached, RequestDataForTrigger(b, t, reached)
        PROVE  rqstForFrags' \in [BUs -> Seq(Token)] /\ rqsts' \in [RUs -> [BUs -> Seq(Token)]]
    <3>1. /\ \/ rqstForFrags' = [rqstForFrags EXCEPT ![b] = << >>]
             \/ rqstForFrags' = [rqstForFrags EXCEPT ![b] = msg]
          /\ \/ rqsts' = rqsts
             \/ rqsts' = [u \in RUs |-> IF u \in reached THEN [rqsts[u] EXCEPT ![b] = @ \o msg] ELSE rqsts[u]]
      BY <2>6 DEF RequestDataForTrigger
    <3> HIDE DEF msg
    <3>2. rqsts \in [RUs -> [BUs -> Seq(Token)]] /\ rqstForFrags \in [BUs -> Seq(Token)] /\ << >> \in Seq(Token)
      BY DEF Types, BuTypes
    <3>3. rqstForFrags' \in [BUs -> Seq(Token)]
      BY <2>5, <3>1, <3>2
    <3>4. rqsts' \in [RUs -> [BUs -> Seq(Token)]]
      <4> DEFINE sent == [u \in RUs |-> IF u \in reached THEN [rqsts[u] EXCEPT ![b] = @ \o msg] ELSE rqsts[u]]
      <4>1. sent \in [RUs -> [BUs -> Seq(Token)]]
        BY <2>5, <3>2, BroadcastTypes
      <4>2. rqsts' = rqsts \/ rqsts' = sent
        BY <3>1
      <4> HIDE DEF sent
      <4> QED
        BY <3>2, <4>1, <4>2
    <3> QED
      BY <3>3, <3>4
  <2>7. rqstForFrags' \in [BUs -> Seq(Token)] /\ rqsts' \in [RUs -> [BUs -> Seq(Token)]]
    BY <2>1, <2>6 DEF Types, BuTypes
  <2>8. BuTypes'
    BY <1>1, <2>1, <2>2, <2>4, <2>7 DEF Types, BuTypes, Block
  <2>9. EvmTypes'
    BY <1>1, <2>1 DEF Types, EvmTypes, evmVars
  <2> QED
    BY <1>2, <2>4, <2>8, <2>9 DEF Types
<1>7. CASE AppendSuperFragment(b)
  <2> DEFINE block == Head(blockFIFO[b])
             old == events[b][block.resource]
             event == Event(old, old.superFragments \cup {[ru |-> block.ru, evbId |-> block.evbId]},
                            old.nbCompleteSuperFragments + 1, old.nbExpectedSuperFragments)
  <2>1. /\ blockFIFO[b] # << >> /\ blockFIFO' = [blockFIFO EXCEPT ![b] = Tail(@)]
        /\ UNCHANGED << evmVars, triggerFIFO, rqstForFrags, confirms, rqsts, blocks >>
        /\ \/ UNCHANGED << events, evtIdRqsts, toEVM >>
           \/ block.resource \in DOMAIN events[b] /\ CheckForCompleteEvent(b, event)
    BY <1>7 DEF AppendSuperFragment
  <2>2. Tail(blockFIFO[b]) \in Seq(Block)
    BY <2>1 DEF Types, BuTypes
  <2>3. EventTypes /\ evtIdRqsts \in [BUs -> Seq(Element)] /\ toEVM \in [BUs -> Seq(Element)]
    BY DEF Types, BuTypes
  <2>4. EventTypes' /\ evtIdRqsts' \in [BUs -> Seq(Element)] /\ toEVM' \in [BUs -> Seq(Element)]
    <3>1. CASE UNCHANGED << events, evtIdRqsts, toEVM >>
      BY <1>1, <2>3, <3>1 DEF EventTypes
    <3>2. CASE block.resource \in DOMAIN events[b] /\ CheckForCompleteEvent(b, event)
      <4>1. event.evbId \in Id /\ event.resource \in Nat
        BY <2>3, <3>2 DEF Event, EventTypes
      <4> HIDE DEF event
      <4> QED
        BY <1>1, <2>3, <3>2, <4>1, CheckTypes
    <3> QED
      BY <2>1, <3>1, <3>2
  <2>5. BuTypes'
    BY <1>1, <2>1, <2>2, <2>4 DEF Types, BuTypes, Block
  <2>6. EvmTypes'
    BY <1>1, <2>1 DEF Types, EvmTypes, evmVars
  <2> QED
    BY <1>2, <2>4, <2>5, <2>6 DEF Types
<1>8. CASE SendOldEvmRequests(b)
  <2>1. /\ toEVM' = [toEVM EXCEPT ![b] = @ \o evtIdRqsts[b]] /\ evtIdRqsts' = [evtIdRqsts EXCEPT ![b] = << >>]
        /\ UNCHANGED << evmVars, triggerFIFO, rqstForFrags, blockFIFO, events, confirms, rqsts, blocks >>
    BY <1>8 DEF SendOldEvmRequests
  <2>2. toEVM' \in [BUs -> Seq(Element)] /\ evtIdRqsts' \in [BUs -> Seq(Element)]
    BY <2>1 DEF Types, BuTypes
  <2>3. BuTypes' /\ EventTypes' /\ EvmTypes'
    BY <1>1, <2>1, <2>2 DEF Types, BuTypes, Block, EventTypes, EvmTypes, evmVars
  <2> QED
    BY <1>2, <2>3 DEF Types
<1>9. CASE SendOldRuRequests(b)
  <2>1. /\ \E reached : rqsts' = [u \in RUs |-> IF u \in reached THEN [rqsts[u] EXCEPT ![b] = @ \o rqstForFrags[b]]
                                                 ELSE rqsts[u]]
        /\ rqstForFrags' = [rqstForFrags EXCEPT ![b] = << >>] \/ rqstForFrags' = rqstForFrags
        /\ UNCHANGED << evmVars, evtIdRqsts, triggerFIFO, blockFIFO, events, toEVM, confirms, blocks >>
    BY <1>9 DEF SendOldRuRequests
  <2>2. /\ rqsts \in [RUs -> [BUs -> Seq(Token)]] /\ rqstForFrags \in [BUs -> Seq(Token)]
        /\ rqstForFrags[b] \in Seq(Token) /\ << >> \in Seq(Token)
    BY DEF Types, BuTypes
  <2>3. PICK reached : rqsts' = [u \in RUs |-> IF u \in reached THEN [rqsts[u] EXCEPT ![b] = @ \o rqstForFrags[b]]
                                               ELSE rqsts[u]]
    BY <2>1
  <2>4. rqsts' \in [RUs -> [BUs -> Seq(Token)]]
    BY <2>2, <2>3, BroadcastTypes
  <2>5. rqsts' \in [RUs -> [BUs -> Seq(Token)]] /\ rqstForFrags' \in [BUs -> Seq(Token)]
    BY <2>1, <2>2, <2>4
  <2>6. BuTypes' /\ EventTypes' /\ EvmTypes'
    BY <1>1, <2>1, <2>5 DEF Types, BuTypes, Block, EventTypes, EvmTypes, evmVars
  <2> QED
    BY <1>2, <2>6 DEF Types
<1> QED
  BY <1>3, <1>4, <1>5, <1>6, <1>7, <1>8, <1>9

LEMMA TypesNext ==
  ASSUME Types, [Next]_vars
  PROVE  Types'
<1>1. CASE UNCHANGED vars
  <2>1. /\ UNCHANGED << setup, configuration >> /\ UNCHANGED evmVars /\ UNCHANGED ruVars /\ UNCHANGED buVars
        /\ UNCHANGED netVars
    BY <1>1 DEF vars, participants
  <2>2. BUs' = BUs /\ RUs' = RUs
    BY <2>1 DEF BUs, RUs
  <2>3. SetupTypes' /\ EvmTypes' /\ EventTypes'
    BY <2>1, <2>2 DEF Types, SetupTypes, EvmTypes, EventTypes, evmVars, buVars
  <2>4. RuTypes' /\ BuTypes'
    BY <2>1, <2>2 DEF Types, RuTypes, BuTypes, Block, Request, ruVars, buVars, netVars
  <2> QED
    BY <2>3, <2>4 DEF Types
<1>2. CASE Halt
  <2>1. /\ UNCHANGED << setup, configuration >> /\ UNCHANGED evmVars /\ UNCHANGED ruVars /\ UNCHANGED buVars
        /\ UNCHANGED netVars
    BY <1>2 DEF Halt
  <2>2. BUs' = BUs /\ RUs' = RUs
    BY <2>1 DEF BUs, RUs
  <2>3. SetupTypes' /\ EvmTypes' /\ EventTypes'
    BY <2>1, <2>2 DEF Types, SetupTypes, EvmTypes, EventTypes, evmVars, buVars
  <2>4. RuTypes' /\ BuTypes'
    BY <2>1, <2>2 DEF Types, RuTypes, BuTypes, Block, Request, ruVars, buVars, netVars
  <2> QED
    BY <2>3, <2>4 DEF Types
<1>3. CASE Configure
  BY <1>3, ConfigureTypes
<1>4. CASE TakeTrigger \/ SendOldEvBids \/ ProcessNextReleasedEvent \/ ServiceBuRqst
  BY <1>4, EvmStepTypes
<1>5. ASSUME NEW u \in RUs, RuReadout(u) \/ ProcessTrigger(u) \/ \E b \in BUs : RuSend(u, b)
      PROVE  Types'
  BY <1>5, RuStepTypes
<1>6. ASSUME NEW b \in BUs,
             \/ AllocateClear(b) \/ BuConfirm(b) \/ StartConstruction(b) \/ AppendSuperFragment(b)
             \/ SendOldEvmRequests(b) \/ SendOldRuRequests(b) \/ \E u \in RUs : BuCache(b, u)
      PROVE  Types'
  BY <1>6, BuStepTypes
<1> QED
  BY <1>1, <1>2, <1>3, <1>4, <1>5, <1>6 DEF Next

-----------------------------------------------------------------------------
(***************************************************************************)
(* The turns of the BUs.  While a BU waits, each event that goes to        *)
(* another BU takes that one out of the queues that come before its own.   *)
(***************************************************************************)
\* The queues, from the next one on, before that of b.
Before(D, next, b) ==
  IF next <= b THEN { i \in D : next <= i /\ i < b } ELSE { i \in D : next <= i \/ i < b }

LEMMA BeforeIsSmaller ==
  ASSUME NEW D, IsFiniteSet(D), D \subseteq Nat, NEW next \in Nat, NEW b \in D
  PROVE  /\ IsFiniteSet(Before(D, next, b)) /\ Before(D, next, b) \subseteq D
         /\ Cardinality(Before(D, next, b)) \in Nat /\ Cardinality(D) \in Nat
         /\ Cardinality(Before(D, next, b)) < Cardinality(D)
<1> DEFINE X == Before(D, next, b)
<1>1. X \subseteq D \ {b} /\ X \subseteq D
  BY DEF Before
<1>2. IsFiniteSet(D \ {b}) /\ Cardinality(D \ {b}) = Cardinality(D) - 1
  BY FS_RemoveElement
<1>3. IsFiniteSet(X) /\ Cardinality(X) <= Cardinality(D \ {b})
  BY <1>1, <1>2, FS_Subset
<1>4. Cardinality(X) \in Nat /\ Cardinality(D) \in Nat
  BY <1>3, FS_CardinalityType
<1> QED
  BY <1>1, <1>2, <1>3, <1>4

\* When another queue is taken from in its turn, it was before that of b, and is no more.
LEMMA TurnPasses ==
  ASSUME NEW D, IsFiniteSet(D), D \subseteq Nat, NEW next \in D, NEW after \in D,
         NEW filled \in SUBSET D, NEW i \in filled, NEW b \in filled, b # i,
         FirstInTurn(filled, next, i),
         \/ after > i /\ (\A j \in D : ~ (i < j /\ j < after))
         \/ (\A j \in D : j <= i) /\ (\A j \in D : after <= j)
  PROVE  Cardinality(Before(D, after, b)) < Cardinality(Before(D, next, b))
<1> DEFINE X == Before(D, next, b)
           Y == Before(D, after, b)
<1>1. i \in Nat /\ b \in Nat /\ next \in Nat /\ after \in Nat /\ i \in D /\ b \in D /\ \A j \in D : j \in Nat
  OBVIOUS
<1>2. i \in X
  BY <1>1 DEF FirstInTurn, Before
<1>3. ASSUME NEW j \in Y
      PROVE  j \in X /\ j # i
  <2>1. j \in D /\ j \in Nat /\ (IF after <= b THEN after <= j /\ j < b ELSE after <= j \/ j < b)
    BY <1>1, <1>3 DEF Before
  <2>2. CASE next <= b
    <3>1. next <= i /\ i < b
      BY <1>1, <1>2, <2>2 DEF Before
    <3>2. after > i /\ after <= b
      BY <1>1, <3>1
    <3>3. next <= j /\ j < b /\ j # i
      BY <1>1, <2>1, <3>1, <3>2
    <3> QED
      BY <2>1, <2>2, <3>3 DEF Before
  <2>3. CASE ~ (next <= b)
    <3>1. next <= i \/ i < b
      BY <1>1, <1>2, <2>3 DEF Before
    <3>2. CASE next <= i
      <4>1. CASE after > i
        <5>1. after > b
          BY <1>1, <2>3, <3>2, <4>1
        <5>2. j # i /\ (next <= j \/ j < b)
          BY <1>1, <2>1, <2>3, <3>2, <4>1, <5>1
        <5> QED
          BY <2>1, <2>3, <5>2 DEF Before
      <4>2. CASE ~ (after > i)
        <5>1. after <= b
          BY <1>1, <4>2
        <5>2. j < b /\ j # i
          BY <1>1, <2>1, <2>3, <3>2, <5>1
        <5> QED
          BY <2>1, <2>3, <5>2 DEF Before
      <4> QED
        BY <4>1, <4>2
    <3>3. CASE ~ (next <= i)
      <4>1. i < b
        BY <3>1, <3>3
      <4>2. after > i /\ after <= b
        BY <1>1, <4>1
      <4>3. j < b /\ j # i
        BY <1>1, <2>1, <4>1, <4>2
      <4> QED
        BY <2>1, <2>3, <4>3 DEF Before
    <3> QED
      BY <3>2, <3>3
  <2> QED
    BY <2>2, <2>3
<1>4. Y \subseteq X \ {i}
  BY <1>3
<1>5. IsFiniteSet(X) /\ Cardinality(X) \in Nat
  BY <1>1, BeforeIsSmaller
<1>6. IsFiniteSet(X \ {i}) /\ Cardinality(X \ {i}) = Cardinality(X) - 1
  BY <1>2, <1>5, FS_RemoveElement
<1>7. IsFiniteSet(Y) /\ Cardinality(Y) <= Cardinality(X \ {i})
  BY <1>4, <1>6, FS_Subset
<1>8. Cardinality(Y) \in Nat
  BY <1>7, FS_CardinalityType
<1> QED
  BY <1>5, <1>6, <1>7, <1>8

\* How often a BU may be passed over while so many queues are created.
Allowed(j) == (j + 1) * (Cardinality(BUs) - 1)

LEMMA AllowedGrows ==
  ASSUME setup \in Setups, NEW b \in BUs, NEW j \in Nat
  PROVE  /\ Cardinality(BUs) - 1 \in Nat /\ Allowed(j) \in Nat /\ Cardinality(BUs) - 1 <= Allowed(j)
         /\ Allowed(j + 1) = Allowed(j) + (Cardinality(BUs) - 1)
<1>1. IsFiniteSet(BUs)
  BY PeersAreNumbers
<1>2. Cardinality(BUs) \in Nat /\ Cardinality(BUs) # 0
  BY <1>1, FS_CardinalityType, FS_EmptySet
<1>3. PICK k \in Nat : k = Cardinality(BUs) - 1
  BY <1>2
<1>4. (j + 1) * k = j * k + k /\ ((j + 1) + 1) * k = (j + 1) * k + k /\ j * k \in Nat
  BY ONLY j \in Nat, k \in Nat
<1>5. (j + 1) * k \in Nat /\ k <= (j + 1) * k
  BY <1>3, <1>4
<1> QED
  BY <1>3, <1>4, <1>5 DEF Allowed

InTurn ==
  configuration > 0 /\ Parameters.assignRoundRobin =>
    LET D == DOMAIN requestFIFOs.queues
    IN \A b \in D : passed[b] + Cardinality(Before(D, requestFIFOs.next, b)) <= Allowed(joined[b])

TurnInv == /\ \A b \in BUs : Elements(requestFIFOs, b) = << >> => passed[b] = 0
           /\ InTurn

LEMMA TurnInvIsFair == Types /\ TurnInv => RoundRobinIsFair
<1> SUFFICES ASSUME Types, TurnInv, configuration > 0, Parameters.assignRoundRobin, NEW b \in BUs
             PROVE  passed[b] <= Allowed(joined[b])
  BY DEF RoundRobinIsFair, Allowed
<1> DEFINE D == DOMAIN requestFIFOs.queues
<1>1. IsFiniteSet(BUs) /\ BUs \subseteq Nat
  BY PeersAreNumbers DEF Types, SetupTypes
<1>2. IsCollection(requestFIFOs, BUs) /\ passed[b] \in Nat /\ joined[b] \in Nat
  BY DEF Types, EvmTypes
<1>3. Allowed(joined[b]) \in Nat
  BY <1>2, AllowedGrows DEF Types, SetupTypes
<1>4. CASE b \notin D
  <2>1. Elements(requestFIFOs, b) = << >>
    BY <1>4 DEF Elements
  <2>2. passed[b] = 0
    BY <2>1 DEF TurnInv
  <2> QED
    BY <1>3, <2>2
<1>5. CASE b \in D
  <2>1. D \subseteq BUs /\ requestFIFOs.next \in D
    BY <1>2, <1>5 DEF IsCollection
  <2>2. IsFiniteSet(D)
    BY <1>1, <2>1, FS_Subset
  <2> DEFINE n == Cardinality(Before(D, requestFIFOs.next, b))
  <2>3. n \in Nat
    <3> HIDE DEF D
    <3> QED
      BY <1>1, <1>5, <2>1, <2>2, BeforeIsSmaller
  <2>4. passed[b] + n <= Allowed(joined[b])
    BY <1>5 DEF TurnInv, InTurn
  <2> HIDE DEF n, D
  <2> QED
    BY <1>2, <1>3, <2>3, <2>4
<1> QED
  BY <1>4, <1>5

LEMMA TurnInit == Init => TurnInv
BY DEF Init, TurnInv, InTurn, EmptyCollection

\* The turn may be anywhere.
LEMMA AnyTurn ==
  ASSUME NEW c, IsCollection(c, BUs), setup \in Setups, NEW b \in DOMAIN c.queues, NEW j \in Nat
  PROVE  /\ Cardinality(Before(DOMAIN c.queues, c.next, b)) \in 0..(Cardinality(BUs) - 1)
         /\ 0 + Cardinality(Before(DOMAIN c.queues, c.next, b)) <= Allowed(j)
<1>1. IsFiniteSet(BUs) /\ BUs \subseteq Nat
  BY PeersAreNumbers
<1>2. DOMAIN c.queues \subseteq BUs /\ c.next \in DOMAIN c.queues
  BY DEF IsCollection
<1>3. IsFiniteSet(DOMAIN c.queues) /\ Cardinality(DOMAIN c.queues) <= Cardinality(BUs)
  BY <1>1, <1>2, FS_Subset
<1> DEFINE n == Cardinality(Before(DOMAIN c.queues, c.next, b))
           m == Cardinality(DOMAIN c.queues)
<1>4. n \in Nat /\ m \in Nat /\ n < m
  BY <1>1, <1>2, <1>3, BeforeIsSmaller
<1>5. /\ Cardinality(BUs) - 1 \in Nat /\ Allowed(j) \in Nat /\ Cardinality(BUs) - 1 <= Allowed(j)
      /\ Cardinality(BUs) \in Nat
  BY <1>1, <1>2, AllowedGrows, FS_CardinalityType
<1>6. m <= Cardinality(BUs)
  BY <1>3
<1> HIDE DEF n, m
<1>7. n \in 0..(Cardinality(BUs) - 1) /\ 0 + n <= Allowed(j)
  BY <1>4, <1>5, <1>6
<1> QED
  BY <1>7 DEF n

LEMMA TurnOfService ==
  ASSUME Types, TurnInv, ServiceBuRqst
  PROVE  TurnInv'
<1> DEFINE c == requestFIFOs
           D == DOMAIN c.queues
           rqst == IF Parameters.assignRoundRobin THEN RoundRobin(c) ELSE FromFullest(c)
<1>1. /\ requestFIFOs' = rqst.rest /\ CanDeq(c)
      /\ passed' = [o \in BUs |-> IF o = rqst.index \/ Elements(c, o) = << >> THEN 0 ELSE passed[o] + 1]
      /\ joined' = [joined EXCEPT ![rqst.index] = 0]
      /\ UNCHANGED << setup, configuration >>
  BY DEF ServiceBuRqst, participants, Waits
<1>2. IsCollection(c, BUs) /\ passed \in [BUs -> Nat] /\ joined \in [BUs -> Nat] /\ IsFiniteSet(BUs) /\ BUs \subseteq Nat
  BY PeersAreNumbers DEF Types, EvmTypes, SetupTypes
<1>3. IsTaken(c, rqst, BUs)
  BY <1>1, <1>2, RoundRobinTakes, FromFullestTakes
<1>4. BUs' = BUs /\ Parameters' = Parameters
  BY <1>1 DEF BUs, Parameters
<1> HIDE DEF rqst
<1>5. DOMAIN rqst.rest.queues = D /\ IsCollection(rqst.rest, BUs)
  BY <1>3 DEF IsTaken
<1>6. ASSUME NEW b \in BUs, Elements(requestFIFOs', b) = << >>
      PROVE  passed'[b] = 0
  <2>1. b = rqst.index \/ Elements(c, b) = << >>
    BY <1>1, <1>3, <1>6 DEF IsTaken
  <2> QED
    BY <1>1, <2>1
<1>7. ASSUME configuration > 0, Parameters.assignRoundRobin, NEW b \in D
      PROVE  passed'[b] + Cardinality(Before(D, rqst.rest.next, b)) <= Allowed(joined'[b])
  <2>1. b \in BUs /\ D \subseteq BUs /\ c.next \in D /\ rqst.rest.next \in D
    BY <1>2, <1>5 DEF IsCollection
  <2>2. CASE passed'[b] = 0
    <3>1. setup \in Setups /\ joined'[b] \in Nat
      BY <1>1, <1>2, <2>1 DEF Types, SetupTypes
    <3>2. 0 + Cardinality(Before(D, rqst.rest.next, b)) <= Allowed(joined'[b])
      BY <1>5, <3>1, AnyTurn
    <3> QED
      BY <2>2, <3>2
  <2>3. CASE passed'[b] # 0
    <3>1. b # rqst.index /\ Elements(c, b) # << >> /\ passed'[b] = passed[b] + 1 /\ joined'[b] = joined[b]
      BY <1>1, <1>2, <2>1, <2>3
    <3>2. b \in Filled(c) /\ rqst.index \in Filled(c) /\ Filled(c) \subseteq D
      BY <1>3, <3>1 DEF IsTaken, Elements, Filled
    <3>3. /\ FirstInTurn(Filled(c), c.next, rqst.index)
          /\ rqst.rest.next = Following(c, rqst.index)
      BY <1>1, <1>2, <1>7, RoundRobinTakes DEF rqst
    <3>4. IsFiniteSet(D) /\ D \subseteq Nat
      BY <1>2, <2>1, FS_Subset
    <3> DEFINE i == rqst.index
               after == Following(c, i)
    <3>5. /\ after \in D
          /\ \/ after > i /\ (\A j \in D : ~ (i < j /\ j < after))
             \/ (\A j \in D : j <= i) /\ (\A j \in D : after <= j)
      <4>1. i \in Nat
        BY <3>2, <3>4
      <4>2. D # {}
        BY <2>1
      <4> HIDE DEF i
      <4> QED
        BY <1>2, <4>1, <4>2, FollowingIsIn
    <3> DEFINE m == Cardinality(Before(D, c.next, b))
               n == Cardinality(Before(D, after, b))
    <3>6. n < m
      <4> HIDE DEF i, after, D
      <4>1. FirstInTurn(Filled(c), c.next, i) /\ i \in Filled(c) /\ i # b
        BY <3>1, <3>2, <3>3 DEF i
      <4> QED
        BY <2>1, <3>2, <3>4, <3>5, <4>1, TurnPasses
    <3>7. m \in Nat /\ n \in Nat
      <4>1. c.next \in Nat /\ after \in Nat
        BY <2>1, <3>4, <3>5
      <4> HIDE DEF after, D
      <4> QED
        BY <3>4, <4>1, BeforeIsSmaller, b \in D
    <3>8. passed[b] + m <= Allowed(joined[b])
      BY <1>7 DEF TurnInv, InTurn
    <3>9. passed[b] \in Nat /\ Allowed(joined[b]) \in Nat
      BY <1>2, <2>1, AllowedGrows DEF Types, SetupTypes
    <3>10. rqst.rest.next = after
      BY <3>3
    <3> HIDE DEF m, n, after, D
    <3>11. passed[b] + 1 + n <= Allowed(joined[b])
      BY <3>6, <3>7, <3>8, <3>9
    <3> QED
      BY <3>1, <3>10, <3>11 DEF n
  <2> QED
    BY <2>2, <2>3
<1> QED
  BY <1>1, <1>4, <1>5, <1>6, <1>7 DEF TurnInv, InTurn, Allowed

LEMMA TurnOfAllocate ==
  ASSUME Types, TurnInv, NEW b \in BUs, AllocateClear(b)
  PROVE  TurnInv'
<1> DEFINE c == requestFIFOs
           d == requestFIFOs'
           e == Head(toEVM[b])
<1>1. /\ toEVM[b] # << >> /\ d = Enq(c, b, e.resource)
      /\ joined' = [o \in BUs |-> IF b \in DOMAIN c.queues \/ Elements(c, o) = << >> THEN joined[o] ELSE joined[o] + 1]
      /\ UNCHANGED << setup, configuration, passed >>
  BY DEF AllocateClear, participants, Waits
<1>2. BUs' = BUs /\ Parameters' = Parameters
  BY <1>1 DEF BUs, Parameters
<1>3. e \in Element
  BY <1>1 DEF Types, BuTypes
<1> HIDE DEF e
<1>4. e.resource \in Nat /\ IsCollection(c, BUs) /\ setup \in Setups
  BY <1>3 DEF Types, EvmTypes, SetupTypes, Element
<1> DEFINE x == Enq(c, b, e.resource)
<1>5. /\ IsCollection(x, BUs) /\ DOMAIN x.queues = DOMAIN c.queues \cup {b}
      /\ b \in DOMAIN c.queues => x.next = c.next
      /\ Elements(c, b) \in Seq(Nat)
      /\ \A j : Elements(x, j) = IF j = b THEN Append(Elements(c, b), e.resource) ELSE Elements(c, j)
  <2>1. PICK n \in Nat : n = e.resource
    BY <1>4
  <2>2. PICK f : f = c
    OBVIOUS
  <2>3. b \in BUs /\ IsCollection(f, BUs)
    BY <1>4, <2>2
  <2>4. /\ IsCollection(Enq(f, b, n), BUs)
        /\ DOMAIN Enq(f, b, n).queues = DOMAIN f.queues \cup {b}
        /\ b \in DOMAIN f.queues => Enq(f, b, n).next = f.next
        /\ Elements(f, b) \in Seq(Nat)
        /\ \A j : Elements(Enq(f, b, n), j) = IF j = b THEN Append(Elements(f, b), n) ELSE Elements(f, j)
    BY ONLY <2>3, EnqIsCollection, n \in Nat, SMTT(60)
  <2> QED
    BY ONLY <2>1, <2>2, <2>4
<1>6. d = x
  BY <1>1
<1> HIDE DEF x
<1>7. /\ IsCollection(d, BUs) /\ DOMAIN d.queues = DOMAIN c.queues \cup {b}
      /\ b \in DOMAIN c.queues => d.next = c.next
      /\ Elements(c, b) \in Seq(Nat)
      /\ \A j : Elements(d, j) = IF j = b THEN Append(Elements(c, b), e.resource) ELSE Elements(c, j)
  BY <1>5, <1>6
<1>8. passed \in [BUs -> Nat] /\ joined \in [BUs -> Nat] /\ DOMAIN d.queues \subseteq BUs
  BY <1>7 DEF Types, EvmTypes, IsCollection
<1>9. ASSUME NEW o \in BUs, Elements(d, o) = << >>
      PROVE  passed'[o] = 0
  <2>1. Append(Elements(c, b), e.resource) # << >>
    BY <1>4, <1>7
  <2>2. Elements(c, o) = << >>
    BY <1>7, <1>9, <2>1
  <2> QED
    BY <1>1, <2>2 DEF TurnInv
<1>10. ASSUME configuration > 0, Parameters.assignRoundRobin, NEW o \in DOMAIN d.queues
       PROVE  passed[o] + Cardinality(Before(DOMAIN d.queues, d.next, o)) <= Allowed(joined'[o])
  <2> DEFINE n == Cardinality(Before(DOMAIN d.queues, d.next, o))
             k == Cardinality(BUs) - 1
  <2>1. o \in BUs /\ passed[o] \in Nat /\ joined[o] \in Nat /\ joined'[o] \in Nat
    BY <1>1, <1>8
  <2>2. CASE b \in DOMAIN c.queues
    <3>1. DOMAIN d.queues = DOMAIN c.queues /\ d.next = c.next /\ joined'[o] = joined[o]
      BY <1>1, <1>7, <2>1, <2>2
    <3> QED
      BY <1>10, <3>1 DEF TurnInv, InTurn
  <2>3. CASE Elements(c, o) = << >>
    <3>1. passed[o] = 0
      BY <2>1, <2>3 DEF TurnInv
    <3>2. 0 + n <= Allowed(joined'[o])
      BY <1>4, <1>7, <2>1, AnyTurn
    <3> QED
      BY <3>1, <3>2
  <2>4. CASE b \notin DOMAIN c.queues /\ Elements(c, o) # << >>
    <3>1. joined'[o] = joined[o] + 1 /\ o \in DOMAIN c.queues
      BY <1>1, <2>1, <2>4 DEF Elements
    <3> DEFINE m == Cardinality(Before(DOMAIN c.queues, c.next, o))
    <3>2. passed[o] + m <= Allowed(joined[o])
      BY <1>10, <3>1 DEF TurnInv, InTurn
    <3>3. n \in 0..k
      BY <1>4, <1>7, <2>1, AnyTurn
    <3>4. m \in 0..k
      BY <1>4, <2>1, <3>1, AnyTurn
    <3>5. k \in Nat /\ Allowed(joined[o]) \in Nat /\ Allowed(joined'[o]) = Allowed(joined[o]) + k
      BY <1>4, <2>1, <3>1, AllowedGrows
    <3> HIDE DEF n, m, k
    <3>6. passed[o] + n <= Allowed(joined[o]) + k
      BY <2>1, <3>2, <3>3, <3>4, <3>5
    <3>7. passed[o] + n <= Allowed(joined'[o])
      BY <3>5, <3>6
    <3> QED
      BY <3>7 DEF n
  <2> QED
    BY <2>2, <2>3, <2>4
<1> QED
  BY <1>1, <1>2, <1>9, <1>10 DEF TurnInv, InTurn, Allowed

LEMMA TurnNext ==
  ASSUME Types, TurnInv, [Next]_vars
  PROVE  TurnInv'
<1>1. CASE UNCHANGED << setup, configuration, requestFIFOs, passed, joined >>
  <2>1. BUs' = BUs /\ Parameters' = Parameters
    BY <1>1 DEF BUs, Parameters
  <2> QED
    BY <1>1, <2>1 DEF TurnInv, InTurn, Allowed
<1>2. CASE Configure
  <2>1. /\ requestFIFOs' = Drained(requestFIFOs) /\ passed' = [b \in BUs |-> 0]
        /\ joined' = [b \in BUs |-> 0] /\ UNCHANGED setup
    BY <1>2 DEF Configure
  <2>2. IsCollection(requestFIFOs', BUs) /\ setup \in Setups
    BY <2>1, PeersAreNumbers, DrainedIsCollection DEF Types, SetupTypes, EvmTypes
  <2> DEFINE d == requestFIFOs'
  <2>3. \A o \in DOMAIN d.queues : 0 + Cardinality(Before(DOMAIN d.queues, d.next, o)) <= Allowed(0)
    BY <2>2, AnyTurn
  <2>4. DOMAIN d.queues \subseteq BUs /\ BUs' = BUs
    BY <2>1, <2>2 DEF IsCollection, BUs
  <2> QED
    BY <2>1, <2>3, <2>4 DEF TurnInv, InTurn, Allowed
<1>3. ASSUME NEW b \in BUs, AllocateClear(b)
      PROVE  TurnInv'
  BY <1>3, TurnOfAllocate
<1>4. CASE ServiceBuRqst
  BY <1>4, TurnOfService
<1>5. CASE Halt \/ TakeTrigger \/ SendOldEvBids \/ ProcessNextReleasedEvent \/ UNCHANGED vars
  BY <1>1, <1>5 DEF Halt, TakeTrigger, SendOldEvBids, ProcessNextReleasedEvent, vars, participants, evmVars
<1>6. ASSUME NEW u \in RUs, RuReadout(u) \/ ProcessTrigger(u) \/ \E b \in BUs : RuSend(u, b) \/ BuCache(b, u)
      PROVE  TurnInv'
  BY <1>1, <1>6 DEF RuReadout, ProcessTrigger, RuSend, BuCache, participants, evmVars
<1>7. ASSUME NEW b \in BUs, \/ BuConfirm(b) \/ StartConstruction(b) \/ AppendSuperFragment(b)
                            \/ SendOldEvmRequests(b) \/ SendOldRuRequests(b)
      PROVE  TurnInv'
  BY <1>1, <1>7 DEF BuConfirm, StartConstruction, AppendSuperFragment, SendOldEvmRequests, SendOldRuRequests,
                    participants, evmVars
<1> QED
  BY <1>2, <1>3, <1>4, <1>5, <1>6, <1>7 DEF Next

\* With assignRoundRobin a BU that waits is passed over at most once by each other BU, and as often
\* again for each queue that is created for another BU while it waits
\* (OneToOneQueueCollection::enq and deq, BUproxy::serviceBuRqst).
THEOREM TurnsCorrect == Spec => []RoundRobinIsFair
<1> DEFINE Inv == Types /\ TurnInv
<1>1. Init => Inv
  BY TypesInit, TurnInit
<1>2. Inv /\ [Next]_vars => Inv'
  BY TypesNext, TurnNext
<1>3. Inv => RoundRobinIsFair
  BY TurnInvIsFair
<1> QED
  BY <1>1, <1>2, <1>3, PTL DEF Spec

-----------------------------------------------------------------------------
(***************************************************************************)
(* The order of the triggers.  What an RU is told of increases, and so     *)
(* does what it has yet to be told of, as long as the EVM works.           *)
(***************************************************************************)
Coming(u)     == evbIdFIFO[u] \o toRU[u]
Increasing(q) == \A i, j \in DOMAIN q : i < j => q[i] < q[j]
Failed(app)   == app \in { f.app : f \in failures }

LEMMA IncreasingConcat ==
  ASSUME NEW p \in Seq(Id), NEW q \in Seq(Id), Increasing(p), Increasing(q),
         \A x \in Range(p), y \in Range(q) : x < y
  PROVE  Increasing(p \o q)
<1>1. /\ p \o q \in Seq(Id) /\ DOMAIN p = 1..Len(p) /\ DOMAIN q = 1..Len(q) /\ DOMAIN (p \o q) = 1..(Len(p) + Len(q))
      /\ Len(p) \in Nat /\ Len(q) \in Nat
  OBVIOUS
<1>2. \A i \in 1..(Len(p) + Len(q)) : (p \o q)[i] = IF i <= Len(p) THEN p[i] ELSE q[i - Len(p)]
  OBVIOUS
<1>3. \A i \in 1..Len(p), j \in 1..Len(q) : p[i] < q[j]
  BY <1>1 DEF Range
<1>4. ASSUME NEW i \in 1..(Len(p) + Len(q)), NEW j \in 1..(Len(p) + Len(q)), i < j
      PROVE  (p \o q)[i] < (p \o q)[j]
  <2>1. CASE j <= Len(p)
    BY <1>1, <1>2, <1>4, <2>1 DEF Increasing
  <2>2. CASE i <= Len(p) /\ ~ (j <= Len(p))
    BY <1>1, <1>2, <1>3, <2>2
  <2>3. CASE ~ (i <= Len(p))
    <3>1. /\ (p \o q)[i] = q[i - Len(p)] /\ (p \o q)[j] = q[j - Len(p)]
          /\ i - Len(p) \in 1..Len(q) /\ j - Len(p) \in 1..Len(q) /\ i - Len(p) < j - Len(p)
      BY <1>1, <1>2, <1>4, <2>3
    <3> QED
      BY <1>1, <3>1 DEF Increasing
  <2> QED
    BY <1>1, <2>1, <2>2, <2>3
<1> QED
  BY <1>1, <1>4 DEF Increasing

LEMMA IncreasingTail ==
  ASSUME NEW q \in Seq(Id), q # << >>, Increasing(q)
  PROVE  /\ Increasing(Tail(q)) /\ Range(Tail(q)) \subseteq Range(q) /\ Head(q) \in Range(q)
         /\ \A x \in Range(Tail(q)) : Head(q) < x
<1>1. /\ 1 \in DOMAIN q /\ q[1] = Head(q)
      /\ \A i \in DOMAIN q : i \in Nat
      /\ \A i \in DOMAIN Tail(q) : i \in Nat /\ i + 1 # 1 /\ i + 1 \in DOMAIN q /\ Tail(q)[i] = q[i + 1]
  BY TailAt
<1>2. \A i \in DOMAIN Tail(q) : 1 < i + 1
  BY <1>1
<1>3. \A i, j \in DOMAIN Tail(q) : i < j => i + 1 < j + 1
  BY <1>1
<1>4. Increasing(Tail(q))
  BY <1>1, <1>3 DEF Increasing
<1>5. \A i \in DOMAIN Tail(q) : Head(q) < Tail(q)[i]
  BY <1>1, <1>2 DEF Increasing
<1> QED
  BY <1>1, <1>4, <1>5 DEF Range

LEMMA IncreasingAppend ==
  ASSUME NEW q \in Seq(Id), Increasing(q), NEW n \in Nat, \A x \in Range(q) : x <= n
  PROVE  /\ Append(q, n + 1) \in Seq(Id) /\ Increasing(Append(q, n + 1))
         /\ Range(Append(q, n + 1)) = Range(q) \cup {n + 1}
         /\ \A x \in Range(Append(q, n + 1)) : x <= n + 1
<1>1. n + 1 \in Id
  BY DEF Id
<1>2. /\ Append(q, n + 1) \in Seq(Id)
      /\ DOMAIN Append(q, n + 1) = DOMAIN q \cup {Len(q) + 1} /\ DOMAIN q = 1..Len(q) /\ Len(q) \in Nat
      /\ \A i \in DOMAIN q : Append(q, n + 1)[i] = q[i] /\ q[i] \in Id
      /\ Append(q, n + 1)[Len(q) + 1] = n + 1
  BY <1>1, AppendAt
<1>3. Range(Append(q, n + 1)) = Range(q) \cup {n + 1}
  BY <1>1, RangeAppend
<1>4. \A i \in DOMAIN q : q[i] <= n /\ q[i] \in Nat
  BY <1>2 DEF Range, Id
<1>5. \A i, j \in DOMAIN Append(q, n + 1) : i < j => Append(q, n + 1)[i] < Append(q, n + 1)[j]
  <2> SUFFICES ASSUME NEW i \in DOMAIN Append(q, n + 1), NEW j \in DOMAIN Append(q, n + 1), i < j
               PROVE  Append(q, n + 1)[i] < Append(q, n + 1)[j]
    OBVIOUS
  <2>1. i \in DOMAIN q
    BY <1>2
  <2>2. CASE j \in DOMAIN q
    BY <1>2, <2>1, <2>2 DEF Increasing
  <2>3. CASE j = Len(q) + 1
    BY <1>2, <1>4, <2>1, <2>3
  <2> QED
    BY <1>2, <2>2, <2>3
<1>6. \A x \in Range(q) : x \in Nat /\ x <= n
  BY <1>2 DEF Range, Id
<1> QED
  BY <1>2, <1>3, <1>5, <1>6 DEF Increasing

Told(u) == data[u] \cup Range(Coming(u))

OrderOf(u) ==
  /\ Increasing(Coming(u))
  /\ \A x \in Told(u) : x <= nbTriggers
  /\ \A x \in data[u], y \in Range(Coming(u)) : x < y

OrderInv ==
  /\ \A u \in RUs : OrderOf(u)
  /\ Increasing(readout) /\ \A x \in Range(readout) : x <= nbTriggers
  /\ Failed(Evm) \/ \A u \in RUs : \A x \in Told(u), y \in Range(readout) : x < y

LEMMA OrderInit == Init => OrderInv
<1> SUFFICES ASSUME Init PROVE OrderInv
  OBVIOUS
<1>1. Increasing(<< >>) /\ Range(<< >>) = {} /\ << >> \o << >> = << >>
  BY DEF Increasing, Range
<1>2. \A u \in RUs : Coming(u) = << >> /\ data[u] = {}
  BY <1>1 DEF Init, Coming, Empty
<1> QED
  BY <1>1, <1>2 DEF Init, OrderInv, OrderOf, Told

LEMMA ComingTypes ==
  ASSUME Types, NEW u \in RUs
  PROVE  /\ evbIdFIFO[u] \in Seq(Id) /\ toRU[u] \in Seq(Id) /\ Coming(u) \in Seq(Id)
         /\ \A x \in Told(u) : x \in Nat
<1>1. evbIdFIFO[u] \in Seq(Id) /\ toRU[u] \in Seq(Id) /\ data[u] \subseteq Id
  BY DEF Types, RuTypes
<1>2. Coming(u) \in Seq(Id)
  BY <1>1 DEF Coming
<1>3. Range(Coming(u)) \subseteq Id
  BY <1>2 DEF Range
<1> QED
  BY <1>1, <1>2, <1>3 DEF Told, Id

\* The message of readout, as it is or with one more id, goes to some of the RUs.
LEMMA OrderOfBroadcast ==
  ASSUME Types, OrderInv, UNCHANGED << setup, data, evbIdFIFO >>, ~ Failed(Evm),
         NEW msg \in Seq(Id), Increasing(msg), nbTriggers' \in Nat, nbTriggers <= nbTriggers',
         \A x \in Range(msg) : x <= nbTriggers',
         \A u \in RUs : \A x \in Told(u), y \in Range(msg) : x < y,
         NEW reached, SendEvBidsToAllRUs(msg, reached),
         readout' = << >> \/ (readout' = msg /\ Failed(Evm)')
  PROVE  OrderInv'
<1>1. RUs' = RUs /\ nbTriggers \in Nat
  BY DEF RUs, Types, EvmTypes
<1>2. ASSUME NEW u \in RUs
      PROVE  OrderOf(u)'
  <2>1. /\ evbIdFIFO[u] \in Seq(Id) /\ toRU[u] \in Seq(Id) /\ Coming(u) \in Seq(Id)
        /\ \A x \in Told(u) : x \in Nat
    BY ComingTypes
  <2>2. Coming(u)' = Coming(u) \/ Coming(u)' = Coming(u) \o msg
    <3>1. toRU'[u] = toRU[u] \/ toRU'[u] = toRU[u] \o msg
      BY DEF SendEvBidsToAllRUs
    <3>2. (evbIdFIFO[u] \o toRU[u]) \o msg = evbIdFIFO[u] \o (toRU[u] \o msg)
      <4>1. evbIdFIFO[u] \in Seq(Id) /\ toRU[u] \in Seq(Id) /\ msg \in Seq(Id)
        BY <2>1
      <4>2. ASSUME NEW p \in Seq(Id), NEW q \in Seq(Id), NEW r \in Seq(Id)
            PROVE  (p \o q) \o r = p \o (q \o r)
        BY ONLY ConcatAssociative
      <4> QED
        BY ONLY <4>1, <4>2
    <3> QED
      BY <3>1, <3>2 DEF Coming
  <2>3. OrderOf(u)
    BY DEF OrderInv
  <2>4. \A x \in Told(u) : x <= nbTriggers'
    BY <1>1, <2>1, <2>3 DEF OrderOf
  <2>5. CASE Coming(u)' = Coming(u)
    BY <2>3, <2>4, <2>5 DEF OrderOf, Told
  <2>6. CASE Coming(u)' = Coming(u) \o msg
    <3>1. Range(Coming(u) \o msg) = Range(Coming(u)) \cup Range(msg)
      BY <2>1, RangeConcat
    <3>2. Increasing(Coming(u) \o msg)
      BY <2>1, <2>3, IncreasingConcat DEF OrderOf, Told
    <3>3. \A x \in data[u], y \in Range(Coming(u) \o msg) : x < y
      BY <2>3, <3>1 DEF OrderOf, Told
    <3>4. \A x \in data[u] \cup Range(Coming(u) \o msg) : x <= nbTriggers'
      BY <2>4, <3>1 DEF Told
    <3> QED
      BY <2>6, <3>2, <3>3, <3>4 DEF OrderOf, Told
  <2> QED
    BY <2>2, <2>5, <2>6
<1>3. Increasing(<< >>) /\ Range(<< >>) = {}
  BY DEF Increasing, Range
<1> QED
  BY <1>1, <1>2, <1>3 DEF OrderInv

LEMMA OrderOfTrigger ==
  ASSUME Types, OrderInv, TakeTrigger
  PROVE  OrderInv'
<1>1. /\ UNCHANGED << setup, data, evbIdFIFO >> /\ nbTriggers' = nbTriggers + 1 /\ nbTriggers \in Nat
      /\ readout \in Seq(Id) /\ ~ Failed(Evm)
  BY DEF TakeTrigger, participants, ruVars, Types, EvmTypes, Works, Failed
<1> DEFINE msg == Append(readout, nbTriggers + 1)
<1>2. Increasing(readout) /\ \A x \in Range(readout) : x <= nbTriggers
  BY DEF OrderInv
<1>3. /\ msg \in Seq(Id) /\ Increasing(msg) /\ Range(msg) = Range(readout) \cup {nbTriggers + 1}
      /\ \A x \in Range(msg) : x <= nbTriggers + 1
  BY <1>1, <1>2, IncreasingAppend
<1>4. ASSUME NEW u \in RUs, NEW x \in Told(u), NEW y \in Range(msg)
      PROVE  x < y
  <2>1. x \in Nat /\ x <= nbTriggers
    BY ComingTypes DEF OrderInv, OrderOf
  <2> QED
    BY <1>1, <1>3, <2>1 DEF OrderInv
<1>5. PICK reached : /\ AddEvBid(nbTriggers', reached)
                     /\ \/ /\ reached # evmRUs.participatingRUs /\ Len(readout) + 1 = EvBidsPacking
                           /\ Fail(Evm, "post")
                        \/ reached = evmRUs.participatingRUs
  BY DEF TakeTrigger
<1> HIDE DEF msg
<1>6. CASE Len(msg) = EvBidsPacking
  <2>1. /\ SendEvBidsToAllRUs(msg, reached)
        /\ readout' = IF reached = evmRUs.participatingRUs THEN << >> ELSE msg
    BY <1>1, <1>5, <1>6 DEF AddEvBid, msg
  <2>2. readout' = << >> \/ (readout' = msg /\ Failed(Evm)')
    BY <1>5, <2>1 DEF Fail, Failed
  <2>3. nbTriggers' \in Nat /\ nbTriggers <= nbTriggers' /\ \A x \in Range(msg) : x <= nbTriggers'
    BY <1>1, <1>3
  <2> QED
    BY <1>1, <1>3, <1>4, <2>1, <2>2, <2>3, OrderOfBroadcast
<1>7. CASE Len(msg) # EvBidsPacking
  <2>1. readout' = msg /\ toRU' = toRU
    BY <1>1, <1>5, <1>7 DEF AddEvBid, msg
  <2>2. RUs' = RUs
    BY <1>1 DEF RUs
  <2>3. \A u \in RUs : Coming(u)' = Coming(u) /\ Told(u)' = Told(u)
    BY <1>1, <2>1 DEF Coming, Told
  <2>4. \A u \in RUs : \A x \in Told(u) : x <= nbTriggers + 1
    BY <1>1, ComingTypes DEF OrderInv, OrderOf
  <2>5. \A u \in RUs : OrderOf(u)'
    BY <1>1, <2>3, <2>4 DEF OrderInv, OrderOf
  <2> QED
    BY <1>1, <1>3, <1>4, <2>1, <2>2, <2>3, <2>5 DEF OrderInv
<1> QED
  BY <1>6, <1>7

LEMMA OrderNext ==
  ASSUME Types, OrderInv, [Next]_vars
  PROVE  OrderInv'
<1>1. ASSUME UNCHANGED << setup, nbTriggers, readout >>, Failed(Evm) => Failed(Evm)',
             \A u \in RUs : /\ Increasing(Coming(u)') /\ Told(u)' \subseteq Told(u)
                            /\ \A x \in data'[u], y \in Range(Coming(u)') : x < y
      PROVE  OrderInv'
  <2>1. RUs' = RUs
    BY <1>1 DEF RUs
  <2>2. \A u \in RUs : OrderOf(u)'
    BY <1>1 DEF OrderInv, OrderOf
  <2> QED
    BY <1>1, <2>1, <2>2 DEF OrderInv
<1>2. ASSUME UNCHANGED << setup, nbTriggers, readout, evbIdFIFO, toRU, data >>, Failed(Evm) => Failed(Evm)'
      PROVE  OrderInv'
  <2>1. RUs' = RUs /\ \A u \in RUs : Coming(u)' = Coming(u) /\ data'[u] = data[u] /\ Told(u)' = Told(u)
    BY <1>2 DEF RUs, Coming, Told
  <2> QED
    BY <1>1, <1>2, <2>1 DEF OrderInv, OrderOf
<1>3. Failed(Evm) => Failed(Evm)'
  <2>1. UNCHANGED failures \/ \E app, why : Fail(app, why)
    BY DEF Next, vars, Configure, Halt, TakeTrigger, SendOldEvBids, ProcessNextReleasedEvent, ServiceBuRqst, RuReadout,
           ProcessTrigger, RuSend, BuCache, AllocateClear, BuConfirm, StartConstruction, RequestDataForTrigger,
           AppendSuperFragment, SendOldEvmRequests, SendOldRuRequests
  <2> QED
    BY <2>1 DEF Failed, Fail
<1>4. CASE Configure
  <2>1. UNCHANGED << setup, nbTriggers, evbIdFIFO, toRU, data >> /\ readout' = << >>
    BY <1>4 DEF Configure, ruVars
  <2>2. RUs' = RUs /\ \A u \in RUs : Coming(u)' = Coming(u) /\ Told(u)' = Told(u)
    BY <2>1 DEF RUs, Coming, Told
  <2>3. Increasing(<< >>) /\ Range(<< >>) = {}
    BY DEF Increasing, Range
  <2>4. \A u \in RUs : OrderOf(u)'
    BY <2>1, <2>2 DEF OrderInv, OrderOf
  <2> QED
    BY <2>1, <2>2, <2>3, <2>4 DEF OrderInv
<1>5. CASE TakeTrigger
  BY <1>5, OrderOfTrigger
<1>6. CASE SendOldEvBids
  <2>1. /\ UNCHANGED << setup, data, evbIdFIFO, nbTriggers >> /\ ~ Failed(Evm)
    BY <1>6 DEF SendOldEvBids, participants, ruVars, Works, Failed
  <2>2. PICK reached : /\ SendEvBidsToAllRUs(readout, reached)
                       /\ readout' = << >> \/ (readout' = readout /\ Fail(Evm, "post"))
    BY <1>6 DEF SendOldEvBids
  <2>3. readout' = << >> \/ (readout' = readout /\ Failed(Evm)')
    BY <2>2 DEF Fail, Failed
  <2>4. readout \in Seq(Id) /\ nbTriggers \in Nat
    BY DEF Types, EvmTypes
  <2>5. /\ Increasing(readout) /\ nbTriggers' \in Nat /\ nbTriggers <= nbTriggers'
        /\ \A x \in Range(readout) : x <= nbTriggers'
        /\ \A u \in RUs : \A x \in Told(u), y \in Range(readout) : x < y
    BY <2>1, <2>4 DEF OrderInv
  <2> QED
    BY <2>1, <2>2, <2>3, <2>4, <2>5, OrderOfBroadcast
<1>7. ASSUME NEW u \in RUs, RuReadout(u)
      PROVE  OrderInv'
  <2>1. /\ UNCHANGED << setup, nbTriggers, readout, data >> /\ toRU[u] # << >>
        /\ evbIdFIFO' = [evbIdFIFO EXCEPT ![u] = Append(@, Head(toRU[u]))] /\ toRU' = [toRU EXCEPT ![u] = Tail(@)]
    BY <1>7 DEF RuReadout, participants, evmVars
  <2>2. Append(evbIdFIFO[u], Head(toRU[u])) \o Tail(toRU[u]) = evbIdFIFO[u] \o toRU[u]
    BY <2>1, ComingTypes, MoveHead
  <2>3. \A v \in RUs : Coming(v)' = Coming(v) /\ Told(v)' = Told(v)
    BY <2>1, <2>2 DEF Coming, Told, Types, RuTypes
  <2> QED
    BY <1>1, <1>3, <2>1, <2>3 DEF OrderInv, OrderOf
<1>8. ASSUME NEW u \in RUs, ProcessTrigger(u)
      PROVE  OrderInv'
  <2>1. /\ UNCHANGED << setup, nbTriggers, readout, toRU >> /\ evbIdFIFO[u] # << >>
        /\ evbIdFIFO' = [evbIdFIFO EXCEPT ![u] = Tail(@)]
        /\ data' = data \/ data' = [data EXCEPT ![u] = @ \cup {Head(evbIdFIFO[u])}]
    BY <1>8 DEF ProcessTrigger, participants, evmVars
  <2>2. /\ evbIdFIFO[u] \in Seq(Id) /\ toRU[u] \in Seq(Id) /\ Coming(u) \in Seq(Id)
        /\ evbIdFIFO \in [RUs -> Seq(Id)] /\ data \in [RUs -> SUBSET Id]
    BY ComingTypes DEF Types, RuTypes
  <2>3. /\ Coming(u) # << >> /\ Head(Coming(u)) = Head(evbIdFIFO[u])
        /\ Tail(evbIdFIFO[u]) \o toRU[u] = Tail(Coming(u))
    BY <2>1, <2>2, TakeHead DEF Coming
  <2>4. Coming(u)' = Tail(Coming(u))
    BY <2>1, <2>2, <2>3 DEF Coming
  <2>5. OrderOf(u)
    BY DEF OrderInv
  <2>6. /\ Increasing(Tail(Coming(u))) /\ Range(Tail(Coming(u))) \subseteq Range(Coming(u))
        /\ Head(Coming(u)) \in Range(Coming(u)) /\ \A x \in Range(Tail(Coming(u))) : Head(Coming(u)) < x
    BY <2>2, <2>3, <2>5, IncreasingTail DEF OrderOf
  <2>7. data'[u] \subseteq data[u] \cup {Head(Coming(u))}
    BY <2>1, <2>2, <2>3
  <2>8. \A x \in data'[u], y \in Range(Coming(u)') : x < y
    BY <2>4, <2>5, <2>6, <2>7 DEF OrderOf
  <2>9. Told(u)' \subseteq Told(u)
    BY <2>4, <2>6, <2>7 DEF Told
  <2>10. \A v \in RUs : v # u => Coming(v)' = Coming(v) /\ data'[v] = data[v] /\ Told(v)' = Told(v)
    BY <2>1, <2>2 DEF Coming, Told
  <2>11. \A v \in RUs : /\ Increasing(Coming(v)') /\ Told(v)' \subseteq Told(v)
                        /\ \A x \in data'[v], y \in Range(Coming(v)') : x < y
    BY <2>4, <2>6, <2>8, <2>9, <2>10 DEF OrderInv, OrderOf
  <2> QED
    BY <1>1, <1>3, <2>1, <2>11
<1>9. ASSUME NEW u \in RUs, NEW b \in BUs, RuSend(u, b)
      PROVE  OrderInv'
  <2>1. /\ UNCHANGED << setup, nbTriggers, readout, toRU, evbIdFIFO >>
        /\ data' = data \/ \E x : data' = [data EXCEPT ![u] = @ \ {x}]
    BY <1>9 DEF RuSend, participants, evmVars
  <2>2. \A v \in RUs : Coming(v)' = Coming(v) /\ data'[v] \subseteq data[v] /\ Told(v)' \subseteq Told(v)
    BY <2>1 DEF Coming, Told, Types, RuTypes
  <2> QED
    BY <1>1, <1>3, <2>1, <2>2 DEF OrderInv, OrderOf
<1>10. CASE Halt \/ ProcessNextReleasedEvent \/ ServiceBuRqst \/ UNCHANGED vars
  BY <1>2, <1>3, <1>10 DEF Halt, ProcessNextReleasedEvent, ServiceBuRqst, vars, participants, evmVars, ruVars, netVars
<1>11. ASSUME NEW b \in BUs, \/ BuConfirm(b) \/ StartConstruction(b) \/ AppendSuperFragment(b) \/ AllocateClear(b)
                             \/ SendOldEvmRequests(b) \/ SendOldRuRequests(b) \/ \E u \in RUs : BuCache(b, u)
      PROVE  OrderInv'
  BY <1>2, <1>3, <1>11 DEF BuConfirm, StartConstruction, AppendSuperFragment, SendOldEvmRequests, SendOldRuRequests,
                    AllocateClear, BuCache, participants, evmVars, ruVars
<1> QED
  BY <1>4, <1>5, <1>6, <1>7, <1>8, <1>9, <1>10, <1>11 DEF Next

\* The super-fragment of a trigger comes to the table of an RU once.
LEMMA NoSuperFragmentTwice ==
  ASSUME Types, OrderInv, NEW u \in RUs, evbIdFIFO[u] # << >>
  PROVE  Head(evbIdFIFO[u]) \notin data[u]
<1>1. /\ evbIdFIFO[u] \in Seq(Id) /\ toRU[u] \in Seq(Id) /\ Coming(u) \in Seq(Id)
      /\ \A x \in Told(u) : x \in Nat
  BY ComingTypes
<1>2. Coming(u) # << >> /\ Head(Coming(u)) = Head(evbIdFIFO[u])
  BY <1>1, TakeHead DEF Coming
<1>3. OrderOf(u)
  BY DEF OrderInv
<1>4. Head(Coming(u)) \in Range(Coming(u))
  BY <1>1, <1>2, <1>3, IncreasingTail DEF OrderOf
<1>5. Head(Coming(u)) \in Nat
  BY <1>1, <1>4 DEF Told
<1> QED
  BY <1>2, <1>3, <1>4, <1>5 DEF OrderOf

-----------------------------------------------------------------------------
(***************************************************************************)
(* The resources of a BU and the ids of the events.  A resource goes from  *)
(* the requests of the BU to the queue of the EVM, comes back with an id,  *)
(* holds the event, and goes to the EVM with the id.  It is in one of      *)
(* these places, and so is the id.                                         *)
(***************************************************************************)
Back(b)  == toEVM[b] \o evtIdRqsts[b]
Asked(b) == Elements(requestFIFOs, b)
Given(b) == triggerFIFO[b] \o confirms[b]

\* g is f with e at r, and without what was at r.
With(f, r, e, g) == DOMAIN g = DOMAIN f \cup {r} /\ \A s \in DOMAIN g : g[s] = IF s = r THEN e ELSE f[s]
Without(f, r, g) == DOMAIN g = DOMAIN f \ {r} /\ \A s \in DOMAIN g : g[s] = f[s]

\* back: to the EVM; asked: queued there; given: to the BU; held: under construction.
Places(back, asked, given, held) ==
  /\ \A x, y \in back : x.resource = y.resource \/ (x.release = y.release /\ x.release # 0) => x = y
  /\ \A x, y \in given : x.resource = y.resource \/ x.evbId = y.evbId => x = y
  /\ \A r \in DOMAIN held : held[r].resource = r
  /\ \A r, s \in DOMAIN held : held[r].evbId = held[s].evbId => r = s
  /\ \A x \in back, y \in given : x.resource # y.resource /\ x.release # y.evbId
  /\ \A x \in back : x.resource \notin asked /\ x.resource \notin DOMAIN held
  /\ \A x \in back, r \in DOMAIN held : x.release # held[r].evbId
  /\ \A y \in given : y.resource \notin asked /\ y.resource \notin DOMAIN held
  /\ \A y \in given, r \in DOMAIN held : y.evbId # held[r].evbId
  /\ asked \cap DOMAIN held = {}

IdsAt(back, given, held) ==
  ({ x.release : x \in back } \ {0}) \cup { y.evbId : y \in given } \cup { held[r].evbId : r \in DOMAIN held }

\* A request or a release comes to the EVM.
LEMMA PlacesAllocate ==
  ASSUME NEW back \in SUBSET Element, NEW asked, NEW given \in SUBSET Token, NEW held,
         Places(back, asked, given, held), NEW x \in back
  PROVE  /\ Places(back \ {x}, asked \cup {x.resource}, given, held)
         /\ IdsAt(back \ {x}, given, held) = IdsAt(back, given, held) \ {x.release}
         /\ x.release # 0 => x.release \in IdsAt(back, given, held)
         /\ x.resource \notin asked
<1>1. Places(back \ {x}, asked \cup {x.resource}, given, held)
  BY DEF Places
<1>2. \A y \in given : y.evbId # 0
  BY DEF Token, Id
<1>3. IdsAt(back \ {x}, given, held) = IdsAt(back, given, held) \ {x.release}
  BY <1>2 DEF Places, IdsAt
<1> QED
  BY <1>1, <1>3 DEF Places, IdsAt

\* An id is given to a request.
LEMMA PlacesService ==
  ASSUME NEW back \in SUBSET Element, NEW asked, NEW given \in SUBSET Token, NEW held,
         Places(back, asked, given, held), NEW t \in Token, t.resource \in asked,
         t.evbId \notin IdsAt(back, given, held)
  PROVE  /\ Places(back, asked \ {t.resource}, given \cup {t}, held)
         /\ IdsAt(back, given \cup {t}, held) = IdsAt(back, given, held) \cup {t.evbId}
         /\ t \notin given
<1>1. t.evbId # 0
  BY DEF Token, Id
<1>2. \A x \in back : x.release # t.evbId
  BY <1>1 DEF IdsAt
<1>3. \A y \in given : y.evbId # t.evbId
  BY DEF IdsAt
<1>4. \A r \in DOMAIN held : held[r].evbId # t.evbId
  BY DEF IdsAt
<1>5. Places(back, asked \ {t.resource}, given \cup {t}, held)
  BY <1>2, <1>3, <1>4 DEF Places
<1>6. IdsAt(back, given \cup {t}, held) = IdsAt(back, given, held) \cup {t.evbId}
  BY DEF IdsAt
<1> QED
  BY <1>3, <1>5, <1>6

\* The event is under construction.
LEMMA PlacesStart ==
  ASSUME NEW back \in SUBSET Element, NEW asked, NEW given \in SUBSET Token, NEW held,
         Places(back, asked, given, held), NEW t \in given, NEW holds, NEW event,
         event.resource = t.resource, event.evbId = t.evbId, With(held, t.resource, event, holds)
  PROVE  /\ Places(back, asked, given \ {t}, holds)
         /\ IdsAt(back, given \ {t}, holds) = IdsAt(back, given, held)
<1>1. /\ t.resource \notin DOMAIN held /\ \A r \in DOMAIN held : holds[r] = held[r]
      /\ DOMAIN holds = DOMAIN held \cup {t.resource}
  BY DEF Places, With
<1>2. holds[t.resource] = event
  BY DEF With
<1>3. Places(back, asked, given \ {t}, holds)
  BY <1>1, <1>2 DEF Places
<1>4. { holds[r].evbId : r \in DOMAIN holds } = { held[r].evbId : r \in DOMAIN held } \cup {t.evbId}
  BY <1>1, <1>2
<1>5. { y.evbId : y \in given } = { y.evbId : y \in given \ {t} } \cup {t.evbId}
  OBVIOUS
<1> QED
  BY <1>3, <1>4, <1>5 DEF IdsAt

\* The event is complete.
LEMMA PlacesComplete ==
  ASSUME NEW back \in SUBSET Element, NEW asked, NEW given \in SUBSET Token, NEW held,
         Places(back, asked, given, held), NEW r \in DOMAIN held, NEW holds, NEW x,
         x.resource = r, x.release = held[r].evbId, held[r].evbId # 0, Without(held, r, holds)
  PROVE  /\ Places(back \cup {x}, asked, given, holds)
         /\ IdsAt(back \cup {x}, given, holds) = IdsAt(back, given, held)
         /\ x \notin back
<1>1. /\ x.resource = r /\ x.release = held[r].evbId
      /\ DOMAIN holds = DOMAIN held \ {r} /\ \A s \in DOMAIN holds : holds[s] = held[s]
  BY DEF Without
<1>2. Places(back \cup {x}, asked, given, holds)
  BY <1>1 DEF Places
<1>3. { held[s].evbId : s \in DOMAIN held } = { holds[s].evbId : s \in DOMAIN holds } \cup {x.release}
  BY <1>1
<1>4. { y.release : y \in back \cup {x} } = { y.release : y \in back } \cup {x.release}
  OBVIOUS
<1> QED
  BY <1>1, <1>2, <1>3, <1>4 DEF IdsAt, Places

\* The event was complete as it came.
LEMMA PlacesStartComplete ==
  ASSUME NEW back \in SUBSET Element, NEW asked, NEW given \in SUBSET Token, NEW held,
         Places(back, asked, given, held), NEW t \in given, NEW holds, NEW x,
         x.resource = t.resource, x.release = t.evbId, Without(held, t.resource, holds)
  PROVE  /\ Places(back \cup {x}, asked, given \ {t}, holds)
         /\ IdsAt(back \cup {x}, given \ {t}, holds) = IdsAt(back, given, held)
         /\ x \notin back
<1>1. t.resource \notin DOMAIN held
  BY DEF Places
<1>2. DOMAIN holds = DOMAIN held /\ \A r \in DOMAIN held : holds[r] = held[r]
  BY <1>1 DEF Without
<1>3. t.evbId # 0
  BY DEF Token, Id
<1>4. Places(back \cup {x}, asked, given \ {t}, holds)
  BY <1>2, <1>3 DEF Places
<1>5. { holds[r].evbId : r \in DOMAIN holds } = { held[r].evbId : r \in DOMAIN held }
  BY <1>2
<1>6. { y.evbId : y \in given } = { y.evbId : y \in given \ {t} } \cup {t.evbId}
  OBVIOUS
<1>7. { y.release : y \in back \cup {x} } = { y.release : y \in back } \cup {t.evbId}
  BY <1>3
<1> QED
  BY <1>3, <1>4, <1>5, <1>6, <1>7 DEF IdsAt, Places

\* Another super-fragment comes.
LEMMA PlacesKept ==
  ASSUME NEW back, NEW asked, NEW given, NEW held, Places(back, asked, given, held), NEW holds,
         DOMAIN holds = DOMAIN held,
         \A s \in DOMAIN holds : holds[s].evbId = held[s].evbId /\ holds[s].resource = held[s].resource
  PROVE  Places(back, asked, given, holds) /\ IdsAt(back, given, holds) = IdsAt(back, given, held)
BY DEF Places, IdsAt

PlaceAt(b) ==
  /\ IsInjective(Back(b)) /\ IsInjective(Asked(b)) /\ IsInjective(Given(b))
  /\ Places(Range(Back(b)), Range(Asked(b)), Range(Given(b)), events[b])

PlaceInv == \A b \in BUs : PlaceAt(b)
HereAt(b) == IdsAt(Range(Back(b)), Range(Given(b)), events[b])

LEMMA PlaceTypes ==
  ASSUME Types, NEW b \in BUs
  PROVE  /\ toEVM[b] \in Seq(Element) /\ evtIdRqsts[b] \in Seq(Element) /\ Back(b) \in Seq(Element)
         /\ triggerFIFO[b] \in Seq(Token) /\ confirms[b] \in Seq(Token) /\ Given(b) \in Seq(Token)
         /\ Asked(b) \in Seq(Nat)
         /\ Range(Back(b)) \subseteq Element /\ Range(Given(b)) \subseteq Token
<1>1. /\ toEVM[b] \in Seq(Element) /\ evtIdRqsts[b] \in Seq(Element)
      /\ triggerFIFO[b] \in Seq(Token) /\ confirms[b] \in Seq(Token)
  BY DEF Types, BuTypes
<1>2. Back(b) \in Seq(Element) /\ Given(b) \in Seq(Token)
  BY <1>1 DEF Back, Given
<1>3. Asked(b) \in Seq(Nat)
  BY DEF Types, EvmTypes, IsCollection, Asked, Elements
<1>4. Range(Back(b)) \subseteq Element /\ Range(Given(b)) \subseteq Token
  BY <1>2 DEF Range
<1> QED
  BY <1>1, <1>2, <1>3, <1>4

LEMMA PlaceSame ==
  ASSUME NEW b, Back(b)' = Back(b), Asked(b)' = Asked(b), Given(b)' = Given(b), events'[b] = events[b]
  PROVE  PlaceAt(b)' = PlaceAt(b) /\ HereAt(b)' = HereAt(b)
BY DEF PlaceAt, HereAt, Places, IdsAt

\* What becomes of an event whose trigger or super-fragment has come.
LEMMA CheckEffect ==
  ASSUME Types, NEW b \in BUs, NEW event, event.resource \in Nat, event.evbId \in Id,
         CheckForCompleteEvent(b, event)
  PROVE  /\ \A c \in BUs : c # b => Back(c)' = Back(c) /\ events'[c] = events[c]
         /\ event.nbCompleteSuperFragments = event.nbExpectedSuperFragments =>
              /\ Back(b)' = Append(Back(b), [resource |-> event.resource, release |-> event.evbId])
              /\ Without(events[b], event.resource, events'[b])
              /\ built' = built \cup {[run |-> configuration, evbId |-> event.evbId,
                                       superFragments |-> event.superFragments]}
         /\ event.nbCompleteSuperFragments # event.nbExpectedSuperFragments =>
              /\ Back(b)' = Back(b)
              /\ With(events[b], event.resource, event, events'[b])
              /\ built' = built
<1> DEFINE e == [resource |-> event.resource, release |-> event.evbId]
<1>1. e \in Element
  BY DEF Element, Id
<1>2. /\ toEVM \in [BUs -> Seq(Element)] /\ evtIdRqsts \in [BUs -> Seq(Element)] /\ DOMAIN events = BUs
  BY DEF Types, BuTypes, EventTypes
<1>3. CASE event.nbCompleteSuperFragments = event.nbExpectedSuperFragments
  <2>1. /\ events' = [events EXCEPT ![b] = [r \in DOMAIN events[b] \ {event.resource} |-> events[b][r]]]
        /\ built' = built \cup {[run |-> configuration, evbId |-> event.evbId,
                                 superFragments |-> event.superFragments]}
        /\ SendEvtIdRqst(b, e)
    BY <1>3 DEF CheckForCompleteEvent
  <2> HIDE DEF e
  <2> DEFINE msg == Append(evtIdRqsts[b], e)
  <2>2. msg \in Seq(Element) /\ toEVM[b] \in Seq(Element) /\ evtIdRqsts[b] \in Seq(Element)
    BY <1>1, <1>2
  <2>3. \/ evtIdRqsts' = [evtIdRqsts EXCEPT ![b] = << >>] /\ toEVM' = [toEVM EXCEPT ![b] = @ \o msg]
        \/ evtIdRqsts' = [evtIdRqsts EXCEPT ![b] = msg] /\ toEVM' = toEVM
    BY <2>1 DEF SendEvtIdRqst
  <2>4. toEVM[b] \o msg = Append(Back(b), e)
    <3>1. PICK p, q, x : p = toEVM[b] /\ q = evtIdRqsts[b] /\ x = e
      OBVIOUS
    <3>2. p \in Seq(Element) /\ q \in Seq(Element) /\ x \in Element
      BY <1>1, <2>2, <3>1
    <3>3. p \o Append(q, x) = Append(p \o q, x)
      BY ONLY <3>2, AddLast
    <3> QED
      BY <3>1, <3>3 DEF Back
  <2>5. (toEVM[b] \o msg) \o << >> = toEVM[b] \o msg
    <3>1. toEVM[b] \o msg \in Seq(Element)
      BY <2>2
    <3> HIDE DEF msg
    <3> QED
      BY <3>1, ConcatEmptySeq
  <2> HIDE DEF msg
  <2>6. Back(b)' = Append(Back(b), e)
    BY <1>2, <2>3, <2>4, <2>5 DEF Back
  <2>7. \A c \in BUs : c # b => Back(c)' = Back(c) /\ events'[c] = events[c]
    BY <1>2, <2>1, <2>3 DEF Back
  <2>8. Without(events[b], event.resource, events'[b])
    BY <1>2, <2>1 DEF Without
  <2> QED
    BY <1>3, <2>1, <2>6, <2>7, <2>8 DEF e
<1>4. CASE event.nbCompleteSuperFragments # event.nbExpectedSuperFragments
  <2>1. /\ events' = [events EXCEPT ![b] = [r \in DOMAIN events[b] \cup {event.resource} |->
                                              IF r = event.resource THEN event ELSE events[b][r]]]
        /\ UNCHANGED << built, evtIdRqsts, toEVM >>
    BY <1>4 DEF CheckForCompleteEvent
  <2>2. With(events[b], event.resource, event, events'[b])
    BY <1>2, <2>1 DEF With
  <2>3. \A c \in BUs : c # b => Back(c)' = Back(c) /\ events'[c] = events[c]
    BY <1>2, <2>1 DEF Back
  <2>4. Back(b)' = Back(b)
    BY <2>1 DEF Back
  <2> QED
    BY <1>4, <2>1, <2>2, <2>3, <2>4
<1> QED
  BY <1>3, <1>4

\* The resource is free for the next trigger.
LEMMA SlotIsFree ==
  ASSUME Types, PlaceInv, NEW b \in BUs, triggerFIFO[b] # << >>
  PROVE  /\ Head(triggerFIFO[b]) \in Range(Given(b)) /\ Head(triggerFIFO[b]) \in Token
         /\ Head(triggerFIFO[b]).resource \notin DOMAIN events[b]
         /\ Given(b) # << >> /\ Head(Given(b)) = Head(triggerFIFO[b])
         /\ Tail(triggerFIFO[b]) \o confirms[b] = Tail(Given(b))
<1>1. /\ triggerFIFO[b] \in Seq(Token) /\ confirms[b] \in Seq(Token) /\ Given(b) \in Seq(Token)
      /\ Range(Given(b)) \subseteq Token
  BY PlaceTypes
<1>2. /\ Given(b) # << >> /\ Head(Given(b)) = Head(triggerFIFO[b])
      /\ Tail(triggerFIFO[b]) \o confirms[b] = Tail(Given(b))
  BY <1>1, TakeHead DEF Given
<1>3. Head(Given(b)) \in Range(Given(b))
  BY <1>1, <1>2, RangeTail
<1>4. Places(Range(Back(b)), Range(Asked(b)), Range(Given(b)), events[b])
  BY DEF PlaceInv, PlaceAt
<1> QED
  BY <1>1, <1>2, <1>3, <1>4 DEF Places

LEMMA PlaceOfStart ==
  ASSUME Types, PlaceInv, NEW b \in BUs, StartConstruction(b)
  PROVE  \A c \in BUs : PlaceAt(c)' /\ HereAt(c)' = HereAt(c)
<1>1. /\ triggerFIFO[b] # << >> /\ triggerFIFO' = [triggerFIFO EXCEPT ![b] = Tail(@)]
      /\ UNCHANGED << requestFIFOs, confirms >>
  BY DEF StartConstruction, evmVars
<1>2. PICK t : t = Head(triggerFIFO[b])
  OBVIOUS
<1>3. /\ t \in Range(Given(b)) /\ t \in Token /\ t.resource \notin DOMAIN events[b]
      /\ Given(b) # << >> /\ Head(Given(b)) = t /\ Tail(triggerFIFO[b]) \o confirms[b] = Tail(Given(b))
  BY <1>1, <1>2, SlotIsFree
<1>4. PICK event : /\ event = Event(t, {}, 1, buRUs[b].ruCount + 1)
                   /\ CheckForCompleteEvent(b, event)
  BY <1>2, <1>3 DEF StartConstruction
<1>5. /\ event.resource = t.resource /\ event.evbId = t.evbId /\ event.resource \in Nat /\ event.evbId \in Id
  BY <1>3, <1>4 DEF Event, Token
<1>6. Given(b)' = Tail(Given(b)) /\ \A c \in BUs : c # b => Given(c)' = Given(c)
  BY <1>1, <1>3 DEF Given, Types, BuTypes
<1>7. \A c \in BUs : Asked(c)' = Asked(c)
  BY <1>1 DEF Asked
<1>8. PICK back, asked, given, held :
        back = Range(Back(b)) /\ asked = Range(Asked(b)) /\ given = Range(Given(b)) /\ held = events[b]
  OBVIOUS
<1>9. PICK holds : holds = events'[b]
  OBVIOUS
<1>10. PICK x : x = [resource |-> t.resource, release |-> t.evbId]
  OBVIOUS
<1>11. back \in SUBSET Element /\ given \in SUBSET Token /\ t \in given
  BY <1>3, <1>8, PlaceTypes
<1>12. /\ Back(b) \in Seq(Element) /\ Given(b) \in Seq(Token)
       /\ x \in Element /\ x.resource = t.resource /\ x.release = t.evbId
  BY <1>3, <1>10, PlaceTypes DEF Element, Token, Id
<1>13. /\ IsInjective(Back(b)) /\ IsInjective(Asked(b)) /\ IsInjective(Given(b))
       /\ Places(back, asked, given, held)
  BY <1>8 DEF PlaceInv, PlaceAt
<1>14. IsInjective(Given(b)') /\ Range(Given(b)') = given \ {t}
  BY <1>3, <1>6, <1>8, <1>13, <1>12, RangeTail
<1>15. CASE event.nbCompleteSuperFragments = event.nbExpectedSuperFragments
  <2>1. /\ Back(b)' = Append(Back(b), x)
        /\ Without(held, t.resource, holds)
        /\ \A c \in BUs : c # b => Back(c)' = Back(c) /\ events'[c] = events[c]
    BY <1>4, <1>5, <1>8, <1>9, <1>10, <1>15, CheckEffect
  <2>2. /\ Places(back \cup {x}, asked, given \ {t}, holds)
        /\ IdsAt(back \cup {x}, given \ {t}, holds) = IdsAt(back, given, held)
        /\ x \notin back
    BY ONLY <1>11, <1>13, <1>12, <2>1, PlacesStartComplete
  <2>3. Range(Back(b)') = back \cup {x} /\ IsInjective(Back(b)')
    BY <1>8, <1>13, <1>12, <2>1, <2>2, RangeAppend
  <2>4. PlaceAt(b)' /\ HereAt(b)' = HereAt(b)
    BY <1>7, <1>8, <1>9, <1>13, <1>14, <2>2, <2>3 DEF PlaceAt, HereAt
  <2> QED
    BY <1>6, <1>7, <2>1, <2>4, PlaceSame DEF PlaceInv
<1>16. CASE event.nbCompleteSuperFragments # event.nbExpectedSuperFragments
  <2>1. /\ Back(b)' = Back(b)
        /\ With(held, t.resource, event, holds)
        /\ \A c \in BUs : c # b => Back(c)' = Back(c) /\ events'[c] = events[c]
    BY <1>4, <1>5, <1>8, <1>9, <1>16, CheckEffect
  <2>2. /\ Places(back, asked, given \ {t}, holds)
        /\ IdsAt(back, given \ {t}, holds) = IdsAt(back, given, held)
    BY ONLY <1>5, <1>11, <1>13, <2>1, PlacesStart
  <2>3. PlaceAt(b)' /\ HereAt(b)' = HereAt(b)
    BY <1>7, <1>8, <1>9, <1>13, <1>14, <2>1, <2>2 DEF PlaceAt, HereAt
  <2> QED
    BY <1>6, <1>7, <2>1, <2>3, PlaceSame DEF PlaceInv
<1> QED
  BY <1>15, <1>16

LEMMA PlaceOfAppend ==
  ASSUME Types, PlaceInv, NEW b \in BUs, AppendSuperFragment(b)
  PROVE  \A c \in BUs : PlaceAt(c)' /\ HereAt(c)' = HereAt(c)
<1>1. UNCHANGED << requestFIFOs, confirms, triggerFIFO >>
  BY DEF AppendSuperFragment, evmVars
<1>2. \A c \in BUs : Asked(c)' = Asked(c) /\ Given(c)' = Given(c)
  BY <1>1 DEF Asked, Given
<1>3. PICK block : block = Head(blockFIFO[b])
  OBVIOUS
<1>4. PICK r : r = block.resource
  OBVIOUS
<1>5. CASE r \notin DOMAIN events[b]
  <2>1. UNCHANGED << events, evtIdRqsts, toEVM >>
    BY <1>3, <1>4, <1>5 DEF AppendSuperFragment
  <2>2. \A c \in BUs : Back(c)' = Back(c)
    BY <2>1 DEF Back
  <2> QED
    BY <1>2, <2>1, <2>2, PlaceSame DEF PlaceInv
<1>6. CASE r \in DOMAIN events[b]
  <2>1. PICK event :
          /\ event = Event(events[b][r], events[b][r].superFragments \cup {[ru |-> block.ru, evbId |-> block.evbId]},
                           events[b][r].nbCompleteSuperFragments + 1, events[b][r].nbExpectedSuperFragments)
          /\ CheckForCompleteEvent(b, event)
    BY <1>3, <1>4, <1>6 DEF AppendSuperFragment
  <2>2. PICK back, asked, given, held :
          back = Range(Back(b)) /\ asked = Range(Asked(b)) /\ given = Range(Given(b)) /\ held = events[b]
    OBVIOUS
  <2>3. PICK holds : holds = events'[b]
    OBVIOUS
  <2>4. /\ IsInjective(Back(b)) /\ IsInjective(Asked(b)) /\ IsInjective(Given(b))
        /\ Places(back, asked, given, held)
    BY <2>2 DEF PlaceInv, PlaceAt
  <2>5. /\ held[r].resource = r /\ held[r].evbId \in Id /\ r \in Nat /\ held[r].evbId # 0 /\ r \in DOMAIN held
    BY <1>6, <2>2, <2>4 DEF Places, Types, EventTypes, Id
  <2>6. event.resource = r /\ event.evbId = held[r].evbId
    BY <2>1, <2>2, <2>5 DEF Event
  <2>7. PICK x : x = [resource |-> r, release |-> held[r].evbId]
    OBVIOUS
  <2>8. back \in SUBSET Element /\ given \in SUBSET Token
    BY <2>2, PlaceTypes
  <2>9. x \in Element /\ x.resource = r /\ x.release = held[r].evbId /\ Back(b) \in Seq(Element)
    BY <2>5, <2>7, PlaceTypes DEF Element, Id
  <2>10. CASE event.nbCompleteSuperFragments = event.nbExpectedSuperFragments
    <3>1. /\ Back(b)' = Append(Back(b), x) /\ Without(held, r, holds)
          /\ \A c \in BUs : c # b => Back(c)' = Back(c) /\ events'[c] = events[c]
      BY <2>1, <2>2, <2>3, <2>5, <2>6, <2>7, <2>10, CheckEffect
    <3>2. /\ Places(back \cup {x}, asked, given, holds)
          /\ IdsAt(back \cup {x}, given, holds) = IdsAt(back, given, held)
          /\ x \notin back
      BY ONLY <2>4, <2>5, <2>8, <2>9, <3>1, PlacesComplete
    <3>3. Range(Back(b)') = back \cup {x} /\ IsInjective(Back(b)')
      BY <2>2, <2>4, <2>9, <3>1, <3>2, RangeAppend
    <3>4. PlaceAt(b)' /\ HereAt(b)' = HereAt(b)
      BY <1>2, <2>2, <2>3, <2>4, <3>2, <3>3 DEF PlaceAt, HereAt
    <3> QED
      BY <1>2, <3>1, <3>4, PlaceSame DEF PlaceInv
  <2>11. CASE event.nbCompleteSuperFragments # event.nbExpectedSuperFragments
    <3>1. /\ Back(b)' = Back(b) /\ With(held, r, event, holds)
          /\ \A c \in BUs : c # b => Back(c)' = Back(c) /\ events'[c] = events[c]
      BY <2>1, <2>2, <2>3, <2>5, <2>6, <2>11, CheckEffect
    <3>2. /\ DOMAIN holds = DOMAIN held
          /\ \A s \in DOMAIN holds : holds[s].evbId = held[s].evbId /\ holds[s].resource = held[s].resource
      BY <2>5, <2>6, <3>1 DEF With
    <3>3. Places(back, asked, given, holds) /\ IdsAt(back, given, holds) = IdsAt(back, given, held)
      BY ONLY <2>4, <3>2, PlacesKept
    <3>4. PlaceAt(b)' /\ HereAt(b)' = HereAt(b)
      BY <1>2, <2>2, <2>3, <2>4, <3>1, <3>3 DEF PlaceAt, HereAt
    <3> QED
      BY <1>2, <3>1, <3>4, PlaceSame DEF PlaceInv
  <2> QED
    BY <2>10, <2>11
<1> QED
  BY <1>5, <1>6

LEMMA PlaceOfAllocate ==
  ASSUME Types, PlaceInv, NEW b \in BUs, AllocateClear(b), NEW e, e = Head(toEVM[b])
  PROVE  /\ \A c \in BUs : PlaceAt(c)' /\ (c # b => HereAt(c)' = HereAt(c))
         /\ HereAt(b)' = HereAt(b) \ {e.release} /\ (e.release # 0 => e.release \in HereAt(b))
<1>1. /\ UNCHANGED << confirms, triggerFIFO, evtIdRqsts, events, setup >> /\ toEVM[b] # << >>
      /\ toEVM' = [toEVM EXCEPT ![b] = Tail(@)] /\ requestFIFOs' = Enq(requestFIFOs, b, e.resource)
  BY DEF AllocateClear, buVars, participants
<1>2. /\ toEVM[b] \in Seq(Element) /\ evtIdRqsts[b] \in Seq(Element) /\ Back(b) \in Seq(Element)
      /\ Asked(b) \in Seq(Nat) /\ DOMAIN toEVM = BUs
  BY PlaceTypes DEF Types, BuTypes
<1>3. /\ Back(b) # << >> /\ Head(Back(b)) = e /\ Tail(toEVM[b]) \o evtIdRqsts[b] = Tail(Back(b))
  BY <1>1, <1>2, TakeHead DEF Back
<1>4. Back(b)' = Tail(Back(b)) /\ \A c \in BUs : c # b => Back(c)' = Back(c)
  BY <1>1, <1>2, <1>3 DEF Back
<1>5. \A c \in BUs : Given(c)' = Given(c) /\ events'[c] = events[c]
  BY <1>1 DEF Given
<1>6. e \in Element /\ e.resource \in Nat
  <2>1. e \in Element
    BY <1>1, <1>2
  <2> QED
    BY <2>1 DEF Element
<1>7. IsCollection(requestFIFOs, BUs)
  BY DEF Types, EvmTypes
<1>8. Asked(b)' = Append(Asked(b), e.resource) /\ \A c \in BUs : c # b => Asked(c)' = Asked(c)
  <2>1. PICK S, c, n : S = BUs /\ c = requestFIFOs /\ n = e.resource
    OBVIOUS
  <2>2. IsCollection(c, S) /\ b \in S /\ n \in Nat
    BY <1>6, <1>7, <2>1
  <2>3. \A j : Elements(Enq(c, b, n), j) = IF j = b THEN Append(Elements(c, b), n) ELSE Elements(c, j)
    BY ONLY <2>2, EnqIsCollection
  <2> QED
    BY <1>1, <2>1, <2>3 DEF Asked
<1>9. PICK back, asked, given, held :
        back = Range(Back(b)) /\ asked = Range(Asked(b)) /\ given = Range(Given(b)) /\ held = events[b]
  OBVIOUS
<1>10. /\ IsInjective(Back(b)) /\ IsInjective(Asked(b)) /\ IsInjective(Given(b))
       /\ Places(back, asked, given, held)
  BY <1>9 DEF PlaceInv, PlaceAt
<1>11. Range(Back(b)') = back \ {e} /\ IsInjective(Back(b)') /\ e \in back
  BY <1>2, <1>3, <1>4, <1>9, <1>10, RangeTail
<1>12. back \in SUBSET Element /\ given \in SUBSET Token
  BY <1>9, PlaceTypes
<1>13. /\ Places(back \ {e}, asked \cup {e.resource}, given, held)
       /\ IdsAt(back \ {e}, given, held) = IdsAt(back, given, held) \ {e.release}
       /\ e.release # 0 => e.release \in IdsAt(back, given, held)
       /\ e.resource \notin asked
  BY ONLY <1>10, <1>11, <1>12, PlacesAllocate
<1>14. Range(Asked(b)') = asked \cup {e.resource} /\ IsInjective(Asked(b)')
  BY <1>2, <1>6, <1>8, <1>9, <1>10, <1>13, RangeAppend, SMTT(60)
<1>15. PlaceAt(b)'
  BY <1>5, <1>9, <1>10, <1>11, <1>13, <1>14 DEF PlaceAt
<1>16. HereAt(b)' = HereAt(b) \ {e.release} /\ (e.release # 0 => e.release \in HereAt(b))
  BY <1>5, <1>9, <1>11, <1>13 DEF HereAt
<1> QED
  BY <1>4, <1>5, <1>8, <1>15, <1>16, PlaceSame DEF PlaceInv

LEMMA PlaceOfService ==
  ASSUME Types, PlaceInv, ServiceBuRqst, NEW id, id = Head(eventFIFO), \A c \in BUs : id \notin HereAt(c)
  PROVE  \E b \in BUs : /\ \A c \in BUs : PlaceAt(c)' /\ (c # b => HereAt(c)' = HereAt(c))
                        /\ HereAt(b)' = HereAt(b) \cup {id}
<1>1. PICK rqst : rqst = IF Parameters.assignRoundRobin THEN RoundRobin(requestFIFOs) ELSE FromFullest(requestFIFOs)
  OBVIOUS
<1>2. PICK b : b = rqst.index
  OBVIOUS
<1>3. PICK t : t = [evbId |-> id, resource |-> rqst.element]
  OBVIOUS
<1>4. /\ requestFIFOs' = rqst.rest /\ confirms' = [confirms EXCEPT ![b] = Append(@, t)]
      /\ UNCHANGED << setup, toEVM, evtIdRqsts, triggerFIFO, events >>
      /\ eventFIFO # << >> /\ CanDeq(requestFIFOs)
  BY <1>1, <1>2, <1>3 DEF ServiceBuRqst, participants, buVars
<1>5. IsTaken(requestFIFOs, rqst, BUs)
  <2>1. PICK S, c : S = BUs /\ c = requestFIFOs
    OBVIOUS
  <2>2. IsCollection(c, S) /\ S \subseteq Nat /\ IsFiniteSet(S) /\ CanDeq(c)
    BY <1>4, <2>1, PeersAreNumbers DEF Types, EvmTypes, SetupTypes
  <2>3. IsTaken(c, RoundRobin(c), S) /\ IsTaken(c, FromFullest(c), S)
    BY ONLY <2>2, RoundRobinTakes, FromFullestTakes
  <2> QED
    BY <1>1, <2>1, <2>3
<1>6. /\ b \in BUs /\ Asked(b) # << >> /\ rqst.element = Head(Asked(b)) /\ rqst.element \in Nat
      /\ Asked(b)' = Tail(Asked(b)) /\ \A c : c # b => Asked(c)' = Asked(c)
  BY <1>2, <1>4, <1>5 DEF IsTaken, Asked, Types, EvmTypes, IsCollection
<1>7. id \in Id
  BY <1>4 DEF Types, EvmTypes
<1>8. t \in Token /\ t.resource = Head(Asked(b)) /\ t.evbId = id
  BY <1>3, <1>6, <1>7 DEF Token
<1>9. /\ triggerFIFO[b] \in Seq(Token) /\ confirms[b] \in Seq(Token) /\ Given(b) \in Seq(Token)
      /\ Asked(b) \in Seq(Nat) /\ confirms \in [BUs -> Seq(Token)]
  BY <1>6, PlaceTypes DEF Types, BuTypes
<1>10. Given(b)' = Append(Given(b), t)
  <2>1. PICK p, q : p = triggerFIFO[b] /\ q = confirms[b]
    OBVIOUS
  <2>2. p \in Seq(Token) /\ q \in Seq(Token) /\ t \in Token
    BY <1>8, <1>9, <2>1
  <2>3. p \o Append(q, t) = Append(p \o q, t)
    BY ONLY <2>2, AddLast
  <2>4. triggerFIFO'[b] = p /\ confirms'[b] = Append(q, t)
    BY <1>4, <1>6, <1>9, <2>1
  <2> QED
    BY <2>1, <2>3, <2>4 DEF Given
<1>11. \A c \in BUs : /\ Back(c)' = Back(c) /\ events'[c] = events[c]
                      /\ c # b => Given(c)' = Given(c)
  BY <1>4, <1>9 DEF Back, Given
<1>12. PICK back, asked, given, held :
         back = Range(Back(b)) /\ asked = Range(Asked(b)) /\ given = Range(Given(b)) /\ held = events[b]
  OBVIOUS
<1>13. /\ IsInjective(Back(b)) /\ IsInjective(Asked(b)) /\ IsInjective(Given(b))
       /\ Places(back, asked, given, held)
  BY <1>6, <1>12 DEF PlaceInv, PlaceAt
<1>14. Range(Asked(b)') = asked \ {t.resource} /\ IsInjective(Asked(b)') /\ t.resource \in asked
  BY <1>6, <1>8, <1>9, <1>12, <1>13, RangeTail
<1>15. back \in SUBSET Element /\ given \in SUBSET Token
  BY <1>6, <1>12, PlaceTypes
<1>16. t.evbId \notin IdsAt(back, given, held)
  BY <1>6, <1>8, <1>12 DEF HereAt
<1>17. t \in Token /\ t.resource \in asked
  BY <1>8, <1>14
<1>18. /\ Places(back, asked \ {t.resource}, given \cup {t}, held)
       /\ IdsAt(back, given \cup {t}, held) = IdsAt(back, given, held) \cup {t.evbId}
       /\ t \notin given
  BY ONLY <1>13, <1>15, <1>16, <1>17, PlacesService
<1>19. Range(Given(b)') = given \cup {t} /\ IsInjective(Given(b)')
  BY <1>8, <1>9, <1>10, <1>12, <1>13, <1>18, RangeAppend
<1>20. PlaceAt(b)'
  BY <1>6, <1>11, <1>12, <1>13, <1>14, <1>18, <1>19 DEF PlaceAt
<1>21. HereAt(b)' = HereAt(b) \cup {id}
  BY <1>6, <1>8, <1>11, <1>12, <1>18, <1>19 DEF HereAt
<1> QED
  BY <1>6, <1>11, <1>20, <1>21, PlaceSame DEF PlaceInv

LEMMA PlaceOfConfirm ==
  ASSUME Types, PlaceInv, NEW b \in BUs, BuConfirm(b)
  PROVE  \A c \in BUs : PlaceAt(c)' /\ HereAt(c)' = HereAt(c)
<1>1. /\ UNCHANGED << requestFIFOs, toEVM, evtIdRqsts, events >> /\ confirms[b] # << >>
      /\ triggerFIFO' = [triggerFIFO EXCEPT ![b] = Append(@, Head(confirms[b]))]
      /\ confirms' = [confirms EXCEPT ![b] = Tail(@)]
  BY DEF BuConfirm, evmVars
<1>2. /\ triggerFIFO \in [BUs -> Seq(Token)] /\ confirms \in [BUs -> Seq(Token)]
      /\ triggerFIFO[b] \in Seq(Token) /\ confirms[b] \in Seq(Token)
  BY DEF Types, BuTypes
<1>3. Append(triggerFIFO[b], Head(confirms[b])) \o Tail(confirms[b]) = triggerFIFO[b] \o confirms[b]
  BY <1>1, <1>2, MoveHead
<1>4. \A c \in BUs : Given(c)' = Given(c)
  BY <1>1, <1>2, <1>3 DEF Given
<1>5. \A c \in BUs : Asked(c)' = Asked(c) /\ Back(c)' = Back(c) /\ events'[c] = events[c]
  BY <1>1 DEF Asked, Back
<1> QED
  BY <1>4, <1>5, PlaceSame DEF PlaceInv

LEMMA PlaceOfSend ==
  ASSUME Types, PlaceInv, NEW b \in BUs, SendOldEvmRequests(b)
  PROVE  \A c \in BUs : PlaceAt(c)' /\ HereAt(c)' = HereAt(c)
<1>1. /\ UNCHANGED << requestFIFOs, confirms, triggerFIFO, events >>
      /\ toEVM' = [toEVM EXCEPT ![b] = @ \o evtIdRqsts[b]] /\ evtIdRqsts' = [evtIdRqsts EXCEPT ![b] = << >>]
  BY DEF SendOldEvmRequests, evmVars
<1>2. toEVM \in [BUs -> Seq(Element)] /\ evtIdRqsts \in [BUs -> Seq(Element)] /\ Back(b) \in Seq(Element)
  BY PlaceTypes DEF Types, BuTypes
<1>3. Back(b)' = Back(b) \o << >>
  BY <1>1, <1>2 DEF Back
<1>4. Back(b) \o << >> = Back(b)
  <2>1. PICK q : q = Back(b)
    OBVIOUS
  <2>2. q \o << >> = q
    BY <1>2, <2>1, ConcatEmptySeq
  <2> QED
    BY <2>1, <2>2
<1>5. \A c \in BUs : Back(c)' = Back(c)
  BY <1>1, <1>2, <1>3, <1>4 DEF Back
<1>6. \A c \in BUs : Asked(c)' = Asked(c) /\ Given(c)' = Given(c) /\ events'[c] = events[c]
  BY <1>1 DEF Asked, Given
<1> QED
  BY <1>5, <1>6, PlaceSame DEF PlaceInv

\* A BU starts with a request for each of its resources, and with no event.
LEMMA PlaceOfConfigure ==
  ASSUME Types, PlaceInv, Configure, \A c \in BUs : HereAt(c) = {}
  PROVE  \A c \in BUs : PlaceAt(c)' /\ HereAt(c)' = {}
<1> SUFFICES ASSUME NEW b \in BUs PROVE PlaceAt(b)' /\ HereAt(b)' = {}
  OBVIOUS
<1>1. /\ UNCHANGED << triggerFIFO, confirms, events, setup >> /\ requestFIFOs' = Drained(requestFIFOs)
      /\ configuration < Len(setup.configurations)
  BY DEF Configure
<1>2. PICK n : n = setup.configurations[configuration + 1].resources
  OBVIOUS
<1>3. n \in Nat
  BY <1>1, <1>2, PeersAreNumbers DEF Types, SetupTypes
<1>4. PICK first, sent, kept :
        /\ first = FirstRequests(n)
        /\ sent = SubSeq(FirstRequests(n), 1, Posted(n)) /\ kept = SubSeq(FirstRequests(n), Posted(n) + 1, n)
  OBVIOUS
<1>5. /\ first \in Seq(Element) /\ Len(first) = n /\ sent \in Seq(Element) /\ kept \in Seq(Element) /\ sent \o kept = first
      /\ \A i \in 1..n : first[i] = [resource |-> i, release |-> 0]
  BY ONLY <1>3, <1>4, FirstRequestsTypes
<1>6. \/ toEVM'[b] = sent /\ evtIdRqsts'[b] = kept
      \/ toEVM'[b] = << >> /\ evtIdRqsts'[b] = << >>
  BY <1>2, <1>4 DEF Configure
<1>7. Back(b)' = first \/ Back(b)' = << >>
  <2>1. << >> \o << >> = << >>
    OBVIOUS
  <2> QED
    BY <1>5, <1>6, <2>1 DEF Back
<1>8. DOMAIN first = 1..n /\ \A i \in 1..n : first[i].resource = i /\ first[i].release = 0
  BY <1>3, <1>5
<1>9. /\ IsInjective(Back(b)')
      /\ \A x \in Range(Back(b)') : x.release = 0
      /\ \A x, y \in Range(Back(b)') : x.resource = y.resource => x = y
  <2>1. CASE Back(b)' = first
    <3>1. \A i, j \in 1..n : first[i].resource = first[j].resource => i = j
      BY <1>8
    <3>2. \A i, j \in DOMAIN first : first[i] = first[j] => i = j
      BY <1>8, <3>1
    <3>3. IsInjective(first)
      BY <3>2 DEF IsInjective
    <3>4. \A x \in Range(first) : \E i \in 1..n : x = first[i]
      BY <1>8 DEF Range
    <3> QED
      BY <1>8, <2>1, <3>1, <3>3, <3>4
  <2>2. CASE Back(b)' = << >>
    <3>1. IsInjective(<< >>) /\ Range(<< >>) = {}
      BY DEF IsInjective, Range
    <3> QED
      BY <2>2, <3>1
  <2> QED
    BY <1>7, <2>1, <2>2
<1>10. Asked(b)' = << >>
  <2>1. PICK S, c : S = BUs /\ c = requestFIFOs
    OBVIOUS
  <2>2. IsCollection(c, S) /\ S \subseteq Nat
    BY <2>1, PeersAreNumbers DEF Types, EvmTypes, SetupTypes
  <2>3. \A i : Elements(Drained(c), i) = << >>
    BY ONLY <2>2, DrainedIsCollection
  <2> QED
    BY <1>1, <2>1, <2>3 DEF Asked
<1>11. IsInjective(Asked(b)') /\ Range(Asked(b)') = {}
  BY <1>10 DEF IsInjective, Range
<1>12. Given(b)' = Given(b) /\ events'[b] = events[b]
  BY <1>1 DEF Given
<1>13. Range(Given(b)) = {} /\ DOMAIN events[b] = {}
  <2>1. PICK given, held : given = Range(Given(b)) /\ held = events[b]
    OBVIOUS
  <2>2. (\A y \in given : y.evbId \in HereAt(b)) /\ \A r \in DOMAIN held : held[r].evbId \in HereAt(b)
    BY <2>1 DEF HereAt, IdsAt
  <2> QED
    BY <2>1, <2>2
<1>14. Places(Range(Back(b)'), {}, {}, events[b])
  BY <1>9, <1>13 DEF Places
<1>15. IdsAt(Range(Back(b)'), {}, events[b]) = {}
  BY <1>9, <1>13 DEF IdsAt
<1>16. IsInjective(Given(b))
  BY DEF PlaceInv, PlaceAt
<1> QED
  BY <1>9, <1>11, <1>12, <1>13, <1>14, <1>15, <1>16 DEF PlaceAt, HereAt

-----------------------------------------------------------------------------
(***************************************************************************)
(* The ids of the events in the builder: each waits for a BU, is with a    *)
(* BU, or was released.  The EVM knows all of them, so it gets no unknown  *)
(* one, and the queue of those that wait has room.                         *)
(***************************************************************************)
Here == [b \in BUs |-> HereAt(b)]

IdsApart(waiting, released, here, map) ==
  /\ waiting \subseteq map /\ released \subseteq map /\ waiting \cap released = {}
  /\ \A b \in DOMAIN here : here[b] \subseteq map /\ here[b] \cap waiting = {} /\ here[b] \cap released = {}
  /\ \A b, c \in DOMAIN here : b # c => here[b] \cap here[c] = {}

IdInv ==
  /\ PlaceInv
  /\ IsInjective(eventFIFO) /\ IsInjective(releasedEvbIdFIFO)
  /\ IdsApart(Range(eventFIFO), Range(releasedEvbIdFIFO), Here, evbIdMap)
  /\ \A x \in evbIdMap : x <= nbTriggers
  /\ mode # "Enabled" => evbIdMap = {}

LEMMA LengthInSet ==
  ASSUME NEW S, IsFiniteSet(S), NEW T, NEW q \in Seq(T), IsInjective(q), Range(q) \subseteq S
  PROVE  Len(q) <= Cardinality(S)
<1>1. Len(q) \in Nat /\ DOMAIN q = 1 .. Len(q)
  OBVIOUS
<1>2. q \in [1 .. Len(q) -> S]
  BY <1>1 DEF Range
<1>3. q \in Injection(1 .. Len(q), S)
  BY <1>1, <1>2 DEF Injection, IsInjective
<1>4. Cardinality(1 .. Len(q)) <= Cardinality(S)
  BY <1>3, FS_Injection
<1>5. Cardinality(1 .. Len(q)) = Len(q)
  <2>1. \A n \in Nat : Cardinality(1 .. n) = n
    <3> SUFFICES ASSUME NEW n \in Nat PROVE Cardinality(1 .. n) = n
      OBVIOUS
    <3>1. Cardinality(1 .. n) = IF 1 > n THEN 0 ELSE n - 1 + 1
      BY FS_Interval
    <3> QED
      BY <3>1
  <2> QED
    BY <1>1, <2>1
<1> QED
  BY <1>4, <1>5

\* What the steps do to the places of the ids.
LEMMA IdsAdded ==
  ASSUME NEW waiting, NEW released, NEW here, NEW map, IdsApart(waiting, released, here, map), NEW x, x \notin map
  PROVE  IdsApart(waiting \cup {x}, released, here, map \cup {x})
BY DEF IdsApart

LEMMA IdsRemoved ==
  ASSUME NEW waiting, NEW released, NEW here, NEW map, IdsApart(waiting, released, here, map), NEW x \in released
  PROVE  IdsApart(waiting, released \ {x}, here, map \ {x})
BY DEF IdsApart

LEMMA IdsGiven ==
  ASSUME NEW waiting, NEW released, NEW here, NEW map, IdsApart(waiting, released, here, map), NEW x \in waiting,
         NEW there, DOMAIN there = DOMAIN here, NEW b \in DOMAIN here, there[b] = here[b] \cup {x},
         \A c \in DOMAIN here : c # b => there[c] = here[c]
  PROVE  IdsApart(waiting \ {x}, released, there, map)
BY DEF IdsApart

LEMMA IdsReleased ==
  ASSUME NEW waiting, NEW released, NEW here, NEW map, IdsApart(waiting, released, here, map), NEW x,
         NEW there, DOMAIN there = DOMAIN here, NEW b \in DOMAIN here, there[b] = here[b] \ {x}, x \in here[b],
         \A c \in DOMAIN here : c # b => there[c] = here[c]
  PROVE  IdsApart(waiting, released \cup {x}, there, map) /\ x \notin released
BY DEF IdsApart

LEMMA HereIs ==
  ASSUME TRUE
  PROVE  DOMAIN Here = BUs /\ \A b \in BUs : Here[b] = HereAt(b)
BY DEF Here

LEMMA HereSame ==
  ASSUME UNCHANGED setup, \A b \in BUs : PlaceAt(b)' /\ HereAt(b)' = HereAt(b)
  PROVE  PlaceInv' /\ Here' = Here
BY DEF PlaceInv, Here, BUs

LEMMA IdInit ==
  ASSUME Init
  PROVE  IdInv
<1>1. /\ \A b \in BUs : /\ toEVM[b] = << >> /\ evtIdRqsts[b] = << >> /\ triggerFIFO[b] = << >> /\ confirms[b] = << >>
                        /\ events[b] = << >>
      /\ eventFIFO = << >> /\ releasedEvbIdFIFO = << >> /\ evbIdMap = {}
  BY DEF Init, Empty
<1>2. << >> \o << >> = << >> /\ IsInjective(<< >>) /\ Range(<< >>) = {} /\ DOMAIN << >> = {}
  BY DEF IsInjective, Range
<1>3. ASSUME NEW b \in BUs PROVE PlaceAt(b) /\ HereAt(b) = {}
  <2>1. Back(b) = << >> /\ Given(b) = << >>
    BY <1>1, <1>2 DEF Back, Given
  <2>2. Asked(b) = << >>
    BY DEF Init, EmptyCollection, Asked, Elements
  <2>3. Places({}, {}, {}, << >>)
    BY <1>2 DEF Places
  <2>4. IdsAt({}, {}, << >>) = {}
    BY <1>2 DEF IdsAt
  <2> QED
    BY <1>1, <1>2, <2>1, <2>2, <2>3, <2>4 DEF PlaceAt, HereAt
<1>4. IdsApart({}, {}, Here, {})
  BY <1>3, HereIs DEF IdsApart
<1> QED
  BY <1>1, <1>2, <1>3, <1>4 DEF IdInv, PlaceInv

\* A new id is in no place; the queue has room for it.
LEMMA IdOfTrigger ==
  ASSUME Types, IdInv, TakeTrigger
  PROVE  IdInv' /\ (UNCHANGED failures \/ Fail(Evm, "post"))
<1>1. /\ UNCHANGED << setup, mode, requestFIFOs, releasedEvbIdFIFO, toEVM, evtIdRqsts, triggerFIFO, confirms, events >>
      /\ nbTriggers' = nbTriggers + 1 /\ nbTriggers \in Nat /\ mode = "Enabled"
      /\ Cardinality(evbIdMap) < NbEvtIdsInBuilder
  BY DEF TakeTrigger, participants, buVars, Types, EvmTypes, Works
<1>2. \A b \in BUs : PlaceAt(b)' /\ HereAt(b)' = HereAt(b)
  BY <1>1, PlaceSame DEF Back, Asked, Given, IdInv, PlaceInv
<1>3. PlaceInv' /\ Here' = Here
  BY <1>1, <1>2, HereSame
<1>4. eventFIFO \in Seq(Id) /\ IsFiniteSet(evbIdMap) /\ evbIdMap \subseteq Id
  BY DEF Types, EvmTypes
<1>5. Len(eventFIFO) < NbEvtIdsInBuilder
  <2>1. IsInjective(eventFIFO) /\ Range(eventFIFO) \subseteq evbIdMap
    BY DEF IdInv, IdsApart
  <2>2. Len(eventFIFO) <= Cardinality(evbIdMap)
    BY <1>4, <2>1, LengthInSet
  <2>3. Len(eventFIFO) \in Nat /\ Cardinality(evbIdMap) \in Nat /\ NbEvtIdsInBuilder \in Nat
    BY <1>4, FS_CardinalityType, RoundTripAssumption
  <2> QED
    BY <1>1, <2>2, <2>3
<1>6. \/ Fail(Evm, "post") /\ UNCHANGED << evbIdMap, eventFIFO >>
      \/ /\ evbIdMap' = evbIdMap \cup {nbTriggers + 1} /\ eventFIFO' = Append(eventFIFO, nbTriggers + 1)
         /\ UNCHANGED failures
  BY <1>1, <1>5 DEF TakeTrigger
<1>7. CASE Fail(Evm, "post") /\ UNCHANGED << evbIdMap, eventFIFO >>
  <2>1. \A x \in evbIdMap : x <= nbTriggers + 1
    BY <1>1, <1>4 DEF IdInv, Id
  <2> QED
    BY <1>1, <1>3, <1>7, <2>1 DEF IdInv
<1>8. CASE /\ evbIdMap' = evbIdMap \cup {nbTriggers + 1} /\ eventFIFO' = Append(eventFIFO, nbTriggers + 1)
           /\ UNCHANGED failures
  <2>1. nbTriggers + 1 \in Id /\ nbTriggers + 1 \notin evbIdMap
    BY <1>1, <1>4 DEF IdInv, Id
  <2>2. nbTriggers + 1 \notin Range(eventFIFO)
    BY <2>1 DEF IdInv, IdsApart
  <2>3. Range(eventFIFO') = Range(eventFIFO) \cup {nbTriggers + 1} /\ IsInjective(eventFIFO')
    BY <1>4, <1>8, <2>1, <2>2, RangeAppend DEF IdInv
  <2>4. IdsApart(Range(eventFIFO) \cup {nbTriggers + 1}, Range(releasedEvbIdFIFO), Here, evbIdMap \cup {nbTriggers + 1})
    <3>1. PICK waiting, released, here, map, x :
            /\ waiting = Range(eventFIFO) /\ released = Range(releasedEvbIdFIFO) /\ here = Here /\ map = evbIdMap
            /\ x = nbTriggers + 1
      OBVIOUS
    <3>2. IdsApart(waiting, released, here, map) /\ x \notin map
      BY <2>1, <3>1 DEF IdInv
    <3>3. IdsApart(waiting \cup {x}, released, here, map \cup {x})
      BY ONLY <3>2, IdsAdded
    <3> QED
      BY <3>1, <3>3
  <2>5. \A x \in evbIdMap' : x <= nbTriggers'
    BY <1>1, <1>4, <1>8 DEF IdInv, Id
  <2> QED
    BY <1>1, <1>3, <1>8, <2>3, <2>4, <2>5 DEF IdInv
<1> QED
  BY <1>6, <1>7, <1>8

\* The EVM knows the id that comes back.
LEMMA IdOfRelease ==
  ASSUME Types, IdInv, ProcessNextReleasedEvent
  PROVE  IdInv' /\ UNCHANGED failures
<1>1. /\ UNCHANGED << setup, mode, requestFIFOs, eventFIFO, nbTriggers, toEVM, evtIdRqsts, triggerFIFO, confirms, events >>
      /\ releasedEvbIdFIFO # << >> /\ releasedEvbIdFIFO' = Tail(releasedEvbIdFIFO) /\ mode = "Enabled"
  BY DEF ProcessNextReleasedEvent, participants, buVars, netVars, Works
<1>2. \A b \in BUs : PlaceAt(b)' /\ HereAt(b)' = HereAt(b)
  BY <1>1, PlaceSame DEF Back, Asked, Given, IdInv, PlaceInv
<1>3. PlaceInv' /\ Here' = Here
  BY <1>1, <1>2, HereSame
<1>4. PICK waiting, released, here, map, x :
        /\ waiting = Range(eventFIFO) /\ released = Range(releasedEvbIdFIFO) /\ here = Here /\ map = evbIdMap
        /\ x = Head(releasedEvbIdFIFO)
  OBVIOUS
<1>5. IdsApart(waiting, released, here, map)
  BY <1>4 DEF IdInv
<1>6. /\ Range(releasedEvbIdFIFO') = released \ {x} /\ IsInjective(releasedEvbIdFIFO') /\ x \in released
  BY <1>1, <1>4, RangeTail DEF IdInv, Types, EvmTypes
<1>7. x \in map
  BY <1>5, <1>6 DEF IdsApart
<1>8. evbIdMap' = map \ {x} /\ UNCHANGED failures
  BY <1>4, <1>7 DEF ProcessNextReleasedEvent
<1>9. IdsApart(waiting, released \ {x}, here, map \ {x})
  BY ONLY <1>5, <1>6, IdsRemoved
<1>10. \A y \in evbIdMap' : y <= nbTriggers
  BY <1>4, <1>8 DEF IdInv
<1> QED
  BY <1>1, <1>3, <1>4, <1>6, <1>8, <1>9, <1>10 DEF IdInv

LEMMA IdOfService ==
  ASSUME Types, IdInv, ServiceBuRqst
  PROVE  IdInv'
<1>1. /\ UNCHANGED << setup, mode, releasedEvbIdFIFO, nbTriggers, evbIdMap >>
      /\ eventFIFO # << >> /\ eventFIFO' = Tail(eventFIFO) /\ mode = "Enabled"
  BY DEF ServiceBuRqst, participants, Works
<1>2. PICK waiting, released, here, map, x :
        /\ waiting = Range(eventFIFO) /\ released = Range(releasedEvbIdFIFO) /\ here = Here /\ map = evbIdMap
        /\ x = Head(eventFIFO)
  OBVIOUS
<1>3. IdsApart(waiting, released, here, map) /\ DOMAIN here = BUs /\ \A b \in BUs : here[b] = HereAt(b)
  BY <1>2, HereIs DEF IdInv
<1>4. Range(eventFIFO') = waiting \ {x} /\ IsInjective(eventFIFO') /\ x \in waiting
  BY <1>1, <1>2, RangeTail DEF IdInv, Types, EvmTypes
<1>5. \A c \in BUs : x \notin HereAt(c)
  BY <1>3, <1>4 DEF IdsApart
<1>6. PlaceInv
  BY DEF IdInv
<1>7. PICK b \in BUs : /\ \A c \in BUs : PlaceAt(c)' /\ (c # b => HereAt(c)' = HereAt(c))
                       /\ HereAt(b)' = HereAt(b) \cup {x}
  BY <1>2, <1>5, <1>6, PlaceOfService
<1>8. PICK there : there = Here'
  OBVIOUS
<1>9. BUs' = BUs
  BY <1>1 DEF BUs
<1>10. PlaceInv'
  BY <1>7, <1>9 DEF PlaceInv
<1>11. /\ DOMAIN there = DOMAIN here /\ b \in DOMAIN here /\ there[b] = here[b] \cup {x}
       /\ \A c \in DOMAIN here : c # b => there[c] = here[c]
  BY <1>3, <1>7, <1>8, <1>9 DEF Here
<1>12. IdsApart(waiting \ {x}, released, there, map)
  BY ONLY <1>3, <1>4, <1>11, IdsGiven
<1> QED
  BY <1>1, <1>2, <1>4, <1>8, <1>10, <1>12 DEF IdInv

LEMMA IdOfAllocate ==
  ASSUME Types, IdInv, NEW b \in BUs, AllocateClear(b)
  PROVE  IdInv'
<1>1. /\ UNCHANGED << setup, mode, eventFIFO, nbTriggers, evbIdMap >> /\ toEVM[b] # << >> /\ mode = "Enabled"
  BY DEF AllocateClear, participants
<1>2. PICK e : e = Head(toEVM[b])
  OBVIOUS
<1>3. e \in Element /\ e.release \in Nat
  <2>1. e \in Element
    BY <1>1, <1>2 DEF Types, BuTypes
  <2> QED
    BY <2>1 DEF Element
<1>4. releasedEvbIdFIFO' = IF e.release = 0 THEN releasedEvbIdFIFO ELSE Append(releasedEvbIdFIFO, e.release)
  BY <1>2 DEF AllocateClear
<1>5. PlaceInv /\ releasedEvbIdFIFO \in Seq(Id)
  BY DEF IdInv, Types, EvmTypes
<1>6. /\ \A c \in BUs : PlaceAt(c)' /\ (c # b => HereAt(c)' = HereAt(c))
      /\ HereAt(b)' = HereAt(b) \ {e.release} /\ (e.release # 0 => e.release \in HereAt(b))
  BY <1>2, <1>5, PlaceOfAllocate
<1>7. BUs' = BUs
  BY <1>1 DEF BUs
<1>8. PlaceInv'
  BY <1>6, <1>7 DEF PlaceInv
<1>9. PICK waiting, released, here, map, there :
        /\ waiting = Range(eventFIFO) /\ released = Range(releasedEvbIdFIFO) /\ here = Here /\ map = evbIdMap
        /\ there = Here'
  OBVIOUS
<1>10. IdsApart(waiting, released, here, map) /\ DOMAIN here = BUs /\ \A c \in BUs : here[c] = HereAt(c)
  BY <1>9, HereIs DEF IdInv
<1>11. DOMAIN there = BUs /\ \A c \in BUs : there[c] = HereAt(c)'
  BY <1>7, <1>9 DEF Here
<1>12. CASE e.release = 0
  <2>1. 0 \notin HereAt(b)
    <3>1. 0 \notin map
      BY <1>9 DEF Types, EvmTypes, Id
    <3>2. here[b] \subseteq map
      BY <1>10 DEF IdsApart
    <3> QED
      BY <1>10, <3>1, <3>2
  <2>2. \A c \in BUs : there[c] = here[c]
    BY <1>6, <1>10, <1>11, <1>12, <2>1
  <2>3. IdsApart(waiting, released, there, map)
    BY <1>10, <1>11, <2>2 DEF IdsApart
  <2> QED
    BY <1>1, <1>4, <1>8, <1>9, <1>12, <2>3 DEF IdInv
<1>13. CASE e.release # 0
  <2>1. PICK x : x = e.release
    OBVIOUS
  <2>2. /\ DOMAIN there = DOMAIN here /\ b \in DOMAIN here /\ there[b] = here[b] \ {x} /\ x \in here[b]
        /\ \A c \in DOMAIN here : c # b => there[c] = here[c]
    BY <1>6, <1>10, <1>11, <1>13, <2>1
  <2>3. IdsApart(waiting, released \cup {x}, there, map) /\ x \notin released
    BY ONLY <1>10, <2>2, IdsReleased
  <2>4. releasedEvbIdFIFO' = Append(releasedEvbIdFIFO, x) /\ x \in Id
    BY <1>3, <1>4, <1>13, <2>1 DEF Id
  <2>5. Range(releasedEvbIdFIFO') = released \cup {x} /\ IsInjective(releasedEvbIdFIFO')
    BY <1>5, <1>9, <2>3, <2>4, RangeAppend DEF IdInv
  <2> QED
    BY <1>1, <1>8, <1>9, <2>3, <2>5 DEF IdInv
<1> QED
  BY <1>12, <1>13

LEMMA IdNext ==
  ASSUME Types, IdInv, [Next]_vars
  PROVE  IdInv'
<1>1. PlaceInv
  BY DEF IdInv
<1>2. ASSUME UNCHANGED << setup, mode, eventFIFO, releasedEvbIdFIFO, nbTriggers, evbIdMap >>,
             \A b \in BUs : PlaceAt(b)' /\ HereAt(b)' = HereAt(b)
      PROVE  IdInv'
  <2>1. PlaceInv' /\ Here' = Here
    BY <1>2, HereSame
  <2> QED
    BY <1>2, <2>1 DEF IdInv
<1>3. ASSUME UNCHANGED << setup, requestFIFOs, toEVM, evtIdRqsts, triggerFIFO, confirms, events >>
      PROVE  \A b \in BUs : PlaceAt(b)' /\ HereAt(b)' = HereAt(b)
  BY <1>1, <1>3, PlaceSame DEF Back, Asked, Given, PlaceInv
<1>4. CASE UNCHANGED vars
  BY <1>2, <1>3, <1>4 DEF vars, participants, evmVars, buVars, netVars
<1>5. CASE Configure
  <2>1. /\ UNCHANGED << setup, eventFIFO, releasedEvbIdFIFO, nbTriggers, evbIdMap >> /\ evbIdMap = {}
    BY <1>5 DEF Configure, IdInv
  <2>2. \A b \in BUs : HereAt(b) = {}
    BY <2>1, HereIs DEF IdInv, IdsApart
  <2>3. \A b \in BUs : PlaceAt(b)' /\ HereAt(b)' = {}
    BY <1>1, <1>5, <2>2, PlaceOfConfigure
  <2>4. PlaceInv' /\ Here' = Here
    BY <2>1, <2>2, <2>3, HereSame
  <2> QED
    BY <2>1, <2>4 DEF IdInv
<1>6. CASE Halt
  <2>1. /\ UNCHANGED << setup, requestFIFOs, toEVM, evtIdRqsts, triggerFIFO, confirms, events, eventFIFO,
                        releasedEvbIdFIFO, nbTriggers, evbIdMap >> /\ evbIdMap = {}
    BY <1>6 DEF Halt, evmVars, buVars, netVars
  <2>2. PlaceInv' /\ Here' = Here
    BY <1>3, <2>1, HereSame
  <2> QED
    BY <2>1, <2>2 DEF IdInv
<1>7. CASE TakeTrigger \/ ProcessNextReleasedEvent \/ ServiceBuRqst
  BY <1>7, IdOfTrigger, IdOfRelease, IdOfService
<1>8. CASE SendOldEvBids
  BY <1>2, <1>3, <1>8 DEF SendOldEvBids, participants, buVars
<1>9. ASSUME NEW u \in RUs, \/ RuReadout(u) \/ ProcessTrigger(u) \/ \E b \in BUs : RuSend(u, b) \/ BuCache(b, u)
      PROVE  IdInv'
  BY <1>2, <1>3, <1>9 DEF RuReadout, ProcessTrigger, RuSend, BuCache, participants, evmVars, buVars
<1>10. ASSUME NEW b \in BUs, AllocateClear(b)
       PROVE  IdInv'
  BY <1>10, IdOfAllocate
<1>11. ASSUME NEW b \in BUs, BuConfirm(b) \/ StartConstruction(b) \/ AppendSuperFragment(b) \/ SendOldEvmRequests(b)
       PROVE  IdInv'
  <2>1. UNCHANGED << setup, mode, eventFIFO, releasedEvbIdFIFO, nbTriggers, evbIdMap >>
    BY <1>11 DEF BuConfirm, StartConstruction, AppendSuperFragment, SendOldEvmRequests, participants, evmVars
  <2> QED
    BY <1>1, <1>2, <1>11, <2>1, PlaceOfConfirm, PlaceOfStart, PlaceOfAppend, PlaceOfSend
<1>12. ASSUME NEW b \in BUs, SendOldRuRequests(b)
       PROVE  IdInv'
  BY <1>2, <1>3, <1>12 DEF SendOldRuRequests, participants, evmVars
<1> QED
  BY <1>4, <1>5, <1>6, <1>7, <1>8, <1>9, <1>10, <1>11, <1>12 DEF Next

-----------------------------------------------------------------------------
(***************************************************************************)
(* The requests for super-fragments and the super-fragments.  What is on   *)
(* the way between a BU and an RU is for an event under construction that  *)
(* has nothing of this RU yet.  It is in one of five places: with the BU   *)
(* to be sent, sent, in the table of the RU, sent back, in the queue of    *)
(* the BU.  After a broadcast that failed, what is to be sent does not     *)
(* count: the BU sends nothing any more.                                   *)
(***************************************************************************)
RequestOf(b, t) == [bu |-> b, evbId |-> t.evbId, resource |-> t.resource]
BlockOf(u, t)   == [ru |-> u, evbId |-> t.evbId, resource |-> t.resource]

Unsent(b)      == IF Failed(Bu(b)) THEN {} ELSE Range(rqstForFrags[b])
Sent(b, u)     == Range(rqsts[u][b])
Filed(b, u)    == { t \in Token : RequestOf(b, t) \in requests[u] }
Returned(b, u) == Range(blocks[b][u])
Cached(b, u)   == { t \in Token : BlockOf(u, t) \in Range(blockFIFO[b]) }

From(event) == { s.ru : s \in event.superFragments }
Due(held, participating, u) ==
  { t \in Token : /\ t.resource \in DOMAIN held /\ held[t.resource].evbId = t.evbId
                  /\ u \in participating /\ u \notin From(held[t.resource]) }

OneWay(unsent, sent, filed, returned, cached, due) ==
  /\ sent \subseteq due /\ filed \subseteq due /\ returned \subseteq due /\ cached \subseteq due
  /\ unsent \cap (sent \cup filed \cup returned \cup cached) = {}
  /\ sent \cap (filed \cup returned \cup cached) = {}
  /\ filed \cap (returned \cup cached) = {} /\ returned \cap cached = {}

\* The event has the super-fragments of some RUs, but not of all.
Partial(event, participating) ==
  /\ event.superFragments = [ru : From(event), evbId : {event.evbId}]
  /\ From(event) \subseteq participating /\ From(event) # participating
  /\ event.nbCompleteSuperFragments = 1 + Cardinality(From(event))
  /\ event.nbExpectedSuperFragments = 1 + Cardinality(participating)

\* The super-fragments have still to be asked for.
ToAsk(held, t) ==
  t.resource \in DOMAIN held /\ held[t.resource].evbId = t.evbId /\ held[t.resource].superFragments = {}

Participating(b) == buRUs[b].participatingRUs

TableAt(b) ==
  /\ IsInjective(rqstForFrags[b]) /\ IsInjective(blockFIFO[b])
  /\ \A r \in DOMAIN events[b] : Partial(events[b][r], Participating(b))
  /\ \A t \in Unsent(b) : ToAsk(events[b], t)

WayAt(b, u) ==
  /\ IsInjective(rqsts[u][b]) /\ IsInjective(blocks[b][u])
  /\ OneWay(Unsent(b), Sent(b, u), Filed(b, u), Returned(b, u), Cached(b, u), Due(events[b], Participating(b), u))

WayInv == \A b \in BUs : TableAt(b) /\ \A u \in RUs : WayAt(b, u)

\* A BU that is configured knows how many RUs take part.
CountInv ==
  \A b \in BUs : /\ "ok" \in DOMAIN buRUs[b]
                 /\ mode = "Enabled" => buRUs[b].ruCount = Cardinality(Participating(b))

LEMMA WayTypes ==
  ASSUME Types, NEW b \in BUs
  PROVE  /\ rqstForFrags[b] \in Seq(Token) /\ blockFIFO[b] \in Seq(Block)
         /\ \A u \in RUs : /\ rqsts[u][b] \in Seq(Token) /\ blocks[b][u] \in Seq(Token)
                           /\ Sent(b, u) \subseteq Token /\ Filed(b, u) \subseteq Token
                           /\ Returned(b, u) \subseteq Token /\ Cached(b, u) \subseteq Token
         /\ Unsent(b) \subseteq Token
<1>1. /\ rqstForFrags[b] \in Seq(Token) /\ blockFIFO[b] \in Seq(Block)
      /\ \A u \in RUs : rqsts[u][b] \in Seq(Token) /\ blocks[b][u] \in Seq(Token)
  BY DEF Types, BuTypes
<1>2. \A q \in Seq(Token) : Range(q) \subseteq Token
  BY DEF Range
<1> QED
  BY <1>1, <1>2 DEF Sent, Filed, Returned, Cached, Unsent

LEMMA WaySame ==
  ASSUME NEW b, NEW u, UNCHANGED << rqsts[u][b], blocks[b][u], events[b], Participating(b), Unsent(b) >>,
         Filed(b, u)' = Filed(b, u), Cached(b, u)' = Cached(b, u), WayAt(b, u)
  PROVE  WayAt(b, u)'
BY DEF WayAt, Sent, Returned

LEMMA TableSame ==
  ASSUME NEW b, UNCHANGED << rqstForFrags[b], blockFIFO[b], events[b], Participating(b), Unsent(b) >>, TableAt(b)
  PROVE  TableAt(b)'
BY DEF TableAt

\* Requests and blocks are told apart by what they are made of.
LEMMA RequestOfIsOne ==
  ASSUME NEW b, NEW c, NEW t \in Token, NEW s \in Token
  PROVE  /\ RequestOf(b, t) = RequestOf(c, s) => b = c /\ t = s
         /\ BlockOf(b, t) = BlockOf(c, s) => b = c /\ t = s
<1>1. ASSUME t.evbId = s.evbId, t.resource = s.resource PROVE t = s
  BY <1>1 DEF Token
<1>2. /\ RequestOf(b, t).bu = b /\ RequestOf(b, t).evbId = t.evbId /\ RequestOf(b, t).resource = t.resource
      /\ RequestOf(c, s).bu = c /\ RequestOf(c, s).evbId = s.evbId /\ RequestOf(c, s).resource = s.resource
  BY DEF RequestOf
<1>3. /\ BlockOf(b, t).ru = b /\ BlockOf(b, t).evbId = t.evbId /\ BlockOf(b, t).resource = t.resource
      /\ BlockOf(c, s).ru = c /\ BlockOf(c, s).evbId = s.evbId /\ BlockOf(c, s).resource = s.resource
  BY DEF BlockOf
<1> QED
  BY <1>1, <1>2, <1>3

LEMMA RequestIsOf ==
  ASSUME NEW r \in Request
  PROVE  \E t \in Token : r = RequestOf(r.bu, t) /\ t.evbId = r.evbId /\ t.resource = r.resource
<1> DEFINE t == [evbId |-> r.evbId, resource |-> r.resource]
<1>1. r.evbId \in Id /\ r.resource \in Nat /\ r = [bu |-> r.bu, evbId |-> r.evbId, resource |-> r.resource]
  BY DEF Request
<1>2. t \in Token
  BY <1>1 DEF Token
<1> QED
  BY <1>1, <1>2 DEF RequestOf

LEMMA BlockIsOf ==
  ASSUME NEW x \in Block
  PROVE  \E t \in Token : x = BlockOf(x.ru, t) /\ t.evbId = x.evbId /\ t.resource = x.resource
<1> DEFINE t == [evbId |-> x.evbId, resource |-> x.resource]
<1>1. x.evbId \in Id /\ x.resource \in Nat /\ x = [ru |-> x.ru, evbId |-> x.evbId, resource |-> x.resource]
  BY DEF Block
<1>2. t \in Token
  BY <1>1 DEF Token
<1> QED
  BY <1>1, <1>2 DEF BlockOf

\* One token moves from a place to the next.
LEMMA OneWayMoves ==
  ASSUME NEW n, NEW s, NEW f, NEW r, NEW c, NEW d, OneWay(n, s, f, r, c, d), NEW t \in s
  PROVE  OneWay(n, s \ {t}, f \cup {t}, r, c, d)
BY DEF OneWay

LEMMA OneWayPasses ==
  ASSUME NEW n, NEW s, NEW f, NEW r, NEW c, NEW d, OneWay(n, s, f, r, c, d), NEW t \in s
  PROVE  OneWay(n, s \ {t}, f, r \cup {t}, c, d) /\ t \notin r
BY DEF OneWay

LEMMA OneWayAnswered ==
  ASSUME NEW n, NEW s, NEW f, NEW r, NEW c, NEW d, OneWay(n, s, f, r, c, d), NEW t \in f
  PROVE  OneWay(n, s, f \ {t}, r \cup {t}, c, d) /\ t \notin r
BY DEF OneWay

LEMMA OneWayCached ==
  ASSUME NEW n, NEW s, NEW f, NEW r, NEW c, NEW d, OneWay(n, s, f, r, c, d), NEW t \in r
  PROVE  OneWay(n, s, f, r \ {t}, c \cup {t}, d) /\ t \notin c
BY DEF OneWay

\* What is to be sent is sent, or lost.
LEMMA OneWaySends ==
  ASSUME NEW n, NEW s, NEW f, NEW r, NEW c, NEW d, OneWay(n, s, f, r, c, d), n \subseteq d
  PROVE  OneWay({}, s \cup n, f, r, c, d)
BY DEF OneWay

LEMMA OneWayFails ==
  ASSUME NEW n, NEW s, NEW f, NEW r, NEW c, NEW d, OneWay(n, s, f, r, c, d)
  PROVE  OneWay({}, s, f, r, c, d) /\ s \cap n = {}
BY DEF OneWay

\* The queue of the BU is left; more is due, or all but this.
LEMMA OneWayEnds ==
  ASSUME NEW n, NEW s, NEW f, NEW r, NEW c, NEW d, OneWay(n, s, f, r, c, d), NEW e, NEW t, t \in c, d \ {t} \subseteq e
  PROVE  OneWay(n, s, f, r, c \ {t}, e)
BY DEF OneWay

LEMMA OneWayMore ==
  ASSUME NEW n, NEW s, NEW f, NEW r, NEW c, NEW d, OneWay(n, s, f, r, c, d), NEW e, d \subseteq e
  PROVE  OneWay(n, s, f, r, c, e)
BY DEF OneWay

LEMMA OneWayBegins ==
  ASSUME NEW n, NEW s, NEW f, NEW r, NEW c, NEW d, OneWay(n, s, f, r, c, d), NEW e, d \subseteq e, NEW t, t \notin d
  PROVE  OneWay(n \cup {t}, s, f, r, c, e)
BY DEF OneWay

\* What is due of an event is known by its id or by its resource.
LEMMA DueIsOne ==
  ASSUME NEW held, NEW p, NEW u, NEW v, NEW t \in Due(held, p, u), NEW s \in Due(held, p, v), t.resource = s.resource
  PROVE  t = s
BY DEF Due, Token

LEMMA SameIdIsSame ==
  ASSUME Types, IdInv, NEW b \in BUs, NEW c \in BUs, NEW u, NEW v,
         NEW t \in Due(events[b], Participating(b), u), NEW s \in Due(events[c], Participating(c), v), t.evbId = s.evbId
  PROVE  b = c /\ t = s
<1>1. t.evbId \in HereAt(b) /\ s.evbId \in HereAt(c)
  BY DEF Due, HereAt, IdsAt
<1>2. b = c
  BY <1>1, HereIs DEF IdInv, IdsApart
<1>3. t.resource = s.resource
  BY <1>2 DEF Due, IdInv, PlaceInv, PlaceAt, Places
<1> QED
  BY <1>2, <1>3, DueIsOne

\* An event comes under construction.
LEMMA DueOfStart ==
  ASSUME NEW held, NEW p, NEW r, r \notin DOMAIN held, NEW event, NEW holds, With(held, r, event, holds),
         event.superFragments = {}, NEW t \in Token, t.resource = r, t.evbId = event.evbId
  PROVE  /\ \A u : Due(held, p, u) \subseteq Due(holds, p, u) /\ t \notin Due(held, p, u)
         /\ \A s : ToAsk(held, s) => ToAsk(holds, s)
         /\ ToAsk(holds, t)
<1>1. /\ DOMAIN holds = DOMAIN held \cup {r} /\ holds[r] = event
      /\ \A s \in DOMAIN held : holds[s] = held[s]
  BY DEF With
<1> QED
  BY <1>1 DEF Due, ToAsk

LEMMA ToAskIsDue ==
  ASSUME NEW held, NEW p, NEW t \in Token, ToAsk(held, t)
  PROVE  \A u \in p : t \in Due(held, p, u)
BY DEF ToAsk, Due, From

\* Of what is due, only the super-fragment t of u is not due any more.
Answered(held, holds, p, u, t) ==
  /\ Due(held, p, u) \ {t} \subseteq Due(holds, p, u)
  /\ \A v : v # u => Due(held, p, v) \subseteq Due(holds, p, v)
  /\ \A s \in Token \ {t} : ToAsk(held, s) => ToAsk(holds, s)

\* The super-fragment of u comes to an event.
LEMMA DueOfAppend ==
  ASSUME NEW held, NEW p, NEW u, NEW t \in Due(held, p, u), NEW event, NEW holds,
         With(held, t.resource, event, holds), event.evbId = t.evbId,
         From(event) = From(held[t.resource]) \cup {u}
  PROVE  Answered(held, holds, p, u, t)
<1>1. t.resource \in DOMAIN held /\ held[t.resource].evbId = t.evbId /\ t \in Token
  BY DEF Due
<1>2. /\ DOMAIN holds = DOMAIN held /\ holds[t.resource] = event
      /\ \A r \in DOMAIN held : r # t.resource => holds[r] = held[r]
  BY <1>1 DEF With
<1>3. ASSUME NEW s \in Due(held, p, u) \ {t} PROVE s \in Due(holds, p, u)
  <2>1. s.resource # t.resource
    BY DueIsOne
  <2> QED
    BY <1>2, <2>1 DEF Due
<1>4. ASSUME NEW v, v # u, NEW s \in Due(held, p, v) PROVE s \in Due(holds, p, v)
  <2>1. CASE s.resource = t.resource
    BY <1>1, <1>2, <1>4, <2>1 DEF Due
  <2>2. CASE s.resource # t.resource
    BY <1>2, <2>2 DEF Due
  <2> QED
    BY <2>1, <2>2
<1>5. ASSUME NEW s \in Token \ {t}, ToAsk(held, s) PROVE ToAsk(holds, s)
  <2>1. s.resource # t.resource
    BY <1>1, <1>5 DEF ToAsk, Token
  <2> QED
    BY <1>2, <1>5, <2>1 DEF ToAsk
<1> QED
  BY <1>3, <1>4, <1>5 DEF Answered

\* It was the last one.
LEMMA DueOfComplete ==
  ASSUME NEW held, NEW p, NEW u, NEW t \in Due(held, p, u), NEW holds, Without(held, t.resource, holds),
         p = From(held[t.resource]) \cup {u}
  PROVE  Answered(held, holds, p, u, t)
<1>1. t.resource \in DOMAIN held /\ held[t.resource].evbId = t.evbId /\ t \in Token
  BY DEF Due
<1>2. DOMAIN holds = DOMAIN held \ {t.resource} /\ \A r \in DOMAIN holds : holds[r] = held[r]
  BY DEF Without
<1>3. ASSUME NEW s \in Due(held, p, u) \ {t} PROVE s \in Due(holds, p, u)
  <2>1. s.resource # t.resource
    BY DueIsOne
  <2> QED
    BY <1>2, <2>1 DEF Due
<1>4. ASSUME NEW v, v # u, NEW s \in Due(held, p, v) PROVE s \in Due(holds, p, v)
  <2>1. s.resource # t.resource
    BY <1>4 DEF Due
  <2> QED
    BY <1>2, <2>1 DEF Due
<1>5. ASSUME NEW s \in Token \ {t}, ToAsk(held, s) PROVE ToAsk(holds, s)
  <2>1. s.resource # t.resource
    BY <1>1, <1>5 DEF ToAsk, Token
  <2> QED
    BY <1>2, <1>5, <2>1 DEF ToAsk
<1> QED
  BY <1>3, <1>4, <1>5 DEF Answered

\* The super-fragments of an event, when one more comes.
OneMore(e, event, p, u) ==
  /\ From(event) = From(e) \cup {u} /\ event.evbId = e.evbId /\ event.resource = e.resource
  /\ event.nbCompleteSuperFragments # event.nbExpectedSuperFragments => Partial(event, p)
  /\ event.nbCompleteSuperFragments = event.nbExpectedSuperFragments =>
       p = From(e) \cup {u} /\ event.superFragments = [ru : p, evbId : {e.evbId}]

LEMMA OneMoreFrom ==
  ASSUME NEW p, IsFiniteSet(p), NEW e, Partial(e, p), NEW u \in p, u \notin From(e),
         NEW event, event = Event(e, e.superFragments \cup {[ru |-> u, evbId |-> e.evbId]},
                                  e.nbCompleteSuperFragments + 1, e.nbExpectedSuperFragments)
  PROVE  OneMore(e, event, p, u)
<1>1. /\ event.superFragments = e.superFragments \cup {[ru |-> u, evbId |-> e.evbId]}
      /\ event.nbCompleteSuperFragments = e.nbCompleteSuperFragments + 1
      /\ event.nbExpectedSuperFragments = e.nbExpectedSuperFragments
      /\ event.evbId = e.evbId /\ event.resource = e.resource
  BY DEF Event
<1>2. From(event) = From(e) \cup {u}
  <2>1. PICK S, x : S = e.superFragments /\ x = [ru |-> u, evbId |-> e.evbId]
    OBVIOUS
  <2>2. { y.ru : y \in S \cup {x} } = { y.ru : y \in S } \cup {x.ru} /\ x.ru = u
    BY <2>1
  <2> QED
    BY <1>1, <2>1, <2>2 DEF From
<1>3. e.nbCompleteSuperFragments = 1 + Cardinality(From(e)) /\ e.nbExpectedSuperFragments = 1 + Cardinality(p)
  BY DEF Partial
<1>4. /\ IsFiniteSet(From(e)) /\ Cardinality(From(e)) \in Nat /\ Cardinality(p) \in Nat
      /\ Cardinality(From(e) \cup {u}) = Cardinality(From(e)) + 1
  <2>1. IsFiniteSet(From(e))
    BY FS_Subset DEF Partial
  <2> QED
    BY <2>1, FS_CardinalityType, FS_AddElement
<1>5. From(event) \subseteq p /\ (Cardinality(From(event)) = Cardinality(p) => From(event) = p)
  <2>1. From(event) \subseteq p
    BY <1>2 DEF Partial
  <2> QED
    BY <2>1, FS_Subset
<1>6. event.superFragments = [ru : From(event), evbId : {event.evbId}]
  <2>1. e.superFragments = [ru : From(e), evbId : {e.evbId}]
    BY DEF Partial
  <2>2. PICK F, i : F = From(e) /\ i = e.evbId
    OBVIOUS
  <2>3. [ru : F, evbId : {i}] \cup {[ru |-> u, evbId |-> i]} = [ru : F \cup {u}, evbId : {i}]
    <3>1. \A z \in [ru : F, evbId : {i}] : z \in [ru : F \cup {u}, evbId : {i}]
      OBVIOUS
    <3>2. [ru |-> u, evbId |-> i] \in [ru : F \cup {u}, evbId : {i}]
      OBVIOUS
    <3>3. ASSUME NEW z \in [ru : F \cup {u}, evbId : {i}]
          PROVE  z \in [ru : F, evbId : {i}] \/ z = [ru |-> u, evbId |-> i]
      <4>1. z.ru \in F \cup {u} /\ z.evbId = i /\ z = [ru |-> z.ru, evbId |-> z.evbId]
        OBVIOUS
      <4>2. CASE z.ru \in F
        <5>1. [ru |-> z.ru, evbId |-> i] \in [ru : F, evbId : {i}]
          BY <4>2
        <5> QED
          BY <4>1, <5>1
      <4>3. CASE z.ru = u
        BY <4>1, <4>3
      <4> QED
        BY <4>1, <4>2, <4>3
    <3> HIDE DEF From
    <3> QED
      BY <3>1, <3>2, <3>3
  <2> QED
    BY <1>1, <1>2, <2>1, <2>2, <2>3
<1>7. /\ event.nbCompleteSuperFragments = 1 + Cardinality(From(event))
      /\ event.nbExpectedSuperFragments = 1 + Cardinality(p)
      /\ Cardinality(From(event)) \in Nat
  <2>1. Cardinality(From(event)) = Cardinality(From(e) \cup {u})
    BY <1>2, Zenon
  <2>2. PICK k, l, m : k = Cardinality(From(event)) /\ l = Cardinality(From(e)) /\ m = Cardinality(p)
    OBVIOUS
  <2>3. k = l + 1 /\ l \in Nat
    BY <1>4, <2>1, <2>2, Zenon
  <2>4. event.nbCompleteSuperFragments = 1 + l + 1 /\ event.nbExpectedSuperFragments = 1 + m
    BY <1>1, <1>3, <2>2
  <2>5. event.nbCompleteSuperFragments = 1 + k /\ k \in Nat
    BY <2>3, <2>4
  <2> QED
    BY <2>2, <2>4, <2>5
<1>8. event.nbCompleteSuperFragments = event.nbExpectedSuperFragments <=> From(event) = p
  <2>1. Cardinality(From(event)) \in Nat
    BY <1>7
  <2>2. 1 + Cardinality(From(event)) = 1 + Cardinality(p) <=> Cardinality(From(event)) = Cardinality(p)
    BY <1>4, <2>1
  <2> QED
    BY <1>5, <1>7, <2>2
<1> QED
  BY <1>1, <1>2, <1>5, <1>6, <1>7, <1>8 DEF Partial, OneMore

\* The first of a BU that has RUs to ask.
LEMMA NoneFrom ==
  ASSUME NEW p, IsFiniteSet(p), NEW t, NEW n, n = Cardinality(p), NEW event, event = Event(t, {}, 1, n + 1)
  PROVE  /\ event.superFragments = {} /\ event.evbId = t.evbId /\ event.resource = t.resource
         /\ event.nbCompleteSuperFragments # event.nbExpectedSuperFragments <=> n > 0
         /\ n > 0 => Partial(event, p)
         /\ ~ (n > 0) => p = {} /\ event.superFragments = [ru : p, evbId : {event.evbId}]
<1>1. /\ event.superFragments = {} /\ event.evbId = t.evbId /\ event.resource = t.resource
      /\ event.nbCompleteSuperFragments = 1 /\ event.nbExpectedSuperFragments = n + 1
  BY DEF Event
<1>2. n \in Nat /\ (n = 0 <=> p = {})
  BY FS_CardinalityType, FS_EmptySet
<1>3. From(event) = {} /\ Cardinality({}) = 0
  BY <1>1, FS_EmptySet DEF From
<1>4. {} = [ru : {}, evbId : {event.evbId}]
  OBVIOUS
<1>5. event.nbCompleteSuperFragments # event.nbExpectedSuperFragments <=> n > 0
  BY <1>1, <1>2
<1>6. n > 0 => Partial(event, p)
  <2> SUFFICES ASSUME n > 0 PROVE Partial(event, p)
    OBVIOUS
  <2>1. p # {} /\ event.nbExpectedSuperFragments = 1 + Cardinality(p)
    BY <1>1, <1>2
  <2>2. event.nbCompleteSuperFragments = 1 + Cardinality({})
    BY <1>1, <1>3
  <2> QED
    BY <1>1, <1>3, <1>4, <2>1, <2>2 DEF Partial
<1>7. ~ (n > 0) => p = {} /\ event.superFragments = [ru : p, evbId : {event.evbId}]
  BY <1>1, <1>2, <1>4
<1> QED
  BY <1>1, <1>5, <1>6, <1>7

-----------------------------------------------------------------------------
(* How many RUs take part.                                                 *)

\* When a list of RUs was taken over, its length is the count.
LEMMA FillCounts ==
  ASSUME NEW zone, NEW before, NEW instances
  PROVE  /\ DOMAIN Fill(zone, before, instances) = {"ok", "participatingRUs", "ruCount"}
         /\ Fill(zone, before, instances).ok =>
              Fill(zone, before, instances).ruCount = Cardinality(Fill(zone, before, instances).participatingRUs)
BY DEF Fill

LEMMA ParticipatingCounts ==
  ASSUME NEW zone, NEW before, NEW params, "ok" \in DOMAIN before, NEW rus, rus = ParticipatingRUs(zone, before, params)
  PROVE  "ok" \in DOMAIN rus /\ (rus.ok => rus.ruCount = Cardinality(rus.participatingRUs))
<1>1. PICK i : rus = [before EXCEPT !.ok = FALSE] \/ rus = Fill(zone, before, i)
  BY DEF ParticipatingRUs, FillParticipatingRUsUsingFragmentSet, FillParticipatingRUsUsingRuInstances
<1> QED
  BY <1>1, FillCounts

LEMMA CountInit == Init => CountInv
BY DEF Init, CountInv, NoRUs

LEMMA CountNext ==
  ASSUME CountInv, [Next]_vars
  PROVE  CountInv'
<1>1. CASE Configure
  <2>1. UNCHANGED setup /\ BUs' = BUs
    BY <1>1 DEF Configure, BUs
  <2>2. PICK p : /\ buRUs' = [b \in BUs |-> ParticipatingRUs(setup.zone, buRUs[b], p)]
                 /\ mode' = "Enabled" => \A b \in BUs : buRUs'[b].ok
    <3>1. PICK q : q = setup.configurations[configuration + 1]
      OBVIOUS
    <3>2. /\ buRUs' = [b \in BUs |-> ParticipatingRUs(setup.zone, buRUs[b], q.bu)]
          /\ mode' = IF Configurable(q, evmRUs', sms', buRUs') THEN "Enabled" ELSE "Failed"
      BY <1>1, <3>1 DEF Configure
    <3>3. mode' = "Enabled" => \A b \in BUs : buRUs'[b].ok
      BY <3>2 DEF Configurable
    <3> QED
      BY <3>2, <3>3
  <2>3. ASSUME NEW b \in BUs
        PROVE  "ok" \in DOMAIN buRUs'[b] /\ (mode' = "Enabled" => buRUs'[b].ruCount = Cardinality(buRUs'[b].participatingRUs))
    <3>1. PICK rus : rus = buRUs'[b]
      OBVIOUS
    <3>2. rus = ParticipatingRUs(setup.zone, buRUs[b], p) /\ "ok" \in DOMAIN buRUs[b]
      BY <2>2, <3>1 DEF CountInv
    <3>3. "ok" \in DOMAIN rus /\ (rus.ok => rus.ruCount = Cardinality(rus.participatingRUs))
      BY <3>2, ParticipatingCounts
    <3> QED
      BY <2>2, <3>1, <3>3
  <2> QED
    BY <2>1, <2>3 DEF CountInv, Participating
<1>2. CASE Halt
  BY <1>2 DEF Halt, CountInv, BUs, Participating
<1>3. ASSUME UNCHANGED participants PROVE CountInv'
  BY <1>3 DEF participants, CountInv, BUs, Participating
<1>4. CASE ~ (Configure \/ Halt)
  <2>1. UNCHANGED participants
    BY <1>4 DEF Next, vars, TakeTrigger, SendOldEvBids, ProcessNextReleasedEvent, ServiceBuRqst, RuReadout,
           ProcessTrigger, RuSend, BuCache, AllocateClear, BuConfirm, StartConstruction,
           AppendSuperFragment, SendOldEvmRequests, SendOldRuRequests
  <2> QED
    BY <1>3, <2>1
<1> QED
  BY <1>1, <1>2, <1>4

-----------------------------------------------------------------------------
\* Who failed.
LEMMA FailedOf ==
  ASSUME NEW app
  PROVE  /\ UNCHANGED failures => (Failed(app)' <=> Failed(app))
         /\ \A other, why : Fail(other, why) /\ other # app => (Failed(app)' <=> Failed(app))
         /\ \A why : Fail(app, why) => Failed(app)'
<1>1. UNCHANGED failures => (Failed(app)' <=> Failed(app))
  BY DEF Failed
<1>2. ASSUME NEW other, NEW why, Fail(other, why)
      PROVE  { f.app : f \in failures' } = { f.app : f \in failures } \cup {other}
  <2>1. PICK x, F, G : x = [app |-> other, why |-> why] /\ F = failures /\ G = failures'
    OBVIOUS
  <2>2. G = F \cup {x} /\ x.app = other
    BY <1>2, <2>1 DEF Fail
  <2>3. { f.app : f \in F \cup {x} } = { f.app : f \in F } \cup {x.app}
    OBVIOUS
  <2> QED
    BY <2>1, <2>2, <2>3
<1>3. ASSUME NEW other, NEW why, Fail(other, why) PROVE Failed(app)' <=> Failed(app) \/ app = other
  BY <1>2, <1>3 DEF Failed
<1> QED
  BY <1>1, <1>3

\* A step that has nothing to do with the super-fragments of a BU.
LEMMA WayKept ==
  ASSUME WayInv, UNCHANGED << setup, buRUs, rqstForFrags, blockFIFO, events, rqsts, blocks, requests >>,
         \A b \in BUs : Failed(Bu(b))' <=> Failed(Bu(b))
  PROVE  WayInv'
<1>1. BUs' = BUs /\ RUs' = RUs
  BY DEF BUs, RUs
<1>2. ASSUME NEW b \in BUs PROVE Unsent(b)' = Unsent(b) /\ Participating(b)' = Participating(b)
  BY DEF Unsent, Participating
<1>3. ASSUME NEW b \in BUs PROVE TableAt(b)'
  BY <1>2, TableSame DEF WayInv
<1>4. ASSUME NEW b \in BUs, NEW u \in RUs PROVE WayAt(b, u)'
  <2>1. Filed(b, u)' = Filed(b, u) /\ Cached(b, u)' = Cached(b, u)
    BY DEF Filed, Cached
  <2> QED
    BY <1>2, <2>1, WaySame DEF WayInv
<1> QED
  BY <1>1, <1>3, <1>4 DEF WayInv

\* A step of one RU, about one BU.
LEMMA WayOfRu ==
  ASSUME WayInv, NEW b \in BUs, NEW u \in RUs,
         UNCHANGED << setup, buRUs, rqstForFrags, blockFIFO, events, failures >>, WayAt(b, u)',
         \A c \in BUs, v \in RUs : c # b \/ v # u => /\ rqsts'[v][c] = rqsts[v][c] /\ blocks'[c][v] = blocks[c][v]
                                                     /\ Filed(c, v)' = Filed(c, v)
  PROVE  WayInv'
<1>1. BUs' = BUs /\ RUs' = RUs
  BY DEF BUs, RUs
<1>2. ASSUME NEW c \in BUs PROVE Unsent(c)' = Unsent(c) /\ Participating(c)' = Participating(c)
  BY FailedOf DEF Unsent, Participating
<1>3. ASSUME NEW c \in BUs PROVE TableAt(c)'
  BY <1>2, TableSame DEF WayInv
<1>4. ASSUME NEW c \in BUs, NEW v \in RUs PROVE WayAt(c, v)'
  <2>1. CASE c = b /\ v = u
    BY <2>1
  <2>2. CASE c # b \/ v # u
    <3>1. rqsts'[v][c] = rqsts[v][c] /\ blocks'[c][v] = blocks[c][v] /\ Filed(c, v)' = Filed(c, v)
      BY <2>2
    <3>2. Cached(c, v)' = Cached(c, v)
      BY DEF Cached
    <3> QED
      BY <1>2, <3>1, <3>2, WaySame DEF WayInv
  <2> QED
    BY <2>1, <2>2
<1> QED
  BY <1>1, <1>3, <1>4 DEF WayInv

\* What is in the table of an RU is for an event under construction; so it has one request for an event.
LEMMA FiledIsOne ==
  ASSUME Types, IdInv, WayInv, NEW u \in RUs, NEW b \in BUs, NEW c \in BUs, NEW t \in Token, NEW r \in requests[u],
         t \in Due(events[b], Participating(b), u), r.evbId = t.evbId
  PROVE  r = RequestOf(b, t) /\ t \in Filed(b, u)
<1>1. r \in Request
  BY DEF Types, RuTypes
<1>2. PICK s \in Token : r = RequestOf(r.bu, s) /\ s.evbId = r.evbId
  BY <1>1, RequestIsOf
<1>3. r.bu \in BUs
  BY <1>1 DEF Request
<1>4. s \in Filed(r.bu, u)
  BY <1>2 DEF Filed
<1>5. s \in Due(events[r.bu], Participating(r.bu), u)
  BY <1>3, <1>4 DEF WayInv, WayAt, OneWay
<1>6. r.bu = b /\ s = t
  BY <1>2, <1>3, <1>5, SameIdIsSame
<1> QED
  BY <1>2, <1>4, <1>6

\* A super-fragment is sent back.
LEMMA SentBack ==
  ASSUME Types, NEW u \in RUs, NEW b \in BUs, NEW t \in Token, SendData(u, RequestOf(b, t))
  PROVE  /\ blocks'[b][u] = Append(blocks[b][u], t)
         /\ \A c \in BUs, v \in RUs : c # b \/ v # u => blocks'[c][v] = blocks[c][v]
<1>1. t = [evbId |-> t.evbId, resource |-> t.resource]
  BY DEF Token
<1>2. /\ RequestOf(b, t).bu = b /\ RequestOf(b, t).evbId = t.evbId /\ RequestOf(b, t).resource = t.resource
  BY DEF RequestOf
<1>3. blocks' = [blocks EXCEPT ![b][u] = Append(@, t)]
  BY <1>1, <1>2 DEF SendData
<1>4. blocks \in [BUs -> [RUs -> Seq(Token)]]
  BY DEF Types, BuTypes
<1> QED
  BY <1>3, <1>4

\* A request is filed, or answered; there is no second one.
LEMMA WayOfSend ==
  ASSUME Types, IdInv, WayInv, NEW u \in RUs, NEW b \in BUs, RuSend(u, b)
  PROVE  WayInv' /\ UNCHANGED failures
<1>1. /\ UNCHANGED << setup, buRUs, rqstForFrags, blockFIFO, events >>
      /\ rqsts[u][b] # << >> /\ rqsts' = [rqsts EXCEPT ![u][b] = Tail(@)]
  BY DEF RuSend, participants, buVars
<1>2. PICK t : t = Head(rqsts[u][b])
  OBVIOUS
<1>3. /\ WayAt(b, u) /\ rqsts[u][b] \in Seq(Token) /\ blocks[b][u] \in Seq(Token)
      /\ rqsts \in [RUs -> [BUs -> Seq(Token)]] /\ requests \in [RUs -> SUBSET Request]
  BY WayTypes DEF WayInv, Types, BuTypes, RuTypes
<1>4. PICK n, s, f, r, c, d :
        /\ n = Unsent(b) /\ s = Sent(b, u) /\ f = Filed(b, u) /\ r = Returned(b, u) /\ c = Cached(b, u)
        /\ d = Due(events[b], Participating(b), u)
  OBVIOUS
<1>5. OneWay(n, s, f, r, c, d)
  BY <1>3, <1>4 DEF WayAt
<1>6. t \in Token /\ t \in s /\ IsInjective(Tail(rqsts[u][b])) /\ Range(Tail(rqsts[u][b])) = s \ {t}
  BY <1>1, <1>2, <1>3, <1>4, RangeTail DEF WayAt, Sent
<1>7. /\ IsInjective(rqsts'[u][b]) /\ Range(rqsts'[u][b]) = s \ {t}
      /\ \A a \in BUs, v \in RUs : a # b \/ v # u => rqsts'[v][a] = rqsts[v][a]
  BY <1>1, <1>3, <1>6
<1>8. t \in d /\ t \notin f
  BY <1>5, <1>6 DEF OneWay
<1>9. PICK q : q = RequestOf(b, t)
  OBVIOUS
<1>10. q.evbId = t.evbId /\ q.bu = b
  BY <1>9 DEF RequestOf
<1>11. ~ \E x \in requests[u] : x.evbId = q.evbId
  BY <1>4, <1>6, <1>8, <1>10, FiledIsOne
<1>12. /\ UNCHANGED failures
       /\ \/ SendData(u, q) /\ UNCHANGED requests
          \/ requests' = [requests EXCEPT ![u] = @ \cup {q}] /\ UNCHANGED blocks
  <2>1. q = [bu |-> b, evbId |-> Head(rqsts[u][b]).evbId, resource |-> Head(rqsts[u][b]).resource]
    BY <1>2, <1>9 DEF RequestOf
  <2>2. \/ (\E x \in requests[u] : x.evbId = q.evbId)
        \/ SendData(u, q) /\ UNCHANGED << requests, failures >>
        \/ requests' = [requests EXCEPT ![u] = @ \cup {q}] /\ UNCHANGED << failures, blocks >>
    BY <2>1 DEF RuSend
  <2> QED
    BY <1>11, <2>2
<1>13. /\ Unsent(b)' = n /\ Cached(b, u)' = c /\ Due(events[b], Participating(b), u)' = d
       /\ Sent(b, u)' = s \ {t}
  BY <1>1, <1>4, <1>7, <1>12, FailedOf DEF Unsent, Cached, Participating, Sent
<1>14. CASE SendData(u, q) /\ UNCHANGED requests
  <2>1. /\ blocks'[b][u] = Append(blocks[b][u], t)
        /\ \A a \in BUs, v \in RUs : a # b \/ v # u => blocks'[a][v] = blocks[a][v]
    BY <1>6, <1>9, <1>14, SentBack
  <2>2. OneWay(n, s \ {t}, f, r \cup {t}, c, d) /\ t \notin r
    BY ONLY <1>5, <1>6, OneWayPasses
  <2>3. IsInjective(blocks'[b][u]) /\ Returned(b, u)' = r \cup {t}
    BY <1>3, <1>4, <1>6, <2>1, <2>2, RangeAppend DEF Returned, WayAt
  <2>4. \A a \in BUs, v \in RUs : Filed(a, v)' = Filed(a, v)
    BY <1>14 DEF Filed
  <2>5. WayAt(b, u)'
    BY <1>4, <1>7, <1>13, <2>2, <2>3, <2>4 DEF WayAt
  <2> QED
    BY <1>1, <1>7, <1>12, <2>1, <2>4, <2>5, WayOfRu
<1>15. CASE requests' = [requests EXCEPT ![u] = @ \cup {q}] /\ UNCHANGED blocks
  <2>1. OneWay(n, s \ {t}, f \cup {t}, r, c, d)
    BY ONLY <1>5, <1>6, OneWayMoves
  <2>2. requests'[u] = requests[u] \cup {q} /\ \A v \in RUs : v # u => requests'[v] = requests[v]
    BY <1>3, <1>15
  <2>3. \A a \in BUs, x \in Token : RequestOf(a, x) = q <=> a = b /\ x = t
    BY <1>6, <1>9, RequestOfIsOne
  <2>4. Filed(b, u)' = f \cup {t}
    BY <1>4, <1>6, <2>2, <2>3 DEF Filed
  <2>5. ASSUME NEW a \in BUs, NEW v \in RUs, a # b \/ v # u PROVE Filed(a, v)' = Filed(a, v)
    BY <2>2, <2>3, <2>5 DEF Filed
  <2>6. WayAt(b, u)'
    BY <1>3, <1>4, <1>7, <1>13, <1>15, <2>1, <2>4 DEF WayAt, Returned
  <2> QED
    BY <1>1, <1>7, <1>12, <1>15, <2>5, <2>6, WayOfRu
<1> QED
  BY <1>12, <1>14, <1>15

\* The super-fragment of the trigger goes to the BU that has asked for it, once.
LEMMA WayOfTrigger ==
  ASSUME Types, OrderInv, IdInv, WayInv, NEW u \in RUs, ProcessTrigger(u)
  PROVE  WayInv' /\ UNCHANGED failures
<1>1. UNCHANGED << setup, buRUs, rqstForFrags, blockFIFO, events, rqsts >> /\ evbIdFIFO[u] # << >>
  BY DEF ProcessTrigger, participants, buVars
<1>2. PICK evbId, asked : evbId = Head(evbIdFIFO[u]) /\ asked = { r \in requests[u] : r.evbId = evbId }
  OBVIOUS
<1>3. evbId \notin data[u]
  BY <1>1, <1>2, NoSuperFragmentTwice
<1>4. /\ UNCHANGED failures
      /\ \/ asked = {} /\ UNCHANGED << requests, blocks >>
         \/ \E r \in asked : SendData(u, r) /\ requests' = [requests EXCEPT ![u] = @ \ asked]
  BY <1>2, <1>3 DEF ProcessTrigger
<1>5. CASE UNCHANGED << requests, blocks >>
  BY <1>1, <1>4, <1>5, WayKept, FailedOf
<1>6. ASSUME NEW q \in asked, SendData(u, q), requests' = [requests EXCEPT ![u] = @ \ asked]
      PROVE  WayInv'
  <2>1. q \in Request /\ q \in requests[u] /\ q.evbId = evbId
    BY <1>2 DEF Types, RuTypes
  <2>2. PICK t \in Token : q = RequestOf(q.bu, t) /\ t.evbId = evbId
    BY <2>1, RequestIsOf
  <2>3. PICK b \in BUs : b = q.bu
    BY <2>1 DEF Request
  <2>4. q = RequestOf(b, t) /\ t \in Filed(b, u)
    BY <2>1, <2>2, <2>3 DEF Filed
  <2>5. PICK n, s, f, r, c, d :
          /\ n = Unsent(b) /\ s = Sent(b, u) /\ f = Filed(b, u) /\ r = Returned(b, u) /\ c = Cached(b, u)
          /\ d = Due(events[b], Participating(b), u)
    OBVIOUS
  <2>6. WayAt(b, u) /\ OneWay(n, s, f, r, c, d) /\ t \in f
    BY <2>4, <2>5 DEF WayInv, WayAt
  <2>7. t \in d
    BY <2>6 DEF OneWay
  <2>8. asked = {q}
    BY <1>2, <2>1, <2>2, <2>4, <2>5, <2>7, FiledIsOne
  <2>9. /\ blocks'[b][u] = Append(blocks[b][u], t)
        /\ \A a \in BUs, v \in RUs : a # b \/ v # u => blocks'[a][v] = blocks[a][v]
    BY <1>6, <2>4, SentBack
  <2>10. OneWay(n, s, f \ {t}, r \cup {t}, c, d) /\ t \notin r
    BY ONLY <2>6, OneWayAnswered
  <2>11. blocks[b][u] \in Seq(Token) /\ requests \in [RUs -> SUBSET Request]
    BY WayTypes DEF Types, RuTypes
  <2>12. IsInjective(blocks'[b][u]) /\ Returned(b, u)' = r \cup {t}
    BY <2>5, <2>6, <2>9, <2>10, <2>11, RangeAppend DEF Returned, WayAt
  <2>13. requests'[u] = requests[u] \ {q} /\ \A v \in RUs : v # u => requests'[v] = requests[v]
    BY <1>6, <2>8, <2>11
  <2>14. \A a \in BUs, x \in Token : RequestOf(a, x) = q <=> a = b /\ x = t
    BY <2>4, RequestOfIsOne
  <2>15. Filed(b, u)' = f \ {t}
    BY <2>5, <2>13, <2>14 DEF Filed
  <2>16. ASSUME NEW a \in BUs, NEW v \in RUs, a # b \/ v # u PROVE Filed(a, v)' = Filed(a, v)
    BY <2>13, <2>14, <2>16 DEF Filed
  <2>17. /\ Unsent(b)' = n /\ Cached(b, u)' = c /\ Due(events[b], Participating(b), u)' = d
         /\ Sent(b, u)' = s
    BY <1>1, <1>4, <2>5, FailedOf DEF Unsent, Cached, Participating, Sent
  <2>18. WayAt(b, u)'
    BY <1>1, <2>6, <2>10, <2>12, <2>15, <2>17 DEF WayAt
  <2> QED
    BY <1>1, <1>4, <2>9, <2>16, <2>18, WayOfRu
<1> QED
  BY <1>4, <1>5, <1>6

\* A super-fragment comes to the queue of the BU.
LEMMA WayOfCache ==
  ASSUME Types, WayInv, NEW u \in RUs, NEW b \in BUs, BuCache(b, u)
  PROVE  WayInv'
<1>1. /\ UNCHANGED << setup, buRUs, rqstForFrags, events, rqsts, requests, failures >> /\ blocks[b][u] # << >>
      /\ blocks' = [blocks EXCEPT ![b][u] = Tail(@)]
  BY DEF BuCache, participants, ruVars
<1>2. PICK t : t = Head(blocks[b][u])
  OBVIOUS
<1>3. blockFIFO' = [blockFIFO EXCEPT ![b] = Append(@, BlockOf(u, t))]
  BY <1>2 DEF BuCache, BlockOf
<1>4. /\ WayAt(b, u) /\ TableAt(b) /\ blocks[b][u] \in Seq(Token) /\ blockFIFO[b] \in Seq(Block)
      /\ blocks \in [BUs -> [RUs -> Seq(Token)]] /\ blockFIFO \in [BUs -> Seq(Block)] /\ RUs \subseteq Nat
  BY WayTypes, PeersAreNumbers DEF WayInv, Types, BuTypes, SetupTypes
<1>5. PICK n, s, f, r, c, d :
        /\ n = Unsent(b) /\ s = Sent(b, u) /\ f = Filed(b, u) /\ r = Returned(b, u) /\ c = Cached(b, u)
        /\ d = Due(events[b], Participating(b), u)
  OBVIOUS
<1>6. OneWay(n, s, f, r, c, d)
  BY <1>4, <1>5 DEF WayAt
<1>7. t \in Token /\ t \in r /\ IsInjective(Tail(blocks[b][u])) /\ Range(Tail(blocks[b][u])) = r \ {t}
  BY <1>1, <1>2, <1>4, <1>5, RangeTail DEF WayAt, Returned
<1>8. OneWay(n, s, f, r \ {t}, c \cup {t}, d) /\ t \notin c
  BY ONLY <1>6, <1>7, OneWayCached
<1>9. /\ blocks'[b][u] = Tail(blocks[b][u]) /\ \A a \in BUs, v \in RUs : a # b \/ v # u => blocks'[a][v] = blocks[a][v]
      /\ blockFIFO'[b] = Append(blockFIFO[b], BlockOf(u, t)) /\ \A a \in BUs : a # b => blockFIFO'[a] = blockFIFO[a]
  BY <1>1, <1>3, <1>4
<1>10. PICK x : x = BlockOf(u, t)
  OBVIOUS
<1>11. x \in Block /\ x \notin Range(blockFIFO[b])
  <2>1. x \in Block
    BY <1>4, <1>7, <1>10 DEF BlockOf, Block, Token
  <2> QED
    BY <1>5, <1>7, <1>8, <1>10, <2>1 DEF Cached
<1>12. Range(blockFIFO'[b]) = Range(blockFIFO[b]) \cup {x} /\ IsInjective(blockFIFO'[b])
  BY <1>4, <1>9, <1>10, <1>11, RangeAppend DEF TableAt
<1>13. Cached(b, u)' = c \cup {t}
  BY <1>5, <1>7, <1>10, <1>12, RequestOfIsOne DEF Cached
<1>14. ASSUME NEW a \in BUs, NEW v \in RUs, a # b \/ v # u PROVE Cached(a, v)' = Cached(a, v)
  <2>1. CASE a = b
    BY <1>7, <1>10, <1>12, <1>14, <2>1, RequestOfIsOne DEF Cached
  <2>2. CASE a # b
    BY <1>9, <2>2 DEF Cached
  <2> QED
    BY <2>1, <2>2
<1>15. ASSUME NEW a \in BUs
       PROVE  /\ Unsent(a)' = Unsent(a) /\ Participating(a)' = Participating(a)
              /\ \A v \in RUs : Filed(a, v)' = Filed(a, v) /\ rqsts'[v][a] = rqsts[v][a]
  BY <1>1, FailedOf DEF Unsent, Participating, Filed
<1>16. ASSUME NEW a \in BUs PROVE TableAt(a)'
  <2>1. TableAt(a) /\ Unsent(a)' = Unsent(a) /\ Participating(a)' = Participating(a)
    BY <1>15 DEF WayInv
  <2>2. CASE a = b
    BY <1>1, <1>12, <2>1, <2>2 DEF TableAt
  <2>3. CASE a # b
    BY <1>1, <1>9, <2>1, <2>3, TableSame
  <2> QED
    BY <2>2, <2>3
<1>17. WayAt(b, u)'
  <2>1. IsInjective(blocks'[b][u]) /\ Returned(b, u)' = r \ {t}
    BY <1>7, <1>9 DEF Returned
  <2>2. Sent(b, u)' = s
    BY <1>1, <1>5 DEF Sent
  <2> QED
    BY <1>1, <1>4, <1>5, <1>8, <1>13, <1>15, <2>1, <2>2 DEF WayAt
<1>18. ASSUME NEW a \in BUs, NEW v \in RUs PROVE WayAt(a, v)'
  <2>1. CASE a = b /\ v = u
    BY <1>17, <2>1
  <2>2. CASE a # b \/ v # u
    <3>1. blocks'[a][v] = blocks[a][v] /\ Cached(a, v)' = Cached(a, v)
      BY <1>9, <1>14, <2>2
    <3> QED
      BY <1>1, <1>15, <3>1, WaySame DEF WayInv
  <2> QED
    BY <2>1, <2>2
<1>19. BUs' = BUs /\ RUs' = RUs
  BY <1>1 DEF BUs, RUs
<1> QED
  BY <1>16, <1>18, <1>19 DEF WayInv

\* A step of one BU.
LEMMA WayOfBu ==
  ASSUME WayInv, NEW b \in BUs, UNCHANGED << setup, buRUs, requests, blocks >>,
         UNCHANGED failures \/ \E why : Fail(Bu(b), why),
         \A c \in BUs : c # b => /\ rqstForFrags'[c] = rqstForFrags[c] /\ blockFIFO'[c] = blockFIFO[c]
                                 /\ events'[c] = events[c] /\ \A u \in RUs : rqsts'[u][c] = rqsts[u][c],
         TableAt(b)', \A u \in RUs : WayAt(b, u)'
  PROVE  WayInv'
<1>1. BUs' = BUs /\ RUs' = RUs
  BY DEF BUs, RUs
<1>2. ASSUME NEW c \in BUs, c # b PROVE TableAt(c)' /\ \A u \in RUs : WayAt(c, u)'
  <2>1. Bu(c) # Bu(b)
    BY <1>2 DEF Bu
  <2>2. Failed(Bu(c))' <=> Failed(Bu(c))
    BY <2>1, FailedOf
  <2>3. /\ rqstForFrags'[c] = rqstForFrags[c] /\ blockFIFO'[c] = blockFIFO[c] /\ events'[c] = events[c]
        /\ Participating(c)' = Participating(c) /\ \A u \in RUs : rqsts'[u][c] = rqsts[u][c]
    BY <1>2 DEF Participating
  <2>4. Unsent(c)' = Unsent(c) /\ \A u \in RUs : Filed(c, u)' = Filed(c, u) /\ Cached(c, u)' = Cached(c, u)
    BY <2>2, <2>3 DEF Unsent, Filed, Cached
  <2>5. TableAt(c) /\ \A u \in RUs : WayAt(c, u)
    BY DEF WayInv
  <2>6. TableAt(c)'
    BY <2>3, <2>4, <2>5, TableSame
  <2>7. ASSUME NEW u \in RUs PROVE WayAt(c, u)'
    BY <2>3, <2>4, <2>5, WaySame
  <2> QED
    BY <2>6, <2>7
<1> QED
  BY <1>1, <1>2 DEF WayInv

\* What a message of requests leaves with each of the RUs.
Broadcast(b, msg, reached) ==
  rqsts' = [u \in RUs |-> IF u \in reached THEN [rqsts[u] EXCEPT ![b] = @ \o msg] ELSE rqsts[u]]

LEMMA BroadcastEffect ==
  ASSUME Types, NEW b \in BUs, NEW msg, NEW reached, Broadcast(b, msg, reached)
  PROVE  /\ \A u \in RUs, c \in BUs : c # b => rqsts'[u][c] = rqsts[u][c]
         /\ \A u \in RUs : rqsts'[u][b] = IF u \in reached THEN rqsts[u][b] \o msg ELSE rqsts[u][b]
BY DEF Broadcast, Types, BuTypes

\* The requests that a BU has to send are sent to some of its RUs, for events under construction.
LEMMA WayOfBroadcast ==
  ASSUME Types, NEW b \in BUs, NEW u \in RUs, NEW msg \in Seq(Token), IsInjective(msg),
         UNCHANGED << buRUs, blockFIFO, requests, blocks >>,
         NEW n, n = Range(msg), NEW d, d = Due(events[b], Participating(b), u)',
         OneWay(n, Sent(b, u), Filed(b, u), Returned(b, u), Cached(b, u), d),
         IsInjective(rqsts[u][b]), IsInjective(blocks[b][u]),
         \/ rqsts'[u][b] = rqsts[u][b]
         \/ rqsts'[u][b] = rqsts[u][b] \o msg /\ n \subseteq d,
         Unsent(b)' = {}
  PROVE  WayAt(b, u)'
<1>1. PICK s, f, r, c : /\ s = Sent(b, u) /\ f = Filed(b, u) /\ r = Returned(b, u) /\ c = Cached(b, u)
  OBVIOUS
<1>2. OneWay(n, s, f, r, c, d)
  BY <1>1
<1>3. OneWay({}, s, f, r, c, d) /\ s \cap n = {}
  BY ONLY <1>2, OneWayFails
<1>4. Filed(b, u)' = f /\ Returned(b, u)' = r /\ Cached(b, u)' = c /\ IsInjective(blocks'[b][u])
  BY <1>1 DEF Filed, Returned, Cached
<1>5. CASE rqsts'[u][b] = rqsts[u][b]
  <2>1. Sent(b, u)' = s
    BY <1>1, <1>5 DEF Sent
  <2> QED
    BY <1>3, <1>4, <1>5, <2>1 DEF WayAt
<1>6. CASE rqsts'[u][b] = rqsts[u][b] \o msg /\ n \subseteq d
  <2>1. OneWay({}, s \cup n, f, r, c, d)
    BY ONLY <1>2, <1>6, OneWaySends
  <2>2. rqsts[u][b] \in Seq(Token) /\ Range(rqsts[u][b]) = s
    BY <1>1, WayTypes DEF Sent
  <2>3. Range(rqsts[u][b] \o msg) = s \cup n /\ IsInjective(rqsts[u][b] \o msg)
    BY <1>3, <2>2, RangeConcat
  <2>4. Sent(b, u)' = s \cup n /\ IsInjective(rqsts'[u][b])
    BY <1>6, <2>3 DEF Sent
  <2> QED
    BY <1>4, <2>1, <2>4 DEF WayAt
<1> QED
  BY <1>5, <1>6

LEMMA WayOfOldRequests ==
  ASSUME Types, WayInv, NEW b \in BUs, SendOldRuRequests(b)
  PROVE  WayInv' /\ (UNCHANGED failures \/ Fail(Bu(b), "post"))
<1>1. UNCHANGED << setup, buRUs, requests, blocks, blockFIFO, events >> /\ ~ Failed(Bu(b))
  BY DEF SendOldRuRequests, participants, ruVars, Works, Failed
<1>2. PICK reached, msg :
        /\ msg = rqstForFrags[b] /\ reached \subseteq Participating(b) /\ Broadcast(b, msg, reached)
        /\ \/ rqstForFrags' = [rqstForFrags EXCEPT ![b] = << >>] /\ UNCHANGED failures
           \/ Fail(Bu(b), "post") /\ UNCHANGED rqstForFrags
  BY DEF SendOldRuRequests, Broadcast, Reachable, Participating
<1>3. msg \in Seq(Token) /\ TableAt(b) /\ Unsent(b) = Range(msg) /\ rqstForFrags \in [BUs -> Seq(Token)]
  BY <1>1, <1>2, WayTypes DEF Unsent, WayInv, Types, BuTypes
<1>4. PICK n : n = Range(msg)
  OBVIOUS
<1>5. IsInjective(msg) /\ n \subseteq Token /\ \A t \in n : ToAsk(events[b], t)
  BY <1>2, <1>3, <1>4, WayTypes DEF TableAt
<1>6. /\ \A c \in BUs : c # b => rqstForFrags'[c] = rqstForFrags[c]
      /\ rqstForFrags'[b] = << >> \/ rqstForFrags'[b] = msg
      /\ Unsent(b)' = {}
  <2>1. Range(<< >>) = {}
    BY DEF Range
  <2>2. CASE rqstForFrags' = [rqstForFrags EXCEPT ![b] = << >>]
    BY <1>3, <2>1, <2>2 DEF Unsent
  <2>3. CASE Fail(Bu(b), "post") /\ UNCHANGED rqstForFrags
    BY <1>2, <2>3, FailedOf DEF Unsent
  <2> QED
    BY <1>2, <2>2, <2>3
<1>7. /\ \A u \in RUs, c \in BUs : c # b => rqsts'[u][c] = rqsts[u][c]
      /\ \A u \in RUs : rqsts'[u][b] = IF u \in reached THEN rqsts[u][b] \o msg ELSE rqsts[u][b]
  BY <1>2, BroadcastEffect
<1>8. Participating(b)' = Participating(b) /\ events'[b] = events[b]
  BY <1>1 DEF Participating
<1>9. TableAt(b)'
  <2>1. IsInjective(<< >>)
    BY DEF IsInjective
  <2> QED
    BY <1>1, <1>3, <1>5, <1>6, <1>8, <2>1 DEF TableAt
<1>10. ASSUME NEW u \in RUs PROVE WayAt(b, u)'
  <2>1. PICK d : d = Due(events[b], Participating(b), u)
    OBVIOUS
  <2>2. WayAt(b, u) /\ OneWay(n, Sent(b, u), Filed(b, u), Returned(b, u), Cached(b, u), d)
    BY <1>3, <1>4, <2>1 DEF WayInv, WayAt
  <2>3. u \in reached => n \subseteq d
    BY <1>2, <1>5, <2>1, ToAskIsDue
  <2>4. d = Due(events[b], Participating(b), u)'
    BY <1>8, <2>1
  <2> QED
    BY <1>1, <1>3, <1>4, <1>5, <1>6, <1>7, <2>2, <2>3, <2>4, WayOfBroadcast DEF WayAt
<1> QED
  BY <1>1, <1>2, <1>6, <1>7, <1>9, <1>10, WayOfBu

\* An event is built from a super-fragment of each RU that takes part.
BuildsAll(b) ==
  \/ built' = built
  \/ \E id : built' = built \cup {[run |-> configuration, evbId |-> id,
                                   superFragments |-> [ru : Participating(b), evbId : {id}]]}

\* The requests of a trigger are added to the message, which may be sent.
LEMMA RequestsOfTrigger ==
  ASSUME Types, NEW b \in BUs, NEW t, NEW reached, RequestDataForTrigger(b, t, reached), NEW msg,
         msg = Append(rqstForFrags[b], t)
  PROVE  /\ \A c \in BUs : c # b => rqstForFrags'[c] = rqstForFrags[c]
         /\ \A u \in RUs, c \in BUs : c # b => rqsts'[u][c] = rqsts[u][c]
         /\ \/ /\ rqstForFrags'[b] = msg /\ UNCHANGED << rqsts, failures >>
            \/ /\ Broadcast(b, msg, reached)
               /\ \/ rqstForFrags'[b] = << >> /\ UNCHANGED failures
                  \/ rqstForFrags'[b] = msg /\ Fail(Bu(b), "post")
<1>1. rqstForFrags \in [BUs -> Seq(Token)]
  BY DEF Types, BuTypes
<1>2. \/ rqstForFrags' = [rqstForFrags EXCEPT ![b] = msg] /\ UNCHANGED << rqsts, failures >>
      \/ /\ Broadcast(b, msg, reached)
         /\ \/ rqstForFrags' = [rqstForFrags EXCEPT ![b] = << >>] /\ UNCHANGED failures
            \/ rqstForFrags' = [rqstForFrags EXCEPT ![b] = msg] /\ Fail(Bu(b), "post")
  BY DEF RequestDataForTrigger, Broadcast
<1>3. CASE rqstForFrags' = [rqstForFrags EXCEPT ![b] = msg] /\ UNCHANGED << rqsts, failures >>
  BY <1>1, <1>3
<1>4. CASE Broadcast(b, msg, reached)
  <2>1. \A u \in RUs, c \in BUs : c # b => rqsts'[u][c] = rqsts[u][c]
    BY <1>4, BroadcastEffect
  <2> QED
    BY <1>1, <1>2, <2>1
<1> QED
  BY <1>2, <1>3, <1>4

LEMMA WayOfStart ==
  ASSUME Types, IdInv, CountInv, WayInv, NEW b \in BUs, IsFiniteSet(Participating(b)), StartConstruction(b)
  PROVE  WayInv' /\ (UNCHANGED failures \/ Fail(Bu(b), "post")) /\ BuildsAll(b)
<1>1. /\ UNCHANGED << setup, buRUs, requests, blocks, blockFIFO >> /\ ~ Failed(Bu(b)) /\ mode = "Enabled"
      /\ triggerFIFO[b] # << >>
  BY DEF StartConstruction, participants, ruVars, Works, Failed
<1>2. PICK t : t = Head(triggerFIFO[b])
  OBVIOUS
<1>3. PICK p, held, holds, k : p = Participating(b) /\ held = events[b] /\ holds = events'[b] /\ k = buRUs[b].ruCount
  OBVIOUS
<1>4. t \in Token /\ t.resource \notin DOMAIN held /\ IsFiniteSet(p) /\ k = Cardinality(p)
  BY <1>1, <1>2, <1>3, SlotIsFree DEF IdInv, CountInv
<1>5. PICK event : /\ event = Event(t, {}, 1, k + 1) /\ CheckForCompleteEvent(b, event)
                   /\ IF k > 0
                      THEN \E reached \in Reachable(Bu(b), p) : RequestDataForTrigger(b, t, reached)
                      ELSE UNCHANGED << rqstForFrags, rqsts, failures >>
  BY <1>2, <1>3, <1>4 DEF StartConstruction, Participating
<1>6. /\ event.superFragments = {} /\ event.evbId = t.evbId /\ event.resource = t.resource
      /\ event.nbCompleteSuperFragments # event.nbExpectedSuperFragments <=> k > 0
      /\ k > 0 => Partial(event, p)
      /\ ~ (k > 0) => p = {} /\ event.superFragments = [ru : p, evbId : {event.evbId}]
  BY <1>4, <1>5, NoneFrom
<1>7. event.resource \in Nat /\ event.evbId \in Id
  BY <1>4, <1>6 DEF Token
<1>8. /\ \A c \in BUs : c # b => events'[c] = events[c]
      /\ ~ (k > 0) => /\ Without(held, event.resource, holds)
                      /\ built' = built \cup {[run |-> configuration, evbId |-> event.evbId,
                                               superFragments |-> event.superFragments]}
      /\ k > 0 => With(held, event.resource, event, holds) /\ built' = built
  BY <1>3, <1>5, <1>6, <1>7, CheckEffect
<1>9. /\ rqstForFrags[b] \in Seq(Token) /\ TableAt(b) /\ Unsent(b) = Range(rqstForFrags[b])
      /\ \A u \in RUs : WayAt(b, u)
      /\ Participating(b)' = p
  BY <1>1, <1>3, WayTypes DEF Unsent, WayInv, Participating
<1>10. CASE k > 0
  <2>1. With(held, t.resource, event, holds) /\ Partial(event, p) /\ built' = built
    BY <1>6, <1>8, <1>10
  <2>2. /\ \A u : Due(held, p, u) \subseteq Due(holds, p, u) /\ t \notin Due(held, p, u)
        /\ \A s : ToAsk(held, s) => ToAsk(holds, s)
        /\ ToAsk(holds, t)
    BY <1>4, <1>6, <2>1, DueOfStart
  <2>3. PICK reached : reached \subseteq p /\ RequestDataForTrigger(b, t, reached)
    BY <1>5, <1>10 DEF Reachable
  <2>4. PICK msg, n : msg = Append(rqstForFrags[b], t) /\ n = Range(rqstForFrags[b])
    OBVIOUS
  <2>5. /\ \A c \in BUs : c # b => rqstForFrags'[c] = rqstForFrags[c]
        /\ \A u \in RUs, c \in BUs : c # b => rqsts'[u][c] = rqsts[u][c]
        /\ \/ /\ rqstForFrags'[b] = msg /\ UNCHANGED << rqsts, failures >>
           \/ /\ Broadcast(b, msg, reached)
              /\ \/ rqstForFrags'[b] = << >> /\ UNCHANGED failures
                 \/ rqstForFrags'[b] = msg /\ Fail(Bu(b), "post")
    <3>1. msg = Append(rqstForFrags[b], t) /\ RequestDataForTrigger(b, t, reached)
      BY <2>3, <2>4
    <3> QED
      BY ONLY Types, b \in BUs, <3>1, RequestsOfTrigger
  <2>6. n = Unsent(b) /\ n \subseteq Token /\ (\A s \in n : ToAsk(held, s)) /\ IsInjective(rqstForFrags[b])
    BY <1>3, <1>9, <2>4, WayTypes DEF TableAt
  <2>7. t \notin n
    BY <1>4, <2>6 DEF ToAsk
  <2>8. msg \in Seq(Token) /\ Range(msg) = n \cup {t} /\ IsInjective(msg)
    BY <1>4, <1>9, <2>4, <2>6, <2>7, RangeAppend, AppendAt
  <2>9. PICK m : m = Range(msg)
    OBVIOUS
  <2>10. m = n \cup {t} /\ \A s \in m : ToAsk(holds, s) /\ s \in Token
    BY <1>4, <2>2, <2>6, <2>8, <2>9
  <2>11. \A r \in DOMAIN holds : Partial(holds[r], p)
    BY <1>3, <1>9, <2>1 DEF With, TableAt
  <2>12. ASSUME NEW u \in RUs
         PROVE  /\ OneWay(m, Sent(b, u), Filed(b, u), Returned(b, u), Cached(b, u), Due(holds, p, u))
                /\ IsInjective(rqsts[u][b]) /\ IsInjective(blocks[b][u])
                /\ u \in reached => m \subseteq Due(holds, p, u)
    <3>1. PICK s, f, r, c, d, e :
            /\ s = Sent(b, u) /\ f = Filed(b, u) /\ r = Returned(b, u) /\ c = Cached(b, u)
            /\ d = Due(held, p, u) /\ e = Due(holds, p, u)
      OBVIOUS
    <3>2. WayAt(b, u)
      BY <1>9
    <3>3. OneWay(n, s, f, r, c, d)
      BY <1>3, <2>6, <3>1, <3>2 DEF WayAt
    <3>4. d \subseteq e /\ t \notin d
      BY <2>2, <3>1
    <3>5. OneWay(n \cup {t}, s, f, r, c, e)
      BY ONLY <3>3, <3>4, OneWayBegins
    <3>6. u \in reached => m \subseteq e
      BY <2>3, <2>10, <3>1, ToAskIsDue
    <3> QED
      BY <2>10, <3>1, <3>2, <3>5, <3>6 DEF WayAt
  <2>13. CASE rqstForFrags'[b] = msg /\ UNCHANGED << rqsts, failures >>
    <3>1. Unsent(b)' = m
      BY <1>1, <2>9, <2>13, FailedOf DEF Unsent
    <3>2. TableAt(b)'
      BY <1>1, <1>3, <1>9, <2>8, <2>10, <2>11, <2>13, <3>1 DEF TableAt
    <3>3. ASSUME NEW u \in RUs PROVE WayAt(b, u)'
      BY <1>1, <1>3, <1>9, <2>12, <2>13, <3>1 DEF WayAt, Sent, Filed, Returned, Cached
    <3> QED
      BY <1>1, <1>8, <2>1, <2>5, <2>13, <3>2, <3>3, WayOfBu DEF BuildsAll
  <2>14. CASE /\ Broadcast(b, msg, reached)
              /\ \/ rqstForFrags'[b] = << >> /\ UNCHANGED failures
                 \/ rqstForFrags'[b] = msg /\ Fail(Bu(b), "post")
    <3>1. IsInjective(<< >>) /\ Range(<< >>) = {}
      BY DEF IsInjective, Range
    <3>2. Unsent(b)' = {} /\ IsInjective(rqstForFrags'[b])
      BY <2>8, <2>14, <3>1, FailedOf DEF Unsent
    <3>3. TableAt(b)'
      BY <1>1, <1>3, <1>9, <2>11, <3>2 DEF TableAt
    <3>4. \A u \in RUs : rqsts'[u][b] = IF u \in reached THEN rqsts[u][b] \o msg ELSE rqsts[u][b]
      BY <2>14, BroadcastEffect
    <3>5. ASSUME NEW u \in RUs PROVE WayAt(b, u)'
      <4>1. PICK d : d = Due(holds, p, u)
        OBVIOUS
      <4>2. d = Due(events[b], Participating(b), u)'
        BY <1>3, <1>9, <4>1
      <4>3. \/ rqsts'[u][b] = rqsts[u][b]
            \/ rqsts'[u][b] = rqsts[u][b] \o msg /\ m \subseteq d
        BY <2>12, <3>4, <4>1
      <4> QED
        BY <1>1, <2>8, <2>9, <2>12, <3>2, <4>1, <4>2, <4>3, WayOfBroadcast
    <3> QED
      BY <1>1, <1>8, <2>1, <2>5, <2>14, <3>3, <3>5, WayOfBu DEF BuildsAll
  <2> QED
    BY <2>5, <2>13, <2>14
<1>11. CASE ~ (k > 0)
  <2>1. /\ UNCHANGED << rqstForFrags, rqsts, failures >> /\ Without(held, t.resource, holds)
        /\ built' = built \cup {[run |-> configuration, evbId |-> event.evbId,
                                 superFragments |-> [ru : p, evbId : {event.evbId}]]}
    BY <1>5, <1>6, <1>8, <1>11
  <2>2. BuildsAll(b)
    BY <1>3, <2>1 DEF BuildsAll
  <2>3. DOMAIN holds = DOMAIN held /\ \A r \in DOMAIN held : holds[r] = held[r]
    BY <1>4, <2>1 DEF Without
  <2>4. Unsent(b)' = Unsent(b)
    BY <2>1, FailedOf DEF Unsent
  <2>5. TableAt(b)'
    BY <1>1, <1>3, <1>9, <2>1, <2>3, <2>4 DEF TableAt, ToAsk
  <2>6. ASSUME NEW u \in RUs PROVE WayAt(b, u)'
    <3>1. Due(events[b], Participating(b), u)' = Due(events[b], Participating(b), u)
      BY <1>3, <1>9, <2>3 DEF Due
    <3> QED
      BY <1>1, <1>9, <2>1, <2>4, <3>1 DEF WayAt, Sent, Filed, Returned, Cached
  <2> QED
    BY <1>1, <1>8, <2>1, <2>2, <2>5, <2>6, WayOfBu
<1> QED
  BY <1>10, <1>11

\* A super-fragment comes to its event, which may be complete then.
LEMMA WayOfAppend ==
  ASSUME Types, IdInv, WayInv, NEW b \in BUs, IsFiniteSet(Participating(b)), AppendSuperFragment(b)
  PROVE  WayInv' /\ UNCHANGED failures /\ BuildsAll(b)
<1>1. /\ UNCHANGED << setup, buRUs, requests, blocks, rqstForFrags, rqsts >>
      /\ blockFIFO[b] # << >> /\ blockFIFO' = [blockFIFO EXCEPT ![b] = Tail(@)]
  BY DEF AppendSuperFragment, participants, ruVars
<1>2. PICK x, p, held, holds : x = Head(blockFIFO[b]) /\ p = Participating(b) /\ held = events[b] /\ holds = events'[b]
  OBVIOUS
<1>3. /\ blockFIFO[b] \in Seq(Block) /\ blockFIFO \in [BUs -> Seq(Block)] /\ TableAt(b) /\ IsFiniteSet(p)
      /\ Participating(b)' = p
  BY <1>1, <1>2 DEF Types, BuTypes, WayInv, Participating
<1>4. /\ x \in Range(blockFIFO[b]) /\ x \in Block
      /\ IsInjective(Tail(blockFIFO[b])) /\ Range(Tail(blockFIFO[b])) = Range(blockFIFO[b]) \ {x}
  BY <1>1, <1>2, <1>3, RangeTail DEF TableAt
<1>5. PICK t \in Token : x = BlockOf(x.ru, t) /\ t.evbId = x.evbId /\ t.resource = x.resource
  BY <1>4, BlockIsOf
<1>6. PICK u \in RUs : u = x.ru
  BY <1>4 DEF Block
<1>7. x = BlockOf(u, t) /\ t \in Cached(b, u) /\ WayAt(b, u)
  BY <1>4, <1>5, <1>6 DEF Cached, WayInv
<1>8. t \in Due(held, p, u)
  BY <1>2, <1>7 DEF WayAt, OneWay
<1>9. PICK e : e = held[t.resource]
  OBVIOUS
<1>10. /\ t.resource \in DOMAIN held /\ e.evbId = t.evbId /\ u \in p /\ u \notin From(e)
       /\ Partial(e, p) /\ e.resource = t.resource
  BY <1>2, <1>3, <1>8, <1>9 DEF Due, TableAt, IdInv, PlaceInv, PlaceAt, Places
<1>11. PICK event :
         /\ event = Event(e, e.superFragments \cup {[ru |-> u, evbId |-> e.evbId]},
                          e.nbCompleteSuperFragments + 1, e.nbExpectedSuperFragments)
         /\ CheckForCompleteEvent(b, event) /\ UNCHANGED failures
  BY <1>2, <1>5, <1>6, <1>9, <1>10 DEF AppendSuperFragment
<1>12. /\ From(event) = From(e) \cup {u} /\ event.evbId = e.evbId /\ event.resource = e.resource
       /\ event.nbCompleteSuperFragments # event.nbExpectedSuperFragments => Partial(event, p)
       /\ event.nbCompleteSuperFragments = event.nbExpectedSuperFragments =>
            p = From(e) \cup {u} /\ event.superFragments = [ru : p, evbId : {e.evbId}]
  <2>1. event = Event(e, e.superFragments \cup {[ru |-> u, evbId |-> e.evbId]},
                      e.nbCompleteSuperFragments + 1, e.nbExpectedSuperFragments)
    BY <1>11
  <2>2. OneMore(e, event, p, u)
    BY ONLY <1>3, <1>10, <2>1, OneMoreFrom
  <2> QED
    BY <2>2 DEF OneMore
<1>13. event.resource = t.resource /\ event.evbId = t.evbId /\ event.resource \in Nat /\ event.evbId \in Id
  BY <1>10, <1>12 DEF Token
<1>14. /\ \A c \in BUs : c # b => events'[c] = events[c]
       /\ event.nbCompleteSuperFragments = event.nbExpectedSuperFragments =>
            /\ Without(held, t.resource, holds)
            /\ built' = built \cup {[run |-> configuration, evbId |-> event.evbId,
                                     superFragments |-> event.superFragments]}
       /\ event.nbCompleteSuperFragments # event.nbExpectedSuperFragments =>
            With(held, t.resource, event, holds) /\ built' = built
  BY <1>2, <1>11, <1>13, CheckEffect
<1>15. /\ Answered(held, holds, p, u, t)
       /\ \A r \in DOMAIN holds : Partial(holds[r], p)
       /\ BuildsAll(b)
  <2>1. CASE event.nbCompleteSuperFragments = event.nbExpectedSuperFragments
    <3>1. Without(held, t.resource, holds) /\ p = From(held[t.resource]) \cup {u}
      BY <1>9, <1>12, <1>14, <2>1
    <3>2. Answered(held, holds, p, u, t)
      BY ONLY <1>8, <3>1, DueOfComplete
    <3>3. \A r \in DOMAIN holds : Partial(holds[r], p)
      BY <1>2, <1>3, <3>1 DEF Without, TableAt
    <3>4. BuildsAll(b)
      BY <1>2, <1>12, <1>14, <2>1 DEF BuildsAll
    <3> QED
      BY <3>2, <3>3, <3>4
  <2>2. CASE event.nbCompleteSuperFragments # event.nbExpectedSuperFragments
    <3>1. /\ With(held, t.resource, event, holds) /\ event.evbId = t.evbId
          /\ From(event) = From(held[t.resource]) \cup {u}
      BY <1>9, <1>12, <1>13, <1>14, <2>2
    <3>2. Answered(held, holds, p, u, t)
      BY ONLY <1>8, <3>1, DueOfAppend
    <3>3. \A r \in DOMAIN holds : Partial(holds[r], p)
      BY <1>2, <1>3, <1>12, <2>2, <3>1 DEF With, TableAt
    <3>4. BuildsAll(b)
      BY <1>14, <2>2 DEF BuildsAll
    <3> QED
      BY <3>2, <3>3, <3>4
  <2> QED
    BY <2>1, <2>2
<1>16. /\ blockFIFO'[b] = Tail(blockFIFO[b]) /\ \A c \in BUs : c # b => blockFIFO'[c] = blockFIFO[c]
       /\ Unsent(b)' = Unsent(b)
  BY <1>1, <1>3, <1>11, FailedOf DEF Unsent
<1>17. TableAt(b)'
  <2>1. t \notin Unsent(b) /\ Unsent(b) \subseteq Token
    BY <1>7, WayTypes DEF WayAt, OneWay
  <2>2. \A s \in Unsent(b) : ToAsk(holds, s)
    BY <1>2, <1>3, <1>15, <2>1 DEF TableAt, Answered
  <2> QED
    BY <1>1, <1>2, <1>3, <1>4, <1>15, <1>16, <2>2 DEF TableAt
<1>18. ASSUME NEW v \in RUs PROVE WayAt(b, v)'
  <2>1. PICK n, s, f, r, c, d, e2 :
          /\ n = Unsent(b) /\ s = Sent(b, v) /\ f = Filed(b, v) /\ r = Returned(b, v) /\ c = Cached(b, v)
          /\ d = Due(held, p, v) /\ e2 = Due(holds, p, v)
    OBVIOUS
  <2>2. WayAt(b, v)
    BY DEF WayInv
  <2>3. OneWay(n, s, f, r, c, d)
    BY <1>2, <2>1, <2>2 DEF WayAt
  <2>4. /\ Unsent(b)' = n /\ Sent(b, v)' = s /\ Filed(b, v)' = f /\ Returned(b, v)' = r
        /\ Due(events[b], Participating(b), v)' = e2
    BY <1>1, <1>2, <1>3, <1>16, <2>1 DEF Sent, Filed, Returned
  <2>5. CASE v = u
    <3>1. Cached(b, v)' = c \ {t}
      BY <1>4, <1>7, <1>16, <2>1, <2>5, RequestOfIsOne DEF Cached
    <3>2. t \in c /\ d \ {t} \subseteq e2
      BY <1>7, <1>15, <2>1, <2>5 DEF Answered
    <3>3. OneWay(n, s, f, r, c \ {t}, e2)
      BY ONLY <2>3, <3>2, OneWayEnds
    <3> QED
      BY <1>1, <2>2, <2>4, <3>1, <3>3 DEF WayAt
  <2>6. CASE v # u
    <3>1. Cached(b, v)' = c
      BY <1>4, <1>7, <1>16, <2>1, <2>6, RequestOfIsOne DEF Cached
    <3>2. d \subseteq e2
      BY <1>15, <2>1, <2>6 DEF Answered
    <3>3. OneWay(n, s, f, r, c, e2)
      BY ONLY <2>3, <3>2, OneWayMore
    <3> QED
      BY <1>1, <2>2, <2>4, <3>1, <3>3 DEF WayAt
  <2> QED
    BY <2>5, <2>6
<1> QED
  BY <1>1, <1>11, <1>14, <1>15, <1>16, <1>17, <1>18, WayOfBu

\* Nothing is on the way before the first run, and between runs.
LEMMA NothingOnTheWay ==
  ASSUME NEW b \in BUs, rqstForFrags[b] = << >>, IsInjective(blockFIFO[b]), DOMAIN events[b] = {},
         \A u \in RUs : /\ IsInjective(rqsts[u][b]) /\ IsInjective(blocks[b][u])
                        /\ Sent(b, u) = {} /\ Filed(b, u) = {} /\ Returned(b, u) = {} /\ Cached(b, u) = {}
  PROVE  TableAt(b) /\ \A u \in RUs : WayAt(b, u)
<1>1. IsInjective(<< >>) /\ Range(<< >>) = {}
  BY DEF IsInjective, Range
<1>2. Unsent(b) = {}
  BY <1>1 DEF Unsent
<1>3. TableAt(b)
  BY <1>1, <1>2 DEF TableAt
<1>4. \A d : OneWay({}, {}, {}, {}, {}, d)
  BY DEF OneWay
<1>5. ASSUME NEW u \in RUs PROVE WayAt(b, u)
  BY <1>2, <1>4 DEF WayAt
<1> QED
  BY <1>3, <1>5

LEMMA WayInit ==
  ASSUME Init
  PROVE  WayInv
<1> SUFFICES ASSUME NEW b \in BUs PROVE TableAt(b) /\ \A u \in RUs : WayAt(b, u)
  BY DEF WayInv
<1>1. IsInjective(<< >>) /\ Range(<< >>) = {} /\ DOMAIN << >> = {}
  BY DEF IsInjective, Range
<1>2. /\ rqstForFrags[b] = << >> /\ blockFIFO[b] = << >> /\ events[b] = << >>
      /\ \A u \in RUs : rqsts[u][b] = << >> /\ blocks[b][u] = << >> /\ requests[u] = {}
  BY DEF Init, Empty
<1>3. \A u \in RUs : Sent(b, u) = {} /\ Filed(b, u) = {} /\ Returned(b, u) = {} /\ Cached(b, u) = {}
  BY <1>1, <1>2 DEF Sent, Filed, Returned, Cached
<1> QED
  BY <1>1, <1>2, <1>3, NothingOnTheWay

LEMMA WayOfConfigure ==
  ASSUME Types, IdInv, WayInv, Configure
  PROVE  WayInv'
<1>1. /\ UNCHANGED << setup, failures, requests, blocks, blockFIFO, events, rqsts, evbIdMap >>
      /\ rqstForFrags' = Empty(BUs) /\ evbIdMap = {}
  BY DEF Configure, ruVars, IdInv
<1>2. BUs' = BUs /\ RUs' = RUs
  BY <1>1 DEF BUs, RUs
<1>3. ASSUME NEW b \in BUs
      PROVE  /\ DOMAIN events[b] = {}
             /\ \A u \in RUs : Sent(b, u) = {} /\ Filed(b, u) = {} /\ Returned(b, u) = {} /\ Cached(b, u) = {}
  <2>1. HereAt(b) = {}
    BY <1>1, HereIs DEF IdInv, IdsApart
  <2>2. DOMAIN events[b] = {}
    BY <2>1 DEF HereAt, IdsAt
  <2>3. \A u : Due(events[b], Participating(b), u) = {}
    BY <2>2 DEF Due
  <2>4. \A u \in RUs : WayAt(b, u)
    BY DEF WayInv
  <2>5. \A u \in RUs : Sent(b, u) = {} /\ Filed(b, u) = {} /\ Returned(b, u) = {} /\ Cached(b, u) = {}
    BY <2>3, <2>4 DEF WayAt, OneWay
  <2> QED
    BY <2>2, <2>5
<1>4. ASSUME NEW b \in BUs PROVE (TableAt(b) /\ \A u \in RUs : WayAt(b, u))'
  <2>1. TableAt(b) /\ \A u \in RUs : WayAt(b, u)
    BY DEF WayInv
  <2>2. /\ rqstForFrags'[b] = << >> /\ IsInjective(blockFIFO'[b]) /\ DOMAIN events'[b] = {}
        /\ \A u \in RUs : IsInjective(rqsts'[u][b]) /\ IsInjective(blocks'[b][u])
    BY <1>1, <1>3, <2>1 DEF Empty, TableAt, WayAt
  <2>3. \A u \in RUs : Sent(b, u)' = {} /\ Filed(b, u)' = {} /\ Returned(b, u)' = {} /\ Cached(b, u)' = {}
    BY <1>1, <1>3 DEF Sent, Filed, Returned, Cached
  <2>4. IsInjective(<< >>) /\ Range(<< >>) = {}
    BY DEF IsInjective, Range
  <2>5. Unsent(b)' = {}
    BY <2>2, <2>4 DEF Unsent
  <2>6. TableAt(b)'
    BY <2>2, <2>4, <2>5 DEF TableAt
  <2>7. \A d : OneWay({}, {}, {}, {}, {}, d)
    BY DEF OneWay
  <2>8. ASSUME NEW u \in RUs PROVE WayAt(b, u)'
    BY <2>2, <2>3, <2>5, <2>7 DEF WayAt
  <2> QED
    BY <1>2, <2>6, <2>8
<1> QED
  BY <1>2, <1>4 DEF WayInv

-----------------------------------------------------------------------------
(* All steps.                                                              *)

\* What a step adds to the failures, and to the events built.
OnlyPosts == UNCHANGED failures \/ \E app : Fail(app, "post")
BuiltWell == built' = built \/ (mode = "Enabled" /\ \E b \in BUs : BuildsAll(b))

FiniteLists == mode = "Enabled" => \A b \in BUs : IsFiniteSet(Participating(b))

LEMMA WayNext ==
  ASSUME Types, OrderInv, IdInv, CountInv, WayInv, FiniteLists, [Next]_vars
  PROVE  WayInv' /\ OnlyPosts /\ BuiltWell
<1>1. ASSUME UNCHANGED << setup, buRUs, rqstForFrags, blockFIFO, events, rqsts, blocks, requests, built >>,
             UNCHANGED failures \/ Fail(Evm, "post")
      PROVE  WayInv' /\ OnlyPosts /\ BuiltWell
  <2>1. \A b \in BUs : Bu(b) # Evm
    BY DEF Bu, Evm
  <2>2. \A b \in BUs : Failed(Bu(b))' <=> Failed(Bu(b))
    BY <1>1, <2>1, FailedOf
  <2> QED
    BY <1>1, <2>2, WayKept DEF OnlyPosts, BuiltWell
<1>2. CASE Configure
  <2>1. UNCHANGED << failures, built >>
    BY <1>2 DEF Configure
  <2> QED
    BY <1>2, <2>1, WayOfConfigure DEF OnlyPosts, BuiltWell
<1>3. CASE Halt \/ ServiceBuRqst \/ SendOldEvBids \/ UNCHANGED vars
  BY <1>1, <1>3 DEF Halt, ServiceBuRqst, SendOldEvBids, vars, participants, ruVars, buVars, netVars
<1>4. CASE TakeTrigger \/ ProcessNextReleasedEvent
  <2>1. UNCHANGED failures \/ Fail(Evm, "post")
    BY <1>4, IdOfTrigger, IdOfRelease
  <2> QED
    BY <1>1, <1>4, <2>1 DEF TakeTrigger, ProcessNextReleasedEvent, participants, ruVars, buVars, netVars
<1>5. ASSUME NEW u \in RUs, RuReadout(u)
      PROVE  WayInv' /\ OnlyPosts /\ BuiltWell
  BY <1>1, <1>5 DEF RuReadout, participants, buVars
<1>6. ASSUME NEW u \in RUs, ProcessTrigger(u)
      PROVE  WayInv' /\ OnlyPosts /\ BuiltWell
  BY <1>6, WayOfTrigger DEF ProcessTrigger, buVars, OnlyPosts, BuiltWell
<1>7. ASSUME NEW u \in RUs, NEW b \in BUs, RuSend(u, b)
      PROVE  WayInv' /\ OnlyPosts /\ BuiltWell
  BY <1>7, WayOfSend DEF RuSend, buVars, OnlyPosts, BuiltWell
<1>8. ASSUME NEW u \in RUs, NEW b \in BUs, BuCache(b, u)
      PROVE  WayInv' /\ OnlyPosts /\ BuiltWell
  BY <1>8, WayOfCache DEF BuCache, OnlyPosts, BuiltWell
<1>9. ASSUME NEW b \in BUs, AllocateClear(b) \/ BuConfirm(b) \/ SendOldEvmRequests(b)
      PROVE  WayInv' /\ OnlyPosts /\ BuiltWell
  BY <1>1, <1>9 DEF AllocateClear, BuConfirm, SendOldEvmRequests, participants, ruVars, buVars
<1>10. ASSUME NEW b \in BUs, StartConstruction(b)
       PROVE  WayInv' /\ OnlyPosts /\ BuiltWell
  <2>1. mode = "Enabled" /\ IsFiniteSet(Participating(b))
    BY <1>10 DEF StartConstruction, Works, FiniteLists
  <2> QED
    BY <1>10, <2>1, WayOfStart DEF OnlyPosts, BuiltWell
<1>11. ASSUME NEW b \in BUs, AppendSuperFragment(b)
       PROVE  WayInv' /\ OnlyPosts /\ BuiltWell
  <2>1. mode = "Enabled" /\ IsFiniteSet(Participating(b))
    BY <1>11 DEF AppendSuperFragment, Works, FiniteLists
  <2> QED
    BY <1>11, <2>1, WayOfAppend DEF OnlyPosts, BuiltWell
<1>12. ASSUME NEW b \in BUs, SendOldRuRequests(b)
       PROVE  WayInv' /\ OnlyPosts /\ BuiltWell
  BY <1>12, WayOfOldRequests DEF SendOldRuRequests, OnlyPosts, BuiltWell
<1> QED
  BY <1>2, <1>3, <1>4, <1>5, <1>6, <1>7, <1>8, <1>9, <1>10, <1>11, <1>12 DEF Next

-----------------------------------------------------------------------------
(***************************************************************************)
(* Configuring.  A list of instances, the children of a definition and the *)
(* definitions of a file are folded over, so what comes of them is shown   *)
(* for one position after the other: a fold of n elements is the last of n *)
(* values, each of which follows from the one before it.                   *)
(***************************************************************************)

\* The largest of some of the numbers up to k.
LEMMA MaxOf ==
  ASSUME NEW k \in Nat, NEW t \in SUBSET (1..k), t # {}
  PROVE  Max(t) \in t /\ \A x \in t : x <= Max(t)
<1> DEFINE Distances == { k - x : x \in t }
<1>1. Distances \subseteq Nat /\ Distances # {}
  OBVIOUS
<1>2. PICK d \in Distances : \A e \in Distances : d <= e
  BY <1>1, Least
<1>3. PICK m \in t : d = k - m
  BY <1>2
<1>4. \A x \in t : x <= m
  BY <1>2, <1>3
<1>5. \E x \in t : \A y \in t : x >= y
  BY <1>4
<1> QED
  BY <1>5 DEF Max

\* A recursive function on the sets of positions, as FoldLeft defines one, exists.
Folds(it, V, base, n, op) ==
  /\ it \in [SUBSET (1..n) -> V]
  /\ it = [t \in SUBSET (1..n) |-> IF t = {} THEN base ELSE op[<<it[t \ {Max(t)}], Max(t)>>]]

LEMMA FoldExists ==
  ASSUME NEW V, NEW base \in V, NEW n \in Nat, NEW op \in [V \X (1..n) -> V]
  PROVE  \E it : Folds(it, V, base, n, op)
<1> DEFINE Is(it, k) == Folds(it, V, base, k, op)
           Bad == { k \in 0..n : ~ \E it : Is(it, k) }
<1>1. ASSUME Bad = {}
      PROVE  \E it : Is(it, n)
  <2> HIDE DEF Is
  <2> QED
    BY <1>1
<1>2. SUFFICES ASSUME Bad # {} PROVE FALSE
  BY <1>1
<1>3. PICK k \in Bad : \A j \in Bad : k <= j
  <2>1. Bad \subseteq Nat
    OBVIOUS
  <2> HIDE DEF Bad
  <2> QED
    BY <1>2, <2>1, Least
<1>4. Is([t \in SUBSET (1..0) |-> base], 0)
  <2>1. SUBSET (1..0) = {{}}
    OBVIOUS
  <2> QED
    BY <2>1 DEF Folds
<1>5. k # 0
  BY <1>3, <1>4
<1>6. PICK it : Is(it, k - 1)
  <2> HIDE DEF Is
  <2>1. k - 1 \in 0..n /\ ~ (k <= k - 1)
    BY <1>3, <1>5
  <2>2. k - 1 \notin Bad
    BY <1>3, <2>1
  <2> QED
    BY <2>1, <2>2
<1> DEFINE new == [t \in SUBSET (1..k) |-> IF t \subseteq 1..(k - 1) THEN it[t] ELSE op[<<it[t \ {k}], k>>]]
<1>7. ASSUME NEW t \in SUBSET (1..k)
      PROVE  new[t] \in V /\ new[t] = IF t = {} THEN base ELSE op[<<new[t \ {Max(t)}], Max(t)>>]
  <2>1. CASE t \subseteq 1..(k - 1)
    <3>1. new[t] = it[t] /\ it[t] \in V
      BY <1>6, <2>1 DEF Folds
    <3>2. it[t] = IF t = {} THEN base ELSE op[<<it[t \ {Max(t)}], Max(t)>>]
      BY <1>6, <2>1 DEF Folds
    <3>3. t \ {Max(t)} \in SUBSET (1..k) /\ t \ {Max(t)} \subseteq 1..(k - 1)
      BY <2>1
    <3>4. new[t \ {Max(t)}] = it[t \ {Max(t)}]
      BY <3>3
    <3> QED
      BY <3>1, <3>2, <3>4
  <2>2. CASE ~ (t \subseteq 1..(k - 1))
    <3>1. k \in t /\ t # {} /\ k \in 1..n
      BY <2>2, <1>3, <1>5
    <3>2. Max(t) = k
      <4>1. k \in Nat /\ t \in SUBSET (1..k)
        BY <1>3
      <4>2. \A x \in t : x \in Nat /\ x <= k
        BY <4>1
      <4>3. Max(t) \in t /\ \A x \in t : x <= Max(t)
        BY <3>1, <4>1, MaxOf
      <4> QED
        <5>1. Max(t) \in Nat /\ Max(t) <= k /\ k <= Max(t)
          BY <3>1, <4>3, <4>2
        <5> QED
          BY <4>1, <5>1
    <3>3. t \ {k} \subseteq 1..(k - 1) /\ t \ {k} \in SUBSET (1..k)
      OBVIOUS
    <3>4. new[t \ {k}] = it[t \ {k}] /\ it[t \ {k}] \in V
      BY <3>3, <1>6 DEF Folds
    <3>5. new[t] = op[<<it[t \ {k}], k>>]
      BY <2>2
    <3> QED
      BY <3>1, <3>2, <3>4, <3>5
  <2> QED
    BY <2>1, <2>2
<1>8. new \in [SUBSET (1..k) -> V]
  BY <1>7
<1> HIDE DEF new
<1>9. new = [t \in SUBSET (1..k) |-> IF t = {} THEN base ELSE op[<<new[t \ {Max(t)}], Max(t)>>]]
  BY <1>7, <1>8
<1>10. Is(new, k)
  BY <1>8, <1>9 DEF Folds
<1> QED
  BY <1>3, <1>10

\* The sets of the first positions.
LEMMA FirstPositions ==
  ASSUME NEW n \in Nat, NEW i \in 1..n
  PROVE  /\ 1..i \in SUBSET (1..n) /\ 1..i # {} /\ Max(1..i) = i /\ (1..i) \ {i} = 1..(i - 1)
<1>1. 1..i \in SUBSET (1..n) /\ i \in 1..i /\ (1..i) \ {i} = 1..(i - 1)
  OBVIOUS
<1>2. Max(1..i) \in 1..i /\ i <= Max(1..i)
  BY <1>1, MaxOf
<1> QED
  BY <1>1, <1>2

ListOf(s, n) == n \in Nat /\ DOMAIN s = 1..n

\* Induction over positions: what holds of 0, and of each that follows one it holds of.
LEMMA UpTo ==
  ASSUME NEW n \in Nat, NEW P, 0 \in P, \A i \in 1..n : i - 1 \in P => i \in P
  PROVE  \A i \in 0..n : i \in P
<1> DEFINE Bad == { i \in 0..n : i \notin P }
<1>1. SUFFICES ASSUME Bad # {} PROVE FALSE
  OBVIOUS
<1>2. PICK i \in Bad : \A j \in Bad : i <= j
  <2>1. Bad \subseteq Nat
    OBVIOUS
  <2> HIDE DEF Bad
  <2> QED
    BY <1>1, <2>1, Least
<1>3. i \in 1..n /\ i - 1 \in 0..n /\ ~ (i <= i - 1)
  BY <1>2
<1>4. i - 1 \in P
  BY <1>2, <1>3
<1> QED
  BY <1>2, <1>3, <1>4

\* The list of participating RUs of an application.
RUsOf(zone) == [ok : BOOLEAN, participatingRUs : SUBSET zone.RU, ruCount : Nat]

Emptied(before) == [before EXCEPT !.participatingRUs = {}]
FillRUs(zone, before, s) == FoldLeft(LAMBDA r, i : FillRUInstance(zone, r, i), Emptied(before), s)

\* How a list of RUs is filled, one instance after the other.
LEMMA FillSteps ==
  ASSUME NEW zone, NEW before, before \in RUsOf(zone), NEW s,
         NEW n, ListOf(s, n)
  PROVE  \E at \in [0..n -> RUsOf(zone)] : /\ at[0] = Emptied(before) /\ FillRUs(zone, before, s) = at[n]
                                   /\ \A i \in 1..n : at[i] = FillRUInstance(zone, at[i - 1], s[i])
<1> USE DEF ListOf
<1> DEFINE V == RUsOf(zone)
           op == [x \in V \X (1..n) |-> FillRUInstance(zone, x[1], s[x[2]])]
           Is(it) == it = [t \in SUBSET (DOMAIN s) |->
                             IF t = {} THEN Emptied(before) ELSE FillRUInstance(zone, it[t \ {Max(t)}], s[Max(t)])]
           c == CHOOSE it : Is(it)
           at == [i \in 0..n |-> c[1..i]]
<1>1. ASSUME NEW v \in V, NEW i \in 1..n PROVE FillRUInstance(zone, v, s[i]) \in V
  BY DEF FillRUInstance, RUsOf
<1>2. op \in [V \X (1..n) -> V] /\ Emptied(before) \in V
  BY <1>1 DEF RUsOf, Emptied
<1> HIDE DEF V
<1>3. \E it : Is(it)
  <2> HIDE DEF op
  <2>1. PICK it : Folds(it, V, Emptied(before), n, op)
    BY <1>2, FoldExists
  <2> USE DEF op
  <2>2. ASSUME NEW t \in SUBSET (1..n), t # {}
        PROVE  op[<<it[t \ {Max(t)}], Max(t)>>] = FillRUInstance(zone, it[t \ {Max(t)}], s[Max(t)])
    <3>1. Max(t) \in 1..n /\ t \ {Max(t)} \in SUBSET (1..n)
      BY <2>2, MaxOf
    <3>2. it[t \ {Max(t)}] \in V
      BY <2>1, <3>1 DEF Folds
    <3> QED
      BY <3>1, <3>2
  <2> HIDE DEF op
  <2>3. it = [t \in SUBSET (1..n) |-> IF t = {} THEN Emptied(before) ELSE op[<<it[t \ {Max(t)}], Max(t)>>]]
    BY <2>1 DEF Folds
  <2>4. Is(it)
    BY <2>2, <2>3
  <2> HIDE DEF Is
  <2> QED
    BY <2>4
<1>4. Is(c)
  BY <1>3
<1>5. FillRUs(zone, before, s) = c[1..n]
  BY DEF FillRUs, FoldLeft, MapThenFoldSet
<1> HIDE DEF c
<1>6. at[0] = Emptied(before)
  <2>1. 1..0 = {} /\ {} \in SUBSET (DOMAIN s)
    OBVIOUS
  <2> QED
    BY <1>4, <2>1
<1>7. ASSUME NEW i \in 1..n PROVE at[i] = FillRUInstance(zone, at[i - 1], s[i])
  <2>1. /\ 1..i \in SUBSET (1..n) /\ 1..i # {} /\ Max(1..i) = i /\ (1..i) \ {i} = 1..(i - 1)
        /\ i \in 0..n /\ i - 1 \in 0..n
    BY FirstPositions
  <2>2. c[1..i] = IF 1..i = {} THEN Emptied(before) ELSE FillRUInstance(zone, c[(1..i) \ {Max(1..i)}], s[Max(1..i)])
    BY <1>4, <2>1
  <2> QED
    BY <2>1, <2>2
<1>8. at[n] = c[1..n] /\ DOMAIN at = 0..n /\ at = [i \in 0..n |-> at[i]]
  OBVIOUS
<1> HIDE DEF at
<1>9. \A i \in 0..n : at[i] \in V
  <2> DEFINE P == { i \in 0..n : at[i] \in V }
  <2>1. 0 \in P
    BY <1>2, <1>6
  <2>2. ASSUME NEW i \in 1..n, i - 1 \in P PROVE i \in P
    BY <1>1, <1>7, <2>2
  <2> HIDE DEF P
  <2>3. \A i \in 0..n : i \in P
    BY <2>1, <2>2, UpTo
  <2> USE DEF P
  <2> QED
    BY <2>3
<1>10. at \in [0..n -> V]
  BY <1>8, <1>9
<1> QED
  BY <1>5, <1>6, <1>7, <1>8, <1>10 DEF V

\* The list of participating storage managers.
SMsOf(zone) == [ok : BOOLEAN, participatingSMs : SUBSET zone.SM]

TakenSMs(zone, s) == FoldLeft(LAMBDA r, i : AddSM(zone, r, i), NoSMs, s)

\* How the list of storage managers is filled.
LEMMA SMSteps ==
  ASSUME NEW zone, NoSMs \in SMsOf(zone), NEW s,
         NEW n, ListOf(s, n)
  PROVE  \E at \in [0..n -> SMsOf(zone)] : /\ at[0] = NoSMs /\ TakenSMs(zone, s) = at[n]
                                   /\ \A i \in 1..n : at[i] = AddSM(zone, at[i - 1], s[i])
<1> USE DEF ListOf
<1> DEFINE V == SMsOf(zone)
           op == [x \in V \X (1..n) |-> AddSM(zone, x[1], s[x[2]])]
           Is(it) == it = [t \in SUBSET (DOMAIN s) |->
                             IF t = {} THEN NoSMs ELSE AddSM(zone, it[t \ {Max(t)}], s[Max(t)])]
           c == CHOOSE it : Is(it)
           at == [i \in 0..n |-> c[1..i]]
<1>1. ASSUME NEW v \in V, NEW i \in 1..n PROVE AddSM(zone, v, s[i]) \in V
  BY DEF AddSM, SMsOf
<1>2. op \in [V \X (1..n) -> V] /\ NoSMs \in V
  BY <1>1 DEF SMsOf, NoSMs
<1> HIDE DEF V
<1>3. \E it : Is(it)
  <2> HIDE DEF op
  <2>1. PICK it : Folds(it, V, NoSMs, n, op)
    BY <1>2, FoldExists
  <2> USE DEF op
  <2>2. ASSUME NEW t \in SUBSET (1..n), t # {}
        PROVE  op[<<it[t \ {Max(t)}], Max(t)>>] = AddSM(zone, it[t \ {Max(t)}], s[Max(t)])
    <3>1. Max(t) \in 1..n /\ t \ {Max(t)} \in SUBSET (1..n)
      BY <2>2, MaxOf
    <3>2. it[t \ {Max(t)}] \in V
      BY <2>1, <3>1 DEF Folds
    <3> QED
      BY <3>1, <3>2
  <2> HIDE DEF op
  <2>3. it = [t \in SUBSET (1..n) |-> IF t = {} THEN NoSMs ELSE op[<<it[t \ {Max(t)}], Max(t)>>]]
    BY <2>1 DEF Folds
  <2>4. Is(it)
    BY <2>2, <2>3
  <2> HIDE DEF Is
  <2> QED
    BY <2>4
<1>4. Is(c)
  BY <1>3
<1>5. TakenSMs(zone, s) = c[1..n]
  BY DEF TakenSMs, FoldLeft, MapThenFoldSet
<1> HIDE DEF c
<1>6. at[0] = NoSMs
  <2>1. 1..0 = {} /\ {} \in SUBSET (DOMAIN s)
    OBVIOUS
  <2> QED
    BY <1>4, <2>1
<1>7. ASSUME NEW i \in 1..n PROVE at[i] = AddSM(zone, at[i - 1], s[i])
  <2>1. /\ 1..i \in SUBSET (1..n) /\ 1..i # {} /\ Max(1..i) = i /\ (1..i) \ {i} = 1..(i - 1)
        /\ i \in 0..n /\ i - 1 \in 0..n
    BY FirstPositions
  <2>2. c[1..i] = IF 1..i = {} THEN NoSMs ELSE AddSM(zone, c[(1..i) \ {Max(1..i)}], s[Max(1..i)])
    BY <1>4, <2>1
  <2> QED
    BY <2>1, <2>2
<1>8. at[n] = c[1..n] /\ DOMAIN at = 0..n /\ at = [i \in 0..n |-> at[i]]
  OBVIOUS
<1> HIDE DEF at
<1>9. \A i \in 0..n : at[i] \in V
  <2> DEFINE P == { i \in 0..n : at[i] \in V }
  <2>1. 0 \in P
    BY <1>2, <1>6
  <2>2. ASSUME NEW i \in 1..n, i - 1 \in P PROVE i \in P
    BY <1>1, <1>7, <2>2
  <2> HIDE DEF P
  <2>3. \A i \in 0..n : i \in P
    BY <2>1, <2>2, UpTo
  <2> USE DEF P
  <2> QED
    BY <2>3
<1>10. at \in [0..n -> V]
  BY <1>8, <1>9
<1> QED
  BY <1>5, <1>6, <1>7, <1>8, <1>10 DEF V

\* What has been read of a file: sets of instances for some of the ids.
SetsOf(ids) == UNION { [D -> { S \in SUBSET Int : IsFiniteSet(S) }] : D \in SUBSET ids }
Readings(ids) == { read \in [ok : BOOLEAN, sets : SetsOf(ids)] : read.ok \/ read = Raised }
WithSet(read, id, S) == [read EXCEPT !.sets[id] = S]

LEMMA RaisedIsReading ==
  ASSUME NEW ids
  PROVE  Raised \in Readings(ids) /\ [ok |-> TRUE, sets |-> << >>] \in Readings(ids)
<1>1. << >> \in [{} -> { S \in SUBSET Int : IsFiniteSet(S) }]
  OBVIOUS
<1>2. << >> \in SetsOf(ids)
  BY <1>1 DEF SetsOf
<1> QED
  BY <1>2 DEF Readings, Raised

LEMMA WithIsReading ==
  ASSUME NEW ids, NEW read \in Readings(ids), read.ok, NEW id \in DOMAIN read.sets, NEW S \in SUBSET Int, IsFiniteSet(S)
  PROVE  /\ WithSet(read, id, S) \in Readings(ids)
         /\ WithSet(read, id, S).ok = read.ok /\ DOMAIN WithSet(read, id, S).sets = DOMAIN read.sets
         /\ WithSet(read, id, S).sets[id] = S /\ \A x \in DOMAIN read.sets \ {id} : WithSet(read, id, S).sets[x] = read.sets[x]
<1>1. PICK D \in SUBSET ids : read.sets \in [D -> { X \in SUBSET Int : IsFiniteSet(X) }]
  BY DEF Readings, SetsOf
<1> DEFINE new == [read.sets EXCEPT ![id] = S]
<1>2. new \in [D -> { X \in SUBSET Int : IsFiniteSet(X) }]
  BY <1>1
<1>3. new \in SetsOf(ids)
  BY <1>2 DEF SetsOf
<1>4. WithSet(read, id, S) = [read EXCEPT !.sets = new] /\ read = [ok |-> read.ok, sets |-> read.sets] /\ read.ok \in BOOLEAN
  BY DEF WithSet, Readings
<1> HIDE DEF new
<1>5. WithSet(read, id, S) = [ok |-> read.ok, sets |-> new]
  BY <1>4
<1>6. WithSet(read, id, S) \in Readings(ids)
  BY <1>3, <1>4, <1>5 DEF Readings
<1>7. /\ DOMAIN new = DOMAIN read.sets /\ new[id] = S /\ \A x \in DOMAIN read.sets \ {id} : new[x] = read.sets[x]
  BY <1>1 DEF new
<1> QED
  BY <1>5, <1>6, <1>7

\* The instances that a child of a definition gives.
Gives(node) ==
  IF node.kind = "item" THEN {node.value} ELSE IF node.kind = "range" THEN node.min .. node.max ELSE {}

\* One child: its instances are added, nothing else is changed.
LEMMA ChildRead ==
  ASSUME NEW ids, NEW read \in Readings(ids), NEW id \in DOMAIN read.sets, NEW node, IsChild(node)
  PROVE  \/ AddChild(read, id, node) = Raised
         \/ /\ read.ok /\ AddChild(read, id, node) = read /\ Gives(node) = {}
         \/ /\ read.ok /\ AddChild(read, id, node) = WithSet(read, id, read.sets[id] \cup Gives(node))
            /\ Gives(node) \in SUBSET Int /\ IsFiniteSet(Gives(node))
<1>1. CASE ~ read.ok
  BY <1>1 DEF AddChild
<1>2. CASE read.ok /\ node.kind = "item"
  <2>1. AddChild(read, id, node) = AddItem(read, id, node) /\ Gives(node) = {node.value}
    BY <1>2 DEF AddChild, Gives
  <2>2. CASE node.value = Missing
    BY <2>1, <2>2 DEF AddItem
  <2>3. CASE node.value # Missing
    <3>1. node.value \in Int
      BY <1>2, <2>3 DEF IsChild
    <3>2. Gives(node) \in SUBSET Int /\ IsFiniteSet(Gives(node))
      BY <2>1, <3>1, FS_Singleton
    <3>3. AddItem(read, id, node) = WithSet(read, id, read.sets[id] \cup {node.value})
      BY <2>3 DEF AddItem, WithSet
    <3> QED
      BY <1>2, <2>1, <3>2, <3>3
  <2> QED
    BY <2>2, <2>3
<1>3. CASE read.ok /\ node.kind = "range"
  <2>1. AddChild(read, id, node) = AddRange(read, id, node) /\ Gives(node) = node.min .. node.max
    BY <1>3 DEF AddChild, Gives
  <2>2. CASE Missing \in {node.min, node.max}
    BY <2>1, <2>2 DEF AddRange
  <2>3. CASE Missing \notin {node.min, node.max}
    <3>1. node.min \in Int /\ node.max \in Int
      BY <1>3, <2>3 DEF IsChild
    <3>2. Gives(node) \in SUBSET Int /\ IsFiniteSet(Gives(node))
      BY <2>1, <3>1, FS_Interval
    <3>3. AddRange(read, id, node) = WithSet(read, id, read.sets[id] \cup (node.min .. node.max))
      BY <2>3 DEF AddRange, WithSet
    <3> QED
      BY <1>3, <2>1, <3>2, <3>3
  <2> QED
    BY <2>2, <2>3
<1>4. CASE read.ok /\ node.kind # "item" /\ node.kind # "range"
  BY <1>4 DEF AddChild, Gives
<1> QED
  BY <1>1, <1>2, <1>3, <1>4

\* The reading stays one that knows the id, or has failed.
KnowsId(ids, id) == { read \in Readings(ids) : read.ok => id \in DOMAIN read.sets }

LEMMA ChildReadType ==
  ASSUME NEW ids, NEW id, NEW read \in KnowsId(ids, id), NEW node, IsChild(node)
  PROVE  AddChild(read, id, node) \in KnowsId(ids, id)
<1>1. Raised \in KnowsId(ids, id)
  BY RaisedIsReading DEF KnowsId, Raised
<1>2. CASE ~ read.ok
  BY <1>1, <1>2 DEF AddChild
<1>3. CASE read.ok
  <2>1. read \in Readings(ids) /\ id \in DOMAIN read.sets
    BY <1>3 DEF KnowsId
  <2>2. read.sets[id] \in SUBSET Int /\ IsFiniteSet(read.sets[id])
    BY <2>1 DEF Readings, SetsOf
  <2>3. ASSUME AddChild(read, id, node) = WithSet(read, id, read.sets[id] \cup Gives(node)),
               Gives(node) \in SUBSET Int, IsFiniteSet(Gives(node))
        PROVE  AddChild(read, id, node) \in KnowsId(ids, id)
    <3>1. read.sets[id] \cup Gives(node) \in SUBSET Int /\ IsFiniteSet(read.sets[id] \cup Gives(node))
      BY <2>2, <2>3, FS_Union
    <3>2. /\ WithSet(read, id, read.sets[id] \cup Gives(node)) \in Readings(ids)
          /\ DOMAIN WithSet(read, id, read.sets[id] \cup Gives(node)).sets = DOMAIN read.sets
      BY <1>3, <2>1, <3>1, WithIsReading
    <3> QED
      BY <2>1, <2>3, <3>2 DEF KnowsId
  <2> QED
    BY <1>1, <2>1, <2>3, ChildRead
<1> QED
  BY <1>2, <1>3

Cleared(read, id) == [read EXCEPT !.sets = NewFragmentSet(@, id)]

LEMMA NewFragmentSetRead ==
  ASSUME NEW ids, NEW id \in ids, NEW read \in Readings(ids), read.ok
  PROVE  /\ Cleared(read, id) \in KnowsId(ids, id) /\ Cleared(read, id).ok = read.ok
         /\ DOMAIN Cleared(read, id).sets = {id} \cup DOMAIN read.sets
         /\ Cleared(read, id).sets[id] = {}
         /\ \A x \in DOMAIN read.sets \ {id} : Cleared(read, id).sets[x] = read.sets[x]
<1> DEFINE new == NewFragmentSet(read.sets, id)
<1>1. PICK D \in SUBSET ids : read.sets \in [D -> { X \in SUBSET Int : IsFiniteSet(X) }]
  BY DEF Readings, SetsOf
<1>2. {} \in { X \in SUBSET Int : IsFiniteSet(X) }
  BY FS_EmptySet
<1>3. new \in [{id} \cup D -> { X \in SUBSET Int : IsFiniteSet(X) }] /\ {id} \cup D \in SUBSET ids
  BY <1>1, <1>2 DEF NewFragmentSet
<1>4. new \in SetsOf(ids)
  BY <1>3 DEF SetsOf
<1>5. /\ DOMAIN new = {id} \cup DOMAIN read.sets /\ new[id] = {}
      /\ \A x \in DOMAIN read.sets \ {id} : new[x] = read.sets[x]
  BY DEF NewFragmentSet
<1> HIDE DEF new
<1>6. read = [ok |-> read.ok, sets |-> read.sets] /\ read.ok \in BOOLEAN
  BY DEF Readings
<1>7. PICK old : old = read.sets
  OBVIOUS
<1>8. new = NewFragmentSet(old, id) /\ read = [ok |-> read.ok, sets |-> old]
  BY <1>6, <1>7 DEF new
<1>9. Cleared(read, id) = [read EXCEPT !.sets = NewFragmentSet(old, id)]
  BY <1>7 DEF Cleared
<1>10. Cleared(read, id) = [ok |-> read.ok, sets |-> new]
  BY <1>8, <1>9
<1>11. [ok |-> read.ok, sets |-> new] \in KnowsId(ids, id)
  BY <1>4, <1>5, <1>6 DEF KnowsId, Readings
<1> QED
  BY <1>5, <1>10, <1>11

ReadChildren(read, id, s) ==
  FoldLeft(LAMBDA r, node : AddChild(r, id, node), Cleared(read, id), s)

\* How the children of a definition are read.
LEMMA ChildrenSteps ==
  ASSUME NEW ids, NEW id \in ids, NEW read \in Readings(ids), read.ok, NEW s, \A i \in DOMAIN s : IsChild(s[i]),
         NEW n, ListOf(s, n)
  PROVE  \E at \in [0..n -> KnowsId(ids, id)] : /\ at[0] = Cleared(read, id) /\ ReadChildren(read, id, s) = at[n]
                                   /\ \A i \in 1..n : at[i] = AddChild(at[i - 1], id, s[i])
<1> USE DEF ListOf
<1> DEFINE V == KnowsId(ids, id)
           op == [x \in V \X (1..n) |-> AddChild(x[1], id, s[x[2]])]
           Is(it) == it = [t \in SUBSET (DOMAIN s) |->
                             IF t = {} THEN Cleared(read, id) ELSE AddChild(it[t \ {Max(t)}], id, s[Max(t)])]
           c == CHOOSE it : Is(it)
           at == [i \in 0..n |-> c[1..i]]
<1>1. ASSUME NEW v \in V, NEW i \in 1..n PROVE AddChild(v, id, s[i]) \in V
  BY ChildReadType
<1>2. op \in [V \X (1..n) -> V] /\ Cleared(read, id) \in V
  BY <1>1, NewFragmentSetRead
<1> HIDE DEF V
<1>3. \E it : Is(it)
  <2> HIDE DEF op
  <2>1. PICK it : Folds(it, V, Cleared(read, id), n, op)
    BY <1>2, FoldExists
  <2> USE DEF op
  <2>2. ASSUME NEW t \in SUBSET (1..n), t # {}
        PROVE  op[<<it[t \ {Max(t)}], Max(t)>>] = AddChild(it[t \ {Max(t)}], id, s[Max(t)])
    <3>1. Max(t) \in 1..n /\ t \ {Max(t)} \in SUBSET (1..n)
      BY <2>2, MaxOf
    <3>2. it[t \ {Max(t)}] \in V
      BY <2>1, <3>1 DEF Folds
    <3> QED
      BY <3>1, <3>2
  <2> HIDE DEF op
  <2>3. it = [t \in SUBSET (1..n) |-> IF t = {} THEN Cleared(read, id) ELSE op[<<it[t \ {Max(t)}], Max(t)>>]]
    BY <2>1 DEF Folds
  <2>4. Is(it)
    BY <2>2, <2>3
  <2> HIDE DEF Is
  <2> QED
    BY <2>4
<1>4. Is(c)
  BY <1>3
<1>5. ReadChildren(read, id, s) = c[1..n]
  BY DEF ReadChildren, FoldLeft, MapThenFoldSet
<1> HIDE DEF c
<1>6. at[0] = Cleared(read, id)
  <2>1. 1..0 = {} /\ {} \in SUBSET (DOMAIN s)
    OBVIOUS
  <2> QED
    BY <1>4, <2>1
<1>7. ASSUME NEW i \in 1..n PROVE at[i] = AddChild(at[i - 1], id, s[i])
  <2>1. /\ 1..i \in SUBSET (1..n) /\ 1..i # {} /\ Max(1..i) = i /\ (1..i) \ {i} = 1..(i - 1)
        /\ i \in 0..n /\ i - 1 \in 0..n
    BY FirstPositions
  <2>2. c[1..i] = IF 1..i = {} THEN Cleared(read, id) ELSE AddChild(c[(1..i) \ {Max(1..i)}], id, s[Max(1..i)])
    BY <1>4, <2>1
  <2> QED
    BY <2>1, <2>2
<1>8. at[n] = c[1..n] /\ DOMAIN at = 0..n /\ at = [i \in 0..n |-> at[i]]
  OBVIOUS
<1> HIDE DEF at
<1>9. \A i \in 0..n : at[i] \in V
  <2> DEFINE P == { i \in 0..n : at[i] \in V }
  <2>1. 0 \in P
    BY <1>2, <1>6
  <2>2. ASSUME NEW i \in 1..n, i - 1 \in P PROVE i \in P
    BY <1>1, <1>7, <2>2
  <2> HIDE DEF P
  <2>3. \A i \in 0..n : i \in P
    BY <2>1, <2>2, UpTo
  <2> USE DEF P
  <2> QED
    BY <2>3
<1>10. at \in [0..n -> V]
  BY <1>8, <1>9
<1> QED
  BY <1>5, <1>6, <1>7, <1>8, <1>10 DEF V

\* What a list of children gives.
AllGiven(s, n) == UNION { Gives(s[i]) : i \in 1..n }

\* All children of a definition: the set of its id is what they give, the others are as they were.
ChildrenAreRead(read, id, s, new) ==
  new.ok => /\ read.ok /\ DOMAIN new.sets = {id} \cup DOMAIN read.sets
            /\ new.sets[id] = AllGiven(s, Len(s))
            /\ \A x \in DOMAIN read.sets \ {id} : new.sets[x] = read.sets[x]

LEMMA ChildrenRead ==
  ASSUME NEW ids, NEW id \in ids, NEW read \in Readings(ids), read.ok, NEW s, IsList(s), \A i \in DOMAIN s : IsChild(s[i]),
         NEW new, new = ReadChildren(read, id, s)
  PROVE  new \in KnowsId(ids, id) /\ ChildrenAreRead(read, id, s, new)
<1> DEFINE n == Len(s)
           first == Cleared(read, id)
<1>1. n \in Nat /\ DOMAIN s = 1..n
  BY DEF IsList
<1>2. ListOf(s, n)
  BY <1>1 DEF ListOf
<1> HIDE DEF n
<1>3. PICK at \in [0..n -> KnowsId(ids, id)] :
        /\ at[0] = Cleared(read, id) /\ new = at[n] /\ \A i \in 1..n : at[i] = AddChild(at[i - 1], id, s[i])
  BY <1>2, ChildrenSteps
<1>4. /\ first.ok /\ DOMAIN first.sets = {id} \cup DOMAIN read.sets /\ first.sets[id] = {}
      /\ \A x \in DOMAIN read.sets \ {id} : first.sets[x] = read.sets[x]
  BY NewFragmentSetRead
<1> HIDE DEF first
<1> DEFINE Is(i) == at[i].ok => /\ DOMAIN at[i].sets = {id} \cup DOMAIN read.sets
                               /\ at[i].sets[id] = AllGiven(s, i)
                               /\ \A x \in DOMAIN read.sets \ {id} : at[i].sets[x] = read.sets[x]
           P == { i \in 0..n : Is(i) }
<1>5. 0 \in P
  <2>1. AllGiven(s, 0) = {}
    BY DEF AllGiven
  <2>2. 0 \in 0..n /\ at[0] = first
    BY <1>1, <1>3 DEF first
  <2>3. Is(0)
    BY <1>4, <2>1, <2>2
  <2> QED
    BY <2>2, <2>3
<1>6. ASSUME NEW i \in 1..n, i - 1 \in P PROVE i \in P
  <2>1. Is(i - 1)
    BY <1>6
  <2>2. i \in DOMAIN s /\ i \in 0..n /\ i - 1 \in 0..n /\ IsChild(s[i])
    BY <1>1
  <2>3. PICK a : a = at[i - 1] /\ a \in KnowsId(ids, id)
    BY <1>3, <2>2
  <2>4. PICK c : c = at[i] /\ c = AddChild(a, id, s[i])
    BY <1>3, <2>3
  <2>5. CASE ~ c.ok
    BY <2>2, <2>4, <2>5
  <2>6. CASE c.ok
    <3>1. ~ Raised.ok
      BY DEF Raised
    <3>2. a.ok
      BY <2>4, <2>6, <3>1 DEF AddChild
    <3>3. a \in Readings(ids) /\ id \in DOMAIN a.sets
      BY <2>3, <3>2 DEF KnowsId
    <3>4. /\ DOMAIN a.sets = {id} \cup DOMAIN read.sets /\ a.sets[id] = AllGiven(s, i - 1)
          /\ \A x \in DOMAIN read.sets \ {id} : a.sets[x] = read.sets[x]
      BY <2>1, <2>3, <3>2
    <3>5. AllGiven(s, i) = AllGiven(s, i - 1) \cup Gives(s[i])
      <4>1. 1..i = (1..(i - 1)) \cup {i}
        OBVIOUS
      <4> QED
        BY <4>1 DEF AllGiven
    <3>6. PICK node : node = s[i]
      OBVIOUS
    <3>7. IsChild(node) /\ c = AddChild(a, id, node)
      BY <2>2, <2>4, <3>6
    <3>8. c # Raised
      BY <2>6, <3>1
    <3>9. \/ c = a /\ Gives(node) = {}
          \/ /\ c = WithSet(a, id, a.sets[id] \cup Gives(node)) /\ Gives(node) \in SUBSET Int /\ IsFiniteSet(Gives(node))
      BY <3>3, <3>7, <3>8, ChildRead
    <3>10. \/ c = a /\ Gives(s[i]) = {}
           \/ /\ c = WithSet(a, id, a.sets[id] \cup Gives(s[i])) /\ Gives(s[i]) \in SUBSET Int /\ IsFiniteSet(Gives(s[i]))
      BY <3>6, <3>9
    <3>11. CASE c = a /\ Gives(s[i]) = {}
      <4>1. AllGiven(s, i) = AllGiven(s, i - 1)
        BY <3>5, <3>11
      <4> HIDE DEF P
      <4>2. Is(i)
        BY <2>4, <3>4, <3>11, <4>1
      <4> USE DEF P
      <4> QED
        BY <2>2, <4>2
    <3>12. CASE /\ c = WithSet(a, id, a.sets[id] \cup Gives(s[i])) /\ Gives(s[i]) \in SUBSET Int /\ IsFiniteSet(Gives(s[i]))
      <4>1. a.sets[id] \in SUBSET Int /\ IsFiniteSet(a.sets[id])
        BY <3>3 DEF Readings, SetsOf
      <4>2. a.sets[id] \cup Gives(s[i]) \in SUBSET Int /\ IsFiniteSet(a.sets[id] \cup Gives(s[i]))
        BY <3>12, <4>1, FS_Union
      <4>3. PICK T : T = a.sets[id] \cup Gives(s[i])
        OBVIOUS
      <4>4. T \in SUBSET Int /\ IsFiniteSet(T) /\ c = WithSet(a, id, T)
        BY <3>12, <4>2, <4>3
      <4>5. /\ DOMAIN c.sets = DOMAIN a.sets /\ c.sets[id] = T
            /\ \A x \in DOMAIN a.sets \ {id} : c.sets[x] = a.sets[x]
        BY ONLY <3>2, <3>3, <4>4, WithIsReading
      <4>6. /\ DOMAIN c.sets = DOMAIN a.sets /\ c.sets[id] = a.sets[id] \cup Gives(s[i])
            /\ \A x \in DOMAIN a.sets \ {id} : c.sets[x] = a.sets[x]
        BY <4>3, <4>5
      <4> HIDE DEF P
      <4>7. Is(i)
        <5>1. c.sets[id] = AllGiven(s, i) /\ DOMAIN c.sets = {id} \cup DOMAIN read.sets
          BY <3>4, <3>5, <4>6
        <5>2. \A x \in DOMAIN read.sets \ {id} : c.sets[x] = read.sets[x]
          BY <3>4, <4>6
        <5> QED
          BY <2>4, <5>1, <5>2
      <4> USE DEF P
      <4> QED
        BY <2>2, <4>7
    <3> HIDE DEF P
    <3> QED
      BY <3>10, <3>11, <3>12
  <2> QED
    BY <2>5, <2>6
<1> HIDE DEF P
<1>7. \A i \in 0..n : i \in P
  BY <1>1, <1>5, <1>6, UpTo
<1> USE DEF P
<1>8. Is(n) /\ n \in 0..n
  BY <1>1, <1>7
<1> QED
  BY <1>3, <1>8 DEF ChildrenAreRead, n

IsDefinition(def) == IsList(def.children) /\ \A j \in DOMAIN def.children : IsChild(def.children[j])

LEMMA DefinitionRead ==
  ASSUME NEW ids, NEW def, def.id \in ids, IsDefinition(def), NEW read \in Readings(ids)
  PROVE  /\ AddFragmentSet(read, def) \in Readings(ids)
         /\ ChildrenAreRead(read, def.id, def.children, AddFragmentSet(read, def))
<1>1. CASE ~ read.ok \/ Missing \in {def.id, def.name}
  <2>1. AddFragmentSet(read, def) = Raised
    BY <1>1 DEF AddFragmentSet
  <2>2. ~ Raised.ok
    BY DEF Raised
  <2> QED
    BY <2>1, <2>2, RaisedIsReading DEF ChildrenAreRead
<1>2. CASE read.ok /\ Missing \notin {def.id, def.name}
  <2>1. PICK id, s : id = def.id /\ s = def.children
    OBVIOUS
  <2>2. PICK new : new = ReadChildren(read, id, s)
    OBVIOUS
  <2>3. AddFragmentSet(read, def) = new
    BY <1>2, <2>1, <2>2 DEF AddFragmentSet, ReadChildren, Cleared, FoldLeft, MapThenFoldSet
  <2>4. IsList(s) /\ id \in ids /\ \A j \in DOMAIN s : IsChild(s[j])
    BY <2>1 DEF IsDefinition
  <2>5. new \in KnowsId(ids, id) /\ ChildrenAreRead(read, id, s, new)
    BY <1>2, <2>2, <2>4, ChildrenRead
  <2> QED
    BY <2>1, <2>3, <2>5 DEF KnowsId
<1> QED
  BY <1>1, <1>2

DefinitionsOf(ids, s) == \A i \in DOMAIN s : s[i].id \in ids /\ IsDefinition(s[i])
NothingRead == [ok |-> TRUE, sets |-> << >>]
ReadFile(s) == FoldLeft(AddFragmentSet, NothingRead, s)

\* How a file is read, one definition after the other.
LEMMA FileSteps ==
  ASSUME NEW ids, NEW s, DefinitionsOf(ids, s),
         NEW n, ListOf(s, n)
  PROVE  \E at \in [0..n -> Readings(ids)] : /\ at[0] = NothingRead /\ ReadFile(s) = at[n]
                                   /\ \A i \in 1..n : at[i] = AddFragmentSet(at[i - 1], s[i])
<1> USE DEF ListOf
<1> DEFINE V == Readings(ids)
           op == [x \in V \X (1..n) |-> AddFragmentSet(x[1], s[x[2]])]
           Is(it) == it = [t \in SUBSET (DOMAIN s) |->
                             IF t = {} THEN NothingRead ELSE AddFragmentSet(it[t \ {Max(t)}], s[Max(t)])]
           c == CHOOSE it : Is(it)
           at == [i \in 0..n |-> c[1..i]]
<1>1. ASSUME NEW v \in V, NEW i \in 1..n PROVE AddFragmentSet(v, s[i]) \in V
  BY DefinitionRead DEF DefinitionsOf
<1>2. op \in [V \X (1..n) -> V] /\ NothingRead \in V
  BY <1>1, RaisedIsReading DEF NothingRead
<1> HIDE DEF V
<1>3. \E it : Is(it)
  <2> HIDE DEF op
  <2>1. PICK it : Folds(it, V, NothingRead, n, op)
    BY <1>2, FoldExists
  <2> USE DEF op
  <2>2. ASSUME NEW t \in SUBSET (1..n), t # {}
        PROVE  op[<<it[t \ {Max(t)}], Max(t)>>] = AddFragmentSet(it[t \ {Max(t)}], s[Max(t)])
    <3>1. Max(t) \in 1..n /\ t \ {Max(t)} \in SUBSET (1..n)
      BY <2>2, MaxOf
    <3>2. it[t \ {Max(t)}] \in V
      BY <2>1, <3>1 DEF Folds
    <3> QED
      BY <3>1, <3>2
  <2> HIDE DEF op
  <2>3. it = [t \in SUBSET (1..n) |-> IF t = {} THEN NothingRead ELSE op[<<it[t \ {Max(t)}], Max(t)>>]]
    BY <2>1 DEF Folds
  <2>4. Is(it)
    BY <2>2, <2>3
  <2> HIDE DEF Is
  <2> QED
    BY <2>4
<1>4. Is(c)
  BY <1>3
<1>5. ReadFile(s) = c[1..n]
  BY DEF ReadFile, FoldLeft, MapThenFoldSet
<1> HIDE DEF c
<1>6. at[0] = NothingRead
  <2>1. 1..0 = {} /\ {} \in SUBSET (DOMAIN s)
    OBVIOUS
  <2> QED
    BY <1>4, <2>1
<1>7. ASSUME NEW i \in 1..n PROVE at[i] = AddFragmentSet(at[i - 1], s[i])
  <2>1. /\ 1..i \in SUBSET (1..n) /\ 1..i # {} /\ Max(1..i) = i /\ (1..i) \ {i} = 1..(i - 1)
        /\ i \in 0..n /\ i - 1 \in 0..n
    BY FirstPositions
  <2>2. c[1..i] = IF 1..i = {} THEN NothingRead ELSE AddFragmentSet(c[(1..i) \ {Max(1..i)}], s[Max(1..i)])
    BY <1>4, <2>1
  <2> QED
    BY <2>1, <2>2
<1>8. at[n] = c[1..n] /\ DOMAIN at = 0..n /\ at = [i \in 0..n |-> at[i]]
  OBVIOUS
<1> HIDE DEF at
<1>9. \A i \in 0..n : at[i] \in V
  <2> DEFINE P == { i \in 0..n : at[i] \in V }
  <2>1. 0 \in P
    BY <1>2, <1>6
  <2>2. ASSUME NEW i \in 1..n, i - 1 \in P PROVE i \in P
    BY <1>1, <1>7, <2>2
  <2> HIDE DEF P
  <2>3. \A i \in 0..n : i \in P
    BY <2>1, <2>2, UpTo
  <2> USE DEF P
  <2> QED
    BY <2>3
<1>10. at \in [0..n -> V]
  BY <1>8, <1>9
<1> QED
  BY <1>5, <1>6, <1>7, <1>8, <1>10 DEF V

\* The reading of a file: what it yields after each of its definitions.
FileReads(at, ids, s, n) ==
  /\ at \in [0..n -> Readings(ids)] /\ at[0] = NothingRead /\ ReadFile(s) = at[n]
  /\ \A i \in 1..n : at[i] = AddFragmentSet(at[i - 1], s[i])
FileOf(ids, s, n) ==
  ListOf(s, n) /\ DefinitionsOf(ids, s)

LEMMA FileReadings ==
  ASSUME NEW ids, NEW s, NEW n, FileOf(ids, s, n)
  PROVE  \E at : FileReads(at, ids, s, n)
BY FileSteps DEF FileOf, FileReads

\* The children of the last of the first i definitions of an id.
IsLast(file, i, x, k) == k \in 1..i /\ file[k].id = x /\ \A j \in (k + 1)..i : file[j].id # x

FileIsRead(file, i, read) ==
  read.ok => /\ \A x : x \in DOMAIN read.sets <=> \E j \in 1..i : file[j].id = x
             /\ \A x, k : IsLast(file, i, x, k) => read.sets[x] = AllGiven(file[k].children, Len(file[k].children))

LEMMA FileReadStep ==
  ASSUME NEW ids, NEW file, NEW i \in Nat \ {0}, file[i].id \in ids, IsDefinition(file[i]),
         NEW read \in Readings(ids), FileIsRead(file, i - 1, read)
  PROVE  FileIsRead(file, i, AddFragmentSet(read, file[i]))
<1>1. PICK def : def = file[i]
  OBVIOUS
<1>2. PICK new : new = AddFragmentSet(read, def)
  OBVIOUS
<1>3. ChildrenAreRead(read, def.id, def.children, new)
  BY <1>1, <1>2, DefinitionRead
<1>4. SUFFICES ASSUME new.ok PROVE FileIsRead(file, i, new)
  BY <1>1, <1>2 DEF FileIsRead
<1>5. /\ read.ok /\ DOMAIN new.sets = {def.id} \cup DOMAIN read.sets
      /\ new.sets[def.id] = AllGiven(def.children, Len(def.children))
      /\ \A x \in DOMAIN read.sets \ {def.id} : new.sets[x] = read.sets[x]
  BY <1>3, <1>4 DEF ChildrenAreRead
<1>6. \A x : x \in DOMAIN read.sets <=> \E j \in 1..(i - 1) : file[j].id = x
  BY <1>5 DEF FileIsRead
<1>7. \A j : j \in 1..i <=> j \in 1..(i - 1) \/ j = i
  OBVIOUS
<1>8. ASSUME NEW x PROVE x \in DOMAIN new.sets <=> \E j \in 1..i : file[j].id = x
  BY <1>1, <1>5, <1>6, <1>7
<1>9. ASSUME NEW x, NEW k, IsLast(file, i, x, k)
      PROVE  new.sets[x] = AllGiven(file[k].children, Len(file[k].children))
  <2>1. k \in 1..i /\ file[k].id = x /\ \A j \in (k + 1)..i : file[j].id # x
    BY <1>9 DEF IsLast
  <2>2. CASE k = i
    BY <1>1, <1>5, <2>1, <2>2
  <2>3. CASE k # i
    <3>1. k \in 1..(i - 1) /\ i \in (k + 1)..i /\ \A j \in (k + 1)..(i - 1) : j \in (k + 1)..i
      BY <2>1, <2>3
    <3>2. x # def.id
      BY <1>1, <2>1, <3>1
    <3>3. IsLast(file, i - 1, x, k)
      BY <2>1, <3>1 DEF IsLast
    <3>4. x \in DOMAIN read.sets
      BY <1>6, <2>1, <3>1
    <3>5. read.sets[x] = AllGiven(file[k].children, Len(file[k].children))
      BY <1>5, <3>3 DEF FileIsRead
    <3> QED
      BY <1>5, <3>2, <3>4, <3>5
  <2> QED
    BY <2>2, <2>3
<1> QED
  BY <1>8, <1>9 DEF FileIsRead

\* A file that could be read: the sets are the last definitions of their ids.
LEMMA FileRead ==
  ASSUME NEW file, IsFile(file), file # Missing, NEW read, read = FragmentSets(file), read.ok,
         NEW id \in DOMAIN read.sets, NEW last, last = Max({ i \in DOMAIN file : file[i].id = id })
  PROVE  /\ last \in DOMAIN file /\ file[last].id = id
         /\ read.sets[id] = AllGiven(file[last].children, Len(file[last].children))
         /\ read.sets[id] \in SUBSET Int /\ IsFiniteSet(read.sets[id])
<1> DEFINE n == Len(file)
           ids == { file[i].id : i \in DOMAIN file }
<1>1. n \in Nat /\ DOMAIN file = 1..n
  BY DEF IsFile, IsList
<1> HIDE DEF n
<1>2. \A i \in DOMAIN file : file[i].id \in ids /\ IsDefinition(file[i])
  BY DEF IsFile, IsDefinition
<1> HIDE DEF ids
<1>3. PICK at : FileReads(at, ids, file, n)
  BY <1>1, <1>2, FileReadings DEF FileOf, ListOf, DefinitionsOf
<1>4. /\ at \in [0..n -> Readings(ids)] /\ at[0] = NothingRead /\ ReadFile(file) = at[n]
      /\ \A i \in 1..n : at[i] = AddFragmentSet(at[i - 1], file[i])
  BY <1>3 DEF FileReads
<1> DEFINE P == { i \in 0..n : FileIsRead(file, i, at[i]) }
<1>5. 0 \in P
  <2>1. PICK a : a = at[0] /\ a.sets = << >>
    BY <1>4 DEF NothingRead
  <2>2. FileIsRead(file, 0, a)
    BY <2>1 DEF FileIsRead, IsLast
  <2> QED
    BY <1>1, <2>1, <2>2
<1>6. ASSUME NEW i \in 1..n, i - 1 \in P PROVE i \in P
  <2>1. PICK a : a = at[i - 1] /\ a \in Readings(ids) /\ FileIsRead(file, i - 1, a)
    BY <1>4, <1>6
  <2>2. i \in Nat \ {0} /\ file[i].id \in ids /\ IsDefinition(file[i])
    BY <1>1, <1>2
  <2>3. FileIsRead(file, i, AddFragmentSet(a, file[i]))
    BY <2>1, <2>2, FileReadStep
  <2>4. at[i] = AddFragmentSet(a, file[i]) /\ i \in 0..n
    BY <1>4, <2>1
  <2> QED
    BY <2>3, <2>4
<1> HIDE DEF P
<1>7. \A i \in 0..n : i \in P
  BY <1>1, <1>5, <1>6, UpTo
<1> USE DEF P
<1>8. read = at[n]
  BY <1>4 DEF FragmentSets, ReadFile, NothingRead
<1>9. read \in Readings(ids) /\ FileIsRead(file, n, read)
  BY <1>1, <1>4, <1>7, <1>8
<1>10. id \in DOMAIN read.sets /\ read.ok
  OBVIOUS
<1>11. PICK T : T = { i \in 1..n : file[i].id = id }
  OBVIOUS
<1>12. T \in SUBSET (1..n) /\ T # {}
  BY <1>9, <1>10, <1>11 DEF FileIsRead
<1>13. PICK k : k = Max(T) /\ k \in T /\ \A x \in T : x <= k
  BY <1>1, <1>12, MaxOf
<1>14. IsLast(file, n, id, k)
  <2>1. k \in 1..n /\ file[k].id = id
    BY <1>11, <1>13
  <2>2. ASSUME NEW j \in (k + 1)..n, file[j].id = id PROVE FALSE
    <3>1. j \in 1..n /\ ~ (j <= k)
      BY <1>1, <2>1
    <3> QED
      BY <1>11, <1>13, <2>2, <3>1
  <2> QED
    BY <2>1, <2>2 DEF IsLast
<1>15. read.sets[id] = AllGiven(file[k].children, Len(file[k].children))
  BY <1>9, <1>10, <1>14 DEF FileIsRead
<1>16. read.sets[id] \in SUBSET Int /\ IsFiniteSet(read.sets[id])
  BY <1>9, <1>10 DEF Readings, SetsOf
<1> QED
  BY <1>1, <1>11, <1>13, <1>15, <1>16

\* A file that could not be read has no sets.
LEMMA UnreadFile ==
  ASSUME NEW file, file = Missing \/ IsFile(file), ~ FragmentSets(file).ok
  PROVE  DOMAIN FragmentSets(file).sets = {}
<1>1. DOMAIN Raised.sets = {}
  BY DEF Raised
<1>2. CASE file = Missing
  BY <1>1, <1>2 DEF FragmentSets
<1>3. CASE file # Missing /\ IsFile(file)
  <2> DEFINE n == Len(file)
             ids == { file[i].id : i \in DOMAIN file }
  <2>1. n \in Nat /\ DOMAIN file = 1..n
    BY <1>3 DEF IsFile, IsList
  <2> HIDE DEF n
  <2>2. \A i \in DOMAIN file : file[i].id \in ids /\ IsDefinition(file[i])
    BY <1>3 DEF IsFile, IsDefinition
  <2> HIDE DEF ids
  <2>3. PICK at : FileReads(at, ids, file, n)
    BY <2>1, <2>2, FileReadings DEF FileOf, ListOf, DefinitionsOf
  <2>4. at \in [0..n -> Readings(ids)] /\ ReadFile(file) = at[n]
    BY <2>3 DEF FileReads
  <2>5. at[n].ok \/ at[n] = Raised
    BY <2>1, <2>4 DEF Readings
  <2>6. FragmentSets(file) = at[n]
    BY <1>3, <2>4 DEF FragmentSets, ReadFile, NothingRead
  <2> QED
    BY <1>1, <2>5, <2>6
<1> QED
  BY <1>2, <1>3

\* A list without doubles names as many applications as it has elements.
Injective(s, n) == \A i, j \in 1..n : s[i] = s[j] => i = j
NamedUpTo(s, i) == { s[j] : j \in 1..i }

LEMMA NamedStep ==
  ASSUME NEW s, NEW i \in Nat \ {0}
  PROVE  /\ NamedUpTo(s, i) = NamedUpTo(s, i - 1) \cup {s[i]}
         /\ Injective(s, i - 1) /\ s[i] \notin NamedUpTo(s, i - 1) => Injective(s, i)
<1>1. \A j : j \in 1..i <=> j \in 1..(i - 1) \/ j = i
  OBVIOUS
<1> QED
  BY <1>1 DEF NamedUpTo, Injective

\* What a list was filled with, if it was.
FilledWith(s, i, zone, rus) ==
  rus.ok => /\ rus.participatingRUs = NamedUpTo(s, i) /\ rus.participatingRUs \subseteq zone.RU /\ Injective(s, i)

LEMMA FillRUStep ==
  ASSUME NEW zone, NEW s, NEW i \in Nat \ {0}, NEW rus \in RUsOf(zone), FilledWith(s, i - 1, zone, rus)
  PROVE  FilledWith(s, i, zone, FillRUInstance(zone, rus, s[i]))
<1>1. PICK x : x = s[i]
  OBVIOUS
<1>2. CASE rus.ok /\ x \in zone.RU /\ x \notin rus.participatingRUs
  <2>1. FillRUInstance(zone, rus, x) = [rus EXCEPT !.participatingRUs = @ \cup {x}]
    BY <1>2 DEF FillRUInstance
  <2>2. FillRUInstance(zone, rus, x).participatingRUs = rus.participatingRUs \cup {x}
    BY <2>1 DEF RUsOf
  <2>3. rus.participatingRUs = NamedUpTo(s, i - 1) /\ rus.participatingRUs \subseteq zone.RU /\ Injective(s, i - 1)
    BY <1>2 DEF FilledWith
  <2> QED
    BY <1>1, <1>2, <2>2, <2>3, NamedStep DEF FilledWith
<1>3. CASE ~ (rus.ok /\ x \in zone.RU /\ x \notin rus.participatingRUs)
  <2>1. ~ FillRUInstance(zone, rus, x).ok
    BY <1>3 DEF FillRUInstance, RUsOf
  <2> QED
    BY <1>1, <2>1 DEF FilledWith
<1> QED
  BY <1>2, <1>3

\* All instances of the list are RUs of the zone, none of them twice, and they are the participating RUs.
LEMMA FillIs ==
  ASSUME NEW zone, NEW before, before \in RUsOf(zone), NEW s, NEW n, ListOf(s, n)
  PROVE  FillRUs(zone, before, s) \in RUsOf(zone) /\ FilledWith(s, n, zone, FillRUs(zone, before, s))
<1>1. PICK first : first = Emptied(before)
  OBVIOUS
<1>2. PICK at \in [0..n -> RUsOf(zone)] :
        /\ at[0] = Emptied(before) /\ FillRUs(zone, before, s) = at[n]
        /\ \A i \in 1..n : at[i] = FillRUInstance(zone, at[i - 1], s[i])
  BY FillSteps
<1> DEFINE P == { i \in 0..n : FilledWith(s, i, zone, at[i]) }
<1>3. 0 \in P
  <2>1. first.participatingRUs = {}
    BY <1>1 DEF RUsOf, Emptied
  <2>2. NamedUpTo(s, 0) = {} /\ Injective(s, 0)
    BY DEF NamedUpTo, Injective
  <2>3. FilledWith(s, 0, zone, first)
    BY <2>1, <2>2 DEF FilledWith
  <2> QED
    BY <1>1, <1>2, <2>3 DEF ListOf
<1>4. ASSUME NEW i \in 1..n, i - 1 \in P PROVE i \in P
  <2>1. PICK a : a = at[i - 1] /\ a \in RUsOf(zone) /\ FilledWith(s, i - 1, zone, a)
    BY <1>2, <1>4 DEF ListOf
  <2>2. FilledWith(s, i, zone, FillRUInstance(zone, a, s[i]))
    BY <2>1, FillRUStep DEF ListOf
  <2> QED
    BY <1>2, <2>1, <2>2 DEF ListOf
<1> HIDE DEF P
<1>5. \A i \in 0..n : i \in P
  BY <1>3, <1>4, UpTo DEF ListOf
<1> USE DEF P
<1> QED
  BY <1>2, <1>5 DEF ListOf

LEMMA FillType ==
  ASSUME NEW zone, IsFiniteSet(zone.RU), NEW before, before \in RUsOf(zone), NEW s, NEW n, ListOf(s, n)
  PROVE  Fill(zone, before, s) \in RUsOf(zone) /\ FilledWith(s, n, zone, Fill(zone, before, s))
<1>1. PICK rus : rus = FillRUs(zone, before, s)
  OBVIOUS
<1>2. rus \in RUsOf(zone) /\ FilledWith(s, n, zone, rus)
  BY <1>1, FillIs
<1>3. Cardinality(rus.participatingRUs) \in Nat
  <2>1. rus.participatingRUs \in SUBSET zone.RU
    BY <1>2 DEF RUsOf
  <2> QED
    BY <2>1, FS_Subset, FS_CardinalityType
<1>4. Fill(zone, before, s) = [ok |-> rus.ok, participatingRUs |-> rus.participatingRUs,
                               ruCount |-> IF rus.ok THEN Cardinality(rus.participatingRUs) ELSE before.ruCount]
  BY <1>1 DEF Fill, FillRUs, Emptied, FoldLeft, MapThenFoldSet
<1>5. Fill(zone, before, s) \in RUsOf(zone)
  BY <1>2, <1>3, <1>4 DEF RUsOf
<1>6. Fill(zone, before, s).ok = rus.ok /\ Fill(zone, before, s).participatingRUs = rus.participatingRUs
  BY <1>4
<1> QED
  BY <1>2, <1>5, <1>6 DEF FilledWith

\* The storage managers.
TakenWith(s, i, zone, taken) ==
  taken.ok => taken.participatingSMs = NamedUpTo(s, i)

LEMMA AddSMStep ==
  ASSUME NEW zone, NEW s, NEW i \in Nat \ {0}, NEW taken \in SMsOf(zone), TakenWith(s, i - 1, zone, taken)
  PROVE  TakenWith(s, i, zone, AddSM(zone, taken, s[i]))
<1>1. PICK x : x = s[i]
  OBVIOUS
<1>2. CASE taken.ok /\ x \in zone.SM \ taken.participatingSMs
  <2>1. AddSM(zone, taken, x).participatingSMs = taken.participatingSMs \cup {x}
    BY <1>2 DEF AddSM, SMsOf
  <2>2. taken.participatingSMs = NamedUpTo(s, i - 1)
    BY <1>2 DEF TakenWith
  <2> QED
    BY <1>1, <2>1, <2>2, NamedStep DEF TakenWith
<1>3. CASE ~ (taken.ok /\ x \in zone.SM \ taken.participatingSMs)
  <2>1. ~ AddSM(zone, taken, x).ok
    BY <1>3 DEF AddSM, SMsOf
  <2> QED
    BY <1>1, <2>1 DEF TakenWith
<1> QED
  BY <1>2, <1>3

LEMMA TakenIs ==
  ASSUME NEW zone, NEW s, NEW n, ListOf(s, n)
  PROVE  TakenWith(s, n, zone, TakenSMs(zone, s))
<1>1. NoSMs \in SMsOf(zone)
  BY DEF NoSMs, SMsOf
<1>2. PICK at \in [0..n -> SMsOf(zone)] :
        /\ at[0] = NoSMs /\ TakenSMs(zone, s) = at[n] /\ \A i \in 1..n : at[i] = AddSM(zone, at[i - 1], s[i])
  BY <1>1, SMSteps
<1> DEFINE P == { i \in 0..n : TakenWith(s, i, zone, at[i]) }
<1>3. 0 \in P
  <2>1. NamedUpTo(s, 0) = {}
    BY DEF NamedUpTo
  <2>2. TakenWith(s, 0, zone, NoSMs)
    BY <2>1 DEF TakenWith, NoSMs
  <2> QED
    BY <1>2, <2>2 DEF ListOf
<1>4. ASSUME NEW i \in 1..n, i - 1 \in P PROVE i \in P
  <2>1. PICK a : a = at[i - 1] /\ a \in SMsOf(zone) /\ TakenWith(s, i - 1, zone, a)
    BY <1>2, <1>4 DEF ListOf
  <2>2. TakenWith(s, i, zone, AddSM(zone, a, s[i]))
    BY <2>1, AddSMStep DEF ListOf
  <2> QED
    BY <1>2, <2>1, <2>2 DEF ListOf
<1> HIDE DEF P
<1>5. \A i \in 0..n : i \in P
  BY <1>3, <1>4, UpTo DEF ListOf
<1> USE DEF P
<1> QED
  BY <1>2, <1>5 DEF ListOf

\* An enumeration of a set of numbers in order.
Sorted(s, c, S) == s \in [1..c -> S] /\ \A i, j \in 1..c : i < j => s[i] < s[j]

\* A set of numbers that is not empty has a greatest.
GreatestOf(S, m) == m \in S /\ \A x \in S : x <= m

LEMMA GreatestWith ==
  ASSUME NEW S \in SUBSET Int, NEW x \in Int, NEW m, GreatestOf(S, m)
  PROVE  \E g : GreatestOf(S \cup {x}, g)
<1>1. CASE x <= m
  <2>1. GreatestOf(S \cup {x}, m)
    BY <1>1 DEF GreatestOf
  <2> QED
    BY <2>1
<1>2. CASE ~ (x <= m)
  <2>1. GreatestOf(S \cup {x}, x)
    BY <1>2 DEF GreatestOf
  <2> QED
    BY <2>1
<1> QED
  BY <1>1, <1>2

HaveGreatest(n) == \A S \in SUBSET Int : IsFiniteSet(S) /\ Cardinality(S) = n /\ S # {} => \E g : GreatestOf(S, g)
HaveOrder(n)    == \A S \in SUBSET Int : IsFiniteSet(S) /\ Cardinality(S) = n => \E s : Sorted(s, n, S)

LEMMA GreatestStep ==
  ASSUME NEW n \in Nat \ {0}, HaveGreatest(n - 1)
  PROVE  HaveGreatest(n)
<1> SUFFICES ASSUME NEW S \in SUBSET Int, IsFiniteSet(S), Cardinality(S) = n, S # {}
             PROVE  \E g : GreatestOf(S, g)
  BY DEF HaveGreatest
<1>1. PICK x \in S : TRUE
  OBVIOUS
<1>2. PICK R : R = S \ {x}
  OBVIOUS
<1>3. R \in SUBSET Int /\ IsFiniteSet(R) /\ Cardinality(R) = n - 1 /\ S = R \cup {x} /\ x \in Int
  BY <1>1, <1>2, FS_RemoveElement
<1>4. CASE R = {}
  <2>1. GreatestOf(S, x)
    BY <1>3, <1>4 DEF GreatestOf
  <2> QED
    BY <2>1
<1>5. CASE R # {}
  <2>1. PICK m : GreatestOf(R, m)
    BY <1>3, <1>5 DEF HaveGreatest
  <2> QED
    BY <1>3, <2>1, GreatestWith
<1> QED
  BY <1>4, <1>5

LEMMA Greatest ==
  ASSUME NEW S \in SUBSET Int, IsFiniteSet(S), S # {}
  PROVE  \E g : GreatestOf(S, g)
<1> DEFINE n == Cardinality(S)
           P == { i \in 0..n : HaveGreatest(i) }
<1>1. n \in Nat
  BY FS_CardinalityType
<1>2. 0 \in P
  <2>1. HaveGreatest(0)
    BY FS_EmptySet DEF HaveGreatest
  <2> QED
    BY <1>1, <2>1
<1> HIDE DEF n
<1>3. ASSUME NEW i \in 1..n, i - 1 \in P PROVE i \in P
  BY <1>1, <1>3, GreatestStep
<1> HIDE DEF P
<1>4. \A i \in 0..n : i \in P
  BY <1>1, <1>2, <1>3, UpTo
<1> USE DEF P
<1>5. HaveGreatest(n)
  BY <1>1, <1>4
<1> QED
  BY <1>5 DEF HaveGreatest, n

LEMMA OrderStep ==
  ASSUME NEW n \in Nat \ {0}, HaveOrder(n - 1)
  PROVE  HaveOrder(n)
<1> SUFFICES ASSUME NEW S \in SUBSET Int, IsFiniteSet(S), Cardinality(S) = n
             PROVE  \E s : Sorted(s, n, S)
  BY DEF HaveOrder
<1>1. S # {}
  BY FS_EmptySet
<1>2. PICK m : GreatestOf(S, m)
  BY <1>1, Greatest
<1>3. PICK R : R = S \ {m}
  OBVIOUS
<1>4. /\ R \in SUBSET Int /\ IsFiniteSet(R) /\ Cardinality(R) = n - 1
      /\ m \in S /\ \A x \in R : x \in S /\ x < m
  BY <1>2, <1>3, FS_RemoveElement DEF GreatestOf
<1>5. PICK r : Sorted(r, n - 1, R)
  BY <1>4 DEF HaveOrder
<1> DEFINE s == [i \in 1..n |-> IF i = n THEN m ELSE r[i]]
<1>6. \A i \in 1..n : i # n => i \in 1..(n - 1)
  OBVIOUS
<1>7. s \in [1..n -> S]
  BY <1>4, <1>5, <1>6 DEF Sorted
<1>8. ASSUME NEW i \in 1..n, NEW j \in 1..n, i < j PROVE s[i] < s[j]
  <2>1. i \in 1..(n - 1) /\ s[i] = r[i] /\ r[i] \in R
    BY <1>5, <1>8 DEF Sorted
  <2>2. CASE j = n
    BY <1>4, <2>1, <2>2
  <2>3. CASE j # n
    BY <1>5, <1>6, <1>8, <2>1, <2>3 DEF Sorted
  <2> QED
    BY <2>2, <2>3
<1> HIDE DEF s
<1>9. Sorted(s, n, S)
  BY <1>7, <1>8 DEF Sorted
<1> QED
  BY <1>9

LEMMA OrderExists ==
  ASSUME NEW S \in SUBSET Int, IsFiniteSet(S)
  PROVE  \E s : Sorted(s, Cardinality(S), S)
<1> DEFINE n == Cardinality(S)
           P == { i \in 0..n : HaveOrder(i) }
<1>1. n \in Nat
  BY FS_CardinalityType
<1>2. 0 \in P
  <2>1. ASSUME NEW T \in SUBSET Int, IsFiniteSet(T), Cardinality(T) = 0 PROVE \E s : Sorted(s, 0, T)
    <3>1. Sorted([i \in 1..0 |-> 0], 0, T)
      BY DEF Sorted
    <3> QED
      BY <3>1
  <2>2. HaveOrder(0)
    BY <2>1 DEF HaveOrder
  <2> QED
    BY <1>1, <2>2
<1> HIDE DEF n
<1>3. ASSUME NEW i \in 1..n, i - 1 \in P PROVE i \in P
  BY <1>1, <1>3, OrderStep
<1> HIDE DEF P
<1>4. \A i \in 0..n : i \in P
  BY <1>1, <1>2, <1>3, UpTo
<1> USE DEF P
<1>5. HaveOrder(n)
  BY <1>1, <1>4
<1> QED
  BY <1>5 DEF HaveOrder, n

\* The elements of a set in order: all of them, and nothing else.
LEMMA InOrderIs ==
  ASSUME NEW S \in SUBSET Int, IsFiniteSet(S)
  PROVE  ListOf(InOrder(S), Cardinality(S)) /\ NamedUpTo(InOrder(S), Cardinality(S)) = S
<1>1. PICK c : c = Cardinality(S) /\ c \in Nat
  BY FS_CardinalityType
<1>2. PICK q : Sorted(q, c, S)
  BY <1>1, OrderExists
<1>3. PICK s : s = InOrder(S)
  OBVIOUS
<1>4. q \in [1..c -> S] /\ \A i, j \in DOMAIN q : i < j => q[i] < q[j]
  BY <1>2 DEF Sorted
<1>5. s \in [1..c -> S] /\ \A i, j \in DOMAIN s : i < j => s[i] < s[j]
  BY <1>1, <1>3, <1>4 DEF InOrder
<1>6. s \in Injection(1..c, S)
  <2>1. ASSUME NEW i \in 1..c, NEW j \in 1..c, s[i] = s[j] PROVE i = j
    <3>1. s[i] \in Int /\ s[j] \in Int
      BY <1>5
    <3>2. ~ (s[i] < s[j]) /\ ~ (s[j] < s[i])
      BY <2>1, <3>1
    <3>3. ~ (i < j) /\ ~ (j < i)
      BY <1>5, <3>2
    <3> QED
      BY <1>1, <3>3
  <2> QED
    BY <1>5, <2>1 DEF Injection, IsInjective
<1>7. Cardinality(1..c) = c
  BY <1>1, FS_Interval
<1>8. s \in Surjection(1..c, S)
  BY <1>1, <1>6, <1>7, FS_Injection
<1>9. \A x \in S : \E i \in 1..c : s[i] = x
  BY <1>8 DEF Surjection
<1>10. NamedUpTo(s, c) = S
  BY <1>5, <1>9 DEF NamedUpTo
<1> QED
  BY <1>1, <1>3, <1>5, <1>10 DEF ListOf

\* The RUs that parameters ask for, if they are found: all of them are in the zone, none is asked for twice.
AsAsked(p, rus) ==
  rus.ok => /\ rus.participatingRUs = AskedRUs(p) /\ AskedRUs(p) \subseteq RUs
            /\ Len(p.ruInstances) > Cardinality(AskedRUs(p)) => p.useFragmentSet

LEMMA AskedByInstances ==
  ASSUME IsFiniteSet(RUs), NEW p, IsRuParameters(p), ~ p.useFragmentSet,
         NEW before, before \in RUsOf(setup.zone)
  PROVE  /\ ParticipatingRUs(setup.zone, before, p) \in RUsOf(setup.zone)
         /\ AsAsked(p, ParticipatingRUs(setup.zone, before, p))
<1>1. PICK s, n : s = p.ruInstances /\ n = Len(s)
  OBVIOUS
<1>2. IsList(s)
  BY <1>1 DEF IsRuParameters
<1>3. ListOf(s, n) /\ n \in Nat /\ DOMAIN s = 1..n
  BY <1>1, <1>2 DEF IsList, ListOf
<1>4. PICK rus : rus = Fill(setup.zone, before, s)
  OBVIOUS
<1>5. ParticipatingRUs(setup.zone, before, p) = rus
  BY <1>1, <1>4 DEF ParticipatingRUs, FillParticipatingRUsUsingRuInstances
<1>6. rus \in RUsOf(setup.zone) /\ FilledWith(s, n, setup.zone, rus)
  BY <1>3, <1>4, FillType DEF RUs
<1>7. AskedRUs(p) = NamedUpTo(s, n)
  BY <1>1, <1>3 DEF AskedRUs, NamedUpTo, Range
<1>8. ASSUME Injective(s, n) PROVE n = Cardinality(NamedUpTo(s, n))
  <2>1. s \in Bijection(1..n, NamedUpTo(s, n))
    <3>1. s \in [1..n -> NamedUpTo(s, n)]
      <4>1. s \in [1..n -> Range(s)]
        BY <1>2, <1>3 DEF IsList, Range
      <4>2. Range(s) = NamedUpTo(s, n)
        BY <1>3 DEF Range, NamedUpTo
      <4> QED
        BY <4>1, <4>2
    <3> QED
      BY <1>8, <3>1 DEF Injective, NamedUpTo, Bijection, Injection, Surjection, IsInjective
  <2>2. ExistsBijection(1..n, NamedUpTo(s, n))
    BY <2>1 DEF ExistsBijection
  <2>3. IsFiniteSet(1..n) /\ Cardinality(1..n) = n
    BY <1>3, FS_Interval
  <2> QED
    BY <2>2, <2>3, FS_Bijection
<1>9. ASSUME rus.ok
      PROVE  /\ rus.participatingRUs = AskedRUs(p) /\ AskedRUs(p) \subseteq RUs
             /\ Len(p.ruInstances) > Cardinality(AskedRUs(p)) => p.useFragmentSet
  <2>1. rus.participatingRUs = AskedRUs(p) /\ AskedRUs(p) \subseteq RUs /\ Injective(s, n)
    BY <1>6, <1>7, <1>9 DEF FilledWith, RUs
  <2>2. PICK k : k = Cardinality(AskedRUs(p)) /\ k = n
    BY <1>7, <1>8, <2>1
  <2>3. ~ (Len(p.ruInstances) > k)
    BY <1>1, <1>3, <2>2
  <2> QED
    BY <2>1, <2>2, <2>3
<1> QED
  BY <1>5, <1>6, <1>9 DEF AsAsked

LEMMA AskedByFragmentSet ==
  ASSUME IsFiniteSet(RUs), RUs \subseteq Nat, NEW p, IsRuParameters(p), p.useFragmentSet,
         NEW before, before \in RUsOf(setup.zone)
  PROVE  /\ ParticipatingRUs(setup.zone, before, p) \in RUsOf(setup.zone)
         /\ AsAsked(p, ParticipatingRUs(setup.zone, before, p))
<1>1. PICK file, id, read : file = p.fragmentSets /\ id = p.fragmentSetId /\ read = FragmentSets(file)
  OBVIOUS
<1>2. file = Missing \/ IsFile(file)
  BY <1>1 DEF IsRuParameters
<1>3. ParticipatingRUs(setup.zone, before, p) =
        IF id \notin DOMAIN read.sets THEN [before EXCEPT !.ok = FALSE]
        ELSE Fill(setup.zone, before, InOrder(read.sets[id]))
  BY <1>1 DEF ParticipatingRUs, FillParticipatingRUsUsingFragmentSet
<1>4. CASE id \notin DOMAIN read.sets
  <2>1. PICK rus : rus = [before EXCEPT !.ok = FALSE]
    OBVIOUS
  <2>2. rus \in RUsOf(setup.zone) /\ ~ rus.ok
    BY <2>1 DEF RUsOf
  <2> QED
    BY <1>3, <1>4, <2>1, <2>2 DEF AsAsked
<1>5. CASE id \in DOMAIN read.sets
  <2>1. read.ok
    BY <1>1, <1>2, <1>5, UnreadFile
  <2>2. file # Missing /\ IsFile(file)
    <3>1. ~ Raised.ok
      BY DEF Raised
    <3> QED
      BY <1>1, <1>2, <2>1, <3>1 DEF FragmentSets
  <2>3. PICK k, last, S : /\ k = Max({ i \in DOMAIN file : file[i].id = id })
                          /\ last = file[k].children /\ S = read.sets[id]
    OBVIOUS
  <2>4. k \in DOMAIN file
    BY <1>1, <1>5, <2>1, <2>2, <2>3, FileRead
  <2>5. S = AllGiven(last, Len(last)) /\ S \in SUBSET Int /\ IsFiniteSet(S)
    BY <1>1, <1>5, <2>1, <2>2, <2>3, FileRead
  <2>6. IsList(last)
    BY <2>2, <2>3, <2>4 DEF IsFile
  <2>7. DOMAIN last = 1..Len(last)
    BY <2>6 DEF IsList
  <2>8. PICK c, rus : c = Cardinality(S) /\ rus = Fill(setup.zone, before, InOrder(S))
    OBVIOUS
  <2>9. ListOf(InOrder(S), c) /\ NamedUpTo(InOrder(S), c) = S
    BY <2>5, <2>8, InOrderIs
  <2>10. rus \in RUsOf(setup.zone) /\ FilledWith(InOrder(S), c, setup.zone, rus)
    BY <2>8, <2>9, FillType DEF RUs
  <2>11. AskedRUs(p) = RUs \cap S
    <3>1. AskedRUs(p) = { u \in RUs : \E i \in DOMAIN last :
                            (last[i].kind = "item" /\ last[i].value = u)
                            \/ (last[i].kind = "range" /\ u \in last[i].min .. last[i].max) }
      BY <1>1, <2>3, SMTT(60) DEF AskedRUs
    <3>2. ASSUME NEW node, NEW u
          PROVE  u \in Gives(node) <=> (node.kind = "item" /\ node.value = u)
                                 \/ (node.kind = "range" /\ u \in node.min .. node.max)
      BY DEF Gives
    <3>3. \A u : u \in S <=> \E i \in DOMAIN last : u \in Gives(last[i])
      BY <2>5, <2>7 DEF AllGiven
    <3> HIDE DEF RUs
    <3> QED
      BY <3>1, <3>2, <3>3
  <2>12. ASSUME rus.ok PROVE rus.participatingRUs = AskedRUs(p) /\ AskedRUs(p) \subseteq RUs
    BY <2>9, <2>10, <2>11, <2>12 DEF FilledWith, RUs
  <2>13. ParticipatingRUs(setup.zone, before, p) = rus
    BY <1>3, <1>5, <2>3, <2>8
  <2> QED
    BY <2>10, <2>12, <2>13 DEF AsAsked
<1> QED
  BY <1>4, <1>5

LEMMA FoundAsAsked ==
  ASSUME IsFiniteSet(RUs), RUs \subseteq Nat, NEW p, IsRuParameters(p),
         NEW before, before \in RUsOf(setup.zone)
  PROVE  /\ ParticipatingRUs(setup.zone, before, p) \in RUsOf(setup.zone)
         /\ AsAsked(p, ParticipatingRUs(setup.zone, before, p))
<1>1. CASE p.useFragmentSet
  BY <1>1, AskedByFragmentSet
<1>2. CASE ~ p.useFragmentSet
  BY <1>2, AskedByInstances
<1> QED
  BY <1>1, <1>2

LEMMA AskedSMs ==
  ASSUME NEW zone, NEW p, IsList(p.smInstances), ParticipatingSMs(zone, p).ok
  PROVE  ParticipatingSMs(zone, p).participatingSMs = IF p.autoDiscoverSM THEN zone.SM ELSE Range(p.smInstances)
<1>1. CASE p.autoDiscoverSM
  BY <1>1 DEF ParticipatingSMs, DiscoverParticipatingSMs
<1>2. CASE ~ p.autoDiscoverSM
  <2>1. PICK s, n, taken : s = p.smInstances /\ n = Len(s) /\ taken = TakenSMs(zone, s)
    OBVIOUS
  <2>2. ListOf(s, n) /\ DOMAIN s = 1..n
    BY <2>1 DEF ListOf, IsList
  <2>3. TakenWith(s, n, zone, taken)
    BY <2>1, <2>2, TakenIs
  <2>4. ParticipatingSMs(zone, p) = taken
    BY <1>2, <2>1 DEF ParticipatingSMs, FillParticipatingSMsUsingSMInstances, TakenSMs, FoldLeft, MapThenFoldSet
  <2>5. NamedUpTo(s, n) = Range(s)
    BY <2>2 DEF NamedUpTo, Range
  <2> QED
    BY <1>2, <2>1, <2>3, <2>4, <2>5 DEF TakenWith
<1> QED
  BY <1>1, <1>2

\* The lists of RUs are those of applications of the zone.
PeerTypes == evmRUs \in RUsOf(setup.zone) /\ \A b \in BUs : buRUs[b] \in RUsOf(setup.zone)

LEMMA ConfigurationTypes ==
  ASSUME setup \in Setups, NEW i \in 1 .. Len(setup.configurations)
  PROVE  /\ IsFiniteSet(RUs) /\ RUs \subseteq Nat
         /\ IsRuParameters(setup.configurations[i].evm) /\ IsRuParameters(setup.configurations[i].bu)
         /\ IsList(setup.configurations[i].smInstances)
BY RoundTripAssumption DEF RUs

LEMMA ConfiguredInit == Init => ConfiguredAsAsked /\ PeerTypes
<1> SUFFICES ASSUME Init PROVE ConfiguredAsAsked /\ PeerTypes
  OBVIOUS
<1>1. NoRUs \in RUsOf(setup.zone)
  BY DEF NoRUs, RUsOf
<1> QED
  BY <1>1 DEF Init, ConfiguredAsAsked, PeerTypes

LEMMA ConfiguredKept ==
  ASSUME ConfiguredAsAsked, PeerTypes, UNCHANGED << setup, configuration, evmRUs, sms, buRUs >>,
         mode' = "Enabled" => mode = "Enabled"
  PROVE  ConfiguredAsAsked' /\ PeerTypes'
<1>1. BUs' = BUs /\ RUs' = RUs /\ Parameters' = Parameters
  BY DEF BUs, RUs, Parameters
<1>2. \A p : AskedRUs(p)' = AskedRUs(p)
  BY <1>1 DEF AskedRUs
<1>3. PeerTypes'
  BY <1>1 DEF PeerTypes
<1>4. CASE mode' # "Enabled"
  BY <1>3, <1>4 DEF ConfiguredAsAsked
<1>5. CASE mode = "Enabled"
  <2>1. /\ evmRUs.participatingRUs = AskedRUs(Parameters.evm) /\ AskedRUs(Parameters.evm) \subseteq RUs
        /\ \A b \in BUs : buRUs[b].participatingRUs = AskedRUs(Parameters.bu) /\ AskedRUs(Parameters.bu) \subseteq RUs
        /\ sms.participatingSMs = IF Parameters.autoDiscoverSM THEN setup.zone.SM ELSE Range(Parameters.smInstances)
        /\ Len(Parameters.evm.ruInstances) > Cardinality(AskedRUs(Parameters.evm)) => Parameters.evm.useFragmentSet
    BY <1>5 DEF ConfiguredAsAsked
  <2>2. AskedRUs(Parameters.evm)' = AskedRUs(Parameters.evm) /\ AskedRUs(Parameters.bu)' = AskedRUs(Parameters.bu)
    BY <1>1 DEF AskedRUs
  <2>3. ConfiguredAsAsked'
    BY <1>1, <2>1, <2>2 DEF ConfiguredAsAsked
  <2> QED
    BY <1>3, <2>3
<1> QED
  BY <1>4, <1>5

\* Configuring sets all lists, and the application works only if all of them could be set.
LEMMA ConfigureAsAsked ==
  ASSUME SetupTypes, PeerTypes, Configure
  PROVE  ConfiguredAsAsked' /\ PeerTypes'
<1>1. PICK p : p = setup.configurations[configuration + 1]
  OBVIOUS
<1>2. configuration + 1 \in 1 .. Len(setup.configurations)
  <2>1. Len(setup.configurations) \in Nat
    BY PeersAreNumbers DEF SetupTypes
  <2> QED
    BY <2>1 DEF SetupTypes, Configure
<1>3. /\ IsFiniteSet(RUs) /\ RUs \subseteq Nat /\ IsRuParameters(p.evm) /\ IsRuParameters(p.bu) /\ IsList(p.smInstances)
  BY <1>1, <1>2, ConfigurationTypes DEF SetupTypes
<1>4. /\ configuration' = configuration + 1 /\ setup' = setup
      /\ evmRUs' = ParticipatingRUs(setup.zone, evmRUs, p.evm)
      /\ sms' = ParticipatingSMs(setup.zone, p)
      /\ buRUs' = [b \in BUs |-> ParticipatingRUs(setup.zone, buRUs[b], p.bu)]
      /\ mode' = IF Configurable(p, evmRUs', sms', buRUs') THEN "Enabled" ELSE "Failed"
  BY <1>1 DEF Configure
<1>5. Parameters' = p /\ RUs' = RUs /\ BUs' = BUs
  BY <1>1, <1>4 DEF Parameters, RUs, BUs
<1>6. AskedRUs(p.evm)' = AskedRUs(p.evm) /\ AskedRUs(p.bu)' = AskedRUs(p.bu)
  BY <1>5 DEF AskedRUs
<1>7. evmRUs' \in RUsOf(setup.zone) /\ AsAsked(p.evm, evmRUs')
  BY <1>3, <1>4, FoundAsAsked DEF PeerTypes
<1>8. ASSUME NEW b \in BUs PROVE buRUs'[b] \in RUsOf(setup.zone) /\ AsAsked(p.bu, buRUs'[b])
  <2>1. buRUs'[b] = ParticipatingRUs(setup.zone, buRUs[b], p.bu)
    BY <1>4
  <2> QED
    BY <1>3, <2>1, FoundAsAsked DEF PeerTypes
<1>9. PeerTypes'
  BY <1>4, <1>5, <1>7, <1>8 DEF PeerTypes
<1>10. CASE ~ Configurable(p, evmRUs', sms', buRUs')
  BY <1>4, <1>9, <1>10 DEF ConfiguredAsAsked
<1>11. CASE Configurable(p, evmRUs', sms', buRUs')
  <2>1. evmRUs'.ok /\ sms'.ok /\ \A b \in BUs : buRUs'[b].ok
    BY <1>11 DEF Configurable
  <2>2. /\ evmRUs'.participatingRUs = AskedRUs(p.evm) /\ AskedRUs(p.evm) \subseteq RUs
        /\ Len(p.evm.ruInstances) > Cardinality(AskedRUs(p.evm)) => p.evm.useFragmentSet
    BY <1>7, <2>1 DEF AsAsked
  <2>3. \A b \in BUs : buRUs'[b].participatingRUs = AskedRUs(p.bu) /\ AskedRUs(p.bu) \subseteq RUs
    BY <1>8, <2>1 DEF AsAsked
  <2>4. sms'.participatingSMs = IF p.autoDiscoverSM THEN setup.zone.SM ELSE Range(p.smInstances)
    BY <1>3, <1>4, <2>1, AskedSMs
  <2>5. ConfiguredAsAsked'
    BY <1>4, <1>5, <1>6, <2>2, <2>3, <2>4 DEF ConfiguredAsAsked
  <2> QED
    BY <1>9, <2>5
<1> QED
  BY <1>10, <1>11

LEMMA ConfiguredNext ==
  ASSUME SetupTypes, ConfiguredAsAsked, PeerTypes, [Next]_vars
  PROVE  ConfiguredAsAsked' /\ PeerTypes'
<1>1. CASE Configure
  BY <1>1, ConfigureAsAsked
<1>2. CASE ~ Configure
  <2>1. /\ UNCHANGED << setup, configuration, evmRUs, sms, buRUs >>
        /\ mode' = "Enabled" => mode = "Enabled"
    BY <1>2 DEF Next, vars, participants, Halt, TakeTrigger, SendOldEvBids, ProcessNextReleasedEvent, ServiceBuRqst,
         RuReadout, ProcessTrigger, RuSend, BuCache, AllocateClear, BuConfirm, StartConstruction,
         AppendSuperFragment, SendOldEvmRequests, SendOldRuRequests
  <2> QED
    BY <2>1, ConfiguredKept
<1> QED
  BY <1>1, <1>2

\* Whatever they worked with before, EVM and BUs that have been configured work with the RUs and
\* the storage managers that the parameters ask for: all of them are in the zone and none was
\* asked for twice, or the configuration failed.
THEOREM ConfiguredCorrect == Spec => []ConfiguredAsAsked
<1> DEFINE Inv == Types /\ ConfiguredAsAsked /\ PeerTypes
<1>1. Init => Inv
  BY TypesInit, ConfiguredInit
<1>2. Inv /\ [Next]_vars => Inv'
  BY TypesNext, ConfiguredNext DEF Types
<1>3. Inv => ConfiguredAsAsked
  OBVIOUS
<1> QED
  BY <1>1, <1>2, <1>3, PTL DEF Spec

\* The lists of a BU that works are those that were asked for.
LEMMA ListsAreFinite ==
  ASSUME Types, ConfiguredAsAsked
  PROVE  FiniteLists
<1>1. mode = "Enabled" => \A b \in BUs : Participating(b) \subseteq RUs
  BY DEF ConfiguredAsAsked, Participating
<1>2. IsFiniteSet(RUs)
  BY PeersAreNumbers DEF Types, SetupTypes
<1> QED
  BY <1>1, <1>2, FS_Subset DEF FiniteLists

LEMMA BuiltInit == Init => BuiltFromAllRUs
BY DEF Init, BuiltFromAllRUs

LEMMA BuiltNext ==
  ASSUME ConfiguredAsAsked, BuiltFromAllRUs, [Next]_vars, OnlyPosts, BuiltWell
  PROVE  BuiltFromAllRUs'
<1>1. UNCHANGED setup
  BY DEF Next, vars, participants, Configure, Halt, TakeTrigger, SendOldEvBids, ProcessNextReleasedEvent, ServiceBuRqst,
         RuReadout, ProcessTrigger, RuSend, BuCache, AllocateClear, BuConfirm, StartConstruction,
         AppendSuperFragment, SendOldEvmRequests, SendOldRuRequests
<1>2. \A p : AskedRUs(p)' = AskedRUs(p)
  BY <1>1 DEF AskedRUs, RUs
<1>3. \A f \in failures' : f.why = "post"
  <2>1. CASE UNCHANGED failures
    BY <2>1 DEF BuiltFromAllRUs
  <2>2. ASSUME NEW app, Fail(app, "post") PROVE \A f \in failures' : f.why = "post"
    BY <2>2 DEF Fail, BuiltFromAllRUs
  <2> QED
    BY <2>1, <2>2 DEF OnlyPosts
<1>4. \A e \in built' : e.superFragments = [ru : AskedRUs(setup.configurations[e.run].bu), evbId : {e.evbId}]
  <2>1. CASE built' = built
    BY <2>1 DEF BuiltFromAllRUs
  <2>2. ASSUME mode = "Enabled", NEW b \in BUs, BuildsAll(b), built' # built
        PROVE  \A e \in built' : e.superFragments = [ru : AskedRUs(setup.configurations[e.run].bu), evbId : {e.evbId}]
    <3>1. PICK id, x : /\ x = [run |-> configuration, evbId |-> id, superFragments |-> [ru : Participating(b), evbId : {id}]]
                       /\ built' = built \cup {x}
      BY <2>2 DEF BuildsAll
    <3>2. Participating(b) = AskedRUs(setup.configurations[configuration].bu)
      BY <2>2 DEF ConfiguredAsAsked, Participating, Parameters
    <3>3. x.superFragments = [ru : Participating(b), evbId : {x.evbId}] /\ x.run = configuration
      BY <3>1
    <3>4. x.superFragments = [ru : AskedRUs(setup.configurations[x.run].bu), evbId : {x.evbId}]
      BY <3>2, <3>3
    <3> QED
      BY <3>1, <3>4 DEF BuiltFromAllRUs
  <2> QED
    BY <2>1, <2>2 DEF BuiltWell
<1> QED
  BY <1>1, <1>2, <1>3, <1>4 DEF BuiltFromAllRUs

\* Every event that is built holds the super-fragment of its trigger from each RU that its BU was
\* told to ask, and of no other, and nobody fails but for an RU that is out of reach.
THEOREM BuiltCorrect == Spec => []BuiltFromAllRUs
<1> DEFINE Inv == /\ Types /\ OrderInv /\ IdInv /\ CountInv /\ WayInv
                  /\ ConfiguredAsAsked /\ PeerTypes /\ BuiltFromAllRUs
<1>1. Init => Inv
  BY TypesInit, OrderInit, IdInit, CountInit, WayInit, ConfiguredInit, BuiltInit
<1>2. Inv /\ [Next]_vars => Inv'
  BY TypesNext, OrderNext, IdNext, CountNext, WayNext, BuiltNext, ListsAreFinite, ConfiguredNext DEF Types
<1>3. Inv => BuiltFromAllRUs
  OBVIOUS
<1> QED
  BY <1>1, <1>2, <1>3, PTL DEF Spec
=============================================================================
