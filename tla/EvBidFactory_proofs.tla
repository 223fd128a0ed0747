------------------------ MODULE EvBidFactory_proofs ------------------------
(***************************************************************************)
(* Facts about the event-builder identifiers and the factory issuing them. *)
(***************************************************************************)
EXTENDS EvBidFactory, Sequences, FiniteSetTheorems, WellFoundedInduction, TLAPS

\* A factory keeps its type and issues identifiers (EvBidFactory::getEvBid).
LEMMA GetEvBidType ==
  ASSUME NEW factory \in Factory, NEW n \in Nat
  PROVE  /\ GetEvBid(factory, n) \in EvBid
         /\ AfterGetEvBid(factory, n) \in Factory
         /\ LastEvBid(AfterGetEvBid(factory, n)) = GetEvBid(factory, n)
BY DEF Factory, EvBid, GetEvBid, AfterGetEvBid, ResyncCountFor, LastEvBid

\* EvBid::operator< is a strict order, so that EvBid can be a key of std::map.
LEMMA EvBidLessStrict ==
  ASSUME NEW a \in EvBid, NEW b \in EvBid, NEW c \in EvBid
  PROVE  /\ ~ EvBidLess(a, a)
         /\ EvBidLess(a, b) /\ EvBidLess(b, c) => EvBidLess(a, c)
         /\ a = b \/ EvBidLess(a, b) \/ EvBidLess(b, a)
BY DEF EvBid, EvBidLess

\* Whatever trigger number arrives, the identifier getEvBid returns is larger
\* than the one it returned before: the identifiers of a run never repeat.
THEOREM EvBidsStrictlyIncrease ==
  ASSUME NEW factory \in Factory, NEW n \in Nat
  PROVE  EvBidLess(LastEvBid(factory), GetEvBid(factory, n))
BY DEF Factory, EvBidLess, GetEvBid, ResyncCountFor, LastEvBid

-----------------------------------------------------------------------------
(***************************************************************************)
(* The identifiers of a whole run.  A factory that was given the numbers   *)
(* 1..k of a run is in a state that has a closed form: the resync count is *)
(* the number of positions at which the number did not increase.           *)
(***************************************************************************)
PreviousNumber(numbers, k) == IF k = 0 THEN 0 ELSE numbers[k]
Resyncs(numbers, k) == { i \in 1..k : numbers[i] <= PreviousNumber(numbers, i - 1) }
FactoryAfter(numbers, k) ==
  [previousEventNumber |-> PreviousNumber(numbers, k), resyncCount |-> Cardinality(Resyncs(numbers, k))]
EvBidOf(numbers, k) == LastEvBid(FactoryAfter(numbers, k))

\* Every set of natural numbers that has an element has a smallest one: what
\* stands here for induction.  The sets 1..n of its elements have a minimal one.
LEMMA Least ==
  ASSUME NEW T, T \subseteq Nat, T # {}
  PROVE  \E m \in T : \A n \in T : m <= n
<1> DEFINE R == StrictSubsetOrdering(Nat)
           U == { 1..n : n \in T }
<1>1. IsWellFoundedOn(R, FiniteSubsetsOf(Nat))
  BY FS_StrictSubsetOrderingWellFounded
<1>2. U \subseteq FiniteSubsetsOf(Nat) /\ U # {}
  <2>1. ASSUME NEW n \in T
        PROVE  1..n \in FiniteSubsetsOf(Nat)
    <3>1. IsFiniteSet(1..n)
      BY FS_Interval
    <3>2. 1..n \subseteq Nat
      OBVIOUS
    <3> QED
      BY <3>1, <3>2 DEF FiniteSubsetsOf
  <2> QED
    BY <2>1
<1> HIDE DEF R
<1>3. PICK X \in U : \A Y \in U : ~ (<<Y, X>> \in R)
  <2> HIDE DEF U
  <2> QED
    BY <1>1, <1>2, WFMin, Zenon
<1>4. PICK m \in T : X = 1..m
  BY <1>3
<1>5. ASSUME NEW n \in T, n < m
      PROVE  FALSE
  <2>1. 1..n \subseteq 1..m /\ 1..n # 1..m /\ 1..n \in SUBSET Nat /\ 1..m \in SUBSET Nat
    <3>1. m \in 1..m /\ m \notin 1..n
      BY <1>5
    <3> QED
      BY <1>5, <3>1
  <2>2. <<1..n, 1..m>> \in R
    BY <2>1 DEF R, StrictSubsetOrdering
  <2> QED
    BY <1>3, <1>4, <1>5, <2>2
<1> QED
  BY <1>5

LEMMA FactoryAfterType ==
  ASSUME NEW numbers \in Seq(Nat), NEW k \in 0..Len(numbers)
  PROVE  /\ PreviousNumber(numbers, k) \in Nat
         /\ IsFiniteSet(Resyncs(numbers, k))
         /\ FactoryAfter(numbers, k) \in Factory
         /\ EvBidOf(numbers, k) \in EvBid
         /\ EvBidOf(numbers, k).eventNumber = PreviousNumber(numbers, k)
<1>1. PreviousNumber(numbers, k) \in Nat
  <2>1. k # 0 => k \in 1..Len(numbers)
    OBVIOUS
  <2> QED
    BY <2>1 DEF PreviousNumber
<1>2. IsFiniteSet(Resyncs(numbers, k)) /\ Cardinality(Resyncs(numbers, k)) \in Nat
  <2>1. IsFiniteSet(1..k)
    BY FS_Interval
  <2> QED
    BY <2>1, FS_Subset, FS_CardinalityType DEF Resyncs
<1> QED
  BY <1>1, <1>2 DEF FactoryAfter, Factory, EvBidOf, LastEvBid, EvBid

\* A new factory has seen nothing, and one that has seen the numbers before k and
\* is given number k has then seen k numbers, and issued the identifier of k.
LEMMA FactoryOfRun ==
  ASSUME NEW numbers \in Seq(Nat)
  PROVE  /\ FactoryAfter(numbers, 0) = NewEvBidFactory
         /\ \A k \in 1..Len(numbers) :
              /\ AfterGetEvBid(FactoryAfter(numbers, k - 1), numbers[k]) = FactoryAfter(numbers, k)
              /\ GetEvBid(FactoryAfter(numbers, k - 1), numbers[k]) = EvBidOf(numbers, k)
<1>1. FactoryAfter(numbers, 0) = NewEvBidFactory
  <2>1. Resyncs(numbers, 0) = {}
    BY DEF Resyncs
  <2> QED
    BY <2>1, FS_EmptySet DEF FactoryAfter, PreviousNumber, NewEvBidFactory
<1>2. ASSUME NEW k \in 1..Len(numbers)
      PROVE  AfterGetEvBid(FactoryAfter(numbers, k - 1), numbers[k]) = FactoryAfter(numbers, k)
  <2>1. k - 1 \in 0..Len(numbers) /\ k - 1 \in Nat /\ numbers[k] \in Nat /\ k # 0
    OBVIOUS
  <2>2. 1..k = 1..(k - 1) \cup {k} /\ k \notin 1..(k - 1)
    BY <2>1
  <2>3. /\ IsFiniteSet(Resyncs(numbers, k - 1))
        /\ Cardinality(Resyncs(numbers, k - 1)) \in Nat
        /\ PreviousNumber(numbers, k - 1) \in Nat
    BY <2>1, FactoryAfterType, FS_CardinalityType
  <2>4. Resyncs(numbers, k) = Resyncs(numbers, k - 1)
          \cup (IF numbers[k] <= PreviousNumber(numbers, k - 1) THEN {k} ELSE {})
    BY <2>2 DEF Resyncs
  <2>5. Cardinality(Resyncs(numbers, k)) = Cardinality(Resyncs(numbers, k - 1))
          + (IF numbers[k] <= PreviousNumber(numbers, k - 1) THEN 1 ELSE 0)
    <3>1. k \notin Resyncs(numbers, k - 1)
      BY <2>2 DEF Resyncs
    <3>2. Cardinality(Resyncs(numbers, k - 1) \cup {k}) = Cardinality(Resyncs(numbers, k - 1)) + 1
      BY <2>3, <3>1, FS_AddElement
    <3>3. CASE numbers[k] <= PreviousNumber(numbers, k - 1)
      BY <2>4, <3>2, <3>3
    <3>4. CASE ~ (numbers[k] <= PreviousNumber(numbers, k - 1))
      <4>1. Resyncs(numbers, k) = Resyncs(numbers, k - 1)
        BY <2>4, <3>4
      <4> QED
        BY <2>3, <3>4, <4>1
    <3> QED
      BY <3>3, <3>4
  <2>6. PreviousNumber(numbers, k) = numbers[k]
    BY <2>1 DEF PreviousNumber
  <2> QED
    BY <2>5, <2>6 DEF FactoryAfter, AfterGetEvBid, ResyncCountFor
<1>3. ASSUME NEW k \in 1..Len(numbers)
      PROVE  GetEvBid(FactoryAfter(numbers, k - 1), numbers[k]) = EvBidOf(numbers, k)
  <2>1. k - 1 \in 0..Len(numbers) /\ numbers[k] \in Nat
    OBVIOUS
  <2>2. LastEvBid(AfterGetEvBid(FactoryAfter(numbers, k - 1), numbers[k]))
          = GetEvBid(FactoryAfter(numbers, k - 1), numbers[k])
    BY <2>1, FactoryAfterType, GetEvBidType
  <2> QED
    BY <1>2, <2>2 DEF EvBidOf
<1> QED
  BY <1>1, <1>2, <1>3

\* The identifiers of a run grow from each event to every later one ...
LEMMA EvBidsGrow ==
  ASSUME NEW numbers \in Seq(Nat), NEW j \in 1..Len(numbers), NEW k \in 1..Len(numbers), j < k
  PROVE  EvBidLess(EvBidOf(numbers, j), EvBidOf(numbers, k))
<1> DEFINE T == { i \in 1..Len(numbers) : j < i /\ ~ EvBidLess(EvBidOf(numbers, j), EvBidOf(numbers, i)) }
<1> SUFFICES ASSUME T # {} PROVE FALSE
  OBVIOUS
<1>1. PICK m \in T : \A n \in T : m <= n
  <2>1. T \subseteq Nat
    OBVIOUS
  <2> HIDE DEF T
  <2> QED
    BY <2>1, Least
<1>2. m - 1 \in 1..Len(numbers) /\ m \in 1..Len(numbers) /\ numbers[m] \in Nat
  OBVIOUS
<1>3. EvBidLess(EvBidOf(numbers, m - 1), EvBidOf(numbers, m))
  <2>1. FactoryAfter(numbers, m - 1) \in Factory
    BY <1>2, FactoryAfterType
  <2>2. EvBidLess(LastEvBid(FactoryAfter(numbers, m - 1)), GetEvBid(FactoryAfter(numbers, m - 1), numbers[m]))
    BY <1>2, <2>1, EvBidsStrictlyIncrease
  <2> QED
    BY <1>2, <2>2, FactoryOfRun DEF EvBidOf
<1>4. EvBidOf(numbers, j) \in EvBid /\ EvBidOf(numbers, m - 1) \in EvBid /\ EvBidOf(numbers, m) \in EvBid
  BY <1>2, FactoryAfterType
<1>5. m - 1 = j \/ EvBidLess(EvBidOf(numbers, j), EvBidOf(numbers, m - 1))
  BY <1>1, <1>2
<1> QED
  BY <1>3, <1>4, <1>5, EvBidLessStrict

\* ... so that no two events of a run share an identifier, however often and
\* wherever the trigger numbers start again.
THEOREM EvBidsNeverRepeat ==
  ASSUME NEW numbers \in Seq(Nat), NEW j \in 1..Len(numbers), NEW k \in 1..Len(numbers),
         EvBidOf(numbers, j) = EvBidOf(numbers, k)
  PROVE  j = k
<1>1. EvBidOf(numbers, j) \in EvBid
  BY FactoryAfterType
<1>2. ~ (j < k) /\ ~ (k < j)
  BY <1>1, EvBidsGrow, EvBidLessStrict
<1> QED
  BY <1>2
=============================================================================
