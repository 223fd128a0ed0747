--------------------------- MODULE TestRun_proofs ---------------------------
(***************************************************************************)
(* What holds of a test run for every size of the queues and of the        *)
(* messages, whatever applications there are and whatever goes wrong: the  *)
(* types, the conservation of what the two ends of the chain are promised, *)
(* that nothing of an earlier test is left in a started one, and that a    *)
(* started test runs.                                                      *)
(*                                                                         *)
(* The invariant has two parts. The data (DataInv): types, what is counted *)
(* and where each event is. It needs to know which command comes when, and *)
(* that is the second part (ControlInv): the tester is at one of 27 places *)
(* of its two scripts, each of which tells the states of the applications  *)
(* and the tests of the messages; or TA or FU has failed and it gave up    *)
(* starting; or the FU is gone and it gave up stopping.                    *)
(***************************************************************************)
EXTENDS TestRun, FiniteSetTheorems, SequenceTheorems, WellFoundedInduction, TLAPS

-----------------------------------------------------------------------------
(* Induction over positions, folds, and sums.                              *)

\* Every set of natural numbers that has an element has a smallest one: what
\* stands here for induction.  The sets 1..n of its elements have a minimal one.
LEMMA Least ==
  ASSUME NEW T, T \subseteq Nat, T # {}
  PROVE  \E m \in T : \A n \in T : m <= n
<1> DEFINE R == StrictSubsetOrdering(Nat)
           U == { 1..n : n \in T }
<1>1. IsWellFoundedOn(R, FiniteSubsetsOf(Nat))
  BY FS_StrictSubsetOrderingWellFounded
<1>2. U \subseteq FiniteSubsetsOf(Nat) /\ U # {}
  <2>1. ASSUME NEW n \in T
        PROVE  1..n \in FiniteSubsetsOf(Nat)
    <3>1. IsFiniteSet(1..n)
      BY FS_Interval
    <3>2. 1..n \subseteq Nat
      OBVIOUS
    <3> QED
      BY <3>1, <3>2 DEF FiniteSubsetsOf
  <2> QED
    BY <2>1
<1> HIDE DEF R
<1>3. PICK X \in U : \A Y \in U : ~ (<<Y, X>> \in R)
  <2> HIDE DEF U
  <2> QED
    BY <1>1, <1>2, WFMin, Zenon
<1>4. PICK m \in T : X = 1..m
  BY <1>3
<1>5. ASSUME NEW n \in T, n < m
      PROVE  FALSE
  <2>1. 1..n \subseteq 1..m /\ 1..n # 1..m /\ 1..n \in SUBSET Nat /\ 1..m \in SUBSET Nat
    <3>1. m \in 1..m /\ m \notin 1..n
      BY <1>5
    <3> QED
      BY <1>5, <3>1
  <2>2. <<1..n, 1..m>> \in R
    BY <2>1 DEF R, StrictSubsetOrdering
  <2> QED
    BY <1>3, <1>4, <1>5, <2>2
<1> QED
  BY <1>5

\* The largest of some of the numbers up to k.
LEMMA MaxOf ==
  ASSUME NEW k \in Nat, NEW t \in SUBSET (1..k), t # {}
  PROVE  Max(t) \in t /\ \A x \in t : x <= Max(t)
<1> DEFINE Distances == { k - x : x \in t }
<1>1. Distances \subseteq Nat /\ Distances # {}
  <2>1. \A x \in t : k - x \in Nat
    OBVIOUS
  <2>2. PICK x \in t : TRUE
    OBVIOUS
  <2>3. k - x \in Distances
    BY <2>2
  <2>4. Distances \subseteq Nat
    BY <2>1
  <2> QED
    BY <2>3, <2>4
<1>2. PICK d \in Distances : \A e \in Distances : d <= e
  BY <1>1, Least
<1>3. PICK m \in t : d = k - m
  BY <1>2
<1>4. \A x \in t : x <= m
  BY <1>2, <1>3
<1>5. \E x \in t : \A y \in t : x >= y
  BY <1>4
<1> QED
  BY <1>5 DEF Max

\* A recursive function on the sets of positions, as FoldLeft defines one, exists.
Folds(it, V, base, n, op) ==
  /\ it \in [SUBSET (1..n) -> V]
  /\ it = [t \in SUBSET (1..n) |-> IF t = {} THEN base ELSE op[<<it[t \ {Max(t)}], Max(t)>>]]

LEMMA FoldExists ==
  ASSUME NEW V, NEW base \in V, NEW n \in Nat, NEW op \in [V \X (1..n) -> V]
  PROVE  \E it : Folds(it, V, base, n, op)
<1> DEFINE Is(it, k) == Folds(it, V, base, k, op)
           Bad == { k \in 0..n : ~ \E it : Is(it, k) }
<1>1. ASSUME Bad = {}
      PROVE  \E it : Is(it, n)
  <2> HIDE DEF Is
  <2> QED
    BY <1>1
<1>2. SUFFICES ASSUME Bad # {} PROVE FALSE
  BY <1>1
<1>3. PICK k \in Bad : \A j \in Bad : k <= j
  <2>1. Bad \subseteq Nat
    OBVIOUS
  <2> HIDE DEF Bad
  <2> QED
    BY <1>2, <2>1, Least
<1>4. Is([t \in SUBSET (1..0) |-> base], 0)
  <2>1. SUBSET (1..0) = {{}}
    OBVIOUS
  <2> QED
    BY <2>1 DEF Folds
<1>5. k # 0
  BY <1>3, <1>4
<1>6. PICK it : Is(it, k - 1)
  <2> HIDE DEF Is
  <2>1. k - 1 \in 0..n /\ ~ (k <= k - 1)
    BY <1>3, <1>5
  <2>2. k - 1 \notin Bad
    BY <1>3, <2>1
  <2> QED
    BY <2>1, <2>2
<1> DEFINE new == [t \in SUBSET (1..k) |-> IF t \subseteq 1..(k - 1) THEN it[t] ELSE op[<<it[t \ {k}], k>>]]
<1>7. ASSUME NEW t \in SUBSET (1..k)
      PROVE  new[t] \in V /\ new[t] = IF t = {} THEN base ELSE op[<<new[t \ {Max(t)}], Max(t)>>]
  <2>1. CASE t \subseteq 1..(k - 1)
    <3>1. new[t] = it[t] /\ it[t] \in V
      BY <1>6, <2>1 DEF Folds
    <3>2. it[t] = IF t = {} THEN base ELSE op[<<it[t \ {Max(t)}], Max(t)>>]
      BY <1>6, <2>1 DEF Folds
    <3>3. t \ {Max(t)} \in SUBSET (1..k) /\ t \ {Max(t)} \subseteq 1..(k - 1)
      BY <2>1
    <3>4. new[t \ {Max(t)}] = it[t \ {Max(t)}]
      BY <3>3
    <3> QED
      BY <3>1, <3>2, <3>4
  <2>2. CASE ~ (t \subseteq 1..(k - 1))
    <3>1. k \in t /\ t # {} /\ k \in 1..n
      BY <2>2, <1>3, <1>5
    <3>2. Max(t) = k
      <4>1. k \in Nat /\ t \in SUBSET (1..k)
        BY <1>3
      <4>2. \A x \in t : x \in Nat /\ x <= k
        BY <4>1
      <4>3. Max(t) \in t /\ \A x \in t : x <= Max(t)
        BY <3>1, <4>1, MaxOf
      <4> QED
        <5>1. Max(t) \in Nat /\ Max(t) <= k /\ k <= Max(t)
          BY <3>1, <4>3, <4>2
        <5> QED
          BY <4>1, <5>1
    <3>3. t \ {k} \subseteq 1..(k - 1) /\ t \ {k} \in SUBSET (1..k)
      OBVIOUS
    <3>4. new[t \ {k}] = it[t \ {k}] /\ it[t \ {k}] \in V
      BY <3>3, <1>6 DEF Folds
    <3>5. new[t] = op[<<it[t \ {k}], k>>]
      BY <2>2
    <3> QED
      BY <3>1, <3>2, <3>4, <3>5
  <2> QED
    BY <2>1, <2>2
<1>8. new \in [SUBSET (1..k) -> V]
  BY <1>7
<1> HIDE DEF new
<1>9. new = [t \in SUBSET (1..k) |-> IF t = {} THEN base ELSE op[<<new[t \ {Max(t)}], Max(t)>>]]
  BY <1>7, <1>8
<1>10. Is(new, k)
  BY <1>8, <1>9 DEF Folds
<1> QED
  BY <1>3, <1>10

\* The sets of the first positions.
LEMMA FirstPositions ==
  ASSUME NEW n \in Nat, NEW i \in 1..n
  PROVE  /\ 1..i \in SUBSET (1..n) /\ 1..i # {} /\ Max(1..i) = i /\ (1..i) \ {i} = 1..(i - 1)
<1>1. 1..i \in SUBSET (1..n) /\ i \in 1..i /\ (1..i) \ {i} = 1..(i - 1)
  OBVIOUS
<1>2. Max(1..i) \in 1..i /\ i <= Max(1..i)
  BY <1>1, MaxOf
<1> QED
  BY <1>1, <1>2

\* Induction over positions: what holds of 0, and of each that follows one it holds of.
LEMMA UpTo ==
  ASSUME NEW n \in Nat, NEW P, 0 \in P, \A i \in 1..n : i - 1 \in P => i \in P
  PROVE  \A i \in 0..n : i \in P
<1> DEFINE Bad == { i \in 0..n : i \notin P }
<1>1. SUFFICES ASSUME Bad # {} PROVE FALSE
  OBVIOUS
<1>2. PICK i \in Bad : \A j \in Bad : i <= j
  <2>1. Bad \subseteq Nat
    OBVIOUS
  <2> HIDE DEF Bad
  <2> QED
    BY <1>1, <2>1, Least
<1>3. i \in 1..n /\ i - 1 \in 0..n /\ ~ (i <= i - 1)
  BY <1>2
<1>4. i - 1 \in P
  BY <1>2, <1>3
<1> QED
  BY <1>2, <1>3, <1>4

\* The sum of the numbers in a sequence of messages.
SumOf(messages) == FoldLeft(LAMBDA sum, m : sum + m.n, 0, messages)

Numbered(s, n) == n \in Nat /\ DOMAIN s = 1..n /\ \A i \in 1..n : s[i].n \in Nat

\* The sums of the first messages.
Sums(at, s, n) == at \in [0..n -> Nat] /\ at[0] = 0 /\ \A i \in 1..n : at[i] = at[i - 1] + s[i].n

\* How messages are summed up, one after the other.
LEMMA SumSteps ==
  ASSUME NEW s, NEW n, Numbered(s, n)
  PROVE  \E at : Sums(at, s, n) /\ SumOf(s) = at[n]
<1> USE DEF Numbered
<1> DEFINE op == [x \in Nat \X (1..n) |-> x[1] + s[x[2]].n]
           Is(it) == it = [t \in SUBSET (DOMAIN s) |->
                             IF t = {} THEN 0 ELSE it[t \ {Max(t)}] + s[Max(t)].n]
           c == CHOOSE it : Is(it)
           at == [i \in 0..n |-> c[1..i]]
<1>1. ASSUME NEW v \in Nat, NEW i \in 1..n PROVE v + s[i].n \in Nat
  OBVIOUS
<1>2. op \in [Nat \X (1..n) -> Nat] /\ 0 \in Nat
  BY <1>1
<1>3. \E it : Is(it)
  <2> HIDE DEF op
  <2>1. PICK it : Folds(it, Nat, 0, n, op)
    BY <1>2, FoldExists
  <2> USE DEF op
  <2>2. ASSUME NEW t \in SUBSET (1..n), t # {}
        PROVE  op[<<it[t \ {Max(t)}], Max(t)>>] = it[t \ {Max(t)}] + s[Max(t)].n
    <3>1. Max(t) \in 1..n /\ t \ {Max(t)} \in SUBSET (1..n)
      BY <2>2, MaxOf
    <3>2. it[t \ {Max(t)}] \in Nat
      BY <2>1, <3>1 DEF Folds
    <3> QED
      BY <3>1, <3>2
  <2> HIDE DEF op
  <2>3. it = [t \in SUBSET (1..n) |-> IF t = {} THEN 0 ELSE op[<<it[t \ {Max(t)}], Max(t)>>]]
    BY <2>1 DEF Folds
  <2>4. Is(it)
    BY <2>2, <2>3
  <2> HIDE DEF Is
  <2> QED
    BY <2>4
<1>4. Is(c)
  BY <1>3
<1>5. SumOf(s) = c[1..n]
  BY DEF SumOf, FoldLeft, MapThenFoldSet
<1> HIDE DEF c
<1>6. at[0] = 0
  <2>1. 1..0 = {} /\ {} \in SUBSET (DOMAIN s)
    OBVIOUS
  <2> QED
    BY <1>4, <2>1
<1>7. ASSUME NEW i \in 1..n PROVE at[i] = at[i - 1] + s[i].n
  <2>1. /\ 1..i \in SUBSET (1..n) /\ 1..i # {} /\ Max(1..i) = i /\ (1..i) \ {i} = 1..(i - 1)
        /\ i \in 0..n /\ i - 1 \in 0..n
    BY FirstPositions
  <2>2. c[1..i] = IF 1..i = {} THEN 0 ELSE c[(1..i) \ {Max(1..i)}] + s[Max(1..i)].n
    BY <1>4, <2>1
  <2> QED
    BY <2>1, <2>2
<1>8. at[n] = c[1..n] /\ DOMAIN at = 0..n /\ at = [i \in 0..n |-> at[i]]
  OBVIOUS
<1> HIDE DEF at
<1>9. \A i \in 0..n : at[i] \in Nat
  <2> DEFINE P == { i \in 0..n : at[i] \in Nat }
  <2>1. 0 \in P
    BY <1>2, <1>6
  <2>2. ASSUME NEW i \in 1..n, i - 1 \in P PROVE i \in P
    BY <1>1, <1>7, <2>2
  <2> HIDE DEF P
  <2>3. \A i \in 0..n : i \in P
    BY <2>1, <2>2, UpTo
  <2> USE DEF P
  <2> QED
    BY <2>3
<1>10. at \in [0..n -> Nat]
  BY <1>8, <1>9
<1> QED
  BY <1>5, <1>6, <1>7, <1>8, <1>10 DEF Sums

LEMMA SumUnique ==
  ASSUME NEW s, NEW n, Numbered(s, n), NEW t, NEW k, Numbered(t, k), k <= n,
         \A i \in 1..k : s[i].n = t[i].n,
         NEW f, Sums(f, s, n), NEW g, Sums(g, t, k)
  PROVE  f[k] = g[k]
<1> DEFINE P == { i \in 0..k : f[i] = g[i] }
<1>1. k \in Nat /\ n \in Nat
  BY DEF Numbered
<1>2. 0 \in P
  BY <1>1 DEF Sums
<1>3. ASSUME NEW i \in 1..k, i - 1 \in P PROVE i \in P
  <2>1. i \in 1..n /\ i \in 0..k /\ f[i - 1] = g[i - 1]
    BY <1>1, <1>3
  <2> QED
    BY <2>1 DEF Sums
<1> HIDE DEF P
<1>4. k \in P
  BY <1>1, <1>2, <1>3, UpTo
<1> USE DEF P
<1> QED
  BY <1>4

LEMMA SumType ==
  ASSUME NEW s, NEW n, Numbered(s, n)
  PROVE  SumOf(s) \in Nat
<1>1. PICK at : Sums(at, s, n) /\ SumOf(s) = at[n]
  BY SumSteps
<1>2. n \in 0..n
  BY DEF Numbered
<1> QED
  BY <1>1, <1>2 DEF Sums

LEMMA SumEmpty ==
  SumOf(<< >>) = 0
<1>1. Numbered(<< >>, 0)
  BY DEF Numbered
<1> QED
  BY <1>1, SumSteps DEF Sums

LEMMA SumSame ==
  ASSUME NEW s, NEW n, Numbered(s, n), NEW t, Numbered(t, n), \A i \in 1..n : s[i].n = t[i].n
  PROVE  SumOf(t) = SumOf(s)
<1>1. PICK f : Sums(f, s, n) /\ SumOf(s) = f[n]
  BY SumSteps
<1>2. PICK g : Sums(g, t, n) /\ SumOf(t) = g[n]
  BY SumSteps
<1>3. n <= n
  BY DEF Numbered
<1>4. f[n] = g[n]
  BY <1>1, <1>2, <1>3, SumUnique
<1> QED
  BY <1>1, <1>2, <1>4

LEMMA SumAppend ==
  ASSUME NEW s, NEW n, Numbered(s, n), NEW t, Numbered(t, n + 1), \A i \in 1..n : t[i].n = s[i].n
  PROVE  SumOf(t) = SumOf(s) + t[n + 1].n
<1>1. PICK f : Sums(f, s, n) /\ SumOf(s) = f[n]
  BY SumSteps
<1>2. PICK g : Sums(g, t, n + 1) /\ SumOf(t) = g[n + 1]
  BY SumSteps
<1>3. n \in Nat /\ n <= n + 1 /\ n + 1 \in 1..(n + 1) /\ (n + 1) - 1 = n
  BY DEF Numbered
<1>4. g[n] = f[n]
  BY <1>1, <1>2, <1>3, SumUnique
<1>5. g[n + 1] = g[(n + 1) - 1] + t[n + 1].n
  BY <1>2, <1>3 DEF Sums
<1> QED
  BY <1>1, <1>2, <1>3, <1>4, <1>5

LEMMA SumTail ==
  ASSUME NEW s, NEW n, n \in Nat, Numbered(s, n + 1), NEW t, Numbered(t, n), \A i \in 1..n : t[i].n = s[i + 1].n
  PROVE  SumOf(s) = s[1].n + SumOf(t)
<1>1. PICK f : Sums(f, s, n + 1) /\ SumOf(s) = f[n + 1]
  BY SumSteps
<1>2. PICK g : Sums(g, t, n) /\ SumOf(t) = g[n]
  BY SumSteps
<1>3. 1 \in 1..(n + 1) /\ s[1].n \in Nat
  BY DEF Numbered
<1> DEFINE P == { i \in 0..n : f[i + 1] = s[1].n + g[i] }
<1>4. 0 \in P
  <2>1. f[1] = f[1 - 1] + s[1].n /\ f[0] = 0 /\ g[0] = 0
    BY <1>1, <1>2, <1>3 DEF Sums
  <2> QED
    BY <1>3, <2>1
<1>5. ASSUME NEW i \in 1..n, i - 1 \in P PROVE i \in P
  <2>1. i + 1 \in 1..(n + 1) /\ i \in 0..n /\ (i + 1) - 1 = i /\ (i - 1) + 1 = i /\ i - 1 \in 0..n
    OBVIOUS
  <2>2. f[i] = s[1].n + g[i - 1]
    BY <1>5, <2>1
  <2>3. f[i + 1] = f[i] + s[i + 1].n
    BY <1>1, <2>1 DEF Sums
  <2>4. g[i] = g[i - 1] + s[i + 1].n /\ g[i - 1] \in Nat
    BY <1>2, <2>1 DEF Sums
  <2>5. s[i + 1].n \in Nat
    BY <2>1 DEF Numbered
  <2> QED
    BY <1>3, <2>1, <2>2, <2>3, <2>4, <2>5
<1> HIDE DEF P
<1>6. \A i \in 0..n : i \in P
  BY <1>4, <1>5, UpTo
<1>7. n \in P
  BY <1>6
<1> USE DEF P
<1> QED
  BY <1>1, <1>2, <1>7

-----------------------------------------------------------------------------
(* Sequences of tests and of messages.                                     *)

Old == "earlier test"

\* Messages with a number in them: what they promise together.
Counted(S) == \A m \in S : "n" \in DOMAIN m /\ m.n \in Nat

LEMMA CountedNumbered ==
  ASSUME NEW S, Counted(S), NEW q \in Seq(S)
  PROVE  Numbered(q, Len(q))
BY DEF Counted, Numbered

\* A message more adds what is in it.
LEMMA SumOfAppend ==
  ASSUME NEW S, Counted(S), NEW q \in Seq(S), NEW m \in S
  PROVE  SumOf(Append(q, m)) = SumOf(q) + m.n
<1>1. Append(q, m) \in Seq(S) /\ Len(Append(q, m)) = Len(q) + 1 /\ Append(q, m)[Len(q) + 1] = m
  OBVIOUS
<1>2. \A i \in 1..Len(q) : Append(q, m)[i] = q[i]
  OBVIOUS
<1>3. Numbered(q, Len(q)) /\ Numbered(Append(q, m), Len(q) + 1)
  BY <1>1, CountedNumbered
<1>4. \A i \in 1..Len(q) : Append(q, m)[i].n = q[i].n
  BY <1>2
<1>5. SumOf(Append(q, m)) = SumOf(q) + Append(q, m)[Len(q) + 1].n
  BY <1>3, <1>4, SumAppend
<1> QED
  BY <1>1, <1>5

\* A message less takes away what was in it.
LEMMA SumOfTail ==
  ASSUME NEW S, Counted(S), NEW q \in Seq(S), q # << >>
  PROVE  /\ Tail(q) \in Seq(S) /\ Head(q) \in S
         /\ SumOf(q) = Head(q).n + SumOf(Tail(q))
<1>1. Tail(q) \in Seq(S) /\ Len(Tail(q)) = Len(q) - 1 /\ Head(q) = q[1] /\ Len(q) # 0 /\ Len(q) \in Nat /\ q[1] \in S
  OBVIOUS
<1>2. \A i \in 1..(Len(q) - 1) : Tail(q)[i] = q[i + 1]
  OBVIOUS
<1>3. Numbered(q, Len(q)) /\ Numbered(Tail(q), Len(Tail(q)))
  BY <1>1, CountedNumbered
<1> DEFINE n == Len(q) - 1
<1>4. n \in Nat /\ Numbered(q, n + 1) /\ Numbered(Tail(q), n)
  BY <1>1, <1>3
<1>5. \A i \in 1..n : Tail(q)[i].n = q[i + 1].n
  BY <1>2
<1> HIDE DEF n
<1>6. SumOf(q) = q[1].n + SumOf(Tail(q))
  BY <1>4, <1>5, SumTail
<1> QED
  BY <1>1, <1>6

LEMMA SumOfType ==
  ASSUME NEW S, Counted(S), NEW q \in Seq(S)
  PROVE  SumOf(q) \in Nat
BY CountedNumbered, SumType

\* What is in messages does not change with the test.
LEMMA SumOfAged ==
  ASSUME NEW S, Counted(S), NEW q \in Seq(S)
  PROVE  SumOf(AgedMessages(q)) = SumOf(q)
<1>1. DOMAIN AgedMessages(q) = 1..Len(q) /\ Len(q) \in Nat
  BY DEF AgedMessages
<1>2. ASSUME NEW i \in 1..Len(q)
      PROVE  AgedMessages(q)[i].n = q[i].n
  <2>1. q[i] \in S /\ i \in DOMAIN q
    OBVIOUS
  <2>2. "n" \in DOMAIN q[i]
    BY <2>1 DEF Counted
  <2>3. AgedMessages(q)[i] = [q[i] EXCEPT !.of = Old]
    BY <2>1 DEF AgedMessages, Old
  <2> QED
    BY <2>2, <2>3
<1>3. Numbered(q, Len(q))
  BY CountedNumbered
<1>4. Numbered(AgedMessages(q), Len(q))
  BY <1>1, <1>2, <1>3 DEF Numbered
<1>5. \A i \in 1..Len(q) : q[i].n = AgedMessages(q)[i].n
  BY <1>2
<1> QED
  BY <1>3, <1>4, <1>5, SumSame

-----------------------------------------------------------------------------
(* The tests of messages.                                                  *)
AllOf(test, tests) == \A i \in DOMAIN tests : tests[i] = test
AllMarked(test, messages) == \A i \in DOMAIN messages : messages[i].of = test

LEMMA AllOfAppend ==
  ASSUME NEW q \in Seq(Tests), NEW t, AllOf(t, q), NEW x \in Tests, x = t
  PROVE  AllOf(t, Append(q, x))
BY DEF AllOf

LEMMA AllOfTail ==
  ASSUME NEW q \in Seq(Tests), NEW t, AllOf(t, q), q # << >>
  PROVE  AllOf(t, Tail(q)) /\ Head(q) = t
BY DEF AllOf

LEMMA AllOfConcat ==
  ASSUME NEW q \in Seq(Tests), NEW r \in Seq(Tests), NEW t, AllOf(t, q), AllOf(t, r)
  PROVE  AllOf(t, q \o r)
<1>1. \A i \in 1..(Len(q) + Len(r)) : (q \o r)[i] = IF i <= Len(q) THEN q[i] ELSE r[i - Len(q)]
  OBVIOUS
<1>2. DOMAIN (q \o r) = 1..(Len(q) + Len(r)) /\ DOMAIN q = 1..Len(q) /\ DOMAIN r = 1..Len(r) /\ Len(q) \in Nat /\ Len(r) \in Nat
  OBVIOUS
<1>3. ASSUME NEW i \in 1..(Len(q) + Len(r)), ~ (i <= Len(q)) PROVE i - Len(q) \in 1..Len(r)
  BY <1>2, <1>3
<1> QED
  BY <1>1, <1>2, <1>3 DEF AllOf

LEMMA AllOfRepeat ==
  ASSUME NEW t \in Tests, NEW n \in Nat
  PROVE  /\ Repeat(t, n) \in Seq(Tests) /\ Len(Repeat(t, n)) = n
         /\ AllOf(t, Repeat(t, n))
BY DEF Repeat, AllOf

LEMMA AllOfFirst ==
  ASSUME NEW q \in Seq(Tests), NEW t, AllOf(t, q), NEW n \in 0..Len(q)
  PROVE  /\ SubSeq(q, 1, n) \in Seq(Tests) /\ Len(SubSeq(q, 1, n)) = n
         /\ AllOf(t, SubSeq(q, 1, n))
BY DEF AllOf

LEMMA FirstType ==
  ASSUME NEW q \in Seq(Tests), NEW n \in 0..Len(q)
  PROVE  SubSeq(q, 1, n) \in Seq(Tests) /\ Len(SubSeq(q, 1, n)) = n
OBVIOUS

LEMMA AllOfAged ==
  ASSUME NEW q \in Seq(Tests)
  PROVE  Aged(q) \in Seq(Tests) /\ Len(Aged(q)) = Len(q) /\ AllOf(Old, Aged(q))
<1>1. DOMAIN q = 1..Len(q) /\ Len(q) \in Nat
  OBVIOUS
<1>2. Aged(q) = [i \in 1..Len(q) |-> Old]
  BY <1>1, Zenon DEF Aged, Old
<1>3. Old \in Tests
  BY DEF Old, Tests
<1>4. Aged(q) \in [1..Len(q) -> Tests]
  BY <1>2, <1>3
<1> QED
  BY <1>1, <1>2, <1>4 DEF AllOf

\* A sequence with nothing of one test, and nothing of the other, is empty.
LEMMA AllOfBoth ==
  ASSUME NEW q \in Seq(Tests), AllOf(Old, q), AllOf(This, q)
  PROVE  q = << >>
<1>1. SUFFICES ASSUME Len(q) # 0 PROVE FALSE
  OBVIOUS
<1>2. 1 \in DOMAIN q
  BY <1>1
<1> QED
  BY <1>2 DEF AllOf, Old, This

LEMMA MarkedBoth ==
  ASSUME NEW S, NEW q \in Seq(S), AllMarked(Old, q), AllMarked(This, q)
  PROVE  q = << >>
<1>1. SUFFICES ASSUME Len(q) # 0 PROVE FALSE
  OBVIOUS
<1>2. 1 \in DOMAIN q
  BY <1>1
<1> QED
  BY <1>2 DEF AllMarked, Old, This

LEMMA MarkedAppend ==
  ASSUME NEW S, NEW q \in Seq(S), NEW t, AllMarked(t, q), NEW m \in S, m.of = t
  PROVE  AllMarked(t, Append(q, m))
BY DEF AllMarked

LEMMA MarkedTail ==
  ASSUME NEW S, NEW q \in Seq(S), NEW t, AllMarked(t, q), q # << >>
  PROVE  AllMarked(t, Tail(q)) /\ Head(q).of = t
BY DEF AllMarked

-----------------------------------------------------------------------------
(* What the variables of the trigger side are.                             *)

TriggerTypes ==
  /\ ta \in {"Halted", "Ready", "Enabled", "Suspended", "Failed"}
  /\ held \in Seq(Tests) /\ triggers \in Seq(Tests) /\ triggerFIFO \in Seq(Tests) /\ events \in Seq(Tests)
  /\ credits \in Seq(CreditMessages)
  /\ lost \in 0 .. MaxLost
  /\ evm \in {"Halted", "Configuring", "Ready", "Stopping"} \cup Processing
  /\ source \in {"TA", "Local"}
  /\ toBeSent \in 0 .. CounterSize - 1
  /\ doRequestTriggers \in BOOLEAN /\ firstRequest \in BOOLEAN
  /\ loop \in {"idle", "adding", "asking", "posted", "flushed"}
  /\ nbEvtsInBuilder \in Int

Takes == [resource : Resources, last : BOOLEAN, of : Tests]
Allocates == [n : 1 .. NbOutstandingRqsts, of : Tests]
Discards == [resource : Resources, of : Tests]

FarmTypes ==
  /\ bu \in {"Halted", "Configuring", "Ready", "Enabled", "Failed"}
  /\ dropEventData \in BOOLEAN /\ faultDetected \in BOOLEAN
  /\ freeResources \subseteq Resources
  /\ DOMAIN eventOf \subseteq Resources \ freeResources /\ \A r \in DOMAIN eventOf : eventOf[r] \in Tests
  /\ completeEvents \in Seq(Resources) /\ discardFIFO \in Seq(Resources)
  /\ requestFIFO \in Seq(Tests) /\ Len(requestFIFO) <= RequestCapacity
  /\ fu \in {"Halted", "Ready", "Enabled", "Failed", "Gone"}
  /\ (nbEventsProcessed = NbEventsBeforeExit => fu = "Gone")
  /\ nbEventsProcessed \in 0 .. NbEventsBeforeExit /\ damaged \in 0 .. MaxDamaged
  /\ takes \in Seq(Takes) /\ allocates \in Seq(Allocates) /\ discards \in Seq(Discards)

\* What the messages of the applications are made of.
LEMMA NumbersInMessages ==
  Counted(CreditMessages) /\ Counted(Allocates)
<1>1. CounterSize \in Nat /\ NbOutstandingRqsts \in Nat
  BY CounterAssumption, RequestsAssumption
<1> QED
  BY <1>1 DEF Counted, CreditMessages, Allocates

LEMMA CounterFacts ==
  /\ Capacity \in Nat /\ Packing \in Nat /\ CounterSize \in Nat /\ 0 < Packing /\ Packing < CounterSize /\ Capacity < CounterSize
  /\ 0 < Capacity /\ MaxLost \in Nat
BY CapacityAssumption, PackingAssumption, CounterAssumption, LostAssumption

LEMMA TestsAre ==
  This \in Tests /\ Old \in Tests /\ This # Old
BY DEF This, Old, Tests

LEMMA PostType ==
  ASSUME NEW n, n \in 1 .. CounterSize - 1
  PROVE  [n |-> n, of |-> This] \in CreditMessages
BY TestsAre DEF CreditMessages

LEMMA WrapType ==
  ASSUME NEW n \in Int
  PROVE  n % CounterSize \in 0 .. CounterSize - 1
<1>1. CounterSize \in Nat /\ 0 < CounterSize
  BY CounterFacts
<1> QED
  BY <1>1

\* One step of the TA or of the EVM.
LEMMA SendNTriggersType ==
  ASSUME TriggerTypes, NEW answered \in Seq(Tests), SendNTriggers(answered)
  PROVE  lost' \in 0 .. MaxLost /\ triggers' \in Seq(Tests)
<1>1. PICK n \in 0 .. Len(answered) :
        /\ n = Len(answered) \/ (trouble = "memory" /\ lost + Len(answered) - n <= MaxLost)
        /\ lost' = lost + Len(answered) - n
        /\ triggers' = triggers \o SubSeq(answered, 1, n)
  BY DEF SendNTriggers
<1>2. SubSeq(answered, 1, n) \in Seq(Tests) /\ Len(answered) \in Nat
  BY FirstType
<1>3. triggers \in Seq(Tests) /\ lost \in 0 .. MaxLost
  BY DEF TriggerTypes
<1> QED
  BY <1>1, <1>2, <1>3, CounterFacts

LEMMA TaCreditMsgType ==
  ASSUME TriggerTypes, TaCreditMsg
  PROVE  TriggerTypes'
<1> DEFINE given == Repeat(Head(credits).of, Head(credits).n)
<1>1. credits # << >> /\ credits' = Tail(credits) /\ credits \in Seq(CreditMessages)
  BY DEF TaCreditMsg, TriggerTypes
<1>2. Head(credits) \in CreditMessages /\ Tail(credits) \in Seq(CreditMessages)
  BY <1>1
<1>3. Head(credits).of \in Tests /\ Head(credits).n \in Nat
  BY <1>2, CounterFacts DEF CreditMessages
<1>4. given \in Seq(Tests)
  BY <1>3, AllOfRepeat
<1>5. \/ UNCHANGED << held, lost, triggers >>
      \/ SendNTriggers(given) /\ UNCHANGED held
      \/ held' = held \o given /\ UNCHANGED << lost, triggers >>
  BY DEF TaCreditMsg
<1> HIDE DEF given
<1>6. held \in Seq(Tests) /\ triggers \in Seq(Tests) /\ lost \in 0 .. MaxLost
  BY DEF TriggerTypes
<1>7. held' \in Seq(Tests) /\ triggers' \in Seq(Tests) /\ lost' \in 0 .. MaxLost
  <2>1. CASE UNCHANGED << held, lost, triggers >>
    BY <1>6, <2>1
  <2>2. CASE SendNTriggers(given) /\ UNCHANGED held
    BY <1>4, <1>6, <2>2, SendNTriggersType
  <2>3. CASE held' = held \o given /\ UNCHANGED << lost, triggers >>
    <3>1. held \o given \in Seq(Tests)
      BY <1>4, <1>6
    <3> QED
      BY <1>6, <2>3, <3>1
  <2> QED
    BY <1>5, <2>1, <2>2, <2>3
<1>8. UNCHANGED << ta, evmVars >>
  BY DEF TaCreditMsg
<1> QED
  BY <1>1, <1>2, <1>7, <1>8 DEF TriggerTypes, evmVars, handlerVars

LEMMA SendHeldCreditsType ==
  ASSUME TriggerTypes, SendHeldCredits
  PROVE  TriggerTypes'
<1>1. held \in Seq(Tests) /\ SendNTriggers(held) /\ held' = << >> /\ ta' = "Enabled" /\ UNCHANGED << credits, evmVars >>
  BY DEF SendHeldCredits, TriggerTypes
<1>2. lost' \in 0 .. MaxLost /\ triggers' \in Seq(Tests)
  BY <1>1, SendNTriggersType
<1> QED
  BY <1>1, <1>2 DEF TriggerTypes, evmVars, handlerVars

TriggerAction ==
  \/ FirstRequest \/ TakeTrigger \/ AddCredit \/ AskForTriggers \/ SubtractPacking \/ FlushCredits
  \/ SubtractAll \/ MakeTrigger \/ TriggerCallback \/ ConfigureTA \/ FailToEnableTA \/ SuspendTA
  \/ HaltTA \/ SetTriggerSource \/ ConfigureEVM \/ EVMConfigured \/ EnableEVM \/ HaltEVM
  \/ StopRequesting \/ SubtractStopped \/ EVMStopped
  \/ TaCreditMsg \/ SendHeldCredits

\* No step between EVM and TA leaves the types.
LEMMA TriggerActionType ==
  ASSUME TriggerTypes, TriggerAction
  PROVE  TriggerTypes'
<1>1. CASE FirstRequest
  <2>1. toBeSent + Capacity \in Int
    BY CounterFacts DEF TriggerTypes
  <2>2. toBeSent' \in 0 .. CounterSize - 1
    BY <1>1, <2>1, WrapType DEF FirstRequest
  <2>3. loop' \in {"asking", "idle"}
    BY <1>1 DEF FirstRequest, NextRound
  <2> QED
    BY <1>1, <2>2, <2>3 DEF TriggerTypes, taVars, FirstRequest
<1>2. CASE TakeTrigger
  BY <1>2, CounterFacts DEF TriggerTypes, Processing, taVars, handlerVars, evmVars, triggerVars, RoomInBuilder, TakeTrigger
<1>3. CASE AddCredit
  BY <1>3, CounterFacts, WrapType DEF TriggerTypes, Processing, taVars, handlerVars, evmVars, triggerVars, RoomInBuilder, AddCredit, NextRound
<1>4. CASE AskForTriggers
  BY <1>4, CounterFacts, PostType DEF TriggerTypes, Processing, taVars, handlerVars, evmVars, triggerVars, RoomInBuilder, AskForTriggers, Post
<1>5. CASE SubtractPacking
  BY <1>5, CounterFacts, WrapType DEF TriggerTypes, Processing, taVars, handlerVars, evmVars, triggerVars, RoomInBuilder, SubtractPacking, NextRound
<1>6. CASE FlushCredits
  BY <1>6, CounterFacts, PostType DEF TriggerTypes, Processing, taVars, handlerVars, evmVars, triggerVars, RoomInBuilder, FlushCredits, Post
<1>7. CASE SubtractAll
  BY <1>7, CounterFacts DEF TriggerTypes, Processing, taVars, handlerVars, evmVars, triggerVars, RoomInBuilder, SubtractAll
<1>8. CASE MakeTrigger
  BY <1>8, TestsAre DEF TriggerTypes, Processing, taVars, handlerVars, evmVars, triggerVars, RoomInBuilder, MakeTrigger
<1>9. CASE TriggerCallback
  <2>1. triggers' = Tail(triggers) /\ triggers # << >> /\ triggers \in Seq(Tests) /\ triggerFIFO \in Seq(Tests)
    BY <1>9 DEF TriggerCallback, TriggerTypes
  <2>2. triggers' \in Seq(Tests) /\ Head(triggers) \in Tests
    BY <2>1
  <2>3. triggerFIFO' = Append(triggerFIFO, Head(triggers)) \/ UNCHANGED triggerFIFO
    BY <1>9 DEF TriggerCallback
  <2>4. Append(triggerFIFO, Head(triggers)) \in Seq(Tests)
    BY <2>1, <2>2
  <2>5. triggerFIFO' \in Seq(Tests)
    BY <2>1, <2>3, <2>4
  <2> QED
    BY <1>9, <2>2, <2>5 DEF TriggerTypes, taVars, handlerVars, TriggerCallback
<1>10. CASE ConfigureTA
  BY <1>10, CounterFacts DEF TriggerTypes, Processing, taVars, handlerVars, evmVars, triggerVars, RoomInBuilder, ConfigureTA
<1>11. CASE FailToEnableTA
  BY <1>11, CounterFacts DEF TriggerTypes, Processing, taVars, handlerVars, evmVars, triggerVars, RoomInBuilder, FailToEnableTA
<1>12. CASE SuspendTA
  BY <1>12, CounterFacts DEF TriggerTypes, Processing, taVars, handlerVars, evmVars, triggerVars, RoomInBuilder, SuspendTA
<1>13. CASE HaltTA
  BY <1>13, CounterFacts DEF TriggerTypes, Processing, taVars, handlerVars, evmVars, triggerVars, RoomInBuilder, HaltTA
<1>14. CASE SetTriggerSource
  BY <1>14, CounterFacts DEF TriggerTypes, Processing, taVars, handlerVars, evmVars, triggerVars, RoomInBuilder, SetTriggerSource
<1>15. CASE ConfigureEVM
  BY <1>15, CounterFacts DEF TriggerTypes, Processing, taVars, handlerVars, evmVars, triggerVars, RoomInBuilder, ConfigureEVM
<1>16. CASE EVMConfigured
  BY <1>16, CounterFacts DEF TriggerTypes, Processing, taVars, handlerVars, evmVars, triggerVars, RoomInBuilder, EVMConfigured
<1>17. CASE EnableEVM
  BY <1>17, CounterFacts DEF TriggerTypes, Processing, taVars, handlerVars, evmVars, triggerVars, RoomInBuilder, EnableEVM
<1>18. CASE HaltEVM
  BY <1>18, CounterFacts DEF TriggerTypes, Processing, taVars, handlerVars, evmVars, triggerVars, RoomInBuilder, HaltEVM
<1>19. CASE StopRequesting
  <2>1. credits \in Seq(CreditMessages) /\ toBeSent \in 0 .. CounterSize - 1
    BY DEF TriggerTypes
  <2>2. (toBeSent > 0 /\ credits' = Append(credits, [n |-> toBeSent, of |-> This])) \/ UNCHANGED credits
    BY <1>19 DEF StopRequesting, Post
  <2>3. credits' \in Seq(CreditMessages)
    <3>1. CASE UNCHANGED credits
      BY <2>1, <3>1
    <3>2. CASE toBeSent > 0 /\ credits' = Append(credits, [n |-> toBeSent, of |-> This])
      <4>1. toBeSent \in 1 .. CounterSize - 1
        BY <2>1, <3>2, CounterFacts
      <4>2. [n |-> toBeSent, of |-> This] \in CreditMessages
        BY <4>1, PostType
      <4> QED
        BY <2>1, <3>2, <4>2
    <3> QED
      BY <2>2, <3>1, <3>2
  <2> QED
    BY <1>19, <2>3 DEF TriggerTypes, Processing, taVars, handlerVars, evmVars, triggerVars, RoomInBuilder, StopRequesting
<1>20. CASE SubtractStopped
  BY <1>20, CounterFacts DEF TriggerTypes, Processing, taVars, handlerVars, evmVars, triggerVars, RoomInBuilder, SubtractStopped
<1>21. CASE EVMStopped
  BY <1>21, CounterFacts DEF TriggerTypes, Processing, taVars, handlerVars, evmVars, triggerVars, RoomInBuilder, EVMStopped
<1>22. CASE TaCreditMsg
  BY <1>22, TaCreditMsgType
<1>23. CASE SendHeldCredits
  BY <1>23, SendHeldCreditsType
<1> QED
  BY <1>1, <1>2, <1>3, <1>4, <1>5, <1>6, <1>7, <1>8, <1>9, <1>10, <1>11, <1>12, <1>13, <1>14, <1>15, <1>16, <1>17, <1>18, <1>19, <1>20, <1>21, <1>22, <1>23 DEF TriggerAction

-----------------------------------------------------------------------------
(* What the variables of BU and FU are.                                    *)

LEMMA FarmFacts ==
  /\ RequestCapacity \in Nat /\ NbOutstandingRqsts \in Nat \ {0} /\ NbOutstandingRqsts <= RequestCapacity
  /\ NbEventsBeforeExit \in Nat \ {0} /\ MaxDamaged \in Nat /\ 1 \in 1 .. NbOutstandingRqsts
BY RequestsAssumption, ExitAssumption, DamagedAssumption

LEMMA AllocateType ==
  ASSUME FarmTypes, NEW n \in 1 .. NbOutstandingRqsts, AllocateNEvents(n)
  PROVE  allocates' \in Seq(Allocates)
<1>1. [n |-> n, of |-> This] \in Allocates
  BY TestsAre DEF Allocates
<1> QED
  BY <1>1 DEF FarmTypes, AllocateNEvents

\* One step of the BU or of the FU.
LEMMA BuildEventType ==
  ASSUME TriggerTypes, FarmTypes, NEW hasData, BuildEvent(hasData)
  PROVE  TriggerTypes' /\ FarmTypes'
<1>1. events \in Seq(Tests) /\ events # << >> /\ events' = Tail(events)
  BY DEF TriggerTypes, BuildEvent
<1>2. events' \in Seq(Tests) /\ Head(events) \in Tests
  BY <1>1
<1>3. TriggerTypes'
  BY <1>2 DEF TriggerTypes, BuildEvent, taVars, handlerVars
<1>4. PICK r \in freeResources :
        /\ freeResources' = freeResources \ {r}
        /\ eventOf' = [x \in DOMAIN eventOf \cup {r} |-> IF x = r THEN Head(events) ELSE eventOf[x]]
        /\ IF dropEventData THEN discardFIFO' = Append(discardFIFO, r) /\ UNCHANGED completeEvents
                            ELSE completeEvents' = Append(completeEvents, r) /\ UNCHANGED discardFIFO
  BY DEF BuildEvent
<1>5. r \in Resources /\ freeResources \subseteq Resources /\ DOMAIN eventOf \subseteq Resources \ freeResources
      /\ \A x \in DOMAIN eventOf : eventOf[x] \in Tests
  BY <1>4 DEF FarmTypes
<1>6. DOMAIN eventOf' \subseteq Resources \ freeResources' /\ freeResources' \subseteq Resources
  BY <1>4, <1>5
<1>7. \A x \in DOMAIN eventOf' : eventOf'[x] \in Tests
  BY <1>2, <1>4, <1>5
<1>8. completeEvents' \in Seq(Resources) /\ discardFIFO' \in Seq(Resources)
  <2>1. completeEvents \in Seq(Resources) /\ discardFIFO \in Seq(Resources)
    BY DEF FarmTypes
  <2>2. Append(completeEvents, r) \in Seq(Resources) /\ Append(discardFIFO, r) \in Seq(Resources)
    BY <1>5, <2>1
  <2> QED
    BY <1>4, <2>1, <2>2
<1>9. UNCHANGED << bu, dropEventData, requestFIFO, fuVars, takes, allocates, discards >>
  BY DEF BuildEvent
<1>10. FarmTypes'
  BY <1>6, <1>7, <1>8, <1>9 DEF FarmTypes, fuVars
<1> QED
  BY <1>3, <1>10

LEMMA SendEventToFUType ==
  ASSUME FarmTypes, SendEventToFU, completeEvents # << >> => Head(completeEvents) \in DOMAIN eventOf
  PROVE  FarmTypes'
<1> DEFINE r == Head(completeEvents)
           first == [resource |-> r, last |-> FALSE, of |-> eventOf[r]]
           second == [resource |-> r, last |-> TRUE, of |-> eventOf[r]]
<1>1. /\ completeEvents # << >> /\ requestFIFO # << >>
      /\ requestFIFO' = Tail(requestFIFO) /\ completeEvents' = Tail(completeEvents)
      /\ requestFIFO \in Seq(Tests) /\ completeEvents \in Seq(Resources) /\ Len(requestFIFO) <= RequestCapacity
  BY DEF SendEventToFU, FarmTypes
<1>2. /\ requestFIFO' \in Seq(Tests) /\ completeEvents' \in Seq(Resources) /\ r \in Resources
      /\ Len(requestFIFO') <= RequestCapacity
  BY <1>1, FarmFacts
<1>3. eventOf[r] \in Tests
  BY <1>1 DEF FarmTypes
<1>4. first \in Takes /\ second \in Takes
  BY <1>2, <1>3 DEF Takes
<1>5. takes' = takes \o << first, second >> \/ UNCHANGED takes
  BY DEF SendEventToFU
<1>6. bu' \in {bu, "Failed"}
  BY DEF SendEventToFU
<1>7. UNCHANGED << dropEventData, freeResources, eventOf, discardFIFO, fuVars, allocates, discards >>
  BY DEF SendEventToFU
<1> HIDE DEF first, second, r
<1>8. takes' \in Seq(Takes)
  <2>1. takes \in Seq(Takes) /\ << first, second >> \in Seq(Takes)
    BY <1>4 DEF FarmTypes
  <2>2. takes \o << first, second >> \in Seq(Takes)
    BY <2>1
  <2> QED
    BY <1>5, <2>1, <2>2
<1> QED
  BY <1>2, <1>6, <1>7, <1>8 DEF FarmTypes, fuVars

LEMMA HandleDiscardType ==
  ASSUME TriggerTypes, FarmTypes, HandleDiscard
  PROVE  TriggerTypes' /\ FarmTypes'
<1>1. TriggerTypes'
  BY DEF TriggerTypes, HandleDiscard, taVars, handlerVars
<1>2. discardFIFO' \in Seq(Resources) /\ Head(discardFIFO) \in Resources
  BY DEF FarmTypes, HandleDiscard
<1>3. \/ /\ eventOf' = Without(eventOf, Head(discardFIFO)) /\ freeResources' = freeResources \cup {Head(discardFIFO)}
         /\ UNCHANGED bu
      \/ bu' = "Failed" /\ UNCHANGED << eventOf, freeResources >>
  BY DEF HandleDiscard
<1>4. /\ freeResources' \subseteq Resources /\ DOMAIN eventOf' \subseteq Resources \ freeResources'
      /\ (\A r \in DOMAIN eventOf' : eventOf'[r] \in Tests) /\ bu' \in {bu, "Failed"}
  BY <1>2, <1>3 DEF FarmTypes, Without
<1>5. UNCHANGED << dropEventData, completeEvents, requestFIFO, fuVars, takes, allocates, discards >>
  BY DEF HandleDiscard
<1> QED
  BY <1>1, <1>2, <1>4, <1>5 DEF FarmTypes, fuVars

LEMMA AllocateCallbackType ==
  ASSUME FarmTypes, AllocateCallback
  PROVE  FarmTypes'
<1> DEFINE m == Head(allocates)
           given == Repeat(m.of, m.n)
<1>1. allocates \in Seq(Allocates) /\ allocates # << >> /\ allocates' = Tail(allocates)
  BY DEF FarmTypes, AllocateCallback
<1>2. allocates' \in Seq(Allocates) /\ m \in Allocates
  BY <1>1
<1>3. m.of \in Tests /\ m.n \in Nat
  BY <1>2, FarmFacts DEF Allocates
<1>4. given \in Seq(Tests) /\ Len(given) = m.n
  BY <1>3, AllOfRepeat
<1>5. (Len(requestFIFO) + m.n <= RequestCapacity /\ requestFIFO' = requestFIFO \o given) \/ UNCHANGED requestFIFO
  BY DEF AllocateCallback
<1>6. requestFIFO \in Seq(Tests) /\ Len(requestFIFO) <= RequestCapacity
  BY DEF FarmTypes
<1> HIDE DEF given, m
<1>7. requestFIFO' \in Seq(Tests) /\ Len(requestFIFO') <= RequestCapacity
  <2>1. requestFIFO \o given \in Seq(Tests) /\ Len(requestFIFO \o given) = Len(requestFIFO) + m.n
    BY <1>4, <1>6
  <2> QED
    BY <1>5, <1>6, <2>1
<1>8. UNCHANGED << bu, dropEventData, freeResources, eventOf, completeEvents, discardFIFO, fuVars, takes, discards >>
  BY DEF AllocateCallback
<1> QED
  BY <1>2, <1>7, <1>8 DEF FarmTypes, fuVars

LEMMA DiscardCallbackType ==
  ASSUME FarmTypes, DiscardCallback
  PROVE  FarmTypes'
<1>1. discards \in Seq(Discards) /\ discards # << >> /\ discards' = Tail(discards) /\ discardFIFO \in Seq(Resources)
  BY DEF FarmTypes, DiscardCallback
<1>2. discards' \in Seq(Discards) /\ Head(discards) \in Discards
  BY <1>1
<1>3. Head(discards).resource \in Resources
  BY <1>2 DEF Discards
<1>4. Append(discardFIFO, Head(discards).resource) \in Seq(Resources)
  BY <1>1, <1>3
<1>5. discardFIFO' = Append(discardFIFO, Head(discards).resource) \/ UNCHANGED discardFIFO
  BY DEF DiscardCallback
<1>6. discardFIFO' \in Seq(Resources)
  BY <1>1, <1>4, <1>5
<1>7. UNCHANGED << bu, dropEventData, freeResources, eventOf, completeEvents, requestFIFO, fuVars, takes, allocates >>
  BY DEF DiscardCallback
<1> QED
  BY <1>2, <1>6, <1>7 DEF FarmTypes, fuVars

LEMMA FinishEventType ==
  ASSUME FarmTypes, NEW m \in Takes, FinishEvent(m)
  PROVE  /\ nbEventsProcessed' \in Nat /\ allocates' \in Seq(Allocates) /\ discards' \in Seq(Discards)
         /\ fu' \in {fu, "Gone"}
         /\ nbEventsProcessed < NbEventsBeforeExit => nbEventsProcessed' \in 0 .. NbEventsBeforeExit
         /\ nbEventsProcessed' = NbEventsBeforeExit => fu' = "Gone"
<1>1. nbEventsProcessed \in 0 .. NbEventsBeforeExit /\ allocates \in Seq(Allocates) /\ discards \in Seq(Discards)
  BY DEF FarmTypes
<1>2. nbEventsProcessed' = IF trouble = "crash" THEN nbEventsProcessed + 1 ELSE 0
  BY DEF FinishEvent
<1>3. \/ fu' = "Gone" /\ UNCHANGED << allocates, discards >>
      \/ /\ nbEventsProcessed' # NbEventsBeforeExit
         /\ discards' = Append(discards, [resource |-> m.resource, of |-> m.of])
         /\ AllocateNEvents(1) /\ UNCHANGED fu
  BY DEF FinishEvent
<1>4. [resource |-> m.resource, of |-> m.of] \in Discards
  BY DEF Takes, Discards
<1>5. Append(discards, [resource |-> m.resource, of |-> m.of]) \in Seq(Discards)
  BY <1>1, <1>4
<1>6. AllocateNEvents(1) => allocates' \in Seq(Allocates)
  BY FarmFacts, AllocateType
<1>7. allocates' \in Seq(Allocates) /\ discards' \in Seq(Discards) /\ fu' \in {fu, "Gone"}
  BY <1>1, <1>3, <1>5, <1>6
<1>8. nbEventsProcessed' = NbEventsBeforeExit => fu' = "Gone"
  BY <1>3
<1>9. nbEventsProcessed' \in Nat /\ (nbEventsProcessed < NbEventsBeforeExit => nbEventsProcessed' \in 0 .. NbEventsBeforeExit)
  BY <1>1, <1>2, FarmFacts
<1> QED
  BY <1>7, <1>8, <1>9

LEMMA TakeSuperFragmentType ==
  ASSUME FarmTypes, TakeSuperFragment
  PROVE  FarmTypes'
<1> DEFINE m == Head(takes)
<1>1. takes \in Seq(Takes) /\ takes # << >> /\ takes' = Tail(takes) /\ UNCHANGED buVars
  BY DEF FarmTypes, TakeSuperFragment
<1>2. takes' \in Seq(Takes) /\ m \in Takes
  BY <1>1
<1>3. CASE UNCHANGED << fu, nbEventsProcessed, faultDetected, damaged, allocates, discards >>
  BY <1>1, <1>2, <1>3 DEF FarmTypes, buVars
<1>4. CASE /\ fu \in {"Ready", "Enabled"} /\ ~ faultDetected
           /\ \E bad \in BOOLEAN :
                /\ bad => trouble = "data" /\ damaged < MaxDamaged
                /\ damaged' = IF bad THEN damaged + 1 ELSE damaged
                /\ faultDetected' = bad
           /\ IF m.last THEN FinishEvent(m)
                        ELSE UNCHANGED << fu, nbEventsProcessed, allocates, discards >>
  <2>1. nbEventsProcessed \in 0 .. NbEventsBeforeExit /\ nbEventsProcessed # NbEventsBeforeExit /\ damaged \in 0 .. MaxDamaged
    BY <1>4 DEF FarmTypes
  <2>2. nbEventsProcessed < NbEventsBeforeExit
    BY <2>1, FarmFacts
  <2>3. damaged' \in 0 .. MaxDamaged /\ faultDetected' \in BOOLEAN
    BY <1>4, <2>1, FarmFacts
  <2>4. CASE m.last
    <3> HIDE DEF m
    <3>1. FinishEvent(m)
      BY <1>4, <2>4
    <3>2. /\ allocates' \in Seq(Allocates) /\ discards' \in Seq(Discards) /\ fu' \in {fu, "Gone"}
          /\ nbEventsProcessed' \in 0 .. NbEventsBeforeExit
          /\ nbEventsProcessed' = NbEventsBeforeExit => fu' = "Gone"
      BY <1>2, <2>2, <3>1, FinishEventType
    <3> QED
      BY <1>1, <1>2, <2>3, <3>2 DEF FarmTypes, buVars
  <2>5. CASE ~ m.last
    BY <1>1, <1>2, <1>4, <2>3, <2>5 DEF FarmTypes, buVars
  <2> QED
    BY <2>4, <2>5
<1> QED
  BY <1>3, <1>4 DEF TakeSuperFragment

FarmCommand ==
  \/ ConfigureBU \/ BUConfigured \/ EnableBU \/ HaltBU \/ SetDropEventData
  \/ ConfigureFU \/ EnableFU \/ FailToEnableFU \/ HaltFU

\* No command to BU or FU leaves the types.
LEMMA FarmCommandType ==
  ASSUME FarmTypes, FarmCommand, EnableBU => eventOf = << >>
  PROVE  FarmTypes'
<1>1. CASE ConfigureBU
  BY <1>1, FarmFacts DEF FarmTypes, buVars, fuVars, ConfigureBU
<1>2. CASE BUConfigured
  BY <1>2, FarmFacts DEF FarmTypes, buVars, fuVars, BUConfigured
<1>3. CASE EnableBU
  BY <1>3, FarmFacts DEF FarmTypes, buVars, fuVars, EnableBU
<1>4. CASE HaltBU
  BY <1>4, FarmFacts DEF FarmTypes, buVars, fuVars, HaltBU
<1>5. CASE SetDropEventData
  BY <1>5, FarmFacts DEF FarmTypes, buVars, fuVars, SetDropEventData
<1>6. CASE ConfigureFU
  <2>1. nbEventsProcessed' \in 0 .. NbEventsBeforeExit /\ nbEventsProcessed' # NbEventsBeforeExit
    BY <1>6, FarmFacts DEF ConfigureFU
  <2> QED
    BY <1>6, <2>1 DEF FarmTypes, buVars, ConfigureFU
<1>7. CASE EnableFU
  <2>1. allocates' \in Seq(Allocates)
    BY <1>7, FarmFacts, AllocateType DEF EnableFU
  <2> QED
    BY <1>7, <2>1 DEF FarmTypes, buVars, EnableFU
<1>8. CASE FailToEnableFU
  BY <1>8, FarmFacts DEF FarmTypes, buVars, fuVars, FailToEnableFU
<1>9. CASE HaltFU
  BY <1>9, FarmFacts DEF FarmTypes, buVars, fuVars, HaltFU
<1> QED
  BY <1>1, <1>2, <1>3, <1>4, <1>5, <1>6, <1>7, <1>8, <1>9 DEF FarmCommand

Ages(S) == \A m \in S : [m EXCEPT !.of = "earlier test"] \in S /\ "of" \in DOMAIN m

LEMMA AgedMessagesType ==
  ASSUME NEW S, NEW q \in Seq(S), Ages(S)
  PROVE  AgedMessages(q) \in Seq(S) /\ Len(AgedMessages(q)) = Len(q) /\ AllMarked(Old, AgedMessages(q))
<1>1. DOMAIN q = 1..Len(q) /\ Len(q) \in Nat /\ \A i \in 1..Len(q) : q[i] \in S
  OBVIOUS
<1>2. AgedMessages(q) = [i \in 1..Len(q) |-> [q[i] EXCEPT !.of = "earlier test"]]
  BY <1>1, Zenon DEF AgedMessages
<1>3. AgedMessages(q) \in [1..Len(q) -> S]
  <2>1. ASSUME NEW i \in 1..Len(q) PROVE [q[i] EXCEPT !.of = "earlier test"] \in S
    BY <1>1 DEF Ages
  <2> QED
    BY <1>2, <2>1, Zenon
<1>4. ASSUME NEW i \in 1..Len(q) PROVE AgedMessages(q)[i].of = Old
  <2>1. q[i] \in S
    BY <1>1
  <2>2. "of" \in DOMAIN q[i] /\ AgedMessages(q)[i] = [q[i] EXCEPT !.of = Old]
    BY <1>2, <2>1 DEF Old, Ages
  <2> QED
    BY <2>2
<1>5. DOMAIN AgedMessages(q) = 1..Len(q)
  BY <1>2
<1>6. AllMarked(Old, AgedMessages(q))
  BY <1>4, <1>5 DEF AllMarked
<1>7. AgedMessages(q) \in Seq(S) /\ Len(AgedMessages(q)) = Len(q)
  BY <1>1, <1>3
<1> QED
  BY <1>6, <1>7

LEMMA MessagesAge ==
  Ages(CreditMessages) /\ Ages(Takes) /\ Ages(Allocates) /\ Ages(Discards)
<1>1. "earlier test" \in Tests
  BY DEF Tests
<1> QED
  BY <1>1 DEF CreditMessages, Takes, Allocates, Discards, Ages

\* A new test leaves the types.
LEMMA StartTypes ==
  ASSUME TriggerTypes, FarmTypes, Start
  PROVE  TriggerTypes' /\ FarmTypes'
<1>1. /\ held' = Aged(held) /\ triggers' = Aged(triggers) /\ triggerFIFO' = Aged(triggerFIFO)
      /\ events' = Aged(events) /\ credits' = AgedMessages(credits)
  BY DEF Start, TriggersAge
<1>2. /\ eventOf' = [r \in DOMAIN eventOf |-> "earlier test"]
      /\ requestFIFO' = Aged(requestFIFO) /\ takes' = AgedMessages(takes)
      /\ allocates' = AgedMessages(allocates) /\ discards' = AgedMessages(discards)
  BY DEF Start, EventsAge
<1>3. /\ held' \in Seq(Tests) /\ triggers' \in Seq(Tests) /\ triggerFIFO' \in Seq(Tests) /\ events' \in Seq(Tests)
      /\ requestFIFO' \in Seq(Tests) /\ Len(requestFIFO') = Len(requestFIFO)
  BY <1>1, <1>2, AllOfAged DEF TriggerTypes, FarmTypes
<1>4. credits' \in Seq(CreditMessages)
  BY <1>1, MessagesAge, AgedMessagesType DEF TriggerTypes
<1>5. takes' \in Seq(Takes)
  BY <1>2, MessagesAge, AgedMessagesType DEF FarmTypes
<1>6. allocates' \in Seq(Allocates)
  BY <1>2, MessagesAge, AgedMessagesType DEF FarmTypes
<1>7. discards' \in Seq(Discards)
  BY <1>2, MessagesAge, AgedMessagesType DEF FarmTypes
<1>8. DOMAIN eventOf' = DOMAIN eventOf /\ \A r \in DOMAIN eventOf' : eventOf'[r] \in Tests
  BY <1>2, TestsAre DEF Old
<1>9. UNCHANGED << ta, lost, evm, source, handlerVars, nbEvtsInBuilder >>
  BY DEF Start
<1>10. UNCHANGED << bu, dropEventData, freeResources, completeEvents, discardFIFO, fuVars >>
  BY DEF Start
<1>11. TriggerTypes'
  BY <1>3, <1>4, <1>9 DEF TriggerTypes, handlerVars
<1> QED
  BY <1>3, <1>5, <1>6, <1>7, <1>8, <1>10, <1>11 DEF FarmTypes, fuVars

-----------------------------------------------------------------------------
(* The places in the tester's script: the instructions in their order, 1 to 18 *)
(* for the start of a test, 20 to 26 for its end, 19 and 27 for nothing to do.  *)

Names == {"EVM", "BU", "RU", "TA", "RUI", "FU"}
Orders == {"Local", "DropEvents", "Configure", "Enable", "Halt"}
Instructions == { ToApp(app, event) : app \in Names, event \in Orders } \cup {Sleep, Done}
Then(condition, instruction, rest) == IF condition THEN << instruction >> \o rest ELSE rest

From18 == Then(TRUE, Done, << >>)
From17 == Then("FU" \in present, ToApp("FU", "Enable"), From18)
From16 == Then("FU" \in present, ToApp("FU", "Configure"), From17)
From15 == Then("RUI" \in present, ToApp("RUI", "Enable"), From16)
From14 == Then("RUI" \in present, Sleep, From15)
From13 == Then("RUI" \in present, ToApp("RUI", "Configure"), From14)
From12 == Then(TRUE, ToApp("BU", "Enable"), From13)
From11 == Then(TRUE, ToApp("EVM", "Enable"), From12)
From10 == Then(TRUE, ToApp("RU", "Enable"), From11)
From9 == Then(TRUE, Sleep, From10)
From8 == Then(TRUE, ToApp("RU", "Configure"), From9)
From7 == Then(TRUE, ToApp("BU", "Configure"), From8)
From6 == Then(TRUE, ToApp("EVM", "Configure"), From7)
From5 == Then("TA" \in present, ToApp("TA", "Enable"), From6)
From4 == Then("TA" \in present, ToApp("TA", "Configure"), From5)
From3 == Then("FU" \notin present, ToApp("BU", "DropEvents"), From4)
From2 == Then("RUI" \notin present, ToApp("RU", "Local"), From3)
From1 == Then("TA" \notin present, ToApp("EVM", "Local"), From2)
From26 == Then(TRUE, Done, << >>)
From25 == Then("FU" \in present, ToApp("FU", "Halt"), From26)
From24 == Then("TA" \in present, ToApp("TA", "Halt"), From25)
From23 == Then(TRUE, ToApp("RU", "Halt"), From24)
From22 == Then(TRUE, ToApp("BU", "Halt"), From23)
From21 == Then(TRUE, ToApp("EVM", "Halt"), From22)
From20 == Then("RUI" \in present, ToApp("RUI", "Halt"), From21)

From(p) ==
  CASE p = 1 -> From1
    [] p = 2 -> From2
    [] p = 3 -> From3
    [] p = 4 -> From4
    [] p = 5 -> From5
    [] p = 6 -> From6
    [] p = 7 -> From7
    [] p = 8 -> From8
    [] p = 9 -> From9
    [] p = 10 -> From10
    [] p = 11 -> From11
    [] p = 12 -> From12
    [] p = 13 -> From13
    [] p = 14 -> From14
    [] p = 15 -> From15
    [] p = 16 -> From16
    [] p = 17 -> From17
    [] p = 18 -> From18
    [] p = 19 -> << >>
    [] p = 20 -> From20
    [] p = 21 -> From21
    [] p = 22 -> From22
    [] p = 23 -> From23
    [] p = 24 -> From24
    [] p = 25 -> From25
    [] p = 26 -> From26
    [] p = 27 -> << >>

Instruction(p) ==
  CASE p = 1 -> ToApp("EVM", "Local")
    [] p = 2 -> ToApp("RU", "Local")
    [] p = 3 -> ToApp("BU", "DropEvents")
    [] p = 4 -> ToApp("TA", "Configure")
    [] p = 5 -> ToApp("TA", "Enable")
    [] p = 6 -> ToApp("EVM", "Configure")
    [] p = 7 -> ToApp("BU", "Configure")
    [] p = 8 -> ToApp("RU", "Configure")
    [] p = 9 -> Sleep
    [] p = 10 -> ToApp("RU", "Enable")
    [] p = 11 -> ToApp("EVM", "Enable")
    [] p = 12 -> ToApp("BU", "Enable")
    [] p = 13 -> ToApp("RUI", "Configure")
    [] p = 14 -> Sleep
    [] p = 15 -> ToApp("RUI", "Enable")
    [] p = 16 -> ToApp("FU", "Configure")
    [] p = 17 -> ToApp("FU", "Enable")
    [] p = 18 -> Done
    [] p = 20 -> ToApp("RUI", "Halt")
    [] p = 21 -> ToApp("EVM", "Halt")
    [] p = 22 -> ToApp("BU", "Halt")
    [] p = 23 -> ToApp("RU", "Halt")
    [] p = 24 -> ToApp("TA", "Halt")
    [] p = 25 -> ToApp("FU", "Halt")
    [] p = 26 -> Done

\* Whether there is the instruction of a place.
Has(p) ==
  /\ p = 1 => "TA" \notin present
  /\ p = 2 => "RUI" \notin present
  /\ p = 3 => "FU" \notin present
  /\ p \in {4, 5, 24} => "TA" \in present
  /\ p \in {13, 14, 15, 20} => "RUI" \in present
  /\ p \in {16, 17, 25} => "FU" \in present

LEMMA InstructionType ==
  /\ \A app \in Names, event \in Orders : ToApp(app, event) \in Instructions
  /\ Sleep \in Instructions /\ Done \in Instructions
BY DEF Instructions

LEMMA FirstOf ==
  ASSUME NEW x \in Instructions, NEW s \in Seq(Instructions)
  PROVE  /\ << x >> \o s \in Seq(Instructions) /\ << x >> \o s # << >>
         /\ Head(<< x >> \o s) = x
<1>1. << x >> \in Seq(Instructions) /\ Len(<< x >>) = 1 /\ << x >>[1] = x
  OBVIOUS
<1> QED
  BY <1>1

LEMMA RestOf ==
  ASSUME NEW x \in Instructions, NEW s \in Seq(Instructions)
  PROVE  Tail(<< x >> \o s) = s
<1>1. << x >> \in Seq(Instructions) /\ Len(<< x >>) = 1 /\ << x >>[1] = x
  OBVIOUS
<1>2. Tail(<< x >> \o s) \in Seq(Instructions) /\ Len(Tail(<< x >> \o s)) = Len(s)
  BY <1>1
<1>3. \A i \in 1..Len(s) : Tail(<< x >> \o s)[i] = s[i]
  BY <1>1, <1>2
<1> QED
  BY <1>2, <1>3

LEMMA FromIs ==
  /\ From(1) = From1
  /\ From(2) = From2
  /\ From(3) = From3
  /\ From(4) = From4
  /\ From(5) = From5
  /\ From(6) = From6
  /\ From(7) = From7
  /\ From(8) = From8
  /\ From(9) = From9
  /\ From(10) = From10
  /\ From(11) = From11
  /\ From(12) = From12
  /\ From(13) = From13
  /\ From(14) = From14
  /\ From(15) = From15
  /\ From(16) = From16
  /\ From(17) = From17
  /\ From(18) = From18
  /\ From(19) = << >>
  /\ From(20) = From20
  /\ From(21) = From21
  /\ From(22) = From22
  /\ From(23) = From23
  /\ From(24) = From24
  /\ From(25) = From25
  /\ From(26) = From26
  /\ From(27) = << >>
<1>1. From(1) = From1
  BY DEF From
<1>2. From(2) = From2
  BY DEF From
<1>3. From(3) = From3
  BY DEF From
<1>4. From(4) = From4
  BY DEF From
<1>5. From(5) = From5
  BY DEF From
<1>6. From(6) = From6
  BY DEF From
<1>7. From(7) = From7
  BY DEF From
<1>8. From(8) = From8
  BY DEF From
<1>9. From(9) = From9
  BY DEF From
<1>10. From(10) = From10
  BY DEF From
<1>11. From(11) = From11
  BY DEF From
<1>12. From(12) = From12
  BY DEF From
<1>13. From(13) = From13
  BY DEF From
<1>14. From(14) = From14
  BY DEF From
<1>15. From(15) = From15
  BY DEF From
<1>16. From(16) = From16
  BY DEF From
<1>17. From(17) = From17
  BY DEF From
<1>18. From(18) = From18
  BY DEF From
<1>19. From(19) = << >>
  BY DEF From
<1>20. From(20) = From20
  BY DEF From
<1>21. From(21) = From21
  BY DEF From
<1>22. From(22) = From22
  BY DEF From
<1>23. From(23) = From23
  BY DEF From
<1>24. From(24) = From24
  BY DEF From
<1>25. From(25) = From25
  BY DEF From
<1>26. From(26) = From26
  BY DEF From
<1>27. From(27) = << >>
  BY DEF From
<1> QED
  BY <1>1, <1>2, <1>3, <1>4, <1>5, <1>6, <1>7, <1>8, <1>9, <1>10, <1>11, <1>12, <1>13, <1>14, <1>15, <1>16, <1>17, <1>18, <1>19, <1>20, <1>21, <1>22, <1>23, <1>24, <1>25, <1>26, <1>27

\* What is left of a script is a script.
LEMMA FromType ==
  \A p \in 1..27 : From(p) \in Seq(Instructions)
<1>1. << >> \in Seq(Instructions)
  OBVIOUS
<1>2. From18 \in Seq(Instructions)
  <2>1. Done \in Instructions
    BY InstructionType DEF Names, Orders
  <2> QED
    BY <1>1, <2>1, FirstOf DEF Then, From18
<1>3. From17 \in Seq(Instructions)
  <2>1. ToApp("FU", "Enable") \in Instructions
    BY InstructionType DEF Names, Orders
  <2> QED
    BY <1>2, <2>1, FirstOf DEF Then, From17
<1>4. From16 \in Seq(Instructions)
  <2>1. ToApp("FU", "Configure") \in Instructions
    BY InstructionType DEF Names, Orders
  <2> QED
    BY <1>3, <2>1, FirstOf DEF Then, From16
<1>5. From15 \in Seq(Instructions)
  <2>1. ToApp("RUI", "Enable") \in Instructions
    BY InstructionType DEF Names, Orders
  <2> QED
    BY <1>4, <2>1, FirstOf DEF Then, From15
<1>6. From14 \in Seq(Instructions)
  <2>1. Sleep \in Instructions
    BY InstructionType DEF Names, Orders
  <2> QED
    BY <1>5, <2>1, FirstOf DEF Then, From14
<1>7. From13 \in Seq(Instructions)
  <2>1. ToApp("RUI", "Configure") \in Instructions
    BY InstructionType DEF Names, Orders
  <2> QED
    BY <1>6, <2>1, FirstOf DEF Then, From13
<1>8. From12 \in Seq(Instructions)
  <2>1. ToApp("BU", "Enable") \in Instructions
    BY InstructionType DEF Names, Orders
  <2> QED
    BY <1>7, <2>1, FirstOf DEF Then, From12
<1>9. From11 \in Seq(Instructions)
  <2>1. ToApp("EVM", "Enable") \in Instructions
    BY InstructionType DEF Names, Orders
  <2> QED
    BY <1>8, <2>1, FirstOf DEF Then, From11
<1>10. From10 \in Seq(Instructions)
  <2>1. ToApp("RU", "Enable") \in Instructions
    BY InstructionType DEF Names, Orders
  <2> QED
    BY <1>9, <2>1, FirstOf DEF Then, From10
<1>11. From9 \in Seq(Instructions)
  <2>1. Sleep \in Instructions
    BY InstructionType DEF Names, Orders
  <2> QED
    BY <1>10, <2>1, FirstOf DEF Then, From9
<1>12. From8 \in Seq(Instructions)
  <2>1. ToApp("RU", "Configure") \in Instructions
    BY InstructionType DEF Names, Orders
  <2> QED
    BY <1>11, <2>1, FirstOf DEF Then, From8
<1>13. From7 \in Seq(Instructions)
  <2>1. ToApp("BU", "Configure") \in Instructions
    BY InstructionType DEF Names, Orders
  <2> QED
    BY <1>12, <2>1, FirstOf DEF Then, From7
<1>14. From6 \in Seq(Instructions)
  <2>1. ToApp("EVM", "Configure") \in Instructions
    BY InstructionType DEF Names, Orders
  <2> QED
    BY <1>13, <2>1, FirstOf DEF Then, From6
<1>15. From5 \in Seq(Instructions)
  <2>1. ToApp("TA", "Enable") \in Instructions
    BY InstructionType DEF Names, Orders
  <2> QED
    BY <1>14, <2>1, FirstOf DEF Then, From5
<1>16. From4 \in Seq(Instructions)
  <2>1. ToApp("TA", "Configure") \in Instructions
    BY InstructionType DEF Names, Orders
  <2> QED
    BY <1>15, <2>1, FirstOf DEF Then, From4
<1>17. From3 \in Seq(Instructions)
  <2>1. ToApp("BU", "DropEvents") \in Instructions
    BY InstructionType DEF Names, Orders
  <2> QED
    BY <1>16, <2>1, FirstOf DEF Then, From3
<1>18. From2 \in Seq(Instructions)
  <2>1. ToApp("RU", "Local") \in Instructions
    BY InstructionType DEF Names, Orders
  <2> QED
    BY <1>17, <2>1, FirstOf DEF Then, From2
<1>19. From1 \in Seq(Instructions)
  <2>1. ToApp("EVM", "Local") \in Instructions
    BY InstructionType DEF Names, Orders
  <2> QED
    BY <1>18, <2>1, FirstOf DEF Then, From1
<1>20. From26 \in Seq(Instructions)
  <2>1. Done \in Instructions
    BY InstructionType DEF Names, Orders
  <2> QED
    BY <1>1, <2>1, FirstOf DEF Then, From26
<1>21. From25 \in Seq(Instructions)
  <2>1. ToApp("FU", "Halt") \in Instructions
    BY InstructionType DEF Names, Orders
  <2> QED
    BY <1>20, <2>1, FirstOf DEF Then, From25
<1>22. From24 \in Seq(Instructions)
  <2>1. ToApp("TA", "Halt") \in Instructions
    BY InstructionType DEF Names, Orders
  <2> QED
    BY <1>21, <2>1, FirstOf DEF Then, From24
<1>23. From23 \in Seq(Instructions)
  <2>1. ToApp("RU", "Halt") \in Instructions
    BY InstructionType DEF Names, Orders
  <2> QED
    BY <1>22, <2>1, FirstOf DEF Then, From23
<1>24. From22 \in Seq(Instructions)
  <2>1. ToApp("BU", "Halt") \in Instructions
    BY InstructionType DEF Names, Orders
  <2> QED
    BY <1>23, <2>1, FirstOf DEF Then, From22
<1>25. From21 \in Seq(Instructions)
  <2>1. ToApp("EVM", "Halt") \in Instructions
    BY InstructionType DEF Names, Orders
  <2> QED
    BY <1>24, <2>1, FirstOf DEF Then, From21
<1>26. From20 \in Seq(Instructions)
  <2>1. ToApp("RUI", "Halt") \in Instructions
    BY InstructionType DEF Names, Orders
  <2> QED
    BY <1>25, <2>1, FirstOf DEF Then, From20
<1>27. ASSUME NEW p \in 1..27 PROVE From(p) \in Seq(Instructions)
  <2>1. CASE p = 1
    BY ONLY <2>1, FromIs, <1>19
  <2>2. CASE p = 2
    BY ONLY <2>2, FromIs, <1>18
  <2>3. CASE p = 3
    BY ONLY <2>3, FromIs, <1>17
  <2>4. CASE p = 4
    BY ONLY <2>4, FromIs, <1>16
  <2>5. CASE p = 5
    BY ONLY <2>5, FromIs, <1>15
  <2>6. CASE p = 6
    BY ONLY <2>6, FromIs, <1>14
  <2>7. CASE p = 7
    BY ONLY <2>7, FromIs, <1>13
  <2>8. CASE p = 8
    BY ONLY <2>8, FromIs, <1>12
  <2>9. CASE p = 9
    BY ONLY <2>9, FromIs, <1>11
  <2>10. CASE p = 10
    BY ONLY <2>10, FromIs, <1>10
  <2>11. CASE p = 11
    BY ONLY <2>11, FromIs, <1>9
  <2>12. CASE p = 12
    BY ONLY <2>12, FromIs, <1>8
  <2>13. CASE p = 13
    BY ONLY <2>13, FromIs, <1>7
  <2>14. CASE p = 14
    BY ONLY <2>14, FromIs, <1>6
  <2>15. CASE p = 15
    BY ONLY <2>15, FromIs, <1>5
  <2>16. CASE p = 16
    BY ONLY <2>16, FromIs, <1>4
  <2>17. CASE p = 17
    BY ONLY <2>17, FromIs, <1>3
  <2>18. CASE p = 18
    BY ONLY <2>18, FromIs, <1>2
  <2>19. CASE p = 19
    BY ONLY <2>19, FromIs, <1>1
  <2>20. CASE p = 20
    BY ONLY <2>20, FromIs, <1>26
  <2>21. CASE p = 21
    BY ONLY <2>21, FromIs, <1>25
  <2>22. CASE p = 22
    BY ONLY <2>22, FromIs, <1>24
  <2>23. CASE p = 23
    BY ONLY <2>23, FromIs, <1>23
  <2>24. CASE p = 24
    BY ONLY <2>24, FromIs, <1>22
  <2>25. CASE p = 25
    BY ONLY <2>25, FromIs, <1>21
  <2>26. CASE p = 26
    BY ONLY <2>26, FromIs, <1>20
  <2>27. CASE p = 27
    BY ONLY <2>27, FromIs, <1>1
  <2> QED
    BY <2>1, <2>2, <2>3, <2>4, <2>5, <2>6, <2>7, <2>8, <2>9, <2>10, <2>11, <2>12, <2>13, <2>14, <2>15, <2>16, <2>17, <2>18, <2>19, <2>20, <2>21, <2>22, <2>23, <2>24, <2>25, <2>26, <2>27
<1> QED
  BY <1>27

\* What is left at a place is the instruction of it, if it is in the script, and what
\* is left at the next.
LEMMA FromNext ==
  ASSUME NEW p \in (1..26) \ {19}
  PROVE  /\ Instruction(p) \in Instructions
         /\ From(p) = IF Has(p) THEN << Instruction(p) >> \o From(p + 1) ELSE From(p + 1)
<1>1. CASE p = 1
  <2>1. Instruction(1) = ToApp("EVM", "Local") /\ 1 + 1 = 2
    BY DEF Instruction
  <2>2. ToApp("EVM", "Local") \in Instructions
    BY InstructionType DEF Names, Orders
  <2>3. Has(1) <=> ("TA" \notin present)
    BY DEF Has
  <2>4. From(1) = IF "TA" \notin present THEN << ToApp("EVM", "Local") >> \o From(2) ELSE From(2)
    BY FromIs DEF From1, Then
  <2>5. CASE "TA" \notin present
    BY <1>1, <2>1, <2>2, <2>3, <2>4, <2>5
  <2>6. CASE ~ ("TA" \notin present)
    BY <1>1, <2>1, <2>2, <2>3, <2>4, <2>6
  <2> QED
    BY <2>5, <2>6
<1>2. CASE p = 2
  <2>1. Instruction(2) = ToApp("RU", "Local") /\ 2 + 1 = 3
    BY DEF Instruction
  <2>2. ToApp("RU", "Local") \in Instructions
    BY InstructionType DEF Names, Orders
  <2>3. Has(2) <=> ("RUI" \notin present)
    BY DEF Has
  <2>4. From(2) = IF "RUI" \notin present THEN << ToApp("RU", "Local") >> \o From(3) ELSE From(3)
    BY FromIs DEF From2, Then
  <2>5. CASE "RUI" \notin present
    BY <1>2, <2>1, <2>2, <2>3, <2>4, <2>5
  <2>6. CASE ~ ("RUI" \notin present)
    BY <1>2, <2>1, <2>2, <2>3, <2>4, <2>6
  <2> QED
    BY <2>5, <2>6
<1>3. CASE p = 3
  <2>1. Instruction(3) = ToApp("BU", "DropEvents") /\ 3 + 1 = 4
    BY DEF Instruction
  <2>2. ToApp("BU", "DropEvents") \in Instructions
    BY InstructionType DEF Names, Orders
  <2>3. Has(3) <=> ("FU" \notin present)
    BY DEF Has
  <2>4. From(3) = IF "FU" \notin present THEN << ToApp("BU", "DropEvents") >> \o From(4) ELSE From(4)
    BY FromIs DEF From3, Then
  <2>5. CASE "FU" \notin present
    BY <1>3, <2>1, <2>2, <2>3, <2>4, <2>5
  <2>6. CASE ~ ("FU" \notin present)
    BY <1>3, <2>1, <2>2, <2>3, <2>4, <2>6
  <2> QED
    BY <2>5, <2>6
<1>4. CASE p = 4
  <2>1. Instruction(4) = ToApp("TA", "Configure") /\ 4 + 1 = 5
    BY DEF Instruction
  <2>2. ToApp("TA", "Configure") \in Instructions
    BY InstructionType DEF Names, Orders
  <2>3. Has(4) <=> ("TA" \in present)
    BY DEF Has
  <2>4. From(4) = IF "TA" \in present THEN << ToApp("TA", "Configure") >> \o From(5) ELSE From(5)
    BY FromIs DEF From4, Then
  <2>5. CASE "TA" \in present
    BY <1>4, <2>1, <2>2, <2>3, <2>4, <2>5
  <2>6. CASE ~ ("TA" \in present)
    BY <1>4, <2>1, <2>2, <2>3, <2>4, <2>6
  <2> QED
    BY <2>5, <2>6
<1>5. CASE p = 5
  <2>1. Instruction(5) = ToApp("TA", "Enable") /\ 5 + 1 = 6
    BY DEF Instruction
  <2>2. ToApp("TA", "Enable") \in Instructions
    BY InstructionType DEF Names, Orders
  <2>3. Has(5) <=> ("TA" \in present)
    BY DEF Has
  <2>4. From(5) = IF "TA" \in present THEN << ToApp("TA", "Enable") >> \o From(6) ELSE From(6)
    BY FromIs DEF From5, Then
  <2>5. CASE "TA" \in present
    BY <1>5, <2>1, <2>2, <2>3, <2>4, <2>5
  <2>6. CASE ~ ("TA" \in present)
    BY <1>5, <2>1, <2>2, <2>3, <2>4, <2>6
  <2> QED
    BY <2>5, <2>6
<1>6. CASE p = 6
  <2>1. Instruction(6) = ToApp("EVM", "Configure") /\ 6 + 1 = 7
    BY DEF Instruction
  <2>2. ToApp("EVM", "Configure") \in Instructions
    BY InstructionType DEF Names, Orders
  <2>3. Has(6)
    BY DEF Has
  <2>4. From(6) = << ToApp("EVM", "Configure") >> \o From(7)
    BY FromIs DEF From6, Then
  <2> QED
    BY <1>6, <2>1, <2>2, <2>3, <2>4
<1>7. CASE p = 7
  <2>1. Instruction(7) = ToApp("BU", "Configure") /\ 7 + 1 = 8
    BY DEF Instruction
  <2>2. ToApp("BU", "Configure") \in Instructions
    BY InstructionType DEF Names, Orders
  <2>3. Has(7)
    BY DEF Has
  <2>4. From(7) = << ToApp("BU", "Configure") >> \o From(8)
    BY FromIs DEF From7, Then
  <2> QED
    BY <1>7, <2>1, <2>2, <2>3, <2>4
<1>8. CASE p = 8
  <2>1. Instruction(8) = ToApp("RU", "Configure") /\ 8 + 1 = 9
    BY DEF Instruction
  <2>2. ToApp("RU", "Configure") \in Instructions
    BY InstructionType DEF Names, Orders
  <2>3. Has(8)
    BY DEF Has
  <2>4. From(8) = << ToApp("RU", "Configure") >> \o From(9)
    BY FromIs DEF From8, Then
  <2> QED
    BY <1>8, <2>1, <2>2, <2>3, <2>4
<1>9. CASE p = 9
  <2>1. Instruction(9) = Sleep /\ 9 + 1 = 10
    BY DEF Instruction
  <2>2. Sleep \in Instructions
    BY InstructionType DEF Names, Orders
  <2>3. Has(9)
    BY DEF Has
  <2>4. From(9) = << Sleep >> \o From(10)
    BY FromIs DEF From9, Then
  <2> QED
    BY <1>9, <2>1, <2>2, <2>3, <2>4
<1>10. CASE p = 10
  <2>1. Instruction(10) = ToApp("RU", "Enable") /\ 10 + 1 = 11
    BY DEF Instruction
  <2>2. ToApp("RU", "Enable") \in Instructions
    BY InstructionType DEF Names, Orders
  <2>3. Has(10)
    BY DEF Has
  <2>4. From(10) = << ToApp("RU", "Enable") >> \o From(11)
    BY FromIs DEF From10, Then
  <2> QED
    BY <1>10, <2>1, <2>2, <2>3, <2>4
<1>11. CASE p = 11
  <2>1. Instruction(11) = ToApp("EVM", "Enable") /\ 11 + 1 = 12
    BY DEF Instruction
  <2>2. ToApp("EVM", "Enable") \in Instructions
    BY InstructionType DEF Names, Orders
  <2>3. Has(11)
    BY DEF Has
  <2>4. From(11) = << ToApp("EVM", "Enable") >> \o From(12)
    BY FromIs DEF From11, Then
  <2> QED
    BY <1>11, <2>1, <2>2, <2>3, <2>4
<1>12. CASE p = 12
  <2>1. Instruction(12) = ToApp("BU", "Enable") /\ 12 + 1 = 13
    BY DEF Instruction
  <2>2. ToApp("BU", "Enable") \in Instructions
    BY InstructionType DEF Names, Orders
  <2>3. Has(12)
    BY DEF Has
  <2>4. From(12) = << ToApp("BU", "Enable") >> \o From(13)
    BY FromIs DEF From12, Then
  <2> QED
    BY <1>12, <2>1, <2>2, <2>3, <2>4
<1>13. CASE p = 13
  <2>1. Instruction(13) = ToApp("RUI", "Configure") /\ 13 + 1 = 14
    BY DEF Instruction
  <2>2. ToApp("RUI", "Configure") \in Instructions
    BY InstructionType DEF Names, Orders
  <2>3. Has(13) <=> ("RUI" \in present)
    BY DEF Has
  <2>4. From(13) = IF "RUI" \in present THEN << ToApp("RUI", "Configure") >> \o From(14) ELSE From(14)
    BY FromIs DEF From13, Then
  <2>5. CASE "RUI" \in present
    BY <1>13, <2>1, <2>2, <2>3, <2>4, <2>5
  <2>6. CASE ~ ("RUI" \in present)
    BY <1>13, <2>1, <2>2, <2>3, <2>4, <2>6
  <2> QED
    BY <2>5, <2>6
<1>14. CASE p = 14
  <2>1. Instruction(14) = Sleep /\ 14 + 1 = 15
    BY DEF Instruction
  <2>2. Sleep \in Instructions
    BY InstructionType DEF Names, Orders
  <2>3. Has(14) <=> ("RUI" \in present)
    BY DEF Has
  <2>4. From(14) = IF "RUI" \in present THEN << Sleep >> \o From(15) ELSE From(15)
    BY FromIs DEF From14, Then
  <2>5. CASE "RUI" \in present
    BY <1>14, <2>1, <2>2, <2>3, <2>4, <2>5
  <2>6. CASE ~ ("RUI" \in present)
    BY <1>14, <2>1, <2>2, <2>3, <2>4, <2>6
  <2> QED
    BY <2>5, <2>6
<1>15. CASE p = 15
  <2>1. Instruction(15) = ToApp("RUI", "Enable") /\ 15 + 1 = 16
    BY DEF Instruction
  <2>2. ToApp("RUI", "Enable") \in Instructions
    BY InstructionType DEF Names, Orders
  <2>3. Has(15) <=> ("RUI" \in present)
    BY DEF Has
  <2>4. From(15) = IF "RUI" \in present THEN << ToApp("RUI", "Enable") >> \o From(16) ELSE From(16)
    BY FromIs DEF From15, Then
  <2>5. CASE "RUI" \in present
    BY <1>15, <2>1, <2>2, <2>3, <2>4, <2>5
  <2>6. CASE ~ ("RUI" \in present)
    BY <1>15, <2>1, <2>2, <2>3, <2>4, <2>6
  <2> QED
    BY <2>5, <2>6
<1>16. CASE p = 16
  <2>1. Instruction(16) = ToApp("FU", "Configure") /\ 16 + 1 = 17
    BY DEF Instruction
  <2>2. ToApp("FU", "Configure") \in Instructions
    BY InstructionType DEF Names, Orders
  <2>3. Has(16) <=> ("FU" \in present)
    BY DEF Has
  <2>4. From(16) = IF "FU" \in present THEN << ToApp("FU", "Configure") >> \o From(17) ELSE From(17)
    BY FromIs DEF From16, Then
  <2>5. CASE "FU" \in present
    BY <1>16, <2>1, <2>2, <2>3, <2>4, <2>5
  <2>6. CASE ~ ("FU" \in present)
    BY <1>16, <2>1, <2>2, <2>3, <2>4, <2>6
  <2> QED
    BY <2>5, <2>6
<1>17. CASE p = 17
  <2>1. Instruction(17) = ToApp("FU", "Enable") /\ 17 + 1 = 18
    BY DEF Instruction
  <2>2. ToApp("FU", "Enable") \in Instructions
    BY InstructionType DEF Names, Orders
  <2>3. Has(17) <=> ("FU" \in present)
    BY DEF Has
  <2>4. From(17) = IF "FU" \in present THEN << ToApp("FU", "Enable") >> \o From(18) ELSE From(18)
    BY FromIs DEF From17, Then
  <2>5. CASE "FU" \in present
    BY <1>17, <2>1, <2>2, <2>3, <2>4, <2>5
  <2>6. CASE ~ ("FU" \in present)
    BY <1>17, <2>1, <2>2, <2>3, <2>4, <2>6
  <2> QED
    BY <2>5, <2>6
<1>18. CASE p = 18
  <2>1. Instruction(18) = Done /\ 18 + 1 = 19
    BY DEF Instruction
  <2>2. Done \in Instructions
    BY InstructionType DEF Names, Orders
  <2>3. Has(18)
    BY DEF Has
  <2>4. From(18) = << Done >> \o From(19)
    BY FromIs DEF From18, Then
  <2> QED
    BY <1>18, <2>1, <2>2, <2>3, <2>4
<1>19. CASE p = 20
  <2>1. Instruction(20) = ToApp("RUI", "Halt") /\ 20 + 1 = 21
    BY DEF Instruction
  <2>2. ToApp("RUI", "Halt") \in Instructions
    BY InstructionType DEF Names, Orders
  <2>3. Has(20) <=> ("RUI" \in present)
    BY DEF Has
  <2>4. From(20) = IF "RUI" \in present THEN << ToApp("RUI", "Halt") >> \o From(21) ELSE From(21)
    BY FromIs DEF From20, Then
  <2>5. CASE "RUI" \in present
    BY <1>19, <2>1, <2>2, <2>3, <2>4, <2>5
  <2>6. CASE ~ ("RUI" \in present)
    BY <1>19, <2>1, <2>2, <2>3, <2>4, <2>6
  <2> QED
    BY <2>5, <2>6
<1>20. CASE p = 21
  <2>1. Instruction(21) = ToApp("EVM", "Halt") /\ 21 + 1 = 22
    BY DEF Instruction
  <2>2. ToApp("EVM", "Halt") \in Instructions
    BY InstructionType DEF Names, Orders
  <2>3. Has(21)
    BY DEF Has
  <2>4. From(21) = << ToApp("EVM", "Halt") >> \o From(22)
    BY FromIs DEF From21, Then
  <2> QED
    BY <1>20, <2>1, <2>2, <2>3, <2>4
<1>21. CASE p = 22
  <2>1. Instruction(22) = ToApp("BU", "Halt") /\ 22 + 1 = 23
    BY DEF Instruction
  <2>2. ToApp("BU", "Halt") \in Instructions
    BY InstructionType DEF Names, Orders
  <2>3. Has(22)
    BY DEF Has
  <2>4. From(22) = << ToApp("BU", "Halt") >> \o From(23)
    BY FromIs DEF From22, Then
  <2> QED
    BY <1>21, <2>1, <2>2, <2>3, <2>4
<1>22. CASE p = 23
  <2>1. Instruction(23) = ToApp("RU", "Halt") /\ 23 + 1 = 24
    BY DEF Instruction
  <2>2. ToApp("RU", "Halt") \in Instructions
    BY InstructionType DEF Names, Orders
  <2>3. Has(23)
    BY DEF Has
  <2>4. From(23) = << ToApp("RU", "Halt") >> \o From(24)
    BY FromIs DEF From23, Then
  <2> QED
    BY <1>22, <2>1, <2>2, <2>3, <2>4
<1>23. CASE p = 24
  <2>1. Instruction(24) = ToApp("TA", "Halt") /\ 24 + 1 = 25
    BY DEF Instruction
  <2>2. ToApp("TA", "Halt") \in Instructions
    BY InstructionType DEF Names, Orders
  <2>3. Has(24) <=> ("TA" \in present)
    BY DEF Has
  <2>4. From(24) = IF "TA" \in present THEN << ToApp("TA", "Halt") >> \o From(25) ELSE From(25)
    BY FromIs DEF From24, Then
  <2>5. CASE "TA" \in present
    BY <1>23, <2>1, <2>2, <2>3, <2>4, <2>5
  <2>6. CASE ~ ("TA" \in present)
    BY <1>23, <2>1, <2>2, <2>3, <2>4, <2>6
  <2> QED
    BY <2>5, <2>6
<1>24. CASE p = 25
  <2>1. Instruction(25) = ToApp("FU", "Halt") /\ 25 + 1 = 26
    BY DEF Instruction
  <2>2. ToApp("FU", "Halt") \in Instructions
    BY InstructionType DEF Names, Orders
  <2>3. Has(25) <=> ("FU" \in present)
    BY DEF Has
  <2>4. From(25) = IF "FU" \in present THEN << ToApp("FU", "Halt") >> \o From(26) ELSE From(26)
    BY FromIs DEF From25, Then
  <2>5. CASE "FU" \in present
    BY <1>24, <2>1, <2>2, <2>3, <2>4, <2>5
  <2>6. CASE ~ ("FU" \in present)
    BY <1>24, <2>1, <2>2, <2>3, <2>4, <2>6
  <2> QED
    BY <2>5, <2>6
<1>25. CASE p = 26
  <2>1. Instruction(26) = Done /\ 26 + 1 = 27
    BY DEF Instruction
  <2>2. Done \in Instructions
    BY InstructionType DEF Names, Orders
  <2>3. Has(26)
    BY DEF Has
  <2>4. From(26) = << Done >> \o From(27)
    BY FromIs DEF From26, Then
  <2> QED
    BY <1>25, <2>1, <2>2, <2>3, <2>4
<1> QED
  BY <1>1, <1>2, <1>3, <1>4, <1>5, <1>6, <1>7, <1>8, <1>9, <1>10, <1>11, <1>12, <1>13, <1>14, <1>15, <1>16, <1>17, <1>18, <1>19, <1>20, <1>21, <1>22, <1>23, <1>24, <1>25

\* From each place on there is an instruction, or the script ends.
LEMMA NextPlace ==
  ASSUME NEW r \in 1..27
  PROVE  \E q \in r..27 : Has(q) /\ From(r) = From(q) /\ \A k \in r..(q - 1) : ~ Has(k)
<1> DEFINE Ends(i) == \E q \in i..27 : Has(q) /\ From(i) = From(q) /\ \A k \in i..(q - 1) : ~ Has(k)
<1>1. ASSUME NEW i \in 1..27, Has(i) PROVE Ends(i)
  BY <1>1
<1>2. ASSUME NEW i \in (1..26) \ {19}, ~ Has(i), Ends(i + 1) PROVE Ends(i)
  <2>1. PICK q \in (i + 1)..27 : Has(q) /\ From(i + 1) = From(q) /\ \A k \in (i + 1)..(q - 1) : ~ Has(k)
    BY <1>2
  <2>2. From(i) = From(i + 1)
    BY <1>2, FromNext
  <2>3. \A k \in i..(q - 1) : k = i \/ k \in (i + 1)..(q - 1)
    OBVIOUS
  <2>4. q \in i..27
    OBVIOUS
  <2> QED
    BY <1>2, <2>1, <2>2, <2>3, <2>4
<1>3. Has(27) /\ Has(19)
  BY DEF Has
<1> HIDE DEF Ends
<1>4. Ends(27)
  BY <1>1, <1>3
<1>5. Ends(26)
  BY <1>1, <1>2, <1>4
<1>6. Ends(25)
  BY <1>1, <1>2, <1>5
<1>7. Ends(24)
  BY <1>1, <1>2, <1>6
<1>8. Ends(23)
  BY <1>1, <1>2, <1>7
<1>9. Ends(22)
  BY <1>1, <1>2, <1>8
<1>10. Ends(21)
  BY <1>1, <1>2, <1>9
<1>11. Ends(20)
  BY <1>1, <1>2, <1>10
<1>12. Ends(19)
  BY <1>1, <1>3
<1>13. Ends(18)
  BY <1>1, <1>2, <1>12
<1>14. Ends(17)
  BY <1>1, <1>2, <1>13
<1>15. Ends(16)
  BY <1>1, <1>2, <1>14
<1>16. Ends(15)
  BY <1>1, <1>2, <1>15
<1>17. Ends(14)
  BY <1>1, <1>2, <1>16
<1>18. Ends(13)
  BY <1>1, <1>2, <1>17
<1>19. Ends(12)
  BY <1>1, <1>2, <1>18
<1>20. Ends(11)
  BY <1>1, <1>2, <1>19
<1>21. Ends(10)
  BY <1>1, <1>2, <1>20
<1>22. Ends(9)
  BY <1>1, <1>2, <1>21
<1>23. Ends(8)
  BY <1>1, <1>2, <1>22
<1>24. Ends(7)
  BY <1>1, <1>2, <1>23
<1>25. Ends(6)
  BY <1>1, <1>2, <1>24
<1>26. Ends(5)
  BY <1>1, <1>2, <1>25
<1>27. Ends(4)
  BY <1>1, <1>2, <1>26
<1>28. Ends(3)
  BY <1>1, <1>2, <1>27
<1>29. Ends(2)
  BY <1>1, <1>2, <1>28
<1>30. Ends(1)
  BY <1>1, <1>2, <1>29
<1>31. Ends(r)
  BY <1>4, <1>5, <1>6, <1>7, <1>8, <1>9, <1>10, <1>11, <1>12, <1>13, <1>14, <1>15, <1>16, <1>17, <1>18, <1>19, <1>20, <1>21, <1>22, <1>23, <1>24, <1>25, <1>26, <1>27, <1>28, <1>29, <1>30
<1> QED
  BY <1>31 DEF Ends

-----------------------------------------------------------------------------
(* The scripts are what is left of them at their first places.             *)

\* The scripts of the tester are what there is from the first place on.
LEMMA PartsOfScript ==
  ASSUME NEW a \in Seq(Instructions), NEW b \in Seq(Instructions), NEW s \in Seq(Instructions)
  PROVE  /\ (a \o b) \o s = a \o (b \o s)
         /\ a \o s \in Seq(Instructions) /\ << >> \o s = s /\ s \o << >> = s
BY ConcatAssociative, ConcatEmptySeq

LEMMA Peel ==
  ASSUME NEW w \in Seq(Instructions), NEW r \in Seq(Instructions), Len(w) = Len(r) + 1,
         \A i \in 1..Len(r) : w[i + 1] = r[i],
         NEW s \in Seq(Instructions)
  PROVE  w[1] \in Instructions /\ w \o s = << w[1] >> \o (r \o s)
<1>1. Len(r) \in Nat /\ w[1] \in Instructions
  OBVIOUS
<1> DEFINE v == << w[1] >>
<1>2. v \in Seq(Instructions) /\ Len(v) = 1 /\ v[1] = w[1]
  BY <1>1
<1> HIDE DEF v
<1>3. /\ v \o r \in Seq(Instructions) /\ Len(v \o r) = 1 + Len(r)
      /\ \A i \in 1 .. 1 + Len(r) : (v \o r)[i] = IF i <= 1 THEN v[i] ELSE r[i - 1]
  <2>1. r \in Seq(Instructions)
    OBVIOUS
  <2>2. /\ v \o r \in Seq(Instructions) /\ Len(v \o r) = Len(v) + Len(r)
        /\ \A i \in 1 .. Len(v) + Len(r) : (v \o r)[i] = IF i <= Len(v) THEN v[i] ELSE r[i - Len(v)]
    BY ONLY <1>2, <2>1, ConcatProperties, Zenon
  <2> QED
    BY ONLY <1>2, <2>2
<1>4. ASSUME NEW i \in 1..Len(w) PROVE (v \o r)[i] = w[i]
  <2>1. (v \o r)[i] = IF i <= 1 THEN v[i] ELSE r[i - 1]
    BY ONLY <1>1, <1>3, Len(w) = Len(r) + 1, i \in 1..Len(w)
  <2>2. i = 1 \/ (i - 1 \in 1..Len(r) /\ (i - 1) + 1 = i /\ ~ (i <= 1))
    BY ONLY <1>1, Len(w) = Len(r) + 1, i \in 1..Len(w)
  <2>3. i - 1 \in 1..Len(r) => w[(i - 1) + 1] = r[i - 1]
    OBVIOUS
  <2> QED
    BY ONLY <1>2, <2>1, <2>2, <2>3
<1>5. v \o r = w
  <2>1. Len(v \o r) = Len(w) /\ w \in Seq(Instructions)
    BY <1>3
  <2> QED
    BY ONLY <1>3, <1>4, <2>1
<1>6. w \o s = v \o (r \o s)
  BY <1>2, <1>5, PartsOfScript
<1> QED
  BY <1>1, <1>6 DEF v

LEMMA Two ==
  ASSUME NEW x \in Instructions, NEW y \in Instructions, NEW s \in Seq(Instructions)
  PROVE  << x, y >> \o s = << x >> \o (<< y >> \o s)
<1> DEFINE w == << x, y >>
           r == << y >>
<1>1. w \in Seq(Instructions) /\ r \in Seq(Instructions) /\ Len(w) = Len(r) + 1 /\ w[1] = x
      /\ \A i \in 1..Len(r) : w[i + 1] = r[i]
  OBVIOUS
<1> HIDE DEF w, r
<1>2. w \in Seq(Instructions) /\ w \o s = << x >> \o (r \o s)
  BY <1>1, Peel
<1> QED
  BY <1>2 DEF w, r

LEMMA Three ==
  ASSUME NEW x \in Instructions, NEW y \in Instructions, NEW z \in Instructions, NEW s \in Seq(Instructions)
  PROVE  << x, y, z >> \o s = << x >> \o (<< y >> \o (<< z >> \o s))
<1> DEFINE w == << x, y, z >>
           r == << y, z >>
<1>1. w \in Seq(Instructions) /\ r \in Seq(Instructions) /\ Len(w) = 3 /\ Len(r) = 2 /\ w[1] = x
      /\ w[2] = r[1] /\ w[3] = r[2]
  OBVIOUS
<1>2. r \o s = << y >> \o (<< z >> \o s)
  BY Two
<1> HIDE DEF w, r
<1>3. \A i \in 1..Len(r) : w[i + 1] = r[i]
  <2>1. \A i \in 1..Len(r) : i = 1 \/ i = 2
    BY <1>1
  <2> QED
    BY <1>1, <2>1
<1>4. Len(w) = Len(r) + 1
  BY ONLY <1>1
<1>5. w \o s = << w[1] >> \o (r \o s)
  BY ONLY <1>1, <1>3, <1>4, s \in Seq(Instructions), Peel
<1> QED
  BY <1>1, <1>2, <1>5 DEF w

\* A part that is put in on a condition.
LEMMA Regroup ==
  ASSUME NEW a \in Seq(Instructions), NEW b \in Seq(Instructions), NEW s \in Seq(Instructions)
  PROVE  (a \o b) \o s = a \o (b \o s)
BY ConcatAssociative

LEMMA NoPart ==
  ASSUME NEW s \in Seq(Instructions)
  PROVE  << >> \o s = s
BY ConcatEmptySeq

LEMMA ScriptTypes ==
  /\ << SetParameters[1] >> \in Seq(Instructions) /\ << SetParameters[2] >> \in Seq(Instructions)
  /\ << SetParameters[3] >> \in Seq(Instructions) /\ << Done >> \in Seq(Instructions)
  /\ StartTrigger \in Seq(Instructions) /\ StartRuBuilder \in Seq(Instructions)
  /\ StartFilterFarm \in Seq(Instructions) /\ StartFedBuilder \in Seq(Instructions)
  /\ StopRuBuilder \in Seq(Instructions)
  /\ << ToApp("RUI", "Halt") >> \in Seq(Instructions) /\ << ToApp("TA", "Halt") >> \in Seq(Instructions)
  /\ << ToApp("FU", "Halt") >> \in Seq(Instructions)
<1>1. \A app \in Names, event \in Orders : << ToApp(app, event) >> \in Seq(Instructions)
  BY InstructionType
<1>2. SetParameters[1] = ToApp("EVM", "Local") /\ SetParameters[2] = ToApp("RU", "Local")
      /\ SetParameters[3] = ToApp("BU", "DropEvents")
  BY DEF SetParameters
<1> USE InstructionType DEF Names, Orders
<1>3. StartTrigger \in Seq(Instructions)
  BY DEF StartTrigger
<1>4. StartRuBuilder \in Seq(Instructions)
  BY DEF StartRuBuilder
<1>5. StartFilterFarm \in Seq(Instructions)
  BY DEF StartFilterFarm
<1>6. StartFedBuilder \in Seq(Instructions)
  BY DEF StartFedBuilder
<1>7. StopRuBuilder \in Seq(Instructions)
  BY DEF StopRuBuilder
<1>8. << Done >> \in Seq(Instructions)
  OBVIOUS
<1>9. << SetParameters[1] >> \in Seq(Instructions) /\ << SetParameters[2] >> \in Seq(Instructions)
      /\ << SetParameters[3] >> \in Seq(Instructions)
  BY <1>1, <1>2
<1>10. << ToApp("RUI", "Halt") >> \in Seq(Instructions) /\ << ToApp("TA", "Halt") >> \in Seq(Instructions)
      /\ << ToApp("FU", "Halt") >> \in Seq(Instructions)
  BY <1>1
<1> QED
  BY <1>3, <1>4, <1>5, <1>6, <1>7, <1>8, <1>9, <1>10

LEMMA RestTypes ==
  /\ From2 \in Seq(Instructions) /\ From3 \in Seq(Instructions) /\ From4 \in Seq(Instructions)
  /\ From6 \in Seq(Instructions) /\ From13 \in Seq(Instructions) /\ From16 \in Seq(Instructions)
  /\ From18 \in Seq(Instructions) /\ From21 \in Seq(Instructions) /\ From24 \in Seq(Instructions)
  /\ From25 \in Seq(Instructions) /\ From26 \in Seq(Instructions) /\ From20 \in Seq(Instructions)
  /\ From1 \in Seq(Instructions)
BY FromIs, FromType

LEMMA PartsOfStart ==
  /\ From18 = << Done >>
  /\ From16 = If("FU" \in present, StartFilterFarm) \o From18
  /\ From13 = If("RUI" \in present, StartFedBuilder) \o From16
  /\ From6 = StartRuBuilder \o From13
  /\ From4 = If("TA" \in present, StartTrigger) \o From6
  /\ From3 = If("FU" \notin present, << SetParameters[3] >>) \o From4
  /\ From2 = If("RUI" \notin present, << SetParameters[2] >>) \o From3
  /\ From1 = If("TA" \notin present, << SetParameters[1] >>) \o From2
<1>1. \A app \in Names, event \in Orders : ToApp(app, event) \in Instructions
  BY InstructionType
<1>2. From18 = << Done >>
  <2>1. << Done >> \in Seq(Instructions)
    BY ScriptTypes
  <2>2. << Done >> \o << >> = << Done >>
    BY <2>1, ConcatEmptySeq
  <2> QED
    BY <2>2 DEF From18, Then
<1>3. StartFilterFarm \o From18 = << ToApp("FU", "Configure") >> \o (<< ToApp("FU", "Enable") >> \o From18)
  <2>1. ToApp("FU", "Configure") \in Instructions /\ ToApp("FU", "Enable") \in Instructions
    BY <1>1 DEF Names, Orders
  <2>2. From18 \in Seq(Instructions)
    BY RestTypes
  <2> QED
    BY ONLY <2>1, <2>2, Two DEF StartFilterFarm
<1>4. From16 = If("FU" \in present, StartFilterFarm) \o From18
  <2>1. CASE "FU" \in present
    BY <2>1, <1>3 DEF From16, From17, Then, If
  <2>2. CASE ~ ("FU" \in present)
    <3>1. << >> \o From18 = From18
      BY NoPart, RestTypes
    <3> QED
      BY <2>2, <3>1 DEF From16, From17, Then, If
  <2> QED
    BY <2>1, <2>2
<1>5. StartFedBuilder \o From16
         = << ToApp("RUI", "Configure") >> \o (<< Sleep >> \o (<< ToApp("RUI", "Enable") >> \o From16))
  <2>1. ToApp("RUI", "Configure") \in Instructions /\ ToApp("RUI", "Enable") \in Instructions /\ Sleep \in Instructions
    BY <1>1, InstructionType DEF Names, Orders
  <2>2. From16 \in Seq(Instructions)
    BY RestTypes
  <2> QED
    BY ONLY <2>1, <2>2, Three DEF StartFedBuilder
<1>6. From13 = If("RUI" \in present, StartFedBuilder) \o From16
  <2>1. CASE "RUI" \in present
    BY <2>1, <1>5 DEF From13, From14, From15, Then, If
  <2>2. CASE ~ ("RUI" \in present)
    <3>1. << >> \o From16 = From16
      BY NoPart, RestTypes
    <3> QED
      BY <2>2, <3>1 DEF From13, From14, From15, Then, If
  <2> QED
    BY <2>1, <2>2
<1>7. From6 = StartRuBuilder \o From13
  <2>1. /\ ToApp("EVM", "Configure") \in Instructions /\ ToApp("BU", "Configure") \in Instructions
        /\ ToApp("RU", "Configure") \in Instructions /\ Sleep \in Instructions
        /\ ToApp("RU", "Enable") \in Instructions /\ ToApp("EVM", "Enable") \in Instructions
        /\ ToApp("BU", "Enable") \in Instructions
    BY <1>1, InstructionType DEF Names, Orders
  <2>2. From13 \in Seq(Instructions)
    BY RestTypes
  <2> QED
    <3>1. PICK a \in Instructions : a = ToApp("EVM", "Configure")
      BY <2>1
    <3>2. PICK b \in Instructions : b = ToApp("BU", "Configure")
      BY <2>1
    <3>3. PICK c \in Instructions : c = ToApp("RU", "Configure")
      BY <2>1
    <3>4. PICK d \in Instructions : d = Sleep
      BY <2>1
    <3>5. PICK x \in Instructions : x = ToApp("RU", "Enable")
      BY <2>1
    <3>6. PICK y \in Instructions : y = ToApp("EVM", "Enable")
      BY <2>1
    <3>7. PICK z \in Instructions : z = ToApp("BU", "Enable")
      BY <2>1
    <3>8. PICK s \in Seq(Instructions) : s = From13
      BY <2>2
    <3>9. << a, b, c, d, x, y, z >> \o s
            = << a >> \o (<< b >> \o (<< c >> \o (<< d >> \o (<< x >> \o (<< y >> \o (<< z >> \o s))))))
      <4> DEFINE w1 == << a, b, c, d, x, y, z >>
                 w2 == << b, c, d, x, y, z >>
                 w3 == << c, d, x, y, z >>
                 w4 == << d, x, y, z >>
                 w5 == << x, y, z >>
      <4>1. w1 \o s = << a >> \o (w2 \o s)
        <5>1. w1 \in Seq(Instructions) /\ w2 \in Seq(Instructions) /\ Len(w1) = 7 /\ Len(w2) = 6 /\ w1[1] = a
          OBVIOUS
        <5>2. w1[1 + 1] = w2[1] /\ w1[2 + 1] = w2[2] /\ w1[3 + 1] = w2[3] /\ w1[4 + 1] = w2[4] /\ w1[5 + 1] = w2[5] /\ w1[6 + 1] = w2[6]
          OBVIOUS
        <5> HIDE DEF w1, w2
        <5>3. \A i \in 1..Len(w2) : w1[i + 1] = w2[i]
          <6>1. \A i \in 1..Len(w2) : i = 1 \/ i = 2 \/ i = 3 \/ i = 4 \/ i = 5 \/ i = 6
            BY ONLY <5>1
          <6> QED
            BY ONLY <5>2, <6>1
        <5>4. Len(w1) = Len(w2) + 1
          BY ONLY <5>1
        <5> QED
          BY ONLY <5>1, <5>3, <5>4, s \in Seq(Instructions), Peel
      <4>2. w2 \o s = << b >> \o (w3 \o s)
        <5>1. w2 \in Seq(Instructions) /\ w3 \in Seq(Instructions) /\ Len(w2) = 6 /\ Len(w3) = 5 /\ w2[1] = b
          OBVIOUS
        <5>2. w2[1 + 1] = w3[1] /\ w2[2 + 1] = w3[2] /\ w2[3 + 1] = w3[3] /\ w2[4 + 1] = w3[4] /\ w2[5 + 1] = w3[5]
          OBVIOUS
        <5> HIDE DEF w2, w3
        <5>3. \A i \in 1..Len(w3) : w2[i + 1] = w3[i]
          <6>1. \A i \in 1..Len(w3) : i = 1 \/ i = 2 \/ i = 3 \/ i = 4 \/ i = 5
            BY ONLY <5>1
          <6> QED
            BY ONLY <5>2, <6>1
        <5>4. Len(w2) = Len(w3) + 1
          BY ONLY <5>1
        <5> QED
          BY ONLY <5>1, <5>3, <5>4, s \in Seq(Instructions), Peel
      <4>3. w3 \o s = << c >> \o (w4 \o s)
        <5>1. w3 \in Seq(Instructions) /\ w4 \in Seq(Instructions) /\ Len(w3) = 5 /\ Len(w4) = 4 /\ w3[1] = c
          OBVIOUS
        <5>2. w3[1 + 1] = w4[1] /\ w3[2 + 1] = w4[2] /\ w3[3 + 1] = w4[3] /\ w3[4 + 1] = w4[4]
          OBVIOUS
        <5> HIDE DEF w3, w4
        <5>3. \A i \in 1..Len(w4) : w3[i + 1] = w4[i]
          <6>1. \A i \in 1..Len(w4) : i = 1 \/ i = 2 \/ i = 3 \/ i = 4
            BY ONLY <5>1
          <6> QED
            BY ONLY <5>2, <6>1
        <5>4. Len(w3) = Len(w4) + 1
          BY ONLY <5>1
        <5> QED
          BY ONLY <5>1, <5>3, <5>4, s \in Seq(Instructions), Peel
      <4>4. w4 \o s = << d >> \o (w5 \o s)
        <5>1. w4 \in Seq(Instructions) /\ w5 \in Seq(Instructions) /\ Len(w4) = 4 /\ Len(w5) = 3 /\ w4[1] = d
          OBVIOUS
        <5>2. w4[1 + 1] = w5[1] /\ w4[2 + 1] = w5[2] /\ w4[3 + 1] = w5[3]
          OBVIOUS
        <5> HIDE DEF w4, w5
        <5>3. \A i \in 1..Len(w5) : w4[i + 1] = w5[i]
          <6>1. \A i \in 1..Len(w5) : i = 1 \/ i = 2 \/ i = 3
            BY ONLY <5>1
          <6> QED
            BY ONLY <5>2, <6>1
        <5>4. Len(w4) = Len(w5) + 1
          BY ONLY <5>1
        <5> QED
          BY ONLY <5>1, <5>3, <5>4, s \in Seq(Instructions), Peel
      <4>5. w5 \o s = << x >> \o (<< y >> \o (<< z >> \o s))
        BY ONLY x \in Instructions, y \in Instructions, z \in Instructions, s \in Seq(Instructions), Three, SMTT(40)
      <4> HIDE DEF w1, w2, w3, w4, w5
      <4>6. w1 \o s = << a >> \o (<< b >> \o (<< c >> \o (<< d >> \o (<< x >> \o (<< y >> \o (<< z >> \o s))))))
        BY ONLY <4>1, <4>2, <4>3, <4>4, <4>5
      <4> QED
        BY <4>6 DEF w1
    <3>10. StartRuBuilder = << a, b, c, d, x, y, z >>
      BY <3>1, <3>2, <3>3, <3>4, <3>5, <3>6, <3>7 DEF StartRuBuilder
    <3>11. From6 = << a >> \o (<< b >> \o (<< c >> \o (<< d >> \o (<< x >> \o (<< y >> \o (<< z >> \o From13))))))
      BY <3>1, <3>2, <3>3, <3>4, <3>5, <3>6, <3>7 DEF From6, From7, From8, From9, From10, From11, From12, Then
    <3> QED
      BY <3>9, <3>10, <3>11, <3>8
<1>8. StartTrigger \o From6 = << ToApp("TA", "Configure") >> \o (<< ToApp("TA", "Enable") >> \o From6)
  <2>1. ToApp("TA", "Configure") \in Instructions /\ ToApp("TA", "Enable") \in Instructions
    BY <1>1 DEF Names, Orders
  <2>2. From6 \in Seq(Instructions)
    BY RestTypes
  <2> QED
    BY ONLY <2>1, <2>2, Two DEF StartTrigger
<1>9. From4 = If("TA" \in present, StartTrigger) \o From6
  <2>1. CASE "TA" \in present
    BY <2>1, <1>8 DEF From4, From5, Then, If
  <2>2. CASE ~ ("TA" \in present)
    <3>1. << >> \o From6 = From6
      BY NoPart, RestTypes
    <3> QED
      BY <2>2, <3>1 DEF From4, From5, Then, If
  <2> QED
    BY <2>1, <2>2
<1>10. SetParameters[1] = ToApp("EVM", "Local") /\ SetParameters[2] = ToApp("RU", "Local")
       /\ SetParameters[3] = ToApp("BU", "DropEvents")
  BY DEF SetParameters
<1>11. From3 = If("FU" \notin present, << SetParameters[3] >>) \o From4
  <2>1. CASE "FU" \notin present
    BY <2>1, <1>10 DEF From3, Then, If
  <2>2. CASE ~ ("FU" \notin present)
    <3>1. << >> \o From4 = From4
      BY NoPart, RestTypes
    <3> QED
      BY <2>2, <3>1 DEF From3, Then, If
  <2> QED
    BY <2>1, <2>2
<1>12. From2 = If("RUI" \notin present, << SetParameters[2] >>) \o From3
  <2>1. CASE "RUI" \notin present
    BY <2>1, <1>10 DEF From2, Then, If
  <2>2. CASE ~ ("RUI" \notin present)
    <3>1. << >> \o From3 = From3
      BY NoPart, RestTypes
    <3> QED
      BY <2>2, <3>1 DEF From2, Then, If
  <2> QED
    BY <2>1, <2>2
<1>13. From1 = If("TA" \notin present, << SetParameters[1] >>) \o From2
  <2>1. CASE "TA" \notin present
    BY <2>1, <1>10 DEF From1, Then, If
  <2>2. CASE ~ ("TA" \notin present)
    <3>1. << >> \o From2 = From2
      BY NoPart, RestTypes
    <3> QED
      BY <2>2, <3>1 DEF From1, Then, If
  <2> QED
    BY <2>1, <2>2
<1> QED
  BY <1>2, <1>4, <1>6, <1>7, <1>9, <1>11, <1>12, <1>13

\* StartTest (tester/Application.cc:1404) is what is left at the first place.
LEMMA StartFromFirst ==
  StartTest = From(1)
<1> DEFINE A == If("TA" \notin present, << SetParameters[1] >>)
           B == If("RUI" \notin present, << SetParameters[2] >>)
           C == If("FU" \notin present, << SetParameters[3] >>)
           D == If("TA" \in present, StartTrigger)
           E == StartRuBuilder
           F == If("RUI" \in present, StartFedBuilder)
           G == If("FU" \in present, StartFilterFarm)
           H == << Done >>
<1>1. A \in Seq(Instructions)
  BY ScriptTypes DEF If
<1>2. B \in Seq(Instructions)
  BY ScriptTypes DEF If
<1>3. C \in Seq(Instructions)
  BY ScriptTypes DEF If
<1>4. D \in Seq(Instructions)
  BY ScriptTypes DEF If
<1>5. F \in Seq(Instructions)
  BY ScriptTypes DEF If
<1>6. G \in Seq(Instructions)
  BY ScriptTypes DEF If
<1>7. E \in Seq(Instructions) /\ H \in Seq(Instructions)
  BY ScriptTypes
<1>8. StartTest = ((((((A \o B) \o C) \o D) \o E) \o F) \o G) \o H
  BY DEF StartTest
<1>9. /\ From18 = H /\ From16 = G \o From18 /\ From13 = F \o From16 /\ From6 = E \o From13 /\ From4 = D \o From6
      /\ From3 = C \o From4 /\ From2 = B \o From3 /\ From1 = A \o From2
  BY PartsOfStart
<1> HIDE DEF A, B, C, D, E, F, G, H
<1> DEFINE AB == A \o B
           ABC == AB \o C
           ABCD == ABC \o D
           ABCDE == ABCD \o E
           ABCDEF == ABCDE \o F
<1>10. AB \in Seq(Instructions)
  BY <1>1, <1>2, PartsOfScript
<1> HIDE DEF AB
<1>11. ABC \in Seq(Instructions)
  BY <1>10, <1>3, PartsOfScript
<1> HIDE DEF ABC
<1>12. ABCD \in Seq(Instructions)
  BY <1>11, <1>4, PartsOfScript
<1> HIDE DEF ABCD
<1>13. ABCDE \in Seq(Instructions)
  BY <1>12, <1>7, PartsOfScript
<1> HIDE DEF ABCDE
<1>14. ABCDEF \in Seq(Instructions)
  BY <1>13, <1>5, PartsOfScript
<1> HIDE DEF ABCDEF
<1>15. StartTest = (ABCDEF \o G) \o From18
  BY <1>8, <1>9 DEF AB, ABC, ABCD, ABCDE, ABCDEF
<1>16. (ABCDEF \o G) \o From18 = ABCDEF \o From16
  <2>1. From18 \in Seq(Instructions)
    BY RestTypes
  <2>2. (ABCDEF \o G) \o From18 = ABCDEF \o (G \o From18)
    BY ONLY <1>6, <1>14, <2>1, Regroup
  <2> QED
    BY <2>2, <1>9
<1>17. ABCDEF \o From16 = ABCDE \o From13
  <2>1. From16 \in Seq(Instructions)
    BY RestTypes
  <2>2. (ABCDE \o F) \o From16 = ABCDE \o (F \o From16)
    BY ONLY <1>5, <1>13, <2>1, Regroup
  <2> QED
    BY <2>2, <1>9 DEF ABCDEF
<1>18. ABCDE \o From13 = ABCD \o From6
  <2>1. From13 \in Seq(Instructions)
    BY RestTypes
  <2>2. (ABCD \o E) \o From13 = ABCD \o (E \o From13)
    BY ONLY <1>7, <1>12, <2>1, Regroup
  <2> QED
    BY <2>2, <1>9 DEF ABCDE
<1>19. ABCD \o From6 = ABC \o From4
  <2>1. From6 \in Seq(Instructions)
    BY RestTypes
  <2>2. (ABC \o D) \o From6 = ABC \o (D \o From6)
    BY ONLY <1>4, <1>11, <2>1, Regroup
  <2> QED
    BY <2>2, <1>9 DEF ABCD
<1>20. ABC \o From4 = AB \o From3
  <2>1. From4 \in Seq(Instructions)
    BY RestTypes
  <2>2. (AB \o C) \o From4 = AB \o (C \o From4)
    BY ONLY <1>3, <1>10, <2>1, Regroup
  <2> QED
    BY <2>2, <1>9 DEF ABC
<1>21. AB \o From3 = A \o From2
  <2>1. From3 \in Seq(Instructions)
    BY RestTypes
  <2>2. (A \o B) \o From3 = A \o (B \o From3)
    BY ONLY <1>1, <1>2, <2>1, Regroup
  <2> QED
    BY <2>2, <1>9 DEF AB
<1> QED
  BY <1>9, <1>15, <1>16, <1>17, <1>18, <1>19, <1>20, <1>21, FromIs

\* StopTest (tester/Application.cc:1850) is what is left at place 20.
LEMMA StopFromFirst ==
  StopTest = From(20)
<1> DEFINE A == If("RUI" \in present, << ToApp("RUI", "Halt") >>)
           B == StopRuBuilder
           C == If("TA" \in present, << ToApp("TA", "Halt") >>)
           D == If("FU" \in present, << ToApp("FU", "Halt") >>)
           E == << Done >>
<1>1. A \in Seq(Instructions)
  BY ScriptTypes DEF If
<1>2. C \in Seq(Instructions)
  BY ScriptTypes DEF If
<1>3. D \in Seq(Instructions)
  BY ScriptTypes DEF If
<1>4. B \in Seq(Instructions) /\ E \in Seq(Instructions)
  BY ScriptTypes
<1>5. StopTest = (((A \o B) \o C) \o D) \o E
  BY DEF StopTest
<1>6. From26 = E
  <2>1. << Done >> \o << >> = << Done >>
    BY ScriptTypes, ConcatEmptySeq
  <2> QED
    BY <2>1 DEF From26, Then
<1>7. From25 = D \o From26
  <2>1. CASE "FU" \in present
    BY <2>1 DEF From25, Then, If
  <2>2. CASE ~ ("FU" \in present)
    <3>1. << >> \o From26 = From26
      BY NoPart, RestTypes
    <3> QED
      BY <2>2, <3>1 DEF From25, Then, If
  <2> QED
    BY <2>1, <2>2
<1>8. From24 = C \o From25
  <2>1. CASE "TA" \in present
    BY <2>1 DEF From24, Then, If
  <2>2. CASE ~ ("TA" \in present)
    <3>1. << >> \o From25 = From25
      BY NoPart, RestTypes
    <3> QED
      BY <2>2, <3>1 DEF From24, Then, If
  <2> QED
    BY <2>1, <2>2
<1>9. From21 = B \o From24
  <2>1. ToApp("EVM", "Halt") \in Instructions /\ ToApp("BU", "Halt") \in Instructions /\ ToApp("RU", "Halt") \in Instructions
    BY InstructionType DEF Names, Orders
  <2>2. From24 \in Seq(Instructions)
    BY RestTypes
  <2> QED
    BY ONLY <2>1, <2>2, Three DEF StopRuBuilder, From21, From22, From23, Then
<1>10. From20 = A \o From21
  <2>1. CASE "RUI" \in present
    BY <2>1 DEF From20, Then, If
  <2>2. CASE ~ ("RUI" \in present)
    <3>1. << >> \o From21 = From21
      BY NoPart, RestTypes
    <3> QED
      BY <2>2, <3>1 DEF From20, Then, If
  <2> QED
    BY <2>1, <2>2
<1> HIDE DEF A, B, C, D, E
<1> DEFINE AB == A \o B
           ABC == AB \o C
<1>11. AB \in Seq(Instructions)
  BY <1>1, <1>4, PartsOfScript
<1> HIDE DEF AB
<1>12. ABC \in Seq(Instructions)
  BY <1>11, <1>2, PartsOfScript
<1> HIDE DEF ABC
<1>13. StopTest = (ABC \o D) \o From26
  BY <1>5, <1>6 DEF AB, ABC
<1>14. (ABC \o D) \o From26 = ABC \o From25
  <2>1. From26 \in Seq(Instructions)
    BY RestTypes
  <2>2. (ABC \o D) \o From26 = ABC \o (D \o From26)
    BY ONLY <1>3, <1>12, <2>1, Regroup
  <2> QED
    BY <2>2, <1>7
<1>15. ABC \o From25 = AB \o From24
  <2>1. From25 \in Seq(Instructions)
    BY RestTypes
  <2>2. (AB \o C) \o From25 = AB \o (C \o From25)
    BY ONLY <1>2, <1>11, <2>1, Regroup
  <2> QED
    BY <2>2, <1>8 DEF ABC
<1>16. AB \o From24 = A \o From21
  <2>1. From24 \in Seq(Instructions)
    BY RestTypes
  <2>2. (A \o B) \o From24 = A \o (B \o From24)
    BY ONLY <1>1, <1>4, <2>1, Regroup
  <2> QED
    BY <2>2, <1>9 DEF AB
<1> QED
  BY <1>10, <1>13, <1>14, <1>15, <1>16, FromIs

-----------------------------------------------------------------------------
(* The places in a script: what is left, and what the applications are.    *)

\* What the script says at a place, and what it goes on with.
LEMMA Here ==
  ASSUME NEW p \in (1..26) \ {19}, Has(p)
  PROVE  From(p) # << >> /\ Head(From(p)) = Instruction(p) /\ Tail(From(p)) = From(p + 1)
<1>1. p + 1 \in 1..27
  OBVIOUS
<1>2. Instruction(p) \in Instructions /\ From(p) = << Instruction(p) >> \o From(p + 1) /\ From(p + 1) \in Seq(Instructions)
  BY <1>1, FromNext, FromType
<1> QED
  BY <1>2, FirstOf, RestOf

LEMMA NothingLeft ==
  From(19) = << >> /\ From(27) = << >>
BY FromIs

\* The places of the instructions.
LEMMA Places ==
  ASSUME NEW p \in (1..26) \ {19}
  PROVE  /\ Instruction(p) = ToApp("EVM", "Local") => p = 1
         /\ Instruction(p) = ToApp("RU", "Local") => p = 2
         /\ Instruction(p) = ToApp("BU", "DropEvents") => p = 3
         /\ Instruction(p) = ToApp("TA", "Configure") => p = 4
         /\ Instruction(p) = ToApp("TA", "Enable") => p = 5
         /\ Instruction(p) = ToApp("EVM", "Configure") => p = 6
         /\ Instruction(p) = ToApp("BU", "Configure") => p = 7
         /\ Instruction(p) = ToApp("RU", "Configure") => p = 8
         /\ Instruction(p) = Sleep => p \in {9, 14}
         /\ Instruction(p) = ToApp("RU", "Enable") => p = 10
         /\ Instruction(p) = ToApp("EVM", "Enable") => p = 11
         /\ Instruction(p) = ToApp("BU", "Enable") => p = 12
         /\ Instruction(p) = ToApp("RUI", "Configure") => p = 13
         /\ Instruction(p) = ToApp("RUI", "Enable") => p = 15
         /\ Instruction(p) = ToApp("FU", "Configure") => p = 16
         /\ Instruction(p) = ToApp("FU", "Enable") => p = 17
         /\ Instruction(p) = Done => p \in {18, 26}
         /\ Instruction(p) = ToApp("RUI", "Halt") => p = 20
         /\ Instruction(p) = ToApp("EVM", "Halt") => p = 21
         /\ Instruction(p) = ToApp("BU", "Halt") => p = 22
         /\ Instruction(p) = ToApp("RU", "Halt") => p = 23
         /\ Instruction(p) = ToApp("TA", "Halt") => p = 24
         /\ Instruction(p) = ToApp("FU", "Halt") => p = 25
<1>1. \/ p = 1 \/ p = 2 \/ p = 3 \/ p = 4 \/ p = 5 \/ p = 6 \/ p = 7 \/ p = 8 \/ p = 9 \/ p = 10 \/ p = 11 \/ p = 12
      \/ p = 13 \/ p = 14 \/ p = 15 \/ p = 16 \/ p = 17 \/ p = 18 \/ p = 20 \/ p = 21 \/ p = 22 \/ p = 23 \/ p = 24
      \/ p = 25 \/ p = 26
  OBVIOUS
<1>2. CASE p = 1
  BY <1>2 DEF Instruction, ToApp, Sleep, Done
<1>3. CASE p = 2
  BY <1>3 DEF Instruction, ToApp, Sleep, Done
<1>4. CASE p = 3
  BY <1>4 DEF Instruction, ToApp, Sleep, Done
<1>5. CASE p = 4
  BY <1>5 DEF Instruction, ToApp, Sleep, Done
<1>6. CASE p = 5
  BY <1>6 DEF Instruction, ToApp, Sleep, Done
<1>7. CASE p = 6
  BY <1>7 DEF Instruction, ToApp, Sleep, Done
<1>8. CASE p = 7
  BY <1>8 DEF Instruction, ToApp, Sleep, Done
<1>9. CASE p = 8
  BY <1>9 DEF Instruction, ToApp, Sleep, Done
<1>10. CASE p = 9
  BY <1>10 DEF Instruction, ToApp, Sleep, Done
<1>11. CASE p = 10
  BY <1>11 DEF Instruction, ToApp, Sleep, Done
<1>12. CASE p = 11
  BY <1>12 DEF Instruction, ToApp, Sleep, Done
<1>13. CASE p = 12
  BY <1>13 DEF Instruction, ToApp, Sleep, Done
<1>14. CASE p = 13
  BY <1>14 DEF Instruction, ToApp, Sleep, Done
<1>15. CASE p = 14
  BY <1>15 DEF Instruction, ToApp, Sleep, Done
<1>16. CASE p = 15
  BY <1>16 DEF Instruction, ToApp, Sleep, Done
<1>17. CASE p = 16
  BY <1>17 DEF Instruction, ToApp, Sleep, Done
<1>18. CASE p = 17
  BY <1>18 DEF Instruction, ToApp, Sleep, Done
<1>19. CASE p = 18
  BY <1>19 DEF Instruction, ToApp, Sleep, Done
<1>20. CASE p = 20
  BY <1>20 DEF Instruction, ToApp, Sleep, Done
<1>21. CASE p = 21
  BY <1>21 DEF Instruction, ToApp, Sleep, Done
<1>22. CASE p = 22
  BY <1>22 DEF Instruction, ToApp, Sleep, Done
<1>23. CASE p = 23
  BY <1>23 DEF Instruction, ToApp, Sleep, Done
<1>24. CASE p = 24
  BY <1>24 DEF Instruction, ToApp, Sleep, Done
<1>25. CASE p = 25
  BY <1>25 DEF Instruction, ToApp, Sleep, Done
<1>26. CASE p = 26
  BY <1>26 DEF Instruction, ToApp, Sleep, Done
<1> QED
  BY <1>1, <1>2, <1>3, <1>4, <1>5, <1>6, <1>7, <1>8, <1>9, <1>10, <1>11, <1>12, <1>13, <1>14, <1>15, <1>16, <1>17, <1>18, <1>19, <1>20, <1>21, <1>22, <1>23, <1>24, <1>25, <1>26

\* Some instructions are left, from a place between a and b on.
Within(a, b) == script = << >> \/ \E p \in a..b : script = From(p)

LEMMA WithinAt ==
  ASSUME NEW a \in 1..27, NEW b \in (1..26) \ {19}, Within(a, b), Has(b), script # << >>, 19 \notin a..b
  PROVE  \E p \in a..b : Has(p) /\ Head(script) = Instruction(p) /\ Tail(script) = From(p + 1)
<1>1. PICK p \in a..b : script = From(p)
  BY DEF Within
<1>2. p \in 1..27 /\ p <= b
  OBVIOUS
<1>3. PICK q \in p..27 : Has(q) /\ From(p) = From(q) /\ \A k \in p..(q - 1) : ~ Has(k)
  BY <1>2, NextPlace
<1>4. q <= b
  <2>1. ~ (b \in p..(q - 1))
    BY <1>3
  <2> QED
    BY <1>2, <1>3, <2>1
<1>5. q \in a..b /\ q \in (1..26) \ {19}
  BY <1>2, <1>3, <1>4
<1> QED
  BY <1>1, <1>3, <1>5, Here

-----------------------------------------------------------------------------
(* What the script tells of the applications and of the messages.          *)

EvmFits(p) ==
  /\ p \in 1..6 \cup 22..27 => evm = "Halted"
  /\ p \in 7..9 => evm \in {"Configuring", "Ready"}
  /\ p \in 10..11 => evm = "Ready"
  /\ p \in 12..20 => evm = "Enabled"
  /\ p = 21 => evm \in Processing \cup {"Stopping"}

Broken == fu = "Gone" /\ bu = "Failed"
BuFits(p) ==
  /\ p \in 1..7 \cup 26..27 => bu = "Halted"
  /\ p \in 8..9 => bu \in {"Configuring", "Ready"}
  /\ p \in 10..12 => bu = "Ready"
  /\ p \in 13..22 => bu = "Enabled" \/ Broken
  /\ p \in 23..25 => bu = "Halted" \/ Broken

RuFits(p) ==
  /\ p \in 1..8 \cup 24..27 => ru = "Halted"
  /\ p = 9 => ru \in {"Configuring", "Ready"}
  /\ p = 10 => ru = "Ready"
  /\ p \in 11..23 => ru = "Enabled"

RuiFits(p) ==
  IF "RUI" \in present
  THEN /\ p \in 1..13 \cup 21..27 => rui = "Halted"
       /\ p = 14 => rui \in {"Configuring", "Ready"}
       /\ p = 15 => rui = "Ready"
       /\ p \in 16..20 => rui = "Enabled"
  ELSE rui = "Halted"

TaFits(p) ==
  IF "TA" \in present
  THEN /\ source = "TA"
       /\ p \in 1..4 \cup 25..27 => ta = "Halted"
       /\ p = 5 => ta = "Ready"
       /\ p \in 6..18 => ta = "Enabled"
       /\ p \in 19..24 => ta \in {"Enabled", "Suspended"}
  ELSE ta = "Halted" /\ (p \in 2..26 => source = "Local")

FuFits(p) ==
  IF "FU" \in present
  THEN /\ p \in 1..16 \cup 26..27 => fu = "Halted"
       /\ p = 17 => fu = "Ready"
       /\ p \in 18..25 => fu \in {"Enabled", "Gone"}
  ELSE fu = "Halted"

Modes(p) ==
  /\ testStarted <=> p \in 19..26
  /\ EvmFits(p) /\ BuFits(p) /\ RuFits(p) /\ RuiFits(p) /\ TaFits(p) /\ FuFits(p)

TriggersOf(t) == AllMarked(t, credits) /\ AllOf(t, triggers) /\ AllOf(t, held)
FarmOf(t) == AllMarked(t, takes) /\ AllMarked(t, allocates) /\ AllMarked(t, discards)
EvmQueues == AllOf(This, triggerFIFO) /\ AllOf(This, events)
BuQueues == AllOf(This, requestFIFO) /\ AllOf(This, eventOf)
NoTriggers == credits = << >> /\ triggers = << >>
NoRequests == takes = << >> /\ allocates = << >> /\ discards = << >> /\ requestFIFO = << >>

MessagesFit(p) ==
  /\ p \in 1..9 => TriggersOf(Old) /\ FarmOf(Old)
  /\ p \in 10..26 => TriggersOf(This) /\ EvmQueues /\ FarmOf(This) /\ BuQueues
  /\ p \in 10..11 => NoTriggers
  /\ p \in 10..17 => NoRequests

At(p) == script = From(p) /\ Modes(p) /\ MessagesFit(p)

\* An instruction that is not in the script leaves no trace in the states.
LEMMA ModesSkip ==
  ASSUME NEW p \in 1..26, ~ Has(p), Modes(p)
  PROVE  Modes(p + 1)
<1>1. \/ p \in {1, 4, 5, 24} \/ p \in {2, 13, 14, 15, 20} \/ p \in {3, 16, 17, 25}
  BY DEF Has
<1>2. p # 18 /\ p # 26 /\ p # 19
  BY <1>1
<1>3. testStarted <=> p + 1 \in 19..26
  BY <1>2 DEF Modes
<1>4. EvmFits(p) /\ BuFits(p) /\ RuFits(p) /\ RuiFits(p) /\ TaFits(p) /\ FuFits(p)
  BY DEF Modes
<1>5. EvmFits(p + 1)
  <2>1. CASE p \in {1, 2, 3, 4, 5}
    BY <1>4, <2>1 DEF EvmFits
  <2>2. CASE p \in {13, 14, 15, 16, 17}
    <3>1. p + 1 \in 14..18 /\ p \in 12..20
      BY <2>2
    <3>2. evm = "Enabled"
      BY <1>4, <3>1 DEF EvmFits
    <3> QED
      BY <3>1, <3>2 DEF EvmFits
  <2>3. CASE p = 20
    BY <1>4, <2>3 DEF EvmFits, Processing
  <2>4. CASE p \in {24, 25}
    BY <1>4, <2>4 DEF EvmFits
  <2> QED
    BY <1>1, <2>1, <2>2, <2>3, <2>4
<1>6. RuFits(p + 1)
  BY <1>1, <1>4 DEF RuFits
<1>7. RuiFits(p + 1)
  BY <1>1, <1>4 DEF RuiFits, Has
<1>8. TaFits(p + 1)
  BY <1>1, <1>4 DEF TaFits, Has
<1>9. FuFits(p + 1)
  BY <1>1, <1>4 DEF FuFits, Has
<1>10. BuFits(p + 1)
  BY <1>1, <1>4 DEF BuFits, FuFits, Has, Broken
<1> QED
  BY <1>3, <1>5, <1>6, <1>7, <1>8, <1>9, <1>10 DEF Modes

\* Nor in the messages: the pause of place 9 is always there.
LEMMA MessagesSkip ==
  ASSUME NEW p \in 1..26, ~ Has(p), MessagesFit(p)
  PROVE  MessagesFit(p + 1)
<1>1. p # 9
  BY DEF Has
<1> QED
  BY <1>1 DEF MessagesFit

\* The instruction that comes next.
LEMMA NextInstruction ==
  ASSUME NEW p \in 1..27, At(p)
  PROVE  \E q \in 1..27 : At(q) /\ Has(q)
<1>1. PICK q \in p..27 : Has(q) /\ From(p) = From(q) /\ \A k \in p..(q - 1) : ~ Has(k)
  BY NextPlace
<1> DEFINE n == q - p
           P == { i \in 0..n : Modes(p + i) /\ MessagesFit(p + i) }
<1>2. n \in Nat
  OBVIOUS
<1>3. 0 \in P
  BY DEF At
<1>4. ASSUME NEW i \in 1..n, i - 1 \in P PROVE i \in P
  <2>1. PICK k : k = p + (i - 1)
    OBVIOUS
  <2>2. k \in 1..26 /\ k \in p..(q - 1) /\ k + 1 = p + i
    BY <2>1
  <2>3. Modes(k) /\ MessagesFit(k) /\ ~ Has(k)
    BY <1>1, <1>4, <2>1, <2>2
  <2>4. Modes(k + 1) /\ MessagesFit(k + 1)
    BY <2>2, <2>3, ModesSkip, MessagesSkip
  <2> QED
    BY <2>2, <2>4
<1>5. n \in P
  <2> HIDE DEF P, n
  <2>1. \A i \in 0..n : i \in P
    BY <1>2, <1>3, <1>4, UpTo
  <2> QED
    BY <1>2, <2>1
<1>6. p + n = q
  OBVIOUS
<1>7. Modes(q) /\ MessagesFit(q)
  BY <1>5, <1>6
<1> QED
  BY <1>1, <1>7 DEF At

LEMMA AtInstruction ==
  ASSUME NEW p \in 1..27, At(p), Has(p), script # << >>
  PROVE  p \in (1..26) \ {19} /\ Head(script) = Instruction(p) /\ Tail(script) = From(p + 1)
<1>1. script = From(p)
  BY DEF At
<1>2. p # 19 /\ p # 27
  BY <1>1, NothingLeft
<1> QED
  BY <1>1, <1>2, Here

-----------------------------------------------------------------------------
(* Credits: each is in a message, a trigger, or yet to be sent.            *)

\* Where the EVM's work loop is, and what the TA holds.
TriggerFacts ==
  /\ ta \in {"Halted", "Enabled"} => held = << >>
  /\ evm \notin Processing \cup {"Stopping"} => loop = "idle"
  /\ evm = "Enabled" => doRequestTriggers
  /\ evm = "Enabled" /\ loop \in {"asking", "posted"} => toBeSent >= Packing
  /\ evm = "Ready" => triggerFIFO = << >> /\ events = << >>

LEMMA TriggerFactsStep ==
  ASSUME TriggerTypes, TriggerFacts, TriggerAction
  PROVE  TriggerFacts'
<1> USE CounterFacts DEF TriggerFacts, Processing
<1>1. CASE FirstRequest
  <2>1. loop' \in {"asking", "idle"} /\ (loop' = "asking" => toBeSent' >= Packing)
    <3>1. toBeSent' \in Int
      BY <1>1, TriggerActionType DEF TriggerAction, TriggerTypes
    <3> QED
      BY <1>1, <3>1 DEF FirstRequest, NextRound
  <2> QED
    BY <1>1, <2>1 DEF FirstRequest, taVars
<1>2. CASE TakeTrigger
  BY <1>2 DEF TakeTrigger, taVars, evmVars, handlerVars
<1>3. CASE AddCredit
  <2>1. loop' \in {"asking", "idle"} /\ (loop' = "asking" => toBeSent' >= Packing)
    <3>1. toBeSent' \in Int
      BY <1>3, TriggerActionType DEF TriggerAction, TriggerTypes
    <3> QED
      BY <1>3, <3>1 DEF AddCredit, NextRound
  <2> QED
    BY <1>3, <2>1 DEF AddCredit, taVars
<1>4. CASE AskForTriggers
  BY <1>4 DEF AskForTriggers, taVars, evmVars, handlerVars
<1>5. CASE SubtractPacking
  <2>1. loop' \in {"asking", "idle"} /\ (loop' = "asking" => toBeSent' >= Packing)
    <3>1. toBeSent' \in Int
      BY <1>5, TriggerActionType DEF TriggerAction, TriggerTypes
    <3> QED
      BY <1>5, <3>1 DEF SubtractPacking, NextRound
  <2> QED
    BY <1>5, <2>1 DEF SubtractPacking, taVars
<1>6. CASE FlushCredits
  BY <1>6 DEF FlushCredits, taVars, evmVars, handlerVars
<1>7. CASE SubtractAll
  BY <1>7 DEF SubtractAll, taVars, evmVars, handlerVars
<1>8. CASE MakeTrigger
  BY <1>8 DEF MakeTrigger, taVars, evmVars, handlerVars
<1>9. CASE TriggerCallback
  BY <1>9 DEF TriggerCallback, taVars, evmVars, handlerVars
<1>10. CASE ConfigureTA
  BY <1>10 DEF ConfigureTA, taVars, evmVars, handlerVars
<1>11. CASE FailToEnableTA
  BY <1>11 DEF FailToEnableTA, taVars, evmVars, handlerVars
<1>12. CASE SuspendTA
  BY <1>12 DEF SuspendTA, taVars, evmVars, handlerVars
<1>13. CASE HaltTA
  BY <1>13 DEF HaltTA, taVars, evmVars, handlerVars
<1>14. CASE SetTriggerSource
  BY <1>14 DEF SetTriggerSource, taVars, evmVars, handlerVars
<1>15. CASE ConfigureEVM
  BY <1>15 DEF ConfigureEVM, taVars, evmVars, handlerVars
<1>16. CASE EVMConfigured
  BY <1>16 DEF EVMConfigured, taVars, evmVars, handlerVars
<1>17. CASE EnableEVM
  BY <1>17 DEF EnableEVM, taVars, evmVars, handlerVars
<1>18. CASE HaltEVM
  BY <1>18 DEF HaltEVM, taVars, evmVars, handlerVars
<1>19. CASE StopRequesting
  BY <1>19 DEF StopRequesting, taVars, evmVars, handlerVars
<1>20. CASE SubtractStopped
  BY <1>20 DEF SubtractStopped, taVars, evmVars, handlerVars
<1>21. CASE EVMStopped
  BY <1>21 DEF EVMStopped, taVars, evmVars, handlerVars
<1>22. CASE TaCreditMsg
  BY <1>22 DEF TaCreditMsg, taVars, evmVars, handlerVars
<1>23. CASE SendHeldCredits
  BY <1>23 DEF SendHeldCredits, evmVars, handlerVars
<1> QED
  BY <1>1, <1>2, <1>3, <1>4, <1>5, <1>6, <1>7, <1>8, <1>9, <1>10, <1>11, <1>12, <1>13, <1>14, <1>15, <1>16, <1>17, <1>18, <1>19, <1>20, <1>21, <1>22, <1>23 DEF TriggerAction

\* Numbers below CounterSize are counted as they are.
LEMMA NoWrap ==
  ASSUME NEW n \in 0 .. CounterSize - 1
  PROVE  n % CounterSize = n /\ (n + CounterSize) % CounterSize = n
BY CounterFacts

CountedCredits == SumOf(credits) + Len(held) + Len(triggers) + Len(triggerFIFO) + lost

LEMMA CountedCreditsIs ==
  /\ Outstanding = CountedCredits /\ Outstanding' = CountedCredits'
  /\ CountedCredits' = SumOf(credits') + Len(held') + Len(triggers') + Len(triggerFIFO') + lost'
<1>1. Outstanding = CountedCredits
  BY DEF Outstanding, CountedCredits, CreditsInMessages, SumOf
<1>2. Outstanding' = CountedCredits'
  BY DEF Outstanding, CountedCredits, CreditsInMessages, SumOf
<1>3. CountedCredits' = SumOf(credits') + Len(held') + Len(triggers') + Len(triggerFIFO') + lost'
  BY DEF CountedCredits
<1> QED
  BY <1>1, <1>2, <1>3

LEMMA CreditTypes ==
  ASSUME TriggerTypes
  PROVE  /\ SumOf(credits) \in Nat /\ Len(held) \in Nat /\ Len(triggers) \in Nat /\ Len(triggerFIFO) \in Nat /\ lost \in Nat
         /\ toBeSent \in Nat /\ toBeSent < CounterSize /\ CountedCredits \in Nat
<1>1. SumOf(credits) \in Nat
  BY NumbersInMessages, SumOfType DEF TriggerTypes
<1>2. Len(held) \in Nat /\ Len(triggers) \in Nat /\ Len(triggerFIFO) \in Nat /\ lost \in Nat
  BY CounterFacts DEF TriggerTypes
<1>3. toBeSent \in Nat /\ toBeSent < CounterSize
  BY CounterFacts DEF TriggerTypes
<1> QED
  BY <1>1, <1>2, <1>3 DEF CountedCredits

\* What the TA does with credits: each becomes a trigger or is lost.
LEMMA SendNTriggersCounts ==
  ASSUME TriggerTypes, NEW answered \in Seq(Tests), SendNTriggers(answered)
  PROVE  Len(triggers') + lost' = Len(triggers) + lost + Len(answered)
<1>1. PICK n \in 0 .. Len(answered) :
        /\ lost' = lost + Len(answered) - n
        /\ triggers' = triggers \o SubSeq(answered, 1, n)
  BY DEF SendNTriggers
<1>2. SubSeq(answered, 1, n) \in Seq(Tests) /\ Len(SubSeq(answered, 1, n)) = n /\ Len(answered) \in Nat
  BY FirstType
<1>3. triggers \in Seq(Tests) /\ lost \in Nat
  BY CounterFacts DEF TriggerTypes
<1> DEFINE first == SubSeq(answered, 1, n)
<1> HIDE DEF first
<1>4. Len(triggers \o first) = Len(triggers) + Len(first)
  BY <1>2, <1>3 DEF first
<1>5. triggers' = triggers \o first /\ Len(first) = n
  BY <1>1, <1>2 DEF first
<1>6. Len(triggers') = Len(triggers) + n
  BY ONLY <1>4, <1>5
<1>7. lost' = lost + Len(answered) - n /\ n \in Nat /\ Len(triggers) \in Nat
  BY <1>1, <1>3
<1> QED
  BY ONLY <1>2, <1>3, <1>6, <1>7

LEMMA TaCreditMsgCounts ==
  ASSUME TriggerTypes, TaCreditMsg, ta \in {"Enabled", "Suspended"}
  PROVE  CountedCredits' = CountedCredits
<1> DEFINE given == Repeat(Head(credits).of, Head(credits).n)
<1>1. credits # << >> /\ credits' = Tail(credits) /\ credits \in Seq(CreditMessages)
  BY DEF TaCreditMsg, TriggerTypes
<1>2. Head(credits) \in CreditMessages /\ SumOf(credits) = Head(credits).n + SumOf(credits')
  BY <1>1, NumbersInMessages, SumOfTail
<1>3. Head(credits).of \in Tests /\ Head(credits).n \in Nat
  BY <1>2, CounterFacts DEF CreditMessages
<1>4. given \in Seq(Tests) /\ Len(given) = Head(credits).n
  BY <1>3, AllOfRepeat
<1>5. \/ SendNTriggers(given) /\ UNCHANGED held
      \/ held' = held \o given /\ UNCHANGED << lost, triggers >>
  BY DEF TaCreditMsg
<1>6. triggerFIFO' = triggerFIFO
  BY DEF TaCreditMsg, evmVars
<1>7. TriggerTypes'
  BY TaCreditMsgType
<1>8. SumOf(credits') \in Nat
  BY <1>7, NumbersInMessages, SumOfType DEF TriggerTypes
<1>9. Len(held') \in Nat /\ Len(triggers') \in Nat /\ Len(triggerFIFO') \in Nat /\ lost' \in Nat
  BY <1>7, CounterFacts DEF TriggerTypes
<1>10. held \in Seq(Tests)
  BY DEF TriggerTypes
<1> HIDE DEF given
<1>11. CASE SendNTriggers(given) /\ UNCHANGED held
  <2>1. Len(triggers') + lost' = Len(triggers) + lost + Len(given)
    BY <1>4, <1>11, SendNTriggersCounts
  <2>2. Len(held') = Len(held)
    BY <1>11
  <2>3. Len(triggerFIFO') = Len(triggerFIFO) /\ Len(given) = Head(credits).n /\ SumOf(credits) = Head(credits).n + SumOf(credits')
    BY <1>2, <1>4, <1>6
  <2>4. /\ Len(held) \in Nat /\ Len(triggers) \in Nat /\ Len(triggerFIFO) \in Nat /\ lost \in Nat
    BY CreditTypes
  <2>5. CountedCredits' = SumOf(credits') + Len(held') + Len(triggers') + Len(triggerFIFO') + lost'
    BY CountedCreditsIs
  <2>6. Len(triggers') + lost' = Len(triggers) + lost + Head(credits).n
    BY ONLY <2>1, <2>3
  <2>7. CountedCredits' = SumOf(credits') + Len(held) + Len(triggers') + Len(triggerFIFO) + lost'
    BY ONLY <2>2, <2>3, <2>5
  <2>8. CountedCredits = Head(credits).n + SumOf(credits') + Len(held) + Len(triggers) + Len(triggerFIFO) + lost
    BY ONLY <2>3 DEF CountedCredits
  <2>9. SumOf(credits') \in Nat /\ Len(triggers') \in Nat /\ lost' \in Nat /\ Head(credits).n \in Nat
    BY <1>3, <1>8, <1>9
  <2>10. PICK n \in Nat : n = Head(credits).n
    BY <2>9
  <2>11. PICK u \in Nat : u = Len(triggers')
    BY <2>9
  <2>12. PICK m \in Nat : m = lost'
    BY <2>9
  <2>13. PICK t \in Nat : t = Len(triggers)
    BY <2>4
  <2>14. PICK h \in Nat : h = Len(held)
    BY <2>4
  <2>15. PICK f \in Nat : f = Len(triggerFIFO)
    BY <2>4
  <2>16. PICK s \in Nat : s = SumOf(credits')
    BY <2>9
  <2>17. u + m = t + lost + n /\ lost \in Nat
    BY ONLY <2>4, <2>6, <2>10, <2>11, <2>12, <2>13
  <2>18. CountedCredits' = s + h + u + f + m
    BY ONLY <2>7, <2>11, <2>12, <2>14, <2>15, <2>16
  <2>19. CountedCredits = n + s + h + t + f + lost
    BY ONLY <2>8, <2>10, <2>13, <2>14, <2>15, <2>16
  <2> QED
    BY ONLY <2>17, <2>18, <2>19, n \in Nat, u \in Nat, m \in Nat, t \in Nat, h \in Nat, f \in Nat, s \in Nat
<1>12. CASE held' = held \o given /\ UNCHANGED << lost, triggers >>
  <2>1. Len(held') = Len(held) + Len(given)
    BY <1>4, <1>10, <1>12
  <2>2. Len(triggers') = Len(triggers) /\ lost' = lost /\ Len(triggerFIFO') = Len(triggerFIFO) /\ Len(given) = Head(credits).n
        /\ SumOf(credits) = Head(credits).n + SumOf(credits')
    BY <1>2, <1>4, <1>6, <1>12
  <2>3. /\ Len(held) \in Nat /\ Len(triggers) \in Nat /\ Len(triggerFIFO) \in Nat /\ lost \in Nat
    BY CreditTypes
  <2> QED
    BY ONLY <1>3, <1>8, <2>1, <2>2, <2>3 DEF CountedCredits
<1> QED
  BY <1>5, <1>11, <1>12

LEMMA SendHeldCreditsCounts ==
  ASSUME TriggerTypes, SendHeldCredits
  PROVE  CountedCredits' = CountedCredits
<1>1. held \in Seq(Tests) /\ SendNTriggers(held) /\ held' = << >> /\ credits' = credits /\ triggerFIFO' = triggerFIFO
  BY DEF SendHeldCredits, TriggerTypes, evmVars
<1>2. Len(triggers') + lost' = Len(triggers) + lost + Len(held)
  BY <1>1, SendNTriggersCounts
<1>3. TriggerTypes'
  BY SendHeldCreditsType
<1>4. Len(held') = 0 /\ Len(triggers') \in Nat /\ lost' \in Nat
  BY <1>1, <1>3, CounterFacts DEF TriggerTypes
<1>5. SumOf(credits') = SumOf(credits) /\ Len(triggerFIFO') = Len(triggerFIFO)
  BY <1>1
<1>6. SumOf(credits) \in Nat /\ Len(held) \in Nat /\ Len(triggers) \in Nat /\ Len(triggerFIFO) \in Nat /\ lost \in Nat
  BY CreditTypes
<1> QED
  BY ONLY <1>2, <1>4, <1>5, <1>6 DEF CountedCredits

LEMMA TriggerCallbackCounts ==
  ASSUME TriggerTypes, TriggerCallback, evm = "Enabled"
  PROVE  CountedCredits' = CountedCredits
<1>1. triggers # << >> /\ triggers' = Tail(triggers) /\ triggerFIFO' = Append(triggerFIFO, Head(triggers))
      /\ triggers \in Seq(Tests) /\ triggerFIFO \in Seq(Tests) /\ UNCHANGED << credits, held, lost >>
  BY DEF TriggerCallback, TriggerTypes, taVars
<1>2. Len(triggers') = Len(triggers) - 1 /\ Len(triggerFIFO') = Len(triggerFIFO) + 1
  BY <1>1
<1>3. SumOf(credits') = SumOf(credits) /\ Len(held') = Len(held) /\ lost' = lost
  BY <1>1
<1>4. SumOf(credits) \in Nat /\ Len(held) \in Nat /\ Len(triggers) \in Nat /\ Len(triggerFIFO) \in Nat /\ lost \in Nat
  BY CreditTypes
<1>5. CountedCredits' = SumOf(credits') + Len(held') + Len(triggers') + Len(triggerFIFO') + lost'
  BY CountedCreditsIs
<1>6. CountedCredits' = SumOf(credits) + Len(held) + (Len(triggers) - 1) + (Len(triggerFIFO) + 1) + lost
  BY ONLY <1>2, <1>3, <1>5
<1> QED
  BY ONLY <1>4, <1>6 DEF CountedCredits

LEMMA PostCounts ==
  ASSUME TriggerTypes, NEW n \in 1 .. CounterSize - 1, Post(n), UNCHANGED << held, triggers, triggerFIFO, lost >>
  PROVE  CountedCredits' = CountedCredits + n
<1>1. [n |-> n, of |-> This] \in CreditMessages /\ n \in Nat
  <2>1. n \in Nat
    OBVIOUS
  <2> QED
    BY <2>1 DEF CreditMessages, Tests
<1>2. credits \in Seq(CreditMessages)
  BY DEF TriggerTypes
<1>3. SumOf(credits') = SumOf(credits) + n
  <2>1. SumOf(Append(credits, [n |-> n, of |-> This])) = SumOf(credits) + [n |-> n, of |-> This].n
    BY <1>1, <1>2, NumbersInMessages, SumOfAppend
  <2> QED
    BY <2>1 DEF Post
<1>4. SumOf(credits) \in Nat /\ Len(held) \in Nat /\ Len(triggers) \in Nat /\ Len(triggerFIFO) \in Nat /\ lost \in Nat
  BY CreditTypes
<1>5. CountedCredits' = SumOf(credits') + Len(held') + Len(triggers') + Len(triggerFIFO') + lost'
  BY CountedCreditsIs
<1>6. Len(held') = Len(held) /\ Len(triggers') = Len(triggers) /\ Len(triggerFIFO') = Len(triggerFIFO) /\ lost' = lost
  OBVIOUS
<1>7. CountedCredits' = (SumOf(credits) + n) + Len(held) + Len(triggers) + Len(triggerFIFO) + lost
  BY ONLY <1>3, <1>5, <1>6
<1> QED
  BY ONLY <1>1, <1>4, <1>7 DEF CountedCredits

LEMMA CountsSame ==
  ASSUME UNCHANGED << credits, held, triggers, triggerFIFO, lost >>
  PROVE  CountedCredits' = CountedCredits
BY DEF CountedCredits

\* What an action does to the balance of credits.
LEMMA CreditsStep ==
  ASSUME TriggerTypes, TriggerFacts, CreditsConserved, TriggerAction,
         evm = "Enabled" /\ source = "TA" => ta \in {"Enabled", "Suspended"},
         HaltTA => ~ (evm = "Enabled" /\ source = "TA"),
         EnableEVM /\ source = "TA" => credits = << >> /\ triggers = << >> /\ held = << >>
  PROVE  CreditsConserved'
<1>1. SUFFICES ASSUME evm' = "Enabled", source' = "TA"
               PROVE  CountedCredits' + Due' = IF firstRequest' THEN 0 ELSE Capacity
  BY CountedCreditsIs DEF CreditsConserved
<1> DEFINE Before == evm = "Enabled" /\ source = "TA" /\ CountedCredits + Due = (IF firstRequest THEN 0 ELSE Capacity)
<1>2. evm = "Enabled" /\ source = "TA" => Before
  BY CountedCreditsIs DEF CreditsConserved
<1>3. CountedCredits \in Nat /\ toBeSent \in Nat /\ toBeSent < CounterSize
  BY CreditTypes
<1> HIDE DEF Before
<1>4. CASE FirstRequest
  <2>1. Before /\ loop = "idle" /\ firstRequest /\ ~ firstRequest' /\ toBeSent' = (toBeSent + Capacity) % CounterSize
    BY <1>1, <1>2, <1>4 DEF FirstRequest
  <2>2. CountedCredits' = CountedCredits
    BY <1>4, CountsSame DEF FirstRequest, taVars
  <2>3. CountedCredits + toBeSent = 0
    BY <2>1, <1>3 DEF Before, Due
  <2>4. toBeSent' = Capacity
    BY <2>1, <2>3, <1>3, NoWrap, CounterFacts
  <2>5. loop' \in {"asking", "idle"}
    BY <1>4 DEF FirstRequest, NextRound
  <2> QED
    BY ONLY <1>3, <2>1, <2>2, <2>3, <2>4, <2>5, CounterFacts DEF Due
<1>5. CASE TakeTrigger
  <2>1. Before /\ loop = "idle" /\ ~ firstRequest /\ ~ firstRequest' /\ loop' = "adding" /\ toBeSent' = toBeSent
    BY <1>1, <1>2, <1>5 DEF TakeTrigger, TriggerFacts
  <2>2. CountedCredits' = CountedCredits - 1
    <3>1. triggerFIFO # << >> /\ triggerFIFO' = Tail(triggerFIFO) /\ triggerFIFO \in Seq(Tests)
          /\ UNCHANGED << credits, held, triggers, lost >>
      BY <1>5 DEF TakeTrigger, TriggerTypes, taVars
    <3>2. Len(triggerFIFO') = Len(triggerFIFO) - 1
      BY <3>1
    <3>3. SumOf(credits') = SumOf(credits) /\ Len(held') = Len(held) /\ Len(triggers') = Len(triggers) /\ lost' = lost
      BY <3>1
    <3>4. SumOf(credits) \in Nat /\ Len(held) \in Nat /\ Len(triggers) \in Nat /\ Len(triggerFIFO) \in Nat /\ lost \in Nat
      BY CreditTypes
    <3> QED
      BY ONLY <3>2, <3>3, <3>4 DEF CountedCredits
  <2> QED
    BY ONLY <1>3, <2>1, <2>2, CounterFacts DEF Before, Due
<1>6. CASE AddCredit
  <2>1. Before /\ loop = "adding" /\ firstRequest' = firstRequest /\ toBeSent' = (toBeSent + 1) % CounterSize
    BY <1>1, <1>2, <1>6 DEF AddCredit
  <2>2. CountedCredits' = CountedCredits
    BY <1>6, CountsSame DEF AddCredit, taVars
  <2>3. CountedCredits + toBeSent + 1 = (IF firstRequest THEN 0 ELSE Capacity)
    BY ONLY <2>1, <1>3, CounterFacts DEF Before, Due
  <2>4. toBeSent' = toBeSent + 1
    BY <2>1, <2>3, <1>3, NoWrap, CounterFacts
  <2>5. loop' \in {"asking", "idle"}
    BY <1>6 DEF AddCredit, NextRound
  <2> QED
    BY ONLY <1>3, <2>1, <2>2, <2>3, <2>4, <2>5, CounterFacts DEF Due
<1>7. CASE AskForTriggers
  <2>1. Before /\ loop = "asking" /\ loop' = "posted" /\ UNCHANGED << firstRequest, toBeSent >>
    BY <1>1, <1>2, <1>7 DEF AskForTriggers
  <2>2. CountedCredits' = CountedCredits + Packing
    BY <1>7, CounterFacts, PackingAssumption, PostCounts DEF AskForTriggers, taVars
  <2> QED
    BY ONLY <1>3, <2>1, <2>2, CounterFacts DEF Before, Due
<1>8. CASE SubtractPacking
  <2>1. Before /\ loop = "posted" /\ firstRequest' = firstRequest /\ toBeSent >= Packing
    BY <1>1, <1>2, <1>8 DEF SubtractPacking, TriggerFacts, Before
  <2>2. toBeSent' = (toBeSent + CounterSize - Packing) % CounterSize
    BY <1>8 DEF SubtractPacking
  <2>3. CountedCredits' = CountedCredits
    BY <1>8, CountsSame DEF SubtractPacking, taVars
  <2>4. toBeSent - Packing \in 0 .. CounterSize - 1
    BY <2>1, <1>3, CounterFacts
  <2>5. toBeSent' = toBeSent - Packing
    <3>1. toBeSent + CounterSize - Packing = (toBeSent - Packing) + CounterSize
      BY <1>3, CounterFacts
    <3> QED
      BY ONLY <2>2, <2>4, <3>1, NoWrap
  <2>6. loop' \in {"asking", "idle"}
    BY <1>8 DEF SubtractPacking, NextRound
  <2> QED
    BY ONLY <1>3, <2>1, <2>3, <2>5, <2>6, CounterFacts DEF Before, Due
<1>9. CASE FlushCredits
  <2>1. Before /\ loop = "idle" /\ loop' = "flushed" /\ UNCHANGED << firstRequest, toBeSent >> /\ toBeSent > 0
    BY <1>1, <1>2, <1>9 DEF FlushCredits
  <2>2. toBeSent \in 1 .. CounterSize - 1
    BY <2>1, <1>3, CounterFacts
  <2>3. CountedCredits' = CountedCredits + toBeSent
    BY <1>9, <2>2, PostCounts DEF FlushCredits, taVars
  <2> QED
    BY ONLY <1>3, <2>1, <2>3, CounterFacts DEF Before, Due
<1>10. CASE SubtractAll
  <2>1. Before /\ loop = "flushed" /\ loop' = "idle" /\ firstRequest' = firstRequest /\ toBeSent' = 0
    BY <1>1, <1>2, <1>10 DEF SubtractAll
  <2>2. CountedCredits' = CountedCredits
    BY <1>10, CountsSame DEF SubtractAll, taVars
  <2> QED
    BY ONLY <1>3, <2>1, <2>2, CounterFacts DEF Before, Due
<1>11. CASE TriggerCallback
  <2>1. Before /\ UNCHANGED << loop, firstRequest, toBeSent >>
    BY <1>1, <1>2, <1>11 DEF TriggerCallback, handlerVars
  <2>2. CountedCredits' = CountedCredits
    BY <1>11, <2>1, TriggerCallbackCounts DEF Before
  <2> QED
    BY ONLY <1>3, <2>1, <2>2, CounterFacts DEF Before, Due
<1>12. CASE EnableEVM
  <2>1. source = "TA" /\ loop = "idle" /\ triggerFIFO = << >> /\ loop' = "idle" /\ toBeSent' = 0 /\ firstRequest'
    BY <1>1, <1>12 DEF EnableEVM, TriggerFacts, Processing
  <2>2. credits' = << >> /\ triggers' = << >> /\ held' = << >> /\ triggerFIFO' = << >> /\ lost' = 0
    BY <2>1, <1>12 DEF EnableEVM
  <2>3. CountedCredits' = 0
    BY <2>2, SumEmpty DEF CountedCredits
  <2> QED
    BY ONLY <2>1, <2>3 DEF Due
<1>13. CASE TaCreditMsg
  <2>1. Before /\ UNCHANGED << loop, firstRequest, toBeSent >>
    BY <1>1, <1>2, <1>13 DEF TaCreditMsg, evmVars, handlerVars
  <2>2. CountedCredits' = CountedCredits
    BY <1>13, <2>1, TaCreditMsgCounts DEF Before
  <2> QED
    BY ONLY <1>3, <2>1, <2>2, CounterFacts DEF Before, Due
<1>14. CASE SendHeldCredits
  <2>1. Before /\ UNCHANGED << loop, firstRequest, toBeSent >>
    BY <1>1, <1>2, <1>14 DEF SendHeldCredits, evmVars, handlerVars
  <2>2. CountedCredits' = CountedCredits
    BY <1>14, SendHeldCreditsCounts
  <2> QED
    BY ONLY <1>3, <2>1, <2>2, CounterFacts DEF Before, Due
<1>15. CASE HaltTA
  BY <1>1, <1>15 DEF HaltTA, evmVars
<1>16. CASE ConfigureTA
  <2>1. Before /\ UNCHANGED << loop, firstRequest, toBeSent >>
    BY <1>1, <1>2, <1>16 DEF ConfigureTA, evmVars, handlerVars
  <2>2. CountedCredits' = CountedCredits
    BY <1>16, CountsSame DEF ConfigureTA, evmVars
  <2> QED
    BY ONLY <1>3, <2>1, <2>2, CounterFacts DEF Before, Due
<1>17. CASE FailToEnableTA
  <2>1. Before /\ UNCHANGED << loop, firstRequest, toBeSent >>
    BY <1>1, <1>2, <1>17 DEF FailToEnableTA, evmVars, handlerVars
  <2>2. CountedCredits' = CountedCredits
    BY <1>17, CountsSame DEF FailToEnableTA, evmVars
  <2> QED
    BY ONLY <1>3, <2>1, <2>2, CounterFacts DEF Before, Due
<1>18. CASE SuspendTA
  <2>1. Before /\ UNCHANGED << loop, firstRequest, toBeSent >>
    BY <1>1, <1>2, <1>18 DEF SuspendTA, evmVars, handlerVars
  <2>2. CountedCredits' = CountedCredits
    BY <1>18, CountsSame DEF SuspendTA, evmVars
  <2> QED
    BY ONLY <1>3, <2>1, <2>2, CounterFacts DEF Before, Due
<1>19. CASE SetTriggerSource
  BY <1>1, <1>19 DEF SetTriggerSource
<1>20. CASE ConfigureEVM
  BY <1>1, <1>20 DEF ConfigureEVM
<1>21. CASE EVMConfigured
  BY <1>1, <1>21 DEF EVMConfigured
<1>22. CASE HaltEVM
  BY <1>1, <1>22 DEF HaltEVM
<1>23. CASE StopRequesting
  BY <1>1, <1>23 DEF StopRequesting
<1>24. CASE SubtractStopped
  BY <1>1, <1>24 DEF SubtractStopped
<1>25. CASE EVMStopped
  BY <1>1, <1>25 DEF EVMStopped
<1>26. CASE MakeTrigger
  BY <1>1, <1>26 DEF MakeTrigger, TriggerTypes
<1> QED
  BY <1>4, <1>5, <1>6, <1>7, <1>8, <1>9, <1>10, <1>11, <1>12, <1>13, <1>14, <1>15, <1>16, <1>17, <1>18, <1>19, <1>20, <1>21, <1>22, <1>23, <1>24, <1>25, <1>26 DEF TriggerAction

LEMMA CreditsSame ==
  ASSUME CreditsConserved, UNCHANGED << evm, source, firstRequest, toBeSent, loop, credits, held, triggers, triggerFIFO, lost >>
  PROVE  CreditsConserved'
<1>1. Outstanding' = Outstanding
  BY CountedCreditsIs, CountsSame
<1>2. Due' = Due
  BY DEF Due
<1> QED
  BY <1>1, <1>2 DEF CreditsConserved

-----------------------------------------------------------------------------
(* The events that the EVM counts.                                         *)

\* What the EVM counts: triggers that wait for a BU, and events in the BU.
BuilderCount ==
  /\ nbEvtsInBuilder \in 0 .. NbEvtIds
  /\ evm \in Processing => nbEvtsInBuilder = Len(events) + Cardinality(DOMAIN eventOf)

LEMMA EventsFinite ==
  ASSUME FarmTypes
  PROVE  IsFiniteSet(DOMAIN eventOf) /\ Cardinality(DOMAIN eventOf) \in Nat
<1>1. DOMAIN eventOf \subseteq Resources /\ IsFiniteSet(Resources)
  BY ResourcesAssumption DEF FarmTypes
<1>2. IsFiniteSet(DOMAIN eventOf)
  BY <1>1, FS_Subset
<1> QED
  BY <1>2, FS_CardinalityType

\* The EVM's steps keep its count of events.
LEMMA BuilderCountTrigger ==
  ASSUME TriggerTypes, FarmTypes, TriggerFacts, BuilderCount, TriggerAction, UNCHANGED eventOf,
         EnableEVM => eventOf = << >>
  PROVE  BuilderCount'
<1> DEFINE n == Cardinality(DOMAIN eventOf)
<1>1. n' = n /\ n \in Nat
  BY EventsFinite
<1>2. NbEvtIds \in Nat
  BY NbEvtIdsAssumption
<1>3. events \in Seq(Tests) /\ Len(events) \in Nat /\ nbEvtsInBuilder \in Nat /\ nbEvtsInBuilder <= NbEvtIds
      /\ (evm \in Processing => nbEvtsInBuilder = Len(events) + n)
  BY <1>2 DEF BuilderCount, TriggerTypes
<1> HIDE DEF n
<1>4. SUFFICES /\ nbEvtsInBuilder' \in 0 .. NbEvtIds
               /\ evm' \in Processing => nbEvtsInBuilder' = Len(events') + n
  BY <1>1 DEF BuilderCount, n
<1>5. CASE FirstRequest
  <2>1. UNCHANGED << nbEvtsInBuilder, events >> /\ (evm' \in Processing => evm \in Processing)
    BY <1>5 DEF FirstRequest, Processing, evmVars
  <2> QED
    BY ONLY <1>2, <1>3, <2>1
<1>6. CASE TakeTrigger
  <2>1. Len(events') = Len(events) + 1
    <3>1. triggerFIFO # << >> /\ triggerFIFO \in Seq(Tests) /\ events' = Append(events, Head(triggerFIFO))
      BY <1>6 DEF TakeTrigger, TriggerTypes
    <3> QED
      BY <1>3, <3>1
  <2>2. evm \in Processing /\ nbEvtsInBuilder < NbEvtIds /\ nbEvtsInBuilder' = nbEvtsInBuilder + 1
    BY <1>6 DEF TakeTrigger, RoomInBuilder
  <2> QED
    BY ONLY <1>1, <1>2, <1>3, <2>1, <2>2
<1>7. CASE AddCredit
  <2>1. UNCHANGED << nbEvtsInBuilder, events >> /\ (evm' \in Processing => evm \in Processing)
    BY <1>7 DEF AddCredit, Processing, evmVars
  <2> QED
    BY ONLY <1>2, <1>3, <2>1
<1>8. CASE AskForTriggers
  <2>1. UNCHANGED << nbEvtsInBuilder, events >> /\ (evm' \in Processing => evm \in Processing)
    BY <1>8 DEF AskForTriggers, Processing, evmVars
  <2> QED
    BY ONLY <1>2, <1>3, <2>1
<1>9. CASE SubtractPacking
  <2>1. UNCHANGED << nbEvtsInBuilder, events >> /\ (evm' \in Processing => evm \in Processing)
    BY <1>9 DEF SubtractPacking, Processing, evmVars
  <2> QED
    BY ONLY <1>2, <1>3, <2>1
<1>10. CASE FlushCredits
  <2>1. UNCHANGED << nbEvtsInBuilder, events >> /\ (evm' \in Processing => evm \in Processing)
    BY <1>10 DEF FlushCredits, Processing, evmVars
  <2> QED
    BY ONLY <1>2, <1>3, <2>1
<1>11. CASE SubtractAll
  <2>1. UNCHANGED << nbEvtsInBuilder, events >> /\ (evm' \in Processing => evm \in Processing)
    BY <1>11 DEF SubtractAll, Processing, evmVars
  <2> QED
    BY ONLY <1>2, <1>3, <2>1
<1>12. CASE MakeTrigger
  <2>1. Len(events') = Len(events) + 1
    BY <1>3, <1>12 DEF MakeTrigger
  <2>2. evm \in Processing /\ nbEvtsInBuilder < NbEvtIds /\ nbEvtsInBuilder' = nbEvtsInBuilder + 1
    BY <1>12 DEF MakeTrigger, RoomInBuilder
  <2> QED
    BY ONLY <1>1, <1>2, <1>3, <2>1, <2>2
<1>13. CASE TriggerCallback
  <2>1. UNCHANGED << nbEvtsInBuilder, events >> /\ (evm' \in Processing => evm \in Processing)
    BY <1>13 DEF TriggerCallback, Processing, evmVars
  <2> QED
    BY ONLY <1>2, <1>3, <2>1
<1>14. CASE ConfigureTA
  <2>1. UNCHANGED << nbEvtsInBuilder, events >> /\ (evm' \in Processing => evm \in Processing)
    BY <1>14 DEF ConfigureTA, Processing, evmVars
  <2> QED
    BY ONLY <1>2, <1>3, <2>1
<1>15. CASE FailToEnableTA
  <2>1. UNCHANGED << nbEvtsInBuilder, events >> /\ (evm' \in Processing => evm \in Processing)
    BY <1>15 DEF FailToEnableTA, Processing, evmVars
  <2> QED
    BY ONLY <1>2, <1>3, <2>1
<1>16. CASE SuspendTA
  <2>1. UNCHANGED << nbEvtsInBuilder, events >> /\ (evm' \in Processing => evm \in Processing)
    BY <1>16 DEF SuspendTA, Processing, evmVars
  <2> QED
    BY ONLY <1>2, <1>3, <2>1
<1>17. CASE HaltTA
  <2>1. UNCHANGED << nbEvtsInBuilder, events >> /\ (evm' \in Processing => evm \in Processing)
    BY <1>17 DEF HaltTA, Processing, evmVars
  <2> QED
    BY ONLY <1>2, <1>3, <2>1
<1>18. CASE SetTriggerSource
  <2>1. UNCHANGED << nbEvtsInBuilder, events >> /\ (evm' \in Processing => evm \in Processing)
    BY <1>18 DEF SetTriggerSource, Processing, evmVars
  <2> QED
    BY ONLY <1>2, <1>3, <2>1
<1>19. CASE ConfigureEVM
  <2>1. UNCHANGED << nbEvtsInBuilder, events >> /\ (evm' \in Processing => evm \in Processing)
    BY <1>19 DEF ConfigureEVM, Processing, evmVars
  <2> QED
    BY ONLY <1>2, <1>3, <2>1
<1>20. CASE EVMConfigured
  <2>1. evm' \notin Processing /\ nbEvtsInBuilder' = nbEvtsInBuilder
    BY <1>20 DEF EVMConfigured, Processing
  <2> QED
    BY ONLY <1>2, <1>3, <2>1
<1>21. CASE EnableEVM
  <2>1. events' = << >> /\ nbEvtsInBuilder' = 0
    BY <1>21 DEF EnableEVM, TriggerFacts
  <2>2. n = 0
    <3>1. DOMAIN eventOf = {}
      BY <1>21
    <3> QED
      BY <3>1, FS_EmptySet DEF n
  <2>3. Len(events') = 0
    BY <2>1
  <2> QED
    BY ONLY <1>2, <2>1, <2>2, <2>3
<1>22. CASE HaltEVM
  <2>1. UNCHANGED << nbEvtsInBuilder, events >> /\ (evm' \in Processing => evm \in Processing)
    BY <1>22 DEF HaltEVM, Processing, evmVars
  <2> QED
    BY ONLY <1>2, <1>3, <2>1
<1>23. CASE StopRequesting
  <2>1. UNCHANGED << nbEvtsInBuilder, events >> /\ (evm' \in Processing => evm \in Processing)
    BY <1>23 DEF StopRequesting, Processing, evmVars
  <2> QED
    BY ONLY <1>2, <1>3, <2>1
<1>24. CASE SubtractStopped
  <2>1. UNCHANGED << nbEvtsInBuilder, events >> /\ (evm' \in Processing => evm \in Processing)
    BY <1>24 DEF SubtractStopped, Processing, evmVars
  <2> QED
    BY ONLY <1>2, <1>3, <2>1
<1>25. CASE EVMStopped
  <2>1. UNCHANGED << nbEvtsInBuilder, events >> /\ (evm' \in Processing => evm \in Processing)
    BY <1>25 DEF EVMStopped, Processing, evmVars
  <2> QED
    BY ONLY <1>2, <1>3, <2>1
<1>26. CASE TaCreditMsg
  <2>1. UNCHANGED << nbEvtsInBuilder, events >> /\ (evm' \in Processing => evm \in Processing)
    BY <1>26 DEF TaCreditMsg, Processing, evmVars
  <2> QED
    BY ONLY <1>2, <1>3, <2>1
<1>27. CASE SendHeldCredits
  <2>1. UNCHANGED << nbEvtsInBuilder, events >> /\ (evm' \in Processing => evm \in Processing)
    BY <1>27 DEF SendHeldCredits, Processing, evmVars
  <2> QED
    BY ONLY <1>2, <1>3, <2>1
<1> QED
  BY <1>5, <1>6, <1>7, <1>8, <1>9, <1>10, <1>11, <1>12, <1>13, <1>14, <1>15, <1>16, <1>17, <1>18, <1>19, <1>20, <1>21, <1>22, <1>23, <1>24, <1>25, <1>26, <1>27 DEF TriggerAction

LEMMA BuilderCountSame ==
  ASSUME BuilderCount, UNCHANGED << evm, nbEvtsInBuilder, events >>,
         evm \in Processing => DOMAIN eventOf' = DOMAIN eventOf
  PROVE  BuilderCount'
BY DEF BuilderCount, Processing

LEMMA BuilderCountBuild ==
  ASSUME TriggerTypes, FarmTypes, BuilderCount, NEW hasData, BuildEvent(hasData)
  PROVE  BuilderCount'
<1>1. /\ events # << >> /\ events' = Tail(events) /\ events \in Seq(Tests) /\ evm = "Enabled"
      /\ UNCHANGED << nbEvtsInBuilder, evm >>
  BY DEF BuildEvent, TriggerTypes
<1>2. PICK r \in freeResources : DOMAIN eventOf' = DOMAIN eventOf \cup {r}
  BY DEF BuildEvent
<1>3. r \notin DOMAIN eventOf
  BY DEF FarmTypes
<1>4. Cardinality(DOMAIN eventOf') = Cardinality(DOMAIN eventOf) + 1 /\ Cardinality(DOMAIN eventOf) \in Nat
  BY <1>2, <1>3, EventsFinite, FS_AddElement
<1>5. Len(events') = Len(events) - 1 /\ Len(events) \in Nat
  BY <1>1
<1>6. evm \in Processing /\ NbEvtIds \in Nat
  BY <1>1, NbEvtIdsAssumption DEF Processing
<1>7. nbEvtsInBuilder = Len(events) + Cardinality(DOMAIN eventOf) /\ nbEvtsInBuilder \in 0 .. NbEvtIds
  BY <1>6 DEF BuilderCount
<1>8. nbEvtsInBuilder' = Len(events') + Cardinality(DOMAIN eventOf') /\ nbEvtsInBuilder' \in 0 .. NbEvtIds
  <2>1. nbEvtsInBuilder' = nbEvtsInBuilder
    BY <1>1
  <2> QED
    BY ONLY <1>4, <1>5, <1>7, <2>1
<1> QED
  BY <1>8 DEF BuilderCount

LEMMA BuilderCountDiscard ==
  ASSUME TriggerTypes, FarmTypes, BuilderCount, HandleDiscard, Head(discardFIFO) \in DOMAIN eventOf
  PROVE  BuilderCount'
<1> DEFINE r == Head(discardFIFO)
<1>1. /\ eventOf' = Without(eventOf, r) /\ UNCHANGED << events, evm >>
      /\ nbEvtsInBuilder' = IF evm \in Processing THEN nbEvtsInBuilder - 1 ELSE nbEvtsInBuilder
  BY DEF HandleDiscard
<1>2. DOMAIN eventOf' = DOMAIN eventOf \ {r} /\ r \in DOMAIN eventOf
  BY <1>1 DEF Without
<1> HIDE DEF r
<1>3. Cardinality(DOMAIN eventOf') = Cardinality(DOMAIN eventOf) - 1 /\ Cardinality(DOMAIN eventOf) \in Nat
  BY <1>2, EventsFinite, FS_RemoveElement
<1>4. Cardinality(DOMAIN eventOf) # 0
  BY <1>2, EventsFinite, FS_EmptySet
<1>5. Len(events) \in Nat /\ NbEvtIds \in Nat /\ Len(events') = Len(events)
  BY <1>1, NbEvtIdsAssumption DEF TriggerTypes
<1>6. CASE evm \in Processing
  <2>1. nbEvtsInBuilder = Len(events) + Cardinality(DOMAIN eventOf) /\ nbEvtsInBuilder \in 0 .. NbEvtIds
    BY <1>6 DEF BuilderCount
  <2>2. nbEvtsInBuilder' = nbEvtsInBuilder - 1
    BY <1>1, <1>6
  <2>3. nbEvtsInBuilder' = Len(events') + Cardinality(DOMAIN eventOf') /\ nbEvtsInBuilder' \in 0 .. NbEvtIds
    BY ONLY <1>3, <1>4, <1>5, <2>1, <2>2
  <2> QED
    BY <2>3 DEF BuilderCount
<1>7. CASE evm \notin Processing
  BY <1>1, <1>7 DEF BuilderCount, Processing
<1> QED
  BY <1>6, <1>7

-----------------------------------------------------------------------------
(* Requests: each is in a message, in the BU's queue, or being answered.   *)

\* The positions of the last super-fragments of events.
LastOf(q) == { i \in DOMAIN q : q[i].last }

LEMMA LastFinite ==
  ASSUME NEW q \in Seq(Takes)
  PROVE  IsFiniteSet(LastOf(q)) /\ Cardinality(LastOf(q)) \in Nat /\ LastOf(q) \subseteq 1..Len(q)
<1>1. DOMAIN q = 1..Len(q) /\ Len(q) \in Nat
  OBVIOUS
<1>2. LastOf(q) \subseteq 1..Len(q) /\ IsFiniteSet(1..Len(q))
  BY <1>1, FS_Interval DEF LastOf
<1>3. IsFiniteSet(LastOf(q))
  BY <1>2, FS_Subset
<1> QED
  BY <1>2, <1>3, FS_CardinalityType

LEMMA LastTailSet ==
  ASSUME NEW q \in Seq(Takes), q # << >>
  PROVE  /\ Tail(q) \in Seq(Takes) /\ Head(q) \in Takes
         /\ \A i \in Nat : i \in LastOf(Tail(q)) <=> i # 0 /\ i + 1 \in LastOf(q)
         /\ 1 \in LastOf(q) <=> Head(q).last
         /\ \A i \in LastOf(Tail(q)) : Tail(q)[i] = q[i + 1]
<1>1. /\ DOMAIN q = 1..Len(q) /\ Len(q) \in Nat /\ Len(q) # 0 /\ Head(q) = q[1]
      /\ Tail(q) \in Seq(Takes) /\ DOMAIN Tail(q) = 1..(Len(q) - 1)
  OBVIOUS
<1>2. \A i \in 1..(Len(q) - 1) : Tail(q)[i] = q[i + 1]
  OBVIOUS
<1>3. Head(q) \in Takes
  BY <1>1
<1>4. 1 \in LastOf(q) <=> Head(q).last
  BY <1>1 DEF LastOf
<1>5. ASSUME NEW i \in Nat PROVE i \in LastOf(Tail(q)) <=> i # 0 /\ i + 1 \in LastOf(q)
  BY <1>1, <1>2 DEF LastOf
<1> QED
  BY <1>1, <1>2, <1>3, <1>4, <1>5 DEF LastOf

LEMMA LastOfTail ==
  ASSUME NEW q \in Seq(Takes), q # << >>
  PROVE  Cardinality(LastOf(q)) = Cardinality(LastOf(Tail(q))) + (IF Head(q).last THEN 1 ELSE 0)
<1> DEFINE A == LastOf(q) \ {1}
           B == LastOf(Tail(q))
           f == [i \in B |-> i + 1]
<1>1. /\ Tail(q) \in Seq(Takes)
      /\ \A i \in Nat : i \in LastOf(Tail(q)) <=> i # 0 /\ i + 1 \in LastOf(q)
      /\ 1 \in LastOf(q) <=> Head(q).last
  BY LastTailSet
<1>2. /\ IsFiniteSet(B) /\ B \subseteq Nat /\ IsFiniteSet(LastOf(q)) /\ LastOf(q) \subseteq 1..Len(q)
      /\ Cardinality(LastOf(q)) \in Nat
  <2>1. IsFiniteSet(B) /\ B \subseteq 1..Len(Tail(q))
    BY <1>1, LastFinite
  <2>2. 1..Len(Tail(q)) \subseteq Nat
    BY <1>1
  <2> QED
    BY <2>1, <2>2, LastFinite
<1>3. f \in Bijection(B, A)
  <2>1. \A i \in B : i + 1 \in A
    BY <1>1, <1>2
  <2>2. \A j \in A : j - 1 \in B /\ (j - 1) + 1 = j
    BY <1>1, <1>2
  <2> QED
    BY <1>2, <2>1, <2>2 DEF Bijection, Injection, Surjection, IsInjective
<1>4. Cardinality(A) = Cardinality(B)
  <2>1. ExistsBijection(B, A)
    BY <1>3 DEF ExistsBijection
  <2> QED
    BY <1>2, <2>1, FS_Bijection
<1>5. Cardinality(A) = IF 1 \in LastOf(q) THEN Cardinality(LastOf(q)) - 1 ELSE Cardinality(LastOf(q))
  BY <1>2, FS_RemoveElement
<1> HIDE DEF A, B
<1> QED
  BY <1>1, <1>2, <1>4, <1>5 DEF B

LEMMA LastOfTwo ==
  ASSUME NEW q \in Seq(Takes), NEW a \in Takes, NEW b \in Takes, ~ a.last, b.last
  PROVE  /\ q \o << a, b >> \in Seq(Takes)
         /\ LastOf(q \o << a, b >>) = LastOf(q) \cup {Len(q) + 2}
         /\ Len(q) + 2 \notin LastOf(q)
         /\ (q \o << a, b >>)[Len(q) + 2] = b
         /\ \A i \in LastOf(q) : (q \o << a, b >>)[i] = q[i]
<1> DEFINE w == q \o << a, b >>
<1>1. w \in Seq(Takes) /\ Len(w) = Len(q) + 2 /\ Len(q) \in Nat /\ DOMAIN w = 1..(Len(q) + 2) /\ DOMAIN q = 1..Len(q)
  OBVIOUS
<1>2. w[Len(q) + 1] = a /\ w[Len(q) + 2] = b /\ \A i \in 1..Len(q) : w[i] = q[i]
  OBVIOUS
<1> HIDE DEF w
<1>3. LastOf(w) = LastOf(q) \cup {Len(q) + 2}
  <2>1. \A i \in 1..(Len(q) + 2) : i \in 1..Len(q) \/ i = Len(q) + 1 \/ i = Len(q) + 2
    BY <1>1
  <2>2. 1..Len(q) \subseteq 1..(Len(q) + 2) /\ Len(q) + 2 \in 1..(Len(q) + 2)
    BY <1>1
  <2> QED
    BY <1>1, <1>2, <2>1, <2>2 DEF LastOf
<1>4. Len(q) + 2 \notin LastOf(q) /\ LastOf(q) \subseteq 1..Len(q)
  BY <1>1 DEF LastOf
<1> QED
  BY <1>1, <1>2, <1>3, <1>4 DEF w

LEMMA LastOfTwoCounts ==
  ASSUME NEW q \in Seq(Takes), NEW a \in Takes, NEW b \in Takes, ~ a.last, b.last
  PROVE  Cardinality(LastOf(q \o << a, b >>)) = Cardinality(LastOf(q)) + 1
<1>1. LastOf(q \o << a, b >>) = LastOf(q) \cup {Len(q) + 2} /\ Len(q) + 2 \notin LastOf(q)
  BY LastOfTwo
<1>2. IsFiniteSet(LastOf(q))
  BY LastFinite
<1> QED
  BY <1>1, <1>2, FS_AddElement

LEMMA LastOfAged ==
  ASSUME NEW q \in Seq(Takes)
  PROVE  /\ LastOf(AgedMessages(q)) = LastOf(q) /\ DOMAIN AgedMessages(q) = DOMAIN q
         /\ \A i \in DOMAIN q : AgedMessages(q)[i].resource = q[i].resource
<1>1. DOMAIN AgedMessages(q) = DOMAIN q
  BY DEF AgedMessages
<1>2. ASSUME NEW i \in DOMAIN q
      PROVE  AgedMessages(q)[i].last = q[i].last /\ AgedMessages(q)[i].resource = q[i].resource
  <2>1. q[i] \in Takes
    OBVIOUS
  <2>2. AgedMessages(q)[i] = [q[i] EXCEPT !.of = "earlier test"]
    BY DEF AgedMessages
  <2> QED
    BY <2>1, <2>2 DEF Takes
<1> QED
  BY <1>1, <1>2 DEF LastOf

-----------------------------------------------------------------------------
(* The requests of the FU.                                                 *)

Requested == SumOf(allocates) + Len(requestFIFO) + Cardinality(LastOf(takes))

LEMMA RequestedIs ==
  /\ RequestsInMessages + Len(requestFIFO) + EventsOnTheirWay = Requested
  /\ (RequestsInMessages + Len(requestFIFO) + EventsOnTheirWay)' = Requested'
  /\ Requested' = SumOf(allocates') + Len(requestFIFO') + Cardinality(LastOf(takes'))
<1>1. RequestsInMessages + Len(requestFIFO) + EventsOnTheirWay = Requested
  BY DEF Requested, RequestsInMessages, EventsOnTheirWay, LastOf, SumOf
<1>2. (RequestsInMessages + Len(requestFIFO) + EventsOnTheirWay)' = Requested'
  BY DEF Requested, RequestsInMessages, EventsOnTheirWay, LastOf, SumOf
<1>3. Requested' = SumOf(allocates') + Len(requestFIFO') + Cardinality(LastOf(takes'))
  BY DEF Requested
<1> QED
  BY <1>1, <1>2, <1>3

RequestsAre == bu = "Enabled" /\ fu = "Enabled" /\ ~ faultDetected => Requested = NbOutstandingRqsts

LEMMA RequestsAreConserved ==
  (RequestsAre <=> RequestsConserved) /\ (RequestsAre' <=> RequestsConserved')
<1>1. RequestsAre <=> RequestsConserved
  BY RequestedIs DEF RequestsAre, RequestsConserved
<1>2. RequestsAre' <=> RequestsConserved'
  BY RequestedIs DEF RequestsAre, RequestsConserved
<1> QED
  BY <1>1, <1>2

LEMMA RequestTypes ==
  ASSUME FarmTypes
  PROVE  SumOf(allocates) \in Nat /\ Len(requestFIFO) \in Nat /\ Cardinality(LastOf(takes)) \in Nat
BY NumbersInMessages, SumOfType, LastFinite DEF FarmTypes

LEMMA SendEventToFURequests ==
  ASSUME FarmTypes, RequestsAre, SendEventToFU, completeEvents # << >> => Head(completeEvents) \in DOMAIN eventOf
  PROVE  RequestsAre'
<1> SUFFICES ASSUME bu' = "Enabled", fu' = "Enabled", ~ faultDetected' PROVE Requested' = NbOutstandingRqsts
  BY DEF RequestsAre
<1> DEFINE r == Head(completeEvents)
           a == [resource |-> r, last |-> FALSE, of |-> eventOf[r]]
           b == [resource |-> r, last |-> TRUE, of |-> eventOf[r]]
<1>1. /\ requestFIFO # << >> /\ requestFIFO' = Tail(requestFIFO) /\ requestFIFO \in Seq(Tests)
      /\ fu = "Enabled" /\ ~ faultDetected /\ bu = "Enabled" /\ allocates' = allocates
      /\ takes' = takes \o << a, b >>
      /\ completeEvents \in Seq(Resources) /\ completeEvents # << >>
  BY DEF SendEventToFU, fuVars, FarmTypes
<1>2. r \in Resources /\ eventOf[r] \in Tests /\ takes \in Seq(Takes)
  BY <1>1 DEF FarmTypes
<1>3. a \in Takes /\ b \in Takes /\ ~ a.last /\ b.last
  BY <1>2 DEF Takes
<1> HIDE DEF a, b, r
<1>4. Cardinality(LastOf(takes')) = Cardinality(LastOf(takes)) + 1
  BY <1>1, <1>2, <1>3, LastOfTwoCounts
<1>5. Len(requestFIFO') = Len(requestFIFO) - 1 /\ SumOf(allocates') = SumOf(allocates)
  BY <1>1
<1>6. SumOf(allocates) + Len(requestFIFO) + Cardinality(LastOf(takes)) = NbOutstandingRqsts
  BY <1>1 DEF RequestsAre, Requested
<1>7. SumOf(allocates') + Len(requestFIFO') + Cardinality(LastOf(takes')) = NbOutstandingRqsts
  BY ONLY <1>4, <1>5, <1>6, RequestTypes, FarmTypes
<1> QED
  BY <1>7, RequestedIs

LEMMA LengthOfBoth ==
  ASSUME NEW q \in Seq(Tests), NEW r \in Seq(Tests)
  PROVE  Len(q \o r) = Len(q) + Len(r)
OBVIOUS

\* The BU that takes a request of the FU keeps the promise of events.
LEMMA AllocateCallbackRequests ==
  ASSUME FarmTypes, RequestsAre, AllocateCallback
  PROVE  RequestsAre'
<1> SUFFICES ASSUME bu' = "Enabled", fu' = "Enabled", ~ faultDetected' PROVE Requested' = NbOutstandingRqsts
  BY DEF RequestsAre
<1> DEFINE m == Head(allocates)
           given == Repeat(m.of, m.n)
<1>1. /\ allocates \in Seq(Allocates) /\ allocates # << >> /\ allocates' = Tail(allocates)
      /\ fu = "Enabled" /\ ~ faultDetected /\ bu = "Enabled" /\ takes' = takes
      /\ requestFIFO' = requestFIFO \o given /\ requestFIFO \in Seq(Tests)
  BY DEF AllocateCallback, fuVars, FarmTypes
<1>2. m \in Allocates /\ SumOf(allocates) = m.n + SumOf(allocates')
  BY <1>1, NumbersInMessages, SumOfTail
<1>3. m.of \in Tests /\ m.n \in Nat
  BY <1>2, FarmFacts DEF Allocates
<1>4. given \in Seq(Tests) /\ Len(given) = m.n
  BY <1>3, AllOfRepeat
<1> HIDE DEF given, m
<1>5. Len(requestFIFO') = Len(requestFIFO) + m.n
  <2>1. Len(requestFIFO \o given) = Len(requestFIFO) + Len(given)
    BY <1>1, <1>4, LengthOfBoth
  <2> QED
    BY <1>1, <1>4, <2>1
<1>6. SumOf(allocates) + Len(requestFIFO) + Cardinality(LastOf(takes)) = NbOutstandingRqsts
  BY <1>1 DEF RequestsAre, Requested
<1>7. SumOf(allocates') \in Nat /\ LastOf(takes') = LastOf(takes)
  <2>1. allocates' \in Seq(Allocates)
    BY <1>1
  <2> QED
    BY <1>1, <2>1, NumbersInMessages, SumOfType
<1>8. SumOf(allocates') + Len(requestFIFO') + Cardinality(LastOf(takes')) = NbOutstandingRqsts
  BY ONLY <1>2, <1>3, <1>5, <1>6, <1>7, RequestTypes, FarmTypes
<1> QED
  BY <1>8, RequestedIs

\* An event that the FU has taken is asked for again.
LEMMA TakeSuperFragmentRequests ==
  ASSUME FarmTypes, RequestsAre, TakeSuperFragment
  PROVE  RequestsAre'
<1> SUFFICES ASSUME bu' = "Enabled", fu' = "Enabled", ~ faultDetected' PROVE Requested' = NbOutstandingRqsts
  BY DEF RequestsAre
<1> DEFINE m == Head(takes)
<1>1. /\ takes # << >> /\ takes' = Tail(takes) /\ takes \in Seq(Takes) /\ bu = "Enabled" /\ requestFIFO' = requestFIFO
      /\ allocates \in Seq(Allocates)
  BY DEF TakeSuperFragment, buVars, FarmTypes
<1>2. fu = "Enabled" /\ ~ faultDetected /\ (IF m.last THEN FinishEvent(m) ELSE UNCHANGED << fu, nbEventsProcessed, allocates, discards >>)
  BY DEF TakeSuperFragment, FinishEvent
<1>3. Cardinality(LastOf(takes)) = Cardinality(LastOf(takes')) + (IF m.last THEN 1 ELSE 0)
  BY <1>1, LastOfTail
<1>4. takes' \in Seq(Takes)
  BY <1>1
<1>5. Cardinality(LastOf(takes')) \in Nat
  BY <1>4, LastFinite
<1>6. SumOf(allocates) + Len(requestFIFO) + Cardinality(LastOf(takes)) = NbOutstandingRqsts
  BY <1>1, <1>2 DEF RequestsAre, Requested
<1>7. SumOf(allocates') = SumOf(allocates) + (IF m.last THEN 1 ELSE 0)
  <2>1. CASE m.last
    <3>1. allocates' = Append(allocates, [n |-> 1, of |-> This])
      BY <1>2, <2>1 DEF FinishEvent, AllocateNEvents
    <3>2. [n |-> 1, of |-> This] \in Allocates
      BY FarmFacts, TestsAre DEF Allocates
    <3>3. SumOf(Append(allocates, [n |-> 1, of |-> This])) = SumOf(allocates) + [n |-> 1, of |-> This].n
      BY <1>1, <3>2, NumbersInMessages, SumOfAppend
    <3> QED
      BY <2>1, <3>1, <3>3
  <2>2. CASE ~ m.last
    <3>1. allocates' = allocates /\ SumOf(allocates) \in Nat
      BY <1>2, <2>2, RequestTypes
    <3> QED
      BY <2>2, <3>1
  <2> QED
    BY <2>1, <2>2
<1> HIDE DEF m
<1>8. Len(requestFIFO') = Len(requestFIFO)
  BY <1>1
<1>9. SumOf(allocates') + Len(requestFIFO') + Cardinality(LastOf(takes')) = NbOutstandingRqsts
  BY ONLY <1>3, <1>5, <1>6, <1>7, <1>8, RequestTypes, FarmTypes
<1> QED
  BY <1>9, RequestedIs

LEMMA EnableFURequests ==
  ASSUME EnableFU, takes = << >>, allocates = << >>, requestFIFO = << >>
  PROVE  RequestsAre'
<1>1. allocates' = Append(<< >>, [n |-> NbOutstandingRqsts, of |-> This]) /\ takes' = << >> /\ requestFIFO' = << >>
  BY DEF EnableFU, AllocateNEvents, buVars
<1>2. NbOutstandingRqsts \in 1..NbOutstandingRqsts
  BY FarmFacts
<1>3. [n |-> NbOutstandingRqsts, of |-> This] \in Allocates /\ << >> \in Seq(Allocates)
  BY <1>2, TestsAre DEF Allocates
<1>4. SumOf(Append(<< >>, [n |-> NbOutstandingRqsts, of |-> This])) = SumOf(<< >>) + [n |-> NbOutstandingRqsts, of |-> This].n
  BY <1>3, NumbersInMessages, SumOfAppend
<1>5. SumOf(allocates') = NbOutstandingRqsts
  BY <1>1, <1>4, SumEmpty, FarmFacts
<1>6. Cardinality(LastOf(takes')) = 0
  <2>1. LastOf(takes') = {}
    BY <1>1 DEF LastOf
  <2> QED
    BY <2>1, FS_EmptySet
<1>7. Len(requestFIFO') = 0
  BY <1>1
<1>8. SumOf(allocates') + Len(requestFIFO') + Cardinality(LastOf(takes')) = NbOutstandingRqsts
  BY ONLY <1>5, <1>6, <1>7, FarmFacts
<1> QED
  BY <1>8, RequestedIs DEF RequestsAre

LEMMA RequestsSame ==
  ASSUME RequestsAre, UNCHANGED << bu, fu, faultDetected, allocates, requestFIFO, takes >>
  PROVE  RequestsAre'
BY DEF RequestsAre, Requested

LEMMA StartRequests ==
  ASSUME FarmTypes, RequestsAre, Start
  PROVE  RequestsAre'
<1>1. /\ requestFIFO' = Aged(requestFIFO) /\ takes' = AgedMessages(takes) /\ allocates' = AgedMessages(allocates)
      /\ UNCHANGED << bu, fu, faultDetected >>
  BY DEF Start, EventsAge, fuVars
<1>2. SumOf(allocates') = SumOf(allocates)
  BY <1>1, NumbersInMessages, SumOfAged DEF FarmTypes
<1>3. Len(requestFIFO') = Len(requestFIFO)
  BY <1>1, AllOfAged DEF FarmTypes
<1>4. LastOf(takes') = LastOf(takes)
  BY <1>1, LastOfAged DEF FarmTypes
<1>5. Requested' = Requested
  BY <1>2, <1>3, <1>4 DEF Requested
<1> QED
  BY <1>1, <1>5 DEF RequestsAre

\* Commands to BU and FU keep the promise, since both start with nothing of an earlier
\* test.
LEMMA FarmCommandRequests ==
  ASSUME RequestsAre, FarmCommand, EnableBU => fu # "Enabled",
         EnableFU => takes = << >> /\ allocates = << >> /\ requestFIFO = << >>
  PROVE  RequestsAre'
<1>1. CASE ConfigureBU \/ BUConfigured \/ HaltBU
  BY <1>1 DEF RequestsAre, ConfigureBU, BUConfigured, HaltBU
<1>2. CASE EnableBU
  BY <1>2 DEF RequestsAre, EnableBU, fuVars
<1>3. CASE SetDropEventData
  BY <1>3, RequestsSame DEF SetDropEventData, fuVars
<1>4. CASE ConfigureFU \/ FailToEnableFU \/ HaltFU
  BY <1>4 DEF RequestsAre, ConfigureFU, FailToEnableFU, HaltFU
<1>5. CASE EnableFU
  BY <1>5, EnableFURequests
<1> QED
  BY <1>1, <1>2, <1>3, <1>4, <1>5 DEF FarmCommand

-----------------------------------------------------------------------------
(* Where the events of the BU are: complete, on their way to the FU, on    *)
(* their way back, or waiting to be discarded, each of them once.          *)

Once(q) == \A i, j \in DOMAIN q : q[i] = q[j] => i = j
TakenOnce(q) == \A i, j \in LastOf(q) : q[i].resource = q[j].resource => i = j
GivenBackOnce(q) == \A i, j \in DOMAIN q : q[i].resource = q[j].resource => i = j

Taken(q) == { q[i].resource : i \in LastOf(q) }
GivenBack(q) == { q[i].resource : i \in DOMAIN q }

\* Four sets of resources of events, without a resource in common.
Apart(complete, queued, taken, givenBack, all) ==
  /\ complete \cap queued = {} /\ complete \cap taken = {} /\ complete \cap givenBack = {}
  /\ queued \cap taken = {} /\ queued \cap givenBack = {} /\ taken \cap givenBack = {}
  /\ complete \subseteq all /\ queued \subseteq all /\ taken \subseteq all /\ givenBack \subseteq all

EventsOnce ==
  bu = "Enabled" =>
    /\ Once(completeEvents) /\ Once(discardFIFO) /\ TakenOnce(takes) /\ GivenBackOnce(discards)
    /\ Apart(ToSet(completeEvents), ToSet(discardFIFO), Taken(takes), GivenBack(discards), DOMAIN eventOf)

\* The values at some positions, each of them once, when the first position is left out.
LEMMA Shifted ==
  ASSUME NEW A, NEW B, NEW f, NEW g,
         \A i \in B : i \in Nat /\ i + 1 \in A /\ i + 1 # 1 /\ g[i] = f[i + 1],
         \A j \in A : j \in Nat /\ (j # 1 => \E i \in B : i + 1 = j),
         \A i, j \in A : f[i] = f[j] => i = j
  PROVE  /\ \A i, j \in B : g[i] = g[j] => i = j
         /\ 1 \in A => { g[i] : i \in B } = { f[i] : i \in A } \ {f[1]}
         /\ 1 \notin A => { g[i] : i \in B } = { f[i] : i \in A }
<1>1. ASSUME NEW i \in B, NEW j \in B, g[i] = g[j] PROVE i = j
  <2>1. i + 1 = j + 1
    BY <1>1
  <2> QED
    BY <2>1
<1>2. ASSUME NEW i \in B PROVE \E j \in A : j # 1 /\ g[i] = f[j]
  OBVIOUS
<1>3. ASSUME NEW j \in A, j # 1 PROVE \E i \in B : g[i] = f[j]
  BY <1>3
<1>4. ASSUME 1 \in A PROVE { g[i] : i \in B } = { f[i] : i \in A } \ {f[1]}
  <2>1. \A j \in A : j # 1 => f[j] # f[1]
    BY <1>4
  <2> QED
    BY <1>2, <1>3, <2>1
<1>5. ASSUME 1 \notin A PROVE { g[i] : i \in B } = { f[i] : i \in A }
  BY <1>2, <1>3, <1>5
<1> QED
  BY <1>1, <1>4, <1>5

LEMMA TailPositions ==
  ASSUME NEW S, NEW q \in Seq(S), q # << >>
  PROVE  /\ Tail(q) \in Seq(S) /\ Head(q) = q[1] /\ 1 \in DOMAIN q
         /\ \A i \in DOMAIN Tail(q) : i \in Nat /\ i + 1 \in DOMAIN q /\ i + 1 # 1 /\ Tail(q)[i] = q[i + 1]
         /\ \A j \in DOMAIN q : j \in Nat /\ (j # 1 => \E i \in DOMAIN Tail(q) : i + 1 = j)
<1>1. /\ DOMAIN q = 1..Len(q) /\ Len(q) \in Nat /\ Len(q) # 0 /\ Head(q) = q[1]
      /\ DOMAIN Tail(q) = 1..(Len(q) - 1) /\ 1 \in 1..Len(q) /\ Tail(q) \in Seq(S)
  OBVIOUS
<1>2. \A i \in 1..(Len(q) - 1) : Tail(q)[i] = q[i + 1]
  OBVIOUS
<1>3. \A i \in 1..(Len(q) - 1) : i \in Nat /\ i + 1 \in 1..Len(q) /\ i + 1 # 1
  BY <1>1
<1>4. ASSUME NEW j \in 1..Len(q) PROVE j \in Nat /\ (j # 1 => \E i \in 1..(Len(q) - 1) : i + 1 = j)
  <2>1. j \in Nat /\ (j # 1 => j - 1 \in 1..(Len(q) - 1) /\ (j - 1) + 1 = j)
    BY <1>1
  <2> QED
    BY <2>1
<1> QED
  BY <1>1, <1>2, <1>3, <1>4

LEMMA OnceTail ==
  ASSUME NEW S, NEW q \in Seq(S), q # << >>, Once(q)
  PROVE  Once(Tail(q)) /\ ToSet(Tail(q)) = ToSet(q) \ {Head(q)} /\ Head(q) \in ToSet(q)
<1>1. PICK A, B, g : A = DOMAIN q /\ B = DOMAIN Tail(q) /\ g = Tail(q)
  OBVIOUS
<1>2. /\ \A i \in B : i \in Nat /\ i + 1 \in A /\ i + 1 # 1 /\ g[i] = q[i + 1]
      /\ \A j \in A : j \in Nat /\ (j # 1 => \E i \in B : i + 1 = j)
      /\ 1 \in A /\ Head(q) = q[1]
  BY <1>1, TailPositions
<1>3. \A i, j \in A : q[i] = q[j] => i = j
  BY <1>1 DEF Once
<1>4. (\A i, j \in B : g[i] = g[j] => i = j) /\ { g[i] : i \in B } = { q[i] : i \in A } \ {q[1]}
  BY <1>2, <1>3, Shifted
<1>5. { g[i] : i \in B } = ToSet(Tail(q)) /\ { q[i] : i \in A } = ToSet(q)
  BY <1>1 DEF ToSet
<1>6. Once(Tail(q))
  BY <1>1, <1>4 DEF Once
<1>7. Head(q) \in ToSet(q)
  BY <1>1, <1>2 DEF ToSet
<1> QED
  BY <1>2, <1>4, <1>5, <1>6, <1>7

LEMMA OnceAppend ==
  ASSUME NEW S, NEW q \in Seq(S), NEW x \in S, Once(q), x \notin ToSet(q)
  PROVE  Once(Append(q, x)) /\ ToSet(Append(q, x)) = ToSet(q) \cup {x}
<1> DEFINE w == Append(q, x)
<1>1. DOMAIN q = 1..Len(q) /\ Len(q) \in Nat /\ DOMAIN w = 1..(Len(q) + 1) /\ w[Len(q) + 1] = x
  OBVIOUS
<1>2. \A i \in 1..Len(q) : w[i] = q[i]
  OBVIOUS
<1> HIDE DEF w
<1>3. \A i \in 1..(Len(q) + 1) : i \in 1..Len(q) \/ i = Len(q) + 1
  BY <1>1
<1>4. 1..Len(q) \subseteq 1..(Len(q) + 1) /\ Len(q) + 1 \in 1..(Len(q) + 1)
  BY <1>1
<1>5. ToSet(w) = ToSet(q) \cup {x}
  BY <1>1, <1>2, <1>3, <1>4 DEF ToSet
<1>6. Once(w)
  BY <1>1, <1>2, <1>3 DEF Once, ToSet
<1> QED
  BY <1>5, <1>6 DEF w

LEMMA GivenBackTail ==
  ASSUME NEW q \in Seq(Discards), q # << >>, GivenBackOnce(q)
  PROVE  GivenBackOnce(Tail(q)) /\ GivenBack(Tail(q)) = GivenBack(q) \ {Head(q).resource} /\ Head(q).resource \in GivenBack(q)
<1>1. PICK A, B : A = DOMAIN q /\ B = DOMAIN Tail(q)
  OBVIOUS
<1>2. PICK f, g : f = [i \in A |-> q[i].resource] /\ g = [i \in B |-> Tail(q)[i].resource]
  OBVIOUS
<1>3. /\ \A i \in B : i \in Nat /\ i + 1 \in A /\ i + 1 # 1 /\ Tail(q)[i] = q[i + 1]
      /\ \A j \in A : j \in Nat /\ (j # 1 => \E i \in B : i + 1 = j)
      /\ 1 \in A /\ Head(q) = q[1]
  BY <1>1, TailPositions
<1>4. \A i \in B : i \in Nat /\ i + 1 \in A /\ i + 1 # 1 /\ g[i] = f[i + 1]
  BY <1>2, <1>3
<1>5. \A i, j \in A : f[i] = f[j] => i = j
  BY <1>1, <1>2 DEF GivenBackOnce
<1>6. (\A i, j \in B : g[i] = g[j] => i = j) /\ { g[i] : i \in B } = { f[i] : i \in A } \ {f[1]}
  BY <1>3, <1>4, <1>5, Shifted
<1>7. f[1] = Head(q).resource
  BY <1>2, <1>3
<1>8. { g[i] : i \in B } = GivenBack(Tail(q)) /\ { f[i] : i \in A } = GivenBack(q)
  BY <1>1, <1>2 DEF GivenBack
<1>9. GivenBackOnce(Tail(q))
  BY <1>1, <1>2, <1>6 DEF GivenBackOnce
<1>10. Head(q).resource \in GivenBack(q)
  BY <1>1, <1>3 DEF GivenBack
<1> QED
  BY <1>6, <1>7, <1>8, <1>9, <1>10

LEMMA GivenBackAppend ==
  ASSUME NEW q \in Seq(Discards), NEW m \in Discards, GivenBackOnce(q), m.resource \notin GivenBack(q)
  PROVE  GivenBackOnce(Append(q, m)) /\ GivenBack(Append(q, m)) = GivenBack(q) \cup {m.resource}
<1> DEFINE w == Append(q, m)
<1>1. DOMAIN q = 1..Len(q) /\ Len(q) \in Nat /\ DOMAIN w = 1..(Len(q) + 1) /\ w[Len(q) + 1] = m
  OBVIOUS
<1>2. \A i \in 1..Len(q) : w[i] = q[i]
  OBVIOUS
<1> HIDE DEF w
<1>3. \A i \in 1..(Len(q) + 1) : i \in 1..Len(q) \/ i = Len(q) + 1
  BY <1>1
<1>4. 1..Len(q) \subseteq 1..(Len(q) + 1) /\ Len(q) + 1 \in 1..(Len(q) + 1)
  BY <1>1
<1>5. GivenBack(w) = GivenBack(q) \cup {m.resource}
  BY <1>1, <1>2, <1>3, <1>4 DEF GivenBack
<1>6. GivenBackOnce(w)
  BY <1>1, <1>2, <1>3 DEF GivenBackOnce, GivenBack
<1> QED
  BY <1>5, <1>6 DEF w

LEMMA TakenTail ==
  ASSUME NEW q \in Seq(Takes), q # << >>, TakenOnce(q)
  PROVE  /\ TakenOnce(Tail(q))
         /\ Taken(Tail(q)) = IF Head(q).last THEN Taken(q) \ {Head(q).resource} ELSE Taken(q)
         /\ Head(q).last => Head(q).resource \in Taken(q)
<1>1. PICK A, B : A = LastOf(q) /\ B = LastOf(Tail(q))
  OBVIOUS
<1>2. PICK f, g : f = [i \in A |-> q[i].resource] /\ g = [i \in B |-> Tail(q)[i].resource]
  OBVIOUS
<1>3. /\ \A i \in DOMAIN Tail(q) : i \in Nat /\ i + 1 \in DOMAIN q /\ i + 1 # 1 /\ Tail(q)[i] = q[i + 1]
      /\ \A j \in DOMAIN q : j \in Nat /\ (j # 1 => \E i \in DOMAIN Tail(q) : i + 1 = j)
      /\ 1 \in DOMAIN q /\ Head(q) = q[1]
  BY TailPositions
<1>4. \A i \in B : i \in Nat /\ i + 1 \in A /\ i + 1 # 1 /\ g[i] = f[i + 1]
  <2>1. ASSUME NEW i \in B PROVE i \in DOMAIN Tail(q) /\ Tail(q)[i].last /\ g[i] = Tail(q)[i].resource
    BY <1>1, <1>2 DEF LastOf
  <2>2. ASSUME NEW i \in B PROVE i + 1 \in A
    BY <1>1, <1>3, <2>1 DEF LastOf
  <2> QED
    BY <1>2, <1>3, <2>1, <2>2
<1>5. \A j \in A : j \in Nat /\ (j # 1 => \E i \in B : i + 1 = j)
  BY <1>1, <1>3 DEF LastOf
<1>6. \A i, j \in A : f[i] = f[j] => i = j
  BY <1>1, <1>2 DEF TakenOnce
<1>7. /\ \A i, j \in B : g[i] = g[j] => i = j
      /\ 1 \in A => { g[i] : i \in B } = { f[i] : i \in A } \ {f[1]}
      /\ 1 \notin A => { g[i] : i \in B } = { f[i] : i \in A }
  BY <1>4, <1>5, <1>6, Shifted
<1>8. 1 \in A <=> Head(q).last
  BY <1>1, <1>3 DEF LastOf
<1>9. 1 \in A => f[1] = Head(q).resource
  BY <1>2, <1>3
<1>10. { g[i] : i \in B } = Taken(Tail(q)) /\ { f[i] : i \in A } = Taken(q)
  BY <1>1, <1>2 DEF Taken
<1>11. TakenOnce(Tail(q))
  BY <1>1, <1>2, <1>7 DEF TakenOnce
<1>12. 1 \in A => Head(q).resource \in Taken(q)
  BY <1>1, <1>3 DEF Taken
<1> QED
  BY <1>7, <1>8, <1>9, <1>10, <1>11, <1>12

LEMMA TakenTwo ==
  ASSUME NEW q \in Seq(Takes), NEW a \in Takes, NEW b \in Takes, ~ a.last, b.last,
         TakenOnce(q), b.resource \notin Taken(q)
  PROVE  TakenOnce(q \o << a, b >>) /\ Taken(q \o << a, b >>) = Taken(q) \cup {b.resource}
<1>1. PICK w : w = q \o << a, b >>
  OBVIOUS
<1>2. PICK n : n = Len(q) + 2
  OBVIOUS
<1>3. LastOf(w) = LastOf(q) \cup {n} /\ n \notin LastOf(q) /\ w[n] = b /\ \A i \in LastOf(q) : w[i] = q[i]
  <2>1. LastOf(q \o << a, b >>) = LastOf(q) \cup {Len(q) + 2} /\ Len(q) + 2 \notin LastOf(q)
        /\ (q \o << a, b >>)[Len(q) + 2] = b /\ \A i \in LastOf(q) : (q \o << a, b >>)[i] = q[i]
    BY LastOfTwo
  <2> QED
    BY <1>1, <1>2, <2>1, Zenon
<1>4. Taken(w) = Taken(q) \cup {b.resource}
  BY <1>3 DEF Taken
<1>5. TakenOnce(w)
  BY <1>3 DEF TakenOnce, Taken
<1> QED
  BY <1>1, <1>4, <1>5

LEMMA BuildEventOnce ==
  ASSUME FarmTypes, EventsOnce, NEW hasData, BuildEvent(hasData)
  PROVE  EventsOnce'
<1>1. PICK r \in freeResources :
        /\ eventOf' = [x \in DOMAIN eventOf \cup {r} |-> IF x = r THEN Head(events) ELSE eventOf[x]]
        /\ IF dropEventData THEN discardFIFO' = Append(discardFIFO, r) /\ UNCHANGED completeEvents
                            ELSE completeEvents' = Append(completeEvents, r) /\ UNCHANGED discardFIFO
  BY DEF BuildEvent
<1>2. bu = "Enabled" /\ UNCHANGED << bu, takes, discards >>
  BY DEF BuildEvent
<1>3. PICK C, D, T, M, E : C = ToSet(completeEvents) /\ D = ToSet(discardFIFO) /\ T = Taken(takes) /\ M = GivenBack(discards)
                           /\ E = DOMAIN eventOf
  OBVIOUS
<1>4. Once(completeEvents) /\ Once(discardFIFO) /\ TakenOnce(takes) /\ GivenBackOnce(discards) /\ Apart(C, D, T, M, E)
  BY <1>2, <1>3 DEF EventsOnce
<1>5. r \in Resources /\ r \notin E /\ completeEvents \in Seq(Resources) /\ discardFIFO \in Seq(Resources)
  BY <1>1, <1>3 DEF FarmTypes
<1>6. DOMAIN eventOf' = E \cup {r}
  BY <1>1, <1>3
<1>7. r \notin C /\ r \notin D
  BY <1>4, <1>5 DEF Apart
<1>8. TakenOnce(takes') /\ GivenBackOnce(discards') /\ Taken(takes') = T /\ GivenBack(discards') = M
  BY <1>2, <1>3, <1>4
<1>9. CASE dropEventData
  <2>1. Once(discardFIFO') /\ ToSet(discardFIFO') = D \cup {r}
    <3>1. discardFIFO' = Append(discardFIFO, r)
      BY <1>1, <1>9
    <3>2. Once(Append(discardFIFO, r)) /\ ToSet(Append(discardFIFO, r)) = D \cup {r}
      BY <1>3, <1>4, <1>5, <1>7, OnceAppend
    <3> QED
      BY <3>1, <3>2, Zenon
  <2>2. Once(completeEvents') /\ ToSet(completeEvents') = C
    BY <1>1, <1>3, <1>4, <1>9
  <2>3. Apart(C, D \cup {r}, T, M, E \cup {r})
    BY <1>4, <1>5 DEF Apart
  <2> QED
    BY <1>6, <1>8, <2>1, <2>2, <2>3 DEF EventsOnce
<1>10. CASE ~ dropEventData
  <2>1. Once(completeEvents') /\ ToSet(completeEvents') = C \cup {r}
    <3>1. completeEvents' = Append(completeEvents, r)
      BY <1>1, <1>10
    <3>2. Once(Append(completeEvents, r)) /\ ToSet(Append(completeEvents, r)) = C \cup {r}
      BY <1>3, <1>4, <1>5, <1>7, OnceAppend
    <3> QED
      BY <3>1, <3>2, Zenon
  <2>2. Once(discardFIFO') /\ ToSet(discardFIFO') = D
    BY <1>1, <1>3, <1>4, <1>10
  <2>3. Apart(C \cup {r}, D, T, M, E \cup {r})
    BY <1>4, <1>5 DEF Apart
  <2> QED
    BY <1>6, <1>8, <2>1, <2>2, <2>3 DEF EventsOnce
<1> QED
  BY <1>9, <1>10

LEMMA CompleteInTable ==
  ASSUME FarmTypes, EventsOnce, bu = "Enabled"
  PROVE  /\ completeEvents # << >> => Head(completeEvents) \in DOMAIN eventOf
         /\ discardFIFO # << >> => Head(discardFIFO) \in DOMAIN eventOf
<1>1. /\ Once(completeEvents) /\ Once(discardFIFO)
      /\ ToSet(completeEvents) \subseteq DOMAIN eventOf /\ ToSet(discardFIFO) \subseteq DOMAIN eventOf
      /\ completeEvents \in Seq(Resources) /\ discardFIFO \in Seq(Resources)
  BY DEF EventsOnce, Apart, FarmTypes
<1>2. completeEvents # << >> => Head(completeEvents) \in ToSet(completeEvents)
  BY <1>1, OnceTail
<1>3. discardFIFO # << >> => Head(discardFIFO) \in ToSet(discardFIFO)
  BY <1>1, OnceTail
<1> QED
  BY <1>1, <1>2, <1>3

\* An event that is sent is on its way, and was complete before.
LEMMA SendEventToFUOnce ==
  ASSUME FarmTypes, EventsOnce, SendEventToFU
  PROVE  EventsOnce'
<1> SUFFICES ASSUME bu' = "Enabled" PROVE EventsOnce'
  BY DEF EventsOnce
<1>1. PICK r : r = Head(completeEvents)
  OBVIOUS
<1>2. PICK a, b : a = [resource |-> r, last |-> FALSE, of |-> eventOf[r]] /\ b = [resource |-> r, last |-> TRUE, of |-> eventOf[r]]
  OBVIOUS
<1>3. /\ bu = "Enabled" /\ completeEvents # << >> /\ completeEvents' = Tail(completeEvents)
      /\ UNCHANGED << eventOf, discardFIFO, discards >>
  BY DEF SendEventToFU
<1>4. takes' = takes \o << a, b >>
  BY <1>1, <1>2 DEF SendEventToFU
<1>5. PICK C, D, T, M, E : C = ToSet(completeEvents) /\ D = ToSet(discardFIFO) /\ T = Taken(takes) /\ M = GivenBack(discards)
                           /\ E = DOMAIN eventOf
  OBVIOUS
<1>6. Once(completeEvents) /\ Once(discardFIFO) /\ TakenOnce(takes) /\ GivenBackOnce(discards) /\ Apart(C, D, T, M, E)
  BY <1>3, <1>5 DEF EventsOnce
<1>7. completeEvents \in Seq(Resources) /\ takes \in Seq(Takes)
  BY DEF FarmTypes
<1>8. Once(completeEvents') /\ ToSet(completeEvents') = C \ {r} /\ r \in C
  BY <1>1, <1>3, <1>5, <1>6, <1>7, OnceTail
<1>9. r \in E /\ r \notin T /\ r \notin D /\ r \notin M
  BY <1>6, <1>8 DEF Apart
<1>10. r \in Resources /\ eventOf[r] \in Tests
  BY <1>5, <1>9 DEF FarmTypes
<1>11. a \in Takes /\ b \in Takes /\ ~ a.last /\ b.last /\ b.resource = r
  BY <1>2, <1>10 DEF Takes
<1>12. TakenOnce(takes') /\ Taken(takes') = T \cup {r}
  BY <1>4, <1>5, <1>6, <1>7, <1>9, <1>11, TakenTwo
<1>13. Apart(C \ {r}, D, T \cup {r}, M, E)
  BY <1>6, <1>8, <1>9 DEF Apart
<1>14. Once(discardFIFO') /\ GivenBackOnce(discards') /\ ToSet(discardFIFO') = D /\ GivenBack(discards') = M /\ DOMAIN eventOf' = E
  BY <1>3, <1>5, <1>6
<1> QED
  BY <1>8, <1>12, <1>13, <1>14 DEF EventsOnce

LEMMA HandleDiscardOnce ==
  ASSUME FarmTypes, EventsOnce, HandleDiscard
  PROVE  EventsOnce'
<1> SUFFICES ASSUME bu' = "Enabled" PROVE EventsOnce'
  BY DEF EventsOnce
<1>1. PICK r : r = Head(discardFIFO)
  OBVIOUS
<1>2. /\ bu = "Enabled" /\ discardFIFO # << >> /\ discardFIFO' = Tail(discardFIFO)
      /\ UNCHANGED << completeEvents, takes, discards >> /\ eventOf' = Without(eventOf, r)
  BY <1>1 DEF HandleDiscard
<1>3. PICK C, D, T, M, E : C = ToSet(completeEvents) /\ D = ToSet(discardFIFO) /\ T = Taken(takes) /\ M = GivenBack(discards)
                           /\ E = DOMAIN eventOf
  OBVIOUS
<1>4. Once(completeEvents) /\ Once(discardFIFO) /\ TakenOnce(takes) /\ GivenBackOnce(discards) /\ Apart(C, D, T, M, E)
  BY <1>2, <1>3 DEF EventsOnce
<1>5. Once(discardFIFO') /\ ToSet(discardFIFO') = D \ {r} /\ r \in D
  BY <1>1, <1>2, <1>3, <1>4, OnceTail DEF FarmTypes
<1>6. DOMAIN eventOf' = E \ {r}
  BY <1>2, <1>3 DEF Without
<1>7. Apart(C, D \ {r}, T, M, E \ {r})
  BY <1>4, <1>5 DEF Apart
<1>8. /\ Once(completeEvents') /\ ToSet(completeEvents') = C /\ TakenOnce(takes') /\ Taken(takes') = T
      /\ GivenBackOnce(discards') /\ GivenBack(discards') = M
  BY <1>2, <1>3, <1>4
<1> QED
  BY <1>5, <1>6, <1>7, <1>8 DEF EventsOnce

LEMMA DiscardCallbackOnce ==
  ASSUME FarmTypes, EventsOnce, DiscardCallback
  PROVE  EventsOnce'
<1> SUFFICES ASSUME bu' = "Enabled" PROVE EventsOnce'
  BY DEF EventsOnce
<1>1. PICK r : r = Head(discards).resource
  OBVIOUS
<1>2. /\ bu = "Enabled" /\ discards # << >> /\ discards' = Tail(discards) /\ discardFIFO' = Append(discardFIFO, r)
      /\ UNCHANGED << completeEvents, takes, eventOf >>
  BY <1>1 DEF DiscardCallback
<1>3. PICK C, D, T, M, E : C = ToSet(completeEvents) /\ D = ToSet(discardFIFO) /\ T = Taken(takes) /\ M = GivenBack(discards)
                           /\ E = DOMAIN eventOf
  OBVIOUS
<1>4. Once(completeEvents) /\ Once(discardFIFO) /\ TakenOnce(takes) /\ GivenBackOnce(discards) /\ Apart(C, D, T, M, E)
  BY <1>2, <1>3 DEF EventsOnce
<1>5. discards \in Seq(Discards) /\ discardFIFO \in Seq(Resources) /\ E \subseteq Resources
  BY <1>3 DEF FarmTypes
<1>6. GivenBackOnce(discards') /\ GivenBack(discards') = M \ {r} /\ r \in M
  BY <1>1, <1>2, <1>3, <1>4, <1>5, GivenBackTail
<1>7. r \notin D /\ r \in E /\ r \in Resources
  BY <1>4, <1>5, <1>6 DEF Apart
<1>8. Once(discardFIFO') /\ ToSet(discardFIFO') = D \cup {r}
  BY <1>2, <1>3, <1>4, <1>5, <1>7, OnceAppend
<1>9. Apart(C, D \cup {r}, T, M \ {r}, E)
  BY <1>4, <1>6, <1>7 DEF Apart
<1>10. Once(completeEvents') /\ ToSet(completeEvents') = C /\ TakenOnce(takes') /\ Taken(takes') = T /\ DOMAIN eventOf' = E
  BY <1>2, <1>3, <1>4
<1> QED
  BY <1>6, <1>8, <1>9, <1>10 DEF EventsOnce

\* An event that the FU has taken is given back once.
LEMMA TakeSuperFragmentOnce ==
  ASSUME FarmTypes, EventsOnce, TakeSuperFragment
  PROVE  EventsOnce'
<1> SUFFICES ASSUME bu' = "Enabled" PROVE EventsOnce'
  BY DEF EventsOnce
<1>1. PICK m : m = Head(takes)
  OBVIOUS
<1>2. /\ bu = "Enabled" /\ takes # << >> /\ takes' = Tail(takes)
      /\ UNCHANGED << completeEvents, discardFIFO, eventOf >>
  BY DEF TakeSuperFragment, buVars
<1>3. PICK C, D, T, M, E : C = ToSet(completeEvents) /\ D = ToSet(discardFIFO) /\ T = Taken(takes) /\ M = GivenBack(discards)
                           /\ E = DOMAIN eventOf
  OBVIOUS
<1>4. Once(completeEvents) /\ Once(discardFIFO) /\ TakenOnce(takes) /\ GivenBackOnce(discards) /\ Apart(C, D, T, M, E)
  BY <1>2, <1>3 DEF EventsOnce
<1>5. discards \in Seq(Discards) /\ takes \in Seq(Takes)
  BY DEF FarmTypes
<1>6. TakenOnce(takes') /\ Taken(takes') = (IF m.last THEN T \ {m.resource} ELSE T) /\ (m.last => m.resource \in T)
  BY <1>1, <1>2, <1>3, <1>4, <1>5, TakenTail
<1>7. Once(completeEvents') /\ ToSet(completeEvents') = C /\ Once(discardFIFO') /\ ToSet(discardFIFO') = D /\ DOMAIN eventOf' = E
  BY <1>2, <1>3, <1>4
<1>8. \/ discards' = discards
      \/ m.last /\ discards' = Append(discards, [resource |-> m.resource, of |-> m.of])
  BY <1>1 DEF TakeSuperFragment, FinishEvent
<1>9. CASE discards' = discards
  <2>1. Apart(C, D, IF m.last THEN T \ {m.resource} ELSE T, M, E)
    BY <1>4 DEF Apart
  <2>2. GivenBackOnce(discards') /\ GivenBack(discards') = M
    BY <1>3, <1>4, <1>9
  <2> QED
    BY <1>6, <1>7, <2>1, <2>2 DEF EventsOnce
<1>10. CASE m.last /\ discards' = Append(discards, [resource |-> m.resource, of |-> m.of])
  <2>1. PICK d : d = [resource |-> m.resource, of |-> m.of]
    OBVIOUS
  <2>2. m \in Takes
    BY <1>1, <1>2, <1>5
  <2>3. d \in Discards /\ d.resource = m.resource
    BY <2>1, <2>2 DEF Takes, Discards
  <2>4. m.resource \in T /\ m.resource \notin M
    BY <1>4, <1>6, <1>10 DEF Apart
  <2>5. GivenBackOnce(discards') /\ GivenBack(discards') = M \cup {m.resource}
    BY <1>3, <1>4, <1>5, <1>10, <2>1, <2>3, <2>4, GivenBackAppend
  <2>6. Apart(C, D, T \ {m.resource}, M \cup {m.resource}, E)
    BY <1>4, <2>4 DEF Apart
  <2>7. Taken(takes') = T \ {m.resource}
    BY <1>6, <1>10
  <2> QED
    BY <1>6, <1>7, <2>5, <2>6, <2>7 DEF EventsOnce
<1> QED
  BY <1>8, <1>9, <1>10

LEMMA EventsOnceSame ==
  ASSUME EventsOnce, UNCHANGED << completeEvents, discardFIFO, eventOf, takes, discards >>,
         bu' = "Enabled" => bu = "Enabled"
  PROVE  EventsOnce'
BY DEF EventsOnce

LEMMA NothingOnce ==
  ASSUME completeEvents' = << >>, discardFIFO' = << >>, takes' = << >>, discards' = << >>
  PROVE  EventsOnce'
<1>1. ToSet(completeEvents') = {} /\ ToSet(discardFIFO') = {} /\ Taken(takes') = {} /\ GivenBack(discards') = {}
  <2>1. DOMAIN << >> = {}
    OBVIOUS
  <2>2. LastOf(takes') = {}
    BY <2>1 DEF LastOf
  <2> QED
    BY <2>1, <2>2 DEF ToSet, Taken, GivenBack
<1>2. Once(completeEvents') /\ Once(discardFIFO') /\ TakenOnce(takes') /\ GivenBackOnce(discards')
  BY DEF Once, TakenOnce, GivenBackOnce, LastOf
<1> QED
  BY <1>1, <1>2 DEF EventsOnce, Apart

LEMMA StartOnce ==
  ASSUME FarmTypes, EventsOnce, Start
  PROVE  EventsOnce'
<1>1. /\ UNCHANGED << bu, completeEvents, discardFIFO >> /\ DOMAIN eventOf' = DOMAIN eventOf
      /\ takes' = AgedMessages(takes) /\ discards' = AgedMessages(discards)
      /\ takes \in Seq(Takes) /\ discards \in Seq(Discards)
  BY DEF Start, EventsAge, FarmTypes
<1>2. LastOf(takes') = LastOf(takes) /\ \A i \in LastOf(takes) : takes'[i].resource = takes[i].resource
  BY <1>1, LastOfAged DEF LastOf
<1>3. DOMAIN discards' = DOMAIN discards /\ \A i \in DOMAIN discards : discards'[i].resource = discards[i].resource
  <2>1. DOMAIN discards' = DOMAIN discards
    BY <1>1 DEF AgedMessages
  <2>2. ASSUME NEW i \in DOMAIN discards PROVE discards'[i].resource = discards[i].resource
    <3>1. discards[i] \in Discards
      BY <1>1
    <3>2. discards'[i] = [discards[i] EXCEPT !.of = "earlier test"]
      BY <1>1, Zenon DEF AgedMessages
    <3> QED
      BY <3>1, <3>2 DEF Discards
  <2> QED
    BY <2>1, <2>2
<1>4. Taken(takes') = Taken(takes) /\ (TakenOnce(takes) => TakenOnce(takes'))
  BY <1>2 DEF Taken, TakenOnce
<1>5. GivenBack(discards') = GivenBack(discards) /\ (GivenBackOnce(discards) => GivenBackOnce(discards'))
  BY <1>3 DEF GivenBack, GivenBackOnce
<1> QED
  BY <1>1, <1>4, <1>5 DEF EventsOnce

-----------------------------------------------------------------------------
(* The data: what all applications keep whatever the tester does, if their *)
(* commands come when they may.                                            *)

\* The BU is cleared before it is ready, and fails only on an FU that is gone.
BuFacts ==
  /\ bu = "Ready" => freeResources = {} /\ eventOf = << >> /\ completeEvents = << >> /\ discardFIFO = << >> /\ requestFIFO = << >>
  /\ bu = "Failed" => fu = "Gone"

\* What holds of the applications and of the messages between them.
DataInv ==
  /\ TriggerTypes /\ FarmTypes /\ TriggerFacts /\ BuFacts
  /\ CreditsConserved /\ BuilderCount /\ RequestsAre /\ EventsOnce

\* A step between EVM and TA keeps the data.
LEMMA DataTrigger ==
  ASSUME DataInv, TriggerAction, UNCHANGED farmVars,
         evm = "Enabled" /\ source = "TA" => ta \in {"Enabled", "Suspended"},
         HaltTA => ~ (evm = "Enabled" /\ source = "TA"),
         EnableEVM /\ source = "TA" => credits = << >> /\ triggers = << >> /\ held = << >>,
         EnableEVM => eventOf = << >>
  PROVE  DataInv'
<1>1. TriggerTypes /\ FarmTypes /\ TriggerFacts /\ BuFacts /\ CreditsConserved /\ BuilderCount /\ RequestsAre /\ EventsOnce
  BY DEF DataInv
<1>2. UNCHANGED << bu, dropEventData, freeResources, eventOf, completeEvents, discardFIFO, requestFIFO,
                   fu, nbEventsProcessed, faultDetected, damaged, takes, allocates, discards >>
  BY DEF farmVars, buVars, fuVars
<1>3. TriggerTypes'
  BY <1>1, TriggerActionType
<1>4. FarmTypes'
  BY <1>1, <1>2 DEF FarmTypes
<1>5. TriggerFacts'
  BY <1>1, TriggerFactsStep
<1>6. BuFacts'
  BY <1>1, <1>2 DEF BuFacts
<1>7. CreditsConserved'
  BY <1>1, CreditsStep
<1>8. BuilderCount'
  BY <1>1, <1>2, BuilderCountTrigger
<1>9. RequestsAre'
  BY <1>1, <1>2, RequestsSame
<1>10. EventsOnce'
  BY <1>1, <1>2, EventsOnceSame
<1> QED
  BY <1>3, <1>4, <1>5, <1>6, <1>7, <1>8, <1>9, <1>10 DEF DataInv

LEMMA DataBuildEvent ==
  ASSUME DataInv, NEW hasData, BuildEvent(hasData)
  PROVE  DataInv'
<1>1. TriggerTypes /\ FarmTypes /\ TriggerFacts /\ BuFacts /\ CreditsConserved /\ BuilderCount /\ RequestsAre /\ EventsOnce
  BY DEF DataInv
<1>2. TriggerTypes' /\ FarmTypes'
  BY <1>1, BuildEventType
<1>3. /\ bu = "Enabled" /\ evm = "Enabled"
      /\ UNCHANGED << ta, held, lost, credits, triggers, evm, source, toBeSent, doRequestTriggers, firstRequest, loop, triggerFIFO,
                      bu, requestFIFO, fu, faultDetected, takes, allocates >>
  BY DEF BuildEvent, taVars, handlerVars, fuVars
<1>4. TriggerFacts' /\ BuFacts'
  BY <1>1, <1>3 DEF TriggerFacts, BuFacts
<1>5. CreditsConserved'
  BY <1>1, <1>3, CreditsSame
<1>6. BuilderCount'
  BY <1>1, BuilderCountBuild
<1>7. RequestsAre'
  BY <1>1, <1>3, RequestsSame
<1>8. EventsOnce'
  BY <1>1, BuildEventOnce
<1> QED
  BY <1>2, <1>4, <1>5, <1>6, <1>7, <1>8 DEF DataInv

LEMMA DataHandleDiscard ==
  ASSUME DataInv, HandleDiscard
  PROVE  DataInv' /\ bu' = bu
<1>1. TriggerTypes /\ FarmTypes /\ TriggerFacts /\ BuFacts /\ CreditsConserved /\ BuilderCount /\ RequestsAre /\ EventsOnce
  BY DEF DataInv
<1>2. TriggerTypes' /\ FarmTypes'
  BY <1>1, HandleDiscardType
<1>3. bu = "Enabled" /\ discardFIFO # << >>
  BY DEF HandleDiscard
<1>4. Head(discardFIFO) \in DOMAIN eventOf
  BY <1>1, <1>3, CompleteInTable
<1>5. /\ UNCHANGED << ta, held, lost, credits, triggers, evm, source, toBeSent, doRequestTriggers, firstRequest, loop, triggerFIFO, events,
                      bu, requestFIFO, fu, faultDetected, takes, allocates >>
  BY <1>4 DEF HandleDiscard, taVars, handlerVars, fuVars
<1>6. TriggerFacts' /\ BuFacts'
  BY <1>1, <1>3, <1>5 DEF TriggerFacts, BuFacts
<1>7. CreditsConserved'
  BY <1>1, <1>5, CreditsSame
<1>8. BuilderCount'
  BY <1>1, <1>4, BuilderCountDiscard
<1>9. RequestsAre'
  BY <1>1, <1>5, RequestsSame
<1>10. EventsOnce'
  BY <1>1, HandleDiscardOnce
<1> QED
  BY <1>2, <1>5, <1>6, <1>7, <1>8, <1>9, <1>10 DEF DataInv

FarmMessage == SendEventToFU \/ AllocateCallback \/ DiscardCallback \/ TakeSuperFragment

LEMMA FarmTriggerSame ==
  ASSUME FarmMessage \/ FarmCommand
  PROVE  UNCHANGED triggerVars
BY DEF FarmMessage, FarmCommand, SendEventToFU, AllocateCallback, DiscardCallback, TakeSuperFragment,
       ConfigureBU, BUConfigured, EnableBU, HaltBU, SetDropEventData, ConfigureFU, EnableFU, FailToEnableFU, HaltFU

LEMMA TriggerSame ==
  ASSUME UNCHANGED triggerVars
  PROVE  UNCHANGED << trouble, ta, held, lost, credits, triggers, evm, source, toBeSent, doRequestTriggers, firstRequest, loop,
                      triggerFIFO, nbEvtsInBuilder, events >>
BY DEF triggerVars, taVars, evmVars, handlerVars

LEMMA TriggerPartSame ==
  ASSUME TriggerTypes, TriggerFacts, CreditsConserved, UNCHANGED triggerVars
  PROVE  TriggerTypes' /\ TriggerFacts' /\ CreditsConserved'
<1>1. UNCHANGED << trouble, ta, held, lost, credits, triggers, evm, source, toBeSent, doRequestTriggers, firstRequest, loop,
                   triggerFIFO, nbEvtsInBuilder, events >>
  BY TriggerSame
<1>2. TriggerTypes'
  BY <1>1 DEF TriggerTypes
<1>3. TriggerFacts'
  BY <1>1 DEF TriggerFacts
<1> QED
  BY <1>1, <1>2, <1>3, CreditsSame

\* A message between BU and FU keeps the data.
LEMMA DataMessage ==
  ASSUME DataInv, FarmMessage
  PROVE  DataInv'
<1>1. TriggerTypes /\ FarmTypes /\ TriggerFacts /\ BuFacts /\ CreditsConserved /\ BuilderCount /\ RequestsAre /\ EventsOnce
  BY DEF DataInv
<1>2. TriggerTypes' /\ TriggerFacts' /\ CreditsConserved' /\ UNCHANGED << evm, nbEvtsInBuilder, events >>
  BY <1>1, FarmTriggerSame, TriggerPartSame, TriggerSame
<1>3. eventOf' = eventOf
  BY DEF FarmMessage, SendEventToFU, AllocateCallback, DiscardCallback, TakeSuperFragment, buVars
<1>4. BuilderCount'
  BY <1>1, <1>2, <1>3, BuilderCountSame
<1>5. FarmTypes' /\ BuFacts' /\ RequestsAre' /\ EventsOnce'
  <2>1. CASE SendEventToFU
    <3>1. bu = "Enabled"
      BY <2>1 DEF SendEventToFU
    <3>2. completeEvents # << >> => Head(completeEvents) \in DOMAIN eventOf
      BY <1>1, <3>1, CompleteInTable
    <3>3. FarmTypes' /\ RequestsAre'
      BY <1>1, <2>1, <3>2, SendEventToFUType, SendEventToFURequests
    <3>4. EventsOnce'
      BY <1>1, <2>1, SendEventToFUOnce
    <3>5. BuFacts'
      BY <1>1, <2>1 DEF SendEventToFU, BuFacts, fuVars
    <3> QED
      BY <3>3, <3>4, <3>5
  <2>2. CASE AllocateCallback
    <3>1. FarmTypes' /\ RequestsAre'
      BY <1>1, <2>2, AllocateCallbackType, AllocateCallbackRequests
    <3>2. BuFacts'
      BY <1>1, <2>2 DEF AllocateCallback, BuFacts, fuVars
    <3>3. EventsOnce'
      BY <1>1, <2>2, EventsOnceSame DEF AllocateCallback
    <3> QED
      BY <3>1, <3>2, <3>3
  <2>3. CASE DiscardCallback
    <3>1. FarmTypes'
      BY <1>1, <2>3, DiscardCallbackType
    <3>2. BuFacts'
      BY <1>1, <2>3 DEF DiscardCallback, BuFacts, fuVars
    <3>3. RequestsAre'
      BY <1>1, <2>3, RequestsSame DEF DiscardCallback, fuVars
    <3>4. EventsOnce'
      BY <1>1, <2>3, DiscardCallbackOnce
    <3> QED
      BY <3>1, <3>2, <3>3, <3>4
  <2>4. CASE TakeSuperFragment
    <3>1. FarmTypes' /\ RequestsAre'
      BY <1>1, <2>4, TakeSuperFragmentType, TakeSuperFragmentRequests
    <3>2. fu' \in {fu, "Gone"} /\ UNCHANGED << bu, freeResources, eventOf, completeEvents, discardFIFO, requestFIFO >>
      BY <2>4 DEF TakeSuperFragment, FinishEvent, buVars
    <3>3. BuFacts'
      BY <1>1, <3>2 DEF BuFacts
    <3>4. EventsOnce'
      BY <1>1, <2>4, TakeSuperFragmentOnce
    <3> QED
      BY <3>1, <3>3, <3>4
  <2> QED
    BY <2>1, <2>2, <2>3, <2>4 DEF FarmMessage
<1> QED
  BY <1>1, <1>2, <1>4, <1>5 DEF DataInv

\* A command to BU or FU keeps the data.
LEMMA DataCommand ==
  ASSUME DataInv, FarmCommand,
         EnableBU => takes = << >> /\ discards = << >> /\ fu # "Enabled",
         EnableFU => takes = << >> /\ allocates = << >> /\ requestFIFO = << >>,
         BUConfigured => evm \notin Processing
  PROVE  DataInv'
<1>1. TriggerTypes /\ FarmTypes /\ TriggerFacts /\ BuFacts /\ CreditsConserved /\ BuilderCount /\ RequestsAre /\ EventsOnce
  BY DEF DataInv
<1>2. TriggerTypes' /\ TriggerFacts' /\ CreditsConserved' /\ UNCHANGED << evm, nbEvtsInBuilder, events >>
  BY <1>1, FarmTriggerSame, TriggerPartSame, TriggerSame
<1>3. EnableBU => eventOf = << >> /\ completeEvents = << >> /\ discardFIFO = << >>
  BY <1>1 DEF EnableBU, BuFacts
<1>4. FarmTypes'
  BY <1>1, <1>3, FarmCommandType
<1>5. RequestsAre'
  BY <1>1, FarmCommandRequests
<1>6. evm \in Processing => DOMAIN eventOf' = DOMAIN eventOf
  BY DEF FarmCommand, ConfigureBU, EnableBU, HaltBU, SetDropEventData, ConfigureFU, EnableFU, FailToEnableFU, HaltFU, buVars
<1>7. BuilderCount'
  BY <1>1, <1>2, <1>6, BuilderCountSame
<1>8. BuFacts'
  <2>1. bu \in {"Halted", "Configuring", "Ready", "Enabled", "Failed"} /\ (bu = "Failed" => fu = "Gone")
    BY <1>1 DEF FarmTypes, BuFacts
  <2>2. CASE BUConfigured
    BY <2>2 DEF BuFacts, BUConfigured
  <2>3. CASE ConfigureBU \/ EnableBU \/ HaltBU
    BY <2>3 DEF BuFacts, ConfigureBU, EnableBU, HaltBU
  <2>4. CASE SetDropEventData
    BY <1>1, <2>4 DEF BuFacts, SetDropEventData, fuVars
  <2>5. CASE ConfigureFU \/ EnableFU \/ FailToEnableFU \/ HaltFU
    BY <1>1, <2>1, <2>5 DEF BuFacts, ConfigureFU, EnableFU, FailToEnableFU, HaltFU, buVars
  <2> QED
    BY <2>2, <2>3, <2>4, <2>5 DEF FarmCommand
<1>9. EventsOnce'
  <2>1. CASE EnableBU
    <3>1. completeEvents' = << >> /\ discardFIFO' = << >> /\ takes' = << >> /\ discards' = << >>
      BY <1>3, <2>1 DEF EnableBU
    <3> QED
      BY <3>1, NothingOnce
  <2>2. CASE ConfigureBU \/ BUConfigured \/ HaltBU
    BY <2>2 DEF EventsOnce, ConfigureBU, BUConfigured, HaltBU
  <2>3. CASE SetDropEventData
    BY <1>1, <2>3, EventsOnceSame DEF SetDropEventData
  <2>4. CASE ConfigureFU \/ EnableFU \/ FailToEnableFU \/ HaltFU
    BY <1>1, <2>4, EventsOnceSame DEF ConfigureFU, EnableFU, FailToEnableFU, HaltFU, buVars
  <2> QED
    BY <2>1, <2>2, <2>3, <2>4 DEF FarmCommand
<1> QED
  BY <1>2, <1>4, <1>5, <1>7, <1>8, <1>9 DEF DataInv

LEMMA DataSame ==
  ASSUME DataInv, UNCHANGED << triggerVars, farmVars >>
  PROVE  DataInv'
<1>1. TriggerTypes /\ FarmTypes /\ TriggerFacts /\ BuFacts /\ CreditsConserved /\ BuilderCount /\ RequestsAre /\ EventsOnce
  BY DEF DataInv
<1>2. TriggerTypes' /\ TriggerFacts' /\ CreditsConserved' /\ UNCHANGED << evm, nbEvtsInBuilder, events >>
  BY <1>1, TriggerPartSame, TriggerSame
<1>3. UNCHANGED << bu, dropEventData, freeResources, eventOf, completeEvents, discardFIFO, requestFIFO,
                   fu, nbEventsProcessed, faultDetected, damaged, takes, allocates, discards >>
  BY DEF farmVars, buVars, fuVars
<1>4. FarmTypes'
  BY <1>1, <1>3 DEF FarmTypes
<1>5. BuFacts'
  BY <1>1, <1>3 DEF BuFacts
<1>6. BuilderCount'
  BY <1>1, <1>2, <1>3, BuilderCountSame
<1>7. RequestsAre'
  BY <1>1, <1>3, RequestsSame
<1>8. EventsOnce'
  BY <1>1, <1>3, EventsOnceSame
<1> QED
  BY <1>2, <1>4, <1>5, <1>6, <1>7, <1>8 DEF DataInv

\* A new test keeps the data.
LEMMA DataStart ==
  ASSUME DataInv, Start
  PROVE  DataInv'
<1>1. TriggerTypes /\ FarmTypes /\ TriggerFacts /\ BuFacts /\ CreditsConserved /\ BuilderCount /\ RequestsAre /\ EventsOnce
  BY DEF DataInv
<1>2. /\ held' = Aged(held) /\ triggers' = Aged(triggers) /\ triggerFIFO' = Aged(triggerFIFO)
      /\ events' = Aged(events) /\ credits' = AgedMessages(credits)
      /\ eventOf' = [r \in DOMAIN eventOf |-> "earlier test"] /\ requestFIFO' = Aged(requestFIFO)
      /\ UNCHANGED << ta, lost, evm, source, toBeSent, doRequestTriggers, firstRequest, loop, nbEvtsInBuilder,
                      bu, freeResources, completeEvents, discardFIFO, fu >>
  BY DEF Start, TriggersAge, EventsAge, handlerVars, fuVars
<1>3. TriggerTypes' /\ FarmTypes'
  BY <1>1, StartTypes
<1>4. /\ Len(held') = Len(held) /\ Len(triggers') = Len(triggers) /\ Len(triggerFIFO') = Len(triggerFIFO)
      /\ Len(events') = Len(events) /\ Len(requestFIFO') = Len(requestFIFO)
  BY <1>1, <1>2, AllOfAged DEF TriggerTypes, FarmTypes
<1>5. SumOf(credits') = SumOf(credits)
  BY <1>1, <1>2, NumbersInMessages, SumOfAged DEF TriggerTypes
<1>6. \A q \in Seq(Tests) : q = << >> <=> Len(q) = 0
  OBVIOUS
<1>7. (held = << >> => held' = << >>) /\ (triggerFIFO = << >> => triggerFIFO' = << >>) /\ (events = << >> => events' = << >>)
      /\ (requestFIFO = << >> => requestFIFO' = << >>)
  BY <1>1, <1>3, <1>4, <1>6 DEF TriggerTypes, FarmTypes
<1>8. TriggerFacts'
  BY <1>1, <1>2, <1>7 DEF TriggerFacts
<1>9. eventOf = << >> => eventOf' = << >>
  BY <1>2
<1>10. BuFacts'
  BY <1>1, <1>2, <1>7, <1>9 DEF BuFacts
<1>11. CreditsConserved'
  <2>1. CountedCredits' = CountedCredits
    BY <1>2, <1>4, <1>5 DEF CountedCredits
  <2>2. Outstanding' = Outstanding
    BY <2>1, CountedCreditsIs
  <2>3. Due' = Due
    BY <1>2 DEF Due
  <2> QED
    BY <1>1, <1>2, <2>2, <2>3 DEF CreditsConserved
<1>12. BuilderCount'
  BY <1>1, <1>2, <1>4 DEF BuilderCount
<1>13. RequestsAre' /\ EventsOnce'
  BY <1>1, StartRequests, StartOnce
<1> QED
  BY <1>3, <1>8, <1>10, <1>11, <1>12, <1>13 DEF DataInv

LEMMA DataStarts ==
  ASSUME TriggerInit, FarmInit
  PROVE  DataInv
<1>1. TriggerTypes
  BY CounterFacts DEF TriggerInit, TriggerTypes
<1>2. FarmTypes
  <2>1. DOMAIN eventOf = {} /\ completeEvents \in Seq(Resources) /\ discardFIFO \in Seq(Resources) /\ requestFIFO \in Seq(Tests)
        /\ Len(requestFIFO) = 0
    BY DEF FarmInit
  <2>2. takes \in Seq(Takes) /\ allocates \in Seq(Allocates) /\ discards \in Seq(Discards)
    BY DEF FarmInit
  <2>3. nbEventsProcessed # NbEventsBeforeExit /\ nbEventsProcessed \in 0 .. NbEventsBeforeExit /\ damaged \in 0 .. MaxDamaged
        /\ 0 <= RequestCapacity
    BY FarmFacts DEF FarmInit
  <2> QED
    BY <2>1, <2>2, <2>3 DEF FarmInit, FarmTypes
<1>3. TriggerFacts /\ BuFacts
  BY DEF TriggerInit, FarmInit, TriggerFacts, BuFacts, Processing
<1>4. BuilderCount
  BY NbEvtIdsAssumption DEF TriggerInit, BuilderCount, Processing
<1>5. CreditsConserved /\ RequestsAre /\ EventsOnce
  BY DEF TriggerInit, FarmInit, CreditsConserved, RequestsAre, EventsOnce
<1> QED
  BY <1>1, <1>2, <1>3, <1>4, <1>5 DEF DataInv

-----------------------------------------------------------------------------
(* The tests of the messages and of what is in the queues.                 *)

LEMMA SendNTriggersOf ==
  ASSUME TriggerTypes, NEW answered \in Seq(Tests), SendNTriggers(answered), NEW t,
         AllOf(t, triggers), AllOf(t, answered)
  PROVE  AllOf(t, triggers')
<1>1. PICK n \in 0 .. Len(answered) : triggers' = triggers \o SubSeq(answered, 1, n)
  BY DEF SendNTriggers
<1>2. SubSeq(answered, 1, n) \in Seq(Tests) /\ AllOf(t, SubSeq(answered, 1, n))
  BY AllOfFirst
<1>3. triggers \in Seq(Tests)
  BY DEF TriggerTypes
<1> QED
  BY <1>1, <1>2, <1>3, AllOfConcat

LEMMA TaCreditMsgOf ==
  ASSUME TriggerTypes, TaCreditMsg, NEW t, TriggersOf(t)
  PROVE  AllMarked(t, credits') /\ AllOf(t, triggers') /\ AllOf(t, held')
<1> DEFINE given == Repeat(Head(credits).of, Head(credits).n)
<1>1. credits # << >> /\ credits' = Tail(credits) /\ credits \in Seq(CreditMessages) /\ held \in Seq(Tests)
      /\ AllMarked(t, credits) /\ AllOf(t, triggers) /\ AllOf(t, held)
  BY DEF TaCreditMsg, TriggerTypes, TriggersOf
<1>2. Head(credits) \in CreditMessages
  BY <1>1
<1>3. Head(credits).of \in Tests /\ Head(credits).n \in Nat
  BY <1>2, CounterFacts DEF CreditMessages
<1>4. AllMarked(t, credits') /\ Head(credits).of = t
  BY <1>1, MarkedTail
<1>5. given \in Seq(Tests) /\ AllOf(t, given)
  BY <1>3, <1>4, AllOfRepeat
<1>6. \/ UNCHANGED << held, triggers >>
      \/ SendNTriggers(given) /\ UNCHANGED held
      \/ held' = held \o given /\ UNCHANGED triggers
  BY DEF TaCreditMsg
<1> HIDE DEF given
<1>7. AllOf(t, triggers') /\ AllOf(t, held')
  <2>1. CASE UNCHANGED << held, triggers >>
    BY <1>1, <2>1
  <2>2. CASE SendNTriggers(given) /\ UNCHANGED held
    BY <1>1, <1>5, <2>2, SendNTriggersOf
  <2>3. CASE held' = held \o given /\ UNCHANGED triggers
    <3>1. AllOf(t, held \o given)
      BY <1>1, <1>5, AllOfConcat
    <3> QED
      BY <1>1, <2>3, <3>1
  <2> QED
    BY <1>6, <2>1, <2>2, <2>3
<1> QED
  BY <1>4, <1>7

LEMMA SendHeldCreditsOf ==
  ASSUME TriggerTypes, SendHeldCredits, NEW t, TriggersOf(t)
  PROVE  AllMarked(t, credits') /\ AllOf(t, triggers') /\ AllOf(t, held')
<1>1. SendNTriggers(held) /\ held' = << >> /\ UNCHANGED credits /\ held \in Seq(Tests)
      /\ AllMarked(t, credits) /\ AllOf(t, triggers) /\ AllOf(t, held)
  BY DEF SendHeldCredits, TriggerTypes, TriggersOf
<1>2. AllOf(t, triggers')
  BY <1>1, SendNTriggersOf
<1>3. AllOf(t, held')
  BY <1>1 DEF AllOf
<1> QED
  BY <1>1, <1>2, <1>3

LEMMA TriggerCallbackOf ==
  ASSUME TriggerTypes, TriggerCallback, NEW t, TriggersOf(t)
  PROVE  AllMarked(t, credits') /\ AllOf(t, triggers') /\ AllOf(t, held')
<1>1. triggers # << >> /\ triggers' = Tail(triggers) /\ triggers \in Seq(Tests) /\ UNCHANGED << credits, held >>
      /\ AllMarked(t, credits) /\ AllOf(t, triggers) /\ AllOf(t, held)
  BY DEF TriggerCallback, TriggerTypes, TriggersOf, taVars
<1> QED
  BY <1>1, AllOfTail

LEMMA PostOf ==
  ASSUME TriggerTypes, NEW n \in 1 .. CounterSize - 1, Post(n), UNCHANGED << triggers, held >>, TriggersOf(This)
  PROVE  AllMarked(This, credits') /\ AllOf(This, triggers') /\ AllOf(This, held')
<1>1. credits \in Seq(CreditMessages) /\ AllMarked(This, credits) /\ AllOf(This, triggers) /\ AllOf(This, held)
  BY DEF TriggerTypes, TriggersOf
<1>2. [n |-> n, of |-> This] \in CreditMessages /\ [n |-> n, of |-> This].of = This
  BY PostType
<1>3. AllMarked(This, Append(credits, [n |-> n, of |-> This]))
  BY <1>1, <1>2, MarkedAppend
<1> QED
  BY <1>1, <1>3 DEF Post

LEMMA HaltTAOf ==
  ASSUME HaltTA, NEW t, TriggersOf(t)
  PROVE  AllMarked(t, credits') /\ AllOf(t, triggers') /\ AllOf(t, held')
BY DEF HaltTA, TriggersOf, AllOf

\* The actions that send or get no message.
QuietTrigger ==
  \/ FirstRequest \/ TakeTrigger \/ AddCredit \/ SubtractPacking \/ SubtractAll \/ MakeTrigger
  \/ ConfigureTA \/ FailToEnableTA \/ SuspendTA \/ SetTriggerSource
  \/ ConfigureEVM \/ EVMConfigured \/ EnableEVM \/ HaltEVM \/ SubtractStopped \/ EVMStopped

LEMMA QuietTriggerSame ==
  ASSUME QuietTrigger
  PROVE  UNCHANGED << credits, triggers, held >>
<1>1. CASE FirstRequest
  BY <1>1 DEF FirstRequest, taVars, evmVars
<1>2. CASE TakeTrigger
  BY <1>2 DEF TakeTrigger, taVars, evmVars
<1>3. CASE AddCredit
  BY <1>3 DEF AddCredit, taVars, evmVars
<1>4. CASE SubtractPacking
  BY <1>4 DEF SubtractPacking, taVars, evmVars
<1>5. CASE SubtractAll
  BY <1>5 DEF SubtractAll, taVars, evmVars
<1>6. CASE MakeTrigger
  BY <1>6 DEF MakeTrigger, taVars, evmVars
<1>7. CASE ConfigureTA
  BY <1>7 DEF ConfigureTA, taVars, evmVars
<1>8. CASE FailToEnableTA
  BY <1>8 DEF FailToEnableTA, taVars, evmVars
<1>9. CASE SuspendTA
  BY <1>9 DEF SuspendTA, taVars, evmVars
<1>10. CASE SetTriggerSource
  BY <1>10 DEF SetTriggerSource, taVars, evmVars
<1>11. CASE ConfigureEVM
  BY <1>11 DEF ConfigureEVM, taVars, evmVars
<1>12. CASE EVMConfigured
  BY <1>12 DEF EVMConfigured, taVars, evmVars
<1>13. CASE EnableEVM
  BY <1>13 DEF EnableEVM, taVars, evmVars
<1>14. CASE HaltEVM
  BY <1>14 DEF HaltEVM, taVars, evmVars
<1>15. CASE SubtractStopped
  BY <1>15 DEF SubtractStopped, taVars, evmVars
<1>16. CASE EVMStopped
  BY <1>16 DEF EVMStopped, taVars, evmVars
<1> QED
  BY <1>1, <1>2, <1>3, <1>4, <1>5, <1>6, <1>7, <1>8, <1>9, <1>10, <1>11, <1>12, <1>13, <1>14, <1>15, <1>16 DEF QuietTrigger

LEMMA KindsOfTrigger ==
  TriggerAction <=>
    \/ QuietTrigger \/ AskForTriggers \/ FlushCredits \/ StopRequesting
    \/ TriggerCallback \/ HaltTA \/ TaCreditMsg \/ SendHeldCredits
BY DEF TriggerAction, QuietTrigger

\* All that EVM and TA send is of the present test.
LEMMA TriggersNow ==
  ASSUME TriggerTypes, TriggersOf(This), TriggerAction
  PROVE  TriggersOf(This)'
<1> SUFFICES AllMarked(This, credits') /\ AllOf(This, triggers') /\ AllOf(This, held')
  BY DEF TriggersOf, AllMarked, AllOf, This
<1>1. CASE QuietTrigger
  BY <1>1, QuietTriggerSame DEF TriggersOf
<1>2. CASE AskForTriggers
  <2>1. Packing \in 1 .. CounterSize - 1 /\ Post(Packing) /\ UNCHANGED << triggers, held >>
    BY <1>2, PackingAssumption DEF AskForTriggers, taVars
  <2> QED
    BY <2>1, PostOf
<1>3. CASE FlushCredits
  <2>1. toBeSent \in 1 .. CounterSize - 1 /\ Post(toBeSent) /\ UNCHANGED << triggers, held >>
    BY <1>3, CounterFacts DEF FlushCredits, taVars, TriggerTypes
  <2> QED
    BY <2>1, PostOf
<1>4. CASE StopRequesting
  <2>1. CASE toBeSent > 0 /\ Post(toBeSent)
    <3>1. toBeSent \in 1 .. CounterSize - 1 /\ UNCHANGED << triggers, held >>
      BY <1>4, <2>1, CounterFacts DEF StopRequesting, taVars, TriggerTypes
    <3> QED
      BY <2>1, <3>1, PostOf
  <2>2. CASE UNCHANGED credits
    BY <1>4, <2>2 DEF StopRequesting, taVars, TriggersOf
  <2> QED
    BY <1>4, <2>1, <2>2 DEF StopRequesting
<1>5. CASE TriggerCallback
  BY <1>5, TriggerCallbackOf
<1>6. CASE HaltTA
  BY <1>6, HaltTAOf
<1>7. CASE TaCreditMsg
  BY <1>7, TaCreditMsgOf
<1>8. CASE SendHeldCredits
  BY <1>8, SendHeldCreditsOf
<1> QED
  BY <1>1, <1>2, <1>3, <1>4, <1>5, <1>6, <1>7, <1>8, KindsOfTrigger

EvmAtRest == evm \in {"Halted", "Configuring", "Ready"} /\ loop = "idle"

LEMMA NothingPosted ==
  ASSUME EvmAtRest
  PROVE  ~ AskForTriggers /\ ~ FlushCredits /\ ~ StopRequesting
BY DEF EvmAtRest, AskForTriggers, FlushCredits, StopRequesting, Processing

\* Triggers of an earlier test stay such, as long as the EVM makes no new ones.
LEMMA TriggersOld ==
  ASSUME TriggerTypes, TriggersOf(Old), EvmAtRest, TriggerAction
  PROVE  TriggersOf(Old)'
<1> SUFFICES AllMarked(Old, credits') /\ AllOf(Old, triggers') /\ AllOf(Old, held')
  BY DEF TriggersOf, AllMarked, AllOf, Old
<1>1. CASE QuietTrigger
  BY <1>1, QuietTriggerSame DEF TriggersOf
<1>2. CASE TriggerCallback
  BY <1>2, TriggerCallbackOf
<1>3. CASE HaltTA
  BY <1>3, HaltTAOf
<1>4. CASE TaCreditMsg
  BY <1>4, TaCreditMsgOf
<1>5. CASE SendHeldCredits
  BY <1>5, SendHeldCreditsOf
<1> QED
  BY <1>1, <1>2, <1>3, <1>4, <1>5, NothingPosted, KindsOfTrigger

LEMMA StillNoTriggers ==
  ASSUME NoTriggers, EvmAtRest, held = << >>, TriggerAction
  PROVE  NoTriggers'
<1>1. CASE QuietTrigger
  BY <1>1, QuietTriggerSame DEF NoTriggers
<1>2. ~ TriggerCallback /\ ~ TaCreditMsg
  BY DEF NoTriggers, TriggerCallback, TaCreditMsg
<1>3. CASE HaltTA
  BY <1>3 DEF HaltTA, NoTriggers
<1>4. CASE SendHeldCredits
  <2>1. PICK n \in 0 .. Len(held) : triggers' = triggers \o SubSeq(held, 1, n)
    BY <1>4 DEF SendHeldCredits, SendNTriggers
  <2>2. n = 0
    BY <2>1
  <2>3. triggers' = << >> \o SubSeq(<< >>, 1, 0) /\ credits' = << >>
    BY <1>4, <2>1, <2>2 DEF SendHeldCredits, NoTriggers
  <2>4. triggers' = << >>
    BY <2>3
  <2> QED
    BY <2>3, <2>4 DEF NoTriggers
<1> QED
  BY <1>1, <1>2, <1>3, <1>4, NothingPosted, KindsOfTrigger

LEMMA EvmQueuesNow ==
  ASSUME TriggerTypes, AllOf(This, triggers), EvmQueues, TriggerAction
  PROVE  EvmQueues'
<1> SUFFICES AllOf(This, triggerFIFO') /\ AllOf(This, events')
  BY DEF EvmQueues, AllOf, This
<1>1. AllOf(This, triggerFIFO) /\ AllOf(This, events) /\ AllOf(This, << >>)
      /\ triggers \in Seq(Tests) /\ triggerFIFO \in Seq(Tests) /\ events \in Seq(Tests)
  BY DEF EvmQueues, TriggerTypes, AllOf
<1>2. CASE TakeTrigger
  <2>1. triggerFIFO # << >> /\ triggerFIFO' = Tail(triggerFIFO) /\ events' = Append(events, Head(triggerFIFO))
    BY <1>2 DEF TakeTrigger
  <2>2. AllOf(This, Tail(triggerFIFO)) /\ Head(triggerFIFO) = This
    BY <1>1, <2>1, AllOfTail
  <2>3. AllOf(This, Append(events, Head(triggerFIFO)))
    BY <1>1, <2>2, TestsAre, AllOfAppend
  <2> QED
    BY <2>1, <2>2, <2>3
<1>3. CASE MakeTrigger
  <2>1. events' = Append(events, This) /\ UNCHANGED triggerFIFO
    BY <1>3 DEF MakeTrigger
  <2>2. AllOf(This, Append(events, This))
    BY <1>1, TestsAre, AllOfAppend
  <2> QED
    BY <1>1, <2>1, <2>2
<1>4. CASE TriggerCallback
  <2>1. triggers # << >> /\ UNCHANGED events /\ (triggerFIFO' = Append(triggerFIFO, Head(triggers)) \/ UNCHANGED triggerFIFO)
    BY <1>4 DEF TriggerCallback
  <2>2. Head(triggers) = This
    BY <1>1, <2>1, AllOfTail
  <2>3. AllOf(This, Append(triggerFIFO, Head(triggers)))
    BY <1>1, <2>2, TestsAre, AllOfAppend
  <2> QED
    BY <1>1, <2>1, <2>3
<1>5. CASE EVMConfigured
  BY <1>1, <1>5 DEF EVMConfigured
<1>6. CASE SetTriggerSource
  BY <1>1, <1>6 DEF SetTriggerSource
<1>7. CASE FirstRequest
  BY <1>1, <1>7 DEF FirstRequest, evmVars
<1>8. CASE AddCredit
  BY <1>1, <1>8 DEF AddCredit, evmVars
<1>9. CASE AskForTriggers
  BY <1>1, <1>9 DEF AskForTriggers, evmVars
<1>10. CASE SubtractPacking
  BY <1>1, <1>10 DEF SubtractPacking, evmVars
<1>11. CASE FlushCredits
  BY <1>1, <1>11 DEF FlushCredits, evmVars
<1>12. CASE SubtractAll
  BY <1>1, <1>12 DEF SubtractAll, evmVars
<1>13. CASE ConfigureTA
  BY <1>1, <1>13 DEF ConfigureTA, evmVars
<1>14. CASE FailToEnableTA
  BY <1>1, <1>14 DEF FailToEnableTA, evmVars
<1>15. CASE SuspendTA
  BY <1>1, <1>15 DEF SuspendTA, evmVars
<1>16. CASE HaltTA
  BY <1>1, <1>16 DEF HaltTA, evmVars
<1>17. CASE ConfigureEVM
  BY <1>1, <1>17 DEF ConfigureEVM, evmVars
<1>18. CASE EnableEVM
  BY <1>1, <1>18 DEF EnableEVM, evmVars
<1>19. CASE HaltEVM
  BY <1>1, <1>19 DEF HaltEVM, evmVars
<1>20. CASE StopRequesting
  BY <1>1, <1>20 DEF StopRequesting, evmVars
<1>21. CASE SubtractStopped
  BY <1>1, <1>21 DEF SubtractStopped, evmVars
<1>22. CASE EVMStopped
  BY <1>1, <1>22 DEF EVMStopped, evmVars
<1>23. CASE TaCreditMsg
  BY <1>1, <1>23 DEF TaCreditMsg, evmVars
<1>24. CASE SendHeldCredits
  BY <1>1, <1>24 DEF SendHeldCredits, evmVars
<1> QED
  BY <1>2, <1>3, <1>4, <1>5, <1>6, <1>7, <1>8, <1>9, <1>10, <1>11, <1>12, <1>13, <1>14, <1>15, <1>16, <1>17, <1>18, <1>19, <1>20, <1>21, <1>22, <1>23, <1>24 DEF TriggerAction

-----------------------------------------------------------------------------

\* Messages of an earlier test stay such, as long as BU and FU do nothing new.
LEMMA FarmOld ==
  ASSUME FarmTypes, FarmOf(Old), bu # "Enabled", fu \notin {"Ready", "Enabled"}, FarmMessage \/ FarmCommand
  PROVE  FarmOf(Old)'
<1> SUFFICES AllMarked(Old, takes') /\ AllMarked(Old, allocates') /\ AllMarked(Old, discards')
  BY DEF FarmOf, AllMarked, Old
<1>1. AllMarked(Old, takes) /\ AllMarked(Old, allocates) /\ AllMarked(Old, discards)
      /\ takes \in Seq(Takes) /\ allocates \in Seq(Allocates) /\ discards \in Seq(Discards)
  BY DEF FarmOf, FarmTypes
<1>2. ~ SendEventToFU /\ ~ EnableFU
  BY DEF SendEventToFU, EnableFU
<1>3. CASE AllocateCallback
  <2>1. AllMarked(Old, Tail(allocates)) /\ allocates' = Tail(allocates) /\ UNCHANGED << takes, discards >>
    BY <1>1, <1>3, MarkedTail DEF AllocateCallback
  <2> QED
    BY <1>1, <2>1
<1>4. CASE DiscardCallback
  <2>1. AllMarked(Old, Tail(discards)) /\ discards' = Tail(discards) /\ UNCHANGED << takes, allocates >>
    BY <1>1, <1>4, MarkedTail DEF DiscardCallback
  <2> QED
    BY <1>1, <2>1
<1>5. CASE TakeSuperFragment
  <2>1. AllMarked(Old, Tail(takes)) /\ takes' = Tail(takes) /\ UNCHANGED << allocates, discards >>
    BY <1>1, <1>5, MarkedTail DEF TakeSuperFragment
  <2> QED
    BY <1>1, <2>1
<1>6. CASE FarmCommand
  <2>1. UNCHANGED << takes, allocates, discards >>
    BY <1>2, <1>6 DEF FarmCommand, ConfigureBU, BUConfigured, EnableBU, HaltBU, SetDropEventData, ConfigureFU, FailToEnableFU, HaltFU
  <2> QED
    BY <1>1, <2>1
<1> QED
  BY <1>2, <1>3, <1>4, <1>5, <1>6 DEF FarmMessage

\* All that BU and FU send is of the present test, if what they have is.
LEMMA FarmNow ==
  ASSUME FarmTypes, EventsOnce, FarmOf(This), BuQueues, FarmMessage \/ FarmCommand
  PROVE  FarmOf(This)' /\ BuQueues'
<1> SUFFICES /\ AllMarked(This, takes') /\ AllMarked(This, allocates') /\ AllMarked(This, discards')
             /\ AllOf(This, requestFIFO') /\ AllOf(This, eventOf')
  BY DEF FarmOf, BuQueues, AllMarked, AllOf, This
<1>1. AllMarked(This, takes) /\ AllMarked(This, allocates) /\ AllMarked(This, discards)
      /\ takes \in Seq(Takes) /\ allocates \in Seq(Allocates) /\ discards \in Seq(Discards)
      /\ AllOf(This, requestFIFO) /\ AllOf(This, eventOf) /\ requestFIFO \in Seq(Tests) /\ AllOf(This, << >>)
  BY DEF FarmOf, FarmTypes, BuQueues, AllOf
<1>2. CASE SendEventToFU
  <2>1. PICK r : r = Head(completeEvents)
    OBVIOUS
  <2>2. PICK a, b : a = [resource |-> r, last |-> FALSE, of |-> eventOf[r]] /\ b = [resource |-> r, last |-> TRUE, of |-> eventOf[r]]
    OBVIOUS
  <2>3. /\ bu = "Enabled" /\ completeEvents # << >> /\ requestFIFO # << >> /\ requestFIFO' = Tail(requestFIFO)
        /\ UNCHANGED << eventOf, allocates, discards >> /\ (takes' = takes \o << a, b >> \/ takes' = takes)
    BY <1>2, <2>1, <2>2 DEF SendEventToFU
  <2>4. r \in DOMAIN eventOf
    BY <2>1, <2>3, CompleteInTable
  <2>5. eventOf[r] = This /\ r \in Resources
    BY <1>1, <2>4 DEF AllOf, FarmTypes
  <2>6. a \in Takes /\ b \in Takes /\ ~ a.last /\ b.last /\ a.of = This /\ b.of = This
    BY <2>2, <2>5, TestsAre DEF Takes
  <2>7. AllMarked(This, Append(takes, a)) /\ Append(takes, a) \in Seq(Takes)
    BY <1>1, <2>6, MarkedAppend
  <2>8. AllMarked(This, Append(Append(takes, a), b))
    BY <2>6, <2>7, MarkedAppend
  <2>9. takes \o << a, b >> = Append(Append(takes, a), b)
    BY <1>1, <2>6
  <2>10. AllOf(This, Tail(requestFIFO))
    BY <1>1, <2>3, AllOfTail
  <2> QED
    BY <1>1, <2>3, <2>8, <2>9, <2>10
<1>3. CASE AllocateCallback
  <2>1. PICK m, given : m = Head(allocates) /\ given = Repeat(m.of, m.n)
    OBVIOUS
  <2>2. allocates # << >> /\ allocates' = Tail(allocates) /\ UNCHANGED << takes, discards, eventOf >>
        /\ (requestFIFO' = requestFIFO \o given \/ UNCHANGED requestFIFO)
    BY <1>3, <2>1 DEF AllocateCallback
  <2>3. AllMarked(This, Tail(allocates)) /\ m.of = This
    BY <1>1, <2>1, <2>2, MarkedTail
  <2>4. m \in Allocates
    BY <1>1, <2>1, <2>2
  <2>5. m.n \in Nat
    BY <2>4, FarmFacts DEF Allocates
  <2>6. given \in Seq(Tests) /\ AllOf(This, given)
    BY <2>1, <2>3, <2>5, TestsAre, AllOfRepeat
  <2>7. AllOf(This, requestFIFO \o given)
    BY <1>1, <2>6, AllOfConcat
  <2> QED
    BY <1>1, <2>2, <2>3, <2>7
<1>4. CASE DiscardCallback
  <2>1. AllMarked(This, Tail(discards)) /\ discards' = Tail(discards) /\ UNCHANGED << takes, allocates, requestFIFO, eventOf >>
    BY <1>1, <1>4, MarkedTail DEF DiscardCallback
  <2> QED
    BY <1>1, <2>1
<1>5. CASE TakeSuperFragment
  <2>1. PICK m : m = Head(takes)
    OBVIOUS
  <2>2. takes # << >> /\ takes' = Tail(takes) /\ UNCHANGED << requestFIFO, eventOf >>
    BY <1>5 DEF TakeSuperFragment, buVars
  <2>3. AllMarked(This, takes') /\ m.of = This /\ m \in Takes
    <3>1. AllMarked(This, Tail(takes)) /\ Head(takes).of = This
      BY <1>1, <2>2, MarkedTail
    <3> QED
      BY <1>1, <2>1, <2>2, <3>1
  <2>4. PICK a, d : a = [n |-> 1, of |-> This] /\ d = [resource |-> m.resource, of |-> m.of]
    OBVIOUS
  <2>5. UNCHANGED << allocates, discards >> \/ (allocates' = Append(allocates, a) /\ discards' = Append(discards, d))
    BY <1>5, <2>1, <2>4 DEF TakeSuperFragment, FinishEvent, AllocateNEvents
  <2>6. a \in Allocates /\ a.of = This /\ d \in Discards /\ d.of = This
    BY <2>3, <2>4, FarmFacts, TestsAre DEF Allocates, Discards, Takes
  <2>7. AllMarked(This, Append(allocates, a)) /\ AllMarked(This, Append(discards, d))
    BY <1>1, <2>6, MarkedAppend
  <2> QED
    BY <1>1, <2>2, <2>3, <2>5, <2>7
<1>6. CASE EnableFU
  <2>1. PICK a : a = [n |-> NbOutstandingRqsts, of |-> This]
    OBVIOUS
  <2>2. a \in Allocates /\ a.of = This
    BY <2>1, FarmFacts, TestsAre DEF Allocates
  <2>3. allocates' = Append(allocates, a) /\ UNCHANGED << takes, discards, requestFIFO, eventOf >>
    BY <1>6, <2>1 DEF EnableFU, AllocateNEvents, buVars
  <2>4. AllMarked(This, Append(allocates, a))
    BY <1>1, <2>2, MarkedAppend
  <2> QED
    BY <1>1, <2>3, <2>4
<1>7. CASE BUConfigured
  BY <1>1, <1>7 DEF BUConfigured
<1>8. CASE ConfigureBU \/ EnableBU \/ HaltBU \/ SetDropEventData \/ ConfigureFU \/ FailToEnableFU \/ HaltFU
  BY <1>1, <1>8 DEF ConfigureBU, EnableBU, HaltBU, SetDropEventData, ConfigureFU, FailToEnableFU, HaltFU, buVars
<1> QED
  BY <1>2, <1>3, <1>4, <1>5, <1>6, <1>7, <1>8 DEF FarmMessage, FarmCommand

LEMMA BuildEventNow ==
  ASSUME TriggerTypes, NEW hasData, BuildEvent(hasData), EvmQueues, BuQueues
  PROVE  EvmQueues' /\ BuQueues'
<1> SUFFICES AllOf(This, triggerFIFO') /\ AllOf(This, events') /\ AllOf(This, requestFIFO') /\ AllOf(This, eventOf')
  BY DEF EvmQueues, BuQueues, AllOf, This
<1>1. events # << >> /\ events' = Tail(events) /\ events \in Seq(Tests) /\ UNCHANGED << triggerFIFO, requestFIFO >>
      /\ AllOf(This, triggerFIFO) /\ AllOf(This, events) /\ AllOf(This, requestFIFO) /\ AllOf(This, eventOf)
  BY DEF BuildEvent, TriggerTypes, EvmQueues, BuQueues
<1>2. AllOf(This, Tail(events)) /\ Head(events) = This
  BY <1>1, AllOfTail
<1>3. PICK r : eventOf' = [x \in DOMAIN eventOf \cup {r} |-> IF x = r THEN Head(events) ELSE eventOf[x]]
  BY DEF BuildEvent
<1>4. AllOf(This, eventOf')
  BY <1>1, <1>2, <1>3 DEF AllOf
<1> QED
  BY <1>1, <1>2, <1>4

LEMMA HandleDiscardNow ==
  ASSUME HandleDiscard, BuQueues
  PROVE  BuQueues'
<1>1. UNCHANGED requestFIFO /\ (eventOf' = eventOf \/ \E r : eventOf' = Without(eventOf, r))
  BY DEF HandleDiscard
<1> QED
  BY <1>1 DEF BuQueues, AllOf, Without

LEMMA NoRequestsNoMessage ==
  ASSUME NoRequests
  PROVE  ~ FarmMessage
BY DEF NoRequests, FarmMessage, SendEventToFU, AllocateCallback, DiscardCallback, TakeSuperFragment

-----------------------------------------------------------------------------
(* Where the tester is, the whole of the system.                           *)

\* The trigger adapter could not be enabled: the tester gave up, and can only start again.
TAFailed ==
  /\ ta = "Failed" /\ "TA" \in present /\ source = "TA" /\ ~ testStarted
  /\ evm = "Halted" /\ bu = "Halted" /\ fu = "Halted" /\ ru = "Halted" /\ rui = "Halted"
  /\ Within(1, 4)

\* The filter unit could not be enabled.
FUFailed ==
  /\ fu = "Failed" /\ "FU" \in present /\ ~ testStarted
  /\ evm = "Enabled" /\ bu = "Enabled" /\ ru = "Enabled"
  /\ rui = IF "RUI" \in present THEN "Enabled" ELSE "Halted"
  /\ \/ "TA" \in present /\ source = "TA" /\ ta \in {"Enabled", "Suspended"} /\ Within(1, 4)
     \/ "TA" \notin present /\ source = "Local" /\ ta = "Halted" /\ Within(1, 16)

\* The filter unit is gone, and the tester gave up halting it: it can only stop again.
FUGone ==
  /\ fu = "Gone" /\ "FU" \in present /\ testStarted
  /\ evm = "Halted" /\ bu \in {"Halted", "Failed"} /\ ru = "Halted" /\ rui = "Halted" /\ ta = "Halted"
  /\ source = IF "TA" \in present THEN "TA" ELSE "Local"
  /\ TriggersOf(This) /\ EvmQueues /\ FarmOf(This) /\ BuQueues
  /\ Within(20, 25)

Goes == \E p \in 1..27 : At(p)
ControlInv == Goes \/ TAFailed \/ FUFailed \/ FUGone

TesterTypes ==
  /\ \E setup \in Setups : present = setup[1] /\ trouble = setup[2]
  /\ {ru, rui} \subseteq {"Halted", "Configuring", "Ready", "Enabled"}
  /\ inputSource \in {"FBO", "Local"} /\ testStarted \in BOOLEAN

-----------------------------------------------------------------------------

LEMMA FromSame ==
  ASSUME UNCHANGED present, NEW p \in 1..27
  PROVE  From(p)' = From(p)
<1> USE DEF Then, ToApp, Sleep, Done
<1>1. From18' = From18
  BY DEF From18
<1>2. From17' = From17
  BY <1>1 DEF From17
<1>3. From16' = From16
  BY <1>2 DEF From16
<1>4. From15' = From15
  BY <1>3 DEF From15
<1>5. From14' = From14
  BY <1>4 DEF From14
<1>6. From13' = From13
  BY <1>5 DEF From13
<1>7. From12' = From12
  BY <1>6 DEF From12
<1>8. From11' = From11
  BY <1>7 DEF From11
<1>9. From10' = From10
  BY <1>8 DEF From10
<1>10. From9' = From9
  BY <1>9 DEF From9
<1>11. From8' = From8
  BY <1>10 DEF From8
<1>12. From7' = From7
  BY <1>11 DEF From7
<1>13. From6' = From6
  BY <1>12 DEF From6
<1>14. From5' = From5
  BY <1>13 DEF From5
<1>15. From4' = From4
  BY <1>14 DEF From4
<1>16. From3' = From3
  BY <1>15 DEF From3
<1>17. From2' = From2
  BY <1>16 DEF From2
<1>18. From1' = From1
  BY <1>17 DEF From1
<1>19. From26' = From26
  BY DEF From26
<1>20. From25' = From25
  BY <1>19 DEF From25
<1>21. From24' = From24
  BY <1>20 DEF From24
<1>22. From23' = From23
  BY <1>21 DEF From23
<1>23. From22' = From22
  BY <1>22 DEF From22
<1>24. From21' = From21
  BY <1>23 DEF From21
<1>25. From20' = From20
  BY <1>24 DEF From20
<1> QED
  BY <1>1, <1>2, <1>3, <1>4, <1>5, <1>6, <1>7, <1>8, <1>9, <1>10, <1>11, <1>12, <1>13, <1>14, <1>15, <1>16, <1>17, <1>18, <1>19, <1>20, <1>21, <1>22, <1>23, <1>24, <1>25 DEF From

LEMMA Arrives ==
  ASSUME UNCHANGED present, NEW p \in 1..27, script' = From(p), Modes(p)', MessagesFit(p)'
  PROVE  At(p)'
BY FromSame DEF At

\* Where an application is not told anything, it fits from one place to the next.
LEMMA EvmOn ==
  ASSUME NEW p \in (1..26) \ {6, 9, 11, 21}, EvmFits(p), UNCHANGED evm
  PROVE  EvmFits(p + 1)'
<1>1. \/ p \in {1, 2, 3, 4, 5} \/ p \in {7, 8} \/ p = 10 \/ p \in {12, 13, 14, 15, 16, 17, 18, 19} \/ p = 20
      \/ p \in {22, 23, 24, 25, 26}
  OBVIOUS
<1>2. CASE p \in {1, 2, 3, 4, 5}
  BY <1>2 DEF EvmFits
<1>3. CASE p \in {7, 8}
  BY <1>3 DEF EvmFits
<1>4. CASE p = 10
  BY <1>4 DEF EvmFits
<1>5. CASE p \in {12, 13, 14, 15, 16, 17, 18, 19}
  BY <1>5 DEF EvmFits
<1>6. CASE p = 20
  BY <1>6 DEF EvmFits, Processing
<1>7. CASE p \in {22, 23, 24, 25, 26}
  BY <1>7 DEF EvmFits
<1> QED
  BY <1>1, <1>2, <1>3, <1>4, <1>5, <1>6, <1>7

LEMMA BuOn ==
  ASSUME NEW p \in (1..26) \ {7, 9, 12, 22, 25}, BuFits(p), UNCHANGED << bu, fu >>
  PROVE  BuFits(p + 1)'
<1>1. \/ p \in {1, 2, 3, 4, 5, 6} \/ p = 8 \/ p \in {10, 11} \/ p \in {13, 14, 15, 16, 17, 18, 19, 20, 21} \/ p \in {23, 24} \/ p = 26
  OBVIOUS
<1>2. CASE p \in {1, 2, 3, 4, 5, 6}
  BY <1>2 DEF BuFits
<1>3. CASE p = 8
  BY <1>3 DEF BuFits
<1>4. CASE p \in {10, 11}
  BY <1>4 DEF BuFits
<1>5. CASE p \in {13, 14, 15, 16, 17, 18, 19, 20, 21}
  BY <1>5 DEF BuFits, Broken
<1>6. CASE p \in {23, 24}
  BY <1>6 DEF BuFits, Broken
<1>7. CASE p = 26
  BY <1>7 DEF BuFits
<1> QED
  BY <1>1, <1>2, <1>3, <1>4, <1>5, <1>6, <1>7

LEMMA RuOn ==
  ASSUME NEW p \in (1..26) \ {8, 9, 10, 23}, RuFits(p), UNCHANGED ru
  PROVE  RuFits(p + 1)'
<1>1. \/ p \in {1, 2, 3, 4, 5, 6, 7} \/ p \in {11, 12, 13, 14, 15, 16, 17, 18, 19, 20, 21, 22} \/ p \in {24, 25, 26}
  OBVIOUS
<1>2. CASE p \in {1, 2, 3, 4, 5, 6, 7}
  BY <1>2 DEF RuFits
<1>3. CASE p \in {11, 12, 13, 14, 15, 16, 17, 18, 19, 20, 21, 22}
  BY <1>3 DEF RuFits
<1>4. CASE p \in {24, 25, 26}
  BY <1>4 DEF RuFits
<1> QED
  BY <1>1, <1>2, <1>3, <1>4

LEMMA RuiOn ==
  ASSUME NEW p \in (1..26) \ {13, 14, 15, 20}, RuiFits(p), UNCHANGED << rui, present >>
  PROVE  RuiFits(p + 1)'
<1>1. \/ p \in {1, 2, 3, 4, 5, 6, 7, 8, 9, 10, 11, 12} \/ p \in {16, 17, 18, 19} \/ p \in {21, 22, 23, 24, 25, 26}
  OBVIOUS
<1>2. CASE p \in {1, 2, 3, 4, 5, 6, 7, 8, 9, 10, 11, 12}
  BY <1>2 DEF RuiFits
<1>3. CASE p \in {16, 17, 18, 19}
  BY <1>3 DEF RuiFits
<1>4. CASE p \in {21, 22, 23, 24, 25, 26}
  BY <1>4 DEF RuiFits
<1> QED
  BY <1>1, <1>2, <1>3, <1>4

LEMMA TaOn ==
  ASSUME NEW p \in (1..26) \ {1, 4, 5, 24}, TaFits(p), UNCHANGED << ta, source, present >>
  PROVE  TaFits(p + 1)'
<1>1. \/ p \in {2, 3} \/ p \in {6, 7, 8, 9, 10, 11, 12, 13, 14, 15, 16, 17} \/ p = 18 \/ p \in {19, 20, 21, 22, 23} \/ p \in {25, 26}
  OBVIOUS
<1>2. CASE p \in {2, 3}
  BY <1>2 DEF TaFits
<1>3. CASE p \in {6, 7, 8, 9, 10, 11, 12, 13, 14, 15, 16, 17}
  BY <1>3 DEF TaFits
<1>4. CASE p = 18
  BY <1>4 DEF TaFits
<1>5. CASE p \in {19, 20, 21, 22, 23}
  BY <1>5 DEF TaFits
<1>6. CASE p \in {25, 26}
  BY <1>6 DEF TaFits
<1> QED
  BY <1>1, <1>2, <1>3, <1>4, <1>5, <1>6

LEMMA FuOn ==
  ASSUME NEW p \in (1..26) \ {16, 17, 25}, FuFits(p), UNCHANGED << fu, present >>
  PROVE  FuFits(p + 1)'
<1>1. \/ p \in {1, 2, 3, 4, 5, 6, 7, 8, 9, 10, 11, 12, 13, 14, 15} \/ p \in {18, 19, 20, 21, 22, 23, 24} \/ p = 26
  OBVIOUS
<1>2. CASE p \in {1, 2, 3, 4, 5, 6, 7, 8, 9, 10, 11, 12, 13, 14, 15}
  BY <1>2 DEF FuFits
<1>3. CASE p \in {18, 19, 20, 21, 22, 23, 24}
  BY <1>3 DEF FuFits
<1>4. CASE p = 26
  BY <1>4 DEF FuFits
<1> QED
  BY <1>1, <1>2, <1>3, <1>4

LEMMA MessagesOn ==
  ASSUME NEW p \in (1..26) \ {9}, MessagesFit(p)'
  PROVE  MessagesFit(p + 1)'
<1> DEFINE old == TriggersOf(Old)' /\ FarmOf(Old)'
           now == TriggersOf(This)' /\ EvmQueues' /\ FarmOf(This)' /\ BuQueues'
<1>1. /\ p \in 1..9 => old
      /\ p \in 10..26 => now
      /\ p \in 10..11 => NoTriggers'
      /\ p \in 10..17 => NoRequests'
  BY DEF MessagesFit
<1> HIDE DEF old, now
<1>2. /\ p + 1 \in 1..9 => old
      /\ p + 1 \in 10..26 => now
      /\ p + 1 \in 10..11 => NoTriggers'
      /\ p + 1 \in 10..17 => NoRequests'
  BY <1>1
<1> QED
  BY <1>2 DEF MessagesFit, old, now

-----------------------------------------------------------------------------
(* What the messages are, from one place to the next.                      *)

\* What does not touch the messages leaves them fitting.
LEMMA MessagesSame ==
  ASSUME NEW p \in 1..27, MessagesFit(p), UNCHANGED << triggerVars, farmVars >>
  PROVE  MessagesFit(p)'
<1>1. UNCHANGED << credits, triggers, held, takes, allocates, discards, triggerFIFO, events, requestFIFO, eventOf >>
  BY DEF triggerVars, taVars, evmVars, handlerVars, farmVars, buVars
<1> QED
  BY <1>1 DEF MessagesFit, TriggersOf, FarmOf, EvmQueues, BuQueues, NoTriggers, NoRequests, AllMarked, AllOf, This, Old

\* The places in terms of the parts of the messages.
LEMMA MessagesParts ==
  ASSUME NEW p \in 1..27,
         p \in 1..9 => TriggersOf(Old)' /\ FarmOf(Old)',
         p \in 10..26 => TriggersOf(This)' /\ EvmQueues' /\ FarmOf(This)' /\ BuQueues',
         p \in 10..11 => NoTriggers',
         p \in 10..17 => NoRequests'
  PROVE  MessagesFit(p)'
BY DEF MessagesFit

LEMMA TriggerPartsSame ==
  ASSUME UNCHANGED triggerVars
  PROVE  /\ TriggersOf(Old) => TriggersOf(Old)'
         /\ TriggersOf(This) => TriggersOf(This)'
         /\ EvmQueues => EvmQueues'
         /\ NoTriggers => NoTriggers'
<1>1. UNCHANGED << credits, triggers, held, triggerFIFO, events >>
  BY DEF triggerVars, taVars, evmVars, handlerVars
<1> QED
  BY <1>1 DEF TriggersOf, EvmQueues, NoTriggers, AllMarked, AllOf, This, Old

LEMMA FarmPartsSame ==
  ASSUME UNCHANGED farmVars
  PROVE  /\ FarmOf(Old) => FarmOf(Old)'
         /\ FarmOf(This) => FarmOf(This)'
         /\ BuQueues => BuQueues'
         /\ NoRequests => NoRequests'
<1>1. UNCHANGED << takes, allocates, discards, requestFIFO, eventOf >>
  BY DEF farmVars, buVars
<1> QED
  BY <1>1 DEF FarmOf, BuQueues, NoRequests, AllMarked, AllOf, This, Old

LEMMA RestPlaces ==
  ASSUME NEW p \in 1..11, DataInv, Modes(p)
  PROVE  EvmAtRest
<1>1. p \in 1..6 \/ p \in 7..9 \/ p \in 10..11
  OBVIOUS
<1>2. evm \in {"Halted", "Configuring", "Ready"}
  BY <1>1 DEF Modes, EvmFits
<1>3. loop = "idle"
  BY <1>2 DEF DataInv, TriggerFacts, Processing
<1> QED
  BY <1>2, <1>3 DEF EvmAtRest

LEMMA HeldPlaces ==
  ASSUME NEW p \in 10..11, DataInv, Modes(p)
  PROVE  held = << >>
<1>1. TaFits(p) /\ p \in 6..18
  BY DEF Modes
<1>2. ta \in {"Halted", "Enabled"}
  BY <1>1 DEF TaFits
<1> QED
  BY <1>2 DEF DataInv, TriggerFacts

LEMMA MessagesTrigger ==
  ASSUME NEW p \in 1..27, DataInv, Modes(p), MessagesFit(p), TriggerAction, UNCHANGED farmVars
  PROVE  MessagesFit(p)'
<1>1. TriggerTypes
  BY DEF DataInv
<1>2. ASSUME p \in 1..9 PROVE TriggersOf(Old)' /\ FarmOf(Old)'
  <2>1. EvmAtRest
    BY <1>2, RestPlaces
  <2> QED
    BY <1>1, <1>2, <2>1, TriggersOld, FarmPartsSame DEF MessagesFit
<1>3. ASSUME p \in 10..26 PROVE TriggersOf(This)' /\ EvmQueues' /\ FarmOf(This)' /\ BuQueues'
  <2>1. TriggersOf(This) /\ EvmQueues /\ FarmOf(This) /\ BuQueues
    BY <1>3 DEF MessagesFit
  <2>2. TriggersOf(This)'
    BY <1>1, <2>1, TriggersNow
  <2>3. AllOf(This, triggers)
    BY <2>1 DEF TriggersOf
  <2>4. EvmQueues'
    BY <1>1, <2>1, <2>3, EvmQueuesNow
  <2> QED
    BY <2>1, <2>2, <2>4, FarmPartsSame
<1>4. ASSUME p \in 10..11 PROVE NoTriggers'
  <2>1. EvmAtRest /\ held = << >> /\ NoTriggers
    BY <1>4, RestPlaces, HeldPlaces DEF MessagesFit
  <2> QED
    BY <2>1, StillNoTriggers
<1>5. ASSUME p \in 10..17 PROVE NoRequests'
  BY <1>5, FarmPartsSame DEF MessagesFit
<1> QED
  BY <1>2, <1>3, <1>4, <1>5, MessagesParts

LEMMA FarmPlaces ==
  ASSUME NEW p \in 1..9, Modes(p)
  PROVE  bu # "Enabled" /\ fu \notin {"Ready", "Enabled"}
<1>1. p \in 1..7 \/ p \in 8..9
  OBVIOUS
<1>2. BuFits(p) /\ FuFits(p) /\ p \in 1..16
  BY DEF Modes
<1>3. bu # "Enabled"
  BY <1>1, <1>2 DEF BuFits
<1>4. fu = "Halted"
  BY <1>2 DEF FuFits
<1> QED
  BY <1>3, <1>4

LEMMA StillNoRequests ==
  ASSUME NoRequests, FarmMessage \/ (FarmCommand /\ ~ EnableFU)
  PROVE  NoRequests'
<1>1. ~ FarmMessage
  BY NoRequestsNoMessage
<1>2. UNCHANGED << takes, allocates, discards >> /\ requestFIFO' \in {requestFIFO, << >>}
  BY <1>1 DEF FarmCommand, ConfigureBU, BUConfigured, EnableBU, HaltBU, SetDropEventData, ConfigureFU, FailToEnableFU, HaltFU, buVars
<1> QED
  BY <1>2 DEF NoRequests

LEMMA MessagesFarm ==
  ASSUME NEW p \in 1..27, DataInv, Modes(p), MessagesFit(p), FarmMessage \/ FarmCommand, p = 17 => ~ EnableFU
  PROVE  MessagesFit(p)'
<1>1. FarmTypes /\ EventsOnce /\ UNCHANGED triggerVars
  BY FarmTriggerSame DEF DataInv
<1>2. ASSUME p \in 1..9 PROVE TriggersOf(Old)' /\ FarmOf(Old)'
  <2>1. bu # "Enabled" /\ fu \notin {"Ready", "Enabled"}
    BY <1>2, FarmPlaces
  <2>2. TriggersOf(Old) /\ FarmOf(Old)
    BY <1>2 DEF MessagesFit
  <2>3. FarmOf(Old)'
    BY <1>1, <2>1, <2>2, FarmOld
  <2> QED
    BY <1>1, <2>2, <2>3, TriggerPartsSame
<1>3. ASSUME p \in 10..26 PROVE TriggersOf(This)' /\ EvmQueues' /\ FarmOf(This)' /\ BuQueues'
  <2>1. TriggersOf(This) /\ EvmQueues /\ FarmOf(This) /\ BuQueues
    BY <1>3 DEF MessagesFit
  <2>2. FarmOf(This)' /\ BuQueues'
    BY <1>1, <2>1, FarmNow
  <2> QED
    BY <1>1, <2>1, <2>2, TriggerPartsSame
<1>4. ASSUME p \in 10..11 PROVE NoTriggers'
  BY <1>1, <1>4, TriggerPartsSame DEF MessagesFit
<1>5. ASSUME p \in 10..17 PROVE NoRequests'
  <2>1. NoRequests
    BY <1>5 DEF MessagesFit
  <2>2. ~ EnableFU
    <3>1. CASE p = 17
      BY <3>1
    <3>2. CASE p \in 10..16
      BY <3>2 DEF Modes, FuFits, EnableFU
    <3> QED
      BY <1>5, <3>1, <3>2
  <2> QED
    BY <2>1, <2>2, StillNoRequests
<1> QED
  BY <1>2, <1>3, <1>4, <1>5, MessagesParts

LEMMA BuildPlaces ==
  ASSUME NEW p \in 1..27, Modes(p), bu = "Enabled", evm = "Enabled"
  PROVE  p \in 13..22
<1>1. p \in 1..7 \/ p \in 8..9 \/ p \in 10..12 \/ p \in 13..22 \/ p \in 23..25 \/ p \in 26..27
  OBVIOUS
<1>2. p \in 23..25 => evm = "Halted"
  BY DEF Modes, EvmFits
<1> QED
  BY <1>1, <1>2 DEF Modes, BuFits

LEMMA MessagesBuildEvent ==
  ASSUME NEW p \in 1..27, DataInv, Modes(p), MessagesFit(p), NEW hasData, BuildEvent(hasData)
  PROVE  MessagesFit(p)'
<1>1. /\ bu = "Enabled" /\ evm = "Enabled"
      /\ UNCHANGED << held, credits, triggers, takes, allocates, discards, requestFIFO >>
  BY DEF BuildEvent, taVars
<1>2. p \in 13..22
  BY <1>1, BuildPlaces
<1>3. TriggersOf(This) /\ EvmQueues /\ FarmOf(This) /\ BuQueues /\ (p \in 10..17 => NoRequests)
  BY <1>2 DEF MessagesFit
<1>4. EvmQueues' /\ BuQueues'
  BY <1>3, BuildEventNow DEF DataInv
<1>5. TriggersOf(This)' /\ FarmOf(This)' /\ (p \in 10..17 => NoRequests')
  BY <1>1, <1>3 DEF TriggersOf, FarmOf, NoRequests, AllMarked, AllOf, This
<1> QED
  BY <1>2, <1>4, <1>5, MessagesParts

LEMMA MessagesHandleDiscard ==
  ASSUME NEW p \in 1..27, DataInv, Modes(p), MessagesFit(p), HandleDiscard
  PROVE  MessagesFit(p)'
<1>1. /\ bu = "Enabled"
      /\ UNCHANGED << held, credits, triggers, triggerFIFO, events, takes, allocates, discards, requestFIFO >>
  BY DEF HandleDiscard, taVars
<1>2. p \in 13..22
  <2>1. p \in 1..7 \/ p \in 8..9 \/ p \in 10..12 \/ p \in 13..22 \/ p \in 23..25 \/ p \in 26..27
    OBVIOUS
  <2>2. BuFits(p)
    BY DEF Modes
  <2> QED
    BY <1>1, <2>1, <2>2 DEF BuFits, Broken
<1>3. TriggersOf(This) /\ EvmQueues /\ FarmOf(This) /\ BuQueues /\ (p \in 10..17 => NoRequests)
  BY <1>2 DEF MessagesFit
<1>4. BuQueues'
  BY <1>3, HandleDiscardNow
<1>5. TriggersOf(This)' /\ EvmQueues' /\ FarmOf(This)' /\ (p \in 10..17 => NoRequests')
  BY <1>1, <1>3 DEF TriggersOf, EvmQueues, FarmOf, NoRequests, AllMarked, AllOf, This
<1> QED
  BY <1>2, <1>4, <1>5, MessagesParts

-----------------------------------------------------------------------------
(* From one place to the next: how a script begins, goes on, and is left.  *)

LEMMA ToldAt ==
  ASSUME NEW p \in 1..27, At(p), Has(p), NEW app, NEW event, Told(app, event)
  PROVE  script # << >> /\ p \in (1..26) \ {19} /\ Instruction(p) = ToApp(app, event)
BY AtInstruction DEF Told

\* The tester has nothing to do at the places 19 and 27 only.
LEMMA AtRest ==
  ASSUME NEW p \in 1..27, At(p), Has(p), script = << >>
  PROVE  p = 19 \/ p = 27
<1>1. script = From(p)
  BY DEF At
<1> QED
  BY <1>1, Here

LEMMA Advances ==
  ASSUME NEW p \in 1..27, At(p), Has(p), script # << >>, Go, UNCHANGED present, Modes(p + 1)', MessagesFit(p + 1)'
  PROVE  Goes'
<1>1. p \in (1..26) \ {19} /\ script' = From(p + 1)
  BY AtInstruction DEF Go
<1>2. PICK q \in 1..27 : q = p + 1
  BY <1>1
<1>3. Modes(q)' /\ MessagesFit(q)' /\ script' = From(q)
  BY <1>1, <1>2
<1>4. At(q)'
  BY <1>3, Arrives
<1> QED
  BY <1>4 DEF Goes

LEMMA Remains ==
  ASSUME NEW p \in 1..27, At(p), UNCHANGED << script, present >>, Modes(p)', MessagesFit(p)'
  PROVE  Goes'
<1>1. script' = From(p)
  BY DEF At
<1>2. At(p)'
  BY <1>1, Arrives
<1> QED
  BY <1>2 DEF Goes

LEMMA ModesSame ==
  ASSUME NEW p \in 1..27, Modes(p), UNCHANGED << testStarted, evm, bu, fu, ru, rui, ta, source, present >>
  PROVE  Modes(p)'
BY DEF Modes, EvmFits, BuFits, RuFits, RuiFits, TaFits, FuFits, Broken, Processing

\* From one place to the next, when each application fits the next one or is left alone.
LEMMA ModesOn ==
  ASSUME NEW p \in 1..26, Modes(p), UNCHANGED present,
         EvmFits(p + 1)' \/ (UNCHANGED evm /\ p \notin {6, 9, 11, 21}),
         BuFits(p + 1)' \/ (UNCHANGED << bu, fu >> /\ p \notin {7, 9, 12, 22, 25}),
         RuFits(p + 1)' \/ (UNCHANGED ru /\ p \notin {8, 9, 10, 23}),
         RuiFits(p + 1)' \/ (UNCHANGED rui /\ p \notin {13, 14, 15, 20}),
         TaFits(p + 1)' \/ (UNCHANGED << ta, source >> /\ p \notin {1, 4, 5, 24}),
         FuFits(p + 1)' \/ (UNCHANGED fu /\ p \notin {16, 17, 25}),
         (testStarted' <=> p + 1 \in 19..26) \/ (UNCHANGED testStarted /\ p \notin {18, 26})
  PROVE  Modes(p + 1)'
<1>1. EvmFits(p) /\ BuFits(p) /\ RuFits(p) /\ RuiFits(p) /\ TaFits(p) /\ FuFits(p) /\ (testStarted <=> p \in 19..26)
  BY DEF Modes
<1>2. EvmFits(p + 1)'
  BY <1>1, EvmOn
<1>3. BuFits(p + 1)'
  BY <1>1, BuOn
<1>4. RuFits(p + 1)'
  BY <1>1, RuOn
<1>5. RuiFits(p + 1)'
  BY <1>1, RuiOn
<1>6. TaFits(p + 1)'
  BY <1>1, TaOn
<1>7. FuFits(p + 1)'
  BY <1>1, FuOn
<1>8. testStarted' <=> p + 1 \in 19..26
  BY <1>1
<1> QED
  BY <1>2, <1>3, <1>4, <1>5, <1>6, <1>7, <1>8 DEF Modes

-----------------------------------------------------------------------------
(* The operator.                                                           *)

MarkedOld(S) == \A m \in S : [m EXCEPT !.of = "earlier test"].of = Old

LEMMA RecordsAge ==
  MarkedOld(CreditMessages) /\ MarkedOld(Takes) /\ MarkedOld(Allocates) /\ MarkedOld(Discards)
BY DEF MarkedOld, Old, CreditMessages, Takes, Allocates, Discards

LEMMA AgedMarked ==
  ASSUME NEW S, NEW q \in Seq(S), MarkedOld(S)
  PROVE  AllMarked(Old, AgedMessages(q))
<1>1. SUFFICES ASSUME NEW i \in DOMAIN AgedMessages(q) PROVE AgedMessages(q)[i].of = Old
  BY DEF AllMarked
<1>2. i \in DOMAIN q /\ AgedMessages(q)[i] = [q[i] EXCEPT !.of = "earlier test"]
  BY <1>1 DEF AgedMessages
<1>3. DOMAIN q = 1..Len(q) /\ \A k \in 1..Len(q) : q[k] \in S
  OBVIOUS
<1>4. q[i] \in S
  BY <1>2, <1>3, Zenon
<1> QED
  BY <1>2, <1>4 DEF MarkedOld

\* The operator starts a test.
LEMMA StartGoes ==
  ASSUME NEW p \in 1..27, At(p), Has(p), DataInv, Start
  PROVE  Goes'
<1>1. script = << >> /\ ~ testStarted /\ script' = StartTest /\ TriggersAge /\ EventsAge
      /\ UNCHANGED << ta, evm, source, bu, fu, present, ru, rui, testStarted >>
  BY DEF Start, fuVars
<1>2. p = 27
  <2>1. testStarted <=> p \in 19..26
    BY DEF At, Modes
  <2>2. ~ (p \in 19..26)
    BY <1>1, <2>1, Zenon
  <2>3. p = 19 \/ p = 27
    BY <1>1, AtRest
  <2> QED
    BY <2>2, <2>3
<1>3. Modes(27)
  BY <1>2 DEF At
<1>4. Modes(1)'
  <2>1. evm = "Halted" /\ bu = "Halted" /\ ru = "Halted" /\ rui = "Halted" /\ ta = "Halted" /\ fu = "Halted"
        /\ ("TA" \in present => source = "TA")
    BY <1>3 DEF Modes, EvmFits, BuFits, RuFits, RuiFits, TaFits, FuFits
  <2>2. EvmFits(1)' /\ BuFits(1)' /\ RuFits(1)' /\ RuiFits(1)' /\ TaFits(1)' /\ FuFits(1)'
    BY <1>1, <2>1 DEF EvmFits, BuFits, RuFits, RuiFits, TaFits, FuFits
  <2> QED
    BY <1>1, <2>2 DEF Modes
<1>5. TriggersOf(Old)' /\ FarmOf(Old)'
  <2>1. credits \in Seq(CreditMessages) /\ triggers \in Seq(Tests) /\ held \in Seq(Tests)
        /\ takes \in Seq(Takes) /\ allocates \in Seq(Allocates) /\ discards \in Seq(Discards)
    BY DEF DataInv, TriggerTypes, FarmTypes
  <2>2. /\ credits' = AgedMessages(credits) /\ triggers' = Aged(triggers) /\ held' = Aged(held)
        /\ takes' = AgedMessages(takes) /\ allocates' = AgedMessages(allocates) /\ discards' = AgedMessages(discards)
    BY <1>1 DEF TriggersAge, EventsAge
  <2>3. AllMarked(Old, AgedMessages(credits)) /\ AllMarked(Old, AgedMessages(takes)) /\ AllMarked(Old, AgedMessages(allocates))
        /\ AllMarked(Old, AgedMessages(discards))
    BY <2>1, RecordsAge, AgedMarked
  <2>4. AllOf(Old, Aged(triggers)) /\ AllOf(Old, Aged(held))
    BY DEF AllOf, Old, Aged
  <2> QED
    BY <2>2, <2>3, <2>4 DEF TriggersOf, FarmOf, AllMarked, AllOf, Old
<1>6. MessagesFit(1)'
  BY <1>5 DEF MessagesFit
<1>7. script' = From(1)
  BY <1>1, StartFromFirst
<1>8. At(1)'
  BY <1>1, <1>4, <1>6, <1>7, Arrives
<1> QED
  BY <1>8 DEF Goes

\* The operator stops it.
LEMMA StopGoes ==
  ASSUME NEW p \in 1..27, At(p), Has(p), Stop
  PROVE  Goes'
<1>1. script = << >> /\ testStarted /\ script' = StopTest
      /\ UNCHANGED << triggerVars, farmVars, present, ru, rui, testStarted >>
  BY DEF Stop
<1>2. p = 19
  <2>1. testStarted => p \in 19..26
    BY DEF At, Modes
  <2>2. p \in 19..26
    BY <1>1, <2>1
  <2>3. p = 19 \/ p = 27
    BY <1>1, AtRest
  <2> QED
    BY ONLY <2>2, <2>3
<1>3. Modes(19) /\ MessagesFit(19)
  BY <1>2 DEF At
<1>4. UNCHANGED << evm, bu, fu, ta, source >>
  BY <1>1 DEF triggerVars, taVars, evmVars, farmVars, buVars, fuVars
<1>5. Modes(19 + 1)'
  BY <1>1, <1>3, <1>4, ModesOn
<1>6. MessagesFit(19)'
  BY <1>1, <1>3, MessagesSame
<1>7. MessagesFit(19 + 1)'
  BY <1>6, MessagesOn
<1>8. script' = From(20)
  BY <1>1, StopFromFirst
<1>9. At(20)'
  BY <1>1, <1>5, <1>7, <1>8, Arrives
<1> QED
  BY <1>9 DEF Goes

LEMMA SuspendGoes ==
  ASSUME NEW p \in 1..27, At(p), Has(p), DataInv, Suspend \/ Resume
  PROVE  Goes'
<1>1. script = << >> /\ UNCHANGED << farmVars, testerVars >> /\ TriggerAction /\ ta \in {"Enabled", "Suspended"}
      /\ ta' \in {"Enabled", "Suspended"} /\ UNCHANGED << evm, source >>
  BY DEF Suspend, Resume, SuspendTA, ResumeTA, SendHeldCredits, TriggerAction, evmVars
<1>2. p = 19
  <2>1. p = 19 \/ p = 27
    BY <1>1, AtRest
  <2> QED
    BY <1>1, <2>1 DEF At, Modes, TaFits
<1>3. Modes(19) /\ MessagesFit(19)
  BY <1>2 DEF At
<1>4. UNCHANGED << bu, fu, script, present, ru, rui, testStarted >>
  BY <1>1 DEF farmVars, buVars, fuVars, testerVars
<1>5. Modes(19)'
  <2>1. TaFits(19)'
    BY <1>1, <1>3, <1>4 DEF Modes, TaFits
  <2> QED
    BY <1>1, <1>3, <1>4, <2>1 DEF Modes, EvmFits, BuFits, RuFits, RuiFits, FuFits, Broken
<1>6. MessagesFit(19)'
  BY <1>1, <1>3, MessagesTrigger
<1> QED
  BY <1>2, <1>4, <1>5, <1>6, Remains

-----------------------------------------------------------------------------
(* The commands of the EVM.                                                *)

\* Only a BU that failed ignores what it is told, while the FU is gone.
LEMMA IgnorePlace ==
  ASSUME NEW p \in 1..27, At(p), Has(p), Ignore
  PROVE  p = 22 /\ Broken
<1>1. PICK app \in {"EVM", "BU", "RU", "RUI"}, event \in {"Configure", "Enable", "Halt"} :
        Told(app, event) /\ (app = "EVM" => evm \in {"Halted", "Configuring", "Ready", "Enabled"}) /\ Ignored(app, event)
  BY DEF Ignore
<1>2. p \in (1..26) \ {19} /\ Instruction(p) = ToApp(app, event)
  BY <1>1, ToldAt
<1>3. EvmFits(p) /\ BuFits(p) /\ RuFits(p) /\ RuiFits(p) /\ Has(p)
  BY DEF At, Modes
<1>4. CASE app = "EVM" /\ event = "Configure"
  <2>1. p = 6
    BY <1>2, <1>4, Places
  <2>2. evm = "Halted"
    BY <1>3, <2>1 DEF EvmFits, Has
  <2>3. ~ Ignored(app, event)
    BY <1>4, <2>2 DEF Ignored, StateOf
  <2> QED
    BY <1>1, <2>3
<1>5. CASE app = "EVM" /\ event = "Enable"
  <2>1. p = 11
    BY <1>2, <1>5, Places
  <2>2. evm = "Ready"
    BY <1>3, <2>1 DEF EvmFits, Has
  <2>3. ~ Ignored(app, event)
    BY <1>5, <2>2 DEF Ignored, StateOf
  <2> QED
    BY <1>1, <2>3
<1>6. CASE app = "EVM" /\ event = "Halt"
  <2>1. p = 21
    BY <1>2, <1>6, Places
  <2>2. evm = "Enabled"
    BY <1>1, <1>3, <1>6, <2>1 DEF EvmFits, Processing
  <2>3. ~ Ignored(app, event)
    BY <1>6, <2>2 DEF Ignored, StateOf
  <2> QED
    BY <1>1, <2>3
<1>7. CASE app = "BU" /\ event = "Configure"
  <2>1. p = 7
    BY <1>2, <1>7, Places
  <2>2. bu = "Halted"
    BY <1>3, <2>1 DEF BuFits, Has
  <2>3. ~ Ignored(app, event)
    BY <1>7, <2>2 DEF Ignored, StateOf
  <2> QED
    BY <1>1, <2>3
<1>8. CASE app = "BU" /\ event = "Enable"
  <2>1. p = 12
    BY <1>2, <1>8, Places
  <2>2. bu = "Ready"
    BY <1>3, <2>1 DEF BuFits, Has
  <2>3. ~ Ignored(app, event)
    BY <1>8, <2>2 DEF Ignored, StateOf
  <2> QED
    BY <1>1, <2>3
<1>9. CASE app = "BU" /\ event = "Halt"
  <2>1. p = 22
    BY <1>2, <1>9, Places
  <2>2. bu # "Enabled"
    BY <1>1, <1>9 DEF Ignored, StateOf
  <2>3. Broken
    BY <1>3, <2>1, <2>2 DEF BuFits
  <2> QED
    BY <2>1, <2>3
<1>10. CASE app = "RU" /\ event = "Configure"
  <2>1. p = 8
    BY <1>2, <1>10, Places
  <2>2. ru = "Halted"
    BY <1>3, <2>1 DEF RuFits, Has
  <2>3. ~ Ignored(app, event)
    BY <1>10, <2>2 DEF Ignored, StateOf
  <2> QED
    BY <1>1, <2>3
<1>11. CASE app = "RU" /\ event = "Enable"
  <2>1. p = 10
    BY <1>2, <1>11, Places
  <2>2. ru = "Ready"
    BY <1>3, <2>1 DEF RuFits, Has
  <2>3. ~ Ignored(app, event)
    BY <1>11, <2>2 DEF Ignored, StateOf
  <2> QED
    BY <1>1, <2>3
<1>12. CASE app = "RU" /\ event = "Halt"
  <2>1. p = 23
    BY <1>2, <1>12, Places
  <2>2. ru = "Enabled"
    BY <1>3, <2>1 DEF RuFits, Has
  <2>3. ~ Ignored(app, event)
    BY <1>12, <2>2 DEF Ignored, StateOf
  <2> QED
    BY <1>1, <2>3
<1>13. CASE app = "RUI" /\ event = "Configure"
  <2>1. p = 13
    BY <1>2, <1>13, Places
  <2>2. rui = "Halted"
    BY <1>3, <2>1 DEF RuiFits, Has
  <2>3. ~ Ignored(app, event)
    BY <1>13, <2>2 DEF Ignored, StateOf
  <2> QED
    BY <1>1, <2>3
<1>14. CASE app = "RUI" /\ event = "Enable"
  <2>1. p = 15
    BY <1>2, <1>14, Places
  <2>2. rui = "Ready"
    BY <1>3, <2>1 DEF RuiFits, Has
  <2>3. ~ Ignored(app, event)
    BY <1>14, <2>2 DEF Ignored, StateOf
  <2> QED
    BY <1>1, <2>3
<1>15. CASE app = "RUI" /\ event = "Halt"
  <2>1. p = 20
    BY <1>2, <1>15, Places
  <2>2. rui = "Enabled"
    BY <1>3, <2>1 DEF RuiFits, Has
  <2>3. ~ Ignored(app, event)
    BY <1>15, <2>2 DEF Ignored, StateOf
  <2> QED
    BY <1>1, <2>3
<1> QED
  BY <1>1, <1>4, <1>5, <1>6, <1>7, <1>8, <1>9, <1>10, <1>11, <1>12, <1>13, <1>14, <1>15

LEMMA IgnoreGoes ==
  ASSUME NEW p \in 1..27, At(p), Has(p), Ignore
  PROVE  Goes'
<1>1. p = 22 /\ Broken
  BY IgnorePlace
<1>2. script # << >> /\ Go /\ RestUnchanged /\ UNCHANGED << triggerVars, farmVars >>
  BY DEF Ignore, Told
<1>3. UNCHANGED << evm, bu, fu, ta, source, present, ru, rui, testStarted >>
  BY <1>2 DEF triggerVars, taVars, evmVars, farmVars, buVars, fuVars, RestUnchanged
<1>4. Modes(22) /\ MessagesFit(22)
  BY <1>1 DEF At
<1>5. BuFits(22 + 1)'
  BY <1>1, <1>3 DEF BuFits, Broken
<1>6. Modes(22 + 1)'
  BY <1>3, <1>4, <1>5, ModesOn
<1>7. MessagesFit(22)'
  BY <1>2, <1>4, MessagesSame
<1>8. MessagesFit(22 + 1)'
  BY <1>7, MessagesOn
<1> QED
  BY <1>1, <1>2, <1>3, <1>6, <1>8, Advances

LEMMA ConfigureEVMGoes ==
  ASSUME NEW p \in 1..27, At(p), Has(p), DataInv, Told("EVM", "Configure"), ConfigureEVM, Go, RestUnchanged, UNCHANGED farmVars
  PROVE  Goes'
<1>1. p = 6 /\ script # << >>
  <2>1. script # << >> /\ p \in (1..26) \ {19} /\ Instruction(p) = ToApp("EVM", "Configure")
    BY ToldAt
  <2> QED
    BY <2>1, Places
<1>2. evm' = "Configuring" /\ UNCHANGED << bu, fu, ta, source, present, ru, rui, testStarted >>
  BY DEF ConfigureEVM, taVars, farmVars, buVars, fuVars, RestUnchanged
<1>3. Modes(6) /\ MessagesFit(6)
  BY <1>1 DEF At
<1>4. EvmFits(6 + 1)'
  BY <1>2 DEF EvmFits
<1>5. Modes(6 + 1)'
  BY <1>2, <1>3, <1>4, ModesOn
<1>6. MessagesFit(6)'
  BY <1>3, MessagesTrigger DEF TriggerAction
<1>7. MessagesFit(6 + 1)'
  BY <1>6, MessagesOn
<1> QED
  BY <1>1, <1>2, <1>5, <1>7, Advances

LEMMA EnableEVMGoes ==
  ASSUME NEW p \in 1..27, At(p), Has(p), DataInv, Told("EVM", "Enable"), EnableEVM, Go, RestUnchanged, UNCHANGED farmVars
  PROVE  Goes'
<1>1. p = 11 /\ script # << >>
  <2>1. script # << >> /\ p \in (1..26) \ {19} /\ Instruction(p) = ToApp("EVM", "Enable")
    BY ToldAt
  <2> QED
    BY <2>1, Places
<1>2. evm' = "Enabled" /\ UNCHANGED << bu, fu, ta, source, present, ru, rui, testStarted >>
  BY DEF EnableEVM, farmVars, buVars, fuVars, RestUnchanged
<1>3. Modes(11) /\ MessagesFit(11)
  BY <1>1 DEF At
<1>4. EvmFits(11 + 1)'
  BY <1>2 DEF EvmFits
<1>5. Modes(11 + 1)'
  BY <1>2, <1>3, <1>4, ModesOn
<1>6. MessagesFit(11)'
  BY <1>3, MessagesTrigger DEF TriggerAction
<1>7. MessagesFit(11 + 1)'
  BY <1>6, MessagesOn
<1> QED
  BY <1>1, <1>2, <1>5, <1>7, Advances

\* The EVM leaves Enabled in several steps.
LEMMA LeaveEVMGoes ==
  ASSUME NEW p \in 1..27, At(p), Has(p), DataInv, CommandEVM \/ LeaveEVM,
         ~ (Told("EVM", "Configure") /\ ConfigureEVM), ~ (Told("EVM", "Enable") /\ EnableEVM)
  PROVE  Goes'
<1>1. RestUnchanged /\ UNCHANGED farmVars
  BY DEF CommandEVM, LeaveEVM
<1>2. \/ Told("EVM", "Halt") /\ HaltEVM /\ evm = "Enabled" /\ UNCHANGED script
      \/ Told("EVM", "Halt") /\ HaltEVM /\ evm # "Enabled"
      \/ (StopRequesting \/ SubtractStopped) /\ UNCHANGED script
      \/ EVMStopped /\ Go
  BY DEF CommandEVM, LeaveEVM
<1>3. TriggerAction /\ UNCHANGED << ta, source >>
  BY <1>2 DEF TriggerAction, HaltEVM, StopRequesting, SubtractStopped, EVMStopped, taVars
<1>4. UNCHANGED << bu, fu, ta, source, present, ru, rui, testStarted >>
  BY <1>1, <1>3 DEF farmVars, buVars, fuVars, RestUnchanged
<1>5. p = 21
  <2>1. CASE Told("EVM", "Halt")
    <3>1. p \in (1..26) \ {19} /\ Instruction(p) = ToApp("EVM", "Halt")
      BY <2>1, ToldAt
    <3> QED
      BY <3>1, Places
  <2>2. CASE StopRequesting \/ SubtractStopped \/ EVMStopped
    <3>1. evm \in {"Posting", "Posted", "Stopping"}
      BY <2>2 DEF StopRequesting, SubtractStopped, EVMStopped
    <3>2. EvmFits(p)
      BY DEF At, Modes
    <3>3. p \in 1..6 \cup 22..27 \/ p \in 7..9 \/ p \in 10..11 \/ p \in 12..20 \/ p = 21
      OBVIOUS
    <3> QED
      BY <3>1, <3>2, <3>3 DEF EvmFits
  <2> QED
    BY <1>2, <2>1, <2>2
<1>6. Modes(21) /\ MessagesFit(21)
  BY <1>5 DEF At
<1>7. evm \in Processing \cup {"Stopping"}
  BY <1>6 DEF Modes, EvmFits
<1>8. MessagesFit(21)'
  BY <1>1, <1>3, <1>6, MessagesTrigger
<1>9. CASE UNCHANGED script /\ evm' \in Processing \cup {"Stopping"}
  <2>1. EvmFits(21)'
    BY <1>9 DEF EvmFits, Processing
  <2>2. Modes(21)'
    BY <1>4, <1>6, <2>1 DEF Modes, BuFits, RuFits, RuiFits, TaFits, FuFits, Broken
  <2> QED
    BY <1>4, <1>5, <1>8, <1>9, <2>2, Remains
<1>10. CASE EVMStopped /\ Go
  <2>1. evm' = "Halted"
    BY <1>10 DEF EVMStopped
  <2>2. EvmFits(21 + 1)'
    BY <2>1 DEF EvmFits
  <2>3. Modes(21 + 1)'
    BY <1>4, <1>6, <2>2, ModesOn
  <2>4. MessagesFit(21 + 1)'
    BY <1>8, MessagesOn
  <2>5. script = From(21) /\ Has(21)
    BY <1>5 DEF At
  <2>6. script # << >>
    BY <2>5, Here
  <2> QED
    BY <1>4, <1>5, <1>10, <2>3, <2>4, <2>6, Advances
<1> QED
  <2>1. CASE Told("EVM", "Halt") /\ HaltEVM /\ evm = "Enabled" /\ UNCHANGED script
    BY <1>9, <2>1 DEF HaltEVM, Processing
  <2>2. ~ (HaltEVM /\ evm # "Enabled")
    BY <1>7 DEF HaltEVM, Processing
  <2>3. CASE (StopRequesting \/ SubtractStopped) /\ UNCHANGED script
    BY <1>9, <2>3 DEF StopRequesting, SubtractStopped, Processing
  <2> QED
    BY <1>2, <1>10, <2>1, <2>2, <2>3

-----------------------------------------------------------------------------
(* The commands of the other applications.                                 *)

LEMMA ConfigureBUGoes ==
  ASSUME NEW p \in 1..27, At(p), Has(p), DataInv, Told("BU", "Configure"), ConfigureBU, Go, RestUnchanged
  PROVE  Goes'
<1>1. p = 7 /\ script # << >>
  <2>1. script # << >> /\ p \in (1..26) \ {19} /\ Instruction(p) = ToApp("BU", "Configure")
    BY ToldAt
  <2> QED
    BY <2>1, Places
<1>2. bu' = "Configuring" /\ UNCHANGED << evm, fu, ta, source, present, ru, rui, testStarted >>
  BY DEF ConfigureBU, fuVars, triggerVars, taVars, evmVars, RestUnchanged
<1>3. Modes(7) /\ MessagesFit(7) /\ Has(7)
  BY <1>1 DEF At
<1>4. BuFits(7 + 1)'
  BY <1>2 DEF BuFits
<1>5. Modes(7 + 1)'
  BY <1>2, <1>3, <1>4, ModesOn
<1>6. MessagesFit(7)'
  BY <1>3, MessagesFarm DEF FarmCommand
<1>7. MessagesFit(7 + 1)'
  BY <1>6, MessagesOn
<1> QED
  BY <1>1, <1>2, <1>5, <1>7, Advances

LEMMA EnableBUGoes ==
  ASSUME NEW p \in 1..27, At(p), Has(p), DataInv, Told("BU", "Enable"), EnableBU, Go, RestUnchanged
  PROVE  Goes'
<1>1. p = 12 /\ script # << >>
  <2>1. script # << >> /\ p \in (1..26) \ {19} /\ Instruction(p) = ToApp("BU", "Enable")
    BY ToldAt
  <2> QED
    BY <2>1, Places
<1>2. bu' = "Enabled" /\ UNCHANGED << evm, fu, ta, source, present, ru, rui, testStarted >>
  BY DEF EnableBU, fuVars, triggerVars, taVars, evmVars, RestUnchanged
<1>3. Modes(12) /\ MessagesFit(12) /\ Has(12)
  BY <1>1 DEF At
<1>4. BuFits(12 + 1)'
  BY <1>2 DEF BuFits
<1>5. Modes(12 + 1)'
  BY <1>2, <1>3, <1>4, ModesOn
<1>6. MessagesFit(12)'
  BY <1>3, MessagesFarm DEF FarmCommand
<1>7. MessagesFit(12 + 1)'
  BY <1>6, MessagesOn
<1> QED
  BY <1>1, <1>2, <1>5, <1>7, Advances

LEMMA HaltBUGoes ==
  ASSUME NEW p \in 1..27, At(p), Has(p), DataInv, Told("BU", "Halt"), HaltBU, Go, RestUnchanged
  PROVE  Goes'
<1>1. p = 22 /\ script # << >>
  <2>1. script # << >> /\ p \in (1..26) \ {19} /\ Instruction(p) = ToApp("BU", "Halt")
    BY ToldAt
  <2> QED
    BY <2>1, Places
<1>2. bu' = "Halted" /\ UNCHANGED << evm, fu, ta, source, present, ru, rui, testStarted >>
  BY DEF HaltBU, fuVars, triggerVars, taVars, evmVars, RestUnchanged
<1>3. Modes(22) /\ MessagesFit(22) /\ Has(22)
  BY <1>1 DEF At
<1>4. BuFits(22 + 1)'
  BY <1>2 DEF BuFits
<1>5. Modes(22 + 1)'
  BY <1>2, <1>3, <1>4, ModesOn
<1>6. MessagesFit(22)'
  BY <1>3, MessagesFarm DEF FarmCommand
<1>7. MessagesFit(22 + 1)'
  BY <1>6, MessagesOn
<1> QED
  BY <1>1, <1>2, <1>5, <1>7, Advances

LEMMA ConfigureTAGoes ==
  ASSUME NEW p \in 1..27, At(p), Has(p), DataInv, Told("TA", "Configure"), ConfigureTA, Go, UNCHANGED farmVars, RestUnchanged
  PROVE  Goes'
<1>1. p = 4 /\ script # << >>
  <2>1. script # << >> /\ p \in (1..26) \ {19} /\ Instruction(p) = ToApp("TA", "Configure")
    BY ToldAt
  <2> QED
    BY <2>1, Places
<1>2. ta' = "Ready" /\ UNCHANGED << evm, bu, fu, source, present, ru, rui, testStarted >>
  BY DEF ConfigureTA, evmVars, farmVars, buVars, fuVars, RestUnchanged
<1>3. Modes(4) /\ MessagesFit(4) /\ Has(4)
  BY <1>1 DEF At
<1>4. TaFits(4 + 1)'
  BY <1>2, <1>3 DEF TaFits, Modes, Has
<1>5. Modes(4 + 1)'
  BY <1>2, <1>3, <1>4, ModesOn
<1>6. MessagesFit(4)'
  BY <1>3, MessagesTrigger DEF TriggerAction
<1>7. MessagesFit(4 + 1)'
  BY <1>6, MessagesOn
<1> QED
  BY <1>1, <1>2, <1>5, <1>7, Advances

LEMMA EnableTAGoes ==
  ASSUME NEW p \in 1..27, At(p), Has(p), DataInv, Told("TA", "Enable"), EnableTA, Go, UNCHANGED farmVars, RestUnchanged
  PROVE  Goes'
<1>1. p = 5 /\ script # << >>
  <2>1. script # << >> /\ p \in (1..26) \ {19} /\ Instruction(p) = ToApp("TA", "Enable")
    BY ToldAt
  <2> QED
    BY <2>1, Places
<1>2. ta' = "Enabled" /\ UNCHANGED << evm, bu, fu, source, present, ru, rui, testStarted >>
  BY DEF EnableTA, SendHeldCredits, evmVars, farmVars, buVars, fuVars, RestUnchanged
<1>3. Modes(5) /\ MessagesFit(5) /\ Has(5)
  BY <1>1 DEF At
<1>4. TaFits(5 + 1)'
  BY <1>2, <1>3 DEF TaFits, Modes, Has
<1>5. Modes(5 + 1)'
  BY <1>2, <1>3, <1>4, ModesOn
<1>6. MessagesFit(5)'
  BY <1>3, MessagesTrigger DEF TriggerAction, EnableTA
<1>7. MessagesFit(5 + 1)'
  BY <1>6, MessagesOn
<1> QED
  BY <1>1, <1>2, <1>5, <1>7, Advances

LEMMA HaltTAGoes ==
  ASSUME NEW p \in 1..27, At(p), Has(p), DataInv, Told("TA", "Halt"), HaltTA, Go, UNCHANGED farmVars, RestUnchanged
  PROVE  Goes'
<1>1. p = 24 /\ script # << >>
  <2>1. script # << >> /\ p \in (1..26) \ {19} /\ Instruction(p) = ToApp("TA", "Halt")
    BY ToldAt
  <2> QED
    BY <2>1, Places
<1>2. ta' = "Halted" /\ UNCHANGED << evm, bu, fu, source, present, ru, rui, testStarted >>
  BY DEF HaltTA, evmVars, farmVars, buVars, fuVars, RestUnchanged
<1>3. Modes(24) /\ MessagesFit(24) /\ Has(24)
  BY <1>1 DEF At
<1>4. TaFits(24 + 1)'
  BY <1>2, <1>3 DEF TaFits, Modes, Has
<1>5. Modes(24 + 1)'
  BY <1>2, <1>3, <1>4, ModesOn
<1>6. MessagesFit(24)'
  BY <1>3, MessagesTrigger DEF TriggerAction
<1>7. MessagesFit(24 + 1)'
  BY <1>6, MessagesOn
<1> QED
  BY <1>1, <1>2, <1>5, <1>7, Advances

LEMMA ConfigureFUGoes ==
  ASSUME NEW p \in 1..27, At(p), Has(p), DataInv, Told("FU", "Configure"), ConfigureFU, Go, RestUnchanged
  PROVE  Goes'
<1>1. p = 16 /\ script # << >>
  <2>1. script # << >> /\ p \in (1..26) \ {19} /\ Instruction(p) = ToApp("FU", "Configure")
    BY ToldAt
  <2> QED
    BY <2>1, Places
<1>2. fu' = "Ready" /\ UNCHANGED << evm, bu, ta, source, present, ru, rui, testStarted >>
  BY DEF ConfigureFU, buVars, triggerVars, taVars, evmVars, RestUnchanged
<1>3. Modes(16) /\ MessagesFit(16) /\ Has(16)
  BY <1>1 DEF At
<1>4. FuFits(16 + 1)'
  BY <1>2, <1>3 DEF FuFits, Has
<1>5. BuFits(16 + 1)'
  BY <1>2, <1>3 DEF ConfigureFU, Modes, BuFits, Broken
<1>6. Modes(16 + 1)'
  BY <1>2, <1>3, <1>4, <1>5, ModesOn
<1>7. MessagesFit(16)'
  BY <1>3, MessagesFarm DEF FarmCommand
<1>8. MessagesFit(16 + 1)'
  BY <1>7, MessagesOn
<1> QED
  BY <1>1, <1>2, <1>6, <1>8, Advances

LEMMA HaltFUGoes ==
  ASSUME NEW p \in 1..27, At(p), Has(p), DataInv, Told("FU", "Halt"), HaltFU, Go, RestUnchanged
  PROVE  Goes'
<1>1. p = 25 /\ script # << >>
  <2>1. script # << >> /\ p \in (1..26) \ {19} /\ Instruction(p) = ToApp("FU", "Halt")
    BY ToldAt
  <2> QED
    BY <2>1, Places
<1>2. fu' = "Halted" /\ UNCHANGED << evm, bu, ta, source, present, ru, rui, testStarted >>
  BY DEF HaltFU, buVars, triggerVars, taVars, evmVars, RestUnchanged
<1>3. Modes(25) /\ MessagesFit(25) /\ Has(25)
  BY <1>1 DEF At
<1>4. FuFits(25 + 1)'
  BY <1>2, <1>3 DEF FuFits, Has
<1>5. bu = "Halted"
  BY <1>3 DEF HaltFU, Modes, BuFits, Broken
<1>6. BuFits(25 + 1)'
  BY <1>2, <1>5 DEF BuFits
<1>7. Modes(25 + 1)'
  BY <1>2, <1>3, <1>4, <1>6, ModesOn
<1>8. MessagesFit(25)'
  BY <1>3, MessagesFarm DEF FarmCommand
<1>9. MessagesFit(25 + 1)'
  BY <1>8, MessagesOn
<1> QED
  BY <1>1, <1>2, <1>7, <1>9, Advances

LEMMA EnableFUGoes ==
  ASSUME NEW p \in 1..27, At(p), Has(p), DataInv, Told("FU", "Enable"), EnableFU, Go, RestUnchanged
  PROVE  Goes'
<1>1. p = 17 /\ script # << >>
  <2>1. script # << >> /\ p \in (1..26) \ {19} /\ Instruction(p) = ToApp("FU", "Enable")
    BY ToldAt
  <2> QED
    BY <2>1, Places
<1>2. fu' = "Enabled" /\ UNCHANGED << evm, bu, ta, source, present, ru, rui, testStarted >>
  BY DEF EnableFU, buVars, triggerVars, taVars, evmVars, RestUnchanged
<1>3. Modes(17) /\ MessagesFit(17) /\ Has(17)
  BY <1>1 DEF At
<1>4. FuFits(17 + 1)'
  BY <1>2, <1>3 DEF FuFits, Has
<1>5. BuFits(17 + 1)'
  BY <1>2, <1>3 DEF EnableFU, Modes, BuFits, Broken
<1>6. Modes(17 + 1)'
  BY <1>2, <1>3, <1>4, <1>5, ModesOn
<1>7. TriggersOf(This) /\ EvmQueues /\ FarmOf(This) /\ BuQueues
  BY <1>3 DEF MessagesFit
<1>8. TriggersOf(This)' /\ EvmQueues'
  BY <1>7, TriggerPartsSame DEF EnableFU
<1>9. FarmOf(This)' /\ BuQueues'
  BY <1>7, FarmNow DEF DataInv, FarmCommand
<1>10. MessagesFit(17 + 1)'
  <2>1. MessagesFit(18)'
    BY <1>8, <1>9, MessagesParts
  <2> QED
    BY <2>1
<1> QED
  BY <1>1, <1>2, <1>6, <1>10, Advances

LEMMA RUStates ==
  StateAfter("Configure") = "Configuring" /\ StateAfter("Enable") = "Enabled" /\ StateAfter("Halt") = "Halted"
BY DEF StateAfter

LEMMA CommandRUGoes ==
  ASSUME NEW p \in 1..27, At(p), Has(p), CommandRU
  PROVE  Goes'
<1>1. PICK event \in {"Configure", "Enable", "Halt"} : Told("RU", event) /\ ru' = StateAfter(event)
  BY DEF CommandRU
<1>2. Go /\ UNCHANGED << triggerVars, farmVars, present, rui, inputSource, testStarted >>
  BY DEF CommandRU
<1>3. UNCHANGED << evm, bu, fu, ta, source >>
  BY <1>2 DEF triggerVars, taVars, evmVars, farmVars, buVars, fuVars
<1>4. script # << >> /\ p \in (1..26) \ {19} /\ Instruction(p) = ToApp("RU", event)
  BY <1>1, ToldAt
<1>5. Modes(p) /\ MessagesFit(p)
  BY DEF At
<1>6. p \in {8, 10, 23} /\ RuFits(p + 1)'
  <2>1. CASE event = "Configure"
    <3>1. p = 8
      BY <1>4, <2>1, Places
    <3>2. RuFits(8 + 1)'
      BY <1>1, <1>2, <2>1, <3>1, RUStates DEF RuFits
    <3> QED
      BY <3>1, <3>2
  <2>2. CASE event = "Enable"
    <3>1. p = 10
      BY <1>4, <2>2, Places
    <3>2. RuFits(10 + 1)'
      BY <1>1, <1>2, <2>2, <3>1, RUStates DEF RuFits
    <3> QED
      BY <3>1, <3>2
  <2>3. CASE event = "Halt"
    <3>1. p = 23
      BY <1>4, <2>3, Places
    <3>2. RuFits(23 + 1)'
      BY <1>1, <1>2, <2>3, <3>1, RUStates DEF RuFits
    <3> QED
      BY <3>1, <3>2
  <2> QED
    BY <2>1, <2>2, <2>3
<1>7. Modes(p + 1)'
  BY <1>2, <1>3, <1>5, <1>6, ModesOn
<1>8. MessagesFit(p)'
  BY <1>2, <1>5, MessagesSame
<1>9. MessagesFit(p + 1)'
  BY <1>6, <1>8, MessagesOn
<1> QED
  BY <1>2, <1>4, <1>7, <1>9, Advances

LEMMA CommandRUIGoes ==
  ASSUME NEW p \in 1..27, At(p), Has(p), CommandRUI
  PROVE  Goes'
<1>1. PICK event \in {"Configure", "Enable", "Halt"} : Told("RUI", event) /\ rui' = StateAfter(event)
  BY DEF CommandRUI
<1>2. Go /\ UNCHANGED << triggerVars, farmVars, present, ru, inputSource, testStarted >>
  BY DEF CommandRUI
<1>3. UNCHANGED << evm, bu, fu, ta, source >>
  BY <1>2 DEF triggerVars, taVars, evmVars, farmVars, buVars, fuVars
<1>4. script # << >> /\ p \in (1..26) \ {19} /\ Instruction(p) = ToApp("RUI", event)
  BY <1>1, ToldAt
<1>5. Modes(p) /\ MessagesFit(p)
  BY DEF At
<1>6. p \in {13, 15, 20} /\ RuiFits(p + 1)'
  <2>1. CASE event = "Configure"
    <3>1. p = 13
      BY <1>4, <2>1, Places
    <3>2. RuiFits(13 + 1)'
      BY <1>1, <1>2, <2>1, <3>1, RUStates DEF RuiFits, Has
    <3> QED
      BY <3>1, <3>2
  <2>2. CASE event = "Enable"
    <3>1. p = 15
      BY <1>4, <2>2, Places
    <3>2. RuiFits(15 + 1)'
      BY <1>1, <1>2, <2>2, <3>1, RUStates DEF RuiFits, Has
    <3> QED
      BY <3>1, <3>2
  <2>3. CASE event = "Halt"
    <3>1. p = 20
      BY <1>4, <2>3, Places
    <3>2. RuiFits(20 + 1)'
      BY <1>1, <1>2, <2>3, <3>1, RUStates DEF RuiFits, Has
    <3> QED
      BY <3>1, <3>2
  <2> QED
    BY <2>1, <2>2, <2>3
<1>7. Modes(p + 1)'
  BY <1>2, <1>3, <1>5, <1>6, ModesOn
<1>8. MessagesFit(p)'
  BY <1>2, <1>5, MessagesSame
<1>9. MessagesFit(p + 1)'
  BY <1>6, <1>8, MessagesOn
<1> QED
  BY <1>2, <1>4, <1>7, <1>9, Advances

-----------------------------------------------------------------------------
(* Faults and parameters.                                                  *)

LEMMA FailToEnableTAGoes ==
  ASSUME NEW p \in 1..27, At(p), Has(p), Told("TA", "Enable"), FailToEnableTA, GiveUp, RestUnchanged, UNCHANGED farmVars
  PROVE  TAFailed'
<1>1. p = 5 /\ script # << >>
  <2>1. script # << >> /\ p \in (1..26) \ {19} /\ Instruction(p) = ToApp("TA", "Enable")
    BY ToldAt
  <2> QED
    BY <2>1, Places
<1>2. Modes(5) /\ Has(5)
  BY <1>1 DEF At
<1>3. ta' = "Failed" /\ script' = << >> /\ UNCHANGED << evm, bu, fu, source, present, ru, rui, testStarted >>
  BY DEF FailToEnableTA, evmVars, farmVars, buVars, fuVars, RestUnchanged, GiveUp
<1>4. "TA" \in present /\ source = "TA" /\ evm = "Halted" /\ bu = "Halted" /\ fu = "Halted" /\ ru = "Halted" /\ rui = "Halted"
  BY <1>2 DEF Has, Modes, EvmFits, BuFits, RuFits, RuiFits, TaFits, FuFits
<1>5. ~ testStarted
  <2>1. ~ (5 \in 19..26)
    OBVIOUS
  <2> QED
    BY <1>2, <2>1, Zenon DEF Modes
<1> QED
  BY <1>3, <1>4, <1>5 DEF TAFailed, Within

LEMMA FailToEnableFUGoes ==
  ASSUME NEW p \in 1..27, At(p), Has(p), Told("FU", "Enable"), FailToEnableFU, GiveUp, RestUnchanged
  PROVE  FUFailed'
<1>1. p = 17 /\ script # << >>
  <2>1. script # << >> /\ p \in (1..26) \ {19} /\ Instruction(p) = ToApp("FU", "Enable")
    BY ToldAt
  <2> QED
    BY <2>1, Places
<1>2. Modes(17) /\ Has(17)
  BY <1>1 DEF At
<1>3. fu = "Ready" /\ fu' = "Failed" /\ script' = << >>
      /\ UNCHANGED << evm, bu, ta, source, present, ru, rui, testStarted >>
  BY DEF FailToEnableFU, triggerVars, taVars, evmVars, buVars, RestUnchanged, GiveUp
<1>4. "FU" \in present /\ evm = "Enabled" /\ bu = "Enabled" /\ ru = "Enabled" /\ rui = (IF "RUI" \in present THEN "Enabled" ELSE "Halted")
  BY <1>2, <1>3 DEF Has, Modes, EvmFits, BuFits, RuFits, RuiFits, Broken
<1>5. IF "TA" \in present THEN source = "TA" /\ ta = "Enabled" ELSE source = "Local" /\ ta = "Halted"
  BY <1>2 DEF Modes, TaFits
<1>6. ~ testStarted
  <2>1. ~ (17 \in 19..26)
    OBVIOUS
  <2> QED
    BY <1>2, <2>1, Zenon DEF Modes
<1> QED
  BY <1>3, <1>4, <1>5, <1>6 DEF FUFailed, Within

\* The only fault that the tester meets on its way is the FU that is gone.
LEMMA FaultGoes ==
  ASSUME NEW p \in 1..27, At(p), Has(p), Fault
  PROVE  FUGone'
<1>1. script' = << >> /\ UNCHANGED << triggerVars, farmVars, present, ru, rui, testStarted >>
  BY DEF Fault, GiveUp, RestUnchanged
<1>2. Modes(p) /\ MessagesFit(p)
  BY DEF At
<1>3. ~ (Told("TA", "Configure") /\ ta # "Halted")
  <2>1. SUFFICES ASSUME Told("TA", "Configure") PROVE ta = "Halted"
    OBVIOUS
  <2>2. p \in (1..26) \ {19} /\ Instruction(p) = ToApp("TA", "Configure")
    BY <2>1, ToldAt
  <2>3. p = 4
    BY <2>2, Places
  <2> QED
    BY <1>2, <2>3 DEF Modes, TaFits
<1>4. ~ (Told("TA", "Enable") /\ ta # "Ready")
  <2>1. SUFFICES ASSUME Told("TA", "Enable") PROVE ta = "Ready"
    OBVIOUS
  <2>2. p \in (1..26) \ {19} /\ Instruction(p) = ToApp("TA", "Enable")
    BY <2>1, ToldAt
  <2>3. p = 5
    BY <2>2, Places
  <2> QED
    BY <1>2, <2>3 DEF Modes, TaFits, Has
<1>5. ~ (Told("TA", "Halt") /\ ta = "Failed")
  <2>1. SUFFICES ASSUME Told("TA", "Halt") PROVE ta # "Failed"
    OBVIOUS
  <2>2. p \in (1..26) \ {19} /\ Instruction(p) = ToApp("TA", "Halt")
    BY <2>1, ToldAt
  <2>3. p = 24
    BY <2>2, Places
  <2> QED
    BY <1>2, <2>3 DEF Modes, TaFits
<1>6. ~ (Told("FU", "Configure") /\ fu # "Halted")
  <2>1. SUFFICES ASSUME Told("FU", "Configure") PROVE fu = "Halted"
    OBVIOUS
  <2>2. p \in (1..26) \ {19} /\ Instruction(p) = ToApp("FU", "Configure")
    BY <2>1, ToldAt
  <2>3. p = 16
    BY <2>2, Places
  <2> QED
    BY <1>2, <2>3 DEF Modes, FuFits
<1>7. ~ (Told("FU", "Enable") /\ fu # "Ready")
  <2>1. SUFFICES ASSUME Told("FU", "Enable") PROVE fu = "Ready"
    OBVIOUS
  <2>2. p \in (1..26) \ {19} /\ Instruction(p) = ToApp("FU", "Enable")
    BY <2>1, ToldAt
  <2>3. p = 17
    BY <2>2, Places
  <2> QED
    BY <1>2, <2>3 DEF Modes, FuFits, Has
<1>8. Told("FU", "Halt") /\ fu \in {"Failed", "Gone"}
  BY <1>3, <1>4, <1>5, <1>6, <1>7 DEF Fault
<1>9. p = 25
  <2>1. p \in (1..26) \ {19} /\ Instruction(p) = ToApp("FU", "Halt")
    BY <1>8, ToldAt
  <2> QED
    BY <2>1, Places
<1>10. Modes(25) /\ MessagesFit(25) /\ Has(25)
  BY <1>2, <1>9
<1>11. fu = "Gone" /\ "FU" \in present /\ evm = "Halted" /\ bu \in {"Halted", "Failed"} /\ ru = "Halted" /\ rui = "Halted"
       /\ ta = "Halted" /\ source = (IF "TA" \in present THEN "TA" ELSE "Local")
  BY <1>8, <1>10 DEF Has, Modes, EvmFits, BuFits, RuFits, RuiFits, TaFits, FuFits, Broken
<1>12. testStarted
  <2>1. 25 \in 19..26
    OBVIOUS
  <2> QED
    BY <1>10, <2>1, Zenon DEF Modes
<1>13. TriggersOf(This) /\ EvmQueues /\ FarmOf(This) /\ BuQueues
  BY <1>10 DEF MessagesFit
<1>14. TriggersOf(This)' /\ EvmQueues' /\ FarmOf(This)' /\ BuQueues'
  BY <1>1, <1>13, TriggerPartsSame, FarmPartsSame
<1>15. UNCHANGED << evm, bu, fu, ta, source >>
  BY <1>1 DEF triggerVars, taVars, evmVars, farmVars, buVars, fuVars
<1>16. Within(20, 25)'
  BY <1>1 DEF Within
<1> QED
  BY <1>1, <1>11, <1>12, <1>14, <1>15, <1>16 DEF FUGone

LEMMA ChangeParameterGoes ==
  ASSUME NEW p \in 1..27, At(p), Has(p), DataInv, ChangeParameter
  PROVE  Goes'
<1>1. Go /\ UNCHANGED << present, ru, rui, testStarted >> /\ Modes(p) /\ MessagesFit(p)
  BY DEF ChangeParameter, At
<1>2. CASE Told("EVM", "Local") /\ SetTriggerSource /\ UNCHANGED farmVars
  <2>1. p \in (1..26) \ {19} /\ Instruction(p) = ToApp("EVM", "Local") /\ script # << >>
    BY <1>2, ToldAt
  <2>2. p = 1
    BY <2>1, Places
  <2>3. source' = "Local" /\ UNCHANGED << evm, bu, fu, ta >>
    BY <1>2 DEF SetTriggerSource, taVars, farmVars, buVars, fuVars
  <2>4. TaFits(1 + 1)'
    BY <1>1, <2>2, <2>3 DEF Modes, TaFits, Has
  <2>5. Modes(1 + 1)'
    BY <1>1, <2>2, <2>3, <2>4, ModesOn
  <2>6. MessagesFit(1)'
    BY <1>1, <1>2, <2>2, MessagesTrigger DEF TriggerAction
  <2>7. MessagesFit(1 + 1)'
    BY <2>6, MessagesOn
  <2> QED
    BY <1>1, <2>1, <2>2, <2>5, <2>7, Advances
<1>3. CASE Told("RU", "Local") /\ UNCHANGED << triggerVars, farmVars >>
  <2>1. p \in (1..26) \ {19} /\ Instruction(p) = ToApp("RU", "Local") /\ script # << >>
    BY <1>3, ToldAt
  <2>2. p = 2
    BY <2>1, Places
  <2>3. UNCHANGED << evm, source, bu, fu, ta >>
    BY <1>3 DEF triggerVars, taVars, evmVars, farmVars, buVars, fuVars
  <2>4. Modes(2 + 1)'
    BY <1>1, <2>2, <2>3, ModesOn
  <2>5. MessagesFit(2)'
    BY <1>1, <1>3, <2>2, MessagesSame
  <2>6. MessagesFit(2 + 1)'
    BY <2>5, MessagesOn
  <2> QED
    BY <1>1, <2>1, <2>2, <2>4, <2>6, Advances
<1>4. CASE Told("BU", "DropEvents") /\ SetDropEventData
  <2>1. p \in (1..26) \ {19} /\ Instruction(p) = ToApp("BU", "DropEvents") /\ script # << >>
    BY <1>4, ToldAt
  <2>2. p = 3
    BY <2>1, Places
  <2>3. UNCHANGED << evm, source, bu, fu, ta >>
    BY <1>4 DEF SetDropEventData, triggerVars, taVars, evmVars, fuVars
  <2>4. Modes(3 + 1)'
    BY <1>1, <2>2, <2>3, ModesOn
  <2>5. MessagesFit(3)'
    BY <1>1, <1>4, <2>2, MessagesFarm DEF FarmCommand
  <2>6. MessagesFit(3 + 1)'
    BY <2>5, MessagesOn
  <2> QED
    BY <1>1, <2>1, <2>2, <2>4, <2>6, Advances
<1> QED
  BY <1>2, <1>3, <1>4 DEF ChangeParameter

-----------------------------------------------------------------------------
(* What happens without a command.                                         *)

LEMMA ConfiguredGoes ==
  ASSUME NEW p \in 1..27, At(p), Has(p), DataInv, Configured
  PROVE  Goes'
<1>1. Modes(p) /\ MessagesFit(p) /\ EvmFits(p) /\ BuFits(p) /\ RuFits(p) /\ RuiFits(p)
  BY DEF At, Modes
<1>2. CASE EVMConfigured /\ UNCHANGED << farmVars, testerVars >>
  <2>1. evm = "Configuring" /\ evm' = "Ready" /\ UNCHANGED << bu, fu, ta, source, present, ru, rui, testStarted, script >>
    BY <1>2 DEF EVMConfigured, taVars, farmVars, buVars, fuVars, testerVars
  <2>2. p \in 7..9
    <3>1. p \in 1..6 \cup 22..27 \/ p \in 7..9 \/ p \in 10..11 \/ p \in 12..20 \/ p = 21
      OBVIOUS
    <3> QED
      BY <1>1, <2>1, <3>1 DEF EvmFits, Processing
  <2>3. EvmFits(p)'
    BY <2>1, <2>2 DEF EvmFits
  <2>4. Modes(p)'
    BY <1>1, <2>1, <2>3 DEF Modes, BuFits, RuFits, RuiFits, TaFits, FuFits, Broken
  <2>5. MessagesFit(p)'
    BY <1>1, <1>2, MessagesTrigger DEF TriggerAction
  <2> QED
    BY <2>1, <2>4, <2>5, Remains
<1>3. CASE BUConfigured /\ UNCHANGED testerVars
  <2>1. bu = "Configuring" /\ bu' = "Ready" /\ UNCHANGED << evm, fu, ta, source, present, ru, rui, testStarted, script >>
    BY <1>3 DEF BUConfigured, triggerVars, taVars, evmVars, fuVars, testerVars
  <2>2. p \in 8..9
    <3>1. p \in 1..7 \/ p \in 8..9 \/ p \in 10..12 \/ p \in 13..22 \/ p \in 23..25 \/ p \in 26..27
      OBVIOUS
    <3> QED
      BY <1>1, <2>1, <3>1 DEF BuFits, Broken
  <2>3. BuFits(p)'
    BY <2>1, <2>2 DEF BuFits
  <2>4. Modes(p)'
    BY <1>1, <2>1, <2>3 DEF Modes, EvmFits, RuFits, RuiFits, TaFits, FuFits, Processing
  <2>5. MessagesFit(p)'
    BY <1>1, <1>3, <2>2, MessagesFarm DEF FarmCommand
  <2> QED
    BY <2>1, <2>4, <2>5, Remains
<1>4. CASE ru = "Configuring" /\ ru' = "Ready" /\ UNCHANGED << triggerVars, farmVars, present, rui, inputSource, script, testStarted >>
  <2>1. UNCHANGED << evm, bu, fu, ta, source >>
    BY <1>4 DEF triggerVars, taVars, evmVars, farmVars, buVars, fuVars
  <2>2. p = 9
    <3>1. p \in 1..8 \cup 24..27 \/ p = 9 \/ p = 10 \/ p \in 11..23
      OBVIOUS
    <3> QED
      BY <1>1, <1>4, <3>1 DEF RuFits
  <2>3. RuFits(p)'
    BY <1>4, <2>2 DEF RuFits
  <2>4. Modes(p)'
    BY <1>1, <1>4, <2>1, <2>3 DEF Modes, EvmFits, BuFits, RuiFits, TaFits, FuFits, Broken, Processing
  <2>5. MessagesFit(p)'
    BY <1>1, <1>4, MessagesSame
  <2> QED
    BY <1>4, <2>4, <2>5, Remains
<1>5. CASE rui = "Configuring" /\ rui' = "Ready" /\ UNCHANGED << triggerVars, farmVars, present, ru, inputSource, script, testStarted >>
  <2>1. UNCHANGED << evm, bu, fu, ta, source >>
    BY <1>5 DEF triggerVars, taVars, evmVars, farmVars, buVars, fuVars
  <2>2. p = 14 /\ "RUI" \in present
    <3>1. p \in 1..13 \cup 21..27 \/ p = 14 \/ p = 15 \/ p \in 16..20
      OBVIOUS
    <3> QED
      BY <1>1, <1>5, <3>1 DEF RuiFits
  <2>3. RuiFits(p)'
    BY <1>5, <2>2 DEF RuiFits
  <2>4. Modes(p)'
    BY <1>1, <1>5, <2>1, <2>3 DEF Modes, EvmFits, BuFits, RuFits, TaFits, FuFits, Broken, Processing
  <2>5. MessagesFit(p)'
    BY <1>1, <1>5, MessagesSame
  <2> QED
    BY <1>5, <2>4, <2>5, Remains
<1> QED
  BY <1>2, <1>3, <1>4, <1>5 DEF Configured

\* After the pause there is nothing of an earlier test: what there is would have to be
\* of both.
LEMMA PauseClears ==
  ASSUME DataInv, TriggersOf(Old), FarmOf(Old), OneSecondIsEnough, evm = "Ready", bu = "Ready", held = << >>
  PROVE  NoTriggers /\ NoRequests /\ TriggersOf(This) /\ EvmQueues /\ FarmOf(This) /\ BuQueues
<1>1. /\ AllMarked(Old, credits) /\ AllOf(Old, triggers)
      /\ AllMarked(Old, takes) /\ AllMarked(Old, allocates) /\ AllMarked(Old, discards)
  BY DEF TriggersOf, FarmOf
<1>2. /\ AllMarked(This, credits) /\ AllOf(This, triggers)
      /\ AllMarked(This, takes) /\ AllMarked(This, allocates) /\ AllMarked(This, discards)
  BY DEF OneSecondIsEnough, FromEarlier, AllMarked, AllOf
<1>3. /\ credits \in Seq(CreditMessages) /\ triggers \in Seq(Tests)
      /\ takes \in Seq(Takes) /\ allocates \in Seq(Allocates) /\ discards \in Seq(Discards)
  BY DEF DataInv, TriggerTypes, FarmTypes
<1>4. credits = << >> /\ takes = << >> /\ allocates = << >> /\ discards = << >>
  BY <1>1, <1>2, <1>3, MarkedBoth
<1>5. triggers = << >>
  BY <1>1, <1>2, <1>3, AllOfBoth
<1>6. triggerFIFO = << >> /\ events = << >> /\ requestFIFO = << >> /\ eventOf = << >>
  BY DEF DataInv, TriggerFacts, BuFacts
<1>7. AllOf(This, << >>) /\ AllMarked(This, << >>)
  BY DEF AllOf, AllMarked
<1> QED
  BY <1>4, <1>5, <1>6, <1>7 DEF NoTriggers, NoRequests, TriggersOf, EvmQueues, FarmOf, BuQueues

\* The pause: nothing of an earlier test is left, and the applications are Ready.
LEMMA WaitGoes ==
  ASSUME NEW p \in 1..27, At(p), Has(p), DataInv, Wait, InTime
  PROVE  Goes'
<1>1. script # << >> /\ Head(script) = Sleep /\ OneSecondIsEnough /\ Go /\ UNCHANGED << present, ru, rui, testStarted >>
      /\ UNCHANGED << triggerVars, farmVars >>
  BY DEF Wait, InTime, RestUnchanged
<1>2. p \in {9, 14}
  <2>1. p \in (1..26) \ {19} /\ Instruction(p) = Sleep
    BY <1>1, AtInstruction
  <2> QED
    BY <2>1, Places
<1>3. UNCHANGED << evm, bu, fu, ta, source >>
  BY <1>1 DEF triggerVars, taVars, evmVars, farmVars, buVars, fuVars
<1>4. evm # "Configuring" /\ bu # "Configuring" /\ ru # "Configuring" /\ rui # "Configuring"
  <2>1. \A app \in {"EVM", "BU", "RU", "RUI"} : StateOf(app) # "Configuring"
    BY <1>1 DEF OneSecondIsEnough, Applications
  <2> QED
    BY <2>1 DEF StateOf
<1>5. Modes(p) /\ MessagesFit(p)
  BY DEF At
<1>6. CASE p = 9
  <2>1. evm = "Ready" /\ bu = "Ready" /\ ru = "Ready" /\ ta \in {"Enabled", "Halted"}
    BY <1>4, <1>5, <1>6 DEF Modes, EvmFits, BuFits, RuFits, TaFits
  <2>2. EvmFits(9 + 1)' /\ BuFits(9 + 1)' /\ RuFits(9 + 1)'
    BY <1>1, <1>3, <2>1 DEF EvmFits, BuFits, RuFits
  <2>3. Modes(9 + 1)'
    BY <1>1, <1>3, <1>5, <1>6, <2>2, ModesOn
  <2>4. held = << >>
    BY <2>1 DEF DataInv, TriggerFacts
  <2>5. TriggersOf(Old) /\ FarmOf(Old)
    BY <1>5, <1>6 DEF MessagesFit
  <2>6. NoTriggers /\ NoRequests /\ TriggersOf(This) /\ EvmQueues /\ FarmOf(This) /\ BuQueues
    BY <1>1, <2>1, <2>4, <2>5, PauseClears
  <2>7. NoTriggers' /\ NoRequests' /\ TriggersOf(This)' /\ EvmQueues' /\ FarmOf(This)' /\ BuQueues'
    BY <1>1, <2>6, TriggerPartsSame, FarmPartsSame
  <2>8. MessagesFit(10)'
    BY <2>7, MessagesParts
  <2>9. MessagesFit(9 + 1)'
    BY <2>8
  <2> QED
    BY <1>1, <1>6, <2>3, <2>9, Advances
<1>7. CASE p = 14
  <2>1. "RUI" \in present /\ rui = "Ready"
    BY <1>4, <1>5, <1>7 DEF Modes, RuiFits, Has
  <2>2. RuiFits(14 + 1)'
    BY <1>1, <2>1 DEF RuiFits
  <2>3. Modes(14 + 1)'
    BY <1>1, <1>3, <1>5, <1>7, <2>2, ModesOn
  <2>4. MessagesFit(14)'
    BY <1>1, <1>5, <1>7, MessagesSame
  <2>5. MessagesFit(14 + 1)'
    BY <2>4, MessagesOn
  <2> QED
    BY <1>1, <1>7, <2>3, <2>5, Advances
<1> QED
  BY <1>2, <1>6, <1>7

\* The end of a script.
LEMMA FinishGoes ==
  ASSUME NEW p \in 1..27, At(p), Has(p), TesterTypes, Finish
  PROVE  Goes'
<1>1. script # << >> /\ Head(script) = Done /\ testStarted' = ~ testStarted /\ Go
      /\ UNCHANGED << triggerVars, farmVars, present, ru, rui >>
  BY DEF Finish
<1>2. p \in {18, 26}
  <2>1. p \in (1..26) \ {19} /\ Instruction(p) = Done
    BY <1>1, AtInstruction
  <2> QED
    BY <2>1, Places
<1>3. UNCHANGED << evm, bu, fu, ta, source >>
  BY <1>1 DEF triggerVars, taVars, evmVars, farmVars, buVars, fuVars
<1>4. Modes(p) /\ MessagesFit(p) /\ (testStarted <=> p \in 19..26)
  BY DEF At, Modes
<1>5. p \in 19..26 <=> ~ (p + 1 \in 19..26)
  BY <1>2
<1>6. testStarted' <=> p + 1 \in 19..26
  BY <1>1, <1>4, <1>5, Zenon DEF TesterTypes
<1>7. p \in 1..26 /\ p \notin {6, 9, 11, 21} /\ p \notin {7, 9, 12, 22, 25} /\ p \notin {8, 9, 10, 23} /\ p \notin {13, 14, 15, 20}
      /\ p \notin {1, 4, 5, 24} /\ p \notin {16, 17, 25}
  BY <1>2
<1>8. Modes(p + 1)'
  BY <1>1, <1>3, <1>4, <1>6, <1>7, ModesOn
<1>9. MessagesFit(p)'
  BY <1>1, <1>4, MessagesSame
<1>10. MessagesFit(p + 1)'
  BY <1>7, <1>9, MessagesOn
<1> QED
  BY <1>1, <1>8, <1>10, Advances

-----------------------------------------------------------------------------
(* The work of the applications.                                           *)

LEMMA MessageModes ==
  ASSUME FarmMessage
  PROVE  /\ UNCHANGED << fu >> \/ (fu \in {"Ready", "Enabled"} /\ fu' = "Gone")
         /\ UNCHANGED << bu >> \/ (bu = "Enabled" /\ fu = "Gone" /\ bu' = "Failed")
         /\ takes = << >> => UNCHANGED << fu >>
<1>1. CASE SendEventToFU
  BY <1>1 DEF SendEventToFU, fuVars
<1>2. CASE AllocateCallback \/ DiscardCallback
  BY <1>2 DEF AllocateCallback, DiscardCallback, fuVars
<1>3. CASE TakeSuperFragment
  BY <1>3 DEF TakeSuperFragment, FinishEvent, buVars
<1> QED
  BY <1>1, <1>2, <1>3 DEF FarmMessage

LEMMA MessageGoes ==
  ASSUME NEW p \in 1..27, At(p), DataInv, FarmMessage, UNCHANGED testerVars
  PROVE  Goes'
<1>1. Modes(p) /\ MessagesFit(p)
  BY DEF At
<1>2. UNCHANGED << evm, ta, source, present, ru, rui, testStarted, script >>
  BY FarmTriggerSame DEF triggerVars, taVars, evmVars, testerVars
<1>3. ~ EnableFU \/ p # 17
  BY <1>1, NoRequestsNoMessage DEF MessagesFit
<1>4. MessagesFit(p)'
  BY <1>1, <1>3, MessagesFarm
<1>5. FuFits(p)' /\ (fu = "Gone" => fu' = "Gone")
  <2>1. FuFits(p)
    BY <1>1 DEF Modes
  <2>2. CASE UNCHANGED fu
    BY <1>2, <2>1, <2>2 DEF FuFits
  <2>3. CASE fu \in {"Ready", "Enabled"} /\ fu' = "Gone"
    <3>1. p \notin 10..17
      BY <1>1, NoRequestsNoMessage DEF MessagesFit
    <3>2. p \in 1..16 \cup 26..27 \/ p = 17 \/ p \in 18..25
      OBVIOUS
    <3>3. p \in 18..25 /\ "FU" \in present
      BY <2>1, <2>3, <3>1, <3>2 DEF FuFits
    <3> QED
      BY <1>2, <2>3, <3>3 DEF FuFits
  <2> QED
    BY <2>2, <2>3, MessageModes
<1>6. BuFits(p)'
  <2>1. BuFits(p)
    BY <1>1 DEF Modes
  <2>2. CASE UNCHANGED bu
    BY <1>5, <2>1, <2>2 DEF BuFits, Broken
  <2>3. CASE bu = "Enabled" /\ fu = "Gone" /\ bu' = "Failed"
    <3>1. p \in 1..7 \/ p \in 8..9 \/ p \in 10..12 \/ p \in 13..22 \/ p \in 23..25 \/ p \in 26..27
      OBVIOUS
    <3>2. p \in 13..22
      BY <2>1, <2>3, <3>1 DEF BuFits, Broken
    <3> QED
      BY <1>5, <2>3, <3>2 DEF BuFits, Broken
  <2> QED
    BY <2>2, <2>3, MessageModes
<1>7. Modes(p)'
  BY <1>1, <1>2, <1>5, <1>6 DEF Modes, EvmFits, RuFits, RuiFits, TaFits, Processing
<1> QED
  BY <1>2, <1>4, <1>7, Remains

\* Triggers, events, requests and discards do not move the tester.
LEMMA WorkGoes ==
  ASSUME NEW p \in 1..27, At(p), DataInv, Work
  PROVE  Goes'
<1>1. Modes(p) /\ MessagesFit(p) /\ UNCHANGED testerVars
  BY DEF At, Work
<1>2. UNCHANGED << script, present, ru, rui, testStarted >>
  BY <1>1 DEF testerVars
<1>3. CASE (EVMWork \/ TriggerCallback \/ TaCreditMsg) /\ UNCHANGED farmVars
  <2>1. TriggerAction
    BY <1>3 DEF EVMWork, TriggerAction
  <2>2. UNCHANGED << evm, ta, source >>
    BY <1>3 DEF EVMWork, FirstRequest, TakeTrigger, AddCredit, AskForTriggers, SubtractPacking, FlushCredits, SubtractAll, MakeTrigger,
                TriggerCallback, TaCreditMsg, taVars, evmVars
  <2>3. UNCHANGED << bu, fu >>
    BY <1>3 DEF farmVars, buVars, fuVars
  <2>4. Modes(p)'
    BY <1>1, <1>2, <2>2, <2>3, ModesSame
  <2>5. MessagesFit(p)'
    BY <1>1, <1>3, <2>1, MessagesTrigger
  <2> QED
    BY <1>2, <2>4, <2>5, Remains
<1>4. CASE BuildEvent(HasData)
  <2>1. UNCHANGED << evm, bu, fu, ta, source >>
    BY <1>4 DEF BuildEvent, taVars, fuVars
  <2>2. Modes(p)'
    BY <1>1, <1>2, <2>1, ModesSame
  <2>3. MessagesFit(p)'
    BY <1>1, <1>4, MessagesBuildEvent
  <2> QED
    BY <1>2, <2>2, <2>3, Remains
<1>5. CASE HandleDiscard
  <2>1. UNCHANGED << evm, fu, ta, source >> /\ bu' = bu
    BY <1>5, DataHandleDiscard DEF HandleDiscard, taVars, fuVars
  <2>2. Modes(p)'
    BY <1>1, <1>2, <2>1, ModesSame
  <2>3. MessagesFit(p)'
    BY <1>1, <1>5, MessagesHandleDiscard
  <2> QED
    BY <1>2, <2>2, <2>3, Remains
<1>6. CASE FarmMessage
  BY <1>1, <1>6, MessageGoes
<1> QED
  BY <1>3, <1>4, <1>5, <1>6 DEF Work, Farm, FarmMessage

\* A tester at one of its places stays at one, or gives up on a failed TA or FU, or on
\* an FU that is gone.
LEMMA GoesStep ==
  ASSUME Goes, DataInv, TesterTypes, Next, InTime
  PROVE  ControlInv'
<1>1. PICK p \in 1..27 : At(p) /\ Has(p)
  BY NextInstruction DEF Goes
<1>2. CASE Start \/ Stop \/ Suspend \/ Resume
  BY <1>1, <1>2, StartGoes, StopGoes, SuspendGoes DEF ControlInv
<1>3. CASE Ignore
  BY <1>1, <1>3, IgnoreGoes DEF ControlInv
<1>4. CASE CommandEVM \/ LeaveEVM
  <2>1. CASE Told("EVM", "Configure") /\ ConfigureEVM
    <3>1. Go /\ RestUnchanged /\ UNCHANGED farmVars
      <4>1. evm = "Halted"
        BY <2>1 DEF ConfigureEVM
      <4>2. evm' = "Configuring"
        BY <2>1 DEF ConfigureEVM
      <4> QED
        BY <1>4, <4>1, <4>2 DEF CommandEVM, LeaveEVM, EnableEVM, HaltEVM, StopRequesting, SubtractStopped, EVMStopped
    <3> QED
      BY <1>1, <2>1, <3>1, ConfigureEVMGoes DEF ControlInv
  <2>2. CASE Told("EVM", "Enable") /\ EnableEVM
    <3>1. Go /\ RestUnchanged /\ UNCHANGED farmVars
      <4>1. evm = "Ready"
        BY <2>2 DEF EnableEVM
      <4>2. evm' = "Enabled"
        BY <2>2 DEF EnableEVM
      <4> QED
        BY <1>4, <4>1, <4>2 DEF CommandEVM, LeaveEVM, ConfigureEVM, HaltEVM, StopRequesting, SubtractStopped, EVMStopped
    <3> QED
      BY <1>1, <2>2, <3>1, EnableEVMGoes DEF ControlInv
  <2>3. CASE ~ (Told("EVM", "Configure") /\ ConfigureEVM) /\ ~ (Told("EVM", "Enable") /\ EnableEVM)
    BY <1>1, <1>4, <2>3, LeaveEVMGoes DEF ControlInv
  <2> QED
    BY <2>1, <2>2, <2>3
<1>5. CASE CommandBU
  BY <1>1, <1>5, ConfigureBUGoes, EnableBUGoes, HaltBUGoes DEF CommandBU, ControlInv
<1>6. CASE CommandRU \/ CommandRUI
  BY <1>1, <1>6, CommandRUGoes, CommandRUIGoes DEF ControlInv
<1>7. CASE CommandTA
  BY <1>1, <1>7, ConfigureTAGoes, EnableTAGoes, HaltTAGoes, FailToEnableTAGoes DEF CommandTA, ControlInv
<1>8. CASE CommandFU
  BY <1>1, <1>8, ConfigureFUGoes, EnableFUGoes, HaltFUGoes, FailToEnableFUGoes DEF CommandFU, ControlInv
<1>9. CASE Fault
  BY <1>1, <1>9, FaultGoes DEF ControlInv
<1>10. CASE ChangeParameter
  BY <1>1, <1>10, ChangeParameterGoes DEF ControlInv
<1>11. CASE Configured
  BY <1>1, <1>11, ConfiguredGoes DEF ControlInv
<1>12. CASE Wait
  BY <1>1, <1>12, WaitGoes DEF ControlInv
<1>13. CASE Finish
  BY <1>1, <1>13, FinishGoes DEF ControlInv
<1>14. CASE Work
  BY <1>1, <1>14, WorkGoes DEF ControlInv
<1> QED
  BY <1>2, <1>3, <1>4, <1>5, <1>6, <1>7, <1>8, <1>9, <1>10, <1>11, <1>12, <1>13, <1>14 DEF Next, Command

-----------------------------------------------------------------------------
(* The tester that gave up: TA or FU could not be enabled.                 *)

LEMMA ToldWithin ==
  ASSUME NEW a \in 1..27, NEW b \in (1..26) \ {19}, Within(a, b), Has(b), 19 \notin a..b, NEW app, NEW event, Told(app, event)
  PROVE  \E p \in a..b : p \in (1..26) \ {19} /\ Has(p) /\ Instruction(p) = ToApp(app, event)
<1>1. script # << >> /\ Head(script) = ToApp(app, event)
  BY DEF Told
<1>2. PICK p \in a..b : Has(p) /\ Head(script) = Instruction(p)
  BY <1>1, WithinAt
<1>3. p \in (1..26) \ {19}
  BY <1>2
<1> QED
  BY <1>1, <1>2, <1>3

LEMMA WithinOn ==
  ASSUME NEW a \in 1..27, NEW b \in (1..26) \ {19}, Within(a, b), Has(b), 19 \notin a..b, UNCHANGED present,
         UNCHANGED script \/ script' = << >> \/ (script # << >> /\ Go /\ Head(script) # Instruction(b))
  PROVE  Within(a, b)'
<1>1. CASE UNCHANGED script
  <2>1. CASE script = << >>
    BY <1>1, <2>1 DEF Within
  <2>2. CASE script # << >>
    <3>1. PICK p \in a..b : script = From(p)
      BY <2>2 DEF Within
    <3>2. p \in 1..27
      OBVIOUS
    <3>3. script' = From(p)'
      BY <1>1, <3>1, <3>2, FromSame
    <3> QED
      BY <3>3 DEF Within
  <2> QED
    BY <2>1, <2>2
<1>2. CASE script' = << >>
  BY <1>2 DEF Within
<1>3. CASE script # << >> /\ Go /\ Head(script) # Instruction(b)
  <2>1. PICK p \in a..b : Head(script) = Instruction(p) /\ Tail(script) = From(p + 1)
    BY <1>3, WithinAt
  <2>2. p # b
    BY <1>3, <2>1
  <2>3. PICK q \in 1..27 : q = p + 1
    BY <2>1
  <2>4. q \in a..b
    BY <2>1, <2>2, <2>3
  <2>5. script' = From(q)'
    BY <1>3, <2>1, <2>3, FromSame DEF Go
  <2> QED
    BY <2>4, <2>5 DEF Within
<1> QED
  BY <1>1, <1>2, <1>3

LEMMA WithinStart ==
  ASSUME NEW b \in 1..26, Start
  PROVE  Within(1, b)'
<1>1. script' = From(1) /\ UNCHANGED present /\ 1 \in 1..b
  BY StartFromFirst DEF Start
<1>2. script' = From(1)'
  BY <1>1, FromSame
<1> QED
  BY <1>1, <1>2 DEF Within

LEMMA Lasts ==
  Instruction(4) = ToApp("TA", "Configure") /\ Instruction(16) = ToApp("FU", "Configure") /\ Instruction(25) = ToApp("FU", "Halt")
BY DEF Instruction

\* What the tester says while it starts again.
LEMMA EarlyOrders ==
  ASSUME NEW b \in {4, 16}, Within(1, b), Has(b)
  PROVE  /\ ~ Told("EVM", "Halt") /\ ~ Told("BU", "Halt") /\ ~ Told("RU", "Halt") /\ ~ Told("RUI", "Halt") /\ ~ Told("TA", "Halt")
         /\ Told("EVM", "Local") => "TA" \notin present
         /\ Told("TA", "Configure") \/ Told("TA", "Enable") => "TA" \in present
         /\ Told("RUI", "Configure") \/ Told("RUI", "Enable") => "RUI" \in present
         /\ ~ (script # << >> /\ Head(script) = Done)
<1>1. 1 \in 1..27 /\ b \in (1..26) \ {19} /\ 19 \notin 1..b /\ b <= 16
  OBVIOUS
<1>2. ~ Told("EVM", "Halt")
  <2>1. SUFFICES ASSUME Told("EVM", "Halt") PROVE FALSE
    OBVIOUS
  <2>2. PICK p \in 1..b : p \in (1..26) \ {19} /\ Has(p) /\ Instruction(p) = ToApp("EVM", "Halt")
    BY <1>1, <2>1, ToldWithin
  <2>3. p = 21
    BY <2>2, Places
  <2> QED
    BY <1>1, <2>2, <2>3
<1>3. ~ Told("BU", "Halt")
  <2>1. SUFFICES ASSUME Told("BU", "Halt") PROVE FALSE
    OBVIOUS
  <2>2. PICK p \in 1..b : p \in (1..26) \ {19} /\ Has(p) /\ Instruction(p) = ToApp("BU", "Halt")
    BY <1>1, <2>1, ToldWithin
  <2>3. p = 22
    BY <2>2, Places
  <2> QED
    BY <1>1, <2>2, <2>3
<1>4. ~ Told("RU", "Halt")
  <2>1. SUFFICES ASSUME Told("RU", "Halt") PROVE FALSE
    OBVIOUS
  <2>2. PICK p \in 1..b : p \in (1..26) \ {19} /\ Has(p) /\ Instruction(p) = ToApp("RU", "Halt")
    BY <1>1, <2>1, ToldWithin
  <2>3. p = 23
    BY <2>2, Places
  <2> QED
    BY <1>1, <2>2, <2>3
<1>5. ~ Told("RUI", "Halt")
  <2>1. SUFFICES ASSUME Told("RUI", "Halt") PROVE FALSE
    OBVIOUS
  <2>2. PICK p \in 1..b : p \in (1..26) \ {19} /\ Has(p) /\ Instruction(p) = ToApp("RUI", "Halt")
    BY <1>1, <2>1, ToldWithin
  <2>3. p = 20
    BY <2>2, Places
  <2> QED
    BY <1>1, <2>2, <2>3
<1>6. ~ Told("TA", "Halt")
  <2>1. SUFFICES ASSUME Told("TA", "Halt") PROVE FALSE
    OBVIOUS
  <2>2. PICK p \in 1..b : p \in (1..26) \ {19} /\ Has(p) /\ Instruction(p) = ToApp("TA", "Halt")
    BY <1>1, <2>1, ToldWithin
  <2>3. p = 24
    BY <2>2, Places
  <2> QED
    BY <1>1, <2>2, <2>3
<1>7. Told("EVM", "Local") => "TA" \notin present
  <2>1. SUFFICES ASSUME Told("EVM", "Local") PROVE "TA" \notin present
    OBVIOUS
  <2>2. PICK p \in 1..b : p \in (1..26) \ {19} /\ Has(p) /\ Instruction(p) = ToApp("EVM", "Local")
    BY <1>1, <2>1, ToldWithin
  <2>3. p = 1
    BY <2>2, Places
  <2> QED
    BY <2>2, <2>3 DEF Has
<1>8. Told("TA", "Configure") => "TA" \in present
  <2>1. SUFFICES ASSUME Told("TA", "Configure") PROVE "TA" \in present
    OBVIOUS
  <2>2. PICK p \in 1..b : p \in (1..26) \ {19} /\ Has(p) /\ Instruction(p) = ToApp("TA", "Configure")
    BY <1>1, <2>1, ToldWithin
  <2>3. p = 4
    BY <2>2, Places
  <2> QED
    BY <2>2, <2>3 DEF Has
<1>9. Told("TA", "Enable") => "TA" \in present
  <2>1. SUFFICES ASSUME Told("TA", "Enable") PROVE "TA" \in present
    OBVIOUS
  <2>2. PICK p \in 1..b : p \in (1..26) \ {19} /\ Has(p) /\ Instruction(p) = ToApp("TA", "Enable")
    BY <1>1, <2>1, ToldWithin
  <2>3. p = 5
    BY <2>2, Places
  <2> QED
    BY <2>2, <2>3 DEF Has
<1>10. Told("RUI", "Configure") => "RUI" \in present
  <2>1. SUFFICES ASSUME Told("RUI", "Configure") PROVE "RUI" \in present
    OBVIOUS
  <2>2. PICK p \in 1..b : p \in (1..26) \ {19} /\ Has(p) /\ Instruction(p) = ToApp("RUI", "Configure")
    BY <1>1, <2>1, ToldWithin
  <2>3. p = 13
    BY <2>2, Places
  <2> QED
    BY <2>2, <2>3 DEF Has
<1>11. Told("RUI", "Enable") => "RUI" \in present
  <2>1. SUFFICES ASSUME Told("RUI", "Enable") PROVE "RUI" \in present
    OBVIOUS
  <2>2. PICK p \in 1..b : p \in (1..26) \ {19} /\ Has(p) /\ Instruction(p) = ToApp("RUI", "Enable")
    BY <1>1, <2>1, ToldWithin
  <2>3. p = 15
    BY <2>2, Places
  <2> QED
    BY <2>2, <2>3 DEF Has
<1>12. ~ (script # << >> /\ Head(script) = Done)
  <2>1. SUFFICES ASSUME script # << >>, Head(script) = Done PROVE FALSE
    OBVIOUS
  <2>2. PICK p \in 1..b : Has(p) /\ Head(script) = Instruction(p)
    BY <1>1, <2>1, WithinAt
  <2>3. p \in (1..26) \ {19} /\ p <= 16
    BY <1>1, <2>2
  <2>4. p \in {18, 26}
    BY <2>1, <2>2, <2>3, Places
  <2> QED
    BY <2>3, <2>4
<1> QED
  BY <1>2, <1>3, <1>4, <1>5, <1>6, <1>7, <1>8, <1>9, <1>10, <1>11, <1>12

\* While only the first orders are left, no application of the builder is told anything.
LEMMA FirstOrders ==
  ASSUME Within(1, 4), Has(4), script # << >>
  PROVE  \/ Head(script) = ToApp("RU", "Local") \/ Head(script) = ToApp("BU", "DropEvents") \/ Head(script) = ToApp("TA", "Configure")
<1>1. PICK p \in 1..4 : Has(p) /\ Head(script) = Instruction(p)
  BY WithinAt
<1>2. "TA" \in present
  BY DEF Has
<1>3. p # 1
  BY <1>1, <1>2 DEF Has
<1>4. p = 2 \/ p = 3 \/ p = 4
  BY <1>1, <1>3
<1>5. Instruction(2) = ToApp("RU", "Local") /\ Instruction(3) = ToApp("BU", "DropEvents")
  BY DEF Instruction
<1> QED
  BY <1>1, <1>4, <1>5, Lasts

\* What the tester says while it stops again.
LEMMA LastOrders ==
  ASSUME Within(20, 25), Has(25), script # << >>
  PROVE  \/ Head(script) \in {ToApp(app, "Halt") : app \in {"RUI", "EVM", "BU", "RU", "TA", "FU"}}
<1>1. PICK p \in 20..25 : Has(p) /\ Head(script) = Instruction(p)
  BY WithinAt
<1>2. p = 20 \/ p = 21 \/ p = 22 \/ p = 23 \/ p = 24 \/ p = 25
  BY <1>1
<1> QED
  BY <1>1, <1>2 DEF Instruction

\* With a failed TA every start ends at its Configure.
LEMMA TAFailedStep ==
  ASSUME TAFailed, DataInv, TesterTypes, Next
  PROVE  TAFailed'
<1>1. /\ ta = "Failed" /\ "TA" \in present /\ source = "TA" /\ ~ testStarted
      /\ evm = "Halted" /\ bu = "Halted" /\ fu = "Halted" /\ ru = "Halted" /\ rui = "Halted"
      /\ Within(1, 4) /\ Has(4)
  BY DEF TAFailed, Has
<1>2. script # << >> => Head(script) = ToApp("RU", "Local") \/ Head(script) = ToApp("BU", "DropEvents") \/ Head(script) = ToApp("TA", "Configure")
  BY <1>1, FirstOrders
<1>3. SUFFICES /\ UNCHANGED << ta, present, source, testStarted, evm, bu, fu, ru, rui >>
               /\ Within(1, 4)'
  BY <1>1 DEF TAFailed
<1>4. CASE Start
  <2>1. UNCHANGED << ta, present, source, testStarted, evm, bu, fu, ru, rui >>
    BY <1>4 DEF Start, fuVars
  <2> QED
    BY <1>4, <2>1, WithinStart
<1>5. ~ Stop /\ ~ Suspend /\ ~ Resume
  BY <1>1 DEF Stop, Suspend, Resume, SuspendTA, ResumeTA
<1>6. ~ Ignore /\ ~ CommandEVM /\ ~ CommandBU /\ ~ CommandRU /\ ~ CommandRUI /\ ~ CommandFU /\ ~ Wait /\ ~ Finish
  BY <1>2 DEF Ignore, CommandEVM, CommandBU, CommandRU, CommandRUI, CommandFU, Wait, Finish, Told, ToApp, Sleep, Done
<1>7. ~ LeaveEVM /\ ~ Configured
  BY <1>1 DEF LeaveEVM, StopRequesting, SubtractStopped, EVMStopped, Configured, EVMConfigured, BUConfigured
<1>8. ~ CommandTA
  BY <1>1 DEF CommandTA, ConfigureTA, EnableTA, FailToEnableTA, HaltTA
<1>9. CASE Fault
  <2>1. UNCHANGED << ta, present, source, testStarted, evm, bu, fu, ru, rui >> /\ script' = << >>
    BY <1>9 DEF Fault, GiveUp, RestUnchanged, triggerVars, taVars, evmVars, farmVars, buVars, fuVars
  <2> QED
    BY <2>1 DEF Within
<1>10. CASE ChangeParameter
  <2>1. ~ Told("EVM", "Local")
    BY <1>2 DEF Told, ToApp
  <2>2. UNCHANGED << ta, present, source, testStarted, evm, bu, fu, ru, rui >> /\ Go
    BY <1>10, <2>1 DEF ChangeParameter, SetDropEventData, triggerVars, taVars, evmVars, farmVars, buVars, fuVars
  <2>3. script # << >> /\ Head(script) # Instruction(4)
    BY <1>10, <2>1, Lasts DEF ChangeParameter, Told, ToApp
  <2> QED
    BY <1>1, <2>2, <2>3, WithinOn
<1>11. CASE Work
  <2>1. UNCHANGED << present, testStarted, ru, rui, script >>
    BY <1>11 DEF Work, testerVars
  <2>2. UNCHANGED << ta, source, evm, bu, fu >>
    <3>1. CASE (EVMWork \/ TriggerCallback \/ TaCreditMsg) /\ UNCHANGED farmVars
      BY <3>1 DEF EVMWork, FirstRequest, TakeTrigger, AddCredit, AskForTriggers, SubtractPacking, FlushCredits, SubtractAll, MakeTrigger,
                  TriggerCallback, TaCreditMsg, taVars, evmVars, farmVars, buVars, fuVars
    <3>2. ~ BuildEvent(HasData) /\ ~ HandleDiscard
      BY <1>1 DEF BuildEvent, HandleDiscard
    <3>3. CASE FarmMessage
      <4>1. UNCHANGED << ta, source, evm >>
        BY <3>3, FarmTriggerSame DEF triggerVars, taVars, evmVars
      <4> QED
        BY <1>1, <3>3, <4>1, MessageModes
    <3> QED
      BY <1>11, <3>1, <3>2, <3>3 DEF Work, Farm, FarmMessage
  <2> QED
    BY <1>1, <2>1, <2>2, WithinOn
<1> QED
  BY <1>4, <1>5, <1>6, <1>7, <1>8, <1>9, <1>10, <1>11 DEF Next, Command

\* The states of the applications once the FU could not be enabled.
FUFailedModes ==
  /\ fu = "Failed" /\ "FU" \in present /\ ~ testStarted
  /\ evm = "Enabled" /\ bu = "Enabled" /\ ru = "Enabled"
  /\ rui = IF "RUI" \in present THEN "Enabled" ELSE "Halted"
  /\ IF "TA" \in present THEN source = "TA" /\ ta \in {"Enabled", "Suspended"} ELSE source = "Local" /\ ta = "Halted"

LEMMA FUFailedIs ==
  /\ FUFailed <=> FUFailedModes /\ (IF "TA" \in present THEN Within(1, 4) ELSE Within(1, 16))
  /\ (FUFailedModes /\ (IF "TA" \in present THEN Within(1, 4) ELSE Within(1, 16)))' => FUFailed'
BY DEF FUFailed, FUFailedModes

\* With a failed FU every start ends at the TA's Configure, or without a TA at that of
\* the FU.
LEMMA FUFailedStep ==
  ASSUME FUFailed, DataInv, TesterTypes, Next
  PROVE  FUFailed'
<1>1. PICK b \in {4, 16} : b = IF "TA" \in present THEN 4 ELSE 16
  OBVIOUS
<1>2. FUFailedModes /\ Within(1, b) /\ Has(b)
  BY <1>1, FUFailedIs DEF FUFailedModes, Has
<1>3. ASSUME UNCHANGED << fu, present, testStarted, evm, bu, ru, rui >>, ta' = ta \/ (ta \in {"Enabled", "Suspended"} /\ ta' \in {"Enabled", "Suspended"}),
             source' = source \/ ("TA" \notin present /\ source' = "Local"), Within(1, b)'
      PROVE  FUFailed'
  BY <1>1, <1>2, <1>3, FUFailedIs DEF FUFailedModes
<1>4. Instruction(b) \in {ToApp("TA", "Configure"), ToApp("FU", "Configure")} /\ ("TA" \notin present => Instruction(b) = ToApp("FU", "Configure"))
  BY <1>1, Lasts
<1>5. /\ ~ Told("EVM", "Halt") /\ ~ Told("BU", "Halt") /\ ~ Told("RU", "Halt") /\ ~ Told("RUI", "Halt") /\ ~ Told("TA", "Halt")
      /\ (Told("EVM", "Local") => "TA" \notin present)
      /\ (Told("TA", "Configure") \/ Told("TA", "Enable") => "TA" \in present)
      /\ (Told("RUI", "Configure") \/ Told("RUI", "Enable") => "RUI" \in present)
      /\ ~ (script # << >> /\ Head(script) = Done)
  BY <1>2, EarlyOrders
<1>6. b \in (1..26) \ {19} /\ 19 \notin 1..b /\ b \in 1..26 /\ 1 \in 1..27
  OBVIOUS
<1>7. ASSUME UNCHANGED present, UNCHANGED script \/ script' = << >> \/ (script # << >> /\ Go /\ Head(script) # Instruction(b))
      PROVE  Within(1, b)'
  BY <1>2, <1>6, <1>7, WithinOn
<1>8. CASE Start
  <2>1. UNCHANGED << ta, present, source, testStarted, evm, bu, fu, ru, rui >>
    BY <1>8 DEF Start, fuVars
  <2>2. Within(1, b)'
    BY <1>6, <1>8, WithinStart
  <2> QED
    BY <1>3, <2>1, <2>2
<1>9. ~ Stop
  BY <1>2 DEF Stop, FUFailedModes
<1>10. CASE Suspend \/ Resume
  <2>1. ta \in {"Enabled", "Suspended"} /\ ta' \in {"Enabled", "Suspended"} /\ UNCHANGED << present, source, testStarted, evm, bu, fu, ru, rui, script >>
    BY <1>10 DEF Suspend, Resume, SuspendTA, ResumeTA, SendHeldCredits, evmVars, farmVars, buVars, fuVars, testerVars
  <2> QED
    BY <1>3, <1>7, <2>1
<1>11. CASE Ignore
  <2>1. UNCHANGED << ta, present, source, testStarted, evm, bu, fu, ru, rui >> /\ Go
    BY <1>11 DEF Ignore, RestUnchanged, triggerVars, taVars, evmVars, farmVars, buVars, fuVars
  <2>2. script # << >> /\ Head(script) # Instruction(b)
    BY <1>4, <1>11 DEF Ignore, Told, ToApp
  <2> QED
    BY <1>3, <1>7, <2>1, <2>2
<1>12. ~ CommandEVM /\ ~ LeaveEVM
  BY <1>2, <1>5 DEF CommandEVM, LeaveEVM, ConfigureEVM, EnableEVM, StopRequesting, SubtractStopped, EVMStopped, FUFailedModes
<1>13. ~ CommandBU
  BY <1>2, <1>5 DEF CommandBU, ConfigureBU, EnableBU, FUFailedModes
<1>14. ~ CommandRU
  BY <1>2, <1>5 DEF CommandRU, Ignored, StateOf, FUFailedModes
<1>15. ~ CommandRUI
  BY <1>2, <1>5 DEF CommandRUI, Ignored, StateOf, FUFailedModes
<1>16. ~ CommandTA
  BY <1>2, <1>5 DEF CommandTA, ConfigureTA, EnableTA, FailToEnableTA, FUFailedModes
<1>17. ~ CommandFU
  BY <1>2 DEF CommandFU, ConfigureFU, EnableFU, FailToEnableFU, HaltFU, FUFailedModes
<1>18. CASE Fault
  <2>1. UNCHANGED << ta, present, source, testStarted, evm, bu, fu, ru, rui >> /\ script' = << >>
    BY <1>18 DEF Fault, GiveUp, RestUnchanged, triggerVars, taVars, evmVars, farmVars, buVars, fuVars
  <2> QED
    BY <1>3, <1>7, <2>1
<1>19. CASE ChangeParameter
  <2>1. UNCHANGED << ta, present, testStarted, evm, bu, fu, ru, rui >> /\ Go
    BY <1>19 DEF ChangeParameter, SetTriggerSource, SetDropEventData, triggerVars, taVars, evmVars, farmVars, buVars, fuVars
  <2>2. source' = source \/ ("TA" \notin present /\ source' = "Local")
    BY <1>5, <1>19 DEF ChangeParameter, SetTriggerSource, SetDropEventData, triggerVars, taVars, evmVars
  <2>3. script # << >> /\ Head(script) # Instruction(b)
    BY <1>4, <1>19 DEF ChangeParameter, Told, ToApp
  <2> QED
    BY <1>3, <1>7, <2>1, <2>2, <2>3
<1>20. ~ Configured
  BY <1>2 DEF Configured, EVMConfigured, BUConfigured, FUFailedModes
<1>21. CASE Wait
  <2>1. UNCHANGED << ta, present, source, testStarted, evm, bu, fu, ru, rui >> /\ Go
    BY <1>21 DEF Wait, RestUnchanged, triggerVars, taVars, evmVars, farmVars, buVars, fuVars
  <2>2. script # << >> /\ Head(script) # Instruction(b)
    BY <1>4, <1>21 DEF Wait, Sleep, ToApp
  <2> QED
    BY <1>3, <1>7, <2>1, <2>2
<1>22. ~ Finish
  BY <1>5 DEF Finish
<1>23. CASE Work
  <2>1. UNCHANGED << present, testStarted, ru, rui, script >>
    BY <1>23 DEF Work, testerVars
  <2>2. UNCHANGED << ta, source, evm, bu, fu >>
    <3>1. CASE (EVMWork \/ TriggerCallback \/ TaCreditMsg) /\ UNCHANGED farmVars
      BY <3>1 DEF EVMWork, FirstRequest, TakeTrigger, AddCredit, AskForTriggers, SubtractPacking, FlushCredits, SubtractAll, MakeTrigger,
                  TriggerCallback, TaCreditMsg, taVars, evmVars, farmVars, buVars, fuVars
    <3>2. CASE BuildEvent(HasData)
      BY <3>2 DEF BuildEvent, taVars, fuVars
    <3>3. CASE HandleDiscard
      BY <3>3, DataHandleDiscard DEF HandleDiscard, taVars, fuVars
    <3>4. CASE FarmMessage
      <4>1. UNCHANGED << ta, source, evm >>
        BY <3>4, FarmTriggerSame DEF triggerVars, taVars, evmVars
      <4> QED
        BY <1>2, <3>4, <4>1, MessageModes DEF FUFailedModes
    <3> QED
      BY <1>23, <3>1, <3>2, <3>3, <3>4 DEF Work, Farm, FarmMessage
  <2> QED
    BY <1>3, <1>7, <2>1, <2>2
<1> QED
  BY <1>8, <1>9, <1>10, <1>11, <1>12, <1>13, <1>14, <1>15, <1>16, <1>17, <1>18, <1>19, <1>20, <1>21, <1>22, <1>23 DEF Next, Command

-----------------------------------------------------------------------------
(* The filter unit that is gone.                                           *)

FUGoneModes ==
  /\ fu = "Gone" /\ "FU" \in present /\ testStarted
  /\ evm = "Halted" /\ bu \in {"Halted", "Failed"} /\ ru = "Halted" /\ rui = "Halted" /\ ta = "Halted"
  /\ source = IF "TA" \in present THEN "TA" ELSE "Local"

AllNow == TriggersOf(This) /\ EvmQueues /\ FarmOf(This) /\ BuQueues

LEMMA FUGoneIs ==
  /\ FUGone <=> FUGoneModes /\ AllNow /\ Within(20, 25)
  /\ (FUGoneModes /\ AllNow /\ Within(20, 25))' => FUGone'
BY DEF FUGone, FUGoneModes, AllNow

LEMMA AllNowTrigger ==
  ASSUME AllNow, DataInv, TriggerAction, UNCHANGED farmVars
  PROVE  AllNow'
<1>1. TriggersOf(This) /\ EvmQueues /\ FarmOf(This) /\ BuQueues /\ TriggerTypes
  BY DEF AllNow, DataInv
<1>2. TriggersOf(This)'
  BY <1>1, TriggersNow
<1>3. AllOf(This, triggers)
  BY <1>1 DEF TriggersOf
<1>4. EvmQueues'
  BY <1>1, <1>3, EvmQueuesNow
<1>5. FarmOf(This)' /\ BuQueues'
  BY <1>1, FarmPartsSame
<1> QED
  BY <1>2, <1>4, <1>5 DEF AllNow

LEMMA AllNowFarm ==
  ASSUME AllNow, DataInv, FarmMessage
  PROVE  AllNow'
<1>1. TriggersOf(This) /\ EvmQueues /\ FarmOf(This) /\ BuQueues /\ FarmTypes /\ EventsOnce
  BY DEF AllNow, DataInv
<1>2. FarmOf(This)' /\ BuQueues'
  BY <1>1, FarmNow
<1>3. TriggersOf(This)' /\ EvmQueues'
  BY <1>1, FarmTriggerSame, TriggerPartsSame
<1> QED
  BY <1>2, <1>3 DEF AllNow

LEMMA AllNowSame ==
  ASSUME AllNow, UNCHANGED << triggerVars, farmVars >>
  PROVE  AllNow'
<1>1. TriggersOf(This)' /\ EvmQueues' /\ FarmOf(This)' /\ BuQueues'
  BY TriggerPartsSame, FarmPartsSame DEF AllNow
<1> QED
  BY <1>1 DEF AllNow

\* Without the FU every stop ends at its Halt.
LEMMA FUGoneStep ==
  ASSUME FUGone, DataInv, TesterTypes, Next
  PROVE  FUGone'
<1>1. FUGoneModes /\ AllNow /\ Within(20, 25) /\ Has(25)
  BY FUGoneIs DEF FUGoneModes, Has
<1>2. script # << >> => Head(script) \in {ToApp(app, "Halt") : app \in {"RUI", "EVM", "BU", "RU", "TA", "FU"}}
  BY <1>1, LastOrders
<1>3. ASSUME UNCHANGED << fu, present, testStarted, evm, bu, ru, rui, ta, source >>, AllNow', Within(20, 25)'
      PROVE  FUGone'
  BY <1>1, <1>3, FUGoneIs DEF FUGoneModes
<1>4. ASSUME UNCHANGED present, UNCHANGED script \/ script' = << >> \/ (script # << >> /\ Go /\ Head(script) # Instruction(25))
      PROVE  Within(20, 25)'
  BY <1>1, <1>4, WithinOn
<1>5. Instruction(25) = ToApp("FU", "Halt")
  BY Lasts
<1>6. ~ Start /\ ~ Suspend /\ ~ Resume
  BY <1>1 DEF Start, Suspend, Resume, SuspendTA, ResumeTA, FUGoneModes
<1>7. CASE Stop
  <2>1. script' = StopTest /\ UNCHANGED << triggerVars, farmVars, present, ru, rui, testStarted >>
    BY <1>7 DEF Stop
  <2>2. UNCHANGED << evm, bu, fu, ta, source >>
    BY <2>1 DEF triggerVars, taVars, evmVars, farmVars, buVars, fuVars
  <2>3. script' = From(20)'
    BY <2>1, StopFromFirst, FromSame
  <2>4. Within(20, 25)'
    BY <2>3 DEF Within
  <2>5. AllNow'
    BY <1>1, <2>1, AllNowSame
  <2> QED
    BY <1>3, <2>1, <2>2, <2>4, <2>5
<1>8. CASE Ignore
  <2>1. UNCHANGED << ta, present, source, testStarted, evm, bu, fu, ru, rui, triggerVars, farmVars >> /\ Go
    BY <1>8 DEF Ignore, RestUnchanged, triggerVars, taVars, evmVars, farmVars, buVars, fuVars
  <2>2. script # << >> /\ Head(script) # Instruction(25)
    BY <1>5, <1>8 DEF Ignore, Told, ToApp
  <2>3. AllNow'
    BY <1>1, <2>1, AllNowSame
  <2> QED
    BY <1>3, <1>4, <2>1, <2>2, <2>3
<1>9. \A app, event : Told(app, event) => event = "Halt"
  BY <1>2 DEF Told, ToApp
<1>10. ~ CommandEVM /\ ~ LeaveEVM
  BY <1>1, <1>9 DEF CommandEVM, LeaveEVM, HaltEVM, StopRequesting, SubtractStopped, EVMStopped, FUGoneModes
<1>11. ~ CommandBU
  BY <1>1, <1>9 DEF CommandBU, HaltBU, FUGoneModes
<1>12. ~ CommandRU /\ ~ CommandRUI
  BY <1>1, <1>9 DEF CommandRU, CommandRUI, Ignored, StateOf, FUGoneModes
<1>13. CASE CommandTA
  <2>1. Told("TA", "Halt") /\ HaltTA /\ Go /\ RestUnchanged /\ UNCHANGED farmVars
    BY <1>9, <1>13 DEF CommandTA
  <2>2. UNCHANGED << ta, present, source, testStarted, evm, bu, fu, ru, rui >>
    BY <1>1, <2>1 DEF HaltTA, FUGoneModes, RestUnchanged, evmVars, farmVars, buVars, fuVars
  <2>3. script # << >> /\ Head(script) # Instruction(25)
    BY <1>5, <2>1 DEF Told, ToApp
  <2>4. AllNow'
    BY <1>1, <2>1, AllNowTrigger DEF TriggerAction
  <2> QED
    BY <1>3, <1>4, <2>1, <2>2, <2>3, <2>4
<1>14. ~ CommandFU
  BY <1>1 DEF CommandFU, ConfigureFU, EnableFU, FailToEnableFU, HaltFU, FUGoneModes
<1>15. CASE Fault
  <2>1. UNCHANGED << ta, present, source, testStarted, evm, bu, fu, ru, rui, triggerVars, farmVars >> /\ script' = << >>
    BY <1>15 DEF Fault, GiveUp, RestUnchanged, triggerVars, taVars, evmVars, farmVars, buVars, fuVars
  <2>2. AllNow'
    BY <1>1, <2>1, AllNowSame
  <2> QED
    BY <1>3, <1>4, <2>1, <2>2
<1>16. ~ ChangeParameter
  BY <1>9 DEF ChangeParameter
<1>17. ~ Configured
  BY <1>1 DEF Configured, EVMConfigured, BUConfigured, FUGoneModes
<1>18. ~ Wait /\ ~ Finish
  BY <1>2 DEF Wait, Finish, Sleep, Done, ToApp
<1>19. CASE Work
  <2>1. UNCHANGED << present, testStarted, ru, rui, script >>
    BY <1>19 DEF Work, testerVars
  <2>2. UNCHANGED << ta, source, evm, bu, fu >> /\ AllNow'
    <3>1. CASE (EVMWork \/ TriggerCallback \/ TaCreditMsg) /\ UNCHANGED farmVars
      <4>1. UNCHANGED << ta, source, evm, bu, fu >>
        BY <3>1 DEF EVMWork, FirstRequest, TakeTrigger, AddCredit, AskForTriggers, SubtractPacking, FlushCredits, SubtractAll, MakeTrigger,
                  TriggerCallback, TaCreditMsg, taVars, evmVars, farmVars, buVars, fuVars
      <4>2. TriggerAction
        BY <3>1 DEF EVMWork, TriggerAction
      <4> QED
        BY <1>1, <3>1, <4>1, <4>2, AllNowTrigger
    <3>2. ~ BuildEvent(HasData) /\ ~ HandleDiscard
      BY <1>1 DEF BuildEvent, HandleDiscard, FUGoneModes
    <3>3. CASE FarmMessage
      <4>1. UNCHANGED << ta, source, evm >>
        BY <3>3, FarmTriggerSame DEF triggerVars, taVars, evmVars
      <4>2. UNCHANGED << bu, fu >>
        BY <1>1, <3>3, MessageModes DEF FUGoneModes
      <4> QED
        BY <1>1, <3>3, <4>1, <4>2, AllNowFarm
    <3> QED
      BY <1>19, <3>1, <3>2, <3>3 DEF Work, Farm, FarmMessage
  <2> QED
    BY <1>3, <1>4, <2>1, <2>2
<1> QED
  BY <1>6, <1>7, <1>8, <1>10, <1>11, <1>12, <1>13, <1>14, <1>15, <1>16, <1>17, <1>18, <1>19 DEF Next, Command

\* Every step keeps the places.
LEMMA ControlStep ==
  ASSUME ControlInv, DataInv, TesterTypes, Next, InTime
  PROVE  ControlInv'
<1>1. CASE Goes
  BY <1>1, GoesStep
<1>2. CASE TAFailed
  BY <1>2, TAFailedStep DEF ControlInv
<1>3. CASE FUFailed
  BY <1>3, FUFailedStep DEF ControlInv
<1>4. CASE FUGone
  BY <1>4, FUGoneStep DEF ControlInv
<1> QED
  BY <1>1, <1>2, <1>3, <1>4 DEF ControlInv

-----------------------------------------------------------------------------
(* Every step keeps the data.                                              *)

\* An enabled EVM with a TA as its source has a TA that is enabled or suspended.
LEMMA EnabledTriggers ==
  ASSUME ControlInv, evm = "Enabled", source = "TA"
  PROVE  ta \in {"Enabled", "Suspended"}
<1>1. CASE Goes
  <2>1. PICK p \in 1..27 : Modes(p)
    BY <1>1 DEF Goes, At
  <2>2. EvmFits(p) /\ TaFits(p)
    BY <2>1 DEF Modes
  <2>3. p \in 1..6 \cup 22..27 \/ p \in 7..9 \/ p \in 10..11 \/ p \in 12..18 \/ p \in 19..21
    OBVIOUS
  <2>4. p \in 12..18 \/ p \in 19..21
    BY <2>2, <2>3 DEF EvmFits
  <2>5. "TA" \in present
    BY <2>2, <2>4 DEF TaFits
  <2> QED
    BY <2>2, <2>4, <2>5 DEF TaFits
<1>2. CASE TAFailed \/ FUFailed \/ FUGone
  BY <1>2 DEF TAFailed, FUFailed, FUGone
<1> QED
  BY <1>1, <1>2 DEF ControlInv

LEMMA DataTriggerQuiet ==
  ASSUME DataInv, ControlInv, TriggerAction, UNCHANGED farmVars, ta' = "Halted" => ta = "Halted", evm' = "Enabled" => evm = "Enabled"
  PROVE  DataInv'
<1>1. evm = "Enabled" /\ source = "TA" => ta \in {"Enabled", "Suspended"}
  BY EnabledTriggers
<1>2. HaltTA => ~ (evm = "Enabled" /\ source = "TA")
  BY <1>1 DEF HaltTA
<1>3. ~ EnableEVM
  BY DEF EnableEVM
<1> QED
  BY <1>1, <1>2, <1>3, DataTrigger

LEMMA DataEnableEVM ==
  ASSUME DataInv, ControlInv, Told("EVM", "Enable"), EnableEVM, UNCHANGED farmVars
  PROVE  DataInv'
<1>1. evm = "Ready" /\ TriggerAction
  BY DEF EnableEVM, TriggerAction
<1>2. Goes
  BY <1>1 DEF ControlInv, TAFailed, FUFailed, FUGone
<1>3. PICK p \in 1..27 : At(p) /\ Has(p)
  BY <1>2, NextInstruction DEF Goes
<1>4. p \in (1..26) \ {19} /\ Instruction(p) = ToApp("EVM", "Enable")
  BY <1>3, ToldAt
<1>5. p = 11
  BY <1>4, Places
<1>6. Modes(11) /\ MessagesFit(11)
  BY <1>3, <1>5 DEF At
<1>7. credits = << >> /\ triggers = << >> /\ held = << >>
  BY <1>6, HeldPlaces DEF MessagesFit, NoTriggers
<1>8. eventOf = << >>
  BY <1>6 DEF Modes, BuFits, DataInv, BuFacts
<1> QED
  BY <1>1, <1>7, <1>8, DataTrigger

LEMMA DataHaltTA ==
  ASSUME DataInv, ControlInv, Told("TA", "Halt"), HaltTA, UNCHANGED farmVars
  PROVE  DataInv'
<1>1. ~ (evm = "Enabled" /\ source = "TA")
  <2>1. CASE Goes
    <3>1. PICK p \in 1..27 : At(p) /\ Has(p)
      BY <2>1, NextInstruction DEF Goes
    <3>2. p \in (1..26) \ {19} /\ Instruction(p) = ToApp("TA", "Halt")
      BY <3>1, ToldAt
    <3>3. p = 24
      BY <3>2, Places
    <3> QED
      BY <3>1, <3>3 DEF At, Modes, EvmFits
  <2>2. CASE TAFailed \/ FUGone
    BY <2>2 DEF TAFailed, FUGone
  <2>3. CASE FUFailed
    <3>1. (Within(1, 4) /\ Has(4)) \/ (Within(1, 16) /\ Has(16))
      BY <2>3 DEF FUFailed, Has
    <3> QED
      BY <3>1, EarlyOrders
  <2> QED
    BY <2>1, <2>2, <2>3 DEF ControlInv
<1>2. TriggerAction /\ ~ EnableEVM
  BY DEF HaltTA, EnableEVM, TriggerAction, evmVars
<1>3. evm = "Enabled" /\ source = "TA" => ta \in {"Enabled", "Suspended"}
  BY EnabledTriggers
<1> QED
  BY <1>1, <1>2, <1>3, DataTrigger

LEMMA DataCommandQuiet ==
  ASSUME DataInv, FarmCommand, bu' = bu \/ bu' \in {"Configuring", "Halted"}, fu' # "Enabled" \/ fu' = fu
  PROVE  DataInv'
<1>1. ~ EnableBU /\ ~ EnableFU /\ ~ BUConfigured
  BY DEF EnableBU, EnableFU, BUConfigured
<1> QED
  BY <1>1, DataCommand

LEMMA DataEnableBU ==
  ASSUME DataInv, ControlInv, Told("BU", "Enable"), EnableBU
  PROVE  DataInv'
<1>1. bu = "Ready" /\ bu' = "Enabled" /\ FarmCommand
  BY DEF EnableBU, FarmCommand
<1>2. Goes
  BY <1>1 DEF ControlInv, TAFailed, FUFailed, FUGone
<1>3. PICK p \in 1..27 : At(p) /\ Has(p)
  BY <1>2, NextInstruction DEF Goes
<1>4. p \in (1..26) \ {19} /\ Instruction(p) = ToApp("BU", "Enable")
  BY <1>3, ToldAt
<1>5. p = 12
  BY <1>4, Places
<1>6. Modes(12) /\ MessagesFit(12)
  BY <1>3, <1>5 DEF At
<1>7. takes = << >> /\ discards = << >> /\ fu # "Enabled"
  BY <1>6 DEF MessagesFit, NoRequests, Modes, FuFits
<1>8. ~ EnableFU /\ ~ BUConfigured
  BY <1>1 DEF EnableFU, BUConfigured, buVars
<1> QED
  BY <1>1, <1>7, <1>8, DataCommand

LEMMA DataEnableFU ==
  ASSUME DataInv, ControlInv, Told("FU", "Enable"), EnableFU
  PROVE  DataInv'
<1>1. fu = "Ready" /\ bu' = bu /\ FarmCommand
  BY DEF EnableFU, FarmCommand, buVars
<1>2. Goes
  BY <1>1 DEF ControlInv, TAFailed, FUFailed, FUGone
<1>3. PICK p \in 1..27 : At(p) /\ Has(p)
  BY <1>2, NextInstruction DEF Goes
<1>4. p \in (1..26) \ {19} /\ Instruction(p) = ToApp("FU", "Enable")
  BY <1>3, ToldAt
<1>5. p = 17
  BY <1>4, Places
<1>6. MessagesFit(17)
  BY <1>3, <1>5 DEF At
<1>7. takes = << >> /\ allocates = << >> /\ requestFIFO = << >>
  BY <1>6 DEF MessagesFit, NoRequests
<1>8. ~ EnableBU /\ ~ BUConfigured
  BY <1>1 DEF EnableBU, BUConfigured
<1> QED
  BY <1>1, <1>7, <1>8, DataCommand

LEMMA DataBUConfigured ==
  ASSUME DataInv, ControlInv, BUConfigured
  PROVE  DataInv'
<1>1. bu = "Configuring" /\ bu' = "Ready" /\ FarmCommand
  BY DEF BUConfigured, FarmCommand
<1>2. Goes
  BY <1>1 DEF ControlInv, TAFailed, FUFailed, FUGone
<1>3. PICK p \in 1..27 : Modes(p)
  BY <1>2 DEF Goes, At
<1>4. p \in 1..7 \/ p \in 8..9 \/ p \in 10..12 \/ p \in 13..22 \/ p \in 23..25 \/ p \in 26..27
  OBVIOUS
<1>5. p \in 8..9
  BY <1>1, <1>3, <1>4 DEF Modes, BuFits, Broken
<1>6. evm \notin Processing
  BY <1>3, <1>5 DEF Modes, EvmFits, Processing
<1>7. ~ EnableFU /\ ~ EnableBU
  BY <1>1 DEF EnableFU, EnableBU, buVars
<1> QED
  BY <1>1, <1>6, <1>7, DataCommand

\* Every step keeps the data: the places tell that each command comes when it may.
LEMMA DataStep ==
  ASSUME DataInv, ControlInv, Next
  PROVE  DataInv'
<1>1. CASE Start
  BY <1>1, DataStart
<1>2. CASE Stop \/ Ignore \/ CommandRU \/ CommandRUI \/ Fault \/ Wait \/ Finish
  BY <1>2, DataSame DEF Stop, Ignore, CommandRU, CommandRUI, Fault, Wait, Finish
<1>3. CASE Suspend \/ Resume
  <2>1. TriggerAction /\ UNCHANGED farmVars /\ ta' # "Halted" /\ evm' = evm
    BY <1>3 DEF Suspend, Resume, SuspendTA, ResumeTA, SendHeldCredits, TriggerAction, evmVars
  <2> QED
    BY <2>1, DataTriggerQuiet
<1>4. CASE CommandEVM
  <2>1. CASE Told("EVM", "Enable") /\ EnableEVM
    BY <1>4, <2>1, DataEnableEVM DEF CommandEVM
  <2>2. CASE ConfigureEVM \/ HaltEVM
    <3>1. TriggerAction /\ UNCHANGED farmVars /\ ta' = ta /\ evm' # "Enabled"
      BY <1>4, <2>2 DEF CommandEVM, ConfigureEVM, HaltEVM, TriggerAction, taVars
    <3> QED
      BY <3>1, DataTriggerQuiet
  <2> QED
    BY <1>4, <2>1, <2>2 DEF CommandEVM
<1>5. CASE LeaveEVM
  <2>1. TriggerAction /\ UNCHANGED farmVars /\ ta' = ta /\ evm' # "Enabled"
    BY <1>5 DEF LeaveEVM, StopRequesting, SubtractStopped, EVMStopped, TriggerAction, taVars
  <2> QED
    BY <2>1, DataTriggerQuiet
<1>6. CASE CommandBU
  <2>1. CASE Told("BU", "Enable") /\ EnableBU
    BY <2>1, DataEnableBU
  <2>2. CASE ConfigureBU \/ HaltBU
    <3>1. FarmCommand /\ bu' \in {"Configuring", "Halted"} /\ fu' = fu
      BY <2>2 DEF ConfigureBU, HaltBU, FarmCommand, fuVars
    <3> QED
      BY <3>1, DataCommandQuiet
  <2> QED
    BY <1>6, <2>1, <2>2 DEF CommandBU
<1>7. CASE CommandTA
  <2>1. CASE Told("TA", "Halt") /\ HaltTA
    BY <1>7, <2>1, DataHaltTA DEF CommandTA
  <2>2. CASE ConfigureTA \/ EnableTA \/ FailToEnableTA
    <3>1. TriggerAction /\ UNCHANGED farmVars /\ ta' # "Halted" /\ evm' = evm
      BY <1>7, <2>2 DEF CommandTA, ConfigureTA, EnableTA, SendHeldCredits, FailToEnableTA, TriggerAction, evmVars
    <3> QED
      BY <3>1, DataTriggerQuiet
  <2> QED
    BY <1>7, <2>1, <2>2 DEF CommandTA
<1>8. CASE CommandFU
  <2>1. CASE Told("FU", "Enable") /\ EnableFU
    BY <2>1, DataEnableFU
  <2>2. CASE ConfigureFU \/ FailToEnableFU \/ HaltFU
    <3>1. FarmCommand /\ bu' = bu /\ fu' # "Enabled"
      BY <2>2 DEF ConfigureFU, FailToEnableFU, HaltFU, FarmCommand, buVars
    <3> QED
      BY <3>1, DataCommandQuiet
  <2> QED
    BY <1>8, <2>1, <2>2 DEF CommandFU
<1>9. CASE ChangeParameter
  <2>1. CASE SetTriggerSource /\ UNCHANGED farmVars
    <3>1. TriggerAction /\ ta' = ta /\ evm' = evm
      BY <2>1 DEF SetTriggerSource, TriggerAction, taVars
    <3> QED
      BY <2>1, <3>1, DataTriggerQuiet
  <2>2. CASE SetDropEventData
    <3>1. FarmCommand /\ bu' = bu /\ fu' = fu
      BY <2>2 DEF SetDropEventData, FarmCommand, fuVars
    <3> QED
      BY <3>1, DataCommandQuiet
  <2>3. CASE UNCHANGED << triggerVars, farmVars >>
    BY <2>3, DataSame
  <2> QED
    BY <1>9, <2>1, <2>2, <2>3 DEF ChangeParameter
<1>10. CASE Configured
  <2>1. CASE EVMConfigured /\ UNCHANGED farmVars
    <3>1. TriggerAction /\ ta' = ta /\ evm' # "Enabled"
      BY <2>1 DEF EVMConfigured, TriggerAction, taVars
    <3> QED
      BY <2>1, <3>1, DataTriggerQuiet
  <2>2. CASE BUConfigured
    BY <2>2, DataBUConfigured
  <2>3. CASE UNCHANGED << triggerVars, farmVars >>
    BY <2>3, DataSame
  <2> QED
    BY <1>10, <2>1, <2>2, <2>3 DEF Configured
<1>11. CASE Work
  <2>1. CASE (EVMWork \/ TriggerCallback \/ TaCreditMsg) /\ UNCHANGED farmVars
    <3>1. TriggerAction
      BY <2>1 DEF EVMWork, TriggerAction
    <3>2. UNCHANGED << evm, ta >>
      BY <2>1 DEF EVMWork, FirstRequest, TakeTrigger, AddCredit, AskForTriggers, SubtractPacking, FlushCredits, SubtractAll, MakeTrigger,
                  TriggerCallback, TaCreditMsg, taVars, evmVars
    <3> QED
      BY <2>1, <3>1, <3>2, DataTriggerQuiet
  <2>2. CASE BuildEvent(HasData)
    BY <2>2, DataBuildEvent
  <2>3. CASE HandleDiscard
    BY <2>3, DataHandleDiscard
  <2>4. CASE FarmMessage
    BY <2>4, DataMessage
  <2> QED
    BY <1>11, <2>1, <2>2, <2>3, <2>4 DEF Work, Farm, FarmMessage
<1> QED
  BY <1>1, <1>2, <1>3, <1>4, <1>5, <1>6, <1>7, <1>8, <1>9, <1>10, <1>11 DEF Next, Command

-----------------------------------------------------------------------------
(* The tester.                                                             *)

LEMMA TroubleStays ==
  ASSUME TriggerAction \/ FarmMessage \/ FarmCommand \/ HandleDiscard \/ BuildEvent(HasData)
  PROVE  trouble' = trouble
<1>1. CASE TriggerAction
  BY <1>1 DEF TriggerAction, FirstRequest, TakeTrigger, AddCredit, AskForTriggers, SubtractPacking, FlushCredits, SubtractAll, MakeTrigger,
        TriggerCallback, ConfigureTA, FailToEnableTA, SuspendTA, HaltTA, SetTriggerSource, ConfigureEVM, EVMConfigured, EnableEVM, HaltEVM,
        StopRequesting, SubtractStopped, EVMStopped, TaCreditMsg, SendHeldCredits
<1>2. CASE FarmMessage \/ FarmCommand
  BY <1>2, FarmTriggerSame DEF triggerVars
<1>3. CASE HandleDiscard \/ BuildEvent(HasData)
  BY <1>3 DEF HandleDiscard, BuildEvent
<1> QED
  BY <1>1, <1>2, <1>3

LEMMA TesterTypesStep ==
  ASSUME TesterTypes, Next
  PROVE  TesterTypes'
<1>1. {ru, rui} \subseteq {"Halted", "Configuring", "Ready", "Enabled"} /\ inputSource \in {"FBO", "Local"} /\ testStarted \in BOOLEAN
  BY DEF TesterTypes
<1>2. CASE Start
  BY <1>2 DEF Start, TesterTypes
<1>3. CASE Stop \/ Ignore \/ Fault \/ Wait
  BY <1>3 DEF Stop, Ignore, Fault, Wait, RestUnchanged, triggerVars, TesterTypes
<1>4. CASE Suspend \/ Resume
  <2>1. TriggerAction /\ UNCHANGED testerVars
    BY <1>4 DEF Suspend, Resume, ResumeTA, TriggerAction
  <2> QED
    BY <2>1, TroubleStays DEF TesterTypes, testerVars
<1>5. CASE CommandEVM \/ LeaveEVM \/ CommandTA
  <2>1. TriggerAction /\ RestUnchanged
    BY <1>5 DEF CommandEVM, LeaveEVM, CommandTA, EnableTA, TriggerAction
  <2> QED
    BY <2>1, TroubleStays DEF TesterTypes, RestUnchanged
<1>6. CASE CommandBU \/ CommandFU
  <2>1. FarmCommand /\ RestUnchanged
    BY <1>6 DEF CommandBU, CommandFU, FarmCommand
  <2> QED
    BY <2>1, TroubleStays DEF TesterTypes, RestUnchanged
<1>7. CASE CommandRU
  <2>1. PICK event \in {"Configure", "Enable", "Halt"} : ru' = StateAfter(event)
    BY <1>7 DEF CommandRU
  <2>2. ru' \in {"Configuring", "Enabled", "Halted"}
    BY <2>1, RUStates
  <2>3. UNCHANGED << trouble, present, rui, inputSource, testStarted >>
    BY <1>7 DEF CommandRU, triggerVars
  <2> QED
    BY <2>2, <2>3 DEF TesterTypes
<1>8. CASE CommandRUI
  <2>1. PICK event \in {"Configure", "Enable", "Halt"} : rui' = StateAfter(event)
    BY <1>8 DEF CommandRUI
  <2>2. rui' \in {"Configuring", "Enabled", "Halted"}
    BY <2>1, RUStates
  <2>3. UNCHANGED << trouble, present, ru, inputSource, testStarted >>
    BY <1>8 DEF CommandRUI, triggerVars
  <2> QED
    BY <2>2, <2>3 DEF TesterTypes
<1>9. CASE ChangeParameter
  <2>1. UNCHANGED << present, ru, rui, testStarted >> /\ inputSource' \in {inputSource, "Local"}
    BY <1>9 DEF ChangeParameter
  <2>2. trouble' = trouble
    BY <1>9, TroubleStays DEF ChangeParameter, TriggerAction, FarmCommand, triggerVars
  <2> QED
    BY <2>1, <2>2 DEF TesterTypes
<1>10. CASE Configured
  <2>1. UNCHANGED << present, inputSource, testStarted >> /\ ru' \in {ru, "Ready"} /\ rui' \in {rui, "Ready"}
    BY <1>10 DEF Configured, testerVars
  <2>2. trouble' = trouble
    BY <1>10, TroubleStays DEF Configured, TriggerAction, FarmCommand, triggerVars
  <2> QED
    BY <2>1, <2>2 DEF TesterTypes
<1>11. CASE Finish
  <2>1. UNCHANGED << present, trouble, ru, rui, inputSource >> /\ testStarted' = ~ testStarted
    BY <1>11 DEF Finish, triggerVars
  <2>2. testStarted' \in BOOLEAN
    BY <2>1
  <2> QED
    BY <2>1, <2>2 DEF TesterTypes
<1>12. CASE Work
  <2>1. TriggerAction \/ FarmMessage \/ HandleDiscard \/ BuildEvent(HasData)
    BY <1>12 DEF Work, EVMWork, Farm, FarmMessage, TriggerAction
  <2>2. UNCHANGED testerVars
    BY <1>12 DEF Work
  <2> QED
    BY <2>1, <2>2, TroubleStays DEF TesterTypes, testerVars
<1> QED
  BY <1>2, <1>3, <1>4, <1>5, <1>6, <1>7, <1>8, <1>9, <1>10, <1>11, <1>12 DEF Next, Command

LEMMA ControlSame ==
  ASSUME ControlInv, UNCHANGED vars
  PROVE  ControlInv'
<1>1. UNCHANGED << triggerVars, farmVars >> /\ UNCHANGED << present, ru, rui, inputSource, script, testStarted >>
  BY DEF vars, testerVars
<1>2. UNCHANGED << evm, bu, fu, ta, source >>
  BY <1>1 DEF triggerVars, taVars, evmVars, farmVars, buVars, fuVars
<1>3. ASSUME NEW a \in 1..27, NEW b \in (1..26) \ {19}, Within(a, b), Has(b), 19 \notin a..b PROVE Within(a, b)'
  BY <1>1, <1>3, WithinOn
<1>4. CASE Goes
  <2>1. PICK p \in 1..27 : At(p)
    BY <1>4 DEF Goes
  <2>2. Modes(p)' /\ MessagesFit(p)'
    BY <1>1, <1>2, <2>1, ModesSame, MessagesSame DEF At
  <2> QED
    BY <1>1, <2>1, <2>2, Remains DEF ControlInv
<1>5. CASE TAFailed
  <2>1. Within(1, 4)'
    BY <1>3, <1>5 DEF TAFailed, Has
  <2> QED
    BY <1>1, <1>2, <1>5, <2>1 DEF TAFailed, ControlInv
<1>6. CASE FUFailed
  <2>1. IF "TA" \in present THEN Within(1, 4)' ELSE Within(1, 16)'
    BY <1>3, <1>6 DEF FUFailed, Has
  <2>2. FUFailedModes'
    BY <1>1, <1>2, <1>6, FUFailedIs DEF FUFailedModes
  <2>3. (IF "TA" \in present THEN Within(1, 4) ELSE Within(1, 16))'
    BY <1>1, <2>1
  <2> QED
    BY <2>2, <2>3, FUFailedIs DEF ControlInv
<1>7. CASE FUGone
  <2>1. Within(20, 25)'
    BY <1>3, <1>7 DEF FUGone, Has
  <2>2. FUGoneModes'
    BY <1>1, <1>2, <1>7, FUGoneIs DEF FUGoneModes
  <2>3. AllNow'
    BY <1>1, <1>7, FUGoneIs, AllNowSame
  <2> QED
    BY <2>1, <2>2, <2>3, FUGoneIs DEF ControlInv
<1> QED
  BY <1>4, <1>5, <1>6, <1>7 DEF ControlInv

LEMMA ControlStarts ==
  ASSUME Init
  PROVE  ControlInv
<1>1. evm = "Halted" /\ bu = "Halted" /\ ru = "Halted" /\ rui = "Halted" /\ ta = "Halted" /\ fu = "Halted" /\ source = "TA"
      /\ ~ testStarted /\ script = << >>
  BY DEF Init, TriggerInit, FarmInit
<1>2. Modes(27)
  <2>1. EvmFits(27) /\ BuFits(27) /\ RuFits(27) /\ RuiFits(27) /\ TaFits(27) /\ FuFits(27)
    BY <1>1 DEF EvmFits, BuFits, RuFits, RuiFits, TaFits, FuFits
  <2> QED
    BY <1>1, <2>1 DEF Modes
<1>3. MessagesFit(27)
  BY DEF MessagesFit
<1>4. At(27)
  BY <1>1, <1>2, <1>3, NothingLeft DEF At
<1> QED
  BY <1>4 DEF Goes, ControlInv

-----------------------------------------------------------------------------
(* How long a script is.                                                   *)

LEMMA LengthOfThen ==
  ASSUME NEW i \in Instructions, NEW q \in Seq(Instructions)
  PROVE  Len(<< i >> \o q) = Len(q) + 1
OBVIOUS

LEMMA LengthNext ==
  ASSUME NEW p \in (1..26) \ {19}
  PROVE  /\ Len(From(p)) \in Nat /\ Len(From(p + 1)) \in Nat
         /\ Len(From(p)) = (IF Has(p) THEN Len(From(p + 1)) + 1 ELSE Len(From(p + 1)))
<1>1. p \in 1..27 /\ p + 1 \in 1..27
  OBVIOUS
<1>2. From(p) \in Seq(Instructions) /\ From(p + 1) \in Seq(Instructions)
  BY <1>1, FromType
<1>3. Instruction(p) \in Instructions /\ From(p) = IF Has(p) THEN << Instruction(p) >> \o From(p + 1) ELSE From(p + 1)
  BY FromNext
<1>4. Len(<< Instruction(p) >> \o From(p + 1)) = Len(From(p + 1)) + 1
  BY <1>2, <1>3, LengthOfThen
<1> QED
  BY <1>2, <1>3, <1>4

\* No rest of a script is longer than the start.
LEMMA LongestFirst ==
  ASSUME NEW p \in 1..27
  PROVE  Len(From(p)) <= Len(From(1)) /\ 0 <= Len(From(1))
<1> DEFINE L == [k \in 1..27 |-> Len(From(k))]
<1>1. ASSUME NEW k \in (1..26) \ {19}
      PROVE  L[k] \in Nat /\ L[k + 1] \in Nat /\ L[k + 1] <= L[k] /\ L[k] <= L[k + 1] + 1 /\ (Has(k) => L[k] = L[k + 1] + 1)
  <2>1. k \in 1..27 /\ k + 1 \in 1..27
    OBVIOUS
  <2>2. L[k] = Len(From(k)) /\ L[k + 1] = Len(From(k + 1))
    BY <2>1
  <2>3. /\ Len(From(k)) \in Nat /\ Len(From(k + 1)) \in Nat
        /\ Len(From(k)) = (IF Has(k) THEN Len(From(k + 1)) + 1 ELSE Len(From(k + 1)))
    BY LengthNext
  <2> HIDE DEF L
  <2>4. CASE Has(k)
    <3>1. L[k] \in Nat /\ L[k + 1] \in Nat /\ L[k] = L[k + 1] + 1
      BY <2>2, <2>3, <2>4
    <3> QED
      BY ONLY <3>1
  <2>5. CASE ~ Has(k)
    <3>1. L[k] \in Nat /\ L[k + 1] \in Nat /\ L[k] = L[k + 1]
      BY <2>2, <2>3, <2>5
    <3> QED
      BY <3>1, <2>5
  <2> QED
    BY <2>4, <2>5
<1>2. L[19] = 0 /\ L[27] = 0
  BY NothingLeft
<1>3. Has(6) /\ Has(7) /\ Has(8) /\ Has(9) /\ Has(10) /\ Has(11) /\ Has(12)
  BY DEF Has
<1> HIDE DEF L
<1>4. /\ L[1] >= L[2] /\ L[2] >= L[3] /\ L[3] >= L[4] /\ L[4] >= L[5] /\ L[5] >= L[6]
      /\ L[1] \in Nat /\ L[2] \in Nat /\ L[3] \in Nat /\ L[4] \in Nat /\ L[5] \in Nat /\ L[6] \in Nat
  BY <1>1
<1>5. /\ L[6] = L[7] + 1 /\ L[7] = L[8] + 1 /\ L[8] = L[9] + 1 /\ L[9] = L[10] + 1 /\ L[10] = L[11] + 1
      /\ L[11] = L[12] + 1 /\ L[12] = L[13] + 1
      /\ L[7] \in Nat /\ L[8] \in Nat /\ L[9] \in Nat /\ L[10] \in Nat /\ L[11] \in Nat /\ L[12] \in Nat /\ L[13] \in Nat
  BY <1>1, <1>3
<1>6. /\ L[13] >= L[14] /\ L[14] >= L[15] /\ L[15] >= L[16] /\ L[16] >= L[17] /\ L[17] >= L[18] /\ L[18] >= 0
      /\ L[14] \in Nat /\ L[15] \in Nat /\ L[16] \in Nat /\ L[17] \in Nat /\ L[18] \in Nat
  BY <1>1
<1>7. /\ L[20] <= L[21] + 1 /\ L[21] <= L[22] + 1 /\ L[22] <= L[23] + 1 /\ L[23] <= L[24] + 1 /\ L[24] <= L[25] + 1
      /\ L[25] <= L[26] + 1 /\ L[26] <= L[27] + 1
      /\ L[20] \in Nat /\ L[21] \in Nat /\ L[22] \in Nat /\ L[23] \in Nat /\ L[24] \in Nat /\ L[25] \in Nat /\ L[26] \in Nat
  BY <1>1
<1>8. /\ L[1] >= 7 /\ L[2] <= L[1] /\ L[3] <= L[1] /\ L[4] <= L[1] /\ L[5] <= L[1] /\ L[6] <= L[1] /\ L[7] <= L[1] /\ L[8] <= L[1]
      /\ L[9] <= L[1] /\ L[10] <= L[1] /\ L[11] <= L[1] /\ L[12] <= L[1] /\ L[13] <= L[1] /\ L[14] <= L[1] /\ L[15] <= L[1]
      /\ L[16] <= L[1] /\ L[17] <= L[1] /\ L[18] <= L[1]
  BY ONLY <1>4, <1>5, <1>6
<1>9. L[20] <= 7 /\ L[21] <= 7 /\ L[22] <= 7 /\ L[23] <= 7 /\ L[24] <= 7 /\ L[25] <= 7 /\ L[26] <= 7
  BY ONLY <1>2, <1>7
<1>10. \/ p = 1 \/ p = 2 \/ p = 3 \/ p = 4 \/ p = 5 \/ p = 6 \/ p = 7 \/ p = 8 \/ p = 9 \/ p = 10 \/ p = 11 \/ p = 12 \/ p = 13
       \/ p = 14 \/ p = 15 \/ p = 16 \/ p = 17 \/ p = 18 \/ p = 19 \/ p = 20 \/ p = 21 \/ p = 22 \/ p = 23 \/ p = 24 \/ p = 25
       \/ p = 26 \/ p = 27
  OBVIOUS
<1>11. \A k \in 20..26 : L[k] <= L[1]
  <2>1. L[20] <= L[1] /\ L[21] <= L[1] /\ L[22] <= L[1] /\ L[23] <= L[1] /\ L[24] <= L[1] /\ L[25] <= L[1] /\ L[26] <= L[1]
    BY ONLY <1>4, <1>7, <1>8, <1>9
  <2> QED
    BY <2>1
<1>12. L[19] <= L[1] /\ L[27] <= L[1] /\ 0 <= L[1]
  BY ONLY <1>2, <1>4
<1>13. L[p] <= L[1]
  BY ONLY <1>4, <1>8, <1>10, <1>11, <1>12
<1> QED
  BY <1>12, <1>13 DEF L

-----------------------------------------------------------------------------

TestInv == DataInv /\ TesterTypes /\ ControlInv

\* The invariant: the data, the types of the tester's variables, and the place.
THEOREM Inductive == Spec => []TestInv
<1>1. Init => TestInv
  BY DataStarts, ControlStarts DEF Init, TestInv, TesterTypes
<1>2. TestInv /\ [Next /\ InTime]_vars => TestInv'
  <2>1. CASE Next /\ InTime
    BY <2>1, DataStep, TesterTypesStep, ControlStep DEF TestInv
  <2>2. CASE UNCHANGED vars
    <3>1. UNCHANGED << triggerVars, farmVars >> /\ UNCHANGED << trouble, present, ru, rui, inputSource, testStarted >>
      BY <2>2 DEF vars, testerVars, triggerVars
    <3>2. TestInv => DataInv' /\ ControlInv'
      BY <2>2, <3>1, DataSame, ControlSame DEF TestInv
    <3>3. TestInv => TesterTypes'
      BY <3>1 DEF TestInv, TesterTypes
    <3> QED
      BY <3>2, <3>3 DEF TestInv
  <2> QED
    BY <2>1, <2>2
<1> QED
  BY <1>1, <1>2, PTL DEF Spec

-----------------------------------------------------------------------------
(* What the invariant says in the words of the model.                      *)

\* A script is never longer than that of a start.
LEMMA ScriptLength ==
  ASSUME ControlInv
  PROVE  Len(script) <= Len(StartTest)
<1>1. Len(StartTest) = Len(From(1))
  BY StartFromFirst
<1>2. script = << >> \/ \E p \in 1..27 : script = From(p)
  <2>1. CASE Goes
    BY <2>1 DEF Goes, At
  <2>2. CASE TAFailed
    BY <2>2 DEF TAFailed, Within
  <2>3. CASE FUFailed
    BY <2>3 DEF FUFailed, Within
  <2>4. CASE FUGone
    BY <2>4 DEF FUGone, Within
  <2> QED
    BY <2>1, <2>2, <2>3, <2>4 DEF ControlInv
<1>3. CASE script = << >>
  <2>1. 0 <= Len(From(1))
    <3>1. 1 \in 1..27
      OBVIOUS
    <3> QED
      BY <3>1, LongestFirst
  <2>2. Len(script) = 0
    BY <1>3
  <2> QED
    BY <1>1, <2>1, <2>2
<1>4. CASE \E p \in 1..27 : script = From(p)
  BY <1>1, <1>4, LongestFirst
<1> QED
  BY <1>2, <1>3, <1>4

LEMMA TypesHold ==
  ASSUME TestInv
  PROVE  TypeOK
<1>1. TriggerTypes /\ FarmTypes /\ BuilderCount /\ TesterTypes /\ ControlInv
  BY DEF TestInv, DataInv
<1>2. TriggerTypeOK
  BY <1>1 DEF TriggerTypes, BuilderCount, TriggerTypeOK
<1>3. FarmTypeOK
  BY <1>1 DEF FarmTypes, FarmTypeOK, Takes, Allocates, Discards
<1>4. Len(script) <= Len(StartTest)
  BY <1>1, ScriptLength
<1> QED
  BY <1>1, <1>2, <1>3, <1>4 DEF TypeOK, TesterTypes

\* A started test is at one of the places 19 to 26, or has lost its filter unit.
LEMMA WhereStarted ==
  ASSUME ControlInv, testStarted
  PROVE  FUGone \/ \E p \in 19..26 : At(p)
<1>1. ~ TAFailed /\ ~ FUFailed
  BY DEF TAFailed, FUFailed
<1>2. ASSUME NEW p \in 1..27, At(p)
      PROVE  p \in 19..26
  BY <1>2 DEF At, Modes
<1> QED
  BY <1>1, <1>2 DEF ControlInv, Goes

\* All messages and all in the queues of a started test are of it.
LEMMA OnlyThis ==
  ASSUME ControlInv, testStarted
  PROVE  TriggersOf(This) /\ EvmQueues /\ FarmOf(This) /\ BuQueues
<1>1. CASE FUGone
  BY <1>1 DEF FUGone
<1>2. CASE \E p \in 19..26 : At(p)
  <2>1. PICK p \in 19..26 : At(p)
    BY <1>2
  <2>2. p \in 10..26
    OBVIOUS
  <2> QED
    BY <2>1, <2>2 DEF At, MessagesFit
<1> QED
  BY <1>1, <1>2, WhereStarted

LEMMA NothingLeftBehind ==
  ASSUME TestInv
  PROVE  NothingOfAnEarlierTest
<1> SUFFICES ASSUME testStarted
             PROVE  /\ \A t \in ToSet(triggerFIFO) \cup ToSet(triggers) \cup ToSet(held) \cup ToSet(events) : t = This
                    /\ \A t \in ToSet(requestFIFO) \cup {eventOf[r] : r \in DOMAIN eventOf} : t = This
                    /\ ~ FromEarlier(credits) /\ ~ FromEarlier(takes) /\ ~ FromEarlier(allocates) /\ ~ FromEarlier(discards)
  BY DEF NothingOfAnEarlierTest
<1>1. TriggersOf(This) /\ EvmQueues /\ FarmOf(This) /\ BuQueues
  BY OnlyThis DEF TestInv
<1>2. /\ AllOf(This, triggerFIFO) /\ AllOf(This, triggers) /\ AllOf(This, held) /\ AllOf(This, events)
      /\ AllOf(This, requestFIFO) /\ AllOf(This, eventOf)
  BY <1>1 DEF TriggersOf, EvmQueues, BuQueues
<1>3. AllMarked(This, credits) /\ AllMarked(This, takes) /\ AllMarked(This, allocates) /\ AllMarked(This, discards)
  BY <1>1 DEF TriggersOf, FarmOf
<1>4. \A t \in ToSet(triggerFIFO) \cup ToSet(triggers) \cup ToSet(held) \cup ToSet(events) : t = This
  BY <1>2 DEF AllOf, ToSet
<1>5. \A t \in ToSet(requestFIFO) \cup {eventOf[r] : r \in DOMAIN eventOf} : t = This
  BY <1>2 DEF AllOf, ToSet
<1>6. ~ FromEarlier(credits) /\ ~ FromEarlier(takes) /\ ~ FromEarlier(allocates) /\ ~ FromEarlier(discards)
  BY <1>3 DEF AllMarked, FromEarlier
<1> QED
  BY <1>4, <1>5, <1>6

\* Every variable keeps its type: counters stay in their range, the EVM has no more
\* events than ids, free resources of the BU hold no event, and the script is never
\* longer than that of a start.
THEOREM TypeCorrect == Spec => []TypeOK
<1>1. TestInv => TypeOK
  BY TypesHold
<1> QED
  BY <1>1, Inductive, PTL

\* The credits of the EVM are conserved while it asks the TA (TAhandler.cc,
\* ta/Application.cc:1382), and the requests of the FU while BU and FU work
\* (FUproxy.cc:84, fu/Application.cc:1461-1500): no credit or request is given twice,
\* forgotten, or answered in another test.
THEOREM PromisesCorrect == Spec => []PromisesConserved
<1>1. TestInv => PromisesConserved
  BY RequestsAreConserved DEF TestInv, DataInv, PromisesConserved
<1> QED
  BY <1>1, Inductive, PTL

\* In a started test no trigger, event, request or discard of an earlier test is left,
\* in no queue and in no message (tester/Application.cc:1404-1522, 1850-1904),
\* whatever failed before.
THEOREM EarlierTestsGone == Spec => []NothingOfAnEarlierTest
<1>1. TestInv => NothingOfAnEarlierTest
  BY NothingLeftBehind
<1> QED
  BY <1>1, Inductive, PTL
=============================================================================
