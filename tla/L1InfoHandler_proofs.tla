------------------------ MODULE L1InfoHandler_proofs ------------------------
(***************************************************************************)
(* Proofs about L1InfoHandler for any lumi sections, triggers and trigger  *)
(* bits, any sizes of the FIFOs, and any number of runs and of triggers.   *)
(***************************************************************************)
EXTENDS L1InfoHandler, FiniteSetTheorems, TLAPS

-----------------------------------------------------------------------------
(* Types.                                                                  *)

LEMMA QueueType ==
  ASSUME NEW S, NEW q \in Seq(S), NEW e \in S
  PROVE  /\ Append(q, e) \in Seq(S) /\ Len(Append(q, e)) = Len(q) + 1
         /\ q # << >> => Head(q) \in S /\ Tail(q) \in Seq(S) /\ Len(Tail(q)) = Len(q) - 1
  OBVIOUS

LEMMA FunctionIsSequence ==
  ASSUME NEW S, NEW n \in Nat, NEW f \in [1 .. n -> S]
  PROVE  f \in Seq(S) /\ Len(f) = n
  OBVIOUS

LEMMA ElementType ==
  ASSUME NEW S, NEW q \in Seq(S), NEW i \in DOMAIN q
  PROVE  q[i] \in S
  OBVIOUS

LEMMA ExtractType ==
  ASSUME NEW trigger \in Triggers, NEW ls \in LumiSections, run \in Nat
  PROVE  ExtractInfoFromGTP(trigger, ls) \in L1Informations
BY TriggersAssumption DEF ExtractInfoFromGTP, L1Informations

\* A new sum is one of a lumi section after the previous one.
LEMMA NewType ==
  ASSUME NEW info \in L1Informations, NEW previous \in Nat, info.ls > previous
  PROVE  NewLumiSectionInfo(info, previous) \in LumiSectionInfos
<1>1. info.run \in Nat /\ info.ls \in LumiSections /\ info.ls \in Nat
  BY LumiSectionsAssumption DEF L1Informations
<1>2. info.ls - previous - 1 \in Nat
  BY <1>1
<1>3. [type \in 1 .. 3 |-> 0] \in [1 .. 3 -> Nat] /\ [b \in Bits |-> 0] \in [Bits -> Nat]
  OBVIOUS
<1> QED
  BY <1>1, <1>2, <1>3 DEF NewLumiSectionInfo, LumiSectionInfos

LEMMA CountsType ==
  ASSUME NEW ls \in LumiSectionInfos, NEW info \in L1Informations
  PROVE  AddEventCounts(ls, info) \in LumiSectionInfos
<1>1. /\ ls.eventCount + 1 \in Nat
      /\ ls.triggers \in [1 .. 3 -> Nat]
  BY DEF LumiSectionInfos
<1>2. \A type \in 1 .. 3 : ls.triggers[type] + (IF type = info.eventType THEN 1 ELSE 0) \in Nat
  BY <1>1
<1>3. [type \in 1 .. 3 |-> ls.triggers[type] + (IF type = info.eventType THEN 1 ELSE 0)] \in [1 .. 3 -> Nat]
  BY <1>2
<1> QED
  BY <1>1, <1>3 DEF AddEventCounts, LumiSectionInfos

LEMMA BitsType ==
  ASSUME NEW ls \in LumiSectionInfos, NEW info \in L1Informations
  PROVE  AddTriggerBits(ls, info) \in LumiSectionInfos
<1>1. ls.bits \in [Bits -> Nat]
  BY DEF LumiSectionInfos
<1>2. \A b \in Bits : ls.bits[b] + (IF b \in info.bits THEN 1 ELSE 0) \in Nat
  BY <1>1
<1>3. [b \in Bits |-> ls.bits[b] + (IF b \in info.bits THEN 1 ELSE 0)] \in [Bits -> Nat]
  BY <1>2
<1> QED
  BY <1>3 DEF AddTriggerBits, LumiSectionInfos

LEMMA AddedType ==
  ASSUME NEW ls \in LumiSectionInfos, l1Info \in L1Informations
  PROVE  Added(ls) \in LumiSectionInfos
BY CountsType, BitsType DEF Added

LEMMA PreviousType ==
  ASSUME TypeOK
  PROVE  PreviousLumiSection \in Nat
BY LumiSectionsAssumption DEF TypeOK, PreviousLumiSection, LumiSectionInfos

LEMMA SkippedType ==
  ASSUME NEW ls \in LumiSectionInfos, ls.skipped < ls.ls
  PROVE  SkippedLumiSections(ls) \in Seq([run : Nat, ls : Nat])
<1>1. ls.skipped \in Nat /\ ls.ls \in Nat /\ ls.run \in Nat
  BY LumiSectionsAssumption DEF LumiSectionInfos
<1>2. \A i \in 1 .. ls.skipped : [run |-> ls.run, ls |-> ls.ls - ls.skipped + i - 1] \in [run : Nat, ls : Nat]
  BY <1>1
<1> QED
  <2> DEFINE Entry(i) == [run |-> ls.run, ls |-> ls.ls - ls.skipped + i - 1]
  <2> HIDE DEF Entry
  <2>1. \A i \in 1 .. ls.skipped : Entry(i) \in [run : Nat, ls : Nat]
    BY <1>2 DEF Entry
  <2>2. [i \in 1 .. ls.skipped |-> Entry(i)] \in [1 .. ls.skipped -> [run : Nat, ls : Nat]]
    BY <2>1
  <2>3. [i \in 1 .. ls.skipped |-> Entry(i)] \in Seq([run : Nat, ls : Nat])
    BY <1>1, <2>2, FunctionIsSequence
  <2> QED
    BY <2>3 DEF SkippedLumiSections, Entry

-----------------------------------------------------------------------------
\* The threads: what the state machine, the L1Info loop and the L1Scalers loop say of
\* the data in their hands.
ThreadInv ==
  /\ (evmState = "Leaving") = (leaving # None)
  /\ l1Info # None => l1Locked
  /\ idle <=> scalers = "asleep"
  /\ lsInfo # None => scalers = "sending"

TypeInv == TypeOK /\ ThreadInv

\* The variables keep their types and the FIFOs their capacities.
THEOREM TypeInvariant == Spec => []TypeInv
<1>1. Init => TypeOK
  <2> SUFFICES ASSUME Init PROVE TypeOK
    OBVIOUS
  <2>1. 0 <= L1InfoFIFOCapacity /\ 0 <= LumiSectionInfoFIFOCapacity
    BY CapacityAssumption
  <2>2. l1Locked \in BOOLEAN /\ idle \in BOOLEAN
    BY Zenon DEF Init
  <2>3. /\ l1InfoFIFO \in Seq(L1Informations) /\ lumiSectionInfoFIFO \in Seq(LumiSectionInfos)
        /\ accepted \in Seq(L1Informations) /\ published \in Seq(LumiSectionInfos)
        /\ lost \in Seq(LumiSectionInfos) /\ skipped \in Seq([run : Nat, ls : Nat])
        /\ Len(l1InfoFIFO) = 0 /\ Len(lumiSectionInfoFIFO) = 0
    BY DEF Init
  <2> QED
    BY <2>1, <2>2, <2>3 DEF Init, TypeOK
<1>2. TypeInv /\ [Next]_vars => TypeOK'
  <2> SUFFICES ASSUME TypeOK, ThreadInv, [Next]_vars PROVE TypeOK'
    BY DEF TypeInv
  <2> USE DEF TypeOK, evm, current, publisher
  <2>1. ASSUME NEW trigger \in Triggers, NEW ls \in LumiSections, ExtractL1Info(trigger, ls) PROVE TypeOK'
    BY <2>1, ExtractType, QueueType DEF ExtractL1Info
  <2>2. ASSUME NEW ls \in LumiSections, LumiSectionDecreases(ls) PROVE TypeOK'
    BY <2>2 DEF LumiSectionDecreases, Events
  <2>3. CASE EnqL1Info
    BY <2>3, QueueType, CapacityAssumption DEF EnqL1Info
  <2>4. CASE ProcessL1Info
    BY <2>4 DEF ProcessL1Info
  <2>5. CASE DeqL1Info
    BY <2>5, QueueType, CapacityAssumption DEF DeqL1Info
  <2>6. CASE NoMoreL1Info
    BY <2>6, ZenonT(60) DEF NoMoreL1Info
  <2>7. CASE BeginLumiSection
    <3> DEFINE new == NewLumiSectionInfo(l1Info, PreviousLumiSection)
    <3>1. l1Info \in L1Informations /\ l1Info.ls \in Nat
      BY <2>7, LumiSectionsAssumption DEF BeginLumiSection, L1Informations
    <3>2. new \in LumiSectionInfos /\ new.skipped < new.ls
      <4>1. new.ls = l1Info.ls /\ new.skipped = l1Info.ls - PreviousLumiSection - 1
        BY DEF NewLumiSectionInfo
      <4> QED
        BY <2>7, <3>1, <4>1, PreviousType, NewType DEF BeginLumiSection
    <3>3. SkippedLumiSections(new) \in Seq([run : Nat, ls : Nat]) /\ Added(new) \in LumiSectionInfos
      BY <3>1, <3>2, SkippedType, AddedType
    <3>4. skipped' \in Seq([run : Nat, ls : Nat]) /\ currentLumiSectionInfo' \in LumiSectionInfos
      BY <2>7, <3>3 DEF BeginLumiSection
    <3>5. lumiSectionInfoFIFO' \in Seq(LumiSectionInfos) /\ Len(lumiSectionInfoFIFO') <= LumiSectionInfoFIFOCapacity
      BY <2>7, QueueType, CapacityAssumption DEF BeginLumiSection
    <3> QED
      BY <2>7, <3>4, <3>5 DEF BeginLumiSection
  <2>8. CASE AddLumiSectionInfo
    BY <2>8, AddedType DEF AddLumiSectionInfo
  <2>9. CASE SendL1Scalers
    BY <2>9 DEF SendL1Scalers
  <2>10. CASE DeqLumiSectionInfo
    BY <2>10, QueueType, CapacityAssumption DEF DeqLumiSectionInfo
  <2>11. CASE UpdateL1Scalers
    BY <2>11, QueueType DEF UpdateL1Scalers
  <2>12. CASE UpdateFails
    BY <2>12, QueueType DEF UpdateFails
  <2>13. CASE NoMoreLumiSectionInfo
    BY <2>13 DEF NoMoreLumiSectionInfo
  <2>14. ASSUME NEW i \in 1 .. 3, Empty(i) PROVE TypeOK'
    BY <2>14 DEF Empty
  <2>15. CASE NotEmpty
    BY <2>15 DEF NotEmpty
  <2>16. CASE Clear
    BY <2>16 DEF Clear
  <2>17. CASE Configure
    BY <2>17 DEF Configure
  <2>18. CASE Enable
    BY <2>18 DEF Enable
  <2>19. CASE Stop
    BY <2>19 DEF Stop
  <2>21. ASSUME NEW event \in Events, Leave(event) PROVE TypeOK'
    <3>1. evmState' = "Leaving" /\ leaving' \in Events /\ emptySoFar' = 0
      BY <2>21 DEF Leave, Events
    <3> QED
      BY <2>21, <3>1 DEF Leave
  <2>22. CASE EnqCurrentLumiSectionInfo
    <3>1. evmState' \in {"Halted", "Clearing", "FlushFailed", "Failed"}
      <4>1. leaving \in Events /\ evmState' = NextState(leaving)
        BY <2>22 DEF EnqCurrentLumiSectionInfo, ThreadInv
      <4> QED
        BY <4>1 DEF NextState, Events
    <3>2. lumiSectionInfoFIFO' \in Seq(LumiSectionInfos) /\ Len(lumiSectionInfoFIFO') <= LumiSectionInfoFIFOCapacity
      BY <2>22, QueueType, CapacityAssumption DEF EnqCurrentLumiSectionInfo
    <3>3. late' \subseteq Nat
      BY <2>22 DEF EnqCurrentLumiSectionInfo
    <3> QED
      BY <2>22, <3>1, <3>2, <3>3 DEF EnqCurrentLumiSectionInfo
  <2>23. CASE ClearCommand
    BY <2>23 DEF ClearCommand
  <2>24. CASE HaltCommand
    BY <2>24 DEF HaltCommand
  <2>25. CASE UNCHANGED vars
    BY <2>25 DEF vars
  <2> QED
    BY <2>1, <2>2, <2>3, <2>4, <2>5, <2>6, <2>7, <2>8, <2>9, <2>10, <2>11, <2>12, <2>13, <2>14, <2>15,
       <2>16, <2>17, <2>18, <2>19, <2>21, <2>22, <2>23, <2>24, <2>25 DEF Next
<1>3. Init => ThreadInv
  BY DEF Init, ThreadInv
<1>4. TypeInv /\ [Next]_vars => ThreadInv'
  <2> SUFFICES ASSUME TypeOK, ThreadInv, [Next]_vars PROVE ThreadInv'
    BY DEF TypeInv
  <2> USE NoneAssumption DEF ThreadInv, evm, current, publisher
  <2>1. ASSUME NEW trigger \in Triggers, NEW ls \in LumiSections, ExtractL1Info(trigger, ls) PROVE ThreadInv'
    BY <2>1 DEF ExtractL1Info
  <2>2. ASSUME NEW ls \in LumiSections, LumiSectionDecreases(ls) PROVE ThreadInv'
    BY <2>2 DEF LumiSectionDecreases, Processing, Events
  <2>3. CASE EnqL1Info \/ ProcessL1Info \/ DeqL1Info \/ NoMoreL1Info \/ BeginLumiSection \/ AddLumiSectionInfo
    BY <2>3 DEF EnqL1Info, ProcessL1Info, DeqL1Info, NoMoreL1Info, BeginLumiSection, AddLumiSectionInfo
  <2>4. CASE SendL1Scalers \/ DeqLumiSectionInfo \/ UpdateL1Scalers \/ UpdateFails \/ NoMoreLumiSectionInfo
    <3>1. idle' <=> scalers' = "asleep"
      <4>1. CASE SendL1Scalers
        BY <4>1 DEF SendL1Scalers
      <4>2. CASE UpdateFails \/ NoMoreLumiSectionInfo
        BY <4>2 DEF UpdateFails, NoMoreLumiSectionInfo
      <4> QED
        BY <2>4, <4>1, <4>2 DEF DeqLumiSectionInfo, UpdateL1Scalers
    <3>2. lsInfo' # None => scalers' = "sending"
      BY <2>4 DEF SendL1Scalers, DeqLumiSectionInfo, UpdateL1Scalers, UpdateFails, NoMoreLumiSectionInfo
    <3> QED
      BY <2>4, <3>1, <3>2 DEF SendL1Scalers, DeqLumiSectionInfo, UpdateL1Scalers, UpdateFails, NoMoreLumiSectionInfo
  <2>5. ASSUME NEW i \in 1 .. 3, Empty(i) PROVE ThreadInv'
    BY <2>5 DEF Empty
  <2>6. CASE NotEmpty \/ Clear \/ Configure \/ Enable \/ Stop
    BY <2>6 DEF NotEmpty, Clear, Configure, Enable, Stop
  <2>7. ASSUME NEW event \in Events, Leave(event) PROVE ThreadInv'
    <3>1. evmState' = "Leaving" /\ leaving' # None
      BY <2>7 DEF Leave, Events
    <3> QED
      BY <2>7, <3>1 DEF Leave
  <2>8. CASE EnqCurrentLumiSectionInfo
    <3>1. leaving \in Events /\ evmState' = NextState(leaving)
      BY <2>8 DEF EnqCurrentLumiSectionInfo, TypeOK
    <3>2. evmState' # "Leaving"
      BY <3>1 DEF NextState, Events
    <3> QED
      BY <2>8, <3>2 DEF EnqCurrentLumiSectionInfo
  <2>9. CASE ClearCommand \/ HaltCommand \/ UNCHANGED vars
    BY <2>9 DEF ClearCommand, HaltCommand, vars
  <2> QED
    BY <2>1, <2>2, <2>3, <2>4, <2>5, <2>6, <2>7, <2>8, <2>9 DEF Next
<1> QED
  BY <1>1, <1>2, <1>3, <1>4, PTL DEF Spec, TypeInv

THEOREM TypeCorrect == Spec => []TypeOK
BY TypeInvariant, PTL DEF TypeInv

-----------------------------------------------------------------------------
(***************************************************************************)
(* clear().  While the EVM is not Processing, and its last run was not    *)
(* late, there is nothing to be added to a sum, as Processing was left     *)
(* with the L1Info FIFO empty, under the mutex of the L1Info loop.  So     *)
(* what empty() has found out stays true: the FIFO of lumi sections does   *)
(* not fill again, and once idle_ is set the L1Scalers loop has nothing in *)
(* its hands and gets nothing.                                             *)
(***************************************************************************)
Active == evmState \in {"Enabled", "Draining", "Leaving"}

NothingToAdd  == extracted = None /\ l1InfoFIFO = << >> /\ l1Info = None /\ currentLumiSectionInfo = None
NothingToSend == lumiSectionInfoFIFO = << >> /\ lsInfo = None

ClearInv ==
  /\ emptySoFar > 0 => Asking
  /\ run \notin late =>
       /\ ~Active => NothingToAdd
       /\ evmState = "Clearing" /\ emptySoFar >= 2 => lumiSectionInfoFIFO = << >>
       /\ evmState = "Clearing" /\ emptySoFar = 3 => NothingToSend
       /\ evmState = "Ready" => NothingToSend /\ lastSeenLumiSection = 0

LEMMA ClearStep ==
  ASSUME TypeInv, ClearInv, [Next]_vars
  PROVE  ClearInv'
<1> USE NoneAssumption DEF TypeInv, ThreadInv, ClearInv, Active, NothingToAdd, NothingToSend,
          evm, current, publisher
<1>0. emptySoFar \in 0 .. 3
  BY DEF TypeOK
<1>1. ASSUME NEW trigger \in Triggers, NEW ls \in LumiSections, ExtractL1Info(trigger, ls) PROVE ClearInv'
  BY <1>0, <1>1 DEF ExtractL1Info, Processing, Asking, Events
<1>2. ASSUME NEW ls \in LumiSections, LumiSectionDecreases(ls) PROVE ClearInv'
  BY <1>2 DEF LumiSectionDecreases, Processing, Asking
<1>3. CASE EnqL1Info \/ ProcessL1Info \/ NoMoreL1Info
  BY <1>3 DEF EnqL1Info, ProcessL1Info, NoMoreL1Info, Asking, TypeOK
<1>4. CASE DeqL1Info
  BY <1>4 DEF DeqL1Info, Asking
<1>5. CASE BeginLumiSection \/ AddLumiSectionInfo
  BY <1>5 DEF BeginLumiSection, AddLumiSectionInfo, Asking
<1>6. CASE SendL1Scalers
  BY <1>6 DEF SendL1Scalers, Asking
<1>7. CASE DeqLumiSectionInfo
  BY <1>7 DEF DeqLumiSectionInfo, Asking
<1>8. CASE UpdateL1Scalers \/ UpdateFails \/ NoMoreLumiSectionInfo
  BY <1>8 DEF UpdateL1Scalers, UpdateFails, NoMoreLumiSectionInfo, Asking
<1>9. ASSUME NEW i \in 1 .. 3, Empty(i) PROVE ClearInv'
  <2>1. emptySoFar' = i /\ UNCHANGED << extracted, l1InfoFIFO, l1Info, currentLumiSectionInfo,
                                       lumiSectionInfoFIFO, lsInfo, evmState, lastSeenLumiSection, run, late >>
    BY <1>9 DEF Empty
  <2>2. run \notin late /\ evmState = "Clearing" /\ i >= 2 => lumiSectionInfoFIFO = << >>
    BY <1>9 DEF Empty, EmptyCondition
  <2>3. run \notin late /\ evmState = "Clearing" /\ i = 3 => lsInfo = None
    BY <1>9 DEF Empty, EmptyCondition
  <2>4. Asking
    BY <1>9 DEF Empty
  <2> QED
    BY <2>1, <2>2, <2>3, <2>4 DEF Asking
<1>10. CASE NotEmpty
  BY <1>10 DEF NotEmpty
<1>11. CASE Clear
  BY <1>11 DEF Clear, Asking
<1>12. CASE Configure \/ Enable \/ Stop
  BY <1>0, <1>12 DEF Configure, Enable, Stop, Asking
<1>14. ASSUME NEW event \in Events, Leave(event) PROVE ClearInv'
  BY <1>14 DEF Leave, Processing, Asking
<1>15. CASE EnqCurrentLumiSectionInfo
  <2>1. leaving \in Events /\ evmState' = NextState(leaving)
    BY <1>15 DEF EnqCurrentLumiSectionInfo, TypeOK
  <2>2. evmState' \in {"Halted", "Clearing", "FlushFailed", "Failed"}
    BY <2>1 DEF NextState, Events
  <2>3. run' = run /\ (run \notin late' => NothingToAdd')
    BY <1>15 DEF EnqCurrentLumiSectionInfo
  <2>4. emptySoFar' = 0
    BY <1>15 DEF EnqCurrentLumiSectionInfo, Asking, TypeOK
  <2> QED
    BY <2>2, <2>3, <2>4
<1>16. CASE ClearCommand \/ HaltCommand
  BY <1>0, <1>16 DEF ClearCommand, HaltCommand, Asking
<1>17. CASE UNCHANGED vars
  BY <1>17 DEF vars, Asking
<1> QED
  BY <1>1, <1>2, <1>3, <1>4, <1>5, <1>6, <1>7, <1>8, <1>9, <1>10, <1>11, <1>12, <1>14, <1>15,
     <1>16, <1>17 DEF Next

LEMMA ClearInvariant == Spec => []ClearInv
<1>1. Init => ClearInv
  BY DEF Init, ClearInv, Active, NothingToAdd, NothingToSend, Asking
<1>2. TypeInv /\ ClearInv /\ [Next]_vars => ClearInv'
  BY ClearStep
<1> QED
  BY <1>1, <1>2, TypeInvariant, PTL DEF Spec

\* When clear() has returned after a run that was not late, nothing of it or of an
\* earlier run is left in the handler, its FIFOs or its loops.
THEOREM ClearIsComplete == Spec => []OnlyALateRunLeavesData
<1>1. ClearInv => OnlyALateRunLeavesData
  BY DEF ClearInv, OnlyALateRunLeavesData, Active, NothingToAdd, NothingToSend
<1> QED
  BY <1>1, ClearInvariant, PTL

\* A run that was late stays among those that were.
LEMMA LateGrows ==
  ASSUME [Next]_vars, late' = {}
  PROVE  late = {}
<1>1. CASE EnqCurrentLumiSectionInfo
  BY <1>1 DEF EnqCurrentLumiSectionInfo
<1>2. CASE UNCHANGED late
  BY <1>2
<1> USE DEF evm
<1>3. CASE \E trigger \in Triggers, ls \in LumiSections : ExtractL1Info(trigger, ls)
  BY <1>2, <1>3 DEF ExtractL1Info
<1>4. CASE \E ls \in LumiSections : LumiSectionDecreases(ls)
  BY <1>2, <1>4 DEF LumiSectionDecreases
<1>5. CASE EnqL1Info \/ ProcessL1Info \/ DeqL1Info \/ NoMoreL1Info \/ BeginLumiSection \/ AddLumiSectionInfo
  BY <1>2, <1>5 DEF EnqL1Info, ProcessL1Info, DeqL1Info, NoMoreL1Info, BeginLumiSection, AddLumiSectionInfo
<1>6. CASE SendL1Scalers \/ DeqLumiSectionInfo \/ UpdateL1Scalers \/ UpdateFails \/ NoMoreLumiSectionInfo
  BY <1>2, <1>6 DEF SendL1Scalers, DeqLumiSectionInfo, UpdateL1Scalers, UpdateFails, NoMoreLumiSectionInfo
<1>7. CASE \E i \in 1 .. 3 : Empty(i)
  BY <1>2, <1>7 DEF Empty
<1>8. CASE NotEmpty \/ Clear \/ Configure \/ Enable \/ Stop
  BY <1>2, <1>8 DEF NotEmpty, Clear, Configure, Enable, Stop
<1>9. CASE \E event \in Events : Leave(event)
  BY <1>2, <1>9 DEF Leave
<1>10. CASE ClearCommand \/ HaltCommand \/ UNCHANGED vars
  BY <1>2, <1>10 DEF ClearCommand, HaltCommand, vars
<1> QED
  BY <1>1, <1>3, <1>4, <1>5, <1>6, <1>7, <1>8, <1>9, <1>10 DEF Next

\* As long as no run was late: what is true while the EVM is not Processing.
OnTimeInv ==
  /\ ~Active => NothingToAdd
  /\ evmState = "Ready" => NothingToSend

LEMMA OnTime ==
  ASSUME ClearInv, late = {}
  PROVE  OnTimeInv
BY DEF ClearInv, OnTimeInv

-----------------------------------------------------------------------------
(***************************************************************************)
(* Where the information that was accepted is: summed up, in the hands of  *)
(* the L1Info loop, in its FIFO, or with the work loop of the EVM, in this *)
(* order.  It was accepted in the order of runs and lumi sections, and     *)
(* what is not yet summed up is of the present run.                        *)
(***************************************************************************)
One(x)  == IF x = None THEN 0 ELSE 1
Pending == One(l1Info) + Len(l1InfoFIFO) + One(extracted)
Summed  == Len(accepted) - Pending

NotBefore(a, b) == b.run < a.run \/ (b.run = a.run /\ b.ls <= a.ls)

AcceptedInv ==
  /\ Summed \in Nat
  /\ l1Info # None => l1Info = accepted[Summed + 1]
  /\ \A i \in DOMAIN l1InfoFIFO : l1InfoFIFO[i] = accepted[Summed + One(l1Info) + i]
  /\ extracted # None => extracted = accepted[Len(accepted)]
  /\ \A i \in DOMAIN accepted :
       /\ accepted[i].run <= run
       /\ i > Summed => accepted[i].run = run
       /\ Active /\ accepted[i].run = run => accepted[i].ls <= lastSeenLumiSection
  /\ \A i, j \in DOMAIN accepted : i < j => NotBefore(accepted[j], accepted[i])

LEMMA AcceptedType ==
  ASSUME TypeInv
  PROVE  /\ \A i \in DOMAIN accepted : /\ accepted[i] \in L1Informations
                                       /\ accepted[i].run \in Nat /\ accepted[i].ls \in Nat
         /\ DOMAIN accepted = 1 .. Len(accepted) /\ Len(accepted) \in Nat
         /\ DOMAIN l1InfoFIFO = 1 .. Len(l1InfoFIFO) /\ Len(l1InfoFIFO) \in Nat
         /\ run \in Nat /\ lastSeenLumiSection \in Nat
         /\ One(l1Info) \in {0, 1} /\ One(extracted) \in {0, 1} /\ Pending \in Nat
<1>1. accepted \in Seq(L1Informations) /\ l1InfoFIFO \in Seq(L1Informations)
  BY DEF TypeInv, TypeOK
<1>2. \A i \in DOMAIN accepted : accepted[i] \in L1Informations
  BY <1>1
<1>3. \A info \in L1Informations : info.run \in Nat /\ info.ls \in Nat
  BY LumiSectionsAssumption DEF L1Informations
<1>4. Len(l1InfoFIFO) \in Nat /\ Len(accepted) \in Nat
  BY <1>1
<1>5. One(l1Info) \in {0, 1} /\ One(extracted) \in {0, 1}
  BY DEF One
<1>6. run \in Nat /\ lastSeenLumiSection \in Nat
  BY LumiSectionsAssumption DEF TypeInv, TypeOK
<1> QED
  BY <1>1, <1>2, <1>3, <1>4, <1>5, <1>6 DEF Pending

\* Information is accepted in order: of a run that is not earlier, and in it of a
\* lumi section that is not earlier (verifyLumiSection).
LEMMA AcceptOne ==
  ASSUME TypeInv, AcceptedInv, NEW trigger \in Triggers, NEW ls \in LumiSections, ExtractL1Info(trigger, ls)
  PROVE  AcceptedInv' /\ Summed' = Summed /\ \A i \in 1 .. Summed : accepted'[i] = accepted[i]
<1> DEFINE n == Len(accepted)
<1>1. PICK info \in L1Informations : /\ accepted' = Append(accepted, info) /\ extracted' = info /\ info # None
                                     /\ info.run = run /\ info.ls = ls
  <2>1. ExtractInfoFromGTP(trigger, ls) \in L1Informations
    BY ExtractType DEF TypeInv, TypeOK
  <2> QED
    BY <2>1, NoneAssumption DEF ExtractL1Info, ExtractInfoFromGTP
<1>2. /\ lastSeenLumiSection' = ls /\ lastSeenLumiSection <= ls /\ ls \in Nat /\ Active
      /\ extracted = None
      /\ UNCHANGED << l1Info, l1InfoFIFO, run, evmState >>
  BY LumiSectionsAssumption DEF ExtractL1Info, VerifyLumiSection, evm, Processing, Active
<1>3. /\ \A i \in 1 .. n : accepted'[i] = accepted[i]
      /\ accepted'[n + 1] = info /\ Len(accepted') = n + 1 /\ DOMAIN accepted' = 1 .. n + 1
  BY <1>1 DEF TypeInv, TypeOK
<1>4. One(extracted) = 0 /\ One(extracted)' = 1 /\ One(l1Info)' = One(l1Info)
  BY <1>1, <1>2 DEF One
<1>5. Pending' = Pending + 1 /\ Summed' = Summed
  BY <1>2, <1>3, <1>4, AcceptedType DEF Pending, Summed
<1>6. Summed + One(l1Info) + Len(l1InfoFIFO) = n /\ Summed \in Nat
  BY <1>4, AcceptedType DEF Pending, Summed, AcceptedInv
<1>7. l1Info' # None => l1Info' = accepted'[Summed' + 1]
  <2>1. l1Info # None => Summed + 1 \in 1 .. n
    BY <1>6, AcceptedType DEF One
  <2> QED
    BY <1>2, <1>3, <1>5, <2>1 DEF AcceptedInv
<1>8. \A i \in DOMAIN l1InfoFIFO' : l1InfoFIFO'[i] = accepted'[Summed' + One(l1Info)' + i]
  <2>1. \A i \in DOMAIN l1InfoFIFO : Summed + One(l1Info) + i \in 1 .. n
    BY <1>6, AcceptedType
  <2> QED
    BY <1>2, <1>3, <1>4, <1>5, <2>1 DEF AcceptedInv
<1>9. extracted' # None => extracted' = accepted'[Len(accepted')]
  BY <1>1, <1>3
<1>10. \A i \in DOMAIN accepted' :
         /\ accepted'[i].run <= run'
         /\ i > Summed' => accepted'[i].run = run'
         /\ Active' /\ accepted'[i].run = run' => accepted'[i].ls <= lastSeenLumiSection'
  <2> SUFFICES ASSUME NEW i \in 1 .. n + 1
               PROVE  /\ accepted'[i].run <= run
                      /\ i > Summed => accepted'[i].run = run
                      /\ accepted'[i].run = run => accepted'[i].ls <= ls
    BY <1>2, <1>3, <1>5
  <2>1. CASE i = n + 1
    BY <1>1, <1>2, <1>3, <2>1, AcceptedType
  <2>2. CASE i \in 1 .. n
    BY <1>2, <1>3, <2>2, AcceptedType DEF AcceptedInv
  <2> QED
    BY <2>1, <2>2, AcceptedType
<1>11. \A i, j \in DOMAIN accepted' : i < j => NotBefore(accepted'[j], accepted'[i])
  <2> SUFFICES ASSUME NEW i \in 1 .. n, NEW j \in 1 .. n + 1, i < j
               PROVE  NotBefore(accepted'[j], accepted'[i])
    BY <1>3, AcceptedType
  <2>1. CASE j = n + 1
    <3>1. accepted[i].run <= run /\ (accepted[i].run = run => accepted[i].ls <= ls)
      BY <1>2, AcceptedType DEF AcceptedInv
    <3>2. accepted[i].run \in Nat /\ run \in Nat
      BY AcceptedType
    <3> QED
      BY <1>1, <1>3, <2>1, <3>1, <3>2 DEF NotBefore
  <2>2. CASE j \in 1 .. n
    BY <1>3, <2>2, AcceptedType DEF AcceptedInv
  <2> QED
    BY <2>1, <2>2, AcceptedType
<1>12. \A i \in 1 .. Summed : accepted'[i] = accepted[i]
  <2>1. \A i \in 1 .. Summed : i \in 1 .. n
    BY <1>6, AcceptedType
  <2> QED
    BY <1>3, <2>1
<1> QED
  BY <1>5, <1>6, <1>7, <1>8, <1>9, <1>10, <1>11, <1>12 DEF AcceptedInv

LEMMA QueueOne ==
  ASSUME TypeInv, AcceptedInv, EnqL1Info
  PROVE  AcceptedInv' /\ Summed' = Summed
<1> DEFINE m == Len(l1InfoFIFO)
<1>1. /\ extracted # None /\ extracted' = None /\ l1InfoFIFO' = Append(l1InfoFIFO, extracted)
      /\ UNCHANGED << l1Info, run, evmState, accepted, lastSeenLumiSection >>
  BY DEF EnqL1Info, evm
<1>2. /\ DOMAIN l1InfoFIFO' = 1 .. m + 1 /\ Len(l1InfoFIFO') = m + 1
      /\ \A i \in 1 .. m : l1InfoFIFO'[i] = l1InfoFIFO[i]
      /\ l1InfoFIFO'[m + 1] = extracted
  BY <1>1 DEF TypeInv, TypeOK
<1>3. One(extracted) = 1 /\ One(extracted)' = 0 /\ One(l1Info)' = One(l1Info)
  BY <1>1 DEF One
<1>4. Summed' = Summed /\ Summed + One(l1Info) + m + 1 = Len(accepted)
  BY <1>1, <1>2, <1>3, AcceptedType DEF Pending, Summed
<1>5. \A i \in DOMAIN l1InfoFIFO' : l1InfoFIFO'[i] = accepted'[Summed' + One(l1Info)' + i]
  <2>1. \A i \in 1 .. m : l1InfoFIFO[i] = accepted[Summed + One(l1Info) + i]
    BY AcceptedType DEF AcceptedInv
  <2>2. extracted = accepted[Summed + One(l1Info) + (m + 1)]
    <3>1. Summed + One(l1Info) + (m + 1) = Len(accepted)
      BY <1>4, AcceptedType DEF AcceptedInv
    <3> QED
      BY <1>1, <3>1 DEF AcceptedInv
  <2>3. \A i \in 1 .. m + 1 : i \in 1 .. m \/ i = m + 1
    BY AcceptedType
  <2> QED
    BY <1>1, <1>2, <1>3, <1>4, <2>1, <2>2, <2>3
<1>6. Active' = Active
  BY <1>1 DEF Active
<1> QED
  BY <1>1, <1>4, <1>5, <1>6 DEF AcceptedInv

LEMMA TakeOne ==
  ASSUME TypeInv, AcceptedInv, DeqL1Info
  PROVE  AcceptedInv' /\ Summed' = Summed
<1> DEFINE m == Len(l1InfoFIFO)
<1>1. /\ l1Info = None /\ l1InfoFIFO # << >> /\ l1Info' = l1InfoFIFO[1] /\ l1InfoFIFO' = Tail(l1InfoFIFO)
      /\ UNCHANGED << extracted, run, evmState, accepted, lastSeenLumiSection >>
  BY DEF DeqL1Info, evm
<1>2. l1InfoFIFO \in Seq(L1Informations) /\ m > 0 /\ m \in Nat
  BY <1>1 DEF TypeInv, TypeOK
<1>3. l1Info' # None
  BY <1>1, <1>2, NoneAssumption
<1>4. /\ DOMAIN l1InfoFIFO' = 1 .. m - 1 /\ Len(l1InfoFIFO') = m - 1
      /\ \A i \in 1 .. m - 1 : l1InfoFIFO'[i] = l1InfoFIFO[i + 1]
  BY <1>1, <1>2
<1>5. One(l1Info) = 0 /\ One(l1Info)' = 1 /\ One(extracted)' = One(extracted)
  BY <1>1, <1>3 DEF One
<1>6. Summed' = Summed
  BY <1>1, <1>2, <1>4, <1>5, AcceptedType DEF Pending, Summed
<1>7. \A i \in 1 .. m : l1InfoFIFO[i] = accepted[Summed + i]
  BY <1>5, AcceptedType DEF AcceptedInv
<1>8. l1Info' = accepted[Summed + 1]
  BY <1>1, <1>2, <1>7
<1>9. \A i \in DOMAIN l1InfoFIFO' : l1InfoFIFO'[i] = accepted'[Summed' + One(l1Info)' + i]
  <2> SUFFICES ASSUME NEW i \in 1 .. m - 1 PROVE l1InfoFIFO'[i] = accepted[Summed + 1 + i]
    BY <1>1, <1>4, <1>5, <1>6
  <2>1. i + 1 \in 1 .. m /\ Summed + (i + 1) = Summed + 1 + i
    BY <1>2 DEF AcceptedInv
  <2> QED
    BY <1>4, <1>7, <2>1
<1>10. Active' = Active
  BY <1>1 DEF Active
<1> QED
  BY <1>1, <1>6, <1>8, <1>9, <1>10 DEF AcceptedInv

\* One more is summed up, by either of the two actions.
SumUp == BeginLumiSection \/ AddLumiSectionInfo

LEMMA SumUpOne ==
  ASSUME TypeInv, AcceptedInv, SumUp
  PROVE  /\ AcceptedInv' /\ Summed' = Summed + 1 /\ Summed + 1 \in DOMAIN accepted
         /\ l1Info = accepted[Summed + 1] /\ l1Info \in L1Informations
<1>1. /\ l1Info # None /\ l1Info' = None
      /\ UNCHANGED << extracted, l1InfoFIFO, run, evmState, accepted, lastSeenLumiSection >>
  BY DEF SumUp, BeginLumiSection, AddLumiSectionInfo, evm
<1>2. One(l1Info) = 1 /\ One(l1Info)' = 0 /\ One(extracted)' = One(extracted)
  BY <1>1 DEF One
<1>3. Summed' = Summed + 1 /\ Summed + 1 <= Len(accepted) /\ Summed \in Nat
  BY <1>1, <1>2, AcceptedType DEF Pending, Summed, AcceptedInv
<1>4. \A i \in DOMAIN l1InfoFIFO' : l1InfoFIFO'[i] = accepted'[Summed' + One(l1Info)' + i]
  <2>1. \A i \in DOMAIN l1InfoFIFO : l1InfoFIFO[i] = accepted[Summed + 1 + i]
    BY <1>2 DEF AcceptedInv
  <2>2. \A i \in DOMAIN l1InfoFIFO : Summed + 1 + i = Summed + 1 + 0 + i
    BY <1>3, AcceptedType
  <2> QED
    BY <1>1, <1>2, <1>3, <2>1, <2>2
<1>5. Active' = Active
  BY <1>1 DEF Active
<1>6. \A i \in DOMAIN accepted : i > Summed + 1 => i > Summed
  BY <1>3, AcceptedType
<1>7. AcceptedInv'
  BY <1>1, <1>3, <1>4, <1>5, <1>6, AcceptedType DEF AcceptedInv
<1>8. l1Info \in L1Informations
  BY <1>1 DEF TypeInv, TypeOK
<1> QED
  BY <1>1, <1>3, <1>7, <1>8, AcceptedType DEF AcceptedInv

\* All other actions leave the information alone; Enable begins a run with none left.
Elsewhere ==
  /\ UNCHANGED << extracted, l1InfoFIFO, l1Info, accepted, run >>
  /\ Active' => Active /\ UNCHANGED lastSeenLumiSection

LEMMA AcceptedElsewhere ==
  ASSUME TypeInv, AcceptedInv, Elsewhere
  PROVE  AcceptedInv' /\ Summed' = Summed
<1>1. Summed' = Summed /\ One(l1Info)' = One(l1Info)
  BY DEF Elsewhere, Summed, Pending, One
<1> QED
  BY <1>1 DEF Elsewhere, AcceptedInv

LEMMA AcceptedEnable ==
  ASSUME TypeInv, OnTimeInv, AcceptedInv, Enable
  PROVE  /\ AcceptedInv' /\ Summed' = Summed /\ run' = run + 1 /\ Active' /\ ~Active
         /\ UNCHANGED << accepted, l1Info >> /\ Summed = Len(accepted)
         /\ \A i \in DOMAIN accepted : accepted[i].run < run'
<1>1. /\ ~Active /\ NothingToAdd /\ run' = run + 1 /\ Active'
      /\ UNCHANGED << extracted, l1InfoFIFO, l1Info, accepted, lastSeenLumiSection >>
  BY DEF Enable, OnTimeInv, Active
<1>2. One(l1Info) = 0 /\ One(extracted) = 0 /\ Len(l1InfoFIFO) = 0
  BY <1>1 DEF One, NothingToAdd
<1>3. Summed = Len(accepted) /\ Summed' = Summed
  <2>1. Summed' = Summed
    BY <1>1 DEF Summed, Pending, One
  <2> QED
    BY <1>2, <2>1, AcceptedType DEF Summed, Pending
<1>4. \A i \in DOMAIN accepted : accepted[i].run < run' /\ ~(i > Summed)
  BY <1>1, <1>3, AcceptedType DEF AcceptedInv
<1>5. AcceptedInv'
  <2>1. \A i \in DOMAIN accepted : accepted[i].run <= run' /\ accepted[i].run # run'
    BY <1>1, <1>4, AcceptedType
  <2>2. l1Info' = None /\ extracted' = None /\ DOMAIN l1InfoFIFO' = {}
    BY <1>1 DEF NothingToAdd
  <2> QED
    BY <1>1, <1>3, <1>4, <2>1, <2>2 DEF AcceptedInv
<1> QED
  BY <1>1, <1>3, <1>4, <1>5

\* The actions that are neither Elsewhere nor Enable are those above.
LEMMA StepsElsewhere ==
  ASSUME TypeInv, [Next]_vars,
         ~(\E trigger \in Triggers, ls \in LumiSections : ExtractL1Info(trigger, ls)),
         ~EnqL1Info, ~DeqL1Info, ~SumUp, ~Enable
  PROVE  Elsewhere
<1> USE DEF Elsewhere, evm, current, publisher
<1>1. ASSUME NEW ls \in LumiSections, LumiSectionDecreases(ls) PROVE Elsewhere
  BY <1>1 DEF LumiSectionDecreases, Processing, Active
<1>2. CASE ProcessL1Info \/ NoMoreL1Info
  BY <1>2 DEF ProcessL1Info, NoMoreL1Info, Active
<1>3. CASE SendL1Scalers \/ DeqLumiSectionInfo \/ UpdateL1Scalers \/ UpdateFails \/ NoMoreLumiSectionInfo
  BY <1>3 DEF SendL1Scalers, DeqLumiSectionInfo, UpdateL1Scalers, UpdateFails, NoMoreLumiSectionInfo, Active
<1>4. ASSUME NEW i \in 1 .. 3, Empty(i) PROVE Elsewhere
  BY <1>4 DEF Empty, Active
<1>5. CASE NotEmpty \/ Clear \/ Configure \/ Stop
  BY <1>5 DEF NotEmpty, Clear, Configure, Stop, Active
<1>6. ASSUME NEW event \in Events, Leave(event) PROVE Elsewhere
  BY <1>6 DEF Leave, Active, Processing
<1>7. CASE EnqCurrentLumiSectionInfo
  BY <1>7 DEF EnqCurrentLumiSectionInfo, Active
<1>8. CASE ClearCommand \/ HaltCommand \/ UNCHANGED vars
  BY <1>8 DEF ClearCommand, HaltCommand, vars, Active
<1> QED
  BY <1>1, <1>2, <1>3, <1>4, <1>5, <1>6, <1>7, <1>8 DEF Next, SumUp

LEMMA AcceptedStep ==
  ASSUME TypeInv, OnTimeInv, AcceptedInv, [Next]_vars
  PROVE  AcceptedInv'
BY AcceptOne, QueueOne, TakeOne, SumUpOne, AcceptedEnable, StepsElsewhere, AcceptedElsewhere

\* What is in hand is of the present run, and comes after all that was summed up.
LEMMA PendingAfterSummed ==
  ASSUME TypeInv, AcceptedInv, NEW k \in DOMAIN accepted, k > Summed
  PROVE  /\ accepted[k].run = run
         /\ \A i \in 1 .. Summed : i \in DOMAIN accepted /\ i < k /\ NotBefore(accepted[k], accepted[i])
<1>1. Summed \in Nat /\ k \in 1 .. Len(accepted)
  BY AcceptedType DEF AcceptedInv
<1>2. \A i \in 1 .. Summed : i \in DOMAIN accepted /\ i < k
  BY <1>1, AcceptedType
<1> QED
  BY <1>2 DEF AcceptedInv

-----------------------------------------------------------------------------
(***************************************************************************)
(* What the first n informations say of a lumi section of a run: it stays  *)
(* the same when later ones come, of a later lumi section or run, and one  *)
(* of the same lumi section adds to it what addEventCounts and             *)
(* addTriggerBits add.                                                     *)
(***************************************************************************)
OfFirst(s, n, r, ls) == {i \in 1 .. n : s[i].run = r /\ s[i].ls = ls}
Earlier(s, n, r, ls) == {s[i].ls : i \in {i \in 1 .. n : s[i].run = r /\ s[i].ls < ls}}
LastOf(S)            == IF S = {} THEN 0 ELSE Max(S)
OfType(s, S, type)   == {i \in S : s[i].eventType = type}
OfBit(s, S, b)       == {i \in S : b \in s[i].bits}

Summary(s, n, r, ls) ==
  [run |-> r, ls |-> ls, skipped |-> ls - LastOf(Earlier(s, n, r, ls)) - 1,
   eventCount |-> Cardinality(OfFirst(s, n, r, ls)),
   triggers |-> [type \in 1 .. 3 |-> Cardinality(OfType(s, OfFirst(s, n, r, ls), type))],
   bits |-> [b \in Bits |-> Cardinality(OfBit(s, OfFirst(s, n, r, ls), b))]]

LEMMA SummaryOfPrefix ==
  ASSUME NEW s, NEW t, NEW n \in Nat, \A i \in 1 .. n : s[i] = t[i], NEW r, NEW ls
  PROVE  Summary(s, n, r, ls) = Summary(t, n, r, ls)
<1>1. OfFirst(s, n, r, ls) = OfFirst(t, n, r, ls)
  BY DEF OfFirst
<1>2. Earlier(s, n, r, ls) = Earlier(t, n, r, ls)
  BY DEF Earlier
<1> DEFINE S == OfFirst(s, n, r, ls)
<1>3. \A i \in S : s[i] = t[i]
  BY DEF OfFirst
<1> HIDE DEF S
<1>4. \A type \in 1 .. 3 : OfType(s, S, type) = OfType(t, S, type)
  BY <1>3 DEF OfType
<1>5. \A b \in Bits : OfBit(s, S, b) = OfBit(t, S, b)
  BY <1>3 DEF OfBit
<1>6. /\ [type \in 1 .. 3 |-> Cardinality(OfType(s, S, type))] = [type \in 1 .. 3 |-> Cardinality(OfType(t, S, type))]
      /\ [b \in Bits |-> Cardinality(OfBit(s, S, b))] = [b \in Bits |-> Cardinality(OfBit(t, S, b))]
  BY <1>4, <1>5
<1> QED
  BY <1>1, <1>2, <1>6 DEF Summary, S

LEMMA SummaryStays ==
  ASSUME NEW s, NEW n \in Nat, NEW m \in Nat, n <= m, NEW r, NEW ls \in Nat,
         \A i \in n + 1 .. m : s[i].ls \in Nat /\ (s[i].run # r \/ s[i].ls > ls)
  PROVE  Summary(s, m, r, ls) = Summary(s, n, r, ls)
<1>1. \A i \in 1 .. m : i \in 1 .. n \/ i \in n + 1 .. m
  OBVIOUS
<1>2. \A i \in 1 .. n : i \in 1 .. m
  OBVIOUS
<1>3. \A i \in n + 1 .. m : ~(s[i].run = r /\ s[i].ls = ls) /\ ~(s[i].run = r /\ s[i].ls < ls)
  OBVIOUS
<1>4. OfFirst(s, m, r, ls) = OfFirst(s, n, r, ls)
  BY <1>1, <1>2, <1>3 DEF OfFirst
<1>5. {i \in 1 .. m : s[i].run = r /\ s[i].ls < ls} = {i \in 1 .. n : s[i].run = r /\ s[i].ls < ls}
  BY <1>1, <1>2, <1>3
<1>6. Earlier(s, m, r, ls) = Earlier(s, n, r, ls)
  BY <1>5 DEF Earlier
<1> QED
  BY <1>4, <1>6 DEF Summary

LEMMA OfFirstFinite ==
  ASSUME NEW s, NEW n \in Nat, NEW r, NEW ls, NEW S \in SUBSET OfFirst(s, n, r, ls)
  PROVE  IsFiniteSet(S) /\ Cardinality(S) \in Nat /\ n + 1 \notin S
<1>1. IsFiniteSet(1 .. n)
  BY FS_Interval
<1>2. S \subseteq 1 .. n
  BY DEF OfFirst
<1>3. IsFiniteSet(S)
  BY <1>1, <1>2, FS_Subset
<1>4. n + 1 \notin S
  BY <1>2
<1> QED
  BY <1>3, <1>4, FS_CardinalityType

Record(r, ls, k, count, triggers, bits) ==
  [run |-> r, ls |-> ls, skipped |-> k, eventCount |-> count, triggers |-> triggers, bits |-> bits]

LEMMA AddedFields ==
  ASSUME NEW r, NEW ls, NEW k, NEW count, NEW triggers, NEW bits, NEW info, NEW triggers2, NEW bits2,
         triggers2 = [type \in 1 .. 3 |-> triggers[type] + (IF type = info.eventType THEN 1 ELSE 0)],
         bits2 = [b \in Bits |-> bits[b] + (IF b \in info.bits THEN 1 ELSE 0)]
  PROVE  AddTriggerBits(AddEventCounts(Record(r, ls, k, count, triggers, bits), info), info) =
           Record(r, ls, k, count + 1, triggers2, bits2)
<1>1. PICK sum : sum = Record(r, ls, k, count, triggers, bits)
  OBVIOUS
<1>2. sum.eventCount = count /\ sum.triggers = triggers
  BY <1>1 DEF Record
<1>3. [sum EXCEPT !.eventCount = count + 1] = Record(r, ls, k, count + 1, triggers, bits)
  BY <1>1 DEF Record
<1>4. [Record(r, ls, k, count + 1, triggers, bits) EXCEPT !.triggers = triggers2] =
        Record(r, ls, k, count + 1, triggers2, bits)
  BY DEF Record
<1>5. AddEventCounts(sum, info) = [[sum EXCEPT !.eventCount = count + 1] EXCEPT !.triggers = triggers2]
  BY <1>2 DEF AddEventCounts
<1>6. PICK counted : counted = Record(r, ls, k, count + 1, triggers2, bits)
  OBVIOUS
<1>7. AddEventCounts(sum, info) = counted
  BY <1>3, <1>4, <1>5, <1>6
<1>8. counted.bits = bits
  BY <1>6 DEF Record
<1>9. [counted EXCEPT !.bits = bits2] = Record(r, ls, k, count + 1, triggers2, bits2)
  BY <1>6 DEF Record
<1>10. AddTriggerBits(counted, info) = [counted EXCEPT !.bits = bits2]
  BY <1>8 DEF AddTriggerBits
<1> QED
  BY <1>1, <1>7, <1>9, <1>10

LEMMA SummaryNext ==
  ASSUME NEW s \in Seq(L1Informations), NEW n \in Nat, n + 1 <= Len(s), NEW info, info = s[n + 1]
  PROVE  Summary(s, n + 1, info.run, info.ls) =
           AddTriggerBits(AddEventCounts(Summary(s, n, info.run, info.ls), info), info)
<1> DEFINE r == info.run
           ls == info.ls
           S  == OfFirst(s, n, r, ls)
           T  == OfFirst(s, n + 1, r, ls)
<1>1. \A i \in 1 .. n + 1 : i \in 1 .. n \/ i = n + 1
  OBVIOUS
<1>2. T = S \cup {n + 1}
  BY <1>1 DEF OfFirst
<1>3. Earlier(s, n + 1, r, ls) = Earlier(s, n, r, ls)
  <2>1. info \in L1Informations
    OBVIOUS
  <2>2. ls \in Nat
    BY <2>1, LumiSectionsAssumption DEF L1Informations
  <2>3. {i \in 1 .. n + 1 : s[i].run = r /\ s[i].ls < ls} = {i \in 1 .. n : s[i].run = r /\ s[i].ls < ls}
    BY <1>1, <2>2
  <2> QED
    BY <2>3 DEF Earlier
<1>4. IsFiniteSet(S) /\ n + 1 \notin S
  BY OfFirstFinite
<1>5. Cardinality(T) = Cardinality(S) + 1
  BY <1>2, <1>4, FS_AddElement
<1>6. \A type \in 1 .. 3 :
        Cardinality(OfType(s, T, type)) = Cardinality(OfType(s, S, type)) + (IF type = info.eventType THEN 1 ELSE 0)
  <2> SUFFICES ASSUME NEW type \in 1 .. 3
               PROVE  Cardinality(OfType(s, T, type)) =
                        Cardinality(OfType(s, S, type)) + (IF type = info.eventType THEN 1 ELSE 0)
    OBVIOUS
  <2>1. OfType(s, S, type) \subseteq S
    BY DEF OfType
  <2>2. IsFiniteSet(OfType(s, S, type)) /\ n + 1 \notin OfType(s, S, type)
    BY <1>4, <2>1, FS_Subset
  <2>3. OfType(s, T, type) =
          IF type = info.eventType THEN OfType(s, S, type) \cup {n + 1} ELSE OfType(s, S, type)
    BY <1>2 DEF OfType
  <2>4. CASE type = info.eventType
    BY <2>2, <2>3, <2>4, FS_AddElement
  <2>5. CASE type # info.eventType
    BY <2>2, <2>3, <2>5, FS_CardinalityType
  <2> QED
    BY <2>4, <2>5
<1>7. \A b \in Bits :
        Cardinality(OfBit(s, T, b)) = Cardinality(OfBit(s, S, b)) + (IF b \in info.bits THEN 1 ELSE 0)
  <2> SUFFICES ASSUME NEW b \in Bits
               PROVE  Cardinality(OfBit(s, T, b)) =
                        Cardinality(OfBit(s, S, b)) + (IF b \in info.bits THEN 1 ELSE 0)
    OBVIOUS
  <2>1. OfBit(s, S, b) \subseteq S
    BY DEF OfBit
  <2>2. IsFiniteSet(OfBit(s, S, b)) /\ n + 1 \notin OfBit(s, S, b)
    BY <1>4, <2>1, FS_Subset
  <2>3. OfBit(s, T, b) = IF b \in info.bits THEN OfBit(s, S, b) \cup {n + 1} ELSE OfBit(s, S, b)
    BY <1>2 DEF OfBit
  <2>4. CASE b \in info.bits
    BY <2>2, <2>3, <2>4, FS_AddElement
  <2>5. CASE b \notin info.bits
    BY <2>2, <2>3, <2>5, FS_CardinalityType
  <2> QED
    BY <2>4, <2>5
<1> DEFINE k         == ls - LastOf(Earlier(s, n, r, ls)) - 1
           triggers  == [type \in 1 .. 3 |-> Cardinality(OfType(s, S, type))]
           bits      == [b \in Bits |-> Cardinality(OfBit(s, S, b))]
           triggers2 == [type \in 1 .. 3 |-> Cardinality(OfType(s, T, type))]
           bits2     == [b \in Bits |-> Cardinality(OfBit(s, T, b))]
<1>8. triggers2 = [type \in 1 .. 3 |-> triggers[type] + (IF type = info.eventType THEN 1 ELSE 0)]
  BY <1>6
<1>9. bits2 = [b \in Bits |-> bits[b] + (IF b \in info.bits THEN 1 ELSE 0)]
  BY <1>7
<1>10. /\ Summary(s, n, r, ls) = Record(r, ls, k, Cardinality(S), triggers, bits)
       /\ Summary(s, n + 1, r, ls) = Record(r, ls, k, Cardinality(T), triggers2, bits2)
  BY <1>3 DEF Summary, Record
<1> HIDE DEF k, triggers, bits, triggers2, bits2, S, T
<1> QED
  BY <1>5, <1>8, <1>9, <1>10, AddedFields

\* The first one of a lumi section.
LEMMA SummaryFirst ==
  ASSUME NEW s, NEW n \in Nat, NEW info, OfFirst(s, n, info.run, info.ls) = {}
  PROVE  Summary(s, n, info.run, info.ls) =
           NewLumiSectionInfo(info, LastOf(Earlier(s, n, info.run, info.ls)))
<1>1. \A type \in 1 .. 3 : Cardinality(OfType(s, {}, type)) = 0
  BY FS_EmptySet DEF OfType
<1>2. \A b \in Bits : Cardinality(OfBit(s, {}, b)) = 0
  BY FS_EmptySet DEF OfBit
<1>3. /\ [type \in 1 .. 3 |-> Cardinality(OfType(s, {}, type))] = [type \in 1 .. 3 |-> 0]
      /\ [b \in Bits |-> Cardinality(OfBit(s, {}, b))] = [b \in Bits |-> 0]
  BY <1>1, <1>2
<1> QED
  BY <1>3, FS_EmptySet DEF Summary, NewLumiSectionInfo

-----------------------------------------------------------------------------
(***************************************************************************)
(* The records of lumi sections that are closed: published, lost, or on    *)
(* their way to it.                                                        *)
(***************************************************************************)
Sending == IF lsInfo = None THEN {} ELSE {lsInfo}
Closed  == ToSet(published) \cup ToSet(lost) \cup Sending \cup ToSet(lumiSectionInfoFIFO)
Closing == IF currentLumiSectionInfo = None THEN {} ELSE {currentLumiSectionInfo}

LEMMA AppendToSet ==
  ASSUME NEW S, NEW q \in Seq(S), NEW e \in S
  PROVE  ToSet(Append(q, e)) = ToSet(q) \cup {e}
<1>1. /\ DOMAIN Append(q, e) = 1 .. Len(q) + 1 /\ DOMAIN q = 1 .. Len(q) /\ Len(q) \in Nat
      /\ \A i \in 1 .. Len(q) : Append(q, e)[i] = q[i]
      /\ Append(q, e)[Len(q) + 1] = e
  OBVIOUS
<1>2. \A i \in 1 .. Len(q) + 1 : i \in 1 .. Len(q) \/ i = Len(q) + 1
  BY <1>1
<1>3. \A i \in 1 .. Len(q) : i \in 1 .. Len(q) + 1
  BY <1>1
<1>4. Len(q) + 1 \in 1 .. Len(q) + 1
  BY <1>1
<1> QED
  BY <1>1, <1>2, <1>3, <1>4 DEF ToSet

LEMMA HeadTailToSet ==
  ASSUME NEW S, NEW q \in Seq(S), q # << >>
  PROVE  ToSet(q) = {Head(q)} \cup ToSet(Tail(q))
<1>1. /\ DOMAIN Tail(q) = 1 .. Len(q) - 1 /\ DOMAIN q = 1 .. Len(q) /\ Len(q) \in Nat /\ Len(q) >= 1
      /\ \A i \in 1 .. Len(q) - 1 : Tail(q)[i] = q[i + 1]
      /\ Head(q) = q[1]
  OBVIOUS
<1>2. \A i \in 1 .. Len(q) : i = 1 \/ (i - 1 \in 1 .. Len(q) - 1 /\ i = (i - 1) + 1)
  BY <1>1
<1>3. \A i \in 1 .. Len(q) - 1 : i + 1 \in 1 .. Len(q)
  BY <1>1
<1>4. 1 \in 1 .. Len(q)
  BY <1>1
<1>5. ASSUME NEW i \in 1 .. Len(q) PROVE q[i] \in {Head(q)} \cup ToSet(Tail(q))
  <2>1. CASE i = 1
    BY <1>1, <2>1
  <2>2. CASE i # 1
    <3>1. PICK j \in 1 .. Len(q) - 1 : i = j + 1
      BY <1>2, <2>2
    <3>2. q[i] = Tail(q)[j]
      BY <1>1, <3>1
    <3> QED
      BY <1>1, <3>2 DEF ToSet
  <2> QED
    BY <2>1, <2>2
<1>6. ASSUME NEW i \in 1 .. Len(q) - 1 PROVE Tail(q)[i] \in ToSet(q)
  BY <1>1, <1>3 DEF ToSet
<1>7. Head(q) \in ToSet(q)
  BY <1>1, <1>4 DEF ToSet
<1>8. ToSet(Tail(q)) = {Tail(q)[i] : i \in 1 .. Len(q) - 1} /\ ToSet(q) = {q[i] : i \in 1 .. Len(q)}
  BY <1>1 DEF ToSet
<1> QED
  BY <1>5, <1>6, <1>7, <1>8

LEMMA ConcatToSet ==
  ASSUME NEW S, NEW p \in Seq(S), NEW q \in Seq(S)
  PROVE  ToSet(p \o q) = ToSet(p) \cup ToSet(q)
<1> DEFINE m == Len(p)
           n == Len(q)
           t == p \o q
<1>1. /\ m \in Nat /\ n \in Nat /\ DOMAIN p = 1 .. m /\ DOMAIN q = 1 .. n /\ DOMAIN t = 1 .. m + n
      /\ \A i \in 1 .. m : t[i] = p[i]
  OBVIOUS
<1>2. \A j \in 1 .. n : m + j \in 1 .. m + n /\ t[m + j] = q[j]
  OBVIOUS
<1>3. \A k \in 1 .. m + n : k \in 1 .. m \/ (\E j \in 1 .. n : k = m + j)
  <2> TAKE k \in 1 .. m + n
  <2>1. k \notin 1 .. m => k - m \in 1 .. n /\ k = m + (k - m)
    BY <1>1
  <2> QED
    BY <2>1
<1>4. \A i \in 1 .. m : i \in 1 .. m + n
  BY <1>1
<1> HIDE DEF m, n, t
<1>5. ToSet(t) \subseteq ToSet(p) \cup ToSet(q)
  <2>1. ASSUME NEW k \in 1 .. m + n PROVE t[k] \in ToSet(p) \cup ToSet(q)
    <3>1. CASE k \in 1 .. m
      BY <1>1, <3>1 DEF ToSet
    <3>2. CASE k \notin 1 .. m
      <4>1. PICK j \in 1 .. n : k = m + j
        BY <1>3, <3>2
      <4> QED
        BY <1>1, <1>2, <4>1 DEF ToSet
    <3> QED
      BY <3>1, <3>2
  <2> QED
    BY <1>1, <2>1 DEF ToSet
<1>6. ToSet(p) \cup ToSet(q) \subseteq ToSet(t)
  BY <1>1, <1>2, <1>4 DEF ToSet
<1> QED
  BY <1>5, <1>6 DEF t

LEMMA ClosedType ==
  ASSUME TypeInv
  PROVE  /\ \A R \in Closed \cup Closing : R \in LumiSectionInfos /\ R.run \in Nat /\ R.ls \in Nat
         /\ None \notin Closed
<1>1. /\ ToSet(published) \subseteq LumiSectionInfos /\ ToSet(lumiSectionInfoFIFO) \subseteq LumiSectionInfos
      /\ ToSet(lost) \subseteq LumiSectionInfos
  BY DEF TypeInv, TypeOK, ToSet
<1>2. Closed \cup Closing \subseteq LumiSectionInfos
  BY <1>1 DEF TypeInv, TypeOK, Closed, Closing, Sending
<1>3. \A R \in LumiSectionInfos : R.run \in Nat /\ R.ls \in Nat
  BY LumiSectionsAssumption DEF LumiSectionInfos
<1> QED
  BY <1>2, <1>3, NoneAssumption

\* Every closed record is of a lumi section before the one in progress, which is that of
\* the last information summed up.
KeysInv ==
  /\ \A R \in Closed : R.run <= run
  /\ Active => \A R \in Closed : R.run = run =>
       currentLumiSectionInfo # None /\ R.ls < currentLumiSectionInfo.ls
  /\ currentLumiSectionInfo # None =>
       /\ Summed > 0 /\ accepted[Summed].run = run /\ accepted[Summed].ls = currentLumiSectionInfo.ls
       /\ currentLumiSectionInfo.run = run
  /\ Active /\ currentLumiSectionInfo = None => \A i \in 1 .. Summed : accepted[i].run # run

\* Every record is the summary of what was summed up.
SumsInv ==
  \A R \in Closed \cup Closing : R = Summary(accepted, Summed, R.run, R.ls)

\* All that was summed up is in a record.
CoverInv ==
  \A i \in 1 .. Summed : \E R \in Closed \cup Closing : R.run = accepted[i].run /\ R.ls = accepted[i].ls

SummaryInv == KeysInv /\ SumsInv /\ CoverInv

\* Steps that neither sum up nor close a record: all but those below.
SumsSame ==
  /\ UNCHANGED << run, currentLumiSectionInfo, skipped >> /\ Closed' = Closed /\ Summed' = Summed
  /\ Active' => Active
  /\ \A i \in 1 .. Summed : accepted'[i] = accepted[i]

LEMMA SummarySame ==
  ASSUME TypeInv, AcceptedInv, SummaryInv, SumsSame
  PROVE  SummaryInv'
<1>1. Closing' = Closing /\ Summed \in Nat
  BY DEF SumsSame, Closing, AcceptedInv
<1>2. KeysInv'
  <2>1. currentLumiSectionInfo # None => Summed \in 1 .. Summed
    BY <1>1 DEF SummaryInv, KeysInv
  <2> QED
    BY <2>1 DEF SummaryInv, KeysInv, SumsSame
<1>3. SumsInv'
  <2>1. \A r, ls : Summary(accepted', Summed, r, ls) = Summary(accepted, Summed, r, ls)
    BY <1>1, SummaryOfPrefix DEF SumsSame
  <2> QED
    BY <1>1, <2>1 DEF SummaryInv, SumsInv, SumsSame
<1>4. CoverInv'
  BY <1>1 DEF SummaryInv, CoverInv, SumsSame
<1> QED
  BY <1>2, <1>3, <1>4 DEF SummaryInv

LEMMA SummaryEnable ==
  ASSUME TypeInv, OnTimeInv, AcceptedInv, SummaryInv, Enable
  PROVE  SummaryInv'
<1>1. /\ ~Active /\ currentLumiSectionInfo = None /\ run' = run + 1
      /\ UNCHANGED << currentLumiSectionInfo, accepted, published, lost, lsInfo, lumiSectionInfoFIFO >>
  BY DEF Enable, OnTimeInv, Active, NothingToAdd, current, publisher
<1>2. Summed' = Summed /\ Summed = Len(accepted) /\ \A i \in 1 .. Summed : accepted[i].run < run'
  BY AcceptedEnable, AcceptedType
<1>3. Closed' = Closed /\ Closing' = Closing
  BY <1>1 DEF Closed, Closing, Sending
<1>4. KeysInv'
  <2>1. \A R \in Closed : R.run <= run' /\ R.run # run'
    BY <1>1, ClosedType, AcceptedType DEF SummaryInv, KeysInv
  <2>2. \A i \in 1 .. Summed : accepted[i].run # run'
    BY <1>1, <1>2, AcceptedType
  <2> QED
    BY <1>1, <1>2, <1>3, <2>1, <2>2 DEF KeysInv
<1>5. SumsInv' /\ CoverInv'
  BY <1>1, <1>2, <1>3 DEF SummaryInv, SumsInv, CoverInv
<1> QED
  BY <1>4, <1>5 DEF SummaryInv

\* The exit of Processing closes the record in progress.
LEMMA SummaryEnq ==
  ASSUME TypeInv, AcceptedInv, SummaryInv, EnqCurrentLumiSectionInfo
  PROVE  SummaryInv' /\ Closed' = Closed \cup Closing /\ Summed' = Summed /\ ~Active'
         /\ UNCHANGED << run, accepted, skipped, published, lsInfo >>
<1>1. /\ currentLumiSectionInfo' = None
      /\ lumiSectionInfoFIFO' = IF currentLumiSectionInfo = None THEN lumiSectionInfoFIFO
                                ELSE Append(lumiSectionInfoFIFO, currentLumiSectionInfo)
      /\ evmState' = NextState(leaving) /\ evmState = "Leaving"
      /\ UNCHANGED << run, accepted, extracted, l1Info, l1InfoFIFO, published, lost, lsInfo, skipped >>
  BY DEF EnqCurrentLumiSectionInfo, publisher
<1>2. Closing' = {}
  BY <1>1 DEF Closing
<1>3. Closed' = Closed \cup Closing
  <2>1. CASE currentLumiSectionInfo = None
    BY <1>1, <2>1 DEF Closed, Closing, Sending
  <2>2. CASE currentLumiSectionInfo # None
    <3>1. ToSet(lumiSectionInfoFIFO') = ToSet(lumiSectionInfoFIFO) \cup {currentLumiSectionInfo}
      BY <1>1, <2>2, AppendToSet DEF TypeInv, TypeOK
    <3> QED
      BY <1>1, <2>2, <3>1 DEF Closed, Closing, Sending
  <2> QED
    BY <2>1, <2>2
<1>4. Summed' = Summed
  BY <1>1 DEF Summed, Pending, One
<1>5. ~Active'
  <2>1. leaving \in Events
    BY <1>1 DEF TypeInv, TypeOK, ThreadInv
  <2> QED
    BY <1>1, <2>1 DEF NextState, Events, Active
<1>6. KeysInv'
  <2>1. \A R \in Closing : R.run <= run
    BY AcceptedType DEF SummaryInv, KeysInv, Closing
  <2> QED
    BY <1>1, <1>3, <1>4, <1>5, <2>1 DEF SummaryInv, KeysInv
<1>7. SumsInv' /\ CoverInv'
  BY <1>1, <1>2, <1>3, <1>4 DEF SummaryInv, SumsInv, CoverInv
<1> QED
  BY <1>1, <1>3, <1>4, <1>5, <1>6, <1>7 DEF SummaryInv

\* A new lumi section begins: the previous one is the one in progress, which is the
\* last that was summed up, or there is none of this run.
LEMMA PreviousIsLast ==
  ASSUME TypeInv, AcceptedInv, KeysInv, Active, NEW ls \in Nat, ls > PreviousLumiSection
  PROVE  /\ PreviousLumiSection = LastOf(Earlier(accepted, Summed, run, ls))
         /\ OfFirst(accepted, Summed, run, ls) = {}
<1> DEFINE E == Earlier(accepted, Summed, run, ls)
<1>1. Summed \in Nat /\ \A i \in 1 .. Summed : i \in DOMAIN accepted
  <2>1. Summed <= Len(accepted) /\ Summed \in Nat
    BY AcceptedType DEF AcceptedInv, Summed
  <2> QED
    BY <2>1, AcceptedType
<1>2. CASE currentLumiSectionInfo = None
  <2>1. \A i \in 1 .. Summed : accepted[i].run # run
    BY <1>2 DEF KeysInv
  <2>2. E = {} /\ OfFirst(accepted, Summed, run, ls) = {}
    BY <2>1 DEF Earlier, OfFirst
  <2> QED
    BY <1>2, <2>2 DEF PreviousLumiSection, LastOf
<1>3. CASE currentLumiSectionInfo # None
  <2> DEFINE p == currentLumiSectionInfo.ls
  <2>1. /\ Summed \in 1 .. Summed /\ accepted[Summed].run = run /\ accepted[Summed].ls = p
        /\ p \in Nat /\ p < ls /\ p = PreviousLumiSection
    BY <1>1, <1>3, ClosedType DEF KeysInv, PreviousLumiSection, Closing
  <2>2. \A i \in 1 .. Summed : accepted[i].run = run => accepted[i].ls \in Nat /\ accepted[i].ls <= p
    <3> SUFFICES ASSUME NEW i \in 1 .. Summed, accepted[i].run = run
                 PROVE  accepted[i].ls \in Nat /\ accepted[i].ls <= p
      OBVIOUS
    <3>1. i = Summed \/ i < Summed
      BY <1>1
    <3>2. i < Summed => NotBefore(accepted[Summed], accepted[i])
      BY <1>1, <2>1 DEF AcceptedInv
    <3>3. accepted[i].ls \in Nat /\ run \in Nat
      BY <1>1, AcceptedType
    <3> QED
      BY <2>1, <3>1, <3>2, <3>3 DEF NotBefore
  <2>3. p \in E /\ \A l \in E : l \in Nat /\ l <= p
    BY <2>1, <2>2 DEF Earlier
  <2>4. OfFirst(accepted, Summed, run, ls) = {}
    BY <2>1, <2>2 DEF OfFirst
  <2>5. LastOf(E) = p
    <3> HIDE DEF E
    <3>1. \E x \in E : \A y \in E : x >= y
      BY <2>1, <2>3
    <3>2. Max(E) \in E /\ \A y \in E : Max(E) >= y
      BY <3>1 DEF Max
    <3>3. Max(E) = p
      BY <2>1, <2>3, <3>2
    <3> QED
      BY <2>3, <3>3 DEF LastOf
  <2> QED
    BY <2>1, <2>4, <2>5
<1> QED
  BY <1>2, <1>3

\* Records that are closed are not touched by what is summed up next.
LEMMA ClosedStays ==
  ASSUME TypeInv, AcceptedInv, SummaryInv, Active, NEW k \in DOMAIN accepted, k > Summed,
         NEW R \in Closed
  PROVE  accepted[k].run # R.run \/ accepted[k].ls > R.ls
<1>1. R.run \in Nat /\ R.ls \in Nat /\ accepted[k].ls \in Nat
  BY ClosedType, AcceptedType
<1>2. accepted[k].run = run /\ \A i \in 1 .. Summed : NotBefore(accepted[k], accepted[i])
  BY PendingAfterSummed
<1>3. CASE R.run = run
  <2>1. currentLumiSectionInfo # None /\ R.ls < currentLumiSectionInfo.ls
    BY <1>3 DEF SummaryInv, KeysInv
  <2>2. Summed \in 1 .. Summed /\ accepted[Summed].run = run /\ accepted[Summed].ls = currentLumiSectionInfo.ls
    BY <2>1 DEF SummaryInv, KeysInv, AcceptedInv
  <2>3. currentLumiSectionInfo.ls \in Nat
    BY <2>1, ClosedType DEF Closing
  <2>4. NotBefore(accepted[k], accepted[Summed])
    BY <1>2, <2>2
  <2>5. accepted[Summed].ls <= accepted[k].ls
    BY <1>2, <2>2, <2>4, AcceptedType DEF NotBefore
  <2> QED
    BY <1>1, <2>1, <2>2, <2>3, <2>5
<1> QED
  BY <1>2, <1>3

LEMMA SummaryBegin ==
  ASSUME TypeInv, OnTimeInv, AcceptedInv, SummaryInv, BeginLumiSection
  PROVE  SummaryInv'
<1> DEFINE n    == Summed
           info == l1Info
<1>1. /\ l1Info # None /\ info.ls > PreviousLumiSection
      /\ lumiSectionInfoFIFO' = IF currentLumiSectionInfo = None THEN lumiSectionInfoFIFO
                                ELSE Append(lumiSectionInfoFIFO, currentLumiSectionInfo)
      /\ currentLumiSectionInfo' = Added(NewLumiSectionInfo(info, PreviousLumiSection))
      /\ UNCHANGED << run, evmState, accepted, published, lost, lsInfo >>
  BY DEF BeginLumiSection, evm, publisher
<1>2. /\ AcceptedInv' /\ Summed' = n + 1 /\ n + 1 \in DOMAIN accepted /\ info = accepted[n + 1]
      /\ info \in L1Informations /\ n \in Nat
  BY SumUpOne DEF SumUp, AcceptedInv
<1>3. Active /\ Active'
  BY <1>1 DEF OnTimeInv, NothingToAdd, Active
<1>4. info.run = run /\ info.ls \in Nat /\ run \in Nat
  BY <1>2, PendingAfterSummed, AcceptedType DEF AcceptedInv
<1>5. Closed' = Closed \cup Closing
  <2>1. CASE currentLumiSectionInfo = None
    BY <1>1, <2>1 DEF Closed, Closing, Sending
  <2>2. CASE currentLumiSectionInfo # None
    <3>1. ToSet(lumiSectionInfoFIFO') = ToSet(lumiSectionInfoFIFO) \cup {currentLumiSectionInfo}
      BY <1>1, <2>2, AppendToSet DEF TypeInv, TypeOK
    <3> QED
      BY <1>1, <2>2, <3>1 DEF Closed, Closing, Sending
  <2> QED
    BY <2>1, <2>2
<1>6. currentLumiSectionInfo' = Summary(accepted, n + 1, run, info.ls)
  <2>1. /\ PreviousLumiSection = LastOf(Earlier(accepted, n, run, info.ls))
        /\ OfFirst(accepted, n, run, info.ls) = {}
    BY <1>1, <1>3, <1>4, PreviousIsLast DEF SummaryInv
  <2>2. Summary(accepted, n, run, info.ls) = NewLumiSectionInfo(info, PreviousLumiSection)
    BY <1>2, <1>4, <2>1, SummaryFirst
  <2>3. accepted \in Seq(L1Informations) /\ n + 1 <= Len(accepted)
    BY <1>2, AcceptedType DEF TypeInv, TypeOK
  <2>4. Summary(accepted, n + 1, run, info.ls) =
          AddTriggerBits(AddEventCounts(Summary(accepted, n, run, info.ls), info), info)
    BY <1>2, <1>4, <2>3, SummaryNext
  <2> QED
    BY <1>1, <2>2, <2>4 DEF Added
<1>7. currentLumiSectionInfo' # None /\ currentLumiSectionInfo'.run = run /\ currentLumiSectionInfo'.ls = info.ls
  <2>1. NewLumiSectionInfo(info, PreviousLumiSection) \in LumiSectionInfos
    BY <1>1, <1>2, NewType, PreviousType DEF TypeInv
  <2>2. currentLumiSectionInfo' \in LumiSectionInfos
    BY <1>1, <1>2, <2>1, AddedType
  <2> QED
    BY <1>6, <2>2, NoneAssumption DEF Summary
<1>8. Closing' = {currentLumiSectionInfo'}
  BY <1>7 DEF Closing
<1>9. \A R \in Closing : R.run = run /\ R.ls = PreviousLumiSection /\ R.ls < info.ls
  BY <1>1, <1>4, ClosedType DEF Closing, SummaryInv, KeysInv, PreviousLumiSection
<1>10. \A R \in Closed : R.run <= run /\ (R.run = run => R.ls < info.ls)
  BY <1>2, <1>3, <1>4, ClosedStays, ClosedType DEF SummaryInv, KeysInv
<1>11. KeysInv'
  <2>1. Summed' > 0 /\ accepted'[Summed'].run = run /\ accepted'[Summed'].ls = info.ls
    BY <1>1, <1>2, <1>4
  <2> QED
    BY <1>1, <1>4, <1>5, <1>7, <1>9, <1>10, <2>1 DEF KeysInv
<1>12. SumsInv'
  <2>1. ASSUME NEW R \in Closed \cup Closing PROVE R = Summary(accepted, n + 1, R.run, R.ls)
    <3>1. R.run \in Nat /\ R.ls \in Nat /\ R = Summary(accepted, n, R.run, R.ls)
      BY ClosedType DEF SummaryInv, SumsInv
    <3>2. accepted[n + 1].run # R.run \/ accepted[n + 1].ls > R.ls
      BY <1>2, <1>4, <1>9, <1>10, <3>1
    <3>3. \A i \in n + 1 .. n + 1 : i = n + 1
      BY <1>2
    <3> QED
      BY <1>2, <1>4, <3>1, <3>2, <3>3, SummaryStays
  <2> QED
    BY <1>1, <1>2, <1>5, <1>6, <1>7, <1>8, <2>1 DEF SumsInv
<1>13. CoverInv'
  <2> SUFFICES ASSUME NEW i \in 1 .. n + 1
               PROVE  \E R \in Closed \cup Closing \cup {currentLumiSectionInfo'} :
                        R.run = accepted[i].run /\ R.ls = accepted[i].ls
    BY <1>1, <1>2, <1>5, <1>8 DEF CoverInv
  <2>1. CASE i = n + 1
    BY <1>2, <1>4, <1>7, <2>1
  <2>2. CASE i \in 1 .. n
    BY <2>2 DEF SummaryInv, CoverInv
  <2> QED
    BY <1>2, <2>1, <2>2
<1> QED
  BY <1>11, <1>12, <1>13 DEF SummaryInv

LEMMA SummaryAdd ==
  ASSUME TypeInv, OnTimeInv, AcceptedInv, SummaryInv, AddLumiSectionInfo
  PROVE  SummaryInv' /\ currentLumiSectionInfo' # None /\ currentLumiSectionInfo'.ls = currentLumiSectionInfo.ls
<1> DEFINE n    == Summed
           info == l1Info
           cur  == currentLumiSectionInfo
<1>1. /\ l1Info # None /\ cur # None /\ info.ls <= cur.ls
      /\ currentLumiSectionInfo' = Added(cur)
      /\ UNCHANGED << run, evmState, accepted, published, lost, lsInfo, lumiSectionInfoFIFO >>
  BY DEF AddLumiSectionInfo, evm, publisher
<1>2. /\ AcceptedInv' /\ Summed' = n + 1 /\ n + 1 \in DOMAIN accepted /\ info = accepted[n + 1]
      /\ info \in L1Informations /\ n \in Nat
  BY SumUpOne DEF SumUp, AcceptedInv
<1>3. Active /\ Active'
  BY <1>1 DEF OnTimeInv, NothingToAdd, Active
<1>4. info.run = run /\ info.ls \in Nat /\ run \in Nat
  BY <1>2, PendingAfterSummed, AcceptedType DEF AcceptedInv
<1>5. Closed' = Closed
  BY <1>1 DEF Closed, Sending
<1>6. /\ n \in 1 .. n /\ accepted[n].run = run /\ accepted[n].ls = cur.ls /\ cur.run = run
      /\ cur.ls \in Nat
  BY <1>1, <1>2, ClosedType DEF SummaryInv, KeysInv, Closing
<1>7. info.ls = cur.ls
  <2>1. NotBefore(info, accepted[n])
    BY <1>2, <1>6, PendingAfterSummed
  <2> QED
    BY <1>1, <1>4, <1>6, <2>1 DEF NotBefore
<1>8. currentLumiSectionInfo' = Summary(accepted, n + 1, run, cur.ls)
  <2>1. cur = Summary(accepted, n, run, cur.ls)
    BY <1>1, <1>6 DEF SummaryInv, SumsInv, Closing
  <2>2. accepted \in Seq(L1Informations) /\ n + 1 <= Len(accepted)
    BY <1>2, AcceptedType DEF TypeInv, TypeOK
  <2>3. Summary(accepted, n + 1, info.run, info.ls) =
          AddTriggerBits(AddEventCounts(Summary(accepted, n, info.run, info.ls), info), info)
    BY <1>2, <2>2, SummaryNext
  <2> QED
    BY <1>1, <1>4, <1>7, <2>1, <2>3 DEF Added
<1>9. currentLumiSectionInfo' # None /\ currentLumiSectionInfo'.run = run /\ currentLumiSectionInfo'.ls = cur.ls
  <2>1. currentLumiSectionInfo' \in LumiSectionInfos
    BY <1>1, <1>2, AddedType, ClosedType DEF Closing
  <2> QED
    BY <1>8, <2>1, NoneAssumption DEF Summary
<1>10. Closing' = {currentLumiSectionInfo'} /\ Closing = {cur}
  BY <1>1, <1>9 DEF Closing
<1>11. KeysInv'
  <2>1. Summed' > 0 /\ accepted'[Summed'].run = run /\ accepted'[Summed'].ls = cur.ls
    BY <1>1, <1>2, <1>4, <1>7
  <2>2. \A R \in Closed : R.run <= run /\ (R.run = run => R.ls < cur.ls)
    BY <1>3 DEF SummaryInv, KeysInv
  <2> QED
    BY <1>1, <1>5, <1>9, <2>1, <2>2 DEF KeysInv
<1>12. SumsInv'
  <2>1. ASSUME NEW R \in Closed PROVE R = Summary(accepted, n + 1, R.run, R.ls)
    <3>1. R.run \in Nat /\ R.ls \in Nat /\ R = Summary(accepted, n, R.run, R.ls)
      BY ClosedType DEF SummaryInv, SumsInv
    <3>2. accepted[n + 1].run # R.run \/ accepted[n + 1].ls > R.ls
      BY <1>2, <1>3, ClosedStays
    <3>3. \A i \in n + 1 .. n + 1 : i = n + 1
      BY <1>2
    <3> QED
      BY <1>2, <1>4, <3>1, <3>2, <3>3, SummaryStays
  <2> QED
    BY <1>1, <1>2, <1>5, <1>8, <1>9, <1>10, <2>1 DEF SumsInv
<1>13. CoverInv'
  <2> SUFFICES ASSUME NEW i \in 1 .. n + 1
               PROVE  \E R \in Closed \cup {currentLumiSectionInfo'} :
                        R.run = accepted[i].run /\ R.ls = accepted[i].ls
    BY <1>1, <1>2, <1>5, <1>10 DEF CoverInv
  <2>1. CASE i = n + 1
    BY <1>2, <1>4, <1>7, <1>9, <2>1
  <2>2. CASE i \in 1 .. n
    <3>1. PICK R \in Closed \cup {cur} : R.run = accepted[i].run /\ R.ls = accepted[i].ls
      BY <1>10, <2>2 DEF SummaryInv, CoverInv
    <3> QED
      BY <1>6, <1>9, <3>1
  <2> QED
    BY <1>2, <2>1, <2>2
<1> QED
  BY <1>9, <1>11, <1>12, <1>13 DEF SummaryInv

\* The L1Scalers loop moves records among those that are closed.
LEMMA ScalersSame ==
  ASSUME TypeInv, DeqLumiSectionInfo \/ UpdateL1Scalers \/ UpdateFails
  PROVE  Closed' = Closed
<1>1. /\ published \in Seq(LumiSectionInfos) /\ lumiSectionInfoFIFO \in Seq(LumiSectionInfos)
      /\ lost \in Seq(LumiSectionInfos)
      /\ lsInfo # None => lsInfo \in LumiSectionInfos
  BY DEF TypeInv, TypeOK
<1>2. CASE DeqLumiSectionInfo
  <2>1. /\ lsInfo = None /\ lumiSectionInfoFIFO # << >>
        /\ lsInfo' = Head(lumiSectionInfoFIFO) /\ lumiSectionInfoFIFO' = Tail(lumiSectionInfoFIFO)
        /\ UNCHANGED << published, lost >>
    BY <1>2 DEF DeqLumiSectionInfo
  <2>2. ToSet(lumiSectionInfoFIFO) = {lsInfo'} \cup ToSet(lumiSectionInfoFIFO')
    BY <1>1, <2>1, HeadTailToSet
  <2>3. lsInfo' # None
    BY <1>1, <2>1, NoneAssumption
  <2>4. Sending = {} /\ Sending' = {lsInfo'}
    BY <2>1, <2>3 DEF Sending
  <2> QED
    BY <2>1, <2>2, <2>4 DEF Closed
<1>3. CASE UpdateL1Scalers
  <2>1. ToSet(published') = ToSet(published) \cup {lsInfo}
    BY <1>1, <1>3, AppendToSet DEF UpdateL1Scalers
  <2> QED
    BY <1>3, <2>1 DEF UpdateL1Scalers, Closed, Sending, current
<1>4. CASE UpdateFails
  <2>1. ToSet(lost') = ToSet(lost) \cup {lsInfo}
    BY <1>1, <1>4, AppendToSet DEF UpdateFails
  <2> QED
    BY <1>4, <2>1 DEF UpdateFails, Closed, Sending, current
<1> QED
  BY <1>2, <1>3, <1>4

LEMMA StepsSame ==
  ASSUME TypeInv, AcceptedInv, [Next]_vars, ~SumUp, ~Enable, ~EnqCurrentLumiSectionInfo
  PROVE  SumsSame
<1>1. CASE \E trigger \in Triggers, ls \in LumiSections : ExtractL1Info(trigger, ls)
  <2>1. PICK trigger \in Triggers, ls \in LumiSections : ExtractL1Info(trigger, ls)
    BY <1>1
  <2>2. UNCHANGED << evmState, run, currentLumiSectionInfo, skipped, published, lost, lsInfo, lumiSectionInfoFIFO >>
    BY <2>1 DEF ExtractL1Info, evm, current, publisher
  <2>3. Closed' = Closed /\ Active' = Active
    BY <2>2 DEF Closed, Sending, Active
  <2> QED
    BY <2>1, <2>2, <2>3, AcceptOne DEF SumsSame
<1>2. CASE EnqL1Info \/ DeqL1Info
  <2>1. UNCHANGED << evmState, run, currentLumiSectionInfo, skipped, published, lost, lsInfo, lumiSectionInfoFIFO,
                     accepted >>
    BY <1>2 DEF EnqL1Info, DeqL1Info, evm, current, publisher
  <2>2. Closed' = Closed /\ Active' = Active
    BY <2>1 DEF Closed, Sending, Active
  <2> QED
    BY <1>2, <2>1, <2>2, QueueOne, TakeOne DEF SumsSame
<1>3. CASE Elsewhere
  <2>1. UNCHANGED << run, accepted >> /\ (Active' => Active) /\ Summed' = Summed
    BY <1>3, AcceptedElsewhere DEF Elsewhere
  <2>2. CASE DeqLumiSectionInfo \/ UpdateL1Scalers \/ UpdateFails
    <3>1. UNCHANGED << currentLumiSectionInfo, skipped >>
      BY <2>2 DEF DeqLumiSectionInfo, UpdateL1Scalers, UpdateFails, current
    <3> QED
      BY <2>1, <2>2, <3>1, ScalersSame DEF SumsSame
  <2>3. CASE UNCHANGED << currentLumiSectionInfo, skipped, published, lost, lsInfo, lumiSectionInfoFIFO >>
    <3>1. Closed' = Closed
      BY <2>3 DEF Closed, Sending
    <3> QED
      BY <2>1, <2>3, <3>1 DEF SumsSame
  <2> DEFINE Same == UNCHANGED << currentLumiSectionInfo, skipped, published, lost, lsInfo, lumiSectionInfoFIFO >>
  <2>4. ASSUME NEW ls \in LumiSections, LumiSectionDecreases(ls) PROVE Same
    BY <2>4 DEF LumiSectionDecreases, current, publisher
  <2>5. CASE ProcessL1Info \/ NoMoreL1Info \/ SendL1Scalers \/ NoMoreLumiSectionInfo
    BY <2>3, <2>5 DEF ProcessL1Info, NoMoreL1Info, SendL1Scalers, NoMoreLumiSectionInfo, current, publisher
  <2>6. ASSUME NEW i \in 1 .. 3, Empty(i) PROVE Same
    BY <2>6 DEF Empty, current, publisher
  <2>7. CASE NotEmpty \/ Clear \/ Configure \/ Stop
    BY <2>3, <2>7 DEF NotEmpty, Clear, Configure, Stop, current, publisher
  <2>8. ASSUME NEW event \in Events, Leave(event) PROVE Same
    BY <2>8 DEF Leave, current, publisher
  <2>9. CASE ClearCommand \/ HaltCommand \/ UNCHANGED vars
    BY <2>3, <2>9 DEF ClearCommand, HaltCommand, vars, current, publisher
  <2>10. CASE (\E trigger \in Triggers, ls \in LumiSections : ExtractL1Info(trigger, ls)) \/ EnqL1Info \/ DeqL1Info
    BY <1>1, <1>2, <2>10
  <2> QED
    BY <2>2, <2>3, <2>4, <2>5, <2>6, <2>7, <2>8, <2>9, <2>10 DEF Next, SumUp
<1> QED
  BY <1>1, <1>2, <1>3, StepsElsewhere

LEMMA SummaryStep ==
  ASSUME TypeInv, OnTimeInv, AcceptedInv, SummaryInv, [Next]_vars
  PROVE  SummaryInv'
BY SummaryBegin, SummaryAdd, SummaryEnable, SummaryEnq, StepsSame, SummarySame DEF SumUp

-----------------------------------------------------------------------------
(* The records are closed, and published, in the order of runs and lumi sections. *)

Precedes(a, b) == a.run < b.run \/ (a.run = b.run /\ a.ls < b.ls)
Ordered(s)     == \A i, j \in DOMAIN s : i < j => Precedes(s[i], s[j])

LEMMA AppendOrdered ==
  ASSUME NEW S, NEW q \in Seq(S), NEW e \in S, Ordered(q), \A R \in ToSet(q) : Precedes(R, e)
  PROVE  Ordered(Append(q, e))
<1>1. /\ DOMAIN Append(q, e) = 1 .. Len(q) + 1 /\ DOMAIN q = 1 .. Len(q) /\ Len(q) \in Nat
      /\ \A i \in 1 .. Len(q) : Append(q, e)[i] = q[i]
      /\ Append(q, e)[Len(q) + 1] = e
  OBVIOUS
<1> DEFINE t == Append(q, e)
<1> SUFFICES ASSUME NEW i \in 1 .. Len(q) + 1, NEW j \in 1 .. Len(q) + 1, i < j
             PROVE  Precedes(t[i], t[j])
  BY <1>1 DEF Ordered
<1>2. i \in 1 .. Len(q) /\ q[i] \in ToSet(q)
  BY <1>1 DEF ToSet
<1>3. CASE j = Len(q) + 1
  BY <1>1, <1>2, <1>3
<1>4. CASE j \in 1 .. Len(q)
  BY <1>1, <1>2, <1>4 DEF Ordered
<1> QED
  BY <1>1, <1>3, <1>4

LEMMA TailOrdered ==
  ASSUME NEW S, NEW q \in Seq(S), q # << >>, Ordered(q)
  PROVE  Ordered(Tail(q)) /\ \A R \in ToSet(Tail(q)) : Precedes(Head(q), R)
<1>1. /\ DOMAIN Tail(q) = 1 .. Len(q) - 1 /\ DOMAIN q = 1 .. Len(q) /\ Len(q) \in Nat /\ Len(q) >= 1
      /\ \A i \in 1 .. Len(q) - 1 : Tail(q)[i] = q[i + 1]
      /\ Head(q) = q[1]
  OBVIOUS
<1>2. \A i \in 1 .. Len(q) - 1 : i + 1 \in 1 .. Len(q) /\ 1 < i + 1
  BY <1>1
<1>3. Ordered(Tail(q))
  <2> SUFFICES ASSUME NEW i \in 1 .. Len(q) - 1, NEW j \in 1 .. Len(q) - 1, i < j
               PROVE  Precedes(q[i + 1], q[j + 1])
    BY <1>1 DEF Ordered
  <2>1. i + 1 < j + 1
    OBVIOUS
  <2> QED
    BY <1>1, <1>2, <2>1 DEF Ordered
<1>4. \A i \in 1 .. Len(q) - 1 : Precedes(Head(q), Tail(q)[i])
  <2> TAKE i \in 1 .. Len(q) - 1
  <2>1. 1 \in DOMAIN q /\ i + 1 \in DOMAIN q /\ 1 < i + 1
    BY <1>1, <1>2
  <2> QED
    BY <1>1, <2>1 DEF Ordered
<1> QED
  BY <1>1, <1>3, <1>4 DEF ToSet

OrderInv ==
  /\ Ordered(published) /\ Ordered(lumiSectionInfoFIFO)
  /\ \A R \in ToSet(published), S \in Sending \cup ToSet(lumiSectionInfoFIFO) : Precedes(R, S)
  /\ \A R \in Sending, S \in ToSet(lumiSectionInfoFIFO) : Precedes(R, S)

\* A record that is closed comes after all that were closed before.
LEMMA OrderClose ==
  ASSUME TypeInv, KeysInv, OrderInv, Active,
         lumiSectionInfoFIFO' = IF currentLumiSectionInfo = None THEN lumiSectionInfoFIFO
                                ELSE Append(lumiSectionInfoFIFO, currentLumiSectionInfo),
         UNCHANGED << published, lsInfo >>
  PROVE  OrderInv'
<1>1. CASE currentLumiSectionInfo = None
  BY <1>1 DEF OrderInv, Sending
<1>2. CASE currentLumiSectionInfo # None
  <2> DEFINE cur == currentLumiSectionInfo
  <2>1. /\ lumiSectionInfoFIFO \in Seq(LumiSectionInfos) /\ cur \in LumiSectionInfos
        /\ lumiSectionInfoFIFO' = Append(lumiSectionInfoFIFO, cur)
    BY <1>2 DEF TypeInv, TypeOK
  <2>2. \A R \in Closed : Precedes(R, cur)
    <3> TAKE R \in Closed
    <3>1. R.run \in Nat /\ run \in Nat /\ R.run <= run /\ cur.run = run /\ (R.run = run => R.ls < cur.ls)
      BY <1>2, ClosedType, AcceptedType DEF KeysInv
    <3> QED
      BY <3>1 DEF Precedes
  <2>3. ToSet(lumiSectionInfoFIFO') = ToSet(lumiSectionInfoFIFO) \cup {cur}
    BY <2>1, AppendToSet
  <2>4. Ordered(lumiSectionInfoFIFO')
    BY <2>1, <2>2, AppendOrdered DEF OrderInv, Closed
  <2>5. Sending' = Sending /\ published' = published
    BY DEF Sending
  <2> QED
    BY <2>2, <2>3, <2>4, <2>5 DEF OrderInv, Closed
<1> QED
  BY <1>1, <1>2

LEMMA OrderStep ==
  ASSUME TypeInv, OnTimeInv, SummaryInv, OrderInv, [Next]_vars
  PROVE  OrderInv'
<1>1. /\ published \in Seq(LumiSectionInfos) /\ lumiSectionInfoFIFO \in Seq(LumiSectionInfos)
      /\ lsInfo # None => lsInfo \in LumiSectionInfos
  BY DEF TypeInv, TypeOK
<1>2. CASE BeginLumiSection
  <2>1. Active
    BY <1>2 DEF BeginLumiSection, OnTimeInv, NothingToAdd, Active
  <2> QED
    BY <1>2, <2>1, OrderClose DEF BeginLumiSection, SummaryInv, publisher
<1>3. CASE EnqCurrentLumiSectionInfo
  <2>1. Active
    BY <1>3 DEF EnqCurrentLumiSectionInfo, Active
  <2> QED
    BY <1>3, <2>1, OrderClose DEF EnqCurrentLumiSectionInfo, SummaryInv, publisher
<1>4. CASE DeqLumiSectionInfo
  <2>1. /\ lsInfo = None /\ lumiSectionInfoFIFO # << >>
        /\ lsInfo' = Head(lumiSectionInfoFIFO) /\ lumiSectionInfoFIFO' = Tail(lumiSectionInfoFIFO)
        /\ UNCHANGED published
    BY <1>4 DEF DeqLumiSectionInfo
  <2>2. ToSet(lumiSectionInfoFIFO) = {lsInfo'} \cup ToSet(lumiSectionInfoFIFO')
    BY <1>1, <2>1, HeadTailToSet
  <2>3. Ordered(lumiSectionInfoFIFO') /\ \A R \in ToSet(lumiSectionInfoFIFO') : Precedes(lsInfo', R)
    BY <1>1, <2>1, TailOrdered DEF OrderInv
  <2>4. Sending' \subseteq {lsInfo'}
    BY DEF Sending
  <2> QED
    BY <2>1, <2>2, <2>3, <2>4 DEF OrderInv
<1>5. CASE UpdateL1Scalers
  <2>1. /\ lsInfo # None /\ published' = Append(published, lsInfo) /\ Sending = {lsInfo} /\ Sending' = {}
        /\ UNCHANGED lumiSectionInfoFIFO
    BY <1>5 DEF UpdateL1Scalers, Sending, current
  <2>2. ToSet(published') = ToSet(published) \cup {lsInfo}
    BY <1>1, <2>1, AppendToSet
  <2>3. Ordered(published')
    BY <1>1, <2>1, AppendOrdered DEF OrderInv
  <2> QED
    BY <2>1, <2>2, <2>3 DEF OrderInv
<1>6. CASE UpdateFails
  <2>1. Sending' = {} /\ UNCHANGED << published, lumiSectionInfoFIFO >>
    BY <1>6 DEF UpdateFails, Sending, current
  <2> QED
    BY <2>1 DEF OrderInv
<1>7. CASE UNCHANGED << published, lsInfo, lumiSectionInfoFIFO >>
  BY <1>7 DEF OrderInv, Sending
<1> DEFINE Same == UNCHANGED << published, lsInfo, lumiSectionInfoFIFO >>
<1>8. CASE \E trigger \in Triggers, ls \in LumiSections : ExtractL1Info(trigger, ls)
  BY <1>7, <1>8 DEF ExtractL1Info, current, publisher
<1>9. CASE \E ls \in LumiSections : LumiSectionDecreases(ls)
  BY <1>7, <1>9 DEF LumiSectionDecreases, current, publisher
<1>10. CASE EnqL1Info \/ ProcessL1Info \/ DeqL1Info \/ NoMoreL1Info \/ AddLumiSectionInfo
  BY <1>7, <1>10 DEF EnqL1Info, ProcessL1Info, DeqL1Info, NoMoreL1Info, AddLumiSectionInfo, current, publisher
<1>11. CASE SendL1Scalers \/ NoMoreLumiSectionInfo
  BY <1>7, <1>11 DEF SendL1Scalers, NoMoreLumiSectionInfo, current
<1>12. CASE \E i \in 1 .. 3 : Empty(i)
  BY <1>7, <1>12 DEF Empty, current, publisher
<1>13. CASE NotEmpty \/ Clear \/ Configure \/ Enable \/ Stop
  BY <1>7, <1>13 DEF NotEmpty, Clear, Configure, Enable, Stop, current, publisher
<1>14. CASE \E event \in Events : Leave(event)
  BY <1>7, <1>14 DEF Leave, current, publisher
<1>15. CASE ClearCommand \/ HaltCommand \/ UNCHANGED vars
  BY <1>7, <1>15 DEF ClearCommand, HaltCommand, vars, current, publisher
<1> QED
  BY <1>2, <1>3, <1>4, <1>5, <1>6, <1>8, <1>9, <1>10, <1>11, <1>12, <1>13, <1>14, <1>15 DEF Next

-----------------------------------------------------------------------------
(***************************************************************************)
(* The lumi sections announced as skipped lie between those that are       *)
(* summed up, one after the other.                                         *)
(***************************************************************************)
SkippedInv ==
  /\ \A i \in DOMAIN skipped : \A k \in 1 .. Summed :
       accepted[k].run # skipped[i].run \/ accepted[k].ls # skipped[i].ls
  /\ \A i \in DOMAIN skipped : skipped[i].run <= run
  /\ Active => \A i \in DOMAIN skipped : skipped[i].run = run =>
       currentLumiSectionInfo # None /\ skipped[i].ls < currentLumiSectionInfo.ls
  /\ Ordered(skipped)
  /\ \A k \in 1 .. Summed : \A ls \in 1 .. accepted[k].ls :
       \/ \E i \in 1 .. Summed : accepted[i].run = accepted[k].run /\ accepted[i].ls = ls
       \/ \E i \in DOMAIN skipped : skipped[i] = [run |-> accepted[k].run, ls |-> ls]

LEMMA SkippedEntries ==
  ASSUME TypeInv
  PROVE  \A i \in DOMAIN skipped : skipped[i].run \in Nat /\ skipped[i].ls \in Nat
<1>1. skipped \in Seq([run : Nat, ls : Nat])
  BY DEF TypeInv, TypeOK
<1> SUFFICES ASSUME NEW i \in DOMAIN skipped
             PROVE  skipped[i].run \in Nat /\ skipped[i].ls \in Nat
  OBVIOUS
<1>2. skipped[i] \in [run : Nat, ls : Nat]
  BY <1>1, ElementType
<1> QED
  BY <1>2

LEMMA SkippedSame ==
  ASSUME TypeInv, AcceptedInv, SkippedInv, SumsSame
  PROVE  SkippedInv'
<1>1. \A k \in 1 .. Summed' : k \in 1 .. Summed /\ accepted'[k] = accepted[k]
  BY DEF SumsSame
<1> QED
  BY <1>1 DEF SumsSame, SkippedInv

LEMMA SkippedEnable ==
  ASSUME TypeInv, OnTimeInv, AcceptedInv, SkippedInv, Enable
  PROVE  SkippedInv'
<1>1. UNCHANGED skipped /\ UNCHANGED accepted /\ Summed' = Summed /\ run' = run + 1
  BY AcceptedEnable DEF Enable, current
<1>2. \A i \in DOMAIN skipped : skipped[i].run <= run' /\ skipped[i].run # run'
  BY <1>1, SkippedEntries, AcceptedType DEF SkippedInv
<1> QED
  BY <1>1, <1>2 DEF SkippedInv

\* One more of the lumi section in progress.
LEMMA SkippedAdd ==
  ASSUME TypeInv, OnTimeInv, AcceptedInv, SummaryInv, SkippedInv, AddLumiSectionInfo
  PROVE  SkippedInv'
<1> DEFINE n    == Summed
           info == l1Info
           cur  == currentLumiSectionInfo
<1>1. /\ info # None /\ cur # None /\ info.ls <= cur.ls
      /\ UNCHANGED << run, evmState, accepted, skipped >>
  BY DEF AddLumiSectionInfo, evm
<1>2. /\ Summed' = n + 1 /\ n + 1 \in DOMAIN accepted /\ info = accepted[n + 1] /\ n \in Nat
  BY SumUpOne DEF SumUp, AcceptedInv
<1>3. Active /\ Active'
  BY <1>1 DEF OnTimeInv, NothingToAdd, Active
<1>4. info.run = run /\ info.ls \in Nat /\ run \in Nat
  BY <1>2, PendingAfterSummed, AcceptedType DEF AcceptedInv
<1>5. /\ n \in 1 .. n /\ accepted[n].run = run /\ accepted[n].ls = cur.ls /\ cur.ls \in Nat
      /\ NotBefore(info, accepted[n])
  BY <1>1, <1>2, ClosedType, PendingAfterSummed DEF SummaryInv, KeysInv, Closing
<1>6. info.ls = cur.ls
  BY <1>1, <1>4, <1>5 DEF NotBefore
<1>7. currentLumiSectionInfo' # None /\ currentLumiSectionInfo'.ls = cur.ls
  BY SummaryAdd
<1>8. \A k \in 1 .. n + 1 : k \in 1 .. n \/ k = n + 1
  BY <1>2
<1>9. \A i \in DOMAIN skipped : \A k \in 1 .. n + 1 :
        accepted[k].run # skipped[i].run \/ accepted[k].ls # skipped[i].ls
  <2> TAKE i \in DOMAIN skipped
  <2>1. accepted[n + 1].run # skipped[i].run \/ accepted[n + 1].ls # skipped[i].ls
    BY <1>1, <1>2, <1>3, <1>4, <1>5, <1>6, SkippedEntries DEF SkippedInv
  <2> QED
    BY <1>8, <2>1 DEF SkippedInv
<1>10. \A k \in 1 .. n + 1 : \A ls \in 1 .. accepted[k].ls :
         \/ \E i \in 1 .. n + 1 : accepted[i].run = accepted[k].run /\ accepted[i].ls = ls
         \/ \E i \in DOMAIN skipped : skipped[i] = [run |-> accepted[k].run, ls |-> ls]
  <2>1. \A k \in 1 .. n + 1 : \E l \in 1 .. n : accepted[l].run = accepted[k].run /\ accepted[l].ls = accepted[k].ls
    BY <1>2, <1>4, <1>5, <1>6, <1>8
  <2>2. \A k \in 1 .. n : \A ls \in 1 .. accepted[k].ls :
         \/ \E i \in 1 .. n : accepted[i].run = accepted[k].run /\ accepted[i].ls = ls
         \/ \E i \in DOMAIN skipped : skipped[i] = [run |-> accepted[k].run, ls |-> ls]
    BY DEF SkippedInv
  <2>3. \A i \in 1 .. n : i \in 1 .. n + 1
    BY <1>2
  <2> SUFFICES ASSUME NEW k \in 1 .. n + 1, NEW ls \in 1 .. accepted[k].ls
               PROVE  \/ \E i \in 1 .. n + 1 : accepted[i].run = accepted[k].run /\ accepted[i].ls = ls
                      \/ \E i \in DOMAIN skipped : skipped[i] = [run |-> accepted[k].run, ls |-> ls]
    OBVIOUS
  <2>4. PICK l \in 1 .. n : accepted[l].run = accepted[k].run /\ accepted[l].ls = accepted[k].ls
    BY <2>1
  <2> QED
    BY <2>2, <2>3, <2>4
<1> QED
  BY <1>1, <1>2, <1>3, <1>7, <1>9, <1>10 DEF SkippedInv

LEMMA SkippedEnq ==
  ASSUME TypeInv, AcceptedInv, SummaryInv, SkippedInv, EnqCurrentLumiSectionInfo
  PROVE  SkippedInv'
<1>1. Summed' = Summed /\ ~Active' /\ UNCHANGED << run, accepted, skipped >>
  BY SummaryEnq
<1> QED
  BY <1>1 DEF SkippedInv

\* Two ordered sequences in a row, the one before the other.
LEMMA ConcatOrdered ==
  ASSUME NEW S, NEW p \in Seq(S), NEW q \in Seq(S), Ordered(p), Ordered(q),
         \A i \in DOMAIN p, j \in DOMAIN q : Precedes(p[i], q[j])
  PROVE  /\ Ordered(p \o q) /\ Len(p) \in Nat /\ Len(q) \in Nat
         /\ DOMAIN (p \o q) = 1 .. Len(p) + Len(q)
         /\ \A i \in 1 .. Len(p) : (p \o q)[i] = p[i]
         /\ \A j \in 1 .. Len(q) : (p \o q)[Len(p) + j] = q[j]
         /\ \A k \in 1 .. Len(p) + Len(q) :
              k \in 1 .. Len(p) \/ (k - Len(p) \in 1 .. Len(q) /\ k = Len(p) + (k - Len(p)))
<1> DEFINE m == Len(p)
           n == Len(q)
           t == p \o q
<1>1. /\ m \in Nat /\ n \in Nat /\ DOMAIN p = 1 .. m /\ DOMAIN q = 1 .. n
      /\ DOMAIN t = 1 .. m + n
      /\ \A i \in 1 .. m : t[i] = p[i]
  OBVIOUS
<1>2. \A j \in 1 .. n : t[m + j] = q[j]
  <2> TAKE j \in 1 .. n
  <2>1. m + j \in 1 .. m + n /\ m + j > m /\ (m + j) - m = j
    BY <1>1
  <2> QED
    BY <2>1
<1>3. \A k \in 1 .. m + n : k \in 1 .. m \/ (k - m \in 1 .. n /\ k = m + (k - m))
  BY <1>1
<1>4. ASSUME NEW i \in 1 .. m + n, NEW j \in 1 .. m + n, i < j PROVE Precedes(t[i], t[j])
  <2>1. CASE i \in 1 .. m /\ j \in 1 .. m
    BY <1>1, <1>4, <2>1 DEF Ordered
  <2>2. CASE i \in 1 .. m /\ j \notin 1 .. m
    <3>1. j - m \in 1 .. n /\ t[j] = q[j - m] /\ t[i] = p[i]
      BY <1>1, <1>2, <1>3, <2>2
    <3> QED
      BY <1>1, <2>2, <3>1
  <2>3. CASE i \notin 1 .. m
    <3>1. i - m \in 1 .. n /\ j - m \in 1 .. n /\ i - m < j - m
      BY <1>1, <1>4, <2>3
    <3>2. t[i] = q[i - m] /\ t[j] = q[j - m]
      <4>1. i = m + (i - m) /\ j = m + (j - m)
        BY <1>1
      <4> QED
        BY <1>2, <3>1, <4>1
    <3> QED
      BY <1>1, <3>1, <3>2 DEF Ordered
  <2> QED
    BY <2>1, <2>2, <2>3
<1> HIDE DEF m, n, t
<1>5. Ordered(t)
  BY <1>1, <1>4 DEF Ordered
<1> QED
  BY <1>1, <1>2, <1>3, <1>5 DEF m, n, t

LEMMA SkippedBegin ==
  ASSUME TypeInv, OnTimeInv, AcceptedInv, SummaryInv, SkippedInv, BeginLumiSection
  PROVE  SkippedInv'
<1> DEFINE n    == Summed
           info == l1Info
           cur  == currentLumiSectionInfo
           prev == PreviousLumiSection
           new  == NewLumiSectionInfo(info, prev)
           more == SkippedLumiSections(new)
           k    == info.ls - prev - 1
<1>1. /\ info # None /\ info.ls > prev
      /\ skipped' = skipped \o more
      /\ currentLumiSectionInfo' = Added(new)
      /\ UNCHANGED << run, evmState, accepted >>
  BY DEF BeginLumiSection, evm
<1>2. /\ Summed' = n + 1 /\ n + 1 \in DOMAIN accepted /\ info = accepted[n + 1]
      /\ info \in L1Informations /\ n \in Nat
  BY SumUpOne DEF SumUp, AcceptedInv
<1>3. Active /\ Active'
  BY <1>1 DEF OnTimeInv, NothingToAdd, Active
<1>4. info.run = run /\ info.ls \in Nat /\ run \in Nat /\ prev \in Nat
  BY <1>2, PendingAfterSummed, AcceptedType, PreviousType DEF AcceptedInv, TypeInv
<1>5. /\ currentLumiSectionInfo' # None /\ currentLumiSectionInfo'.ls = info.ls
  <2>1. SummaryInv' /\ AcceptedInv'
    BY SummaryBegin, SumUpOne DEF SumUp
  <2>2. new \in LumiSectionInfos
    BY <1>1, <1>2, <1>4, NewType
  <2>3. currentLumiSectionInfo' \in LumiSectionInfos
    BY <1>1, <1>2, <2>2, AddedType
  <2>4. currentLumiSectionInfo' # None
    BY <2>3, NoneAssumption
  <2>5. accepted'[Summed'].ls = currentLumiSectionInfo'.ls
    BY <2>1, <2>4 DEF SummaryInv, KeysInv
  <2> QED
    BY <1>1, <1>2, <2>4, <2>5
\* The lumi sections announced are those between the two.
<1>6. /\ k \in Nat /\ DOMAIN more = 1 .. k /\ Len(more) = k /\ more \in Seq([run : Nat, ls : Nat])
      /\ \A i \in 1 .. k : more[i].run = run /\ more[i].ls = prev + i /\ more[i] = [run |-> run, ls |-> prev + i]
  <2>1. new.run = run /\ new.ls = info.ls /\ new.skipped = k /\ k \in Nat
    BY <1>1, <1>4 DEF NewLumiSectionInfo
  <2>2. \A i \in 1 .. k : info.ls - k + i - 1 = prev + i
    BY <1>4
  <2>3. more = [i \in 1 .. k |-> [run |-> run, ls |-> info.ls - k + i - 1]]
    BY <2>1 DEF SkippedLumiSections
  <2>4. \A i \in 1 .. k : more[i] = [run |-> run, ls |-> prev + i]
    BY <2>2, <2>3
  <2>5. DOMAIN more = 1 .. k
    BY <2>3
  <2>6. \A i \in 1 .. k : [run |-> run, ls |-> info.ls - k + i - 1] \in [run : Nat, ls : Nat]
    BY <1>4, <2>1, <2>2
  <2>7. more \in [1 .. k -> [run : Nat, ls : Nat]]
    BY <2>3, <2>6
  <2> HIDE DEF more, k
  <2>8. more \in Seq([run : Nat, ls : Nat]) /\ Len(more) = k
    BY <2>1, <2>7, FunctionIsSequence
  <2> QED
    BY <2>1, <2>4, <2>5, <2>8
<1>7. skipped \in Seq([run : Nat, ls : Nat]) /\ Ordered(skipped)
  BY DEF TypeInv, TypeOK, SkippedInv
\* What is summed up of this run is not after the lumi section in progress.
<1>8. /\ \A i \in DOMAIN skipped : skipped[i].run <= run /\ (skipped[i].run = run => skipped[i].ls < prev)
      /\ \A i \in 1 .. n : accepted[i].run = run => accepted[i].ls <= prev
      /\ prev > 0 => n \in 1 .. n /\ accepted[n].run = run /\ accepted[n].ls = prev
  <2>1. CASE cur = None
    BY <1>3, <1>4, <2>1 DEF SkippedInv, SummaryInv, KeysInv, PreviousLumiSection
  <2>2. CASE cur # None
    <3>1. cur.ls = prev /\ n \in 1 .. n /\ accepted[n].run = run /\ accepted[n].ls = prev
      BY <1>2, <2>2 DEF PreviousLumiSection, SummaryInv, KeysInv
    <3>2. \A i \in 1 .. n : accepted[i].run = run => accepted[i].ls <= prev
      <4> SUFFICES ASSUME NEW i \in 1 .. n, accepted[i].run = run PROVE accepted[i].ls <= prev
        OBVIOUS
      <4>1. i \in DOMAIN accepted /\ n \in DOMAIN accepted
        BY <1>2, <3>1, AcceptedType
      <4>2. i = n \/ NotBefore(accepted[n], accepted[i])
        BY <1>2, <4>1 DEF AcceptedInv
      <4> QED
        BY <1>4, <3>1, <4>1, <4>2, AcceptedType DEF NotBefore
    <3> QED
      BY <1>3, <2>2, <3>1, <3>2 DEF SkippedInv
  <2> QED
    BY <2>1, <2>2
<1> HIDE DEF n, info, cur, prev, new, more, k
<1>9. Ordered(more)
  <2> SUFFICES ASSUME NEW i \in 1 .. k, NEW j \in 1 .. k, i < j PROVE Precedes(more[i], more[j])
    BY <1>6 DEF Ordered
  <2> QED
    BY <1>4, <1>6 DEF Precedes
<1>10. \A i \in DOMAIN skipped, j \in DOMAIN more : Precedes(skipped[i], more[j])
  <2> TAKE i \in DOMAIN skipped, j \in DOMAIN more
  <2>1. more[j].run = run /\ more[j].ls = prev + j /\ j \in Nat
    BY <1>6
  <2>2. skipped[i].run \in Nat /\ skipped[i].ls \in Nat
    BY SkippedEntries
  <2> QED
    BY <1>4, <1>8, <2>1, <2>2 DEF Precedes
<1> DEFINE m == Len(skipped)
<1>11. /\ Ordered(skipped') /\ m \in Nat /\ DOMAIN skipped' = 1 .. m + k
       /\ DOMAIN skipped = 1 .. m
       /\ \A i \in 1 .. m : skipped'[i] = skipped[i]
       /\ \A j \in 1 .. k : skipped'[m + j] = more[j]
       /\ \A i \in 1 .. m + k : i \in 1 .. m \/ (i - m \in 1 .. k /\ i = m + (i - m))
  <2>1. PICK q \in Seq([run : Nat, ls : Nat]) : q = more
    BY <1>6
  <2>2. PICK p \in Seq([run : Nat, ls : Nat]) : p = skipped
    BY <1>7
  <2>3. Ordered(p) /\ Ordered(q) /\ \A i \in DOMAIN p, j \in DOMAIN q : Precedes(p[i], q[j])
    BY <1>7, <1>9, <1>10, <2>1, <2>2
  <2>4. Len(q) = k /\ Len(p) = m /\ DOMAIN p = 1 .. m /\ skipped' = p \o q
    BY <1>1, <1>6, <2>1, <2>2
  <2>5. /\ Ordered(p \o q) /\ m \in Nat
        /\ DOMAIN (p \o q) = 1 .. m + k
        /\ \A i \in 1 .. m : (p \o q)[i] = p[i]
        /\ \A j \in 1 .. k : (p \o q)[m + j] = q[j]
        /\ \A i \in 1 .. m + k : i \in 1 .. m \/ (i - m \in 1 .. k /\ i = m + (i - m))
    <3> HIDE DEF m
    <3>1. /\ Ordered(p \o q) /\ Len(p) \in Nat
          /\ DOMAIN (p \o q) = 1 .. Len(p) + Len(q)
          /\ \A i \in 1 .. Len(p) : (p \o q)[i] = p[i]
          /\ \A j \in 1 .. Len(q) : (p \o q)[Len(p) + j] = q[j]
          /\ \A i \in 1 .. Len(p) + Len(q) :
               i \in 1 .. Len(p) \/ (i - Len(p) \in 1 .. Len(q) /\ i = Len(p) + (i - Len(p)))
      <4> HIDE DEF Ordered, Precedes
      <4> QED
        BY ONLY <2>1, <2>2, <2>3, ConcatOrdered
    <3> QED
      BY <2>4, <3>1
  <2> QED
    BY <2>1, <2>2, <2>4, <2>5
<1> HIDE DEF m
\* Each entry is one of before, or a new one.
<1>12. \A i \in DOMAIN skipped' :
         \/ \E j \in DOMAIN skipped : skipped'[i] = skipped[j]
         \/ skipped'[i].run = run /\ prev < skipped'[i].ls /\ skipped'[i].ls < info.ls
  <2> SUFFICES ASSUME NEW i \in 1 .. m + k
               PROVE  \/ \E j \in DOMAIN skipped : skipped'[i] = skipped[j]
                      \/ skipped'[i].run = run /\ prev < skipped'[i].ls /\ skipped'[i].ls < info.ls
    BY <1>11
  <2>1. CASE i \in 1 .. m
    BY <1>11, <2>1
  <2>2. CASE i \notin 1 .. m
    <3>1. PICK j \in 1 .. k : i = m + j
      BY <1>11, <2>2
    <3>2. skipped'[i].run = run /\ skipped'[i].ls = prev + j
      BY <1>6, <1>11, <3>1
    <3>3. k = info.ls - prev - 1 /\ j \in Nat /\ j >= 1 /\ j <= k
      BY <1>6 DEF k
    <3> QED
      BY <1>4, <3>2, <3>3
  <2> QED
    BY <2>1, <2>2
<1>13. \A i \in 1 .. n + 1 : i \in 1 .. n \/ i = n + 1
  BY <1>2 DEF n
<1>14. \A i \in DOMAIN skipped' : \A l \in 1 .. n + 1 :
         accepted[l].run # skipped'[i].run \/ accepted[l].ls # skipped'[i].ls
  <2> TAKE i \in DOMAIN skipped'
  <2> TAKE l \in 1 .. n + 1
  <2>1. CASE \E j \in DOMAIN skipped : skipped'[i] = skipped[j]
    <3>1. PICK j \in DOMAIN skipped : skipped'[i] = skipped[j]
      BY <2>1
    <3>2. CASE l \in 1 .. n
      BY <3>1, <3>2 DEF SkippedInv, n
    <3>3. CASE l = n + 1
      BY <1>1, <1>2, <1>4, <1>8, <3>1, <3>3, SkippedEntries DEF n, info, prev
    <3> QED
      BY <1>13, <3>2, <3>3
  <2>2. CASE skipped'[i].run = run /\ prev < skipped'[i].ls /\ skipped'[i].ls < info.ls
    <3>1. l = n + 1 => accepted[l] = info
      BY <1>2 DEF n, info
    <3>2. l \in 1 .. n => l \in DOMAIN accepted
      BY <1>2, AcceptedType DEF n
    <3>3. skipped'[i].ls \in Nat
      <4>1. skipped' \in Seq([run : Nat, ls : Nat])
        BY <1>1, <1>6, <1>7
      <4>2. skipped'[i] \in [run : Nat, ls : Nat]
        BY <4>1, ElementType
      <4> QED
        BY <4>2
    <3>4. l \in 1 .. n /\ accepted[l].run = run => accepted[l].ls # skipped'[i].ls
      BY <1>4, <1>8, <2>2, <3>2, <3>3, AcceptedType
    <3> QED
      BY <1>4, <1>13, <2>2, <3>1, <3>3, <3>4
  <2> QED
    BY <1>12, <2>1, <2>2
<1>15. \A i \in DOMAIN skipped' : skipped'[i].run <= run /\ (skipped'[i].run = run => skipped'[i].ls < info.ls)
  <2> TAKE i \in DOMAIN skipped'
  <2>1. CASE \E j \in DOMAIN skipped : skipped'[i] = skipped[j]
    BY <1>1, <1>4, <1>8, <2>1, SkippedEntries DEF info, prev
  <2>2. CASE skipped'[i].run = run /\ prev < skipped'[i].ls /\ skipped'[i].ls < info.ls
    BY <1>4, <2>2
  <2> QED
    BY <1>12, <2>1, <2>2
\* A lumi section up to the new one is the new one, between the two, or up to the last.
<1>16. ASSUME NEW l \in 1 .. n + 1, NEW ls \in 1 .. accepted[l].ls
       PROVE  \/ \E i \in 1 .. n + 1 : accepted[i].run = accepted[l].run /\ accepted[i].ls = ls
              \/ \E i \in DOMAIN skipped' : skipped'[i] = [run |-> accepted[l].run, ls |-> ls]
  <2>1. ASSUME NEW j \in 1 .. n, accepted[j].run = accepted[l].run, ls \in 1 .. accepted[j].ls
        PROVE  \/ \E i \in 1 .. n + 1 : accepted[i].run = accepted[l].run /\ accepted[i].ls = ls
               \/ \E i \in DOMAIN skipped' : skipped'[i] = [run |-> accepted[l].run, ls |-> ls]
    <3>1. \/ \E i \in 1 .. n : accepted[i].run = accepted[l].run /\ accepted[i].ls = ls
          \/ \E i \in DOMAIN skipped : skipped[i] = [run |-> accepted[l].run, ls |-> ls]
      BY <2>1 DEF SkippedInv, n
    <3>2. \A i \in 1 .. n : i \in 1 .. n + 1
      BY <1>2 DEF n
    <3>3. \A i \in 1 .. m : i \in 1 .. m + k
      BY <1>6, <1>11
    <3> QED
      BY <1>11, <3>1, <3>2, <3>3
  <2>2. CASE l = n + 1
    <3>1. accepted[l] = info /\ accepted[l].run = run /\ ls \in 1 .. info.ls
      BY <1>2, <1>4, <2>2 DEF n, info
    <3>2. CASE ls = info.ls
      <4>1. n + 1 \in 1 .. n + 1
        BY <1>2 DEF n
      <4> QED
        BY <2>2, <3>1, <3>2, <4>1
    <3>3. CASE ls <= prev
      <4>1. n \in 1 .. n /\ accepted[n].run = run /\ accepted[n].ls = prev
        BY <1>4, <1>8, <3>1, <3>3
      <4>2. ls \in 1 .. prev
        BY <1>4, <3>1, <3>3
      <4> QED
        BY <2>1, <3>1, <4>1, <4>2
    <3>4. CASE prev < ls /\ ls < info.ls
      <4>1. PICK j \in 1 .. k : ls = prev + j
        <5>1. ls - prev \in 1 .. k /\ ls = prev + (ls - prev)
          BY <1>4, <3>1, <3>4 DEF k
        <5> QED
          BY <5>1
      <4>2. m + j \in DOMAIN skipped' /\ skipped'[m + j] = [run |-> run, ls |-> ls]
        BY <1>6, <1>11, <4>1
      <4> QED
        BY <3>1, <4>2
    <3> QED
      BY <1>4, <3>1, <3>2, <3>3, <3>4
  <2> QED
    BY <1>13, <2>1, <2>2
<1>17. Summed' = n + 1 /\ UNCHANGED << run, accepted >> /\ Active'
  BY <1>1, <1>2, <1>3 DEF n
<1>18. \A i \in DOMAIN skipped' : \A l \in 1 .. Summed' :
         accepted'[l].run # skipped'[i].run \/ accepted'[l].ls # skipped'[i].ls
  BY <1>14, <1>17
<1>19. /\ \A i \in DOMAIN skipped' : skipped'[i].run <= run'
       /\ \A i \in DOMAIN skipped' : skipped'[i].run = run' =>
            currentLumiSectionInfo' # None /\ skipped'[i].ls < currentLumiSectionInfo'.ls
  BY <1>5, <1>15, <1>17 DEF info
<1>20. \A l \in 1 .. Summed' : \A ls \in 1 .. accepted'[l].ls :
         \/ \E i \in 1 .. Summed' : accepted'[i].run = accepted'[l].run /\ accepted'[i].ls = ls
         \/ \E i \in DOMAIN skipped' : skipped'[i] = [run |-> accepted'[l].run, ls |-> ls]
  BY <1>16, <1>17
<1> QED
  BY <1>11, <1>18, <1>19, <1>20 DEF SkippedInv

LEMMA SkippedStep ==
  ASSUME TypeInv, OnTimeInv, AcceptedInv, SummaryInv, SkippedInv, [Next]_vars
  PROVE  SkippedInv'
BY SkippedBegin, SkippedAdd, SkippedEnable, SkippedEnq, StepsSame, SkippedSame DEF SumUp

-----------------------------------------------------------------------------
(* What is published.                                                      *)

LumiInv == AcceptedInv /\ SummaryInv /\ OrderInv /\ SkippedInv

LEMMA LumiInvariant == Spec => [](late = {} => LumiInv)
<1>1. Init => LumiInv
  <2> SUFFICES ASSUME Init PROVE LumiInv
    OBVIOUS
  <2>1. /\ run = 0 /\ ~Active /\ currentLumiSectionInfo = None /\ l1Info = None /\ extracted = None /\ lsInfo = None
        /\ lost = << >> /\ accepted = << >> /\ l1InfoFIFO = << >> /\ lumiSectionInfoFIFO = << >> /\ published = << >>
        /\ skipped = << >>
    BY DEF Init, Active
  <2>2. Summed = 0
    BY <2>1 DEF Summed, Pending, One
  <2>3. Closed = {} /\ Closing = {} /\ Sending = {} /\ ToSet(published) = {}
    BY <2>1 DEF Closed, Closing, Sending, ToSet
  <2>4. AcceptedInv
    BY <2>1, <2>2 DEF AcceptedInv
  <2>5. SummaryInv
    BY <2>1, <2>2, <2>3 DEF SummaryInv, KeysInv, SumsInv, CoverInv
  <2>6. OrderInv /\ SkippedInv
    BY <2>1, <2>2, <2>3 DEF OrderInv, SkippedInv, Ordered
  <2> QED
    BY <2>4, <2>5, <2>6 DEF LumiInv
<1>2. TypeInv /\ ClearInv /\ (late = {} => LumiInv) /\ [Next]_vars => (late = {} => LumiInv)'
  BY LateGrows, OnTime, AcceptedStep, SummaryStep, OrderStep, SkippedStep DEF LumiInv
<1> QED
  BY <1>1, <1>2, TypeInvariant, ClearInvariant, PTL DEF Spec

\* No information in hand belongs to a record that is closed: what the record says of
\* all that was summed up, it says of all that was accepted.
LEMMA RecordsAreTrue ==
  ASSUME TypeInv, OnTimeInv, LumiInv, NEW R \in Closed
  PROVE  R = TrueInfo(R.run, R.ls)
<1> DEFINE n == Summed
           m == Len(accepted)
<1>1. R = Summary(accepted, n, R.run, R.ls) /\ R.run \in Nat /\ R.ls \in Nat
  BY ClosedType DEF LumiInv, SummaryInv, SumsInv
<1>2. n \in Nat /\ m \in Nat /\ n <= m /\ DOMAIN accepted = 1 .. m
  BY AcceptedType DEF LumiInv, AcceptedInv, Summed
<1>3. \A i \in n + 1 .. m : accepted[i].ls \in Nat /\ (accepted[i].run # R.run \/ accepted[i].ls > R.ls)
  <2> TAKE i \in n + 1 .. m
  <2>1. i \in DOMAIN accepted /\ i > n
    BY <1>2
  <2>2. Active
    <3>1. CASE ~Active
      <4>1. NothingToAdd
        BY <3>1 DEF OnTimeInv
      <4>2. One(l1Info) = 0 /\ One(extracted) = 0 /\ Len(l1InfoFIFO) = 0
        BY <4>1 DEF One, NothingToAdd
      <4>3. n = m
        BY <1>2, <4>2 DEF Summed, Pending
      <4> QED
        BY <1>2, <2>1, <4>3
    <3> QED
      BY <3>1
  <2> QED
    BY <2>1, <2>2, ClosedStays, AcceptedType DEF LumiInv
<1>4. R = Summary(accepted, m, R.run, R.ls)
  <2> HIDE DEF n, m
  <2>1. PICK r, ls : r = R.run /\ ls = R.ls
    OBVIOUS
  <2>2. Summary(accepted, m, r, ls) = Summary(accepted, n, r, ls)
    <3>1. PICK s : s = accepted
      OBVIOUS
    <3>2. \A i \in n + 1 .. m : s[i].ls \in Nat /\ (s[i].run # r \/ s[i].ls > ls)
      BY <1>3, <2>1, <3>1
    <3>3. n \in Nat /\ m \in Nat /\ n <= m /\ ls \in Nat
      BY <1>1, <1>2, <2>1
    <3>4. Summary(s, m, r, ls) = Summary(s, n, r, ls)
      BY ONLY <3>2, <3>3, SummaryStays
    <3> QED
      BY <3>1, <3>4
  <2> QED
    BY <1>1, <2>1, <2>2
<1>5. Of(R.run, R.ls) = OfFirst(accepted, m, R.run, R.ls)
  BY <1>2 DEF Of, OfFirst
<1>6. LastBefore(R.run, R.ls) = LastOf(Earlier(accepted, m, R.run, R.ls))
  <2>1. {l \in Seen(R.run) : l < R.ls} = Earlier(accepted, m, R.run, R.ls)
    BY <1>2 DEF Seen, Earlier
  <2> QED
    BY <2>1 DEF LastBefore, LastOf
<1> QED
  BY <1>4, <1>5, <1>6 DEF Summary, TrueInfo, OfType, OfBit

\* What is published of a lumi section counts each of its triggers and nothing else, it
\* is published once and in order, and the lumi sections announced as skipped are those
\* without a trigger, each announced once: for any timing of the two loops, any sizes of
\* the FIFOs and any lumi sections, as long as no run was late.
THEOREM PublishedTruly == Spec => []PublishedIsTrue
<1>1. TypeInv /\ OnTimeInv /\ LumiInv => ScalersAreTrue
  <2> SUFFICES ASSUME TypeInv, OnTimeInv, LumiInv PROVE ScalersAreTrue
    OBVIOUS
  <2>1. DOMAIN published = 1 .. Len(published)
    BY DEF TypeInv, TypeOK
  <2>2. \A i \in 1 .. Len(published) : published[i] = TrueInfo(published[i].run, published[i].ls)
    <3> TAKE i \in 1 .. Len(published)
    <3>1. published[i] \in Closed
      BY <2>1 DEF Closed, ToSet
    <3> QED
      BY <3>1, RecordsAreTrue
  <2>3. \A i, j \in 1 .. Len(published) : i < j => Precedes(published[i], published[j])
    BY <2>1 DEF LumiInv, OrderInv, Ordered
  <2>4. ASSUME evmState = "Ready", NEW info \in ToSet(accepted)
        PROVE  TrueInfo(info.run, info.ls) \in ToSet(published \o lost)
    <3>1. NothingToAdd /\ NothingToSend
      BY <2>4 DEF OnTimeInv, Active
    <3>2. Closing = {} /\ Closed = ToSet(published) \cup ToSet(lost)
      BY <3>1 DEF NothingToAdd, NothingToSend, Closing, Closed, Sending, ToSet
    <3>3. Summed = Len(accepted)
      <4>1. One(l1Info) = 0 /\ One(extracted) = 0 /\ Len(l1InfoFIFO) = 0
        BY <3>1 DEF One, NothingToAdd
      <4> QED
        BY <4>1, AcceptedType DEF Summed, Pending
    <3>4. PICK i \in 1 .. Summed : info = accepted[i]
      BY <2>4, <3>3, AcceptedType DEF ToSet
    <3>5. PICK R \in Closed : R.run = info.run /\ R.ls = info.ls
      BY <3>2, <3>4 DEF LumiInv, SummaryInv, CoverInv
    <3>6. R = TrueInfo(info.run, info.ls)
      BY <3>5, RecordsAreTrue
    <3>7. ToSet(published \o lost) = ToSet(published) \cup ToSet(lost)
      BY ConcatToSet DEF TypeInv, TypeOK
    <3> QED
      BY <3>2, <3>5, <3>6, <3>7
  <2> QED
    BY <2>2, <2>3, <2>4 DEF ScalersAreTrue, Precedes
<1>2. TypeInv /\ OnTimeInv /\ LumiInv => SkippedSectionsAreEmpty
  <2> SUFFICES ASSUME TypeInv, OnTimeInv, LumiInv PROVE SkippedSectionsAreEmpty
    OBVIOUS
  <2>1. DOMAIN skipped = 1 .. Len(skipped) /\ Len(skipped) \in Nat
    BY DEF TypeInv, TypeOK
  <2>2. \A i \in DOMAIN skipped : \A k \in DOMAIN accepted :
          accepted[k].run # skipped[i].run \/ accepted[k].ls # skipped[i].ls
    <3> TAKE i \in DOMAIN skipped
    <3> TAKE k \in DOMAIN accepted
    <3>1. CASE k \in 1 .. Summed
      BY <3>1 DEF LumiInv, SkippedInv
    <3>2. CASE k \notin 1 .. Summed
      <4>1. k > Summed /\ k \in 1 .. Len(accepted)
        BY <3>2, AcceptedType DEF LumiInv, AcceptedInv
      <4>2. accepted[k].run = run /\ \A j \in 1 .. Summed : NotBefore(accepted[k], accepted[j])
        BY <4>1, PendingAfterSummed DEF LumiInv
      <4>3. Active
        <5>1. CASE ~Active
          <6>1. One(l1Info) = 0 /\ One(extracted) = 0 /\ Len(l1InfoFIFO) = 0
            BY <5>1 DEF One, NothingToAdd, OnTimeInv
          <6>2. Summed = Len(accepted)
            BY <6>1, AcceptedType DEF Summed, Pending
          <6> QED
            BY <4>1, <6>2, AcceptedType
        <5> QED
          BY <5>1
      <4>4. CASE skipped[i].run = run
        <5>1. currentLumiSectionInfo # None /\ skipped[i].ls < currentLumiSectionInfo.ls
          BY <4>3, <4>4 DEF LumiInv, SkippedInv
        <5>2. /\ Summed \in 1 .. Summed /\ accepted[Summed].run = run
              /\ accepted[Summed].ls = currentLumiSectionInfo.ls /\ currentLumiSectionInfo.ls \in Nat
          BY <5>1, ClosedType DEF LumiInv, SummaryInv, KeysInv, AcceptedInv, Closing
        <5>3. NotBefore(accepted[k], accepted[Summed])
          BY <4>2, <5>2
        <5> QED
          BY <4>2, <5>1, <5>2, <5>3, SkippedEntries, AcceptedType DEF NotBefore
      <4> QED
        BY <4>2, <4>4
    <3> QED
      BY <3>1, <3>2
  <2>3. \A i \in 1 .. Len(skipped) : skipped[i].ls \notin Seen(skipped[i].run)
    BY <2>1, <2>2 DEF Seen
  <2>4. IsInjective(skipped)
    <3> SUFFICES ASSUME NEW i \in DOMAIN skipped, NEW j \in DOMAIN skipped, i < j PROVE skipped[i] # skipped[j]
      BY <2>1 DEF IsInjective
    <3>1. Precedes(skipped[i], skipped[j])
      BY DEF LumiInv, SkippedInv, Ordered
    <3> QED
      BY <3>1, SkippedEntries DEF Precedes
  <2>5. ASSUME evmState = "Ready", NEW r \in 1 .. run, NEW l \in Seen(r), NEW ls \in 1 .. l
        PROVE  ls \in Seen(r) \/ [run |-> r, ls |-> ls] \in ToSet(skipped)
    <3>1. NothingToAdd
      BY <2>5 DEF OnTimeInv, Active
    <3>2. Summed = Len(accepted)
      <4>1. One(l1Info) = 0 /\ One(extracted) = 0 /\ Len(l1InfoFIFO) = 0
        BY <3>1 DEF One, NothingToAdd
      <4> QED
        BY <4>1, AcceptedType DEF Summed, Pending
    <3>3. PICK k \in 1 .. Summed : accepted[k].run = r /\ accepted[k].ls = l
      BY <2>5, <3>2, AcceptedType DEF Seen
    <3>4. \/ \E i \in 1 .. Summed : accepted[i].run = r /\ accepted[i].ls = ls
          \/ \E i \in DOMAIN skipped : skipped[i] = [run |-> r, ls |-> ls]
      BY <3>3 DEF LumiInv, SkippedInv
    <3> QED
      BY <3>2, <3>4, AcceptedType DEF Seen, ToSet
  <2> QED
    BY <2>3, <2>4, <2>5 DEF SkippedSectionsAreEmpty
<1>3. TypeInv /\ ClearInv /\ (late = {} => LumiInv) => PublishedIsTrue
  BY <1>1, <1>2, OnTime DEF PublishedIsTrue
<1> QED
  BY <1>3, TypeInvariant, ClearInvariant, LumiInvariant, PTL
=============================================================================
