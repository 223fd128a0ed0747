----------------------- MODULE EventIdProtocol_proofs -----------------------
(***************************************************************************)
(* Proofs about EventIdProtocol for every number of BUs, resources, event  *)
(* ids and triggers, and for every queue capacity the assumptions allow.   *)
(***************************************************************************)
EXTENDS EventIdProtocol, EvBidFactory_proofs, FiniteSetTheorems, TLAPS

-----------------------------------------------------------------------------
(* Maps: what Insert and Erase keep of the type of a partial function.     *)

LEMMA InsertMap ==
  ASSUME NEW S, NEW T, NEW f, IsMap(f, S, T), NEW k \in S, NEW v \in T
  PROVE  IsMap(Insert(f, k, v), S, T)
BY DEF IsMap, Insert

LEMMA EraseMap ==
  ASSUME NEW S, NEW T, NEW f, IsMap(f, S, T), NEW k
  PROVE  IsMap(Erase(f, k), S, T)
BY DEF IsMap, Erase

LEMMA UpdateMap ==
  ASSUME NEW S, NEW T, NEW f, IsMap(f, S, T), NEW k \in DOMAIN f, NEW v \in T
  PROVE  IsMap([f EXCEPT ![k] = v], S, T)
BY DEF IsMap

LEMMA QueueType ==
  ASSUME NEW S, NEW q \in Seq(S), NEW e \in S
  PROVE  /\ Append(q, e) \in Seq(S)
         /\ q # << >> => Head(q) \in S /\ Tail(q) \in Seq(S)
  OBVIOUS

-----------------------------------------------------------------------------
(* Every variable keeps its type.                                          *)

LEMMA InitTypeOK == Init => TypeOK
<1> SUFFICES ASSUME Init PROVE TypeOK
  OBVIOUS
<1>1. EvmTypeOK
  <2>1. evbIdFactory \in Factory
    BY DEF Init, NewEvBidFactory, Factory
  <2>2. IsMap(evbIdMap, EvBid, Nat) /\ IsMap(lumiSectionMap, Nat, Nat)
    BY DEF Init, IsMap
  <2> QED
    BY <2>1, <2>2, SMTT(30) DEF Init, EvmTypeOK, Failures
<1>2. FifoTypeOK
  BY DEF Init, FifoTypeOK
<1>3. ThreadTypeOK
  BY DEF Init, ThreadTypeOK, Idle, EolsTask
<1>4. NetTypeOK
  BY DEF Init, NetTypeOK
<1>5. BuTypeOK
  BY DEF Init, BuTypeOK, IsMap, BuFailures
<1> QED
  BY <1>1, <1>2, <1>3, <1>4, <1>5 DEF TypeOK

LEMMA NextTypeOK == TypeOK /\ [Next]_vars => TypeOK'
<1> SUFFICES ASSUME TypeOK, [Next]_vars
             PROVE  TypeOK'
  OBVIOUS
<1> USE DEF TypeOK, evmVars, fifoVars, threadVars, netVars, buVars
<1>1. ASSUME NEW b \in BUs, NEW r \in Resources, SendEvtIdRqst(b, r)
      PROVE  TypeOK'
  <2>1. Request(b, r) \in Element
    BY DEF Request, Element, NoEvBid, EvBid
  <2> QED
    BY <1>1, <2>1 DEF SendEvtIdRqst, EvmTypeOK, FifoTypeOK, ThreadTypeOK, NetTypeOK, BuTypeOK
<1>2. ASSUME NEW b \in BUs, NEW r \in Resources, HandleDiscard(b, r)
      PROVE  TypeOK'
  <2>1. IsMap(data[b], Resources, Event) /\ data[b][r] \in Event
    BY <1>2 DEF HandleDiscard, BuTypeOK, IsMap
  <2>2. IsMap(Erase(data[b], r), Resources, Event)
    BY <2>1, EraseMap
  <2>3. BuTypeOK'
    BY <1>2, <2>2 DEF HandleDiscard, BuTypeOK
  <2>4. NetTypeOK'
    BY <1>2, <2>1 DEF HandleDiscard, NetTypeOK, Element, Event
  <2> QED
    BY <1>2, <2>3, <2>4 DEF HandleDiscard, EvmTypeOK, FifoTypeOK, ThreadTypeOK
<1>3. ASSUME NEW b \in BUs, ResourceMonitoring(b)
      PROVE  TypeOK'
  BY <1>3 DEF ResourceMonitoring, EvmTypeOK, FifoTypeOK, ThreadTypeOK, NetTypeOK, BuTypeOK
<1>4. ASSUME NEW m \in confirms, StartConstruction(m)
      PROVE  TypeOK'
  <2>1. /\ m.bu \in BUs /\ m.resource \in Resources
        /\ [evbId |-> m.evbId, lumiSection |-> m.lumiSection] \in Event
    BY DEF NetTypeOK, Confirm, Event
  <2>2. IsMap(Insert(data[m.bu], m.resource, [evbId |-> m.evbId, lumiSection |-> m.lumiSection]),
              Resources, Event)
    BY <2>1, InsertMap DEF BuTypeOK
  <2>3. BuTypeOK'
    BY <1>4, <2>1, <2>2 DEF StartConstruction, BuTypeOK, BuFailures
  <2> QED
    BY <1>4, <2>3 DEF StartConstruction, EvmTypeOK, FifoTypeOK, ThreadTypeOK, NetTypeOK
<1>5. ASSUME NEW m \in lumiSectionMsgs, EvmLumisection(m)
      PROVE  TypeOK'
  <2>1. m.bu \in BUs /\ m.resource \in Resources /\ m.lumiSection \in Nat
    BY DEF NetTypeOK, EolsMsg
  <2>2. Request(m.bu, m.resource) \in Element
    BY <2>1 DEF Request, Element, NoEvBid, EvBid
  <2>3. BuTypeOK'
    BY <1>5, <2>1 DEF EvmLumisection, BuTypeOK, BuFailures
  <2> QED
    BY <1>5, <2>2, <2>3 DEF EvmLumisection, EvmTypeOK, FifoTypeOK, ThreadTypeOK, NetTypeOK
<1>6. ASSUME NEW m \in allocateClears,
             AnswerRequestWithEoLS(m) \/ AcceptRequest(m) \/ AcceptRelease(m) \/ DiscardAllocateClear(m)
      PROVE  TypeOK'
  <2>1. m \in Element /\ m.bu \in BUs /\ m.resource \in Resources
    BY DEF NetTypeOK, Element
  <2>2. Releasing(m) \in SUBSET Element
    BY <2>1 DEF Releasing
  <2>3. CASE AnswerRequestWithEoLS(m)
    <3>1. Head(eolsFIFOs[m.bu]) \in Nat /\ Tail(eolsFIFOs[m.bu]) \in Seq(Nat)
      BY <2>1, <2>3 DEF AnswerRequestWithEoLS, FifoTypeOK
    <3>2. [bu |-> m.bu, resource |-> m.resource, lumiSection |-> Head(eolsFIFOs[m.bu])] \in EolsMsg
      BY <2>1, <3>1 DEF EolsMsg
    <3>3. FifoTypeOK'
      BY <2>3, <3>1 DEF AnswerRequestWithEoLS, FifoTypeOK
    <3> QED
      BY <2>2, <2>3, <3>2, <3>3 DEF AnswerRequestWithEoLS, EvmTypeOK, ThreadTypeOK, NetTypeOK, BuTypeOK
  <2>4. CASE AcceptRequest(m)
    BY <2>1, <2>4 DEF AcceptRequest, EvmTypeOK, FifoTypeOK, ThreadTypeOK, NetTypeOK, BuTypeOK
  <2>5. CASE AcceptRelease(m)
    BY <2>2, <2>5 DEF AcceptRelease, EvmTypeOK, FifoTypeOK, ThreadTypeOK, NetTypeOK, BuTypeOK
  <2>6. CASE DiscardAllocateClear(m)
    BY <2>6 DEF DiscardAllocateClear, EvmTypeOK, FifoTypeOK, ThreadTypeOK, NetTypeOK, BuTypeOK
  <2> QED
    BY <1>6, <2>3, <2>4, <2>5, <2>6
<1>7. ASSUME NEW m \in i2oRequest, EnqueueRequest(m)
      PROVE  TypeOK'
  <2>1. m \in Element /\ m.bu \in BUs /\ m.resource \in Resources
    BY DEF ThreadTypeOK, Element
  <2>2. Releasing(m) \in SUBSET Element
    BY <2>1 DEF Releasing
  <2>3. FifoTypeOK'
    BY <1>7, <2>1 DEF EnqueueRequest, FifoTypeOK
  <2> QED
    BY <1>7, <2>2, <2>3 DEF EnqueueRequest, EvmTypeOK, ThreadTypeOK, NetTypeOK, BuTypeOK
<1>8. ASSUME NEW m \in i2oRelease, ReleaseEvent(m)
      PROVE  TypeOK'
  <2>1. m.evbId \in EvBid
    BY DEF ThreadTypeOK, Element
  <2>2. FifoTypeOK'
    BY <1>8, <2>1 DEF ReleaseEvent, FifoTypeOK
  <2> QED
    BY <1>8, <2>2 DEF ReleaseEvent, EvmTypeOK, ThreadTypeOK, NetTypeOK, BuTypeOK
<1>9. ASSUME ProcessNextReleasedEvent
      PROVE  TypeOK'
  <2> DEFINE id == Head(releasedEvbIdFIFO)
             ls == evbIdMap[id]
  <2>1. FifoTypeOK'
    BY <1>9 DEF ProcessNextReleasedEvent, FifoTypeOK
  <2>2. id \in DOMAIN evbIdMap => ls \in Nat
    BY DEF EvmTypeOK, IsMap
  <2>3. IsMap(Erase(evbIdMap, id), EvBid, Nat)
    BY EraseMap DEF EvmTypeOK
  <2>4. ASSUME ls \in DOMAIN lumiSectionMap, lumiSectionMap[ls] > 0
        PROVE  IsMap([lumiSectionMap EXCEPT ![ls] = @ - 1], Nat, Nat)
    BY <2>4 DEF EvmTypeOK, IsMap
  <2>5. IsMap(evbIdMap', EvBid, Nat) /\ IsMap(lumiSectionMap', Nat, Nat)
    BY <1>9, <2>3, <2>4 DEF ProcessNextReleasedEvent, EvmTypeOK
  <2>6. failure' \in Failures
    BY <1>9 DEF ProcessNextReleasedEvent, EvmTypeOK, Failures
  <2>7. nbEvtsInBuilder' \in Int
    BY <1>9 DEF ProcessNextReleasedEvent, EvmTypeOK
  <2>8. workloopAt' \in {"doWork", "sendEoLSsignal"}
    BY <1>9 DEF ProcessNextReleasedEvent, EvmTypeOK, NextWorkloopAt
  <2>9. EvmTypeOK'
    BY <1>9, <2>5, <2>6, <2>7, <2>8 DEF ProcessNextReleasedEvent, EvmTypeOK
  <2> QED
    BY <1>9, <2>1, <2>9 DEF ProcessNextReleasedEvent, ThreadTypeOK, NetTypeOK, BuTypeOK
<1>10. ASSUME SendEoLSsignal
       PROVE  TypeOK'
  <2>1. PICK ls \in CompletedIn(lumiSectionMap, currentLumiSection) :
          /\ completedLumiSectionFIFO' = Append(completedLumiSectionFIFO, ls)
          /\ lumiSectionMap' = Erase(lumiSectionMap, ls)
          /\ workloopAt' = NextWorkloopAt
    BY <1>10 DEF SendEoLSsignal
  <2>2. ls \in Nat
    BY DEF CompletedIn, EvmTypeOK, IsMap
  <2>3. IsMap(lumiSectionMap', Nat, Nat)
    BY <2>1, EraseMap DEF EvmTypeOK
  <2>4. FifoTypeOK'
    BY <1>10, <2>1, <2>2 DEF SendEoLSsignal, FifoTypeOK
  <2>5. workloopAt' \in {"doWork", "sendEoLSsignal"}
    BY <2>1 DEF NextWorkloopAt
  <2>6. EvmTypeOK'
    BY <1>10, <2>3, <2>5 DEF SendEoLSsignal, EvmTypeOK
  <2> QED
    BY <1>10, <2>4, <2>6 DEF SendEoLSsignal, ThreadTypeOK, NetTypeOK, BuTypeOK
<1>11. ASSUME RejectMalformedTrigger
       PROVE  TypeOK'
  BY <1>11 DEF RejectMalformedTrigger, TriggerAvailable, EvmTypeOK, Failures, FifoTypeOK,
               ThreadTypeOK, NetTypeOK, BuTypeOK
<1>12. ASSUME NEW n \in EventNumbers, NEW ls \in LumiSections, RejectLumiSection(n, ls)
       PROVE  TypeOK'
  <2>1. evbIdFactory' \in Factory
    BY <1>12, SetsAssumption, GetEvBidType DEF RejectLumiSection, EvmTypeOK
  <2> QED
    BY <1>12, <2>1 DEF RejectLumiSection, TriggerAvailable, EvmTypeOK, Failures, FifoTypeOK,
                       ThreadTypeOK, NetTypeOK, BuTypeOK
<1>13. ASSUME NEW n \in EventNumbers, NEW ls \in LumiSections, AcceptTrigger(n, ls)
       PROVE  TypeOK'
  <2> DEFINE id == GetEvBid(evbIdFactory, n)
  <2>1. n \in Nat /\ ls \in Nat
    BY SetsAssumption
  <2>2. evbIdFactory' \in Factory /\ id \in EvBid
    BY <1>13, <2>1, GetEvBidType DEF AcceptTrigger, EvmTypeOK
  <2>3. IsMap(Insert(evbIdMap, id, ls), EvBid, Nat)
    BY <2>1, <2>2, InsertMap DEF EvmTypeOK
  <2>4. [evbId |-> id, lumiSection |-> ls] \in Event
    BY <2>1, <2>2 DEF Event
  <2>5. CountOf(ls) + 1 \in Nat
    BY DEF CountOf, EvmTypeOK, IsMap
  <2>6. IsMap(Insert(lumiSectionMap, ls, CountOf(ls) + 1), Nat, Nat)
    BY <2>1, <2>5, InsertMap DEF EvmTypeOK
  <2>7. currentLumiSection' \in Nat /\ IsMap(lumiSectionMap', Nat, Nat) /\ l1InfoFIFO' \in Seq(Nat)
    <3>1. CASE ls = 0
      BY <1>13, <3>1 DEF AcceptTrigger, IncrementEventsInRuBuilder, EvmTypeOK, FifoTypeOK
    <3>2. CASE ls # 0
      <4>1. /\ currentLumiSection' = ls
            /\ lumiSectionMap' = Insert(lumiSectionMap, ls, CountOf(ls) + 1)
            /\ l1InfoFIFO' = Append(l1InfoFIFO, ls)
        BY <1>13, <3>2 DEF AcceptTrigger, IncrementEventsInRuBuilder
      <4> QED
        BY <2>1, <2>6, <4>1 DEF FifoTypeOK
    <3> QED
      BY <3>1, <3>2
  <2>8. /\ IsMap(evbIdMap', EvBid, Nat) /\ eventFIFO' \in Seq(Event)
        /\ nbEvtsInBuilder' \in Int /\ failure' \in Failures
    <3>1. /\ evbIdMap' \in {evbIdMap, Insert(evbIdMap, id, ls)}
          /\ eventFIFO' \in {eventFIFO, Append(eventFIFO, [evbId |-> id, lumiSection |-> ls])}
          /\ nbEvtsInBuilder' \in {nbEvtsInBuilder, nbEvtsInBuilder + 1}
          /\ failure' \in {failure, "DuplicateEvBid", "EventFIFOFull"}
      BY <1>13, Zenon DEF AcceptTrigger
    <3>2. eventFIFO' \in Seq(Event)
      <4> DEFINE event == [evbId |-> id, lumiSection |-> ls]
      <4>1. eventFIFO' = eventFIFO \/ eventFIFO' = Append(eventFIFO, event)
        BY <3>1, Zenon
      <4> HIDE DEF event
      <4>2. event \in Event
        BY <2>4 DEF event
      <4>3. Append(eventFIFO, event) \in Seq(Event)
        BY <4>2, QueueType DEF FifoTypeOK
      <4> QED
        BY <4>1, <4>3 DEF FifoTypeOK
    <3>3. IsMap(evbIdMap', EvBid, Nat)
      <4>1. evbIdMap' = evbIdMap \/ evbIdMap' = Insert(evbIdMap, id, ls)
        BY <3>1, Zenon
      <4> QED
        BY <2>3, <4>1, Zenon DEF EvmTypeOK
    <3> QED
      <4>1. nbEvtsInBuilder' \in Int
        BY <3>1 DEF EvmTypeOK
      <4>2. failure' \in Failures
        BY <3>1 DEF EvmTypeOK, Failures
      <4> QED
        BY <3>2, <3>3, <4>1, <4>2
  <2>9. EvmTypeOK'
    BY <1>13, <2>2, <2>7, <2>8 DEF AcceptTrigger, TriggerAvailable, EvmTypeOK
  <2>10. FifoTypeOK'
    BY <1>13, <2>7, <2>8 DEF AcceptTrigger, FifoTypeOK
  <2> QED
    BY <1>13, <2>9, <2>10 DEF AcceptTrigger, ThreadTypeOK, NetTypeOK, BuTypeOK
<1>14. ASSUME NEW b \in BUs, ServiceBuRqst(b)
       PROVE  TypeOK'
  <2>1. /\ requestFIFOs[b] \in Seq(Resources) /\ requestFIFOs[b] # << >>
        /\ eventFIFO \in Seq(Event) /\ eventFIFO # << >>
    BY <1>14 DEF ServiceBuRqst, FifoTypeOK
  <2>2. /\ Head(requestFIFOs[b]) \in Resources /\ Tail(requestFIFOs[b]) \in Seq(Resources)
        /\ Head(eventFIFO) \in Event /\ Tail(eventFIFO) \in Seq(Event)
    BY <2>1
  <2>3. [bu |-> b, resource |-> Head(requestFIFOs[b]), evbId |-> Head(eventFIFO).evbId,
         lumiSection |-> Head(eventFIFO).lumiSection] \in Confirm
    BY <2>2 DEF Event, Confirm
  <2>4. FifoTypeOK'
    BY <1>14, <2>2 DEF ServiceBuRqst, FifoTypeOK
  <2> QED
    BY <1>14, <2>3, <2>4 DEF ServiceBuRqst, EvmTypeOK, ThreadTypeOK, NetTypeOK, BuTypeOK
<1>15. ASSUME L1InfoWorkloop
       PROVE  TypeOK'
  <2>1. infoLumiSection + 1 \in Nat
    BY DEF ThreadTypeOK
  <2>2. l1InfoFIFO # << >> => Head(l1InfoFIFO) \in Nat /\ Tail(l1InfoFIFO) \in Seq(Nat)
    BY DEF FifoTypeOK
  <2>3. CASE AnnounceSkippedLumiSection
    <3>1. FifoTypeOK'
      BY <2>1, <2>3 DEF AnnounceSkippedLumiSection, FifoTypeOK
    <3> QED
      BY <2>1, <2>3, <3>1 DEF AnnounceSkippedLumiSection, EvmTypeOK, ThreadTypeOK, NetTypeOK, BuTypeOK
  <2>4. CASE AddLumiSectionInfo
    <3>1. FifoTypeOK'
      BY <2>2, <2>4 DEF AddLumiSectionInfo, FifoTypeOK
    <3> QED
      BY <2>2, <2>4, <3>1 DEF AddLumiSectionInfo, EvmTypeOK, ThreadTypeOK, NetTypeOK, BuTypeOK
  <2> QED
    BY <1>15, <2>3, <2>4 DEF L1InfoWorkloop
<1>16. ASSUME TakeCompletedLumiSection
       PROVE  TypeOK'
  BY <1>16 DEF TakeCompletedLumiSection, EvmTypeOK, FifoTypeOK, ThreadTypeOK, EolsTask,
               NetTypeOK, BuTypeOK
<1>17. ASSUME NEW b \in BUs, SendEoLSToRequest(b)
       PROVE  TypeOK'
  <2>1. Head(requestFIFOs[b]) \in Resources /\ Tail(requestFIFOs[b]) \in Seq(Resources)
    BY <1>17 DEF SendEoLSToRequest, FifoTypeOK
  <2>2. eolsTask.lumiSection \in Nat
    BY DEF ThreadTypeOK, EolsTask
  <2>3. [bu |-> b, resource |-> Head(requestFIFOs[b]), lumiSection |-> eolsTask.lumiSection]
          \in EolsMsg
    BY <2>1, <2>2 DEF EolsMsg
  <2>4. FifoTypeOK' /\ ThreadTypeOK'
    BY <1>17, <2>1 DEF SendEoLSToRequest, FifoTypeOK, ThreadTypeOK, EolsTask
  <2> QED
    BY <1>17, <2>3, <2>4 DEF SendEoLSToRequest, EvmTypeOK, NetTypeOK, BuTypeOK
<1>18. ASSUME NEW b \in BUs, FindNoRequest(b) \/ EnqueueEoLS(b) \/ DropEoLS(b)
       PROVE  TypeOK'
  <2>1. eolsTask.lumiSection \in Nat /\ eolsTask.todo \in SUBSET BUs
    BY DEF ThreadTypeOK, EolsTask
  <2>2. ThreadTypeOK'
    BY <1>18, <2>1 DEF FindNoRequest, EnqueueEoLS, DropEoLS, ThreadTypeOK, EolsTask
  <2>3. FifoTypeOK'
    <3>1. eolsFIFOs[b] \in Seq(Nat) /\ Append(eolsFIFOs[b], eolsTask.lumiSection) \in Seq(Nat)
      BY <2>1 DEF FifoTypeOK
    <3>2. CASE EnqueueEoLS(b)
      BY <3>1, <3>2 DEF EnqueueEoLS, FifoTypeOK
    <3>3. CASE FindNoRequest(b) \/ DropEoLS(b)
      BY <3>3 DEF FindNoRequest, DropEoLS, FifoTypeOK
    <3> QED
      BY <1>18, <3>2, <3>3
  <2> QED
    BY <1>18, <2>2, <2>3 DEF FindNoRequest, EnqueueEoLS, DropEoLS, EvmTypeOK, NetTypeOK, BuTypeOK
<1>19. CASE UNCHANGED vars
  BY <1>19 DEF vars, EvmTypeOK, FifoTypeOK, ThreadTypeOK, NetTypeOK, BuTypeOK
<1> QED
  BY <1>1, <1>2, <1>3, <1>4, <1>5, <1>6, <1>7, <1>8, <1>9, <1>10, <1>11, <1>12, <1>13, <1>14,
     <1>15, <1>16, <1>17, <1>18, <1>19
     DEF Next, BuStep, BuReceive, I2oThread, Trigger, ProcessingWorkloop, EoLSWorkloop

\* Type correctness: the messages, queues and maps of the protocol hold what the
\* code declares (the structs of I2OMessages.h, the typedefs of BUproxy.h).
THEOREM TypeCorrect == Spec => []TypeOK
BY InitTypeOK, NextTypeOK, PTL DEF Spec

-----------------------------------------------------------------------------
(***************************************************************************)
(* The proof that a BU's resource id is always in exactly one place.       *)
(***************************************************************************)

LEMMA QueueAppend ==
  ASSUME NEW S, NEW q \in Seq(S), NEW e \in S
  PROVE  /\ ToSet(Append(q, e)) = ToSet(q) \cup {e}
         /\ IsInjective(q) /\ e \notin ToSet(q) => IsInjective(Append(q, e))
<1>1. Append(q, e) \in Seq(S) /\ Len(Append(q, e)) = Len(q) + 1 /\ DOMAIN q = 1..Len(q)
  OBVIOUS
<1>2. DOMAIN Append(q, e) = 1..(Len(q) + 1)
  BY <1>1
<1>3. \A i \in 1..Len(q) : Append(q, e)[i] = q[i]
  OBVIOUS
<1>4. Append(q, e)[Len(q) + 1] = e
  OBVIOUS
<1>5. ToSet(Append(q, e)) = ToSet(q) \cup {e}
  BY <1>1, <1>2, <1>3, <1>4 DEF ToSet
<1>6. ASSUME IsInjective(q), e \notin ToSet(q)
      PROVE  IsInjective(Append(q, e))
  BY <1>1, <1>2, <1>3, <1>4, <1>6 DEF ToSet, IsInjective
<1> QED
  BY <1>5, <1>6

LEMMA QueueTail ==
  ASSUME NEW S, NEW q \in Seq(S), q # << >>
  PROVE  /\ Head(q) \in ToSet(q)
         /\ ToSet(q) = ToSet(Tail(q)) \cup {Head(q)}
         /\ IsInjective(q) => IsInjective(Tail(q)) /\ Head(q) \notin ToSet(Tail(q))
<1>1. /\ Tail(q) \in Seq(S) /\ Len(Tail(q)) = Len(q) - 1 /\ Len(q) \in Nat /\ Len(q) > 0
      /\ DOMAIN q = 1..Len(q) /\ DOMAIN Tail(q) = 1..(Len(q) - 1) /\ Head(q) = q[1]
  OBVIOUS
<1>2. \A i \in 1..(Len(q) - 1) : Tail(q)[i] = q[i + 1]
  OBVIOUS
<1>3. \A i \in 1..Len(q) : i = 1 \/ (i - 1 \in 1..(Len(q) - 1) /\ Tail(q)[i - 1] = q[i])
  BY <1>1, <1>2
<1>4. ToSet(q) = ToSet(Tail(q)) \cup {Head(q)}
  <2>1. ToSet(q) = { q[i] : i \in 1..Len(q) } /\ ToSet(Tail(q)) = { Tail(q)[i] : i \in 1..(Len(q) - 1) }
    BY <1>1 DEF ToSet
  <2>2. \A i \in 1..(Len(q) - 1) : i + 1 \in 1..Len(q)
    BY <1>1
  <2>3. \A x \in ToSet(q) : x \in ToSet(Tail(q)) \cup {Head(q)}
    BY <1>1, <1>3, <2>1
  <2>4. \A x \in ToSet(Tail(q)) : x \in ToSet(q)
    BY <1>2, <2>1, <2>2
  <2>5. Head(q) \in ToSet(q)
    BY <1>1, <2>1
  <2> QED
    BY <2>3, <2>4, <2>5
<1>5. IsInjective(q) => IsInjective(Tail(q)) /\ Head(q) \notin ToSet(Tail(q))
  <2> SUFFICES ASSUME IsInjective(q)
               PROVE  IsInjective(Tail(q)) /\ Head(q) \notin ToSet(Tail(q))
    OBVIOUS
  <2>1. \A i, j \in 1..Len(q) : q[i] = q[j] => i = j
    BY <1>1 DEF IsInjective
  <2>2. \A i \in 1..(Len(q) - 1) : i + 1 \in 1..Len(q) /\ i + 1 # 1 /\ 1 \in 1..Len(q)
    BY <1>1
  <2>3. \A i, j \in 1..(Len(q) - 1) : i + 1 = j + 1 => i = j
    BY <1>1
  <2>4. IsInjective(Tail(q))
    BY <1>1, <1>2, <2>1, <2>2, <2>3 DEF IsInjective
  <2>5. \A i \in 1..(Len(q) - 1) : Tail(q)[i] # q[1]
    BY <1>2, <2>1, <2>2
  <2> QED
    BY <1>1, <2>4, <2>5 DEF ToSet
<1> QED
  BY <1>4, <1>5

-----------------------------------------------------------------------------
(***************************************************************************)
(* The places of a resource id, one predicate each.                        *)
(***************************************************************************)
Free(b, r)  == r \in freeResourceIds[b]
Holds(b, r) == r \in DOMAIN data[b]

OnePlace(b, r) ==
  Count(Free(b, r)) + Count(Holds(b, r)) + Count(Requested(b, r)) + Count(Queued(b, r))
    + Count(Confirmed(b, r)) + Count(Notified(b, r)) = 1

Places ==
  /\ \A b \in BUs, r \in Resources : OnePlace(b, r)
  /\ allocateClears \cap i2oRequest = {}
  /\ SameResource(Requests) /\ SameResource(confirms) /\ SameResource(lumiSectionMsgs)
  /\ \A b \in BUs : IsInjective(requestFIFOs[b])

\* The I2O thread holds one element at a time, and only while it requests.
I2oOne ==
  /\ \A m, n \in i2oRequest : m = n
  /\ \A m \in i2oRequest : "REQUEST" \in m.requestType

ResourceInv == TypeOK /\ I2oOne /\ (failure = "none" => Places)

LEMMA PlacesIsProperty == (failure = "none" => Places) <=> ResourceInOnePlace
BY DEF Places, OnePlace, Free, Holds, ResourceInOnePlace

LEMMA InitResource == Init => I2oOne /\ Places
<1> SUFFICES ASSUME Init PROVE I2oOne /\ Places
  OBVIOUS
<1>1. \A b \in BUs, r \in Resources :
        Free(b, r) /\ ~Holds(b, r) /\ ~Requested(b, r) /\ ~Queued(b, r)
        /\ ~Confirmed(b, r) /\ ~Notified(b, r)
  BY DEF Init, Free, Holds, Requested, Requests, Queued, Confirmed, Notified, ToSet
<1>2. \A b \in BUs, r \in Resources : OnePlace(b, r)
  BY <1>1 DEF OnePlace, Count
<1>3. \A b \in BUs : IsInjective(requestFIFOs[b])
  BY DEF Init, IsInjective
<1> QED
  BY <1>2, <1>3 DEF Init, Places, I2oOne, SameResource, Requests

LEMMA AddRequest ==
  ASSUME NEW m, Requests' = Requests \cup {m}
  PROVE  /\ \A b \in BUs, r \in Resources :
              Requested(b, r)' <=> Requested(b, r) \/ (b = m.bu /\ r = m.resource)
         /\ SameResource(Requests) /\ ~Requested(m.bu, m.resource) => SameResource(Requests)'
BY DEF Requested, SameResource

LEMMA RemoveRequest ==
  ASSUME NEW m \in Requests, SameResource(Requests), Requests' = Requests \ {m}
  PROVE  /\ \A b \in BUs, r \in Resources :
              Requested(b, r)' <=> Requested(b, r) /\ ~(b = m.bu /\ r = m.resource)
         /\ Requested(m.bu, m.resource)
         /\ SameResource(Requests)'
BY DEF Requested, SameResource

LEMMA SendEvtIdRqstPlaces ==
  ASSUME TypeOK, I2oOne, Places, NEW b \in BUs, NEW r \in Resources, SendEvtIdRqst(b, r)
  PROVE  Places'
<1> DEFINE m == Request(b, r)
<1>1. Free(b, r) /\ ~Requested(b, r)
  BY DEF SendEvtIdRqst, Free, Places, OnePlace, Count
<1>2. \A c \in BUs, s \in Resources : Free(c, s)' <=> Free(c, s) /\ ~(c = b /\ s = r)
  BY DEF SendEvtIdRqst, Free, TypeOK, BuTypeOK
<1>3. m.bu = b /\ m.resource = r /\ "REQUEST" \in m.requestType
  BY DEF Request
<1>4. Requests' = Requests \cup {m} /\ allocateClears' = allocateClears \cup {m}
  BY <1>3 DEF SendEvtIdRqst, Requests, threadVars
<1> HIDE DEF m
<1>5. /\ \A c \in BUs, s \in Resources : Requested(c, s)' <=> Requested(c, s) \/ (c = b /\ s = r)
      /\ SameResource(Requests)'
  BY <1>1, <1>3, <1>4, AddRequest DEF Places
<1>6. \A c \in BUs, s \in Resources :
        /\ Holds(c, s)' <=> Holds(c, s)
        /\ Queued(c, s)' <=> Queued(c, s)
        /\ Confirmed(c, s)' <=> Confirmed(c, s)
        /\ Notified(c, s)' <=> Notified(c, s)
  BY DEF SendEvtIdRqst, Holds, Queued, Confirmed, Notified, fifoVars
<1>7. \A c \in BUs, s \in Resources : OnePlace(c, s)'
  BY <1>1, <1>2, <1>5, <1>6 DEF Places, OnePlace, Count
<1>8. m \notin i2oRequest
  BY <1>1, <1>3 DEF Requested, Requests
<1> QED
  BY <1>4, <1>5, <1>7, <1>8 DEF Places, SendEvtIdRqst, SameResource, fifoVars, threadVars

LEMMA HandleDiscardPlaces ==
  ASSUME TypeOK, I2oOne, Places, NEW b \in BUs, NEW r \in Resources, HandleDiscard(b, r)
  PROVE  Places'
<1> DEFINE m == [bu |-> b, resource |-> r, evbId |-> data[b][r].evbId,
                 requestType |-> {"RELEASE"} \cup (IF b \in requestEvents THEN {"REQUEST"} ELSE {})]
<1>1. Holds(b, r) /\ ~Free(b, r) /\ ~Requested(b, r)
  BY DEF HandleDiscard, Holds, Places, OnePlace, Count
<1>2. \A c \in BUs, s \in Resources : Holds(c, s)' <=> Holds(c, s) /\ ~(c = b /\ s = r)
  BY DEF HandleDiscard, Holds, Erase, TypeOK, BuTypeOK
<1>3. m.bu = b /\ m.resource = r /\ ("REQUEST" \in m.requestType <=> b \in requestEvents)
  OBVIOUS
<1>4. allocateClears' = allocateClears \cup {m} /\ UNCHANGED i2oRequest
  BY DEF HandleDiscard, threadVars
<1> HIDE DEF m
<1>5. \A c \in BUs, s \in Resources :
        /\ Queued(c, s)' <=> Queued(c, s)
        /\ Confirmed(c, s)' <=> Confirmed(c, s)
        /\ Notified(c, s)' <=> Notified(c, s)
  BY DEF HandleDiscard, Queued, Confirmed, Notified, fifoVars
<1>6. m \notin i2oRequest
  BY <1>1, <1>3 DEF Requested, Requests, I2oOne
<1>7. CASE b \in requestEvents
  <2>1. Requests' = Requests \cup {m}
    BY <1>3, <1>4, <1>7 DEF Requests
  <2>2. /\ \A c \in BUs, s \in Resources : Requested(c, s)' <=> Requested(c, s) \/ (c = b /\ s = r)
        /\ SameResource(Requests)'
    BY <1>1, <1>3, <2>1, AddRequest DEF Places
  <2>3. \A c \in BUs, s \in Resources : Free(c, s)' <=> Free(c, s)
    BY <1>7 DEF HandleDiscard, Free
  <2>4. \A c \in BUs, s \in Resources : OnePlace(c, s)'
    BY <1>1, <1>2, <1>5, <2>2, <2>3 DEF Places, OnePlace, Count
  <2> QED
    BY <1>4, <1>6, <2>2, <2>4 DEF Places, HandleDiscard, SameResource, fifoVars
<1>8. CASE b \notin requestEvents
  <2>1. Requests' = Requests
    BY <1>3, <1>4, <1>8 DEF Requests
  <2>2. \A c \in BUs, s \in Resources : Requested(c, s)' <=> Requested(c, s)
    BY <2>1 DEF Requested
  <2>3. \A c \in BUs, s \in Resources : Free(c, s)' <=> Free(c, s) \/ (c = b /\ s = r)
    BY <1>8 DEF HandleDiscard, Free, TypeOK, BuTypeOK
  <2>4. \A c \in BUs, s \in Resources : OnePlace(c, s)'
    BY <1>1, <1>2, <1>5, <2>2, <2>3 DEF Places, OnePlace, Count
  <2> QED
    BY <1>4, <1>6, <2>1, <2>4 DEF Places, HandleDiscard, SameResource, fifoVars
<1> QED
  BY <1>7, <1>8

LEMMA StartConstructionPlaces ==
  ASSUME TypeOK, I2oOne, Places, NEW m \in confirms, StartConstruction(m)
  PROVE  Places'
<1>1. m.bu \in BUs /\ m.resource \in Resources
  BY DEF TypeOK, NetTypeOK, Confirm
<1>2. Confirmed(m.bu, m.resource)
  BY DEF Confirmed
<1>3. ~Holds(m.bu, m.resource)
  BY <1>1, <1>2 DEF Places, OnePlace, Count
<1>4. confirms' = confirms \ {m} /\ SameResource(confirms)
  BY DEF StartConstruction, Places
<1>5. \A c \in BUs, s \in Resources :
        Confirmed(c, s)' <=> Confirmed(c, s) /\ ~(c = m.bu /\ s = m.resource)
  BY <1>4 DEF Confirmed, SameResource
<1>6. \A c \in BUs, s \in Resources :
        Holds(c, s)' <=> Holds(c, s) \/ (c = m.bu /\ s = m.resource)
  BY <1>1, <1>3 DEF StartConstruction, Holds, Insert, TypeOK, BuTypeOK
<1>7. \A c \in BUs, s \in Resources :
        /\ Free(c, s)' <=> Free(c, s)
        /\ Requested(c, s)' <=> Requested(c, s)
        /\ Queued(c, s)' <=> Queued(c, s)
        /\ Notified(c, s)' <=> Notified(c, s)
  BY DEF StartConstruction, Free, Requested, Requests, Queued, Notified, fifoVars, threadVars
<1>8. \A c \in BUs, s \in Resources : OnePlace(c, s)'
  BY <1>1, <1>2, <1>3, <1>5, <1>6, <1>7 DEF Places, OnePlace, Count
<1>9. Requests' = Requests /\ SameResource(confirms)'
  BY <1>4 DEF StartConstruction, Requests, threadVars, SameResource
<1> QED
  BY <1>8, <1>9 DEF Places, StartConstruction, SameResource, fifoVars, threadVars

LEMMA EvmLumisectionPlaces ==
  ASSUME TypeOK, I2oOne, Places, NEW n \in lumiSectionMsgs, EvmLumisection(n)
  PROVE  Places'
<1> DEFINE m == Request(n.bu, n.resource)
<1>1. n.bu \in BUs /\ n.resource \in Resources
  BY DEF TypeOK, NetTypeOK, EolsMsg
<1>2. Notified(n.bu, n.resource)
  BY DEF Notified
<1>3. ~Requested(n.bu, n.resource)
  BY <1>1, <1>2 DEF Places, OnePlace, Count
<1>4. lumiSectionMsgs' = lumiSectionMsgs \ {n} /\ SameResource(lumiSectionMsgs)
  BY DEF EvmLumisection, Places
<1>5. \A c \in BUs, s \in Resources :
        Notified(c, s)' <=> Notified(c, s) /\ ~(c = n.bu /\ s = n.resource)
  BY <1>4 DEF Notified, SameResource
<1>6. m.bu = n.bu /\ m.resource = n.resource /\ "REQUEST" \in m.requestType
  BY DEF Request
<1>7. Requests' = Requests \cup {m} /\ allocateClears' = allocateClears \cup {m}
  BY <1>6 DEF EvmLumisection, Requests, threadVars
<1> HIDE DEF m
<1>8. /\ \A c \in BUs, s \in Resources :
           Requested(c, s)' <=> Requested(c, s) \/ (c = n.bu /\ s = n.resource)
      /\ SameResource(Requests)'
  BY <1>3, <1>6, <1>7, AddRequest DEF Places
<1>9. \A c \in BUs, s \in Resources :
        /\ Free(c, s)' <=> Free(c, s)
        /\ Holds(c, s)' <=> Holds(c, s)
        /\ Queued(c, s)' <=> Queued(c, s)
        /\ Confirmed(c, s)' <=> Confirmed(c, s)
  BY DEF EvmLumisection, Free, Holds, Queued, Confirmed, fifoVars
<1>10. \A c \in BUs, s \in Resources : OnePlace(c, s)'
  BY <1>1, <1>2, <1>3, <1>5, <1>8, <1>9 DEF Places, OnePlace, Count
<1>11. m \notin i2oRequest
  BY <1>3, <1>6 DEF Requested, Requests
<1>12. SameResource(lumiSectionMsgs)'
  BY <1>4 DEF SameResource
<1> QED
  BY <1>7, <1>8, <1>10, <1>11, <1>12 DEF Places, EvmLumisection, SameResource, fifoVars, threadVars

-----------------------------------------------------------------------------
(***************************************************************************)
(* The I2O thread.                                                         *)
(***************************************************************************)
LEMMA I2oAcceptPlaces ==
  ASSUME TypeOK, I2oOne, Places, NEW m \in allocateClears,
         AcceptRequest(m) \/ AcceptRelease(m)
  PROVE  Places'
<1>1. /\ allocateClears' = allocateClears \ {m} /\ i2oRequest = {}
      /\ UNCHANGED << requestFIFOs, confirms, lumiSectionMsgs, freeResourceIds, data >>
  BY DEF AcceptRequest, AcceptRelease, I2oIdle, fifoVars, buVars
<1>2. i2oRequest' = IF "REQUEST" \in m.requestType THEN {m} ELSE {}
  BY DEF AcceptRequest, AcceptRelease, I2oIdle
<1>3. Requests' = Requests
  BY <1>1, <1>2 DEF Requests
<1>4. \A c \in BUs, s \in Resources : OnePlace(c, s)' <=> OnePlace(c, s)
  BY <1>1, <1>3 DEF OnePlace, Free, Holds, Requested, Queued, Confirmed, Notified
<1> QED
  BY <1>1, <1>2, <1>3, <1>4 DEF Places, SameResource

LEMMA AnswerRequestWithEoLSPlaces ==
  ASSUME TypeOK, I2oOne, Places, NEW m \in allocateClears, AnswerRequestWithEoLS(m)
  PROVE  Places'
<1> DEFINE n == [bu |-> m.bu, resource |-> m.resource, lumiSection |-> Head(eolsFIFOs[m.bu])]
<1>1. m.bu \in BUs /\ m.resource \in Resources
  BY DEF TypeOK, NetTypeOK, Element
<1>2. /\ allocateClears' = allocateClears \ {m} /\ i2oRequest = {} /\ UNCHANGED i2oRequest
      /\ "REQUEST" \in m.requestType
      /\ UNCHANGED << requestFIFOs, confirms, freeResourceIds, data >>
  BY DEF AnswerRequestWithEoLS, I2oIdle, buVars
<1>3. Requests' = Requests \ {m} /\ m \in Requests
  BY <1>2 DEF Requests
<1>4. n.bu = m.bu /\ n.resource = m.resource /\ lumiSectionMsgs' = lumiSectionMsgs \cup {n}
  BY DEF AnswerRequestWithEoLS
<1> HIDE DEF n
<1>5. /\ \A c \in BUs, s \in Resources :
           Requested(c, s)' <=> Requested(c, s) /\ ~(c = m.bu /\ s = m.resource)
      /\ Requested(m.bu, m.resource)
      /\ SameResource(Requests)'
  BY <1>3, RemoveRequest DEF Places
<1>6. ~Notified(m.bu, m.resource)
  BY <1>1, <1>5 DEF Places, OnePlace, Count
<1>7. \A c \in BUs, s \in Resources :
        Notified(c, s)' <=> Notified(c, s) \/ (c = m.bu /\ s = m.resource)
  BY <1>4 DEF Notified
<1>8. \A c \in BUs, s \in Resources :
        /\ Free(c, s)' <=> Free(c, s)
        /\ Holds(c, s)' <=> Holds(c, s)
        /\ Queued(c, s)' <=> Queued(c, s)
        /\ Confirmed(c, s)' <=> Confirmed(c, s)
  BY <1>2 DEF Free, Holds, Queued, Confirmed
<1>9. \A c \in BUs, s \in Resources : OnePlace(c, s)'
  BY <1>1, <1>5, <1>6, <1>7, <1>8 DEF Places, OnePlace, Count
<1>10. SameResource(lumiSectionMsgs)'
  BY <1>4, <1>6 DEF Places, SameResource, Notified
<1> QED
  BY <1>2, <1>5, <1>9, <1>10 DEF Places, SameResource

LEMMA EnqueueRequestPlaces ==
  ASSUME TypeOK, I2oOne, Places, NEW m \in i2oRequest, EnqueueRequest(m)
  PROVE  Places'
<1>1. m.bu \in BUs /\ m.resource \in Resources /\ requestFIFOs[m.bu] \in Seq(Resources)
  BY DEF TypeOK, ThreadTypeOK, FifoTypeOK, Element
<1>2. /\ i2oRequest = {m} /\ i2oRequest' = {} /\ "REQUEST" \in m.requestType
      /\ UNCHANGED << allocateClears, confirms, lumiSectionMsgs, freeResourceIds, data >>
  BY DEF EnqueueRequest, I2oOne, netVars, buVars
<1>3. Requests' = Requests \ {m} /\ m \in Requests
  BY <1>2 DEF Requests, Places
<1>4. /\ \A c \in BUs, s \in Resources :
           Requested(c, s)' <=> Requested(c, s) /\ ~(c = m.bu /\ s = m.resource)
      /\ Requested(m.bu, m.resource)
      /\ SameResource(Requests)'
  BY <1>3, RemoveRequest DEF Places
<1>5. ~Queued(m.bu, m.resource)
  BY <1>1, <1>4 DEF Places, OnePlace, Count
<1>6. /\ ToSet(Append(requestFIFOs[m.bu], m.resource)) = ToSet(requestFIFOs[m.bu]) \cup {m.resource}
      /\ IsInjective(Append(requestFIFOs[m.bu], m.resource))
  BY <1>1, <1>5, QueueAppend DEF Places, Queued
<1>7. \A c \in BUs : requestFIFOs'[c] = IF c = m.bu THEN Append(requestFIFOs[c], m.resource)
                                        ELSE requestFIFOs[c]
  BY DEF EnqueueRequest, TypeOK, FifoTypeOK
<1>8. \A c \in BUs, s \in Resources :
        Queued(c, s)' <=> Queued(c, s) \/ (c = m.bu /\ s = m.resource)
  BY <1>6, <1>7 DEF Queued
<1>9. \A c \in BUs, s \in Resources :
        /\ Free(c, s)' <=> Free(c, s)
        /\ Holds(c, s)' <=> Holds(c, s)
        /\ Confirmed(c, s)' <=> Confirmed(c, s)
        /\ Notified(c, s)' <=> Notified(c, s)
  BY <1>2 DEF Free, Holds, Confirmed, Notified
<1>10. \A c \in BUs, s \in Resources : OnePlace(c, s)'
  BY <1>1, <1>4, <1>5, <1>8, <1>9 DEF Places, OnePlace, Count
<1>11. \A c \in BUs : IsInjective(requestFIFOs'[c])
  BY <1>6, <1>7 DEF Places
<1> QED
  BY <1>2, <1>4, <1>10, <1>11 DEF Places, SameResource

-----------------------------------------------------------------------------
(***************************************************************************)
(* Answering a queued request, with an event or with a notice.             *)
(***************************************************************************)
LEMMA TakeQueued ==
  ASSUME TypeOK, Places, NEW b \in BUs, requestFIFOs[b] # << >>,
         requestFIFOs' = [requestFIFOs EXCEPT ![b] = Tail(@)]
  PROVE  /\ Head(requestFIFOs[b]) \in Resources
         /\ Queued(b, Head(requestFIFOs[b]))
         /\ \A c \in BUs, s \in Resources :
              Queued(c, s)' <=> Queued(c, s) /\ ~(c = b /\ s = Head(requestFIFOs[b]))
         /\ \A c \in BUs : IsInjective(requestFIFOs'[c])
<1>1. requestFIFOs[b] \in Seq(Resources) /\ IsInjective(requestFIFOs[b])
  BY DEF TypeOK, FifoTypeOK, Places
<1> DEFINE q == requestFIFOs[b]
<1>2. /\ Head(q) \in ToSet(q) /\ ToSet(q) = ToSet(Tail(q)) \cup {Head(q)}
      /\ IsInjective(Tail(q)) /\ Head(q) \notin ToSet(Tail(q))
  BY <1>1, QueueTail
<1>3. \A c \in BUs : requestFIFOs'[c] = IF c = b THEN Tail(q) ELSE requestFIFOs[c]
  BY DEF TypeOK, FifoTypeOK
<1>4. Head(q) \in Resources
  BY <1>1
<1> HIDE DEF q
<1>5. \A c \in BUs, s \in Resources : Queued(c, s)' <=> Queued(c, s) /\ ~(c = b /\ s = Head(q))
  BY <1>2, <1>3 DEF Queued, q
<1>6. \A c \in BUs : IsInjective(requestFIFOs'[c])
  BY <1>2, <1>3 DEF Places
<1> QED
  BY <1>2, <1>4, <1>5, <1>6 DEF Queued, q

LEMMA ServiceBuRqstPlaces ==
  ASSUME TypeOK, I2oOne, Places, NEW b \in BUs, ServiceBuRqst(b)
  PROVE  Places'
<1> DEFINE r == Head(requestFIFOs[b])
           m == [bu |-> b, resource |-> r, evbId |-> Head(eventFIFO).evbId,
                 lumiSection |-> Head(eventFIFO).lumiSection]
<1>1. /\ r \in Resources /\ Queued(b, r)
      /\ \A c \in BUs, s \in Resources : Queued(c, s)' <=> Queued(c, s) /\ ~(c = b /\ s = r)
      /\ \A c \in BUs : IsInjective(requestFIFOs'[c])
  BY TakeQueued DEF ServiceBuRqst
<1>2. m.bu = b /\ m.resource = r /\ confirms' = confirms \cup {m}
  BY DEF ServiceBuRqst
<1> HIDE DEF r, m
<1>3. UNCHANGED << allocateClears, i2oRequest, lumiSectionMsgs, freeResourceIds, data >>
  BY DEF ServiceBuRqst, threadVars, buVars
<1>4. ~Confirmed(b, r)
  BY <1>1 DEF Places, OnePlace, Count
<1>5. \A c \in BUs, s \in Resources :
        /\ Confirmed(c, s)' <=> Confirmed(c, s) \/ (c = b /\ s = r)
        /\ Free(c, s)' <=> Free(c, s)
        /\ Holds(c, s)' <=> Holds(c, s)
        /\ Requested(c, s)' <=> Requested(c, s)
        /\ Notified(c, s)' <=> Notified(c, s)
  BY <1>2, <1>3 DEF Confirmed, Free, Holds, Requested, Requests, Notified
<1>6. \A c \in BUs, s \in Resources : OnePlace(c, s)'
  BY <1>1, <1>4, <1>5 DEF Places, OnePlace, Count
<1>7. SameResource(confirms)'
  BY <1>2, <1>4 DEF Places, SameResource, Confirmed
<1> QED
  BY <1>1, <1>3, <1>6, <1>7 DEF Places, SameResource, Requests

LEMMA SendEoLSToRequestPlaces ==
  ASSUME TypeOK, I2oOne, Places, NEW b \in BUs, SendEoLSToRequest(b)
  PROVE  Places'
<1> DEFINE r == Head(requestFIFOs[b])
           n == [bu |-> b, resource |-> r, lumiSection |-> eolsTask.lumiSection]
<1>1. /\ r \in Resources /\ Queued(b, r)
      /\ \A c \in BUs, s \in Resources : Queued(c, s)' <=> Queued(c, s) /\ ~(c = b /\ s = r)
      /\ \A c \in BUs : IsInjective(requestFIFOs'[c])
  BY TakeQueued DEF SendEoLSToRequest
<1>2. n.bu = b /\ n.resource = r /\ lumiSectionMsgs' = lumiSectionMsgs \cup {n}
  BY DEF SendEoLSToRequest
<1> HIDE DEF r, n
<1>3. UNCHANGED << allocateClears, i2oRequest, confirms, freeResourceIds, data >>
  BY DEF SendEoLSToRequest, buVars
<1>4. ~Notified(b, r)
  BY <1>1 DEF Places, OnePlace, Count
<1>5. \A c \in BUs, s \in Resources :
        /\ Notified(c, s)' <=> Notified(c, s) \/ (c = b /\ s = r)
        /\ Free(c, s)' <=> Free(c, s)
        /\ Holds(c, s)' <=> Holds(c, s)
        /\ Requested(c, s)' <=> Requested(c, s)
        /\ Confirmed(c, s)' <=> Confirmed(c, s)
  BY <1>2, <1>3 DEF Notified, Free, Holds, Requested, Requests, Confirmed
<1>6. \A c \in BUs, s \in Resources : OnePlace(c, s)'
  BY <1>1, <1>4, <1>5 DEF Places, OnePlace, Count
<1>7. SameResource(lumiSectionMsgs)'
  BY <1>2, <1>4 DEF Places, SameResource, Notified
<1> QED
  BY <1>1, <1>3, <1>6, <1>7 DEF Places, SameResource, Requests

\* No resource id is touched by the steps of the other threads.
LEMMA UnchangedPlaces ==
  ASSUME Places, UNCHANGED << allocateClears, i2oRequest, requestFIFOs, confirms,
                              lumiSectionMsgs, freeResourceIds, data >>
  PROVE  Places'
<1>1. \A c \in BUs, s \in Resources : OnePlace(c, s)' <=> OnePlace(c, s)
  BY DEF OnePlace, Free, Holds, Requested, Requests, Queued, Confirmed, Notified
<1> QED
  BY <1>1 DEF Places, SameResource, Requests

LEMMA NextI2oOne == I2oOne /\ [Next]_vars => I2oOne'
<1> SUFFICES ASSUME I2oOne, [Next]_vars PROVE I2oOne'
  OBVIOUS
<1>1. CASE I2oThread
  BY <1>1 DEF I2oOne, I2oThread, AnswerRequestWithEoLS, AcceptRequest, AcceptRelease,
              DiscardAllocateClear, EnqueueRequest, ReleaseEvent, threadVars
<1>2. CASE UNCHANGED i2oRequest
  BY <1>2 DEF I2oOne
<1>3. (\E b \in BUs : BuStep(b)) \/ BuReceive => UNCHANGED i2oRequest
  BY DEF BuStep, SendEvtIdRqst, HandleDiscard, ResourceMonitoring, BuReceive, StartConstruction,
         EvmLumisection, threadVars
<1>4. Trigger \/ ProcessingWorkloop => UNCHANGED i2oRequest
  BY DEF Trigger, RejectMalformedTrigger, RejectLumiSection, AcceptTrigger, ProcessingWorkloop,
         ProcessNextReleasedEvent, SendEoLSsignal, ServiceBuRqst, threadVars
<1>5. L1InfoWorkloop \/ EoLSWorkloop => UNCHANGED i2oRequest
  BY DEF L1InfoWorkloop, AnnounceSkippedLumiSection, AddLumiSectionInfo, EoLSWorkloop,
         TakeCompletedLumiSection, SendEoLSToRequest, FindNoRequest, EnqueueEoLS, DropEoLS
<1> QED
  BY <1>1, <1>2, <1>3, <1>4, <1>5 DEF Next, vars, threadVars

\* Every step of a running EVM keeps each resource id in one place.
LEMMA NextPlaces == TypeOK /\ I2oOne /\ Places /\ failure = "none" /\ [Next]_vars => Places'
<1> SUFFICES ASSUME TypeOK, I2oOne, Places, failure = "none", [Next]_vars PROVE Places'
  OBVIOUS
<1> DEFINE Untouched == UNCHANGED << allocateClears, i2oRequest, requestFIFOs, confirms,
                                     lumiSectionMsgs, freeResourceIds, data >>
<1>1. CASE Untouched
  BY <1>1, UnchangedPlaces
<1>2. CASE \E b \in BUs : BuStep(b)
  <2>1. ASSUME NEW b \in BUs, ResourceMonitoring(b) PROVE Untouched
    BY <2>1 DEF ResourceMonitoring, fifoVars, threadVars, netVars
  <2> QED
    BY <1>1, <1>2, <2>1, SendEvtIdRqstPlaces, HandleDiscardPlaces DEF BuStep
<1>3. CASE BuReceive
  BY <1>3, StartConstructionPlaces, EvmLumisectionPlaces DEF BuReceive
<1>4. CASE I2oThread
  <2>1. ASSUME NEW m \in i2oRelease, ReleaseEvent(m) PROVE Untouched
    BY <2>1 DEF ReleaseEvent, netVars, buVars
  <2>2. \A m : ~DiscardAllocateClear(m)
    BY DEF DiscardAllocateClear
  <2> QED
    BY <1>1, <1>4, <2>1, <2>2, AnswerRequestWithEoLSPlaces, I2oAcceptPlaces, EnqueueRequestPlaces
       DEF I2oThread
<1>5. CASE Trigger
  <2>1. Untouched
    BY <1>5 DEF Trigger, RejectMalformedTrigger, RejectLumiSection, AcceptTrigger,
                fifoVars, threadVars, netVars, buVars
  <2> QED
    BY <1>1, <2>1
<1>6. CASE ProcessingWorkloop
  <2>1. ProcessNextReleasedEvent \/ SendEoLSsignal => Untouched
    BY DEF ProcessNextReleasedEvent, SendEoLSsignal, threadVars, netVars, buVars
  <2> QED
    BY <1>1, <1>6, <2>1, ServiceBuRqstPlaces DEF ProcessingWorkloop
<1>7. CASE L1InfoWorkloop
  <2>1. Untouched
    BY <1>7 DEF L1InfoWorkloop, AnnounceSkippedLumiSection, AddLumiSectionInfo, netVars, buVars
  <2> QED
    BY <1>1, <2>1
<1>8. CASE EoLSWorkloop
  <2>1. TakeCompletedLumiSection => Untouched
    BY DEF TakeCompletedLumiSection, netVars, buVars
  <2>2. ASSUME NEW b \in BUs, FindNoRequest(b) \/ EnqueueEoLS(b) \/ DropEoLS(b) PROVE Untouched
    BY <2>2 DEF FindNoRequest, EnqueueEoLS, DropEoLS, fifoVars, netVars, buVars
  <2> QED
    BY <1>1, <1>8, <2>1, <2>2, SendEoLSToRequestPlaces DEF EoLSWorkloop
<1>9. CASE UNCHANGED vars
  BY <1>1, <1>9 DEF vars, fifoVars, threadVars, netVars, buVars
<1> QED
  BY <1>2, <1>3, <1>4, <1>5, <1>6, <1>7, <1>8, <1>9 DEF Next

\* Nothing takes the EVM out of Failed; it keeps its first failure.
LEMMA FailedStays == [Next]_vars /\ failure # "none" => failure' = failure
<1> SUFFICES ASSUME [Next]_vars, failure # "none" PROVE UNCHANGED failure
  OBVIOUS
<1>1. (\E b \in BUs : BuStep(b)) \/ BuReceive => UNCHANGED failure
  BY DEF BuStep, SendEvtIdRqst, HandleDiscard, ResourceMonitoring, BuReceive, StartConstruction,
         EvmLumisection, evmVars
<1>2. I2oThread => UNCHANGED failure
  BY DEF I2oThread, AnswerRequestWithEoLS, AcceptRequest, AcceptRelease, DiscardAllocateClear,
         EnqueueRequest, ReleaseEvent, evmVars
<1>3. ~Trigger /\ ~ProcessingWorkloop
  BY DEF Trigger, RejectMalformedTrigger, RejectLumiSection, AcceptTrigger, TriggerAvailable,
         ProcessingWorkloop, ProcessNextReleasedEvent, SendEoLSsignal, ServiceBuRqst, Processing
<1>4. L1InfoWorkloop \/ EoLSWorkloop => UNCHANGED failure
  BY DEF L1InfoWorkloop, AnnounceSkippedLumiSection, AddLumiSectionInfo, EoLSWorkloop, evmVars,
         TakeCompletedLumiSection, SendEoLSToRequest, FindNoRequest, EnqueueEoLS, DropEoLS
<1> QED
  BY <1>1, <1>2, <1>3, <1>4 DEF Next, vars, evmVars

\* While the EVM runs, a BU's resource id is in exactly one place, whatever the
\* numbers of BUs, resources and triggers and the sizes of the queues.
THEOREM ResourceCorrect == Spec => []ResourceInOnePlace
<1>1. Init => ResourceInv
  BY InitTypeOK, InitResource DEF ResourceInv
<1>2. ResourceInv /\ [Next]_vars => ResourceInv'
  BY NextTypeOK, NextI2oOne, NextPlaces, FailedStays DEF ResourceInv
<1>3. ResourceInv => ResourceInOnePlace
  BY PlacesIsProperty DEF ResourceInv
<1> QED
  BY <1>1, <1>2, <1>3, PTL DEF Spec

-----------------------------------------------------------------------------
(***************************************************************************)
(* The id of each event in the builder is in exactly one place, the        *)
(* counters of the EVM agree with it, and therefore the EVM's own checks   *)
(* of its maps never fail; then the end of a lumi section is final and     *)
(* only the trigger fails anybody.                                         *)
(***************************************************************************)

-----------------------------------------------------------------------------
(***************************************************************************)
(* The queue of events.                                                    *)
(***************************************************************************)
IdsOf(q)    == { q[i].evbId : i \in DOMAIN q }
OnceEach(q) == \A i, j \in DOMAIN q : q[i].evbId = q[j].evbId => i = j

LEMMA EventsAppend ==
  ASSUME NEW q \in Seq(Event), NEW e \in Event, OnceEach(q), e.evbId \notin IdsOf(q)
  PROVE  /\ IdsOf(Append(q, e)) = IdsOf(q) \cup {e.evbId}
         /\ OnceEach(Append(q, e))
         /\ Len(Append(q, e)) = Len(q) + 1
<1>1. /\ Len(Append(q, e)) = Len(q) + 1 /\ Len(q) \in Nat /\ DOMAIN q = 1..Len(q)
      /\ DOMAIN Append(q, e) = 1..(Len(q) + 1)
  OBVIOUS
<1>2. /\ \A i \in 1..Len(q) : Append(q, e)[i] = q[i]
      /\ Append(q, e)[Len(q) + 1] = e
  OBVIOUS
<1>3. 1..(Len(q) + 1) = 1..Len(q) \cup {Len(q) + 1} /\ Len(q) + 1 \notin 1..Len(q)
  BY <1>1
<1>4. IdsOf(Append(q, e)) = IdsOf(q) \cup {e.evbId}
  BY <1>1, <1>2, <1>3 DEF IdsOf
<1>5. \A i \in 1..Len(q) : q[i].evbId # e.evbId
  BY <1>1 DEF IdsOf
<1>6. OnceEach(Append(q, e))
  BY <1>1, <1>2, <1>3, <1>5 DEF OnceEach
<1> QED
  BY <1>1, <1>4, <1>6

LEMMA EventsTail ==
  ASSUME NEW q \in Seq(Event), q # << >>, OnceEach(q)
  PROVE  /\ Head(q).evbId \in IdsOf(q)
         /\ IdsOf(Tail(q)) = IdsOf(q) \ {Head(q).evbId}
         /\ OnceEach(Tail(q))
         /\ Len(Tail(q)) = Len(q) - 1 /\ Len(q) \in Nat
<1>1. /\ Tail(q) \in Seq(Event) /\ Len(Tail(q)) = Len(q) - 1 /\ Len(q) \in Nat /\ Len(q) > 0
      /\ DOMAIN q = 1..Len(q) /\ DOMAIN Tail(q) = 1..(Len(q) - 1) /\ Head(q) = q[1]
  OBVIOUS
<1>2. \A i \in 1..(Len(q) - 1) : Tail(q)[i] = q[i + 1]
  OBVIOUS
<1>3. /\ \A i \in 1..(Len(q) - 1) : i + 1 \in 1..Len(q) /\ i + 1 # 1
      /\ 1 \in 1..Len(q)
      /\ \A i \in 1..Len(q) : i = 1 \/ (i - 1 \in 1..(Len(q) - 1) /\ Tail(q)[i - 1] = q[i])
      /\ \A i, j \in 1..(Len(q) - 1) : i + 1 = j + 1 => i = j
  BY <1>1, <1>2
<1>4. \A i, j \in 1..Len(q) : q[i].evbId = q[j].evbId => i = j
  BY <1>1 DEF OnceEach
<1>5. OnceEach(Tail(q))
  BY <1>1, <1>2, <1>3, <1>4 DEF OnceEach
<1>6. \A x \in IdsOf(Tail(q)) : x \in IdsOf(q) /\ x # Head(q).evbId
  BY <1>1, <1>2, <1>3, <1>4 DEF IdsOf
<1>7. \A x \in IdsOf(q) : x = Head(q).evbId \/ x \in IdsOf(Tail(q))
  <2> TAKE x \in IdsOf(q)
  <2>1. PICK i \in 1..Len(q) : x = q[i].evbId
    BY <1>1 DEF IdsOf
  <2>2. CASE i = 1
    BY <1>1, <2>1, <2>2
  <2>3. CASE i # 1
    <3>1. i - 1 \in DOMAIN Tail(q) /\ Tail(q)[i - 1].evbId = x
      BY <1>1, <1>3, <2>1, <2>3
    <3> QED
      BY <3>1 DEF IdsOf
  <2> QED
    BY <2>2, <2>3
<1>8. Head(q).evbId \in IdsOf(q)
  BY <1>1, <1>3 DEF IdsOf
<1>9. IdsOf(Tail(q)) = IdsOf(q) \ {Head(q).evbId}
  BY <1>6, <1>7
<1> QED
  BY <1>1, <1>5, <1>8, <1>9

-----------------------------------------------------------------------------
(***************************************************************************)
(* The invariant.                                                          *)
(***************************************************************************)
SlotId(p) == data[p[1]][p[2]].evbId

\* The five kinds of places share no id.
Apart ==
  /\ Waiting \cap Travelling = {} /\ Waiting \cap Held = {}
  /\ Waiting \cap Leaving = {} /\ Waiting \cap Released = {}
  /\ Travelling \cap Held = {} /\ Travelling \cap Leaving = {} /\ Travelling \cap Released = {}
  /\ Held \cap Leaving = {} /\ Held \cap Released = {}
  /\ Leaving \cap Released = {}

\* No place has an id twice.
NoneTwice ==
  /\ OnceEach(eventFIFO)
  /\ \A m, n \in confirms : m.evbId = n.evbId => m = n
  /\ \A p, q \in Slots : SlotId(p) = SlotId(q) => p = q
  /\ \A m, n \in Releases : m.evbId = n.evbId => m = n
  /\ IsInjective(releasedEvbIdFIFO)

Everywhere == DOMAIN evbIdMap = Waiting \cup Travelling \cup Held \cup Leaving \cup Released

FinitelyMany ==
  /\ IsFiniteSet(DOMAIN evbIdMap) /\ IsFiniteSet(confirms)
  /\ IsFiniteSet(Slots) /\ IsFiniteSet(Releases)

Sum ==
  Cardinality(DOMAIN evbIdMap) =
    Len(eventFIFO) + Cardinality(confirms) + Cardinality(Slots)
    + Cardinality(Releases) + Len(releasedEvbIdFIFO)

\* The ids in the builder are not younger than the last one issued.
IdsIssued ==
  \A id \in DOMAIN evbIdMap :
    id = LastEvBid(evbIdFactory) \/ EvBidLess(id, LastEvBid(evbIdFactory))

EventPlaces == Apart /\ NoneTwice /\ Everywhere /\ FinitelyMany /\ Sum /\ IdsIssued

\* What the I2O thread has accepted: a release only after the request of the same element.
I2oReleases ==
  /\ \A m, n \in i2oRelease : m = n
  /\ \A m \in i2oRelease : "RELEASE" \in m.requestType
  /\ i2oRequest # {} => i2oRelease = {}
  /\ allocateClears \cap i2oRelease = {}

EventsOf(ls) == { id \in DOMAIN evbIdMap : evbIdMap[id] = ls }

Accounts ==
  /\ nbEvtsInBuilder = Cardinality(DOMAIN evbIdMap)
  /\ nbEvtsInBuilder <= NbEvtIdsInBuilder
  /\ \A ls \in DOMAIN lumiSectionMap : lumiSectionMap[ls] = Cardinality(EventsOf(ls))
  /\ \A id \in DOMAIN evbIdMap : evbIdMap[id] # 0 => evbIdMap[id] \in DOMAIN lumiSectionMap
  /\ 0 \notin DOMAIN lumiSectionMap

EventInv ==
  /\ ResourceInv
  /\ failure = "none" => EventPlaces /\ I2oReleases /\ Accounts
  /\ failure \in {"none", "Configuration", "LumiSectionDecreased"}

LEMMA EventInvIsProperty ==
  EventInv => EventInOnePlace /\ BuilderAccounting
BY DEF EventInv, EventPlaces, Everywhere, Sum, EventInOnePlace, Accounts, EventsOf,
       BuilderAccounting

LEMMA InitEvents == Init => EventPlaces /\ I2oReleases /\ Accounts
<1> SUFFICES ASSUME Init PROVE EventPlaces /\ I2oReleases /\ Accounts
  OBVIOUS
<1>1. /\ Waiting = {} /\ Travelling = {} /\ Slots = {} /\ Held = {}
      /\ Releases = {} /\ Leaving = {} /\ Released = {}
  BY DEF Init, Waiting, Travelling, Slots, Held, Releases, Leaving, Released, ToSet
<1>2. DOMAIN evbIdMap = {} /\ confirms = {}
  BY DEF Init
<1>3. Len(eventFIFO) = 0 /\ Len(releasedEvbIdFIFO) = 0
  BY DEF Init
<1>4. IsFiniteSet({}) /\ Cardinality({}) = 0
  BY FS_EmptySet
<1>5. Apart /\ Everywhere /\ FinitelyMany /\ IdsIssued
  BY <1>1, <1>2, <1>4 DEF Apart, Everywhere, FinitelyMany, IdsIssued
<1>6. NoneTwice
  BY <1>1, <1>2 DEF Init, NoneTwice, OnceEach, IsInjective
<1>7. Sum
  BY <1>1, <1>2, <1>3, <1>4 DEF Sum
<1>8. I2oReleases
  BY DEF Init, I2oReleases
<1>9. Accounts
  <2>1. nbEvtsInBuilder = 0 /\ DOMAIN lumiSectionMap = {} /\ 0 <= NbEvtIdsInBuilder
    BY BoundsAssumption DEF Init
  <2> QED
    BY <1>2, <1>4, <2>1 DEF Accounts
<1> QED
  BY <1>5, <1>6, <1>7, <1>8, <1>9 DEF EventPlaces

-----------------------------------------------------------------------------
(***************************************************************************)
(* Steps that leave the ids where they are.                                *)
(***************************************************************************)
LEMMA SamePlaces ==
  ASSUME EventPlaces, Releases' = Releases,
         UNCHANGED << evbIdFactory, evbIdMap, eventFIFO, confirms, data, releasedEvbIdFIFO >>
  PROVE  EventPlaces'
<1>1. UNCHANGED << Waiting, Travelling, Slots, Held, Leaving, Released >>
  BY DEF Waiting, Travelling, Slots, Held, Leaving, Released
<1>2. Apart' /\ Everywhere' /\ FinitelyMany' /\ Sum' /\ IdsIssued'
  BY <1>1 DEF EventPlaces, Apart, Everywhere, FinitelyMany, Sum, IdsIssued
<1>3. NoneTwice'
  BY <1>1 DEF EventPlaces, NoneTwice, SlotId
<1> QED
  BY <1>2, <1>3 DEF EventPlaces

LEMMA SameAccounts ==
  ASSUME Accounts, UNCHANGED << evbIdMap, nbEvtsInBuilder, lumiSectionMap >>
  PROVE  Accounts'
BY DEF Accounts, EventsOf

\* Requests of a BU carry no id.
LEMMA AddRequestEvents ==
  ASSUME EventPlaces, I2oReleases, NEW b, NEW r,
         allocateClears' = allocateClears \cup {Request(b, r)},
         UNCHANGED << evbIdFactory, evbIdMap, eventFIFO, confirms, data, releasedEvbIdFIFO,
                      i2oRequest, i2oRelease >>
  PROVE  EventPlaces' /\ I2oReleases'
<1> DEFINE m == Request(b, r)
<1>1. "RELEASE" \notin m.requestType
  BY DEF Request
<1>2. allocateClears' = allocateClears \cup {m}
  OBVIOUS
<1> HIDE DEF m
<1>3. Releases' = Releases
  BY <1>1, <1>2 DEF Releases
<1>4. I2oReleases'
  BY <1>1, <1>2 DEF I2oReleases
<1> QED
  BY <1>3, <1>4, SamePlaces

\* The I2O thread hands an element on from one of its steps to the next.
LEMMA AcceptEvents ==
  ASSUME EventPlaces, I2oReleases, NEW m \in allocateClears,
         AnswerRequestWithEoLS(m) \/ AcceptRequest(m) \/ AcceptRelease(m)
  PROVE  EventPlaces' /\ I2oReleases'
<1>1. /\ i2oRequest = {} /\ i2oRelease = {} /\ allocateClears' = allocateClears \ {m}
      /\ UNCHANGED << evbIdFactory, evbIdMap, eventFIFO, confirms, data, releasedEvbIdFIFO >>
  BY DEF AnswerRequestWithEoLS, AcceptRequest, AcceptRelease, I2oIdle, evmVars, fifoVars, buVars
<1>2. \/ i2oRequest' = {m} /\ i2oRelease' = {}
      \/ i2oRequest' = {} /\ i2oRelease' = Releasing(m)
  BY <1>1 DEF AnswerRequestWithEoLS, AcceptRequest, AcceptRelease
<1>3. Releases' = Releases
  BY <1>1, <1>2 DEF Releases, Releasing
<1>4. I2oReleases'
  BY <1>1, <1>2 DEF I2oReleases, Releasing
<1> QED
  BY <1>1, <1>3, <1>4, SamePlaces

LEMMA EnqueueRequestEvents ==
  ASSUME EventPlaces, I2oReleases, I2oOne, Places, NEW m \in i2oRequest, EnqueueRequest(m)
  PROVE  EventPlaces' /\ I2oReleases'
<1>1. /\ i2oRequest = {m} /\ i2oRelease = {} /\ m \notin allocateClears
      /\ i2oRequest' = {} /\ i2oRelease' = Releasing(m)
      /\ UNCHANGED << allocateClears, evbIdFactory, evbIdMap, eventFIFO, confirms, data,
                      releasedEvbIdFIFO >>
  BY DEF EnqueueRequest, I2oOne, I2oReleases, Places, evmVars, netVars, buVars
<1>2. Releases' = Releases
  BY <1>1 DEF Releases, Releasing
<1>3. I2oReleases'
  BY <1>1 DEF I2oReleases, Releasing
<1> QED
  BY <1>1, <1>2, <1>3, SamePlaces

LEMMA SendEoLSsignalAccounts ==
  ASSUME Accounts, FinitelyMany, SendEoLSsignal
  PROVE  Accounts'
<1>1. PICK ls \in CompletedIn(lumiSectionMap, currentLumiSection) :
        lumiSectionMap' = Erase(lumiSectionMap, ls)
  BY DEF SendEoLSsignal
<1>2. /\ DOMAIN lumiSectionMap' = DOMAIN lumiSectionMap \ {ls}
      /\ \A other \in DOMAIN lumiSectionMap' : lumiSectionMap'[other] = lumiSectionMap[other]
  BY <1>1 DEF Erase
<1>3. lumiSectionMap[ls] = 0 /\ ls \in DOMAIN lumiSectionMap
  BY DEF CompletedIn
<1>4. EventsOf(ls) = {}
  <2>1. IsFiniteSet(EventsOf(ls))
    BY FS_Subset DEF FinitelyMany, EventsOf
  <2> QED
    BY <1>3, <2>1, FS_EmptySet DEF Accounts
<1>5. UNCHANGED << evbIdMap, nbEvtsInBuilder >> /\ \A other : EventsOf(other)' = EventsOf(other)
  BY DEF SendEoLSsignal, EventsOf
<1>6. \A id \in DOMAIN evbIdMap : evbIdMap[id] # ls
  BY <1>4 DEF EventsOf
<1> QED
  BY <1>2, <1>5, <1>6 DEF Accounts

-----------------------------------------------------------------------------
(***************************************************************************)
(* Steps that move an id from one place to another.                        *)
(***************************************************************************)
LEMMA ServiceBuRqstEvents ==
  ASSUME TypeOK, EventPlaces, NEW b \in BUs, ServiceBuRqst(b)
  PROVE  EventPlaces'
<1> DEFINE x == Head(eventFIFO).evbId
           m == [bu |-> b, resource |-> Head(requestFIFOs[b]), evbId |-> x,
                 lumiSection |-> Head(eventFIFO).lumiSection]
<1>1. /\ x \in Waiting /\ Waiting' = Waiting \ {x} /\ OnceEach(eventFIFO')
      /\ Len(eventFIFO') = Len(eventFIFO) - 1 /\ Len(eventFIFO) \in Nat
  <2>1. eventFIFO \in Seq(Event) /\ eventFIFO # << >> /\ eventFIFO' = Tail(eventFIFO)
    BY DEF TypeOK, FifoTypeOK, ServiceBuRqst
  <2>2. Waiting = IdsOf(eventFIFO) /\ Waiting' = IdsOf(eventFIFO')
    BY DEF Waiting, IdsOf
  <2> QED
    BY <2>1, <2>2, EventsTail DEF EventPlaces, NoneTwice
<1>2. m.evbId = x /\ confirms' = confirms \cup {m}
  BY DEF ServiceBuRqst
<1>3. /\ UNCHANGED << evbIdFactory, evbIdMap, data, releasedEvbIdFIFO, allocateClears,
                      i2oRequest, i2oRelease >>
  BY DEF ServiceBuRqst, evmVars, threadVars, buVars
<1> HIDE DEF x, m
<1>4. UNCHANGED << Slots, Held, Releases, Leaving, Released >>
  BY <1>3 DEF Slots, Held, Releases, Leaving, Released
<1>5. Travelling' = Travelling \cup {x}
  BY <1>2 DEF Travelling
<1>6. x \notin Travelling /\ x \notin Held /\ x \notin Leaving /\ x \notin Released
  BY <1>1 DEF EventPlaces, Apart
<1>7. Apart' /\ Everywhere'
  BY <1>1, <1>3, <1>4, <1>5, <1>6 DEF EventPlaces, Apart, Everywhere
<1>8. \A n \in confirms : n.evbId # x
  BY <1>6 DEF Travelling
<1>9. NoneTwice'
  <2>1. \A k, n \in confirms' : k.evbId = n.evbId => k = n
    BY <1>2, <1>8 DEF EventPlaces, NoneTwice
  <2> QED
    BY <1>1, <1>3, <1>4, <2>1 DEF EventPlaces, NoneTwice, SlotId
<1>10. /\ IsFiniteSet(confirms') /\ Cardinality(confirms') = Cardinality(confirms) + 1
       /\ Cardinality(confirms) \in Nat
  BY <1>2, <1>8, FS_AddElement, FS_CardinalityType DEF EventPlaces, FinitelyMany
<1>11. FinitelyMany' /\ IdsIssued'
  BY <1>3, <1>4, <1>10 DEF EventPlaces, FinitelyMany, IdsIssued
<1>12. Sum'
  <2>1. Cardinality(Slots) \in Nat /\ Cardinality(Releases) \in Nat /\ Len(releasedEvbIdFIFO) \in Nat
    BY FS_CardinalityType DEF EventPlaces, FinitelyMany, TypeOK, FifoTypeOK
  <2> QED
    BY <1>1, <1>3, <1>4, <1>10, <2>1 DEF EventPlaces, Sum
<1> QED
  BY <1>7, <1>9, <1>11, <1>12 DEF EventPlaces

LEMMA StartConstructionEvents ==
  ASSUME TypeOK, Places, EventPlaces, NEW m \in confirms, StartConstruction(m)
  PROVE  EventPlaces'
<1> DEFINE x == m.evbId
           p == << m.bu, m.resource >>
<1>1. m.bu \in BUs /\ m.resource \in Resources /\ p \in BUs \X Resources
  BY DEF TypeOK, NetTypeOK, Confirm
<1>2. m.resource \notin DOMAIN data[m.bu]
  BY <1>1 DEF Places, OnePlace, Confirmed, Holds, Count
<1>3. /\ confirms' = confirms \ {m}
      /\ UNCHANGED << evbIdFactory, evbIdMap, eventFIFO, releasedEvbIdFIFO, allocateClears,
                      i2oRequest, i2oRelease >>
  BY DEF StartConstruction, evmVars, fifoVars, threadVars
<1>4. /\ \A c \in BUs, s \in Resources :
           s \in DOMAIN data'[c] <=> s \in DOMAIN data[c] \/ (c = m.bu /\ s = m.resource)
      /\ \A c \in BUs, s \in Resources : s \in DOMAIN data[c] => data'[c][s] = data[c][s]
      /\ data'[m.bu][m.resource].evbId = x
  BY <1>1, <1>2 DEF StartConstruction, Insert, TypeOK, BuTypeOK
<1>5. p \notin Slots /\ Slots' = Slots \cup {p}
  <2>1. \A q \in BUs \X Resources : q = p <=> q[1] = m.bu /\ q[2] = m.resource
    OBVIOUS
  <2> QED
    BY <1>1, <1>2, <1>4, <2>1 DEF Slots
<1>6. (\A q \in Slots : SlotId(q)' = SlotId(q)) /\ SlotId(p)' = x
  BY <1>4 DEF Slots, SlotId
<1>7. Held' = Held \cup {x}
  <2>1. Held = { SlotId(q) : q \in Slots } /\ Held' = { SlotId(q)' : q \in Slots' }
    BY DEF Held, SlotId
  <2> QED
    BY <1>5, <1>6, <2>1
<1> HIDE DEF x, p
<1>8. x \in Travelling /\ Travelling' = Travelling \ {x}
  BY <1>3 DEF Travelling, x, EventPlaces, NoneTwice
<1>9. UNCHANGED << Waiting, Releases, Leaving, Released >>
  BY <1>3 DEF Waiting, Releases, Leaving, Released
<1>10. x \notin Waiting /\ x \notin Held /\ x \notin Leaving /\ x \notin Released
  BY <1>8 DEF EventPlaces, Apart
<1>11. Apart' /\ Everywhere'
  BY <1>3, <1>7, <1>8, <1>9, <1>10 DEF EventPlaces, Apart, Everywhere
<1>12. \A q \in Slots : SlotId(q) # x
  BY <1>10 DEF Held, SlotId
<1>13. NoneTwice'
  <2>1. \A k, q \in Slots' : SlotId(k)' = SlotId(q)' => k = q
    BY <1>5, <1>6, <1>12 DEF EventPlaces, NoneTwice
  <2> QED
    BY <1>3, <1>9, <2>1 DEF EventPlaces, NoneTwice
<1>14. /\ IsFiniteSet(confirms') /\ Cardinality(confirms') = Cardinality(confirms) - 1
       /\ IsFiniteSet(Slots') /\ Cardinality(Slots') = Cardinality(Slots) + 1
       /\ Cardinality(confirms) \in Nat /\ Cardinality(Slots) \in Nat
       /\ Cardinality(Releases) \in Nat
  BY <1>3, <1>5, FS_AddElement, FS_RemoveElement, FS_CardinalityType DEF EventPlaces, FinitelyMany
<1>15. FinitelyMany' /\ IdsIssued'
  BY <1>3, <1>9, <1>14 DEF EventPlaces, FinitelyMany, IdsIssued
<1>16. Sum'
  <2>1. Len(eventFIFO) \in Nat /\ Len(releasedEvbIdFIFO) \in Nat
    BY DEF TypeOK, FifoTypeOK
  <2> QED
    BY <1>3, <1>9, <1>14, <2>1 DEF EventPlaces, Sum
<1> QED
  BY <1>11, <1>13, <1>15, <1>16 DEF EventPlaces

LEMMA HandleDiscardEvents ==
  ASSUME TypeOK, EventPlaces, I2oReleases, NEW b \in BUs, NEW r \in Resources, HandleDiscard(b, r)
  PROVE  EventPlaces' /\ I2oReleases'
<1> DEFINE x == data[b][r].evbId
           p == << b, r >>
           m == [bu |-> b, resource |-> r, evbId |-> x,
                 requestType |-> {"RELEASE"} \cup (IF b \in requestEvents THEN {"REQUEST"} ELSE {})]
<1>1. p \in Slots /\ SlotId(p) = x
  BY DEF HandleDiscard, Slots, SlotId
<1>2. /\ allocateClears' = allocateClears \cup {m} /\ "RELEASE" \in m.requestType /\ m.evbId = x
      /\ UNCHANGED << evbIdFactory, evbIdMap, eventFIFO, releasedEvbIdFIFO, confirms,
                      i2oRequest, i2oRelease >>
  BY DEF HandleDiscard, evmVars, fifoVars, threadVars
<1>3. \A c \in BUs, s \in Resources :
        /\ s \in DOMAIN data'[c] <=> s \in DOMAIN data[c] /\ ~(c = b /\ s = r)
        /\ s \in DOMAIN data'[c] => data'[c][s] = data[c][s]
  BY DEF HandleDiscard, Erase, TypeOK, BuTypeOK
<1>4. Slots' = Slots \ {p}
  <2>1. \A q \in BUs \X Resources : q = p <=> q[1] = b /\ q[2] = r
    OBVIOUS
  <2> QED
    BY <1>3, <2>1 DEF Slots
<1>5. \A q \in Slots' : SlotId(q)' = SlotId(q)
  BY <1>3 DEF Slots, SlotId
<1> HIDE DEF x, p, m
<1>6. x \in Held /\ Held' = Held \ {x}
  <2>1. Held = { SlotId(q) : q \in Slots } /\ Held' = { SlotId(q)' : q \in Slots' }
    BY DEF Held, SlotId
  <2>2. \A q \in Slots : SlotId(q) = x => q = p
    BY <1>1 DEF EventPlaces, NoneTwice
  <2> QED
    BY <1>1, <1>4, <1>5, <2>1, <2>2
<1>7. Releases' = Releases \cup {m} /\ Leaving' = Leaving \cup {x}
  BY <1>2 DEF Releases, Leaving
<1>8. UNCHANGED << Waiting, Travelling, Released >>
  BY <1>2 DEF Waiting, Travelling, Released
<1>9. x \notin Waiting /\ x \notin Travelling /\ x \notin Leaving /\ x \notin Released
  BY <1>6 DEF EventPlaces, Apart
<1>10. Apart' /\ Everywhere'
  BY <1>2, <1>6, <1>7, <1>8, <1>9 DEF EventPlaces, Apart, Everywhere
<1>11. \A n \in Releases : n.evbId # x
  BY <1>9 DEF Leaving
<1>12. NoneTwice'
  <2>1. \A k, n \in Releases' : k.evbId = n.evbId => k = n
    BY <1>2, <1>7, <1>11 DEF EventPlaces, NoneTwice
  <2>2. \A k, q \in Slots' : SlotId(k)' = SlotId(q)' => k = q
    BY <1>4, <1>5 DEF EventPlaces, NoneTwice
  <2> QED
    BY <1>2, <2>1, <2>2 DEF EventPlaces, NoneTwice
<1>13. I2oReleases'
  <2>1. m \notin i2oRelease
    BY <1>2, <1>11 DEF Releases
  <2> QED
    BY <1>2, <2>1 DEF I2oReleases
<1>14. /\ IsFiniteSet(Releases') /\ Cardinality(Releases') = Cardinality(Releases) + 1
       /\ IsFiniteSet(Slots') /\ Cardinality(Slots') = Cardinality(Slots) - 1
       /\ Cardinality(Releases) \in Nat /\ Cardinality(Slots) \in Nat
       /\ Cardinality(confirms) \in Nat
  <2>1. m \notin Releases
    BY <1>2, <1>11
  <2> QED
    BY <1>1, <1>4, <1>7, <2>1, FS_AddElement, FS_RemoveElement, FS_CardinalityType
       DEF EventPlaces, FinitelyMany
<1>15. FinitelyMany' /\ IdsIssued'
  BY <1>2, <1>14 DEF EventPlaces, FinitelyMany, IdsIssued
<1>16. Sum'
  <2>1. Len(eventFIFO) \in Nat /\ Len(releasedEvbIdFIFO) \in Nat
    BY DEF TypeOK, FifoTypeOK
  <2> QED
    BY <1>2, <1>14, <2>1 DEF EventPlaces, Sum
<1> QED
  BY <1>10, <1>12, <1>13, <1>15, <1>16 DEF EventPlaces

LEMMA SumMoves ==
  ASSUME NEW total, NEW a \in Nat, NEW b \in Nat, NEW c \in Nat, NEW from \in Nat, NEW to \in Nat,
         total = a + b + c + from + to
  PROVE  total = a + b + c + (from - 1) + (to + 1)
  OBVIOUS

LEMMA ReleaseEventEvents ==
  ASSUME TypeOK, EventPlaces, I2oReleases, NEW m \in i2oRelease, ReleaseEvent(m)
  PROVE  EventPlaces' /\ I2oReleases'
<1> DEFINE x == m.evbId
<1>1. /\ i2oRelease = {m} /\ i2oRequest = {} /\ m \notin allocateClears /\ "RELEASE" \in m.requestType
      /\ i2oRelease' = {} /\ releasedEvbIdFIFO' = Append(releasedEvbIdFIFO, x)
      /\ UNCHANGED << evbIdFactory, evbIdMap, eventFIFO, confirms, data, allocateClears, i2oRequest >>
  BY DEF ReleaseEvent, I2oReleases, evmVars, netVars, buVars
<1>2. m \in Releases /\ Releases' = Releases \ {m}
  BY <1>1 DEF Releases
<1>3. x \in Leaving /\ Leaving' = Leaving \ {x}
  BY <1>2 DEF Leaving, EventPlaces, NoneTwice
<1>4. UNCHANGED << Waiting, Travelling, Slots, Held >>
  BY <1>1 DEF Waiting, Travelling, Slots, Held
<1>5. x \notin Waiting /\ x \notin Travelling /\ x \notin Held /\ x \notin Released
  BY <1>3 DEF EventPlaces, Apart
<1>6. x \in EvBid /\ releasedEvbIdFIFO \in Seq(EvBid)
  BY DEF TypeOK, ThreadTypeOK, FifoTypeOK, Element
<1> HIDE DEF x
<1>7. /\ Released' = Released \cup {x} /\ IsInjective(releasedEvbIdFIFO')
      /\ Len(releasedEvbIdFIFO') = Len(releasedEvbIdFIFO) + 1
  BY <1>1, <1>5, <1>6, QueueAppend DEF Released, EventPlaces, NoneTwice
<1>8. Apart' /\ Everywhere'
  BY <1>1, <1>3, <1>4, <1>5, <1>7 DEF EventPlaces, Apart, Everywhere
<1>9. NoneTwice'
  BY <1>1, <1>2, <1>4, <1>7 DEF EventPlaces, NoneTwice, SlotId
<1>10. I2oReleases'
  BY <1>1 DEF I2oReleases
<1>11. /\ IsFiniteSet(Releases') /\ Cardinality(Releases') = Cardinality(Releases) - 1
       /\ Cardinality(Releases) \in Nat /\ Cardinality(Slots) \in Nat /\ Cardinality(confirms) \in Nat
  BY <1>2, FS_RemoveElement, FS_CardinalityType DEF EventPlaces, FinitelyMany
<1>12. FinitelyMany' /\ IdsIssued'
  BY <1>1, <1>4, <1>11 DEF EventPlaces, FinitelyMany, IdsIssued
<1>13. Sum'
  <2>1. Len(eventFIFO) \in Nat /\ Len(releasedEvbIdFIFO) \in Nat
    BY DEF TypeOK, FifoTypeOK
  <2>2. Cardinality(DOMAIN evbIdMap) =
          Len(eventFIFO) + Cardinality(confirms) + Cardinality(Slots)
          + Cardinality(Releases) + Len(releasedEvbIdFIFO)
    BY DEF EventPlaces, Sum
  <2>3. Cardinality(DOMAIN evbIdMap) =
          Len(eventFIFO) + Cardinality(confirms) + Cardinality(Slots)
          + (Cardinality(Releases) - 1) + (Len(releasedEvbIdFIFO) + 1)
    BY <1>11, <2>1, <2>2, SumMoves
  <2>4. /\ Cardinality(Releases') = Cardinality(Releases) - 1
        /\ Len(releasedEvbIdFIFO') = Len(releasedEvbIdFIFO) + 1
        /\ Slots' = Slots /\ confirms' = confirms /\ eventFIFO' = eventFIFO /\ evbIdMap' = evbIdMap
    BY <1>1, <1>4, <1>7, <1>11
  <2> QED
    BY <2>3, <2>4 DEF Sum
<1> QED
  BY <1>8, <1>9, <1>10, <1>12, <1>13 DEF EventPlaces

-----------------------------------------------------------------------------
(***************************************************************************)
(* Steps with which an id leaves or enters the builder.  The checks of the *)
(* maps succeed.                                                           *)
(***************************************************************************)
LEMMA EventsOfCount ==
  ASSUME EventPlaces, NEW id \in DOMAIN evbIdMap
  PROVE  /\ IsFiniteSet(EventsOf(evbIdMap[id]))
         /\ Cardinality(EventsOf(evbIdMap[id])) \in Nat \ {0}
<1>1. IsFiniteSet(EventsOf(evbIdMap[id]))
  BY FS_Subset DEF EventPlaces, FinitelyMany, EventsOf
<1>2. id \in EventsOf(evbIdMap[id])
  BY DEF EventsOf
<1> QED
  BY <1>1, <1>2, FS_EmptySet, FS_CardinalityType

LEMMA ReleasedIsKnown ==
  ASSUME TypeOK, EventPlaces, Accounts, ProcessNextReleasedEvent,
         NEW x, x = Head(releasedEvbIdFIFO)
  PROVE  /\ x \in DOMAIN evbIdMap /\ x \in Released
         /\ failure' = failure
         /\ evbIdMap' = Erase(evbIdMap, x) /\ nbEvtsInBuilder' = nbEvtsInBuilder - 1
         /\ \/ evbIdMap[x] = 0 /\ UNCHANGED lumiSectionMap
            \/ /\ evbIdMap[x] # 0
               /\ lumiSectionMap' = [lumiSectionMap EXCEPT ![evbIdMap[x]] = @ - 1]
<1>1. releasedEvbIdFIFO \in Seq(EvBid) /\ releasedEvbIdFIFO # << >>
  BY DEF TypeOK, FifoTypeOK, ProcessNextReleasedEvent
<1>2. x \in Released
  BY <1>1, QueueTail DEF Released
<1>3. x \in DOMAIN evbIdMap
  BY <1>2 DEF EventPlaces, Everywhere
<1>4. evbIdMap[x] # 0 => evbIdMap[x] \in DOMAIN lumiSectionMap /\ lumiSectionMap[evbIdMap[x]] # 0
  BY <1>3, EventsOfCount DEF Accounts
<1> QED
  BY <1>2, <1>3, <1>4 DEF ProcessNextReleasedEvent

LEMMA ForgetAccounts ==
  ASSUME EventPlaces, Accounts, NEW x \in DOMAIN evbIdMap, NEW ls, ls = evbIdMap[x],
         evbIdMap' = Erase(evbIdMap, x), nbEvtsInBuilder' = nbEvtsInBuilder - 1,
         \/ ls = 0 /\ UNCHANGED lumiSectionMap
         \/ ls # 0 /\ lumiSectionMap' = [lumiSectionMap EXCEPT ![ls] = @ - 1]
  PROVE  Accounts'
<1>1. /\ DOMAIN evbIdMap' = DOMAIN evbIdMap \ {x}
      /\ \A id \in DOMAIN evbIdMap' : evbIdMap'[id] = evbIdMap[id]
  BY DEF Erase
<1>2. nbEvtsInBuilder' = Cardinality(DOMAIN evbIdMap') /\ nbEvtsInBuilder' <= NbEvtIdsInBuilder
  <2>1. nbEvtsInBuilder = Cardinality(DOMAIN evbIdMap) /\ nbEvtsInBuilder <= NbEvtIdsInBuilder
    BY DEF Accounts
  <2>2. /\ Cardinality(DOMAIN evbIdMap') = Cardinality(DOMAIN evbIdMap) - 1
        /\ Cardinality(DOMAIN evbIdMap) \in Nat
    BY <1>1, FS_RemoveElement, FS_CardinalityType DEF EventPlaces, FinitelyMany
  <2> QED
    BY <2>1, <2>2, BoundsAssumption
<1>3. \A other : other # ls => EventsOf(other)' = EventsOf(other)
  BY <1>1 DEF EventsOf
<1>4. EventsOf(ls)' = EventsOf(ls) \ {x} /\ x \in EventsOf(ls)
  BY <1>1 DEF EventsOf
<1>5. Cardinality(EventsOf(ls)') = Cardinality(EventsOf(ls)) - 1
  BY <1>4, EventsOfCount, FS_RemoveElement
<1>6. CASE ls = 0
  BY <1>1, <1>2, <1>3, <1>6 DEF Accounts
<1>7. CASE ls # 0
  <2>1. /\ ls \in DOMAIN lumiSectionMap /\ DOMAIN lumiSectionMap' = DOMAIN lumiSectionMap
        /\ lumiSectionMap'[ls] = lumiSectionMap[ls] - 1
        /\ \A other \in DOMAIN lumiSectionMap : other # ls => lumiSectionMap'[other] = lumiSectionMap[other]
    BY <1>7 DEF Accounts
  <2>2. \A other \in DOMAIN lumiSectionMap' : lumiSectionMap'[other] = Cardinality(EventsOf(other)')
    BY <1>3, <1>5, <2>1 DEF Accounts
  <2> QED
    BY <1>1, <1>2, <2>1, <2>2 DEF Accounts
<1> QED
  BY <1>6, <1>7

LEMMA ProcessNextReleasedEventEvents ==
  ASSUME TypeOK, EventPlaces, I2oReleases, Accounts, ProcessNextReleasedEvent
  PROVE  EventPlaces' /\ I2oReleases' /\ Accounts' /\ failure' = failure
<1> DEFINE x  == Head(releasedEvbIdFIFO)
           ls == evbIdMap[x]
<1>1. /\ x \in DOMAIN evbIdMap /\ x \in Released /\ failure' = failure
      /\ evbIdMap' = Erase(evbIdMap, x) /\ nbEvtsInBuilder' = nbEvtsInBuilder - 1
      /\ \/ ls = 0 /\ UNCHANGED lumiSectionMap
         \/ ls # 0 /\ lumiSectionMap' = [lumiSectionMap EXCEPT ![ls] = @ - 1]
  BY ReleasedIsKnown
<1>2. /\ releasedEvbIdFIFO \in Seq(EvBid) /\ releasedEvbIdFIFO # << >>
      /\ releasedEvbIdFIFO' = Tail(releasedEvbIdFIFO)
      /\ UNCHANGED << evbIdFactory, eventFIFO, confirms, data, allocateClears, i2oRequest, i2oRelease >>
  BY DEF TypeOK, FifoTypeOK, ProcessNextReleasedEvent, threadVars, netVars, buVars
<1>3. /\ Released = ToSet(releasedEvbIdFIFO') \cup {x} /\ IsInjective(releasedEvbIdFIFO')
      /\ x \notin ToSet(releasedEvbIdFIFO')
  BY <1>2, QueueTail DEF Released, EventPlaces, NoneTwice
<1>4. Len(releasedEvbIdFIFO') = Len(releasedEvbIdFIFO) - 1 /\ Len(releasedEvbIdFIFO) \in Nat
  BY <1>2
<1> HIDE DEF x, ls
<1>5. Released' = Released \ {x}
  BY <1>3 DEF Released
<1>6. UNCHANGED << Waiting, Travelling, Slots, Held, Releases, Leaving >>
  BY <1>2 DEF Waiting, Travelling, Slots, Held, Releases, Leaving
<1>7. /\ DOMAIN evbIdMap' = DOMAIN evbIdMap \ {x}
      /\ \A id \in DOMAIN evbIdMap' : evbIdMap'[id] = evbIdMap[id]
  BY <1>1 DEF Erase
<1>8. x \notin Waiting /\ x \notin Travelling /\ x \notin Held /\ x \notin Leaving
  BY <1>1 DEF EventPlaces, Apart
<1>9. Apart' /\ Everywhere'
  BY <1>5, <1>6, <1>7, <1>8 DEF EventPlaces, Apart, Everywhere
<1>10. NoneTwice'
  BY <1>2, <1>3, <1>6 DEF EventPlaces, NoneTwice, SlotId
<1>11. /\ IsFiniteSet(DOMAIN evbIdMap')
       /\ Cardinality(DOMAIN evbIdMap') = Cardinality(DOMAIN evbIdMap) - 1
       /\ Cardinality(DOMAIN evbIdMap) \in Nat
       /\ Cardinality(confirms) \in Nat /\ Cardinality(Slots) \in Nat /\ Cardinality(Releases) \in Nat
  BY <1>1, <1>7, FS_RemoveElement, FS_CardinalityType DEF EventPlaces, FinitelyMany
<1>12. FinitelyMany' /\ IdsIssued'
  BY <1>2, <1>6, <1>7, <1>11 DEF EventPlaces, FinitelyMany, IdsIssued
<1>13. Sum'
  <2>1. Len(eventFIFO) \in Nat
    BY DEF TypeOK, FifoTypeOK
  <2>2. Cardinality(DOMAIN evbIdMap) =
          Len(eventFIFO) + Cardinality(confirms) + Cardinality(Slots)
          + Cardinality(Releases) + Len(releasedEvbIdFIFO)
    BY DEF EventPlaces, Sum
  <2>3. Cardinality(DOMAIN evbIdMap) - 1 =
          Len(eventFIFO) + Cardinality(confirms) + Cardinality(Slots)
          + Cardinality(Releases) + (Len(releasedEvbIdFIFO) - 1)
    BY <1>4, <1>11, <2>1, <2>2
  <2> QED
    BY <1>2, <1>4, <1>6, <1>11, <2>3 DEF Sum
<1>14. I2oReleases'
  BY <1>2 DEF I2oReleases
<1>15. Accounts'
  BY <1>1, ForgetAccounts DEF ls
<1> QED
  BY <1>1, <1>9, <1>10, <1>12, <1>13, <1>14, <1>15 DEF EventPlaces

LEMMA InsertAccounts ==
  ASSUME TypeOK, EventPlaces, Accounts, NEW id, id \notin DOMAIN evbIdMap, NEW ls \in Nat,
         evbIdMap' = Insert(evbIdMap, id, ls),
         nbEvtsInBuilder < NbEvtIdsInBuilder, nbEvtsInBuilder' = nbEvtsInBuilder + 1,
         \/ ls = 0 /\ UNCHANGED lumiSectionMap
         \/ ls # 0 /\ lumiSectionMap' = Insert(lumiSectionMap, ls, CountOf(ls) + 1)
  PROVE  Accounts'
<1>1. /\ DOMAIN evbIdMap' = DOMAIN evbIdMap \cup {id} /\ evbIdMap'[id] = ls
      /\ \A x \in DOMAIN evbIdMap : evbIdMap'[x] = evbIdMap[x]
  BY DEF Insert
<1>2. nbEvtsInBuilder' = Cardinality(DOMAIN evbIdMap') /\ nbEvtsInBuilder' <= NbEvtIdsInBuilder
  <2>1. nbEvtsInBuilder = Cardinality(DOMAIN evbIdMap) /\ nbEvtsInBuilder \in Int
    BY DEF Accounts, TypeOK, EvmTypeOK
  <2>2. Cardinality(DOMAIN evbIdMap') = Cardinality(DOMAIN evbIdMap) + 1
    BY <1>1, FS_AddElement DEF EventPlaces, FinitelyMany
  <2> QED
    BY <2>1, <2>2, BoundsAssumption
<1>3. \A other : other # ls => EventsOf(other)' = EventsOf(other)
  BY <1>1 DEF EventsOf
<1>4. EventsOf(ls)' = EventsOf(ls) \cup {id} /\ id \notin EventsOf(ls)
  BY <1>1 DEF EventsOf
<1>5. Cardinality(EventsOf(ls)') = Cardinality(EventsOf(ls)) + 1
  <2>1. IsFiniteSet(EventsOf(ls))
    BY FS_Subset DEF EventPlaces, FinitelyMany, EventsOf
  <2> QED
    BY <1>4, <2>1, FS_AddElement
<1>6. CASE ls = 0
  BY <1>1, <1>2, <1>3, <1>6 DEF Accounts
<1>7. CASE ls # 0
  <2>1. CountOf(ls) = Cardinality(EventsOf(ls))
    <3>1. CASE ls \in DOMAIN lumiSectionMap
      BY <3>1 DEF CountOf, Accounts
    <3>2. CASE ls \notin DOMAIN lumiSectionMap
      <4>1. EventsOf(ls) = {}
        BY <1>7, <3>2 DEF EventsOf, Accounts
      <4> QED
        BY <3>2, <4>1, FS_EmptySet DEF CountOf
    <3> QED
      BY <3>1, <3>2
  <2>2. /\ DOMAIN lumiSectionMap' = DOMAIN lumiSectionMap \cup {ls}
        /\ lumiSectionMap'[ls] = CountOf(ls) + 1
        /\ \A other \in DOMAIN lumiSectionMap : other # ls => lumiSectionMap'[other] = lumiSectionMap[other]
    BY <1>7 DEF Insert
  <2>3. \A other \in DOMAIN lumiSectionMap' : lumiSectionMap'[other] = Cardinality(EventsOf(other)')
    BY <1>3, <1>5, <2>1, <2>2 DEF Accounts
  <2>4. \A x \in DOMAIN evbIdMap' : evbIdMap'[x] # 0 => evbIdMap'[x] \in DOMAIN lumiSectionMap'
    BY <1>1, <2>2 DEF Accounts
  <2>5. 0 \notin DOMAIN lumiSectionMap'
    BY <1>7, <2>2 DEF Accounts
  <2> QED
    BY <1>2, <2>3, <2>4, <2>5 DEF Accounts
<1> QED
  BY <1>6, <1>7

LEMMA AcceptedIsNew ==
  ASSUME TypeOK, EventPlaces, Accounts, NEW n \in EventNumbers, NEW ls \in LumiSections,
         AcceptTrigger(n, ls), NEW id, id = GetEvBid(evbIdFactory, n)
  PROVE  /\ id \in EvBid /\ ls \in Nat /\ id \notin DOMAIN evbIdMap
         /\ IdsIssued'
         /\ failure' = failure
         /\ evbIdMap' = Insert(evbIdMap, id, ls)
         /\ eventFIFO' = Append(eventFIFO, [evbId |-> id, lumiSection |-> ls])
         /\ nbEvtsInBuilder < NbEvtIdsInBuilder /\ nbEvtsInBuilder' = nbEvtsInBuilder + 1
<1>1. n \in Nat /\ ls \in Nat /\ evbIdFactory \in Factory
  BY SetsAssumption DEF TypeOK, EvmTypeOK
<1>2. /\ id \in EvBid /\ LastEvBid(AfterGetEvBid(evbIdFactory, n)) = id
      /\ LastEvBid(evbIdFactory) \in EvBid
      /\ EvBidLess(LastEvBid(evbIdFactory), id)
  BY <1>1, GetEvBidType, EvBidsStrictlyIncrease DEF LastEvBid, Factory, EvBid
<1>3. DOMAIN evbIdMap \subseteq EvBid
  BY DEF TypeOK, EvmTypeOK, IsMap
<1>4. \A x \in DOMAIN evbIdMap : EvBidLess(x, id)
  BY <1>2, <1>3, EvBidLessStrict DEF EventPlaces, IdsIssued
<1>5. id \notin DOMAIN evbIdMap
  BY <1>2, <1>4, EvBidLessStrict
<1>6. nbEvtsInBuilder < NbEvtIdsInBuilder
  BY DEF AcceptTrigger, TriggerAvailable
<1>7. Len(eventFIFO) < EventFIFOCapacity
  <2>1. /\ Cardinality(confirms) \in Nat /\ Cardinality(Slots) \in Nat /\ Cardinality(Releases) \in Nat
        /\ Len(eventFIFO) \in Nat /\ Len(releasedEvbIdFIFO) \in Nat
    BY FS_CardinalityType DEF EventPlaces, FinitelyMany, TypeOK, FifoTypeOK
  <2>2. Cardinality(DOMAIN evbIdMap) =
          Len(eventFIFO) + Cardinality(confirms) + Cardinality(Slots)
          + Cardinality(Releases) + Len(releasedEvbIdFIFO)
    BY DEF EventPlaces, Sum
  <2>3. Len(eventFIFO) <= Cardinality(DOMAIN evbIdMap) /\ Cardinality(DOMAIN evbIdMap) \in Nat
    BY <2>1, <2>2
  <2> QED
    BY <1>6, <2>1, <2>3, BoundsAssumption DEF Accounts
<1>8. /\ failure' = failure /\ evbIdMap' = Insert(evbIdMap, id, ls)
      /\ eventFIFO' = Append(eventFIFO, [evbId |-> id, lumiSection |-> ls])
      /\ nbEvtsInBuilder' = nbEvtsInBuilder + 1
      /\ evbIdFactory' = AfterGetEvBid(evbIdFactory, n)
  <2>1. ~(Len(eventFIFO) >= EventFIFOCapacity)
    BY <1>7, BoundsAssumption DEF TypeOK, FifoTypeOK
  <2> QED
    BY <1>5, <2>1 DEF AcceptTrigger
<1>9. IdsIssued'
  BY <1>2, <1>4, <1>8 DEF IdsIssued, Insert
<1> QED
  BY <1>1, <1>2, <1>5, <1>6, <1>8, <1>9

LEMMA AcceptTriggerEvents ==
  ASSUME TypeOK, EventPlaces, I2oReleases, Accounts, NEW n \in EventNumbers,
         NEW ls \in LumiSections, AcceptTrigger(n, ls)
  PROVE  EventPlaces' /\ I2oReleases' /\ Accounts' /\ failure' = failure
<1> SUFFICES ASSUME NEW id, id = GetEvBid(evbIdFactory, n)
             PROVE  EventPlaces' /\ I2oReleases' /\ Accounts' /\ failure' = failure
  OBVIOUS
<1> DEFINE e == [evbId |-> id, lumiSection |-> ls]
<1>1. /\ id \in EvBid /\ ls \in Nat /\ id \notin DOMAIN evbIdMap
      /\ IdsIssued' /\ failure' = failure
      /\ evbIdMap' = Insert(evbIdMap, id, ls) /\ eventFIFO' = Append(eventFIFO, e)
      /\ nbEvtsInBuilder < NbEvtIdsInBuilder /\ nbEvtsInBuilder' = nbEvtsInBuilder + 1
  BY AcceptedIsNew
<1>2. UNCHANGED << confirms, data, releasedEvbIdFIFO, allocateClears, i2oRequest, i2oRelease >>
  BY DEF AcceptTrigger, threadVars, netVars, buVars
<1>3. id \notin Waiting /\ id \notin Travelling /\ id \notin Held /\ id \notin Leaving /\ id \notin Released
  BY <1>1 DEF EventPlaces, Everywhere
<1>4. /\ Waiting' = Waiting \cup {id} /\ OnceEach(eventFIFO')
      /\ Len(eventFIFO') = Len(eventFIFO) + 1 /\ Len(eventFIFO) \in Nat
  <2>1. eventFIFO \in Seq(Event) /\ e \in Event /\ e.evbId = id
    BY <1>1 DEF TypeOK, FifoTypeOK, Event
  <2>2. Waiting = IdsOf(eventFIFO) /\ Waiting' = IdsOf(eventFIFO')
    BY DEF Waiting, IdsOf
  <2> HIDE DEF e
  <2> QED
    BY <1>1, <1>3, <2>1, <2>2, EventsAppend DEF EventPlaces, NoneTwice
<1>5. UNCHANGED << Travelling, Slots, Held, Releases, Leaving, Released >>
  BY <1>2 DEF Travelling, Slots, Held, Releases, Leaving, Released
<1>6. DOMAIN evbIdMap' = DOMAIN evbIdMap \cup {id}
  BY <1>1 DEF Insert
<1>7. Apart' /\ Everywhere'
  BY <1>3, <1>4, <1>5, <1>6 DEF EventPlaces, Apart, Everywhere
<1>8. NoneTwice'
  BY <1>2, <1>4, <1>5 DEF EventPlaces, NoneTwice, SlotId
<1>9. /\ IsFiniteSet(DOMAIN evbIdMap')
      /\ Cardinality(DOMAIN evbIdMap') = Cardinality(DOMAIN evbIdMap) + 1
      /\ Cardinality(confirms) \in Nat /\ Cardinality(Slots) \in Nat /\ Cardinality(Releases) \in Nat
  BY <1>1, <1>6, FS_AddElement, FS_CardinalityType DEF EventPlaces, FinitelyMany
<1>10. FinitelyMany'
  BY <1>2, <1>5, <1>9 DEF EventPlaces, FinitelyMany
<1>11. Sum'
  <2>1. Len(releasedEvbIdFIFO) \in Nat
    BY DEF TypeOK, FifoTypeOK
  <2>2. Cardinality(DOMAIN evbIdMap) =
          Len(eventFIFO) + Cardinality(confirms) + Cardinality(Slots)
          + Cardinality(Releases) + Len(releasedEvbIdFIFO)
    BY DEF EventPlaces, Sum
  <2>3. Cardinality(DOMAIN evbIdMap) + 1 =
          (Len(eventFIFO) + 1) + Cardinality(confirms) + Cardinality(Slots)
          + Cardinality(Releases) + Len(releasedEvbIdFIFO)
    BY <1>4, <1>9, <2>1, <2>2
  <2> QED
    BY <1>2, <1>4, <1>5, <1>9, <2>3 DEF Sum
<1>12. I2oReleases'
  BY <1>2 DEF I2oReleases
<1>13. Accounts'
  <2>1. \/ ls = 0 /\ UNCHANGED lumiSectionMap
        \/ ls # 0 /\ lumiSectionMap' = Insert(lumiSectionMap, ls, CountOf(ls) + 1)
    BY DEF AcceptTrigger, IncrementEventsInRuBuilder
  <2> QED
    BY <1>1, <2>1, InsertAccounts
<1> QED
  BY <1>1, <1>7, <1>8, <1>10, <1>11, <1>12, <1>13 DEF EventPlaces

-----------------------------------------------------------------------------
(***************************************************************************)
(* Every step.                                                             *)
(***************************************************************************)
LEMMA BuStepEvents ==
  ASSUME TypeOK, EventPlaces, I2oReleases, Accounts, NEW b \in BUs, BuStep(b)
  PROVE  EventPlaces' /\ I2oReleases' /\ Accounts' /\ UNCHANGED failure
<1>1. UNCHANGED evmVars
  BY DEF BuStep, SendEvtIdRqst, HandleDiscard, ResourceMonitoring
<1>2. Accounts' /\ UNCHANGED failure
  BY <1>1, SameAccounts DEF evmVars
<1>3. ASSUME NEW r \in Resources, SendEvtIdRqst(b, r) PROVE EventPlaces' /\ I2oReleases'
  <2>1. /\ allocateClears' = allocateClears \cup {Request(b, r)}
        /\ UNCHANGED << evbIdFactory, evbIdMap, eventFIFO, confirms, data, releasedEvbIdFIFO,
                        i2oRequest, i2oRelease >>
    BY <1>3 DEF SendEvtIdRqst, evmVars, fifoVars, threadVars
  <2> QED
    BY <2>1, AddRequestEvents
<1>4. ASSUME NEW r \in Resources, HandleDiscard(b, r) PROVE EventPlaces' /\ I2oReleases'
  BY <1>4, HandleDiscardEvents
<1>5. CASE ResourceMonitoring(b)
  <2>1. UNCHANGED << evbIdFactory, evbIdMap, eventFIFO, confirms, data, releasedEvbIdFIFO,
                     allocateClears, i2oRequest, i2oRelease >>
    BY <1>5 DEF ResourceMonitoring, evmVars, fifoVars, threadVars, netVars
  <2>2. Releases' = Releases /\ I2oReleases'
    BY <2>1 DEF Releases, I2oReleases
  <2> QED
    BY <1>2, <2>1, <2>2, SamePlaces
<1> QED
  BY <1>2, <1>3, <1>4, <1>5 DEF BuStep

LEMMA BuReceiveEvents ==
  ASSUME TypeOK, Places, EventPlaces, I2oReleases, Accounts, BuReceive
  PROVE  EventPlaces' /\ I2oReleases' /\ Accounts' /\ UNCHANGED failure
<1>1. UNCHANGED evmVars
  BY DEF BuReceive, StartConstruction, EvmLumisection
<1>2. Accounts' /\ UNCHANGED failure
  BY <1>1, SameAccounts DEF evmVars
<1>3. ASSUME NEW m \in confirms, StartConstruction(m) PROVE EventPlaces' /\ I2oReleases'
  <2>1. UNCHANGED << allocateClears, i2oRequest, i2oRelease >>
    BY <1>3 DEF StartConstruction, threadVars
  <2>2. I2oReleases'
    BY <2>1 DEF I2oReleases
  <2> QED
    BY <1>3, <2>2, StartConstructionEvents
<1>4. ASSUME NEW m \in lumiSectionMsgs, EvmLumisection(m) PROVE EventPlaces' /\ I2oReleases'
  <2>1. /\ allocateClears' = allocateClears \cup {Request(m.bu, m.resource)}
        /\ UNCHANGED << evbIdFactory, evbIdMap, eventFIFO, confirms, data, releasedEvbIdFIFO,
                        i2oRequest, i2oRelease >>
    BY <1>4 DEF EvmLumisection, evmVars, fifoVars, threadVars
  <2> QED
    BY <2>1, AddRequestEvents
<1> QED
  BY <1>2, <1>3, <1>4 DEF BuReceive

LEMMA I2oThreadEvents ==
  ASSUME TypeOK, I2oOne, Places, EventPlaces, I2oReleases, Accounts, failure = "none", I2oThread
  PROVE  EventPlaces' /\ I2oReleases' /\ Accounts' /\ UNCHANGED failure
<1>1. UNCHANGED evmVars
  BY DEF I2oThread, AnswerRequestWithEoLS, AcceptRequest, AcceptRelease, DiscardAllocateClear,
         EnqueueRequest, ReleaseEvent
<1>2. Accounts' /\ UNCHANGED failure
  BY <1>1, SameAccounts DEF evmVars
<1>3. \A m : ~DiscardAllocateClear(m)
  BY DEF DiscardAllocateClear
<1>4. EventPlaces' /\ I2oReleases'
  BY <1>3, AcceptEvents, EnqueueRequestEvents, ReleaseEventEvents DEF I2oThread
<1> QED
  BY <1>2, <1>4

LEMMA ProcessingEvents ==
  ASSUME TypeOK, EventPlaces, I2oReleases, Accounts, ProcessingWorkloop
  PROVE  EventPlaces' /\ I2oReleases' /\ Accounts' /\ UNCHANGED failure
<1>1. CASE ProcessNextReleasedEvent
  BY <1>1, ProcessNextReleasedEventEvents
<1>2. CASE SendEoLSsignal
  <2>1. UNCHANGED << evbIdFactory, evbIdMap, eventFIFO, confirms, data, releasedEvbIdFIFO,
                     allocateClears, i2oRequest, i2oRelease, failure >>
    BY <1>2 DEF SendEoLSsignal, threadVars, netVars, buVars
  <2>2. Releases' = Releases /\ I2oReleases'
    BY <2>1 DEF Releases, I2oReleases
  <2>3. Accounts'
    BY <1>2, SendEoLSsignalAccounts DEF EventPlaces
  <2> QED
    BY <2>1, <2>2, <2>3, SamePlaces
<1>3. ASSUME NEW b \in BUs, ServiceBuRqst(b)
      PROVE  EventPlaces' /\ I2oReleases' /\ Accounts' /\ UNCHANGED failure
  <2>1. UNCHANGED << allocateClears, i2oRequest, i2oRelease, evbIdMap, nbEvtsInBuilder,
                     lumiSectionMap, failure >>
    BY <1>3 DEF ServiceBuRqst, threadVars, evmVars
  <2>2. I2oReleases'
    BY <2>1 DEF I2oReleases
  <2> QED
    BY <1>3, <2>1, <2>2, ServiceBuRqstEvents, SameAccounts
<1> QED
  BY <1>1, <1>2, <1>3 DEF ProcessingWorkloop

LEMMA EoLSEvents ==
  ASSUME EventPlaces, I2oReleases, Accounts, L1InfoWorkloop \/ EoLSWorkloop \/ UNCHANGED vars
  PROVE  EventPlaces' /\ I2oReleases' /\ Accounts' /\ UNCHANGED failure
<1> DEFINE Same == UNCHANGED << evbIdFactory, evbIdMap, eventFIFO, confirms, data,
                                releasedEvbIdFIFO, allocateClears, i2oRequest, i2oRelease,
                                nbEvtsInBuilder, lumiSectionMap, failure >>
<1>1. L1InfoWorkloop => Same
  BY DEF L1InfoWorkloop, AnnounceSkippedLumiSection, AddLumiSectionInfo, evmVars, netVars, buVars
<1>2. TakeCompletedLumiSection => Same
  BY DEF TakeCompletedLumiSection, evmVars, netVars, buVars
<1>3. \A b : SendEoLSToRequest(b) => Same
  BY DEF SendEoLSToRequest, evmVars, buVars
<1>4. \A b : FindNoRequest(b) \/ EnqueueEoLS(b) \/ DropEoLS(b) => Same
  BY DEF FindNoRequest, EnqueueEoLS, DropEoLS, evmVars, fifoVars, netVars, buVars
<1>5. UNCHANGED vars => Same
  BY DEF vars, evmVars, fifoVars, threadVars, netVars, buVars
<1>6. Same
  BY <1>1, <1>2, <1>3, <1>4, <1>5 DEF EoLSWorkloop
<1>7. Releases' = Releases /\ I2oReleases'
  BY <1>6 DEF Releases, I2oReleases
<1> QED
  BY <1>6, <1>7, SamePlaces, SameAccounts

LEMMA TriggerEvents ==
  ASSUME TypeOK, EventPlaces, I2oReleases, Accounts, Trigger
  PROVE  \/ failure' \in {"Configuration", "LumiSectionDecreased"}
         \/ EventPlaces' /\ I2oReleases' /\ Accounts' /\ UNCHANGED failure
<1>1. RejectMalformedTrigger => failure' = "Configuration"
  BY DEF RejectMalformedTrigger
<1>2. \A n, ls : RejectLumiSection(n, ls) => failure' = "LumiSectionDecreased"
  BY DEF RejectLumiSection
<1>3. CASE \E n \in EventNumbers, ls \in LumiSections : AcceptTrigger(n, ls)
  BY <1>3, AcceptTriggerEvents
<1> QED
  BY <1>1, <1>2, <1>3 DEF Trigger

LEMMA NextEvents == EventInv /\ [Next]_vars => EventInv'
<1> SUFFICES ASSUME EventInv, [Next]_vars PROVE EventInv'
  OBVIOUS
<1> DEFINE Kept == EventPlaces /\ I2oReleases /\ Accounts
<1>1. ResourceInv'
  BY NextTypeOK, NextI2oOne, NextPlaces, FailedStays DEF EventInv, ResourceInv
<1>2. CASE failure # "none"
  <2>1. failure' = failure
    BY <1>2, FailedStays
  <2> QED
    BY <1>1, <1>2, <2>1 DEF EventInv
<1>3. CASE failure = "none"
  <2>1. TypeOK /\ I2oOne /\ Places /\ EventPlaces /\ I2oReleases /\ Accounts
    BY <1>3 DEF EventInv, ResourceInv
  <2>2. \/ failure' \in {"Configuration", "LumiSectionDecreased"}
        \/ EventPlaces' /\ I2oReleases' /\ Accounts' /\ UNCHANGED failure
    BY <1>3, <2>1, BuStepEvents, BuReceiveEvents, I2oThreadEvents, ProcessingEvents, EoLSEvents,
       TriggerEvents DEF Next
  <2> QED
    BY <1>1, <1>3, <2>2 DEF EventInv
<1> QED
  BY <1>2, <1>3

-----------------------------------------------------------------------------
LEMMA EventInvariant == Spec => []EventInv
<1>1. Init => EventInv
  BY InitTypeOK, InitResource, InitEvents DEF EventInv, ResourceInv, Init
<1>2. EventInv /\ [Next]_vars => EventInv'
  BY NextEvents
<1> QED
  BY <1>1, <1>2, PTL DEF Spec

\* While the EVM runs, each id it counts as in the builder is in exactly one
\* place between the trigger and the release, whatever the numbers of BUs,
\* resources, triggers and ids and the sizes of the queues.
THEOREM EventCorrect == Spec => []EventInOnePlace
<1>1. EventInv => EventInOnePlace
  BY EventInvIsProperty
<1> QED
  BY <1>1, EventInvariant, PTL

\* While the EVM runs, its counter of events and its counters of each lumi
\* section agree with its map of ids, and the builder is never over-full.
THEOREM AccountingCorrect == Spec => []BuilderAccounting
<1>1. EventInv => BuilderAccounting
  BY EventInvIsProperty
<1> QED
  BY <1>1, EventInvariant, PTL

-----------------------------------------------------------------------------
(***************************************************************************)
(* The end of a lumi section is final, and only the trigger can fail the   *)
(* EVM or a BU.                                                            *)
(*                                                                         *)
(* A lumi section is announced only when none of its events is in the      *)
(* builder and the trigger is past it (Past), by one of two threads: the   *)
(* one that counts events or the one that finds gaps.  Each BU then has    *)
(* one notice of it, which moves from place to place (Once).  Two notices  *)
(* are what LumiHandler would raise for, a taken slot what EventTable      *)
(* would raise for.                                                        *)
(***************************************************************************)

\* What travels with an id is the lumi section the EVM keeps for it.
Entry(map, e) == e.evbId \in DOMAIN map /\ map[e.evbId] = e.lumiSection

Agrees ==
  /\ \A i \in DOMAIN eventFIFO : Entry(evbIdMap, eventFIFO[i])
  /\ \A m \in confirms : Entry(evbIdMap, m)
  /\ \A b \in BUs : \A r \in DOMAIN data[b] : Entry(evbIdMap, data[b][r])

\* The L1 information the L1 workloop has yet to see is in order, and each event
\* in the builder is of a lumi section it saw or will see.
Ordered(q) == \A i, j \in DOMAIN q : i < j => q[i] <= q[j]

Seen ==
  /\ infoLumiSection <= currentLumiSection
  /\ \A i \in DOMAIN l1InfoFIFO : l1InfoFIFO[i] <= currentLumiSection
  /\ Ordered(l1InfoFIFO)
  /\ \A id \in DOMAIN evbIdMap :
       evbIdMap[id] <= infoLumiSection \/ evbIdMap[id] \in ToSet(l1InfoFIFO)

\* An announced lumi section is over.
Over(ls) == 0 < ls /\ ls < currentLumiSection /\ \A id \in DOMAIN evbIdMap : evbIdMap[id] # ls
Past     == \A ls \in Announced : Over(ls)

LumiInv == EventInv /\ Agrees /\ Seen /\ Past

LEMMA LumiInvIsProperty == LumiInv => NoEventOfAnnouncedLumiSection
BY DEF LumiInv, Agrees, Entry, Past, Over, NoEventOfAnnouncedLumiSection

LEMMA InitLumi == Init => Agrees /\ Seen /\ Past
<1> SUFFICES ASSUME Init PROVE Agrees /\ Seen /\ Past
  OBVIOUS
<1>1. DOMAIN evbIdMap = {} /\ confirms = {} /\ eventFIFO = << >> /\ l1InfoFIFO = << >>
      /\ \A b \in BUs : DOMAIN data[b] = {}
  BY DEF Init
<1>2. Agrees /\ Seen
  BY <1>1 DEF Init, Agrees, Seen, Ordered
<1>3. Announced = {}
  BY DEF Init, Announced, ToSet, Idle
<1> QED
  BY <1>2, <1>3 DEF Past

-----------------------------------------------------------------------------
(***************************************************************************)
(* The announcements.                                                      *)
(***************************************************************************)
\* The notices a BU will get or got.
LEMMA AnnouncedOf ==
  /\ ToSet(completedLumiSectionFIFO) \subseteq Announced
  /\ eolsTask.todo \cup eolsTask.copy # {} => eolsTask.lumiSection \in Announced
  /\ \A b \in BUs : ToSet(eolsFIFOs[b]) \subseteq Announced /\ closedLS[b] \subseteq Announced
  /\ \A m \in lumiSectionMsgs : m.lumiSection \in Announced
BY DEF Announced

\* The announcements come from somewhere.
LEMMA AnnouncedFrom ==
  ASSUME NEW S,
         ToSet(completedLumiSectionFIFO)' \subseteq S,
         (eolsTask.todo \cup eolsTask.copy # {})' => eolsTask.lumiSection' \in S,
         \A b \in BUs : ToSet(eolsFIFOs[b])' \subseteq S /\ closedLS[b]' \subseteq S,
         \A m \in lumiSectionMsgs' : m.lumiSection \in S
  PROVE  Announced' \subseteq S
<1>1. UNION { ToSet(eolsFIFOs[b])' \cup closedLS[b]' : b \in BUs } \subseteq S
  OBVIOUS
<1>2. { m.lumiSection : m \in lumiSectionMsgs' } \subseteq S
  OBVIOUS
<1>3. (IF (eolsTask.todo \cup eolsTask.copy = {})' THEN {} ELSE {eolsTask.lumiSection'}) \subseteq S
  OBVIOUS
<1> QED
  BY <1>1, <1>2, <1>3 DEF Announced

LEMMA AnnouncedIsNat == TypeOK => Announced \subseteq Nat
<1> SUFFICES ASSUME TypeOK PROVE Announced \subseteq Nat
  OBVIOUS
<1>1. \A q \in Seq(Nat) : ToSet(q) \subseteq Nat
  BY DEF ToSet
<1>2. completedLumiSectionFIFO \in Seq(Nat) /\ \A b \in BUs : eolsFIFOs[b] \in Seq(Nat)
  BY DEF TypeOK, FifoTypeOK
<1>3. ToSet(completedLumiSectionFIFO) \subseteq Nat
  BY <1>1, <1>2
<1>4. eolsTask.lumiSection \in Nat
  BY DEF TypeOK, ThreadTypeOK, EolsTask
<1>5. \A b \in BUs : ToSet(eolsFIFOs[b]) \subseteq Nat /\ closedLS[b] \subseteq Nat
  BY <1>1, <1>2 DEF TypeOK, BuTypeOK
<1>6. \A m \in lumiSectionMsgs : m.lumiSection \in Nat
  BY DEF TypeOK, NetTypeOK, EolsMsg
<1> QED
  BY <1>3, <1>4, <1>5, <1>6 DEF Announced

LEMMA AnnouncedSame ==
  ASSUME UNCHANGED << completedLumiSectionFIFO, eolsTask, eolsFIFOs, closedLS, lumiSectionMsgs >>
  PROVE  Announced' \subseteq Announced
BY AnnouncedOf, AnnouncedFrom

LEMMA EvmLumisectionAnnounced ==
  ASSUME TypeOK, NEW m \in lumiSectionMsgs, EvmLumisection(m)
  PROVE  Announced' \subseteq Announced
<1>1. /\ UNCHANGED << completedLumiSectionFIFO, eolsTask, eolsFIFOs >>
      /\ lumiSectionMsgs' = lumiSectionMsgs \ {m}
      /\ closedLS' = [closedLS EXCEPT ![m.bu] = @ \cup {m.lumiSection}]
  BY DEF EvmLumisection, fifoVars, threadVars
<1>2. \A b \in BUs : closedLS'[b] \subseteq closedLS[b] \cup {m.lumiSection}
  BY <1>1 DEF TypeOK, BuTypeOK
<1>3. \A b \in BUs : closedLS'[b] \subseteq Announced
  BY <1>2, AnnouncedOf
<1>4. /\ ToSet(completedLumiSectionFIFO)' \subseteq Announced
      /\ (eolsTask.todo \cup eolsTask.copy # {})' => eolsTask.lumiSection' \in Announced
      /\ \A b \in BUs : ToSet(eolsFIFOs[b])' \subseteq Announced
      /\ \A n \in lumiSectionMsgs' : n.lumiSection \in Announced
  BY <1>1, AnnouncedOf
<1> QED
  BY <1>3, <1>4, AnnouncedFrom

LEMMA AnswerAnnounced ==
  ASSUME TypeOK, NEW m \in allocateClears, AnswerRequestWithEoLS(m)
  PROVE  Announced' \subseteq Announced
<1> DEFINE q == eolsFIFOs[m.bu]
           n == [bu |-> m.bu, resource |-> m.resource, lumiSection |-> Head(q)]
<1>1. m.bu \in BUs /\ q \in Seq(Nat) /\ q # << >>
  BY DEF TypeOK, NetTypeOK, FifoTypeOK, Element, AnswerRequestWithEoLS
<1>2. /\ UNCHANGED << completedLumiSectionFIFO, eolsTask, closedLS >>
      /\ eolsFIFOs' = [eolsFIFOs EXCEPT ![m.bu] = Tail(@)]
      /\ lumiSectionMsgs' = lumiSectionMsgs \cup {n}
  BY DEF AnswerRequestWithEoLS, buVars
<1>3. Head(q) \in ToSet(q) /\ ToSet(Tail(q)) \subseteq ToSet(q)
  BY <1>1, QueueTail
<1>4. \A b \in BUs : eolsFIFOs'[b] = IF b = m.bu THEN Tail(q) ELSE eolsFIFOs[b]
  BY <1>2 DEF TypeOK, FifoTypeOK
<1>5. \A b \in BUs : ToSet(eolsFIFOs'[b]) \subseteq ToSet(eolsFIFOs[b])
  BY <1>3, <1>4
<1>6. Head(q) \in Announced /\ n.lumiSection = Head(q)
  BY <1>1, <1>3, AnnouncedOf
<1>7. \A b \in BUs : ToSet(eolsFIFOs'[b]) \subseteq Announced
  BY <1>5, AnnouncedOf
<1> HIDE DEF n
<1>8. \A k \in lumiSectionMsgs' : k.lumiSection \in Announced
  BY <1>2, <1>6, AnnouncedOf
<1>9. /\ ToSet(completedLumiSectionFIFO)' \subseteq Announced
      /\ (eolsTask.todo \cup eolsTask.copy # {})' => eolsTask.lumiSection' \in Announced
      /\ \A b \in BUs : closedLS[b]' \subseteq Announced
  BY <1>2, AnnouncedOf
<1> QED
  BY <1>7, <1>8, <1>9, AnnouncedFrom

LEMMA EoLSWorkloopAnnounced ==
  ASSUME TypeOK, EoLSWorkloop
  PROVE  Announced' \subseteq Announced
<1>1. CASE TakeCompletedLumiSection
  <2> DEFINE q == completedLumiSectionFIFO
  <2>1. q \in Seq(Nat) /\ q # << >> /\ q' = Tail(q)
        /\ eolsTask'.lumiSection = Head(q)
        /\ UNCHANGED << eolsFIFOs, closedLS, lumiSectionMsgs >>
    BY <1>1 DEF TakeCompletedLumiSection, TypeOK, FifoTypeOK, netVars, buVars
  <2>2. Head(q) \in ToSet(q) /\ ToSet(Tail(q)) \subseteq ToSet(q)
    BY <2>1, QueueTail
  <2>3. Head(q) \in Announced /\ ToSet(q') \subseteq Announced
    BY <2>1, <2>2, AnnouncedOf
  <2>4. /\ \A b \in BUs : ToSet(eolsFIFOs[b])' \subseteq Announced /\ closedLS[b]' \subseteq Announced
        /\ \A m \in lumiSectionMsgs' : m.lumiSection \in Announced
    BY <2>1, AnnouncedOf
  <2> QED
    BY <2>1, <2>3, <2>4, AnnouncedFrom
<1>2. ASSUME NEW b \in BUs,
             SendEoLSToRequest(b) \/ FindNoRequest(b) \/ EnqueueEoLS(b) \/ DropEoLS(b)
      PROVE  Announced' \subseteq Announced
  <2> DEFINE ls == eolsTask.lumiSection
  <2>1. /\ eolsTask \in EolsTask /\ eolsTask.todo \cup eolsTask.copy # {}
        /\ UNCHANGED << completedLumiSectionFIFO, closedLS >>
    BY <1>2 DEF SendEoLSToRequest, FindNoRequest, EnqueueEoLS, DropEoLS, TypeOK, ThreadTypeOK,
                fifoVars, buVars
  <2>2. ls \in Announced
    BY <2>1, AnnouncedOf
  <2>3. eolsTask'.lumiSection = ls
    <3>1. SendEoLSToRequest(b) => eolsTask' = [eolsTask EXCEPT !.todo = @ \ {b}]
      BY DEF SendEoLSToRequest
    <3>2. FindNoRequest(b) => eolsTask' = [eolsTask EXCEPT !.todo = @ \ {b}, !.copy = {b}]
      BY DEF FindNoRequest
    <3>3. EnqueueEoLS(b) => eolsTask' = [eolsTask EXCEPT !.copy = {}]
      BY DEF EnqueueEoLS
    <3>4. DropEoLS(b) => eolsTask' = [eolsTask EXCEPT !.todo = {}, !.copy = {}]
      BY DEF DropEoLS
    <3> QED
      BY <1>2, <2>1, <3>1, <3>2, <3>3, <3>4 DEF EolsTask
  <2>4. \A c \in BUs : ToSet(eolsFIFOs'[c]) \subseteq Announced
    <3>1. CASE UNCHANGED eolsFIFOs
      BY <3>1, AnnouncedOf
    <3>2. CASE EnqueueEoLS(b)
      <4>1. /\ eolsFIFOs[b] \in Seq(Nat) /\ ls \in Nat
            /\ eolsFIFOs' = [eolsFIFOs EXCEPT ![b] = Append(@, ls)]
        BY <2>1, <3>2 DEF EnqueueEoLS, TypeOK, FifoTypeOK, EolsTask
      <4>2. ToSet(Append(eolsFIFOs[b], ls)) = ToSet(eolsFIFOs[b]) \cup {ls}
        BY <4>1, QueueAppend
      <4>3. \A c \in BUs : eolsFIFOs'[c] = IF c = b THEN Append(eolsFIFOs[b], ls) ELSE eolsFIFOs[c]
        BY <4>1 DEF TypeOK, FifoTypeOK
      <4> QED
        BY <2>2, <4>2, <4>3, AnnouncedOf
    <3> QED
      BY <1>2, <3>1, <3>2 DEF SendEoLSToRequest, FindNoRequest, DropEoLS, fifoVars
  <2>5. \A m \in lumiSectionMsgs' : m.lumiSection \in Announced
    <3>1. CASE UNCHANGED lumiSectionMsgs
      BY <3>1, AnnouncedOf
    <3>2. CASE SendEoLSToRequest(b)
      <4> DEFINE n == [bu |-> b, resource |-> Head(requestFIFOs[b]), lumiSection |-> ls]
      <4>1. lumiSectionMsgs' = lumiSectionMsgs \cup {n} /\ n.lumiSection = ls
        BY <3>2 DEF SendEoLSToRequest
      <4> HIDE DEF n
      <4> QED
        BY <2>2, <4>1, AnnouncedOf
    <3> QED
      BY <1>2, <3>1, <3>2 DEF FindNoRequest, EnqueueEoLS, DropEoLS, netVars
  <2>6. ToSet(completedLumiSectionFIFO)' \subseteq Announced /\ \A c \in BUs : closedLS[c]' \subseteq Announced
    BY <2>1, AnnouncedOf
  <2> QED
    BY <2>2, <2>3, <2>4, <2>5, <2>6, AnnouncedFrom
<1> QED
  BY <1>1, <1>2 DEF EoLSWorkloop

\* The two announcements.
LEMMA Announce ==
  ASSUME TypeOK, NEW ls \in Nat,
         completedLumiSectionFIFO' = Append(completedLumiSectionFIFO, ls),
         UNCHANGED << eolsTask, eolsFIFOs, closedLS, lumiSectionMsgs >>
  PROVE  Announced' \subseteq Announced \cup {ls}
<1>1. completedLumiSectionFIFO \in Seq(Nat)
  BY DEF TypeOK, FifoTypeOK
<1>2. ToSet(Append(completedLumiSectionFIFO, ls)) = ToSet(completedLumiSectionFIFO) \cup {ls}
  BY <1>1, QueueAppend
<1>3. ToSet(completedLumiSectionFIFO)' \subseteq Announced \cup {ls}
  BY <1>2, AnnouncedOf
<1>4. /\ (eolsTask.todo \cup eolsTask.copy # {})' => eolsTask.lumiSection' \in Announced
      /\ \A b \in BUs : ToSet(eolsFIFOs[b])' \subseteq Announced /\ closedLS[b]' \subseteq Announced
      /\ \A m \in lumiSectionMsgs' : m.lumiSection \in Announced
  BY AnnouncedOf
<1> DEFINE S == Announced \cup {ls}
<1> SUFFICES Announced' \subseteq S
  OBVIOUS
<1> HIDE DEF S
<1> QED
  BY <1>3, <1>4, AnnouncedFrom DEF S

-----------------------------------------------------------------------------
(***************************************************************************)
(* The lumi section that travels with an id.                               *)
(***************************************************************************)
LEMMA SameAgrees ==
  ASSUME Agrees, UNCHANGED << evbIdMap, eventFIFO, confirms, data >>
  PROVE  Agrees'
BY DEF Agrees, Entry

LEMMA ServiceBuRqstAgrees ==
  ASSUME TypeOK, Agrees, NEW b \in BUs, ServiceBuRqst(b)
  PROVE  Agrees'
<1> DEFINE m == [bu |-> b, resource |-> Head(requestFIFOs[b]), evbId |-> Head(eventFIFO).evbId,
                 lumiSection |-> Head(eventFIFO).lumiSection]
<1>1. /\ eventFIFO \in Seq(Event) /\ eventFIFO # << >> /\ eventFIFO' = Tail(eventFIFO)
      /\ confirms' = confirms \cup {m} /\ UNCHANGED << evbIdMap, data >>
  BY DEF TypeOK, FifoTypeOK, ServiceBuRqst, evmVars, buVars
<1>2. /\ DOMAIN eventFIFO = 1..Len(eventFIFO) /\ Head(eventFIFO) = eventFIFO[1]
      /\ DOMAIN Tail(eventFIFO) = 1..(Len(eventFIFO) - 1) /\ Len(eventFIFO) \in Nat \ {0}
      /\ \A i \in 1..(Len(eventFIFO) - 1) : Tail(eventFIFO)[i] = eventFIFO[i + 1]
  BY <1>1
<1>3. 1 \in DOMAIN eventFIFO /\ \A i \in 1..(Len(eventFIFO) - 1) : i + 1 \in DOMAIN eventFIFO
  BY <1>2
<1>4. \A i \in DOMAIN eventFIFO' : Entry(evbIdMap', eventFIFO'[i])
  BY <1>1, <1>2, <1>3 DEF Agrees, Entry
<1>5. Entry(evbIdMap, Head(eventFIFO)) /\ m.evbId = Head(eventFIFO).evbId
      /\ m.lumiSection = Head(eventFIFO).lumiSection
  BY <1>2, <1>3 DEF Agrees
<1> HIDE DEF m
<1>6. \A n \in confirms' : Entry(evbIdMap', n)
  BY <1>1, <1>5 DEF Agrees, Entry
<1>7. \A c \in BUs : \A r \in DOMAIN data'[c] : Entry(evbIdMap', data'[c][r])
  BY <1>1 DEF Agrees, Entry
<1> QED
  BY <1>4, <1>6, <1>7 DEF Agrees

LEMMA StartConstructionAgrees ==
  ASSUME TypeOK, Agrees, NEW m \in confirms, StartConstruction(m)
  PROVE  Agrees'
<1>1. confirms' = confirms \ {m} /\ UNCHANGED << evbIdMap, eventFIFO >>
  BY DEF StartConstruction, evmVars, fifoVars
<1>2. CASE UNCHANGED data
  BY <1>1, <1>2 DEF Agrees, Entry
<1>3. CASE data' = [data EXCEPT ![m.bu] = Insert(@, m.resource,
                      [evbId |-> m.evbId, lumiSection |-> m.lumiSection])]
  <2> DEFINE e == [evbId |-> m.evbId, lumiSection |-> m.lumiSection]
  <2>1. Entry(evbIdMap, e)
    BY DEF Agrees, Entry
  <2>2. \A b \in BUs : data'[b] = IF b = m.bu THEN Insert(data[b], m.resource, e) ELSE data[b]
    BY <1>3 DEF TypeOK, BuTypeOK
  <2> HIDE DEF e
  <2>3. \A b \in BUs : \A r \in DOMAIN data'[b] :
          data'[b][r] = e \/ (r \in DOMAIN data[b] /\ data'[b][r] = data[b][r])
    <3> SUFFICES ASSUME NEW b \in BUs, NEW r \in DOMAIN data'[b]
                 PROVE  data'[b][r] = e \/ (r \in DOMAIN data[b] /\ data'[b][r] = data[b][r])
      OBVIOUS
    <3>1. CASE b = m.bu
      <4>1. data'[b] = Insert(data[b], m.resource, e)
        BY <2>2, <3>1
      <4>2. /\ DOMAIN data'[b] = DOMAIN data[b] \cup {m.resource}
            /\ data'[b][r] = IF r = m.resource THEN e ELSE data[b][r]
        BY <4>1 DEF Insert
      <4> QED
        BY <4>2
    <3>2. CASE b # m.bu
      BY <2>2, <3>2
    <3> QED
      BY <3>1, <3>2
  <2>4. \A b \in BUs : \A r \in DOMAIN data'[b] : Entry(evbIdMap, data'[b][r])
    BY <2>1, <2>3 DEF Agrees
  <2> QED
    BY <1>1, <2>4 DEF Agrees, Entry
<1> QED
  BY <1>2, <1>3 DEF StartConstruction

LEMMA HandleDiscardAgrees ==
  ASSUME TypeOK, Agrees, NEW b \in BUs, NEW r \in Resources, HandleDiscard(b, r)
  PROVE  Agrees'
<1>1. data' = [data EXCEPT ![b] = Erase(@, r)] /\ UNCHANGED << evbIdMap, eventFIFO, confirms >>
  BY DEF HandleDiscard, evmVars, fifoVars
<1>2. \A c \in BUs : data'[c] = IF c = b THEN Erase(data[c], r) ELSE data[c]
  BY <1>1 DEF TypeOK, BuTypeOK
<1>3. \A c \in BUs : \A s \in DOMAIN data'[c] : s \in DOMAIN data[c] /\ data'[c][s] = data[c][s]
  BY <1>2 DEF Erase
<1> QED
  BY <1>1, <1>3 DEF Agrees, Entry

LEMMA ForgetAgrees ==
  ASSUME TypeOK, EventPlaces, Accounts, Agrees, ProcessNextReleasedEvent
  PROVE  Agrees'
<1> SUFFICES ASSUME NEW x, x = Head(releasedEvbIdFIFO) PROVE Agrees'
  OBVIOUS
<1>1. x \in Released /\ evbIdMap' = Erase(evbIdMap, x)
  BY ReleasedIsKnown
<1>2. UNCHANGED << eventFIFO, confirms, data >>
  BY DEF ProcessNextReleasedEvent, netVars, buVars
<1>3. \A e : Entry(evbIdMap, e) /\ e.evbId # x => Entry(evbIdMap', e)
  BY <1>1 DEF Entry, Erase
<1>4. x \notin Waiting /\ x \notin Travelling /\ x \notin Held
  BY <1>1 DEF EventPlaces, Apart
<1>5. \A i \in DOMAIN eventFIFO : eventFIFO[i].evbId # x
  BY <1>4 DEF Waiting
<1>6. \A m \in confirms : m.evbId # x
  BY <1>4 DEF Travelling
<1>7. \A b \in BUs : \A r \in DOMAIN data[b] : data[b][r].evbId # x
  <2> SUFFICES ASSUME NEW b \in BUs, NEW r \in DOMAIN data[b] PROVE data[b][r].evbId # x
    OBVIOUS
  <2>1. r \in Resources
    BY DEF TypeOK, BuTypeOK, IsMap
  <2>2. << b, r >> \in Slots
    BY <2>1 DEF Slots
  <2>3. data[b][r].evbId \in Held
    BY <2>2 DEF Held
  <2> QED
    BY <1>4, <2>3
<1> QED
  BY <1>2, <1>3, <1>5, <1>6, <1>7 DEF Agrees

LEMMA AcceptTriggerAgrees ==
  ASSUME TypeOK, EventPlaces, Accounts, Agrees, NEW n \in EventNumbers, NEW ls \in LumiSections,
         AcceptTrigger(n, ls)
  PROVE  Agrees'
<1> SUFFICES ASSUME NEW id, id = GetEvBid(evbIdFactory, n) PROVE Agrees'
  OBVIOUS
<1> DEFINE e == [evbId |-> id, lumiSection |-> ls]
<1>1. /\ id \in EvBid /\ ls \in Nat /\ id \notin DOMAIN evbIdMap
      /\ evbIdMap' = Insert(evbIdMap, id, ls) /\ eventFIFO' = Append(eventFIFO, e)
  BY AcceptedIsNew
<1>2. UNCHANGED << confirms, data >>
  BY DEF AcceptTrigger, netVars, buVars
<1>3. \A f : Entry(evbIdMap, f) => Entry(evbIdMap', f)
  BY <1>1 DEF Entry, Insert
<1>4. Entry(evbIdMap', e)
  BY <1>1 DEF Entry, Insert
<1>5. eventFIFO \in Seq(Event) /\ e \in Event
  BY <1>1 DEF TypeOK, FifoTypeOK, Event
<1> HIDE DEF e
<1>6. \A i \in DOMAIN eventFIFO' : eventFIFO'[i] = e \/ (i \in DOMAIN eventFIFO /\ eventFIFO'[i] = eventFIFO[i])
  BY <1>1, <1>5
<1>7. \A i \in DOMAIN eventFIFO' : Entry(evbIdMap', eventFIFO'[i])
  BY <1>3, <1>4, <1>6 DEF Agrees
<1>8. /\ \A m \in confirms' : Entry(evbIdMap', m)
      /\ \A b \in BUs : \A r \in DOMAIN data'[b] : Entry(evbIdMap', data'[b][r])
  BY <1>2, <1>3 DEF Agrees
<1> QED
  BY <1>7, <1>8 DEF Agrees

-----------------------------------------------------------------------------
(***************************************************************************)
(* The L1 information.                                                     *)
(***************************************************************************)
LEMMA OrderedAppend ==
  ASSUME NEW q \in Seq(Nat), NEW n \in Nat, Ordered(q), \A i \in DOMAIN q : q[i] <= n
  PROVE  Ordered(Append(q, n)) /\ \A i \in DOMAIN Append(q, n) : Append(q, n)[i] <= n
<1>1. /\ Len(q) \in Nat /\ DOMAIN q = 1..Len(q) /\ DOMAIN Append(q, n) = 1..(Len(q) + 1)
      /\ \A i \in 1..Len(q) : Append(q, n)[i] = q[i] /\ q[i] \in Nat
      /\ Append(q, n)[Len(q) + 1] = n
  OBVIOUS
<1>2. \A i \in 1..(Len(q) + 1) : i \in 1..Len(q) \/ i = Len(q) + 1
  BY <1>1
<1>3. \A i \in DOMAIN Append(q, n) : Append(q, n)[i] <= n
  BY <1>1, <1>2
<1>4. ASSUME NEW i \in 1..(Len(q) + 1), NEW j \in 1..(Len(q) + 1), i < j
      PROVE  Append(q, n)[i] <= Append(q, n)[j]
  <2>1. i \in 1..Len(q)
    BY <1>1, <1>4
  <2>2. CASE j \in 1..Len(q)
    BY <1>1, <1>4, <2>1, <2>2 DEF Ordered
  <2>3. CASE j = Len(q) + 1
    BY <1>1, <2>1, <2>3
  <2> QED
    BY <1>2, <2>2, <2>3
<1> QED
  BY <1>1, <1>3, <1>4 DEF Ordered

LEMMA OrderedTail ==
  ASSUME NEW q \in Seq(Nat), q # << >>, Ordered(q)
  PROVE  /\ Ordered(Tail(q))
         /\ \A x \in ToSet(q) : x \in Nat /\ Head(q) <= x
         /\ \A i \in DOMAIN Tail(q) : \E j \in DOMAIN q : Tail(q)[i] = q[j]
<1>1. /\ Len(q) \in Nat \ {0} /\ DOMAIN q = 1..Len(q) /\ DOMAIN Tail(q) = 1..(Len(q) - 1)
      /\ Head(q) = q[1] /\ \A i \in 1..Len(q) : q[i] \in Nat
      /\ \A i \in 1..(Len(q) - 1) : Tail(q)[i] = q[i + 1]
  OBVIOUS
<1>2. \A i \in 1..(Len(q) - 1) : i + 1 \in 1..Len(q)
  BY <1>1
<1>3. \A i, j \in 1..(Len(q) - 1) : i < j => i + 1 < j + 1
  BY <1>1
<1>4. Ordered(Tail(q))
  BY <1>1, <1>2, <1>3 DEF Ordered
<1>5. \A i \in 1..Len(q) : q[1] <= q[i]
  <2> SUFFICES ASSUME NEW i \in 1..Len(q) PROVE q[1] <= q[i]
    OBVIOUS
  <2>1. 1 \in 1..Len(q) /\ (i = 1 \/ 1 < i)
    BY <1>1
  <2> QED
    BY <1>1, <2>1 DEF Ordered
<1>6. \A x \in ToSet(q) : x \in Nat /\ Head(q) <= x
  BY <1>1, <1>5 DEF ToSet
<1> QED
  BY <1>1, <1>2, <1>4, <1>6

LEMMA SameSeen ==
  ASSUME Seen, UNCHANGED << infoLumiSection, currentLumiSection, l1InfoFIFO >>,
         \A id \in DOMAIN evbIdMap' : id \in DOMAIN evbIdMap /\ evbIdMap'[id] = evbIdMap[id]
  PROVE  Seen'
BY DEF Seen

LEMMA AddLumiSectionInfoSeen ==
  ASSUME TypeOK, Seen, AddLumiSectionInfo
  PROVE  Seen'
<1> DEFINE q == l1InfoFIFO
           h == Head(l1InfoFIFO)
<1>1. /\ q \in Seq(Nat) /\ q # << >> /\ q' = Tail(q)
      /\ h <= infoLumiSection + 1
      /\ infoLumiSection' = IF h > infoLumiSection THEN h ELSE infoLumiSection
      /\ UNCHANGED << evbIdMap, currentLumiSection >>
  BY DEF AddLumiSectionInfo, TypeOK, FifoTypeOK, evmVars
<1>2. infoLumiSection \in Nat /\ currentLumiSection \in Nat /\ h \in Nat
      /\ \A id \in DOMAIN evbIdMap : evbIdMap[id] \in Nat
  BY <1>1 DEF TypeOK, EvmTypeOK, ThreadTypeOK, IsMap
<1>3. ToSet(q) = ToSet(Tail(q)) \cup {h} /\ h \in ToSet(q)
  BY <1>1, QueueTail
<1>4. /\ Ordered(Tail(q)) /\ \A i \in DOMAIN Tail(q) : \E j \in DOMAIN q : Tail(q)[i] = q[j]
      /\ \A i \in DOMAIN q : q[i] <= currentLumiSection
  BY <1>1, OrderedTail DEF Seen
<1>5. \A x \in ToSet(q) : x <= currentLumiSection
  BY <1>4 DEF ToSet
<1> HIDE DEF q, h
<1>6. infoLumiSection' <= currentLumiSection
  BY <1>1, <1>2, <1>3, <1>5 DEF Seen
<1>7. \A id \in DOMAIN evbIdMap : evbIdMap[id] <= infoLumiSection' \/ evbIdMap[id] \in ToSet(Tail(q))
  <2>1. infoLumiSection <= infoLumiSection' /\ h <= infoLumiSection' /\ infoLumiSection' \in Nat
    BY <1>1, <1>2
  <2>2. \A id \in DOMAIN evbIdMap : evbIdMap[id] <= infoLumiSection \/ evbIdMap[id] \in ToSet(q)
    BY DEF Seen, q
  <2> QED
    BY <1>2, <1>3, <2>1, <2>2
<1> QED
  BY <1>1, <1>4, <1>6, <1>7 DEF Seen, q

\* A gap between the lumi sections seen and the next is before all that is to come.
LEMMA AnnounceSkippedSeen ==
  ASSUME TypeOK, Seen, AnnounceSkippedLumiSection
  PROVE  Seen' /\ Over(infoLumiSection + 1)
<1> DEFINE q == l1InfoFIFO
           h == Head(l1InfoFIFO)
<1>1. /\ q \in Seq(Nat) /\ q # << >>
      /\ h > infoLumiSection + 1 /\ infoLumiSection' = infoLumiSection + 1
      /\ UNCHANGED << l1InfoFIFO, evbIdMap, currentLumiSection >>
  BY DEF AnnounceSkippedLumiSection, TypeOK, FifoTypeOK, evmVars
<1>2. infoLumiSection \in Nat /\ currentLumiSection \in Nat /\ h \in Nat
      /\ \A id \in DOMAIN evbIdMap : evbIdMap[id] \in Nat
  BY <1>1 DEF TypeOK, EvmTypeOK, ThreadTypeOK, IsMap
<1>3. h \in ToSet(q) /\ \A x \in ToSet(q) : x \in Nat /\ h <= x
  BY <1>1, QueueTail, OrderedTail DEF Seen
<1>4. \A x \in ToSet(q) : x <= currentLumiSection
  BY DEF Seen, ToSet
<1>5. infoLumiSection + 1 < currentLumiSection
  BY <1>1, <1>2, <1>3, <1>4
<1>6. \A id \in DOMAIN evbIdMap : evbIdMap[id] <= infoLumiSection \/ evbIdMap[id] \in ToSet(q)
  BY DEF Seen
<1> HIDE DEF q, h
<1>7. \A id \in DOMAIN evbIdMap : evbIdMap[id] # infoLumiSection + 1
  BY <1>1, <1>2, <1>3, <1>6
<1>8. \A id \in DOMAIN evbIdMap : evbIdMap[id] <= infoLumiSection + 1 \/ evbIdMap[id] \in ToSet(q)
  BY <1>2, <1>6
<1> QED
  BY <1>1, <1>2, <1>5, <1>7, <1>8 DEF Seen, Over, q

LEMMA AcceptTriggerSeen ==
  ASSUME TypeOK, EventPlaces, Accounts, Seen, NEW n \in EventNumbers, NEW ls \in LumiSections,
         AcceptTrigger(n, ls)
  PROVE  Seen'
<1> SUFFICES ASSUME NEW id, id = GetEvBid(evbIdFactory, n) PROVE Seen'
  OBVIOUS
<1>1. ls \in Nat /\ evbIdMap' = Insert(evbIdMap, id, ls)
  BY AcceptedIsNew
<1>2. \A x \in DOMAIN evbIdMap' : evbIdMap'[x] = ls \/ (x \in DOMAIN evbIdMap /\ evbIdMap'[x] = evbIdMap[x])
  BY <1>1 DEF Insert
<1>3. UNCHANGED infoLumiSection
  BY DEF AcceptTrigger, threadVars
<1>4. CASE ls = 0
  <2>1. UNCHANGED << currentLumiSection, l1InfoFIFO >> /\ 0 <= infoLumiSection
    BY <1>4 DEF AcceptTrigger, IncrementEventsInRuBuilder, TypeOK, ThreadTypeOK
  <2> QED
    BY <1>2, <1>3, <1>4, <2>1 DEF Seen
<1>5. CASE ls # 0
  <2>1. ls >= currentLumiSection /\ currentLumiSection' = ls /\ l1InfoFIFO' = Append(l1InfoFIFO, ls)
    BY <1>5 DEF AcceptTrigger, IncrementEventsInRuBuilder
  <2>2. l1InfoFIFO \in Seq(Nat) /\ currentLumiSection \in Nat /\ infoLumiSection \in Nat
    BY DEF TypeOK, FifoTypeOK, EvmTypeOK, ThreadTypeOK
  <2>3. \A i \in DOMAIN l1InfoFIFO : l1InfoFIFO[i] \in Nat
    BY <2>2
  <2>4. Ordered(l1InfoFIFO) /\ \A i \in DOMAIN l1InfoFIFO : l1InfoFIFO[i] <= ls
    BY <1>1, <2>1, <2>2, <2>3 DEF Seen
  <2>5. Ordered(l1InfoFIFO') /\ \A i \in DOMAIN l1InfoFIFO' : l1InfoFIFO'[i] <= currentLumiSection'
    BY <1>1, <2>1, <2>2, <2>4, OrderedAppend
  <2>6. ToSet(l1InfoFIFO') = ToSet(l1InfoFIFO) \cup {ls}
    BY <1>1, <2>1, <2>2, QueueAppend
  <2>7. infoLumiSection' <= currentLumiSection'
    BY <1>1, <1>3, <2>1, <2>2 DEF Seen
  <2>8. \A x \in DOMAIN evbIdMap' : evbIdMap'[x] <= infoLumiSection' \/ evbIdMap'[x] \in ToSet(l1InfoFIFO')
    BY <1>2, <1>3, <2>6 DEF Seen
  <2> QED
    BY <2>5, <2>7, <2>8 DEF Seen
<1> QED
  BY <1>4, <1>5

-----------------------------------------------------------------------------
(***************************************************************************)
(* Every step.                                                             *)
(***************************************************************************)
LEMMA PastKept ==
  ASSUME Past, Announced' \subseteq Announced, UNCHANGED currentLumiSection,
         \A id \in DOMAIN evbIdMap' : id \in DOMAIN evbIdMap /\ evbIdMap'[id] = evbIdMap[id]
  PROVE  Past'
BY DEF Past, Over

\* A step of a thread that neither announces nor knows of lumi sections.
LEMMA ElsewhereLumi ==
  ASSUME Seen, Past, Announced' \subseteq Announced,
         UNCHANGED << evbIdMap, currentLumiSection, infoLumiSection, l1InfoFIFO >>
  PROVE  Seen' /\ Past'
BY SameSeen, PastKept

\* A step that announces one more.
LEMMA PastMore ==
  ASSUME Past, NEW ls, Over(ls), Announced' \subseteq Announced \cup {ls},
         UNCHANGED << evbIdMap, currentLumiSection >>
  PROVE  Past'
BY DEF Past, Over

LEMMA BuStepLumi ==
  ASSUME TypeOK, Agrees, Seen, Past, NEW b \in BUs, BuStep(b)
  PROVE  Agrees' /\ Seen' /\ Past'
<1>1. UNCHANGED << evbIdMap, eventFIFO, confirms, currentLumiSection, infoLumiSection, l1InfoFIFO,
                   completedLumiSectionFIFO, eolsTask, eolsFIFOs, closedLS, lumiSectionMsgs >>
  BY DEF BuStep, SendEvtIdRqst, HandleDiscard, ResourceMonitoring, evmVars, fifoVars, threadVars,
         netVars
<1>2. Seen' /\ Past'
  BY <1>1, AnnouncedSame, ElsewhereLumi
<1>3. ASSUME NEW r \in Resources, SendEvtIdRqst(b, r) PROVE Agrees'
  BY <1>1, <1>3, SameAgrees DEF SendEvtIdRqst
<1>4. ASSUME NEW r \in Resources, HandleDiscard(b, r) PROVE Agrees'
  BY <1>4, HandleDiscardAgrees
<1>5. ASSUME ResourceMonitoring(b) PROVE Agrees'
  BY <1>1, <1>5, SameAgrees DEF ResourceMonitoring
<1> QED
  BY <1>2, <1>3, <1>4, <1>5 DEF BuStep

LEMMA BuReceiveLumi ==
  ASSUME TypeOK, Agrees, Seen, Past, BuReceive
  PROVE  Agrees' /\ Seen' /\ Past'
<1>1. UNCHANGED << evbIdMap, eventFIFO, currentLumiSection, infoLumiSection, l1InfoFIFO,
                   completedLumiSectionFIFO, eolsTask, eolsFIFOs >>
  BY DEF BuReceive, StartConstruction, EvmLumisection, evmVars, fifoVars, threadVars
<1>2. ASSUME NEW m \in confirms, StartConstruction(m) PROVE Agrees' /\ Announced' \subseteq Announced
  <2>1. UNCHANGED << closedLS, lumiSectionMsgs >>
    BY <1>2 DEF StartConstruction
  <2> QED
    BY <1>1, <1>2, <2>1, AnnouncedSame, StartConstructionAgrees
<1>3. ASSUME NEW m \in lumiSectionMsgs, EvmLumisection(m)
      PROVE  Agrees' /\ Announced' \subseteq Announced
  <2>1. UNCHANGED << confirms, data >>
    BY <1>3 DEF EvmLumisection
  <2> QED
    BY <1>1, <1>3, <2>1, EvmLumisectionAnnounced, SameAgrees
<1>4. Agrees' /\ Announced' \subseteq Announced
  BY <1>2, <1>3 DEF BuReceive
<1> QED
  BY <1>1, <1>4, ElsewhereLumi

LEMMA I2oThreadLumi ==
  ASSUME TypeOK, Agrees, Seen, Past, I2oThread
  PROVE  Agrees' /\ Seen' /\ Past'
<1>1. UNCHANGED << evbIdMap, eventFIFO, confirms, data, currentLumiSection, infoLumiSection,
                   l1InfoFIFO, completedLumiSectionFIFO, eolsTask, closedLS >>
  BY DEF I2oThread, AnswerRequestWithEoLS, AcceptRequest, AcceptRelease, DiscardAllocateClear,
         EnqueueRequest, ReleaseEvent, evmVars, fifoVars, threadVars, netVars, buVars
<1>2. ASSUME NEW m \in allocateClears, AnswerRequestWithEoLS(m) PROVE Announced' \subseteq Announced
  BY <1>2, AnswerAnnounced
<1>3. \A m : AcceptRequest(m) \/ AcceptRelease(m) \/ DiscardAllocateClear(m)
             \/ EnqueueRequest(m) \/ ReleaseEvent(m) => UNCHANGED << eolsFIFOs, lumiSectionMsgs >>
  BY DEF AcceptRequest, AcceptRelease, DiscardAllocateClear, EnqueueRequest, ReleaseEvent,
         fifoVars, netVars
<1>4. ASSUME UNCHANGED << eolsFIFOs, lumiSectionMsgs >> PROVE Announced' \subseteq Announced
  BY <1>1, <1>4, AnnouncedSame
<1>5. Announced' \subseteq Announced
  BY <1>2, <1>3, <1>4 DEF I2oThread
<1> QED
  BY <1>1, <1>5, SameAgrees, ElsewhereLumi

LEMMA TriggerLumi ==
  ASSUME TypeOK, EventPlaces, Accounts, Agrees, Seen, Past, Trigger
  PROVE  Agrees' /\ Seen' /\ Past'
<1>1. UNCHANGED << confirms, data, infoLumiSection, completedLumiSectionFIFO, eolsTask, eolsFIFOs,
                   closedLS, lumiSectionMsgs >>
  BY DEF Trigger, RejectMalformedTrigger, RejectLumiSection, AcceptTrigger, fifoVars, threadVars,
         netVars, buVars
<1>2. Announced' \subseteq Announced
  BY <1>1, AnnouncedSame
<1>3. ASSUME NEW n \in EventNumbers, NEW ls \in LumiSections, AcceptTrigger(n, ls)
      PROVE  Agrees' /\ Seen' /\ Past'
  <2>1. Agrees' /\ Seen'
    BY <1>3, AcceptTriggerAgrees, AcceptTriggerSeen
  <2> SUFFICES ASSUME NEW id, id = GetEvBid(evbIdFactory, n) PROVE Past'
    BY <2>1
  <2>2. ls \in Nat /\ evbIdMap' = Insert(evbIdMap, id, ls) /\ currentLumiSection \in Nat
    BY <1>3, AcceptedIsNew DEF TypeOK, EvmTypeOK
  <2>3. \A x \in DOMAIN evbIdMap' :
          evbIdMap'[x] = ls \/ (x \in DOMAIN evbIdMap /\ evbIdMap'[x] = evbIdMap[x])
    BY <2>2 DEF Insert
  <2>4. \/ ls = 0 /\ currentLumiSection' = currentLumiSection
        \/ ls >= currentLumiSection /\ currentLumiSection' = ls
    BY <1>3 DEF AcceptTrigger, IncrementEventsInRuBuilder
  <2>5. ASSUME NEW a \in Announced, a \in Nat PROVE Over(a)'
    BY <2>2, <2>3, <2>4, <2>5 DEF Past, Over
  <2>6. \A a \in Announced : a \in Nat
    BY AnnouncedIsNat
  <2> QED
    BY <1>2, <2>5, <2>6 DEF Past
<1>4. CASE RejectMalformedTrigger \/ \E n, ls : RejectLumiSection(n, ls)
  <2>1. UNCHANGED << evbIdMap, eventFIFO, currentLumiSection, l1InfoFIFO >>
    BY <1>4 DEF RejectMalformedTrigger, RejectLumiSection, fifoVars
  <2> QED
    BY <1>1, <1>2, <2>1, SameAgrees, ElsewhereLumi
<1> QED
  BY <1>3, <1>4 DEF Trigger

LEMMA ProcessingLumi ==
  ASSUME TypeOK, EventPlaces, Accounts, Agrees, Seen, Past, ProcessingWorkloop
  PROVE  Agrees' /\ Seen' /\ Past'
<1>1. CASE ProcessNextReleasedEvent
  <2>1. UNCHANGED << infoLumiSection, currentLumiSection, l1InfoFIFO, completedLumiSectionFIFO,
                     eolsTask, eolsFIFOs, closedLS, lumiSectionMsgs >>
    BY <1>1 DEF ProcessNextReleasedEvent, threadVars, netVars, buVars
  <2>2. \A id \in DOMAIN evbIdMap' : id \in DOMAIN evbIdMap /\ evbIdMap'[id] = evbIdMap[id]
    <3>1. PICK x : x = Head(releasedEvbIdFIFO)
      OBVIOUS
    <3>2. evbIdMap' = Erase(evbIdMap, x)
      BY <1>1, <3>1, ReleasedIsKnown
    <3> QED
      BY <3>2 DEF Erase
  <2> QED
    BY <1>1, <2>1, <2>2, ForgetAgrees, AnnouncedSame, SameSeen, PastKept
<1>2. CASE SendEoLSsignal
  <2>1. PICK ls \in CompletedIn(lumiSectionMap, currentLumiSection) :
          completedLumiSectionFIFO' = Append(completedLumiSectionFIFO, ls)
    BY <1>2 DEF SendEoLSsignal
  <2>2. UNCHANGED << evbIdMap, eventFIFO, confirms, data, infoLumiSection, currentLumiSection,
                     l1InfoFIFO, eolsTask, eolsFIFOs, closedLS, lumiSectionMsgs >>
    BY <1>2 DEF SendEoLSsignal, threadVars, netVars, buVars
  <2>3. ls \in DOMAIN lumiSectionMap /\ lumiSectionMap[ls] = 0 /\ ls < currentLumiSection
    BY DEF CompletedIn
  <2>4. ls \in Nat /\ ls # 0
    BY <2>3 DEF TypeOK, EvmTypeOK, IsMap, Accounts
  <2>5. EventsOf(ls) = {}
    <3>1. IsFiniteSet(EventsOf(ls))
      BY FS_Subset DEF EventPlaces, FinitelyMany, EventsOf
    <3>2. Cardinality(EventsOf(ls)) = 0
      BY <2>3 DEF Accounts
    <3> QED
      BY <3>1, <3>2, FS_EmptySet
  <2>6. Over(ls)
    BY <2>3, <2>4, <2>5 DEF Over, EventsOf
  <2>7. Announced' \subseteq Announced \cup {ls}
    BY <2>1, <2>2, <2>4, Announce
  <2>8. Seen'
    BY <2>2, SameSeen
  <2> QED
    BY <2>2, <2>6, <2>7, <2>8, SameAgrees, PastMore
<1>3. ASSUME NEW b \in BUs, ServiceBuRqst(b) PROVE Agrees' /\ Seen' /\ Past'
  <2>1. UNCHANGED << evbIdMap, infoLumiSection, currentLumiSection, l1InfoFIFO,
                     completedLumiSectionFIFO, eolsTask, eolsFIFOs, closedLS, lumiSectionMsgs >>
    BY <1>3 DEF ServiceBuRqst, evmVars, threadVars, buVars
  <2> QED
    BY <1>3, <2>1, ServiceBuRqstAgrees, AnnouncedSame, ElsewhereLumi
<1> QED
  BY <1>1, <1>2, <1>3 DEF ProcessingWorkloop

LEMMA L1InfoLumi ==
  ASSUME TypeOK, Agrees, Seen, Past, L1InfoWorkloop
  PROVE  Agrees' /\ Seen' /\ Past'
<1>1. UNCHANGED << evbIdMap, eventFIFO, confirms, data, currentLumiSection, eolsTask, eolsFIFOs,
                   closedLS, lumiSectionMsgs >>
  BY DEF L1InfoWorkloop, AnnounceSkippedLumiSection, AddLumiSectionInfo, evmVars, netVars, buVars
<1>2. Agrees'
  BY <1>1, SameAgrees
<1>3. CASE AnnounceSkippedLumiSection
  <2>1. Seen' /\ Over(infoLumiSection + 1)
    BY <1>3, AnnounceSkippedSeen
  <2>2. PICK ls \in Nat : ls = infoLumiSection + 1
    BY DEF TypeOK, ThreadTypeOK
  <2>3. completedLumiSectionFIFO' = Append(completedLumiSectionFIFO, ls)
    BY <1>3, <2>2 DEF AnnounceSkippedLumiSection
  <2>4. Announced' \subseteq Announced \cup {ls}
    BY <1>1, <2>3, Announce
  <2> QED
    BY <1>1, <1>2, <2>1, <2>2, <2>4, PastMore
<1>4. CASE AddLumiSectionInfo
  <2>1. UNCHANGED completedLumiSectionFIFO
    BY <1>4 DEF AddLumiSectionInfo
  <2> QED
    BY <1>1, <1>2, <1>4, <2>1, AnnouncedSame, AddLumiSectionInfoSeen, PastKept
<1> QED
  BY <1>3, <1>4 DEF L1InfoWorkloop

LEMMA EoLSLumi ==
  ASSUME TypeOK, Agrees, Seen, Past, EoLSWorkloop
  PROVE  Agrees' /\ Seen' /\ Past'
<1>1. UNCHANGED << evbIdMap, eventFIFO, confirms, data, currentLumiSection, infoLumiSection, l1InfoFIFO >>
  BY DEF EoLSWorkloop, TakeCompletedLumiSection, SendEoLSToRequest, FindNoRequest, EnqueueEoLS,
         DropEoLS, evmVars, fifoVars, netVars, buVars
<1> QED
  BY <1>1, EoLSWorkloopAnnounced, SameAgrees, ElsewhereLumi

LEMMA NextLumi == LumiInv /\ [Next]_vars => LumiInv'
<1> SUFFICES ASSUME LumiInv, [Next]_vars PROVE LumiInv'
  OBVIOUS
<1>1. EventInv'
  BY NextEvents DEF LumiInv
<1>2. TypeOK /\ Agrees /\ Seen /\ Past /\ (failure = "none" => EventPlaces /\ Accounts)
  BY DEF LumiInv, EventInv, ResourceInv
<1>3. CASE Trigger \/ ProcessingWorkloop
  <2>1. failure = "none"
    BY <1>3 DEF Trigger, RejectMalformedTrigger, RejectLumiSection, AcceptTrigger, TriggerAvailable,
                ProcessingWorkloop, ProcessNextReleasedEvent, SendEoLSsignal, ServiceBuRqst, Processing
  <2> QED
    BY <1>1, <1>2, <1>3, <2>1, TriggerLumi, ProcessingLumi DEF LumiInv
<1>4. CASE UNCHANGED vars
  <2>1. UNCHANGED << evbIdMap, eventFIFO, confirms, data, currentLumiSection, infoLumiSection,
                     l1InfoFIFO, completedLumiSectionFIFO, eolsTask, eolsFIFOs, closedLS,
                     lumiSectionMsgs >>
    BY <1>4 DEF vars, evmVars, fifoVars, threadVars, netVars, buVars
  <2> QED
    BY <1>1, <1>2, <2>1, AnnouncedSame, SameAgrees, ElsewhereLumi DEF LumiInv
<1> QED
  BY <1>1, <1>2, <1>3, <1>4, BuStepLumi, BuReceiveLumi, I2oThreadLumi, L1InfoLumi, EoLSLumi
  DEF LumiInv, Next

-----------------------------------------------------------------------------
(***************************************************************************)
(* The notices of a BU: each lumi section in one place at most.            *)
(***************************************************************************)
Kinds == {"completed", "task", "queue", "message", "closed", "dropped"}

At(b, ls, k) ==
  \/ k = "completed" /\ ls \in ToSet(completedLumiSectionFIFO)
  \/ k = "task"      /\ b \in eolsTask.todo \cup eolsTask.copy /\ ls = eolsTask.lumiSection
  \/ k = "queue"     /\ ls \in ToSet(eolsFIFOs[b])
  \/ k = "message"   /\ \E m \in lumiSectionMsgs : m.bu = b /\ m.lumiSection = ls
  \/ k = "closed"    /\ ls \in closedLS[b]
  \/ k = "dropped"   /\ << b, ls >> \in eolsDropped

OneKind(b) == \A ls, j, k : At(b, ls, j) /\ At(b, ls, k) => j = k

\* A second notice of a place would be of another lumi section.
NoPlaceTwice ==
  /\ IsInjective(completedLumiSectionFIFO)
  /\ \A b \in BUs : IsInjective(eolsFIFOs[b])
  /\ \A m, n \in lumiSectionMsgs : m.bu = n.bu /\ m.lumiSection = n.lumiSection => m = n
  /\ eolsTask.todo \cap eolsTask.copy = {}

Once == NoPlaceTwice /\ \A b \in BUs : OneKind(b)

\* The lumi sections announced, whatever became of the notices.
Given == Announced \cup { p[2] : p \in eolsDropped }

\* The L1 workloop has passed the lumi section or has its L1 information to come.
Known(ls) == ls <= infoLumiSection \/ ls \in ToSet(l1InfoFIFO)

\* A lumi section is counted or announced, not both, and known in either case.
Tracked ==
  /\ \A ls \in DOMAIN lumiSectionMap : Known(ls) /\ ls \notin Given
  /\ \A ls \in Given : Known(ls) /\ ls < currentLumiSection

OnceInv == LumiInv /\ Once /\ Tracked

LEMMA AtIsGiven ==
  ASSUME NEW b \in BUs, NEW ls, NEW k, At(b, ls, k)
  PROVE  ls \in Given
<1>1. Announced \subseteq Given
  BY DEF Given
<1>2. CASE k = "dropped" /\ << b, ls >> \in eolsDropped
  <2>1. << b, ls >>[2] = ls
    OBVIOUS
  <2> QED
    BY <1>2, <2>1 DEF Given
<1>3. CASE ls \in ToSet(completedLumiSectionFIFO)
  BY <1>1, <1>3, AnnouncedOf
<1>4. CASE b \in eolsTask.todo \cup eolsTask.copy /\ ls = eolsTask.lumiSection
  BY <1>1, <1>4, AnnouncedOf
<1>5. CASE ls \in ToSet(eolsFIFOs[b]) \/ ls \in closedLS[b]
  BY <1>1, <1>5, AnnouncedOf
<1>6. CASE \E m \in lumiSectionMsgs : m.bu = b /\ m.lumiSection = ls
  BY <1>1, <1>6, AnnouncedOf
<1> QED
  BY <1>2, <1>3, <1>4, <1>5, <1>6 DEF At

\* A notice moves from one kind of place to another.
Moves(b, l, from, to) ==
  \A ls, k : At(b, ls, k)' => \/ At(b, ls, k) /\ ~(ls = l /\ k = from)
                              \/ ls = l /\ k = to

LEMMA Moved ==
  ASSUME NEW b, OneKind(b), NEW l, NEW from, NEW to, At(b, l, from), Moves(b, l, from, to)
  PROVE  OneKind(b)'
<1> SUFFICES ASSUME NEW ls, NEW j, NEW k, At(b, ls, j)', At(b, ls, k)' PROVE j = k
  BY DEF OneKind
<1>1. CASE ls = l
  <2>1. \A i : At(b, ls, i)' => i = to
    BY <1>1 DEF OneKind, Moves
  <2> QED
    BY <2>1
<1>2. CASE ls # l
  BY <1>2 DEF OneKind, Moves
<1> QED
  BY <1>1, <1>2

LEMMA NotMoved ==
  ASSUME NEW b, OneKind(b), \A ls, k : At(b, ls, k)' => At(b, ls, k)
  PROVE  OneKind(b)'
BY DEF OneKind

\* A new notice.
LEMMA Added ==
  ASSUME NEW b \in BUs, OneKind(b), NEW l, l \notin Given, NEW to,
         \A ls, k : At(b, ls, k)' => At(b, ls, k) \/ (ls = l /\ k = to)
  PROVE  OneKind(b)'
<1>1. \A k : ~At(b, l, k)
  BY AtIsGiven
<1> QED
  BY <1>1 DEF OneKind

LEMMA SameOnce ==
  ASSUME Once, UNCHANGED << completedLumiSectionFIFO, eolsTask, eolsFIFOs, closedLS,
                            lumiSectionMsgs, eolsDropped >>
  PROVE  Once'
<1>1. \A b, ls, k : At(b, ls, k)' <=> At(b, ls, k)
  BY DEF At
<1>2. \A b \in BUs : OneKind(b)'
  BY <1>1, NotMoved DEF Once
<1>3. NoPlaceTwice'
  BY DEF Once, NoPlaceTwice
<1> QED
  BY <1>2, <1>3 DEF Once

LEMMA AnnounceOnce ==
  ASSUME TypeOK, Once, NEW l \in Nat, l \notin Given,
         completedLumiSectionFIFO' = Append(completedLumiSectionFIFO, l),
         UNCHANGED << eolsTask, eolsFIFOs, closedLS, lumiSectionMsgs, eolsDropped >>
  PROVE  Once'
<1>1. completedLumiSectionFIFO \in Seq(Nat)
  BY DEF TypeOK, FifoTypeOK
<1>2. l \notin ToSet(completedLumiSectionFIFO)
  BY AnnouncedOf DEF Given
<1>3. /\ ToSet(completedLumiSectionFIFO') = ToSet(completedLumiSectionFIFO) \cup {l}
      /\ IsInjective(completedLumiSectionFIFO')
  BY <1>1, <1>2, QueueAppend DEF Once, NoPlaceTwice
<1>4. \A b \in BUs : \A ls, k : At(b, ls, k)' => At(b, ls, k) \/ (ls = l /\ k = "completed")
  BY <1>3 DEF At
<1>5. \A b \in BUs : OneKind(b)'
  BY <1>4, Added DEF Once
<1>6. NoPlaceTwice'
  BY <1>3 DEF Once, NoPlaceTwice
<1> QED
  BY <1>5, <1>6 DEF Once

LEMMA TakeCompletedOnce ==
  ASSUME TypeOK, Once, TakeCompletedLumiSection
  PROVE  Once'
<1> DEFINE q == completedLumiSectionFIFO
           l == Head(q)
<1>1. /\ q \in Seq(Nat) /\ q # << >> /\ q' = Tail(q)
      /\ eolsTask.todo = {} /\ eolsTask.copy = {}
      /\ eolsTask'.lumiSection = l /\ eolsTask'.todo = BUs /\ eolsTask'.copy = {}
      /\ UNCHANGED << eolsFIFOs, closedLS, lumiSectionMsgs, eolsDropped >>
  BY DEF TakeCompletedLumiSection, TypeOK, FifoTypeOK, netVars, buVars
<1>2. /\ l \in ToSet(q) /\ ToSet(q) = ToSet(Tail(q)) \cup {l}
      /\ IsInjective(Tail(q)) /\ l \notin ToSet(Tail(q))
  BY <1>1, QueueTail DEF Once, NoPlaceTwice
<1>3. ASSUME NEW b \in BUs PROVE OneKind(b)'
  <2>1. At(b, l, "completed")
    BY <1>2 DEF At
  <2>2. Moves(b, l, "completed", "task")
    <3> SUFFICES ASSUME NEW ls, NEW k, At(b, ls, k)'
                 PROVE  \/ At(b, ls, k) /\ ~(ls = l /\ k = "completed")
                        \/ ls = l /\ k = "task"
      BY DEF Moves
    <3>1. CASE k = "completed" /\ ls \in ToSet(q')
      BY <1>1, <1>2, <3>1 DEF At
    <3>2. CASE k = "task" /\ ls = eolsTask'.lumiSection
      BY <1>1, <3>2
    <3>3. CASE k \notin {"completed", "task"}
      BY <1>1, <3>3 DEF At
    <3> QED
      BY <3>1, <3>2, <3>3 DEF At
  <2>3. OneKind(b)
    BY DEF Once
  <2> QED
    BY <2>1, <2>2, <2>3, Moved
<1>4. NoPlaceTwice'
  BY <1>1, <1>2 DEF Once, NoPlaceTwice
<1> QED
  BY <1>3, <1>4 DEF Once

LEMMA SendEoLSToRequestOnce ==
  ASSUME TypeOK, Once, NEW b \in BUs, SendEoLSToRequest(b)
  PROVE  Once'
<1> SUFFICES ASSUME NEW l, l = eolsTask.lumiSection,
                    NEW n, n = [bu |-> b, resource |-> Head(requestFIFOs[b]), lumiSection |-> l]
             PROVE  Once'
  OBVIOUS
<1>1. /\ eolsTask \in EolsTask /\ eolsTask' = [eolsTask EXCEPT !.todo = @ \ {b}]
      /\ b \in eolsTask.todo /\ eolsTask.copy = {}
      /\ lumiSectionMsgs' = lumiSectionMsgs \cup {n}
      /\ UNCHANGED << completedLumiSectionFIFO, eolsFIFOs, closedLS, eolsDropped >>
  BY DEF SendEoLSToRequest, TypeOK, ThreadTypeOK, fifoVars, buVars
<1>2. /\ eolsTask'.lumiSection = l /\ eolsTask'.todo = eolsTask.todo \ {b} /\ eolsTask'.copy = {}
      /\ n.bu = b /\ n.lumiSection = l
  BY <1>1 DEF EolsTask
<1>3. At(b, l, "task")
  BY <1>1 DEF At
<1>4. Moves(b, l, "task", "message")
  <2> SUFFICES ASSUME NEW ls, NEW k, At(b, ls, k)'
               PROVE  \/ At(b, ls, k) /\ ~(ls = l /\ k = "task")
                      \/ ls = l /\ k = "message"
    BY DEF Moves
  <2>1. CASE k = "task"
    BY <1>1, <1>2, <2>1 DEF At
  <2>2. CASE k = "message"
    BY <1>1, <1>2, <2>2 DEF At
  <2>3. CASE k \notin {"task", "message"}
    BY <1>1, <2>3 DEF At
  <2> QED
    BY <2>1, <2>2, <2>3
<1>5. \A c \in BUs \ {b} : \A ls, k : At(c, ls, k)' => At(c, ls, k)
  BY <1>1, <1>2 DEF At
<1>6. \A c \in BUs : OneKind(c)'
  <2>1. \A c \in BUs : OneKind(c)
    BY DEF Once
  <2>2. OneKind(b)'
    BY <1>3, <1>4, <2>1, Moved
  <2>3. \A c \in BUs \ {b} : OneKind(c)'
    BY <1>5, <2>1, NotMoved
  <2> QED
    BY <2>2, <2>3
<1>7. ~ \E m \in lumiSectionMsgs : m.bu = b /\ m.lumiSection = l
  BY <1>3 DEF Once, OneKind, At
<1>8. NoPlaceTwice'
  BY <1>1, <1>2, <1>7 DEF Once, NoPlaceTwice
<1> QED
  BY <1>6, <1>8 DEF Once

LEMMA FindNoRequestOnce ==
  ASSUME TypeOK, Once, NEW b \in BUs, FindNoRequest(b)
  PROVE  Once'
<1>1. /\ eolsTask \in EolsTask /\ eolsTask' = [eolsTask EXCEPT !.todo = @ \ {b}, !.copy = {b}]
      /\ b \in eolsTask.todo /\ eolsTask.copy = {}
      /\ UNCHANGED << completedLumiSectionFIFO, eolsFIFOs, closedLS, lumiSectionMsgs, eolsDropped >>
  BY DEF FindNoRequest, TypeOK, ThreadTypeOK, fifoVars, netVars, buVars
<1>2. /\ eolsTask'.lumiSection = eolsTask.lumiSection
      /\ eolsTask'.todo = eolsTask.todo \ {b} /\ eolsTask'.copy = {b}
  BY <1>1 DEF EolsTask
<1>3. \A c \in BUs : \A ls, k : At(c, ls, k)' => At(c, ls, k)
  BY <1>1, <1>2 DEF At
<1>4. \A c \in BUs : OneKind(c)'
  BY <1>3, NotMoved DEF Once
<1>5. NoPlaceTwice'
  BY <1>1, <1>2 DEF Once, NoPlaceTwice
<1> QED
  BY <1>4, <1>5 DEF Once

LEMMA EnqueueEoLSOnce ==
  ASSUME TypeOK, Once, NEW b \in BUs, EnqueueEoLS(b)
  PROVE  Once'
<1> SUFFICES ASSUME NEW l, l = eolsTask.lumiSection PROVE Once'
  OBVIOUS
<1>1. /\ eolsTask \in EolsTask /\ eolsTask' = [eolsTask EXCEPT !.copy = {}]
      /\ b \in eolsTask.copy /\ eolsFIFOs[b] \in Seq(Nat) /\ l \in Nat
      /\ eolsFIFOs' = [eolsFIFOs EXCEPT ![b] = Append(@, l)]
      /\ UNCHANGED << completedLumiSectionFIFO, closedLS, lumiSectionMsgs, eolsDropped >>
  BY DEF EnqueueEoLS, TypeOK, ThreadTypeOK, FifoTypeOK, netVars, buVars, EolsTask
<1>2. /\ eolsTask'.lumiSection = l /\ eolsTask'.todo = eolsTask.todo /\ eolsTask'.copy = {}
      /\ b \notin eolsTask.todo
  BY <1>1 DEF EolsTask, Once, NoPlaceTwice
<1>3. \A c \in BUs : eolsFIFOs'[c] = IF c = b THEN Append(eolsFIFOs[b], l) ELSE eolsFIFOs[c]
  BY <1>1 DEF TypeOK, FifoTypeOK
<1>4. At(b, l, "task")
  BY <1>1 DEF At
<1>5. l \notin ToSet(eolsFIFOs[b])
  BY <1>4 DEF Once, OneKind, At
<1>6. /\ ToSet(eolsFIFOs'[b]) = ToSet(eolsFIFOs[b]) \cup {l}
      /\ IsInjective(eolsFIFOs'[b])
  BY <1>1, <1>3, <1>5, QueueAppend DEF Once, NoPlaceTwice
<1>7. Moves(b, l, "task", "queue")
  <2> SUFFICES ASSUME NEW ls, NEW k, At(b, ls, k)'
               PROVE  \/ At(b, ls, k) /\ ~(ls = l /\ k = "task")
                      \/ ls = l /\ k = "queue"
    BY DEF Moves
  <2>1. CASE k = "task"
    BY <1>1, <1>2, <2>1 DEF At
  <2>2. CASE k = "queue"
    BY <1>6, <2>2 DEF At
  <2>3. CASE k \notin {"task", "queue"}
    BY <1>1, <2>3 DEF At
  <2> QED
    BY <2>1, <2>2, <2>3
<1>8. \A c \in BUs \ {b} : \A ls, k : At(c, ls, k)' => At(c, ls, k)
  BY <1>1, <1>2, <1>3 DEF At
<1>9. \A c \in BUs : OneKind(c)'
  <2>1. \A c \in BUs : OneKind(c)
    BY DEF Once
  <2>2. OneKind(b)'
    BY <1>4, <1>7, <2>1, Moved
  <2>3. \A c \in BUs \ {b} : OneKind(c)'
    BY <1>8, <2>1, NotMoved
  <2> QED
    BY <2>2, <2>3
<1>10. NoPlaceTwice'
  BY <1>1, <1>2, <1>3, <1>6 DEF Once, NoPlaceTwice
<1> QED
  BY <1>9, <1>10 DEF Once

LEMMA DropEoLSOnce ==
  ASSUME TypeOK, Once, NEW b \in BUs, DropEoLS(b)
  PROVE  Once'
<1> SUFFICES ASSUME NEW l, l = eolsTask.lumiSection PROVE Once'
  OBVIOUS
<1>1. /\ eolsTask \in EolsTask /\ eolsTask' = [eolsTask EXCEPT !.todo = {}, !.copy = {}]
      /\ b \in eolsTask.copy
      /\ eolsDropped' = eolsDropped \cup ((eolsTask.todo \cup {b}) \X {l})
      /\ UNCHANGED << completedLumiSectionFIFO, eolsFIFOs, closedLS, lumiSectionMsgs >>
  BY DEF DropEoLS, TypeOK, ThreadTypeOK, fifoVars, netVars, buVars
<1>2. eolsTask'.todo = {} /\ eolsTask'.copy = {}
  BY <1>1 DEF EolsTask
<1>3. ASSUME NEW c \in BUs, c \in eolsTask.todo \cup {b} PROVE OneKind(c)'
  <2>1. At(c, l, "task")
    BY <1>1, <1>3 DEF At
  <2>2. Moves(c, l, "task", "dropped")
    <3> SUFFICES ASSUME NEW ls, NEW k, At(c, ls, k)'
                 PROVE  \/ At(c, ls, k) /\ ~(ls = l /\ k = "task")
                        \/ ls = l /\ k = "dropped"
      BY DEF Moves
    <3>1. k # "task"
      BY <1>2 DEF At
    <3>2. CASE k = "dropped"
      <4>1. << c, ls >> \in eolsDropped'
        BY <3>2 DEF At
      <4> QED
        BY <1>1, <3>2, <4>1 DEF At
    <3>3. CASE k \notin {"task", "dropped"}
      BY <1>1, <3>3 DEF At
    <3> QED
      BY <3>1, <3>2, <3>3
  <2>3. OneKind(c)
    BY DEF Once
  <2> QED
    BY <2>1, <2>2, <2>3, Moved
<1>4. ASSUME NEW c \in BUs, c \notin eolsTask.todo \cup {b} PROVE OneKind(c)'
  <2>1. \A ls : << c, ls >> \in eolsDropped' => << c, ls >> \in eolsDropped
    BY <1>1, <1>4
  <2>2. \A ls, k : At(c, ls, k)' => At(c, ls, k)
    BY <1>1, <1>2, <2>1 DEF At
  <2> QED
    BY <2>2, NotMoved DEF Once
<1>5. NoPlaceTwice'
  BY <1>1, <1>2 DEF Once, NoPlaceTwice
<1> QED
  BY <1>3, <1>4, <1>5 DEF Once

LEMMA AnswerOnce ==
  ASSUME TypeOK, Once, NEW m \in allocateClears, AnswerRequestWithEoLS(m)
  PROVE  Once'
<1> SUFFICES ASSUME NEW b, b = m.bu, NEW q, q = eolsFIFOs[b], NEW l, l = Head(q),
                    NEW n, n = [bu |-> b, resource |-> m.resource, lumiSection |-> l]
             PROVE  Once'
  OBVIOUS
<1>1. b \in BUs /\ q \in Seq(Nat) /\ q # << >>
  BY DEF TypeOK, NetTypeOK, FifoTypeOK, Element, AnswerRequestWithEoLS
<1>2. /\ UNCHANGED << completedLumiSectionFIFO, eolsTask, closedLS, eolsDropped >>
      /\ eolsFIFOs' = [eolsFIFOs EXCEPT ![b] = Tail(@)]
      /\ lumiSectionMsgs' = lumiSectionMsgs \cup {n}
      /\ n.bu = b /\ n.lumiSection = l
  BY DEF AnswerRequestWithEoLS, buVars
<1>3. \A c \in BUs : eolsFIFOs'[c] = IF c = b THEN Tail(q) ELSE eolsFIFOs[c]
  BY <1>2 DEF TypeOK, FifoTypeOK
<1>4. /\ l \in ToSet(q) /\ ToSet(q) = ToSet(Tail(q)) \cup {l}
      /\ IsInjective(Tail(q)) /\ l \notin ToSet(Tail(q))
  BY <1>1, QueueTail DEF Once, NoPlaceTwice
<1>5. At(b, l, "queue")
  BY <1>4 DEF At
<1>6. Moves(b, l, "queue", "message")
  <2> SUFFICES ASSUME NEW ls, NEW k, At(b, ls, k)'
               PROVE  \/ At(b, ls, k) /\ ~(ls = l /\ k = "queue")
                      \/ ls = l /\ k = "message"
    BY DEF Moves
  <2>1. CASE k = "queue"
    <3>1. ls \in ToSet(eolsFIFOs'[b])
      BY <2>1 DEF At
    <3> QED
      BY <1>1, <1>3, <1>4, <2>1, <3>1 DEF At
  <2>2. CASE k = "message"
    BY <1>2, <2>2 DEF At
  <2>3. CASE k \notin {"queue", "message"}
    BY <1>2, <2>3 DEF At
  <2> QED
    BY <2>1, <2>2, <2>3
<1>7. \A c \in BUs \ {b} : \A ls, k : At(c, ls, k)' => At(c, ls, k)
  BY <1>2, <1>3 DEF At
<1>8. \A c \in BUs : OneKind(c)'
  <2>1. \A c \in BUs : OneKind(c)
    BY DEF Once
  <2>2. OneKind(b)'
    BY <1>1, <1>5, <1>6, <2>1, Moved
  <2>3. \A c \in BUs \ {b} : OneKind(c)'
    BY <1>7, <2>1, NotMoved
  <2> QED
    BY <2>2, <2>3
<1>9. ~ \E k \in lumiSectionMsgs : k.bu = b /\ k.lumiSection = l
  BY <1>1, <1>5 DEF Once, OneKind, At
<1>10. NoPlaceTwice'
  BY <1>2, <1>3, <1>4, <1>9 DEF Once, NoPlaceTwice
<1> QED
  BY <1>8, <1>10 DEF Once

LEMMA EvmLumisectionOnce ==
  ASSUME TypeOK, Once, NEW m \in lumiSectionMsgs, EvmLumisection(m)
  PROVE  Once' /\ UNCHANGED buFailure
<1> SUFFICES ASSUME NEW b, b = m.bu, NEW l, l = m.lumiSection
             PROVE  Once' /\ UNCHANGED buFailure
  OBVIOUS
<1>1. /\ b \in BUs
      /\ UNCHANGED << completedLumiSectionFIFO, eolsTask, eolsFIFOs, eolsDropped >>
      /\ lumiSectionMsgs' = lumiSectionMsgs \ {m}
      /\ closedLS' = [closedLS EXCEPT ![b] = @ \cup {l}]
  BY DEF EvmLumisection, fifoVars, threadVars, TypeOK, NetTypeOK, EolsMsg
<1>2. \A c \in BUs : closedLS'[c] = IF c = b THEN closedLS[b] \cup {l} ELSE closedLS[c]
  BY <1>1 DEF TypeOK, BuTypeOK
<1>3. At(b, l, "message")
  BY DEF At
<1>4. ~ \E n \in lumiSectionMsgs' : n.bu = b /\ n.lumiSection = l
  BY <1>1 DEF Once, NoPlaceTwice
<1>5. Moves(b, l, "message", "closed")
  <2> SUFFICES ASSUME NEW ls, NEW k, At(b, ls, k)'
               PROVE  \/ At(b, ls, k) /\ ~(ls = l /\ k = "message")
                      \/ ls = l /\ k = "closed"
    BY DEF Moves
  <2>1. CASE k = "message"
    BY <1>1, <1>4, <2>1 DEF At
  <2>2. CASE k = "closed"
    BY <1>1, <1>2, <2>2 DEF At
  <2>3. CASE k \notin {"message", "closed"}
    BY <1>1, <2>3 DEF At
  <2> QED
    BY <2>1, <2>2, <2>3
<1>6. \A c \in BUs \ {b} : \A ls, k : At(c, ls, k)' => At(c, ls, k)
  BY <1>1, <1>2 DEF At
<1>7. \A c \in BUs : OneKind(c)'
  <2>1. \A c \in BUs : OneKind(c)
    BY DEF Once
  <2>2. OneKind(b)'
    BY <1>1, <1>3, <1>5, <2>1, Moved
  <2>3. \A c \in BUs \ {b} : OneKind(c)'
    BY <1>6, <2>1, NotMoved
  <2> QED
    BY <2>2, <2>3
<1>8. NoPlaceTwice'
  BY <1>1 DEF Once, NoPlaceTwice
<1>9. l \notin closedLS[b]
  BY <1>1, <1>3 DEF Once, OneKind, At
<1> QED
  BY <1>7, <1>8, <1>9 DEF Once, EvmLumisection

-----------------------------------------------------------------------------
(***************************************************************************)
(* Counted or announced.                                                   *)
(***************************************************************************)
LEMMA GivenIsNat == TypeOK => Given \subseteq Nat
<1> SUFFICES ASSUME TypeOK PROVE Given \subseteq Nat
  OBVIOUS
<1>1. \A p \in eolsDropped : p[2] \in Nat
  BY DEF TypeOK, ThreadTypeOK
<1> QED
  BY <1>1, AnnouncedIsNat DEF Given

LEMMA GivenKept ==
  ASSUME NEW S, Announced' \subseteq S, Given \subseteq S, UNCHANGED eolsDropped
  PROVE  Given' \subseteq S
BY DEF Given

LEMMA TrackedKept ==
  ASSUME TypeOK, Tracked, Given' \subseteq Given, UNCHANGED currentLumiSection,
         DOMAIN lumiSectionMap' \subseteq DOMAIN lumiSectionMap,
         \A x \in Nat : Known(x) => Known(x)'
  PROVE  Tracked'
<1>1. DOMAIN lumiSectionMap \subseteq Nat
  BY DEF TypeOK, EvmTypeOK, IsMap
<1>2. Given \subseteq Nat
  BY GivenIsNat
<1> QED
  BY <1>1, <1>2 DEF Tracked

LEMMA QuietTracked ==
  ASSUME TypeOK, Tracked, Given' \subseteq Given,
         UNCHANGED << currentLumiSection, lumiSectionMap, infoLumiSection, l1InfoFIFO >>
  PROVE  Tracked'
<1>1. \A x \in Nat : Known(x) => Known(x)'
  BY DEF Known
<1> QED
  BY <1>1, TrackedKept

\* A step that has nothing to do with lumi sections.
LEMMA QuietOnce ==
  ASSUME TypeOK, Once, Tracked,
         UNCHANGED << currentLumiSection, lumiSectionMap, infoLumiSection, l1InfoFIFO,
                      completedLumiSectionFIFO, eolsTask, eolsFIFOs, closedLS, lumiSectionMsgs,
                      eolsDropped >>
  PROVE  Once' /\ Tracked'
<1>1. Once'
  BY SameOnce
<1>2. Announced' \subseteq Given /\ Given \subseteq Given
  BY AnnouncedSame DEF Given
<1>3. Given' \subseteq Given
  BY <1>2, GivenKept
<1> QED
  BY <1>1, <1>3, QuietTracked

LEMMA AnnounceTracked ==
  ASSUME Tracked, NEW l, l < currentLumiSection, Given' \subseteq Given \cup {l},
         UNCHANGED currentLumiSection,
         DOMAIN lumiSectionMap' \subseteq DOMAIN lumiSectionMap \ {l},
         \A x \in DOMAIN lumiSectionMap \cup Given \cup {l} : Known(x) \/ x = l => Known(x)'
  PROVE  Tracked'
BY DEF Tracked

LEMMA AnnounceGiven ==
  ASSUME TypeOK, NEW l \in Nat,
         completedLumiSectionFIFO' = Append(completedLumiSectionFIFO, l),
         UNCHANGED << eolsTask, eolsFIFOs, closedLS, lumiSectionMsgs, eolsDropped >>
  PROVE  Given' \subseteq Given \cup {l}
<1> DEFINE S == Given \cup {l}
<1>1. Announced' \subseteq S /\ Given \subseteq S
  BY Announce DEF Given
<1> SUFFICES Given' \subseteq S
  OBVIOUS
<1> HIDE DEF S
<1> QED
  BY <1>1, GivenKept

LEMMA SendEoLSsignalOnce ==
  ASSUME TypeOK, Once, Tracked, SendEoLSsignal
  PROVE  Once' /\ Tracked'
<1>1. PICK l \in CompletedIn(lumiSectionMap, currentLumiSection) :
        /\ completedLumiSectionFIFO' = Append(completedLumiSectionFIFO, l)
        /\ lumiSectionMap' = Erase(lumiSectionMap, l)
  BY DEF SendEoLSsignal
<1>2. UNCHANGED << infoLumiSection, currentLumiSection, l1InfoFIFO, eolsTask, eolsFIFOs, closedLS,
                   lumiSectionMsgs, eolsDropped >>
  BY DEF SendEoLSsignal, threadVars, netVars, buVars
<1>3. l \in DOMAIN lumiSectionMap /\ l < currentLumiSection
  BY DEF CompletedIn
<1>4. l \in Nat /\ l \notin Given /\ Known(l)
  BY <1>3 DEF TypeOK, EvmTypeOK, IsMap, Tracked
<1>5. Once'
  BY <1>1, <1>2, <1>4, AnnounceOnce
<1>6. Given' \subseteq Given \cup {l}
  BY <1>1, <1>2, <1>4, AnnounceGiven
<1>7. DOMAIN lumiSectionMap' \subseteq DOMAIN lumiSectionMap \ {l}
  BY <1>1 DEF Erase
<1>8. \A x : Known(x) \/ x = l => Known(x)'
  BY <1>2, <1>4 DEF Known
<1> QED
  BY <1>2, <1>3, <1>5, <1>6, <1>7, <1>8, AnnounceTracked

LEMMA AnnounceSkippedOnce ==
  ASSUME TypeOK, Once, Tracked, Seen, AnnounceSkippedLumiSection
  PROVE  Once' /\ Tracked'
<1>1. PICK l \in Nat : l = infoLumiSection + 1
  BY DEF TypeOK, ThreadTypeOK
<1>2. /\ completedLumiSectionFIFO' = Append(completedLumiSectionFIFO, l) /\ infoLumiSection' = l
      /\ l1InfoFIFO \in Seq(Nat) /\ l1InfoFIFO # << >> /\ Head(l1InfoFIFO) > l
      /\ UNCHANGED << currentLumiSection, lumiSectionMap, l1InfoFIFO, eolsTask, eolsFIFOs, closedLS,
                      lumiSectionMsgs, eolsDropped >>
  BY <1>1 DEF AnnounceSkippedLumiSection, TypeOK, FifoTypeOK, evmVars, netVars, buVars
<1>3. \A x \in ToSet(l1InfoFIFO) : x \in Nat /\ Head(l1InfoFIFO) <= x
  BY <1>2, OrderedTail DEF Seen
<1>4. Head(l1InfoFIFO) \in Nat /\ infoLumiSection \in Nat
  BY <1>2 DEF TypeOK, ThreadTypeOK
<1>5. ~Known(l)
  BY <1>1, <1>2, <1>3, <1>4 DEF Known
<1>6. l \notin Given /\ l \notin DOMAIN lumiSectionMap
  BY <1>5 DEF Tracked
<1>7. Once'
  BY <1>2, <1>6, AnnounceOnce
<1>8. Given' \subseteq Given \cup {l}
  BY <1>2, AnnounceGiven
<1>9. l < currentLumiSection
  BY <1>1, AnnounceSkippedSeen DEF Over
<1>10. DOMAIN lumiSectionMap \cup Given \cup {l} \subseteq Nat
  BY GivenIsNat DEF TypeOK, EvmTypeOK, IsMap
<1>11. \A x \in Nat : Known(x) \/ x = l => Known(x)'
  BY <1>1, <1>2, <1>4 DEF Known
<1>12. DOMAIN lumiSectionMap' \subseteq DOMAIN lumiSectionMap \ {l}
  BY <1>2, <1>6
<1> QED
  BY <1>2, <1>7, <1>8, <1>9, <1>10, <1>11, <1>12, AnnounceTracked

LEMMA AddLumiSectionInfoOnce ==
  ASSUME TypeOK, Once, Tracked, AddLumiSectionInfo
  PROVE  Once' /\ Tracked'
<1>1. /\ l1InfoFIFO \in Seq(Nat) /\ l1InfoFIFO # << >> /\ l1InfoFIFO' = Tail(l1InfoFIFO)
      /\ infoLumiSection' = IF Head(l1InfoFIFO) > infoLumiSection THEN Head(l1InfoFIFO)
                            ELSE infoLumiSection
      /\ UNCHANGED << currentLumiSection, lumiSectionMap, completedLumiSectionFIFO, eolsTask,
                      eolsFIFOs, closedLS, lumiSectionMsgs, eolsDropped >>
  BY DEF AddLumiSectionInfo, TypeOK, FifoTypeOK, evmVars, netVars, buVars
<1>2. Head(l1InfoFIFO) \in Nat /\ infoLumiSection \in Nat
  BY <1>1 DEF TypeOK, ThreadTypeOK
<1>3. ToSet(l1InfoFIFO) = ToSet(l1InfoFIFO') \cup {Head(l1InfoFIFO)}
  BY <1>1, QueueTail
<1>4. \A x \in Nat : Known(x) => Known(x)'
  BY <1>1, <1>2, <1>3 DEF Known
<1>5. Once'
  BY <1>1, SameOnce
<1>6. Announced' \subseteq Given /\ Given \subseteq Given
  BY <1>1, AnnouncedSame DEF Given
<1>7. Given' \subseteq Given
  BY <1>1, <1>6, GivenKept
<1> QED
  BY <1>1, <1>4, <1>5, <1>7, TrackedKept

LEMMA AcceptTriggerOnce ==
  ASSUME TypeOK, Once, Tracked, NEW n \in EventNumbers, NEW ls \in LumiSections,
         AcceptTrigger(n, ls)
  PROVE  Once' /\ Tracked'
<1>1. UNCHANGED << infoLumiSection, completedLumiSectionFIFO, eolsTask, eolsFIFOs, closedLS,
                   lumiSectionMsgs, eolsDropped >>
  BY DEF AcceptTrigger, threadVars, netVars, buVars
<1>2. CASE ls = 0
  BY <1>1, <1>2, QuietOnce DEF AcceptTrigger, IncrementEventsInRuBuilder
<1>3. CASE ls # 0
  <2>1. /\ ls >= currentLumiSection /\ currentLumiSection' = ls
        /\ l1InfoFIFO' = Append(l1InfoFIFO, ls)
        /\ lumiSectionMap' = Insert(lumiSectionMap, ls, CountOf(ls) + 1)
        /\ l1InfoFIFO \in Seq(Nat) /\ ls \in Nat /\ currentLumiSection \in Nat
    BY <1>3, SetsAssumption DEF AcceptTrigger, IncrementEventsInRuBuilder, TypeOK, FifoTypeOK,
                                EvmTypeOK
  <2>2. ToSet(l1InfoFIFO') = ToSet(l1InfoFIFO) \cup {ls}
    BY <2>1, QueueAppend
  <2>3. \A x : Known(x) \/ x = ls => Known(x)'
    BY <1>1, <2>2 DEF Known
  <2>4. DOMAIN lumiSectionMap' = DOMAIN lumiSectionMap \cup {ls}
    BY <2>1 DEF Insert
  <2>5. Given' \subseteq Given
    <3>1. Announced' \subseteq Given /\ Given \subseteq Given
      BY <1>1, AnnouncedSame DEF Given
    <3> QED
      BY <1>1, <3>1, GivenKept
  <2>6. Given \subseteq Nat
    BY GivenIsNat
  <2>7. \A x \in Given : x < ls
    BY <2>1, <2>6 DEF Tracked
  <2>8. ls \notin Given
    BY <2>1, <2>7
  <2>9. Tracked'
    BY <2>1, <2>3, <2>4, <2>5, <2>7, <2>8 DEF Tracked
  <2> QED
    BY <1>1, <2>9, SameOnce
<1> QED
  BY <1>2, <1>3

-----------------------------------------------------------------------------
(***************************************************************************)
(* Every step.                                                             *)
(***************************************************************************)
LEMMA EoLSWorkloopOnce ==
  ASSUME TypeOK, Once, Tracked, EoLSWorkloop
  PROVE  Once' /\ Tracked'
<1>1. Once'
  BY TakeCompletedOnce, SendEoLSToRequestOnce, FindNoRequestOnce, EnqueueEoLSOnce, DropEoLSOnce
  DEF EoLSWorkloop
<1>2. Announced' \subseteq Given /\ Given \subseteq Given
  BY EoLSWorkloopAnnounced DEF Given
<1>3. UNCHANGED << currentLumiSection, lumiSectionMap, infoLumiSection, l1InfoFIFO >>
  BY DEF EoLSWorkloop, TakeCompletedLumiSection, SendEoLSToRequest, FindNoRequest, EnqueueEoLS,
         DropEoLS, evmVars, fifoVars
<1>4. ASSUME NEW b \in BUs, DropEoLS(b) PROVE Given' \subseteq Given
  <2> SUFFICES ASSUME NEW l, l = eolsTask.lumiSection PROVE Given' \subseteq Given
    OBVIOUS
  <2>1. eolsDropped' = eolsDropped \cup ((eolsTask.todo \cup {b}) \X {l}) /\ b \in eolsTask.copy
    BY <1>4 DEF DropEoLS
  <2>2. l \in Given
    BY <2>1, AnnouncedOf DEF Given
  <2>3. \A p \in eolsDropped' : p[2] \in Given
    BY <2>1, <2>2 DEF Given
  <2> QED
    BY <1>2, <2>3 DEF Given
<1>5. ASSUME UNCHANGED eolsDropped PROVE Given' \subseteq Given
  BY <1>2, <1>5, GivenKept
<1>6. Given' \subseteq Given
  BY <1>4, <1>5
  DEF EoLSWorkloop, TakeCompletedLumiSection, SendEoLSToRequest, FindNoRequest, EnqueueEoLS
<1> QED
  BY <1>1, <1>3, <1>6, QuietTracked

LEMMA BuReceiveOnce ==
  ASSUME TypeOK, Once, Tracked, BuReceive
  PROVE  Once' /\ Tracked'
<1>1. UNCHANGED << currentLumiSection, lumiSectionMap, infoLumiSection, l1InfoFIFO,
                   completedLumiSectionFIFO, eolsTask, eolsFIFOs, eolsDropped >>
  BY DEF BuReceive, StartConstruction, EvmLumisection, evmVars, fifoVars, threadVars
<1>2. ASSUME NEW m \in confirms, StartConstruction(m) PROVE Once' /\ Tracked'
  <2>1. UNCHANGED << closedLS, lumiSectionMsgs >>
    BY <1>2 DEF StartConstruction
  <2> QED
    BY <1>1, <2>1, QuietOnce
<1>3. ASSUME NEW m \in lumiSectionMsgs, EvmLumisection(m) PROVE Once' /\ Tracked'
  <2>1. Once'
    BY <1>3, EvmLumisectionOnce
  <2>2. Announced' \subseteq Given /\ Given \subseteq Given
    BY <1>3, EvmLumisectionAnnounced DEF Given
  <2>3. Given' \subseteq Given
    BY <1>1, <2>2, GivenKept
  <2> QED
    BY <1>1, <2>1, <2>3, QuietTracked
<1> QED
  BY <1>2, <1>3 DEF BuReceive

LEMMA I2oThreadOnce ==
  ASSUME TypeOK, Once, Tracked, I2oThread
  PROVE  Once' /\ Tracked'
<1>1. UNCHANGED << currentLumiSection, lumiSectionMap, infoLumiSection, l1InfoFIFO,
                   completedLumiSectionFIFO, eolsTask, closedLS, eolsDropped >>
  BY DEF I2oThread, AnswerRequestWithEoLS, AcceptRequest, AcceptRelease, DiscardAllocateClear,
         EnqueueRequest, ReleaseEvent, evmVars, fifoVars, threadVars, buVars
<1>2. ASSUME NEW m \in allocateClears, AnswerRequestWithEoLS(m) PROVE Once' /\ Tracked'
  <2>1. Once'
    BY <1>2, AnswerOnce
  <2>2. Announced' \subseteq Given /\ Given \subseteq Given
    BY <1>2, AnswerAnnounced DEF Given
  <2>3. Given' \subseteq Given
    BY <1>1, <2>2, GivenKept
  <2> QED
    BY <1>1, <2>1, <2>3, QuietTracked
<1>3. \A m : AcceptRequest(m) \/ AcceptRelease(m) \/ DiscardAllocateClear(m)
             \/ EnqueueRequest(m) \/ ReleaseEvent(m) => UNCHANGED << eolsFIFOs, lumiSectionMsgs >>
  BY DEF AcceptRequest, AcceptRelease, DiscardAllocateClear, EnqueueRequest, ReleaseEvent,
         fifoVars, netVars
<1>4. CASE UNCHANGED << eolsFIFOs, lumiSectionMsgs >>
  BY <1>1, <1>4, QuietOnce
<1> QED
  BY <1>2, <1>3, <1>4 DEF I2oThread

LEMMA TriggerOnce ==
  ASSUME TypeOK, Once, Tracked, Trigger
  PROVE  Once' /\ Tracked'
<1>1. CASE RejectMalformedTrigger \/ \E n, ls : RejectLumiSection(n, ls)
  <2>1. UNCHANGED << currentLumiSection, lumiSectionMap, infoLumiSection, l1InfoFIFO,
                     completedLumiSectionFIFO, eolsTask, eolsFIFOs, closedLS, lumiSectionMsgs,
                     eolsDropped >>
    BY <1>1 DEF RejectMalformedTrigger, RejectLumiSection, fifoVars, threadVars, netVars, buVars
  <2> QED
    BY <2>1, QuietOnce
<1> QED
  BY <1>1, AcceptTriggerOnce DEF Trigger

LEMMA ProcessingOnce ==
  ASSUME TypeOK, EventPlaces, Accounts, Once, Tracked, ProcessingWorkloop
  PROVE  Once' /\ Tracked'
<1>1. CASE ProcessNextReleasedEvent
  <2>1. UNCHANGED << currentLumiSection, infoLumiSection, l1InfoFIFO, completedLumiSectionFIFO,
                     eolsTask, eolsFIFOs, closedLS, lumiSectionMsgs, eolsDropped >>
    BY <1>1 DEF ProcessNextReleasedEvent, threadVars, netVars, buVars
  <2>2. DOMAIN lumiSectionMap' \subseteq DOMAIN lumiSectionMap
    BY <1>1, ReleasedIsKnown
  <2>3. Announced' \subseteq Given /\ Given \subseteq Given
    BY <2>1, AnnouncedSame DEF Given
  <2>4. Given' \subseteq Given
    BY <2>1, <2>3, GivenKept
  <2>5. \A x \in Nat : Known(x) => Known(x)'
    BY <2>1 DEF Known
  <2> QED
    BY <2>1, <2>2, <2>4, <2>5, SameOnce, TrackedKept
<1>2. ASSUME NEW b \in BUs, ServiceBuRqst(b) PROVE Once' /\ Tracked'
  <2>1. UNCHANGED << currentLumiSection, lumiSectionMap, infoLumiSection, l1InfoFIFO,
                     completedLumiSectionFIFO, eolsTask, eolsFIFOs, closedLS, lumiSectionMsgs,
                     eolsDropped >>
    BY <1>2 DEF ServiceBuRqst, evmVars, threadVars, buVars
  <2> QED
    BY <2>1, QuietOnce
<1> QED
  BY <1>1, <1>2, SendEoLSsignalOnce DEF ProcessingWorkloop

LEMMA NextOnce == OnceInv /\ [Next]_vars => OnceInv'
<1> SUFFICES ASSUME OnceInv, [Next]_vars PROVE OnceInv'
  OBVIOUS
<1>1. LumiInv'
  BY NextLumi DEF OnceInv
<1>2. TypeOK /\ Seen /\ Once /\ Tracked /\ (failure = "none" => EventPlaces /\ Accounts)
  BY DEF OnceInv, LumiInv, EventInv, ResourceInv
<1>3. ASSUME NEW b \in BUs, BuStep(b) PROVE Once' /\ Tracked'
  <2>1. UNCHANGED << currentLumiSection, lumiSectionMap, infoLumiSection, l1InfoFIFO,
                     completedLumiSectionFIFO, eolsTask, eolsFIFOs, closedLS, lumiSectionMsgs,
                     eolsDropped >>
    BY <1>3 DEF BuStep, SendEvtIdRqst, HandleDiscard, ResourceMonitoring, evmVars, fifoVars,
                threadVars, netVars
  <2> QED
    BY <1>2, <2>1, QuietOnce
<1>4. ASSUME ProcessingWorkloop PROVE Once' /\ Tracked'
  <2>1. failure = "none"
    BY <1>4 DEF ProcessingWorkloop, ProcessNextReleasedEvent, SendEoLSsignal, ServiceBuRqst, Processing
  <2> QED
    BY <1>2, <1>4, <2>1, ProcessingOnce
<1>5. ASSUME L1InfoWorkloop PROVE Once' /\ Tracked'
  BY <1>2, <1>5, AnnounceSkippedOnce, AddLumiSectionInfoOnce DEF L1InfoWorkloop
<1>6. ASSUME UNCHANGED vars PROVE Once' /\ Tracked'
  <2>1. UNCHANGED << currentLumiSection, lumiSectionMap, infoLumiSection, l1InfoFIFO,
                     completedLumiSectionFIFO, eolsTask, eolsFIFOs, closedLS, lumiSectionMsgs,
                     eolsDropped >>
    BY <1>6 DEF vars, evmVars, fifoVars, threadVars, netVars, buVars
  <2> QED
    BY <1>2, <2>1, QuietOnce
<1>7. Once' /\ Tracked'
  BY <1>2, <1>3, <1>4, <1>5, <1>6, BuReceiveOnce, I2oThreadOnce, TriggerOnce, EoLSWorkloopOnce
  DEF Next
<1> QED
  BY <1>1, <1>7 DEF OnceInv

LEMMA InitOnce == Init => Once /\ Tracked
<1> SUFFICES ASSUME Init PROVE Once /\ Tracked
  OBVIOUS
<1>1. \A b \in BUs : \A ls, k : ~At(b, ls, k)
  BY DEF Init, At, ToSet, Idle
<1>2. NoPlaceTwice
  BY DEF Init, NoPlaceTwice, IsInjective, Idle
<1>3. Announced = {} /\ eolsDropped = {} /\ DOMAIN lumiSectionMap = {}
  BY DEF Init, Announced, ToSet, Idle
<1>4. Tracked
  BY <1>3 DEF Tracked, Given
<1> QED
  BY <1>1, <1>2, <1>4 DEF Once, OneKind

LEMMA OnceInvariant == Spec => []OnceInv
<1>1. Init => OnceInv
  BY InitTypeOK, InitResource, InitEvents, InitLumi, InitOnce
  DEF OnceInv, LumiInv, EventInv, ResourceInv, Init
<1>2. OnceInv /\ [Next]_vars => OnceInv'
  BY NextOnce
<1> QED
  BY <1>1, <1>2, PTL DEF Spec

-----------------------------------------------------------------------------
\* The notices TLC counts.
LEMMA OneNotice ==
  ASSUME Once, NEW b \in BUs, NEW ls, NEW x \in Notices(b, ls), NEW y \in Notices(b, ls)
  PROVE  x = y
<1>1. \/ \E i \in DOMAIN completedLumiSectionFIFO : x = << "completed", i >> /\ completedLumiSectionFIFO[i] = ls
      \/ x = << "task", b >> /\ b \in eolsTask.todo \cup eolsTask.copy /\ eolsTask.lumiSection = ls
      \/ \E i \in DOMAIN eolsFIFOs[b] : x = << "queue", i >> /\ eolsFIFOs[b][i] = ls
      \/ \E m \in lumiSectionMsgs : x = << "message", m >> /\ m.bu = b /\ m.lumiSection = ls
      \/ x = << "closed", ls >> /\ ls \in closedLS[b]
      \/ x = << "dropped", << b, ls >> >> /\ << b, ls >> \in eolsDropped
  BY DEF Notices
<1>2. \/ \E i \in DOMAIN completedLumiSectionFIFO : y = << "completed", i >> /\ completedLumiSectionFIFO[i] = ls
      \/ y = << "task", b >> /\ b \in eolsTask.todo \cup eolsTask.copy /\ eolsTask.lumiSection = ls
      \/ \E i \in DOMAIN eolsFIFOs[b] : y = << "queue", i >> /\ eolsFIFOs[b][i] = ls
      \/ \E m \in lumiSectionMsgs : y = << "message", m >> /\ m.bu = b /\ m.lumiSection = ls
      \/ y = << "closed", ls >> /\ ls \in closedLS[b]
      \/ y = << "dropped", << b, ls >> >> /\ << b, ls >> \in eolsDropped
  BY DEF Notices
<1>3. At(b, ls, x[1]) /\ At(b, ls, y[1])
  BY <1>1, <1>2 DEF At, ToSet
<1>4. x[1] = y[1]
  BY <1>3 DEF Once, OneKind
<1>5. /\ IsInjective(completedLumiSectionFIFO) /\ IsInjective(eolsFIFOs[b])
      /\ \A m, n \in lumiSectionMsgs : m.bu = n.bu /\ m.lumiSection = n.lumiSection => m = n
  BY DEF Once, NoPlaceTwice
<1> QED
  BY <1>1, <1>2, <1>4, <1>5 DEF IsInjective

\* An end of a lumi section is announced to a BU once and for all: none of its
\* events is anywhere in the builder and none follows, and no second notice of it
\* exists, whichever of the two threads announces and whatever happens to the
\* notice on its way (BUproxy::sendEoLSmsg and requestEvent).
THEOREM EndCorrect == Spec => []EndOfLumiSectionIsFinal
<1>1. ASSUME OnceInv, NEW b \in BUs, NEW ls
      PROVE  Cardinality(Notices(b, ls)) <= 1
  <2>1. CASE Notices(b, ls) = {}
    <3>1. Cardinality(Notices(b, ls)) = 0
      BY <2>1, FS_EmptySet
    <3> QED
      BY <3>1
  <2>2. CASE Notices(b, ls) # {}
    <3>1. PICK x : x \in Notices(b, ls)
      BY <2>2
    <3>2. Notices(b, ls) = {x}
      BY <1>1, <3>1, OneNotice DEF OnceInv
    <3>3. Cardinality(Notices(b, ls)) = 1
      BY <3>2, FS_Singleton
    <3> QED
      BY <3>3
  <2> QED
    BY <2>1, <2>2
<1>2. OnceInv => EndOfLumiSectionIsFinal
  BY <1>1, LumiInvIsProperty DEF OnceInv, EndOfLumiSectionIsFinal, EoLSAtMostOnce
<1> QED
  BY <1>2, OnceInvariant, PTL

-----------------------------------------------------------------------------
(***************************************************************************)
(* The checks of the BUs.                                                  *)
(***************************************************************************)
\* The slot of each event on its way to a BU is free, also after the EVM has failed.
SlotsFree ==
  /\ SameResource(confirms)
  /\ \A m \in confirms : m.resource \notin DOMAIN data[m.bu]

NoBuFails == \A b \in BUs : buFailure[b] = "none"

FailsInv == OnceInv /\ SlotsFree /\ NoBuFails

LEMMA SameSlots ==
  ASSUME SlotsFree, UNCHANGED << confirms, data >>
  PROVE  SlotsFree'
BY DEF SlotsFree, SameResource

LEMMA StartConstructionSlots ==
  ASSUME TypeOK, SlotsFree, NEW m \in confirms, StartConstruction(m)
  PROVE  SlotsFree' /\ UNCHANGED buFailure
<1>1. m.resource \notin DOMAIN data[m.bu]
  BY DEF SlotsFree
<1>2. /\ confirms' = confirms \ {m} /\ UNCHANGED buFailure
      /\ data' = [data EXCEPT ![m.bu] = Insert(@, m.resource,
                    [evbId |-> m.evbId, lumiSection |-> m.lumiSection])]
  BY <1>1 DEF StartConstruction
<1>3. ASSUME NEW n \in confirms' PROVE n.resource \notin DOMAIN data'[n.bu]
  <2>1. n \in confirms /\ n # m /\ n.bu \in BUs
    BY <1>2 DEF TypeOK, NetTypeOK, Confirm
  <2>2. ~(n.bu = m.bu /\ n.resource = m.resource) /\ n.resource \notin DOMAIN data[n.bu]
    BY <2>1 DEF SlotsFree, SameResource
  <2>3. CASE n.bu = m.bu
    <3>1. DOMAIN data'[n.bu] = DOMAIN data[n.bu] \cup {m.resource}
      BY <1>2, <2>1, <2>3 DEF TypeOK, BuTypeOK, Insert
    <3> QED
      BY <2>2, <2>3, <3>1
  <2>4. CASE n.bu # m.bu
    <3>1. data'[n.bu] = data[n.bu]
      BY <1>2, <2>1, <2>4 DEF TypeOK, BuTypeOK
    <3> QED
      BY <2>2, <3>1
  <2> QED
    BY <2>3, <2>4
<1>4. SameResource(confirms)'
  BY <1>2 DEF SlotsFree, SameResource
<1> QED
  BY <1>2, <1>3, <1>4 DEF SlotsFree

LEMMA HandleDiscardSlots ==
  ASSUME TypeOK, SlotsFree, NEW b \in BUs, NEW r \in Resources, HandleDiscard(b, r)
  PROVE  SlotsFree'
<1>1. data' = [data EXCEPT ![b] = Erase(@, r)] /\ UNCHANGED confirms
  BY DEF HandleDiscard
<1>2. \A c \in BUs : data'[c] = IF c = b THEN Erase(data[c], r) ELSE data[c]
  BY <1>1 DEF TypeOK, BuTypeOK
<1>3. \A c \in BUs : DOMAIN data'[c] \subseteq DOMAIN data[c]
  BY <1>2 DEF Erase
<1>4. \A m \in confirms : m.bu \in BUs
  BY DEF TypeOK, NetTypeOK, Confirm
<1> QED
  BY <1>1, <1>3, <1>4 DEF SlotsFree, SameResource

LEMMA NextBuFailure ==
  ASSUME TypeOK, Once, SlotsFree, [Next]_vars
  PROVE  UNCHANGED buFailure
<1>1. ASSUME NEW b \in BUs, BuStep(b) PROVE UNCHANGED buFailure
  BY <1>1 DEF BuStep, SendEvtIdRqst, HandleDiscard, ResourceMonitoring
<1>2. ASSUME BuReceive PROVE UNCHANGED buFailure
  BY <1>2, StartConstructionSlots, EvmLumisectionOnce DEF BuReceive
<1>3. I2oThread => UNCHANGED buFailure
  BY DEF I2oThread, AnswerRequestWithEoLS, AcceptRequest, AcceptRelease, DiscardAllocateClear,
         EnqueueRequest, ReleaseEvent, buVars
<1>4. Trigger \/ ProcessingWorkloop => UNCHANGED buFailure
  BY DEF Trigger, RejectMalformedTrigger, RejectLumiSection, AcceptTrigger, ProcessingWorkloop,
         ProcessNextReleasedEvent, SendEoLSsignal, ServiceBuRqst, buVars
<1>5. L1InfoWorkloop \/ EoLSWorkloop => UNCHANGED buFailure
  BY DEF L1InfoWorkloop, AnnounceSkippedLumiSection, AddLumiSectionInfo, EoLSWorkloop,
         TakeCompletedLumiSection, SendEoLSToRequest, FindNoRequest, EnqueueEoLS, DropEoLS, buVars
<1> QED
  BY <1>1, <1>2, <1>3, <1>4, <1>5 DEF Next, vars, buVars

LEMMA ServiceBuRqstSlots ==
  ASSUME TypeOK, Places, SlotsFree, NEW b \in BUs, ServiceBuRqst(b)
  PROVE  SlotsFree'
<1> SUFFICES ASSUME NEW r, r = Head(requestFIFOs[b]),
                    NEW m, m = [bu |-> b, resource |-> r, evbId |-> Head(eventFIFO).evbId,
                                lumiSection |-> Head(eventFIFO).lumiSection]
             PROVE  SlotsFree'
  OBVIOUS
<1>1. /\ requestFIFOs[b] \in Seq(Resources) /\ requestFIFOs[b] # << >>
      /\ confirms' = confirms \cup {m} /\ UNCHANGED data
      /\ m.bu = b /\ m.resource = r
  BY DEF ServiceBuRqst, TypeOK, FifoTypeOK, buVars
<1>2. r \in Resources /\ Queued(b, r)
  BY <1>1, QueueTail DEF Queued
<1>3. ~Confirmed(b, r) /\ ~Holds(b, r)
  BY <1>2 DEF Places, OnePlace, Count
<1>4. SameResource(confirms)'
  BY <1>1, <1>3 DEF SlotsFree, SameResource, Confirmed
<1>5. \A n \in confirms' : n.resource \notin DOMAIN data[n.bu]
  BY <1>1, <1>3 DEF SlotsFree, Holds
<1> QED
  BY <1>1, <1>4, <1>5 DEF SlotsFree

LEMMA NextSlots ==
  ASSUME TypeOK, SlotsFree, failure = "none" => Places, [Next]_vars
  PROVE  SlotsFree'
<1>1. ASSUME NEW b \in BUs, BuStep(b) PROVE SlotsFree'
  <2>1. ASSUME NEW r \in Resources, SendEvtIdRqst(b, r) PROVE SlotsFree'
    BY <2>1, SameSlots DEF SendEvtIdRqst
  <2>2. ASSUME ResourceMonitoring(b) PROVE SlotsFree'
    BY <2>2, SameSlots DEF ResourceMonitoring, netVars
  <2> QED
    BY <1>1, <2>1, <2>2, HandleDiscardSlots DEF BuStep
<1>2. ASSUME BuReceive PROVE SlotsFree'
  <2>1. ASSUME NEW m \in lumiSectionMsgs, EvmLumisection(m) PROVE SlotsFree'
    BY <2>1, SameSlots DEF EvmLumisection
  <2> QED
    BY <1>2, <2>1, StartConstructionSlots DEF BuReceive
<1>3. I2oThread => UNCHANGED << confirms, data >>
  BY DEF I2oThread, AnswerRequestWithEoLS, AcceptRequest, AcceptRelease, DiscardAllocateClear,
         EnqueueRequest, ReleaseEvent, netVars, buVars
<1>4. Trigger => UNCHANGED << confirms, data >>
  BY DEF Trigger, RejectMalformedTrigger, RejectLumiSection, AcceptTrigger, netVars, buVars
<1>5. ASSUME ProcessingWorkloop PROVE SlotsFree'
  <2>1. ProcessNextReleasedEvent \/ SendEoLSsignal => UNCHANGED << confirms, data >>
    BY DEF ProcessNextReleasedEvent, SendEoLSsignal, netVars, buVars
  <2>2. ASSUME NEW b \in BUs, ServiceBuRqst(b) PROVE SlotsFree'
    <3>1. failure = "none"
      BY <2>2 DEF ServiceBuRqst, Processing
    <3> QED
      BY <2>2, <3>1, ServiceBuRqstSlots
  <2> QED
    BY <1>5, <2>1, <2>2, SameSlots DEF ProcessingWorkloop
<1>6. L1InfoWorkloop \/ EoLSWorkloop => UNCHANGED << confirms, data >>
  BY DEF L1InfoWorkloop, AnnounceSkippedLumiSection, AddLumiSectionInfo, EoLSWorkloop,
         TakeCompletedLumiSection, SendEoLSToRequest, FindNoRequest, EnqueueEoLS, DropEoLS,
         netVars, buVars
<1>7. UNCHANGED vars => UNCHANGED << confirms, data >>
  BY DEF vars, netVars, buVars
<1> QED
  BY <1>1, <1>2, <1>3, <1>4, <1>5, <1>6, <1>7, SameSlots DEF Next

\* The EVM and the BUs never disagree: none of the raises of BUproxy,
\* LumiSectionTable, EventTable::startConstruction and LumiHandler for a state that
\* must not occur is reached, only a bad trigger takes the EVM to Failed.
THEOREM FailureCorrect == Spec => []OnlyTriggerFails
<1>1. Init => FailsInv
  <2>1. Init => OnceInv
    BY InitTypeOK, InitResource, InitEvents, InitLumi, InitOnce
    DEF OnceInv, LumiInv, EventInv, ResourceInv, Init
  <2>2. Init => SlotsFree /\ NoBuFails
    BY DEF Init, SlotsFree, SameResource, NoBuFails
  <2> QED
    BY <2>1, <2>2 DEF FailsInv
<1>2. FailsInv /\ [Next]_vars => FailsInv'
  <2> SUFFICES ASSUME FailsInv, [Next]_vars PROVE FailsInv'
    OBVIOUS
  <2>1. TypeOK /\ Once /\ SlotsFree /\ (failure = "none" => Places)
    BY DEF FailsInv, OnceInv, LumiInv, EventInv, ResourceInv
  <2>2. OnceInv'
    BY NextOnce DEF FailsInv
  <2>3. SlotsFree' /\ UNCHANGED buFailure
    BY <2>1, NextSlots, NextBuFailure
  <2> QED
    BY <2>2, <2>3 DEF FailsInv, NoBuFails
<1>3. FailsInv => OnlyTriggerFails
  BY DEF FailsInv, OnceInv, LumiInv, EventInv, NoBuFails, OnlyTriggerFails
<1> QED
  BY <1>1, <1>2, <1>3, PTL DEF Spec
=============================================================================
