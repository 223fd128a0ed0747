--------------------------- MODULE EventIdProtocol ---------------------------
(***************************************************************************)
(* How event ids and end-of-lumi-section (EoLS) notices travel between the *)
(* event manager (EVM) and the builder units (BUs) while both are enabled. *)
(*                                                                         *)
(*   - a BU asks for an event with one of its resource ids;                *)
(*   - the EVM gives every trigger it accepts an event-builder id, answers *)
(*     a queued request with it (confirm) and remembers the id until the   *)
(*     BU releases it;                                                     *)
(*   - when all events of a lumi section (LS) are released and the trigger *)
(*     is sending a later one, every BU is told that the LS ended.  The    *)
(*     notice answers a request too; the BU then asks again.               *)
(*                                                                         *)
(* Four EVM threads work on this state: the I2O thread (I2Ocallback), the  *)
(* processing workloop (doWork), the L1 information workloop and the EoLS  *)
(* sender workloop.  Each action is one uninterrupted piece of one thread: *)
(* what lies between two accesses to a queue another thread also uses.     *)
(*                                                                         *)
(* The messages on the network are sets: I2O delivers each of them once,   *)
(* and no order between them is assumed.  Packing several requests into    *)
(* one message, the readout units and the handling of complete events are  *)
(* abstracted: a BU may discard any event it holds.                        *)
(***************************************************************************)
EXTENDS EvBidFactory, FiniteSets, Sequences, SequencesExt

CONSTANTS
  BUs,                \* the builder units
  Resources,          \* the resource ids of each BU
  ThrottledBUs,       \* the BUs whose disk writer may suspend requests
  NbEvtIdsInBuilder,  \* EVM parameter: the most events in the builder
  EventFIFOCapacity,
  RequestFIFOCapacity,
  ReleasedEvbIdFIFOCapacity,
  EolsFIFOCapacity,
  EventNumbers,       \* trigger numbers the trigger may send
  LumiSections,       \* lumi sections the trigger may send, 0: no L1 information
  MaxTriggers         \* bound: the number of triggers in a behaviour

ASSUME SetsAssumption ==
  /\ ThrottledBUs \subseteq BUs
  /\ EventNumbers \subseteq Nat
  /\ LumiSections \subseteq Nat

ASSUME BoundsAssumption ==
  /\ NbEvtIdsInBuilder \in Nat \ {0}
  /\ EventFIFOCapacity \in Nat /\ EventFIFOCapacity >= NbEvtIdsInBuilder
  /\ RequestFIFOCapacity \in Nat \ {0}
  /\ ReleasedEvbIdFIFOCapacity \in Nat \ {0}
  /\ EolsFIFOCapacity \in Nat
  /\ MaxTriggers \in Nat

VARIABLES
  \* the processing workloop of the EVM
  evbIdFactory, nbTriggers, nbEvtsInBuilder, currentLumiSection,
  evbIdMap,          \* EvBid of each event in the builder -> its LS
  lumiSectionMap,    \* LS -> number of its events in the builder
  workloopAt,        \* "doWork", or in LumiSectionTable: "sendEoLSsignal"
  failure,           \* the exception that took the EVM to Failed, or "none"
  \* the queues between the threads of the EVM
  eventFIFO, requestFIFOs, releasedEvbIdFIFO, eolsFIFOs,
  l1InfoFIFO, completedLumiSectionFIFO,
  \* the other threads of the EVM
  i2oRequest,        \* the element whose request the I2O thread must enqueue
  i2oRelease,        \* the element whose release the I2O thread must enqueue
  infoLumiSection,   \* the LS of currentLumiSectionInfo_, 0: none
  eolsTask,          \* the notice the EoLS sender distributes
  eolsDropped,       \* <<BU, LS>> of notices lost because a queue was full
  \* the messages on the network
  allocateClears, confirms, lumiSectionMsgs,
  \* the builder units
  freeResourceIds, requestEvents, data, closedLS, buFailure

evmVars  == << evbIdFactory, nbTriggers, nbEvtsInBuilder, currentLumiSection,
               evbIdMap, lumiSectionMap, workloopAt, failure >>
fifoVars == << eventFIFO, requestFIFOs, releasedEvbIdFIFO, eolsFIFOs,
               l1InfoFIFO, completedLumiSectionFIFO >>
threadVars == << i2oRequest, i2oRelease, infoLumiSection, eolsTask, eolsDropped >>
netVars  == << allocateClears, confirms, lumiSectionMsgs >>
buVars   == << freeResourceIds, requestEvents, data, closedLS, buFailure >>
vars     == << evmVars, fifoVars, threadVars, netVars, buVars >>

-----------------------------------------------------------------------------
\* An element of EvtIdRqstsAndOrReleasesMsg: the bits set in requestType, the
\* resource id, and the id released (EvBid() if RELEASE is not set).
Element   == [bu : BUs, resource : Resources, requestType : SUBSET {"REQUEST", "RELEASE"},
              evbId : EvBid]
NoEvBid   == [resyncCount |-> 0, eventNumber |-> 0]
Request(b, r) == [bu |-> b, resource |-> r, requestType |-> {"REQUEST"}, evbId |-> NoEvBid]
\* The trigger data block of an event, tagged with the resource that asked.
Confirm   == [bu : BUs, resource : Resources, evbId : EvBid, lumiSection : Nat]
EolsMsg   == [bu : BUs, resource : Resources, lumiSection : Nat]
\* An event waiting for a request, and an event a BU holds.
Event     == [evbId : EvBid, lumiSection : Nat]
EolsTask  == [lumiSection : Nat, todo : SUBSET BUs, copy : SUBSET BUs]
Failures  == {"none", "Configuration", "LumiSectionDecreased", "UnknownEvBid",
              "DuplicateEvBid", "EventFIFOFull", "UnknownLumiSection", "FreedTooMany"}
BuFailures == {"none", "SlotOccupied", "LumiSectionClosedTwice"}

\* Partial functions: the maps of the code.
IsMap(f, S, T)  == DOMAIN f \subseteq S /\ f \in [DOMAIN f -> T]
Insert(f, k, v) == [x \in DOMAIN f \cup {k} |-> IF x = k THEN v ELSE f[x]]
Erase(f, k)     == [x \in DOMAIN f \ {k} |-> f[x]]

\* Faulty variant: a lumi section ends although the trigger may still be sending it.
CompletedIn_Current(map, current) == { ls \in DOMAIN map : map[ls] = 0 /\ ls <= current }

\* Faulty variant: a lumi section ends only when the trigger is two ahead.
CompletedIn_TwoAhead(map, current) == { ls \in DOMAIN map : map[ls] = 0 /\ ls + 1 < current }

\* The lumi sections LumiSectionTable::sendEoLSsignal would announce.
CompletedIn(map, current) == { ls \in DOMAIN map : map[ls] = 0 /\ ls < current }

Idle == [lumiSection |-> 0, todo |-> {}, copy |-> {}]

EvmTypeOK ==
  /\ evbIdFactory \in Factory
  /\ nbTriggers \in Nat /\ nbEvtsInBuilder \in Int /\ currentLumiSection \in Nat
  /\ IsMap(evbIdMap, EvBid, Nat)
  /\ IsMap(lumiSectionMap, Nat, Nat)
  /\ workloopAt \in {"doWork", "sendEoLSsignal"}
  /\ failure \in Failures

FifoTypeOK ==
  /\ eventFIFO \in Seq(Event)
  /\ requestFIFOs \in [BUs -> Seq(Resources)]
  /\ releasedEvbIdFIFO \in Seq(EvBid)
  /\ eolsFIFOs \in [BUs -> Seq(Nat)]
  /\ l1InfoFIFO \in Seq(Nat)
  /\ completedLumiSectionFIFO \in Seq(Nat)

ThreadTypeOK ==
  /\ i2oRequest \in SUBSET Element
  /\ i2oRelease \in SUBSET Element
  /\ infoLumiSection \in Nat
  /\ eolsTask \in EolsTask
  /\ eolsDropped \in SUBSET (BUs \X Nat)

NetTypeOK ==
  /\ allocateClears \in SUBSET Element
  /\ confirms \in SUBSET Confirm
  /\ lumiSectionMsgs \in SUBSET EolsMsg

BuTypeOK ==
  /\ freeResourceIds \in [BUs -> SUBSET Resources]
  /\ requestEvents \in SUBSET BUs
  /\ data = [b \in BUs |-> data[b]]
  /\ \A b \in BUs : IsMap(data[b], Resources, Event)
  /\ closedLS \in [BUs -> SUBSET Nat]
  /\ buFailure \in [BUs -> BuFailures]

TypeOK == EvmTypeOK /\ FifoTypeOK /\ ThreadTypeOK /\ NetTypeOK /\ BuTypeOK

\* Configured and enabled: the BUs hold all their resource ids (startProcessing).
Init ==
  /\ evbIdFactory = NewEvBidFactory
  /\ nbTriggers = 0 /\ nbEvtsInBuilder = 0 /\ currentLumiSection = 0
  /\ evbIdMap = << >> /\ lumiSectionMap = << >>
  /\ workloopAt = "doWork" /\ failure = "none"
  /\ eventFIFO = << >> /\ releasedEvbIdFIFO = << >>
  /\ requestFIFOs = [b \in BUs |-> << >>] /\ eolsFIFOs = [b \in BUs |-> << >>]
  /\ l1InfoFIFO = << >> /\ completedLumiSectionFIFO = << >>
  /\ i2oRequest = {} /\ i2oRelease = {}
  /\ infoLumiSection = 0 /\ eolsTask = Idle /\ eolsDropped = {}
  /\ allocateClears = {} /\ confirms = {} /\ lumiSectionMsgs = {}
  /\ freeResourceIds = [b \in BUs |-> Resources]
  /\ requestEvents = BUs
  /\ data = [b \in BUs |-> << >>]
  /\ closedLS = [b \in BUs |-> {}]
  /\ buFailure = [b \in BUs |-> "none"]

-----------------------------------------------------------------------------
(***************************************************************************)
(* The builder units.                                                      *)
(***************************************************************************)

\* EventTable::sendEvtIdRqsts: ask for an event for a free resource.
SendEvtIdRqst(b, r) ==
  /\ buFailure[b] = "none"
  /\ b \in requestEvents
  /\ r \in freeResourceIds[b]
  /\ freeResourceIds' = [freeResourceIds EXCEPT ![b] = @ \ {r}]
  /\ allocateClears' = allocateClears \cup
       {Request(b, r)}
  /\ UNCHANGED << evmVars, fifoVars, threadVars, confirms, lumiSectionMsgs,
                  requestEvents, data, closedLS, buFailure >>

\* EventTable::startConstruction: the slot of the resource must be free.
StartConstruction(m) ==
  /\ buFailure[m.bu] = "none"
  /\ confirms' = confirms \ {m}
  /\ IF m.resource \in DOMAIN data[m.bu]
     THEN /\ buFailure' = [buFailure EXCEPT ![m.bu] = "SlotOccupied"]
          /\ UNCHANGED data
     ELSE /\ data' = [data EXCEPT ![m.bu] = Insert(@, m.resource,
                        [evbId |-> m.evbId, lumiSection |-> m.lumiSection])]
          /\ UNCHANGED buFailure
  /\ UNCHANGED << evmVars, fifoVars, threadVars, allocateClears, lumiSectionMsgs,
                  freeResourceIds, requestEvents, closedLS >>

\* Faulty variant: the resource is put back although it is requested again.
HandleDiscard_AlwaysFree(b, r) ==
  /\ buFailure[b] = "none"
  /\ r \in DOMAIN data[b]
  /\ allocateClears' = allocateClears \cup
       {[bu |-> b, resource |-> r, evbId |-> data[b][r].evbId,
         requestType |-> {"RELEASE"} \cup (IF b \in requestEvents THEN {"REQUEST"} ELSE {})]}
  /\ freeResourceIds' = [freeResourceIds EXCEPT ![b] = @ \cup {r}]
  /\ data' = [data EXCEPT ![b] = Erase(@, r)]
  /\ UNCHANGED << evmVars, fifoVars, threadVars, confirms, lumiSectionMsgs,
                  requestEvents, closedLS, buFailure >>

\* EventTable::handleDiscards and freeEventAndGetReleaseMsg: the event is built
\* and gone; release its id and, unless requests are suspended, ask for another.
HandleDiscard(b, r) ==
  /\ buFailure[b] = "none"
  /\ r \in DOMAIN data[b]
  /\ allocateClears' = allocateClears \cup
       {[bu |-> b, resource |-> r, evbId |-> data[b][r].evbId,
         requestType |-> {"RELEASE"} \cup (IF b \in requestEvents THEN {"REQUEST"} ELSE {})]}
  /\ freeResourceIds' = IF b \in requestEvents THEN freeResourceIds
                        ELSE [freeResourceIds EXCEPT ![b] = @ \cup {r}]
  /\ data' = [data EXCEPT ![b] = Erase(@, r)]
  /\ UNCHANGED << evmVars, fifoVars, threadVars, confirms, lumiSectionMsgs,
                  requestEvents, closedLS, buFailure >>

\* StateMachine::evmLumisection: close the files of the LS (LumiHandler refuses
\* to write its summary twice), then give the resource back as a new request.
EvmLumisection(m) ==
  /\ buFailure[m.bu] = "none"
  /\ lumiSectionMsgs' = lumiSectionMsgs \ {m}
  /\ closedLS' = [closedLS EXCEPT ![m.bu] = @ \cup {m.lumiSection}]
  /\ buFailure' = IF m.lumiSection \in closedLS[m.bu]
                  THEN [buFailure EXCEPT ![m.bu] = "LumiSectionClosedTwice"]
                  ELSE buFailure
  /\ allocateClears' = allocateClears \cup
       {Request(m.bu, m.resource)}
  /\ UNCHANGED << evmVars, fifoVars, threadVars, confirms,
                  freeResourceIds, requestEvents, data >>

\* DiskWriter::resourceMonitoring: suspend or resume requesting events.
ResourceMonitoring(b) ==
  /\ b \in ThrottledBUs
  /\ requestEvents' = IF b \in requestEvents THEN requestEvents \ {b} ELSE requestEvents \cup {b}
  /\ UNCHANGED << evmVars, fifoVars, threadVars, netVars,
                  freeResourceIds, data, closedLS, buFailure >>

-----------------------------------------------------------------------------
(***************************************************************************)
(* The I2O thread of the EVM: BUproxy::pushRequestOntoFIFOs, one element   *)
(* at a time, its request before its release.                              *)
(***************************************************************************)
I2oIdle == i2oRequest = {} /\ i2oRelease = {}

\* Faulty variant: the release of an element that also requests is forgotten.
Releasing_OnlyAlone(m) == IF m.requestType = {"RELEASE"} THEN {m} ELSE {}

Releasing(m) == IF "RELEASE" \in m.requestType THEN {m} ELSE {}

\* requestEvent, a notice is waiting for the BU: the notice answers the request.
AnswerRequestWithEoLS(m) ==
  /\ failure = "none" /\ I2oIdle
  /\ "REQUEST" \in m.requestType /\ eolsFIFOs[m.bu] # << >>
  /\ allocateClears' = allocateClears \ {m}
  /\ eolsFIFOs' = [eolsFIFOs EXCEPT ![m.bu] = Tail(@)]
  /\ lumiSectionMsgs' = lumiSectionMsgs \cup
       {[bu |-> m.bu, resource |-> m.resource, lumiSection |-> Head(eolsFIFOs[m.bu])]}
  /\ i2oRelease' = Releasing(m)
  /\ UNCHANGED << evmVars, eventFIFO, requestFIFOs, releasedEvbIdFIFO, l1InfoFIFO,
                  completedLumiSectionFIFO, i2oRequest, infoLumiSection, eolsTask,
                  eolsDropped, confirms, buVars >>

\* requestEvent, no notice is waiting: the request will be enqueued.
AcceptRequest(m) ==
  /\ failure = "none" /\ I2oIdle
  /\ "REQUEST" \in m.requestType /\ eolsFIFOs[m.bu] = << >>
  /\ allocateClears' = allocateClears \ {m}
  /\ i2oRequest' = {m}
  /\ UNCHANGED << evmVars, fifoVars, i2oRelease, infoLumiSection, eolsTask,
                  eolsDropped, confirms, lumiSectionMsgs, buVars >>

\* requestEvent: spin until requestFIFOs takes the request.
EnqueueRequest(m) ==
  /\ m \in i2oRequest
  /\ Len(requestFIFOs[m.bu]) < RequestFIFOCapacity
  /\ requestFIFOs' = [requestFIFOs EXCEPT ![m.bu] = Append(@, m.resource)]
  /\ i2oRequest' = {}
  /\ i2oRelease' = Releasing(m)
  /\ UNCHANGED << evmVars, eventFIFO, releasedEvbIdFIFO, eolsFIFOs, l1InfoFIFO,
                  completedLumiSectionFIFO, infoLumiSection, eolsTask, eolsDropped,
                  netVars, buVars >>

\* An element that only releases.
AcceptRelease(m) ==
  /\ failure = "none" /\ I2oIdle
  /\ "REQUEST" \notin m.requestType
  /\ allocateClears' = allocateClears \ {m}
  /\ i2oRelease' = Releasing(m)
  /\ UNCHANGED << evmVars, fifoVars, i2oRequest, infoLumiSection, eolsTask,
                  eolsDropped, confirms, lumiSectionMsgs, buVars >>

\* releaseEvent: spin until releasedEvbIdFIFO takes the id.
ReleaseEvent(m) ==
  /\ m \in i2oRelease /\ i2oRequest = {}
  /\ Len(releasedEvbIdFIFO) < ReleasedEvbIdFIFOCapacity
  /\ releasedEvbIdFIFO' = Append(releasedEvbIdFIFO, m.evbId)
  /\ i2oRelease' = {}
  /\ UNCHANGED << evmVars, eventFIFO, requestFIFOs, eolsFIFOs, l1InfoFIFO,
                  completedLumiSectionFIFO, i2oRequest, infoLumiSection, eolsTask,
                  eolsDropped, netVars, buVars >>

\* Outermost::react: a failed EVM discards what the BUs send.
DiscardAllocateClear(m) ==
  /\ failure # "none" /\ I2oIdle
  /\ allocateClears' = allocateClears \ {m}
  /\ UNCHANGED << evmVars, fifoVars, threadVars, confirms, lumiSectionMsgs, buVars >>

-----------------------------------------------------------------------------
(***************************************************************************)
(* The processing workloop of the EVM: EVM::doWork.                        *)
(***************************************************************************)
\* The loop of sendEoLSsignal goes on while there is a lumi section to announce.
NextWorkloopAt ==
  IF CompletedIn(lumiSectionMap', currentLumiSection) = {} THEN "doWork" ELSE "sendEoLSsignal"

Processing == failure = "none" /\ workloopAt = "doWork"

\* BUproxy::processNextReleasedEvent, with the decrement of the LumiSectionTable.
\* Only this thread uses the maps, so the erase is not kept apart from the
\* signals sendEoLSsignal sends before it.
ProcessNextReleasedEvent ==
  /\ Processing
  /\ releasedEvbIdFIFO # << >>
  /\ releasedEvbIdFIFO' = Tail(releasedEvbIdFIFO)
  /\ LET id == Head(releasedEvbIdFIFO)
         ls == evbIdMap[id]
         Raise(what) == /\ failure' = what
                        /\ UNCHANGED << evbIdMap, lumiSectionMap, nbEvtsInBuilder, workloopAt >>
         Forget == /\ evbIdMap' = Erase(evbIdMap, id)
                   /\ nbEvtsInBuilder' = nbEvtsInBuilder - 1
                   /\ UNCHANGED failure
     IN  \/ id \notin DOMAIN evbIdMap /\ Raise("UnknownEvBid")
         \/ /\ id \in DOMAIN evbIdMap /\ ls = 0
            /\ Forget
            /\ UNCHANGED << lumiSectionMap, workloopAt >>
         \/ /\ id \in DOMAIN evbIdMap /\ ls # 0 /\ ls \notin DOMAIN lumiSectionMap
            /\ Raise("UnknownLumiSection")
         \/ /\ id \in DOMAIN evbIdMap /\ ls # 0 /\ ls \in DOMAIN lumiSectionMap
            /\ lumiSectionMap[ls] = 0
            /\ Raise("FreedTooMany")
         \/ /\ id \in DOMAIN evbIdMap /\ ls # 0 /\ ls \in DOMAIN lumiSectionMap
            /\ lumiSectionMap[ls] > 0
            /\ Forget
            /\ lumiSectionMap' = [lumiSectionMap EXCEPT ![ls] = @ - 1]
            /\ workloopAt' = NextWorkloopAt
  /\ UNCHANGED << evbIdFactory, nbTriggers, currentLumiSection, eventFIFO, requestFIFOs,
                  eolsFIFOs, l1InfoFIFO, completedLumiSectionFIFO, threadVars, netVars, buVars >>

\* One round of the loop in LumiSectionTable::sendEoLSsignal, in map order.
SendEoLSsignal ==
  /\ failure = "none" /\ workloopAt = "sendEoLSsignal"
  /\ \E ls \in CompletedIn(lumiSectionMap, currentLumiSection) :
       /\ \A other \in CompletedIn(lumiSectionMap, currentLumiSection) : ls <= other
       /\ completedLumiSectionFIFO' = Append(completedLumiSectionFIFO, ls)
       /\ lumiSectionMap' = Erase(lumiSectionMap, ls)
       /\ workloopAt' = NextWorkloopAt
  /\ UNCHANGED << evbIdFactory, nbTriggers, nbEvtsInBuilder, currentLumiSection, evbIdMap,
                  failure, eventFIFO, requestFIFOs, releasedEvbIdFIFO, eolsFIFOs, l1InfoFIFO,
                  threadVars, netVars, buVars >>

\* Faulty variant: one event more than there are event ids.
TriggerAvailable_OneMore ==
  /\ Processing
  /\ nbEvtsInBuilder <= NbEvtIdsInBuilder
  /\ nbTriggers < MaxTriggers
  /\ nbTriggers' = nbTriggers + 1

\* The trigger sends a message doWork can take (TRGproxy::getNextTrigger).
TriggerAvailable ==
  /\ Processing
  /\ nbEvtsInBuilder < NbEvtIdsInBuilder
  /\ nbTriggers < MaxTriggers
  /\ nbTriggers' = nbTriggers + 1

\* A trigger block with more than one block or a block number other than 0.
RejectMalformedTrigger ==
  /\ TriggerAvailable
  /\ failure' = "Configuration"
  /\ UNCHANGED << evbIdFactory, nbEvtsInBuilder, currentLumiSection, evbIdMap,
                  lumiSectionMap, workloopAt, fifoVars, threadVars, netVars, buVars >>

\* L1InfoHandler::verifyLumiSection: the lumi section went back.  The id is
\* already issued and announced to the readout units.
RejectLumiSection(n, ls) ==
  /\ TriggerAvailable
  /\ ls # 0 /\ ls < currentLumiSection
  /\ evbIdFactory' = AfterGetEvBid(evbIdFactory, n)
  /\ failure' = "LumiSectionDecreased"
  /\ UNCHANGED << nbEvtsInBuilder, currentLumiSection, evbIdMap,
                  lumiSectionMap, workloopAt, fifoVars, threadVars, netVars, buVars >>

\* LumiSectionTable::incrementEventsInRuBuilder.
CountOf(ls) == IF ls \in DOMAIN lumiSectionMap THEN lumiSectionMap[ls] ELSE 0
IncrementEventsInRuBuilder(ls) ==
  IF ls = 0 THEN UNCHANGED << currentLumiSection, lumiSectionMap, l1InfoFIFO >>
  ELSE /\ currentLumiSection' = ls
       /\ lumiSectionMap' = Insert(lumiSectionMap, ls, CountOf(ls) + 1)
       /\ l1InfoFIFO' = Append(l1InfoFIFO, ls)

\* The trigger part of doWork: the id, L1InfoHandler::extractL1Info and
\* BUproxy::addEvent.  currentLumiSection is both lastSeenLumiSection_ of the
\* L1InfoHandler and currentLumiSectionNumber_ of the table: doWork sets both.
AcceptTrigger(n, ls) ==
  /\ TriggerAvailable
  /\ ls = 0 \/ ls >= currentLumiSection
  /\ evbIdFactory' = AfterGetEvBid(evbIdFactory, n)
  /\ IncrementEventsInRuBuilder(ls)
  /\ LET id == GetEvBid(evbIdFactory, n)
     IN  \/ /\ id \in DOMAIN evbIdMap
            /\ failure' = "DuplicateEvBid"
            /\ UNCHANGED << evbIdMap, eventFIFO, nbEvtsInBuilder >>
         \/ /\ id \notin DOMAIN evbIdMap /\ Len(eventFIFO) >= EventFIFOCapacity
            /\ evbIdMap' = Insert(evbIdMap, id, ls)
            /\ failure' = "EventFIFOFull"
            /\ UNCHANGED << eventFIFO, nbEvtsInBuilder >>
         \/ /\ id \notin DOMAIN evbIdMap /\ Len(eventFIFO) < EventFIFOCapacity
            /\ evbIdMap' = Insert(evbIdMap, id, ls)
            /\ eventFIFO' = Append(eventFIFO, [evbId |-> id, lumiSection |-> ls])
            /\ nbEvtsInBuilder' = nbEvtsInBuilder + 1
            /\ UNCHANGED failure
  /\ UNCHANGED << workloopAt, requestFIFOs, releasedEvbIdFIFO, eolsFIFOs,
                  completedLumiSectionFIFO, threadVars, netVars, buVars >>

\* BUproxy::serviceBuRqst: the oldest event answers a request of some BU; which
\* BU (round robin or the fullest queue) is left open.
ServiceBuRqst(b) ==
  /\ Processing
  /\ eventFIFO # << >> /\ requestFIFOs[b] # << >>
  /\ requestFIFOs' = [requestFIFOs EXCEPT ![b] = Tail(@)]
  /\ eventFIFO' = Tail(eventFIFO)
  /\ confirms' = confirms \cup
       {[bu |-> b, resource |-> Head(requestFIFOs[b]),
         evbId |-> Head(eventFIFO).evbId, lumiSection |-> Head(eventFIFO).lumiSection]}
  /\ UNCHANGED << evmVars, releasedEvbIdFIFO, eolsFIFOs, l1InfoFIFO,
                  completedLumiSectionFIFO, threadVars, allocateClears, lumiSectionMsgs, buVars >>

-----------------------------------------------------------------------------
(***************************************************************************)
(* The L1 information workloop: L1InfoHandler::addLumiSectionInfo.         *)
(***************************************************************************)

\* One round of addSkippedLumiSectionsToFIFO: no event of the LS was seen.
\* The L1 information stays at the head of the queue until it is accounted for.
AnnounceSkippedLumiSection ==
  /\ l1InfoFIFO # << >>
  /\ Head(l1InfoFIFO) > infoLumiSection + 1
  /\ infoLumiSection' = infoLumiSection + 1
  /\ completedLumiSectionFIFO' = Append(completedLumiSectionFIFO, infoLumiSection + 1)
  /\ UNCHANGED << evmVars, eventFIFO, requestFIFOs, releasedEvbIdFIFO, eolsFIFOs, l1InfoFIFO,
                  i2oRequest, i2oRelease, eolsTask, eolsDropped, netVars, buVars >>

AddLumiSectionInfo ==
  /\ l1InfoFIFO # << >>
  /\ Head(l1InfoFIFO) <= infoLumiSection + 1
  /\ l1InfoFIFO' = Tail(l1InfoFIFO)
  /\ infoLumiSection' = IF Head(l1InfoFIFO) > infoLumiSection THEN Head(l1InfoFIFO)
                        ELSE infoLumiSection
  /\ UNCHANGED << evmVars, eventFIFO, requestFIFOs, releasedEvbIdFIFO, eolsFIFOs,
                  completedLumiSectionFIFO, i2oRequest, i2oRelease, eolsTask, eolsDropped,
                  netVars, buVars >>

-----------------------------------------------------------------------------
(***************************************************************************)
(* The EoLS sender workloop: EoLSHandler::EoLSSignalSender and, for each   *)
(* BU, one round of the loop in BUproxy::sendEoLSmsg.                      *)
(***************************************************************************)
TakeCompletedLumiSection ==
  /\ eolsTask.todo = {} /\ eolsTask.copy = {}
  /\ completedLumiSectionFIFO # << >>
  /\ eolsTask' = [lumiSection |-> Head(completedLumiSectionFIFO), todo |-> BUs, copy |-> {}]
  /\ completedLumiSectionFIFO' = Tail(completedLumiSectionFIFO)
  /\ UNCHANGED << evmVars, eventFIFO, requestFIFOs, releasedEvbIdFIFO, eolsFIFOs, l1InfoFIFO,
                  i2oRequest, i2oRelease, infoLumiSection, eolsDropped, netVars, buVars >>

\* The BU has a request queued: the notice answers it.
SendEoLSToRequest(b) ==
  /\ b \in eolsTask.todo /\ eolsTask.copy = {}
  /\ requestFIFOs[b] # << >>
  /\ requestFIFOs' = [requestFIFOs EXCEPT ![b] = Tail(@)]
  /\ lumiSectionMsgs' = lumiSectionMsgs \cup
       {[bu |-> b, resource |-> Head(requestFIFOs[b]), lumiSection |-> eolsTask.lumiSection]}
  /\ eolsTask' = [eolsTask EXCEPT !.todo = @ \ {b}]
  /\ UNCHANGED << evmVars, eventFIFO, releasedEvbIdFIFO, eolsFIFOs, l1InfoFIFO,
                  completedLumiSectionFIFO, i2oRequest, i2oRelease, infoLumiSection,
                  eolsDropped, allocateClears, confirms, buVars >>

\* The BU has none: the mutex is unlocked before the notice is enqueued.
FindNoRequest(b) ==
  /\ b \in eolsTask.todo /\ eolsTask.copy = {}
  /\ requestFIFOs[b] = << >>
  /\ eolsTask' = [eolsTask EXCEPT !.todo = @ \ {b}, !.copy = {b}]
  /\ UNCHANGED << evmVars, fifoVars, i2oRequest, i2oRelease, infoLumiSection, eolsDropped,
                  netVars, buVars >>

EnqueueEoLS(b) ==
  /\ b \in eolsTask.copy
  /\ Len(eolsFIFOs[b]) < EolsFIFOCapacity
  /\ eolsFIFOs' = [eolsFIFOs EXCEPT ![b] = Append(@, eolsTask.lumiSection)]
  /\ eolsTask' = [eolsTask EXCEPT !.copy = {}]
  /\ UNCHANGED << evmVars, eventFIFO, requestFIFOs, releasedEvbIdFIFO, l1InfoFIFO,
                  completedLumiSectionFIFO, i2oRequest, i2oRelease, infoLumiSection,
                  eolsDropped, netVars, buVars >>

\* The queue is full: sendEoLSmsg raises, and the BUs left in the loop are not
\* told either.  EoLSSignalSender logs the exception and goes on.
DropEoLS(b) ==
  /\ b \in eolsTask.copy
  /\ Len(eolsFIFOs[b]) >= EolsFIFOCapacity
  /\ eolsDropped' = eolsDropped \cup ((eolsTask.todo \cup {b}) \X {eolsTask.lumiSection})
  /\ eolsTask' = [eolsTask EXCEPT !.todo = {}, !.copy = {}]
  /\ UNCHANGED << evmVars, fifoVars, i2oRequest, i2oRelease, infoLumiSection, netVars, buVars >>

-----------------------------------------------------------------------------
BuStep(b) ==
  \/ \E r \in Resources : SendEvtIdRqst(b, r) \/ HandleDiscard(b, r)
  \/ ResourceMonitoring(b)

BuReceive ==
  \/ \E m \in confirms : StartConstruction(m)
  \/ \E m \in lumiSectionMsgs : EvmLumisection(m)

I2oThread ==
  \/ \E m \in allocateClears :
       \/ AnswerRequestWithEoLS(m) \/ AcceptRequest(m)
       \/ AcceptRelease(m) \/ DiscardAllocateClear(m)
  \/ \E m \in i2oRequest : EnqueueRequest(m)
  \/ \E m \in i2oRelease : ReleaseEvent(m)

Trigger ==
  \/ RejectMalformedTrigger
  \/ \E n \in EventNumbers, ls \in LumiSections : RejectLumiSection(n, ls) \/ AcceptTrigger(n, ls)

ProcessingWorkloop ==
  \/ ProcessNextReleasedEvent
  \/ SendEoLSsignal
  \/ \E b \in BUs : ServiceBuRqst(b)

L1InfoWorkloop == AnnounceSkippedLumiSection \/ AddLumiSectionInfo

EoLSWorkloop ==
  \/ TakeCompletedLumiSection
  \/ \E b \in BUs : SendEoLSToRequest(b) \/ FindNoRequest(b) \/ EnqueueEoLS(b) \/ DropEoLS(b)

Next ==
  \/ \E b \in BUs : BuStep(b)
  \/ BuReceive
  \/ I2oThread
  \/ Trigger
  \/ ProcessingWorkloop
  \/ L1InfoWorkloop
  \/ EoLSWorkloop

Spec == Init /\ [][Next]_vars

\* Every workloop and the delivery of messages keep running; the trigger and
\* the disk writers' throttling owe nothing.
Fairness ==
  /\ \A b \in BUs, r \in Resources : WF_vars(SendEvtIdRqst(b, r)) /\ WF_vars(HandleDiscard(b, r))
  /\ WF_vars(BuReceive)
  /\ WF_vars(I2oThread)
  /\ WF_vars(ProcessNextReleasedEvent)
  /\ WF_vars(SendEoLSsignal)
  /\ WF_vars(\E b \in BUs : ServiceBuRqst(b))
  /\ WF_vars(L1InfoWorkloop)
  /\ WF_vars(EoLSWorkloop)

FairSpec == Spec /\ Fairness

-----------------------------------------------------------------------------
(***************************************************************************)
(* Safety.                                                                 *)
(***************************************************************************)
Count(p) == IF p THEN 1 ELSE 0

\* Where a resource id can be: requested (on its way to the request queue),
\* queued, given a confirm, given a notice, or holding an event.
Requests == { m \in allocateClears \cup i2oRequest : "REQUEST" \in m.requestType }
Requested(b, r) == \E m \in Requests : m.bu = b /\ m.resource = r
Queued(b, r)    == r \in ToSet(requestFIFOs[b])
Confirmed(b, r) == \E m \in confirms : m.bu = b /\ m.resource = r
Notified(b, r)  == \E m \in lumiSectionMsgs : m.bu = b /\ m.resource = r

SameResource(S) == \A m, n \in S : m.bu = n.bu /\ m.resource = n.resource => m = n

\* A BU's resource id is in exactly one place: it is never requested twice,
\* never given to two events, and never lost (the EVM keeps no record of it, and
\* EventTable::startConstruction only notices a double use after the fact).
ResourceInOnePlace ==
  failure = "none" =>
    /\ \A b \in BUs, r \in Resources :
         Count(r \in freeResourceIds[b]) + Count(r \in DOMAIN data[b]) +
         Count(Requested(b, r)) + Count(Queued(b, r)) +
         Count(Confirmed(b, r)) + Count(Notified(b, r)) = 1
    /\ allocateClears \cap i2oRequest = {}
    /\ SameResource(Requests) /\ SameResource(confirms) /\ SameResource(lumiSectionMsgs)
    /\ \A b \in BUs : IsInjective(requestFIFOs[b])

\* Where the id of an event in the builder can be.
Waiting   == { eventFIFO[i].evbId : i \in DOMAIN eventFIFO }
Travelling == { m.evbId : m \in confirms }
Slots     == { p \in BUs \X Resources : p[2] \in DOMAIN data[p[1]] }
Held      == { data[p[1]][p[2]].evbId : p \in Slots }
Releases  == { m \in allocateClears \cup i2oRequest \cup i2oRelease : "RELEASE" \in m.requestType }
Leaving   == { m.evbId : m \in Releases }
Released  == ToSet(releasedEvbIdFIFO)

\* While the EVM runs, the ids it counts as in the builder are exactly the ids
\* that wait, travel, are held or are on their way back, each once: no event is
\* lost or built twice, and no release is lost or repeated (BUproxy's evbIdMap_).
EventInOnePlace ==
  failure = "none" =>
    /\ DOMAIN evbIdMap = Waiting \cup Travelling \cup Held \cup Leaving \cup Released
    /\ Cardinality(DOMAIN evbIdMap) =
         Len(eventFIFO) + Cardinality(confirms) + Cardinality(Slots)
         + Cardinality(Releases) + Len(releasedEvbIdFIFO)

\* The counters of the EVM agree with its maps: nbEvtsInBuilder_ with evbIdMap_,
\* and lumiSectionMap_ with the number of events of each lumi section; the
\* builder never holds more events than there are event ids.
BuilderAccounting ==
  failure = "none" =>
    /\ nbEvtsInBuilder = Cardinality(DOMAIN evbIdMap)
    /\ nbEvtsInBuilder <= NbEvtIdsInBuilder
    /\ \A ls \in DOMAIN lumiSectionMap :
         lumiSectionMap[ls] = Cardinality({ id \in DOMAIN evbIdMap : evbIdMap[id] = ls })
    /\ \A id \in DOMAIN evbIdMap : evbIdMap[id] # 0 => evbIdMap[id] \in DOMAIN lumiSectionMap

\* Only what the trigger sends can fail the EVM, and nothing the EVM sends fails
\* a BU: the raises of BUproxy, LumiSectionTable, EventTable::startConstruction
\* and LumiHandler for states that must not occur are never reached.
OnlyTriggerFails ==
  /\ failure \in {"none", "Configuration", "LumiSectionDecreased"}
  /\ \A b \in BUs : buFailure[b] = "none"

\* The lumi sections a notice exists of, anywhere between the two producers of
\* completedLumiSectionFIFO and the BUs.
Announced ==
  ToSet(completedLumiSectionFIFO)
  \cup (IF eolsTask.todo \cup eolsTask.copy = {} THEN {} ELSE {eolsTask.lumiSection})
  \cup (UNION { ToSet(eolsFIFOs[b]) \cup closedLS[b] : b \in BUs })
  \cup { m.lumiSection : m \in lumiSectionMsgs }

\* When the end of a lumi section is announced, no event of it is anywhere in the
\* builder and the trigger can send none any more.
NoEventOfAnnouncedLumiSection ==
  \A ls \in Announced :
    /\ ls < currentLumiSection
    /\ \A id \in DOMAIN evbIdMap : evbIdMap[id] # ls
    /\ \A m \in confirms : m.lumiSection # ls
    /\ \A b \in BUs : \A r \in DOMAIN data[b] : data[b][r].lumiSection # ls

\* The notices of a lumi section that are on their way to, or were taken by, a BU.
Notices(b, ls) ==
  { <<"completed", i>> : i \in { j \in DOMAIN completedLumiSectionFIFO :
                                   completedLumiSectionFIFO[j] = ls } }
  \cup { <<"task", x>> : x \in { y \in {b} \cap (eolsTask.todo \cup eolsTask.copy) :
                                   eolsTask.lumiSection = ls } }
  \cup { <<"queue", i>> : i \in { j \in DOMAIN eolsFIFOs[b] : eolsFIFOs[b][j] = ls } }
  \cup { <<"message", m>> : m \in { n \in lumiSectionMsgs : n.bu = b /\ n.lumiSection = ls } }
  \cup { <<"closed", x>> : x \in {ls} \cap closedLS[b] }
  \cup { <<"dropped", x>> : x \in {<<b, ls>>} \cap eolsDropped }

\* A BU is told at most once that a lumi section ended, although two threads
\* announce lumi sections: the one counting events and the one finding gaps.
\* (A second notice makes LumiHandler raise: its summary file exists.)
EoLSAtMostOnce ==
  \A b \in BUs, ls \in 1 .. currentLumiSection : Cardinality(Notices(b, ls)) <= 1

\* "all events in this LS are processed and the trigger is sending a later LS,
\* i.e. no more events for this LS will arrive" (LumiSectionTable.cc): an announced
\* end of a lumi section is neither followed by an event of it nor announced again.
EndOfLumiSectionIsFinal == NoEventOfAnnouncedLumiSection /\ EoLSAtMostOnce

\* "either send it if there's a request or enqueue it to be sent when the next
\* request arrives" (the comment in BUproxy::sendEoLSmsg): with no thread in the
\* middle of an operation, a notice does not wait while the BU's request does.
NoticeNotStranded ==
  (failure = "none" /\ I2oIdle /\ eolsTask.todo \cup eolsTask.copy = {}) =>
    \A b \in BUs : eolsFIFOs[b] = << >> \/ requestFIFOs[b] = << >>

(***************************************************************************)
(* Liveness.                                                               *)
(***************************************************************************)

\* Every event the EVM accepts is built and its id released, unless the trigger
\* takes the EVM to Failed: no request, confirm or release gets stuck.
EveryEventReleased ==
  \A n \in EventNumbers, c \in 0..MaxTriggers :
    LET id == [resyncCount |-> c, eventNumber |-> n]
    IN  (id \in DOMAIN evbIdMap) ~> (id \notin DOMAIN evbIdMap \/ failure # "none")

\* When the trigger has moved to a later lumi section, the end of each earlier one
\* that had events is eventually handed to the EoLS sender.
EveryLumiSectionEnds ==
  \A ls \in LumiSections :
    (ls \in DOMAIN lumiSectionMap /\ ls < currentLumiSection)
      ~> (ls \notin DOMAIN lumiSectionMap \/ failure # "none")
=============================================================================
