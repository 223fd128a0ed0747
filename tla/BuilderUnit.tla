------------------------------ MODULE BuilderUnit ------------------------------
(***************************************************************************)
(* A builder unit (BU) owns a fixed set of resources.  For each it asks    *)
(* the EVM for an event, gets the event's trigger, asks all RUs for their  *)
(* super-fragments, and when all have arrived passes the event on: to disk *)
(* (DiskWriter), to a filter unit (FU), or nowhere.  When the event is     *)
(* discarded, the resource is released and asked for again, unless the     *)
(* disks are too full.  Instead of an event the EVM may send the end of a  *)
(* lumi section, which also uses up a resource.                            *)
(*                                                                         *)
(* Threads: the I2O callbacks of the EVM, the RUs and the FUs; the BU's    *)
(* workloop (BU::doWork and sendOldMessages), the event table's workloop   *)
(* (EventTable::process), the disk writer's workloops and its resource     *)
(* monitoring.  Each operation of the event table holds its mutex, and so  *)
(* does each use of a message under construction.                          *)
(*                                                                         *)
(* The EVM is reduced to what EventIdProtocol shows of it: it serves the   *)
(* requests in order, with each event once, and ends a lumi section when   *)
(* all its events are released.                                            *)
(***************************************************************************)
EXTENDS DiskWriter

CONSTANTS
  RUs,
  NbBlocks,                \* RU -> the blocks of its super-fragments
  Outputs,                 \* which of "disk", "FU", "drop" are configured
  EvmPacking, RuPacking,   \* I2O_EVM_ALLOCATE_CLEAR_Packing, I2O_RU_SEND_Packing
  TriggerFIFOCapacity, BlockFIFOCapacity,
  MaxFuRequests            \* bound: requests of the FUs that are not served yet

ASSUME BuilderAssumption ==
  /\ IsFiniteSet(RUs) /\ NbBlocks \in [RUs -> Nat \ {0}]
  /\ Outputs \subseteq {"disk", "FU", "drop"}
  /\ EvmPacking \in Nat \ {0} /\ RuPacking \in Nat \ {0}
  /\ TriggerFIFOCapacity \in Nat \ {0} /\ BlockFIFOCapacity \in Nat \ {0}
  /\ MaxFuRequests \in Nat

VARIABLES
  output,                  \* writeEventsToDisk and dropEventData
  \* the event table
  requestEvents, freeResourceIdFIFO,
  data,                    \* resource -> the event under construction
  completeEventsFIFO, discardFIFO,
  \* the proxies
  evtIdRqstsAndOrReleases, \* the message to the EVM under construction
  triggerFIFO,
  rqstForFrags,            \* the message to the RUs under construction
  blockFIFO,
  nbFuRequests, atFU,
  \* the network and the peers
  nextEvent, requests, released, endedLS,   \* EVM
  fromEVM,
  ruRequests,              \* RU -> the requests it has not answered
  fromRU,                  \* RU -> its blocks on the network
  failure

tableVars == << requestEvents, freeResourceIdFIFO, data, completeEventsFIFO, discardFIFO >>
evmMsgVars == << evtIdRqstsAndOrReleases, requests, released >>
evmVars   == << nextEvent, endedLS, fromEVM >>
ruVars    == << rqstForFrags, ruRequests, fromRU, blockFIFO >>
fuVars    == << nbFuRequests, atFU >>
vars == << output, tableVars, evmMsgVars, evmVars, triggerFIFO, ruVars, fuVars, failure, diskVars >>

\* An event, with the blocks received from each RU, in order.
Block     == [ru : RUs, resource : ResourceIds, evbId : Events, blockNb : Nat]
Event     == [evbId : Events, blocks : [RUs -> Seq(Events \X Nat)], nbCompleteSuperFragments : Nat]
\* A release carries the event's id, a request none (event 0).
EvtIdRqstAndOrRelease ==
  [type : SUBSET {"REQUEST", "RELEASE"}, resource : ResourceIds, evbId : {0} \cup Events]
\* The message to the EVM: the resources its elements ask an event for, in order, and
\* the events they release.  The EVM treats the one apart from the other.
EvtIdRqstsAndOrReleases == [asked : Seq(ResourceIds), freed : SUBSET Events, nbElements : Nat]
NoElements == [asked |-> << >>, freed |-> {}, nbElements |-> 0]
\* The EVM's messages: a trigger (I2O_BU_CONFIRM) or the end of a lumi section.
EvmMessage == [resource : ResourceIds, evbId : Events, lumiSection : {0}]
                \cup [resource : ResourceIds, evbId : {0}, lumiSection : 1..LumiSections]

TableTypeOK ==
  /\ output \in Outputs /\ requestEvents \in BOOLEAN
  /\ freeResourceIdFIFO \in Seq(ResourceIds)
  /\ IsMap(data, ResourceIds, Event)
  /\ completeEventsFIFO \in Seq(ResourceIds) /\ discardFIFO \in Seq(ResourceIds)

ProxyTypeOK ==
  /\ evtIdRqstsAndOrReleases \in EvtIdRqstsAndOrReleases
  /\ evtIdRqstsAndOrReleases.nbElements < EvmPacking
  /\ triggerFIFO \in Seq(EventPtr) /\ Len(triggerFIFO) <= TriggerFIFOCapacity
  /\ rqstForFrags \in Seq(EventPtr) /\ Len(rqstForFrags) < RuPacking
  /\ blockFIFO \in Seq(Block) /\ Len(blockFIFO) <= BlockFIFOCapacity
  /\ nbFuRequests \in 0..MaxFuRequests /\ atFU \subseteq ResourceIds

PeerTypeOK ==
  /\ nextEvent \in 1..(MaxEvents + 1) /\ endedLS \in 0..LumiSections
  /\ requests \in Seq(ResourceIds) /\ released \subseteq Events
  /\ fromEVM \in Seq(EvmMessage)
  /\ ruRequests \in [RUs -> SUBSET EventPtr] /\ fromRU \in [RUs -> Seq(Block)]
  /\ failure \in {"none", "SlotOccupied", "NotUnderConstruction", "NonExistingEvent"}

\* These are as long as there are resources: nobody waits for room in them.
QueuesHaveRoom ==
  /\ Len(freeResourceIdFIFO) <= NbResources
  /\ Len(completeEventsFIFO) <= NbResources /\ Len(discardFIFO) <= NbResources
  /\ Len(eventFIFO) <= NbResources /\ Len(fileHandlerAndEventFIFO) <= NbResources

TypeOK == DiskTypeOK /\ TableTypeOK /\ ProxyTypeOK /\ PeerTypeOK

\* Configured and enabled: all resource ids are free (startProcessing).  Disks are
\* checked only when events are written to them.
Init ==
  /\ output \in Outputs
  /\ requestEvents = TRUE
  /\ freeResourceIdFIFO = [r \in ResourceIds |-> r]
  /\ data = << >> /\ completeEventsFIFO = << >> /\ discardFIFO = << >>
  /\ evtIdRqstsAndOrReleases = NoElements /\ triggerFIFO = << >>
  /\ rqstForFrags = << >> /\ blockFIFO = << >>
  /\ nbFuRequests = 0 /\ atFU = {}
  /\ nextEvent = 1 /\ requests = << >> /\ released = {} /\ endedLS = 0
  /\ fromEVM = << >>
  /\ ruRequests = [u \in RUs |-> {}] /\ fromRU = [u \in RUs |-> << >>]
  /\ failure = "none"
  /\ DiskInit

\* An exception takes the BU to Failed, where it does nothing any more.
Running == failure = "none"

-----------------------------------------------------------------------------
(***************************************************************************)
(* Messages to the EVM (EVMproxy): packed, and sent when full or old.      *)
(***************************************************************************)

Packed(msg, element) ==
  [asked |-> IF "REQUEST" \in element.type THEN Append(msg.asked, element.resource) ELSE msg.asked,
   freed |-> IF "RELEASE" \in element.type THEN msg.freed \cup {element.evbId} ELSE msg.freed,
   nbElements |-> msg.nbElements + 1]

PostToEVM(msg) ==
  /\ requests' = requests \o msg.asked
  /\ released' = released \cup msg.freed
  /\ evtIdRqstsAndOrReleases' = NoElements

SendEvtIdRqstAndOrRelease(element) ==
  LET msg == Packed(evtIdRqstsAndOrReleases, element)
  IN IF msg.nbElements = EvmPacking THEN PostToEVM(msg)
     ELSE evtIdRqstsAndOrReleases' = msg /\ UNCHANGED << requests, released >>

\* sendOldMessages on the BU's workloop: the aging timer may have fired.
SendOldEvmRequests ==
  /\ Running
  /\ evtIdRqstsAndOrReleases.nbElements > 0
  /\ PostToEVM(evtIdRqstsAndOrReleases)
  /\ UNCHANGED << output, tableVars, evmVars, triggerFIFO, ruVars, fuVars, failure, diskVars >>

-----------------------------------------------------------------------------
(***************************************************************************)
(* Requests to the RUs (RUproxy), packed in the same way.                  *)
(***************************************************************************)

SendToAllRUs(msg) ==
  /\ ruRequests' = [u \in RUs |-> ruRequests[u] \cup Range(msg)]
  /\ rqstForFrags' = << >>

RequestDataForTrigger(trigger) ==
  LET msg == Append(rqstForFrags, trigger)
  IN IF Len(msg) = RuPacking THEN SendToAllRUs(msg)
     ELSE rqstForFrags' = msg /\ UNCHANGED ruRequests

\* Faulty variant: an old message waits until it is full.
SendOldRuRequests_OnlyFull ==
  /\ Running
  /\ Len(rqstForFrags) = RuPacking
  /\ SendToAllRUs(rqstForFrags)
  /\ UNCHANGED << output, tableVars, evmMsgVars, evmVars, triggerFIFO, fromRU, blockFIFO,
                  fuVars, failure, diskVars >>

SendOldRuRequests ==
  /\ Running
  /\ rqstForFrags # << >>
  /\ SendToAllRUs(rqstForFrags)
  /\ UNCHANGED << output, tableVars, evmMsgVars, evmVars, triggerFIFO, fromRU, blockFIFO,
                  fuVars, failure, diskVars >>

-----------------------------------------------------------------------------
(***************************************************************************)
(* The EVM and the RUs.                                                    *)
(***************************************************************************)

\* The EVM gives the oldest request the next event...
AssignEvent ==
  /\ requests # << >> /\ nextEvent <= MaxEvents
  /\ fromEVM' = Append(fromEVM, [resource |-> Head(requests), evbId |-> nextEvent, lumiSection |-> 0])
  /\ requests' = Tail(requests) /\ nextEvent' = nextEvent + 1
  /\ UNCHANGED << output, tableVars, evtIdRqstsAndOrReleases, released, endedLS, triggerFIFO,
                  ruVars, fuVars, failure, diskVars >>

\* Faulty variant: events of the lumi section that are still in the builder are ignored.
EndLumiSection_IgnoresEventsInFlight ==
  /\ requests # << >> /\ endedLS < LumiSections
  /\ \A n \in Events : LumiSection[n] <= endedLS + 1 => n < nextEvent
  /\ endedLS' = endedLS + 1
  /\ fromEVM' = Append(fromEVM, [resource |-> Head(requests), evbId |-> 0, lumiSection |-> endedLS'])
  /\ requests' = Tail(requests)
  /\ UNCHANGED << output, tableVars, evtIdRqstsAndOrReleases, released, nextEvent, triggerFIFO,
                  ruVars, fuVars, failure, diskVars >>

\* ... or the end of a lumi section none of whose events is left in the builder.
EndLumiSection ==
  /\ requests # << >> /\ endedLS < LumiSections
  /\ \A n \in Events : LumiSection[n] <= endedLS + 1 => n \in released
  /\ endedLS' = endedLS + 1
  /\ fromEVM' = Append(fromEVM, [resource |-> Head(requests), evbId |-> 0, lumiSection |-> endedLS'])
  /\ requests' = Tail(requests)
  /\ UNCHANGED << output, tableVars, evtIdRqstsAndOrReleases, released, nextEvent, triggerFIFO,
                  ruVars, fuVars, failure, diskVars >>

\* An RU answers a request, with all blocks of the event's super-fragment.
AnswerRequest(u) ==
  /\ \E t \in ruRequests[u] :
       /\ ruRequests' = [ruRequests EXCEPT ![u] = @ \ {t}]
       /\ fromRU' = [fromRU EXCEPT ![u] = @ \o
            [i \in 1..NbBlocks[u] |-> [ru |-> u, resource |-> t.resource, evbId |-> t.evbId, blockNb |-> i]]]
  /\ UNCHANGED << output, tableVars, evmMsgVars, evmVars, triggerFIFO, rqstForFrags, blockFIFO,
                  fuVars, failure, diskVars >>

-----------------------------------------------------------------------------
(***************************************************************************)
(* The I2O callbacks.  Each waits until there is room in its queue.        *)
(***************************************************************************)

\* EVMproxy::I2Ocallback.
ReceiveTrigger ==
  /\ Running
  /\ fromEVM # << >> /\ Head(fromEVM).evbId # 0
  /\ Len(triggerFIFO) < TriggerFIFOCapacity
  /\ triggerFIFO' = Append(triggerFIFO, [resource |-> Head(fromEVM).resource, evbId |-> Head(fromEVM).evbId])
  /\ fromEVM' = Tail(fromEVM)
  /\ UNCHANGED << output, tableVars, evmMsgVars, nextEvent, endedLS, ruVars, fuVars, failure, diskVars >>

\* Faulty variant: the disk writer is not told.
EvmLumisection_NotClosed ==
  /\ Running
  /\ fromEVM # << >> /\ Head(fromEVM).evbId = 0
  /\ SendEvtIdRqstAndOrRelease([type |-> {"REQUEST"}, resource |-> Head(fromEVM).resource, evbId |-> 0])
  /\ fromEVM' = Tail(fromEVM)
  /\ UNCHANGED << output, tableVars, nextEvent, endedLS, triggerFIFO, ruVars, fuVars, failure, diskVars >>

\* StateMachine::evmLumisection: the resource is used to ask for an event again. The
\* broadcast of the message to the FUs, before anything else, changes nothing here.
EvmLumisection ==
  /\ Running
  /\ fromEVM # << >> /\ Head(fromEVM).evbId = 0
  /\ IF output = "disk" THEN CloseLS(Head(fromEVM).lumiSection) ELSE UNCHANGED diskVars
  /\ SendEvtIdRqstAndOrRelease([type |-> {"REQUEST"}, resource |-> Head(fromEVM).resource, evbId |-> 0])
  /\ fromEVM' = Tail(fromEVM)
  /\ UNCHANGED << output, tableVars, nextEvent, endedLS, triggerFIFO, ruVars, fuVars, failure >>

\* RUproxy::I2Ocallback, one block of the chain after the other.
ReceiveBlock(u) ==
  /\ Running
  /\ fromRU[u] # << >> /\ Len(blockFIFO) < BlockFIFOCapacity
  /\ blockFIFO' = Append(blockFIFO, Head(fromRU[u]))
  /\ fromRU' = [fromRU EXCEPT ![u] = Tail(@)]
  /\ UNCHANGED << output, tableVars, evmMsgVars, evmVars, triggerFIFO, rqstForFrags, ruRequests,
                  fuVars, failure, diskVars >>

\* FUproxy::allocateI2Ocallback.
ReceiveFuRequest ==
  /\ Running
  /\ output = "FU" /\ nbFuRequests < MaxFuRequests
  /\ nbFuRequests' = nbFuRequests + 1
  /\ UNCHANGED << output, tableVars, evmMsgVars, evmVars, triggerFIFO, ruVars, atFU, failure, diskVars >>

\* FUproxy::discardI2Ocallback.
FuDiscard(r) ==
  /\ Running
  /\ r \in atFU
  /\ atFU' = atFU \ {r}
  /\ discardFIFO' = Append(discardFIFO, r)
  /\ UNCHANGED << output, requestEvents, freeResourceIdFIFO, data, completeEventsFIFO, evmMsgVars,
                  evmVars, triggerFIFO, ruVars, nbFuRequests, failure, diskVars >>

-----------------------------------------------------------------------------
(***************************************************************************)
(* The BU's workloop, BU::doWork.                                          *)
(***************************************************************************)

\* The EVM's super-fragment counts as the first one.
IsComplete(event) == event.nbCompleteSuperFragments = Cardinality(RUs) + 1

\* Faulty variant: a dropped event is passed on too.
CheckForCompleteEvent_AlwaysQueued(r) ==
  IF ~ IsComplete(data'[r]) THEN UNCHANGED << completeEventsFIFO, discardFIFO >>
  ELSE /\ IF output = "drop" THEN discardFIFO' = Append(discardFIFO, r) ELSE UNCHANGED discardFIFO
       /\ completeEventsFIFO' = Append(completeEventsFIFO, r)

CheckForCompleteEvent(r) ==
  IF ~ IsComplete(data'[r]) THEN UNCHANGED << completeEventsFIFO, discardFIFO >>
  ELSE IF output = "drop"
       THEN discardFIFO' = Append(discardFIFO, r) /\ UNCHANGED completeEventsFIFO
       ELSE completeEventsFIFO' = Append(completeEventsFIFO, r) /\ UNCHANGED discardFIFO

Raise(what) == failure' = what /\ UNCHANGED << data, completeEventsFIFO, discardFIFO >>

\* startConstruction, then the request of the data.
StartConstruction ==
  /\ Running
  /\ triggerFIFO # << >>
  /\ LET t == Head(triggerFIFO)
     IN IF t.resource \in DOMAIN data
        THEN Raise("SlotOccupied") /\ UNCHANGED << rqstForFrags, ruRequests >>
        ELSE /\ data' = Insert(data, t.resource,
                  [evbId |-> t.evbId, blocks |-> [u \in RUs |-> << >>], nbCompleteSuperFragments |-> 1])
             /\ CheckForCompleteEvent(t.resource)
             /\ IF RUs # {} THEN RequestDataForTrigger(t) ELSE UNCHANGED << rqstForFrags, ruRequests >>
             /\ UNCHANGED failure
  /\ triggerFIFO' = Tail(triggerFIFO)
  /\ UNCHANGED << output, requestEvents, freeResourceIdFIFO, evmMsgVars, evmVars, fromRU, blockFIFO,
                  fuVars, diskVars >>

\* Faulty variant: every block completes a super-fragment.
WithBlock_EachCompletes(event, b) ==
  [event EXCEPT !.blocks[b.ru] = Append(@, << b.evbId, b.blockNb >>),
                !.nbCompleteSuperFragments = @ + 1]

\* Event::appendSuperFragment.  Only the resource says which event a block is for.
WithBlock(event, b) ==
  [event EXCEPT !.blocks[b.ru] = Append(@, << b.evbId, b.blockNb >>),
                !.nbCompleteSuperFragments = @ + (IF b.blockNb = NbBlocks[b.ru] THEN 1 ELSE 0)]

AppendSuperFragment ==
  /\ Running
  /\ blockFIFO # << >>
  /\ LET b == Head(blockFIFO)
     IN IF b.resource \notin DOMAIN data THEN Raise("NotUnderConstruction")
        ELSE /\ data' = [data EXCEPT ![b.resource] = WithBlock(@, b)]
             /\ CheckForCompleteEvent(b.resource)
             /\ UNCHANGED failure
  /\ blockFIFO' = Tail(blockFIFO)
  /\ UNCHANGED << output, requestEvents, freeResourceIdFIFO, evmMsgVars, evmVars, triggerFIFO,
                  rqstForFrags, ruRequests, fromRU, fuVars, diskVars >>

-----------------------------------------------------------------------------
(***************************************************************************)
(* The event table's workloop, EventTable::process.  It polls for free     *)
(* resources, discards and complete events in this order, but each may     *)
(* show up just after its poll: any of them may be served next.            *)
(***************************************************************************)

SendEvtIdRqsts ==
  /\ Running
  /\ requestEvents /\ freeResourceIdFIFO # << >>
  /\ SendEvtIdRqstAndOrRelease([type |-> {"REQUEST"}, resource |-> Head(freeResourceIdFIFO), evbId |-> 0])
  /\ freeResourceIdFIFO' = Tail(freeResourceIdFIFO)
  /\ UNCHANGED << output, requestEvents, data, completeEventsFIFO, discardFIFO, evmVars, triggerFIFO,
                  ruVars, fuVars, failure, diskVars >>

\* freeEventAndGetReleaseMsg, and the message to the EVM.
FreeEvent(r) ==
  /\ SendEvtIdRqstAndOrRelease([type |-> {"RELEASE"} \cup (IF requestEvents THEN {"REQUEST"} ELSE {}),
                                resource |-> r, evbId |-> data[r].evbId])
  /\ freeResourceIdFIFO' = IF requestEvents THEN freeResourceIdFIFO ELSE Append(freeResourceIdFIFO, r)
  /\ data' = Erase(data, r)

HandleDiscards ==
  /\ Running
  /\ discardFIFO # << >>
  /\ IF Head(discardFIFO) \in DOMAIN data
     THEN FreeEvent(Head(discardFIFO)) /\ UNCHANGED failure
     ELSE failure' = "NonExistingEvent" /\ UNCHANGED << evmMsgVars, freeResourceIdFIFO, data >>
  /\ discardFIFO' = Tail(discardFIFO)
  /\ UNCHANGED << output, requestEvents, completeEventsFIFO, evmVars, triggerFIFO, ruVars, fuVars, diskVars >>

EventOf(r) == [resource |-> r, evbId |-> data[r].evbId]

WriteNextCompleteEvent ==
  /\ Running
  /\ output = "disk" /\ completeEventsFIFO # << >>
  /\ WriteEvent(EventOf(Head(completeEventsFIFO)))
  /\ completeEventsFIFO' = Tail(completeEventsFIFO)
  /\ UNCHANGED << output, requestEvents, freeResourceIdFIFO, data, discardFIFO, evmMsgVars, evmVars,
                  triggerFIFO, ruVars, fuVars, failure >>

SendNextCompleteEventToFU ==
  /\ Running
  /\ output = "FU" /\ completeEventsFIFO # << >> /\ nbFuRequests > 0
  /\ atFU' = atFU \cup {Head(completeEventsFIFO)}
  /\ nbFuRequests' = nbFuRequests - 1
  /\ completeEventsFIFO' = Tail(completeEventsFIFO)
  /\ UNCHANGED << output, requestEvents, freeResourceIdFIFO, data, discardFIFO, evmMsgVars, evmVars,
                  triggerFIFO, ruVars, failure, diskVars >>

-----------------------------------------------------------------------------
\* A writer is done with its event (EventTable::discardEvent).
DiscardEvent(w) ==
  /\ Running
  /\ DiscardWritten(w)
  /\ discardFIFO' = Append(discardFIFO, writing[w].event.resource)
  /\ UNCHANGED << output, requestEvents, freeResourceIdFIFO, data, completeEventsFIFO, evmMsgVars,
                  evmVars, triggerFIFO, ruVars, fuVars, failure >>

OnlyDisk ==
  /\ Running
  /\ UNCHANGED << output, tableVars, evmMsgVars, evmVars, triggerFIFO, ruVars, fuVars, failure >>

\* The workloops of the disk writer.
WriteToDisks ==
  \/ HandleEvents /\ OnlyDisk
  \/ HandleEoLS /\ OnlyDisk
  \/ \E w \in Writers :
       \/ TakeEvent(w) /\ OnlyDisk
       \/ LeaveWriting(w) /\ OnlyDisk
       \/ WriteToDisk(w) /\ OnlyDisk
       \/ ReadEventCount(w) /\ OnlyDisk
       \/ StoreEventCount(w) /\ OnlyDisk

\* DiskWriter::resourceMonitoring: the disks fill up, or are cleaned.
ResourceMonitoring ==
  /\ Running
  /\ output = "disk"
  /\ requestEvents' = ~ requestEvents
  /\ UNCHANGED << output, freeResourceIdFIFO, data, completeEventsFIFO, discardFIFO, evmMsgVars,
                  evmVars, triggerFIFO, ruVars, fuVars, failure, diskVars >>

-----------------------------------------------------------------------------
Evm == AssignEvent \/ EndLumiSection
DoWork == StartConstruction \/ AppendSuperFragment
SendOldMessages == SendOldEvmRequests \/ SendOldRuRequests
TableProcess == SendEvtIdRqsts \/ HandleDiscards \/ WriteNextCompleteEvent \/ SendNextCompleteEventToFU

Next ==
  \/ Evm \/ ReceiveTrigger \/ EvmLumisection
  \/ \E u \in RUs : AnswerRequest(u) \/ ReceiveBlock(u)
  \/ ReceiveFuRequest \/ \E r \in ResourceIds : FuDiscard(r)
  \/ DoWork \/ SendOldMessages \/ TableProcess
  \/ WriteToDisks \/ \E w \in Writers : DiscardEvent(w)
  \/ ResourceMonitoring

Spec == Init /\ [][Next]_vars

\* The network delivers, the BU's threads run, the RUs answer, and the FUs ask for
\* events and discard them.  Messages grow old.
FairSpec ==
  /\ Spec
  /\ WF_vars(ReceiveTrigger) /\ WF_vars(EvmLumisection)
  /\ \A u \in RUs : WF_vars(AnswerRequest(u))
  /\ \A u \in RUs : WF_vars(ReceiveBlock(u))
  /\ WF_vars(ReceiveFuRequest)
  /\ \A r \in ResourceIds : WF_vars(FuDiscard(r))
  /\ WF_vars(StartConstruction) /\ WF_vars(AppendSuperFragment)
  /\ WF_vars(SendOldEvmRequests) /\ WF_vars(SendOldRuRequests)
  /\ WF_vars(HandleDiscards)
  /\ WF_vars(WriteNextCompleteEvent)
  /\ WF_vars(SendNextCompleteEventToFU)
  /\ WF_vars(WriteToDisks)
  /\ \A w \in Writers : WF_vars(DiscardEvent(w))

-----------------------------------------------------------------------------
\* A resource is at exactly one place: free, asked for, at the EVM, on its way back
\* with a trigger or an end of lumi section, or with an event in the table.
AtPlace(r, p) ==
  \/ p = "free"    /\ r \in Range(freeResourceIdFIFO)
  \/ p = "message" /\ r \in Range(evtIdRqstsAndOrReleases.asked)
  \/ p = "EVM"     /\ r \in Range(requests)
  \/ p = "network" /\ \E i \in DOMAIN fromEVM : fromEVM[i].resource = r
  \/ p = "trigger" /\ \E i \in DOMAIN triggerFIFO : triggerFIFO[i].resource = r
  \/ p = "table"   /\ r \in DOMAIN data
Places == {"free", "message", "EVM", "network", "trigger", "table"}
ResourceInOnePlace ==
  \A r \in ResourceIds : \E p \in Places : \A q \in Places : AtPlace(r, q) <=> q = p

\* An event is passed on when it is complete and not before, and then it is at
\* exactly one place until its slot is free: complete, with the disk writer, at a
\* FU, or discarded.
AtOutput(r, p) ==
  \/ p = "complete" /\ r \in Range(completeEventsFIFO)
  \/ p = "toDisk"   /\ \E i \in DOMAIN eventFIFO : eventFIFO[i].resource = r
  \/ p = "inFile"   /\ \E i \in DOMAIN fileHandlerAndEventFIFO : fileHandlerAndEventFIFO[i].event.resource = r
  \/ p = "writer"   /\ \E w \in Writers : writing[w].at \in {"write", "count", "store", "discard"}
                                              /\ writing[w].event.resource = r
  \/ p = "FU"       /\ r \in atFU
  \/ p = "discard"  /\ r \in Range(discardFIFO)
OutputPlaces == {"complete", "toDisk", "inFile", "writer", "FU", "discard"}
CompleteEventInOnePlace ==
  \A r \in ResourceIds :
    IF r \in DOMAIN data /\ IsComplete(data[r])
    THEN \E p \in OutputPlaces : \A q \in OutputPlaces : AtOutput(r, q) <=> q = p
    ELSE \A q \in OutputPlaces : ~ AtOutput(r, q)

\* Neither a resource nor a complete event is lost or used twice between the threads
\* of the BU, the EVM and the FUs, so that its queues always have room.
NothingLostOrDoubled == ResourceInOnePlace /\ CompleteEventInOnePlace

\* A complete event has all blocks of all RUs, in order, and no block of another
\* event, although blocks are matched by the resource only.
EventsAreWhole ==
  \A r \in DOMAIN data : IsComplete(data[r]) =>
    \A u \in RUs : data[r].blocks[u] = [i \in 1..NbBlocks[u] |-> << data[r].evbId, i >>]

\* The end of a lumi section counts all its events, and they are on disk by then.
EoLSCountsAllEvents ==
  \A ls \in DOMAIN eolsJSON :
    LET inLS == { n \in Events : LumiSection[n] = ls }
    IN /\ eolsJSON[ls].events = Cardinality(inLS)
       /\ inLS = UNION { files[f].events : f \in { g \in DOMAIN files : g.lumiSection = ls } }

\* The resource of every event the BU is given comes back to the EVM.
EveryEventReleased == \A n \in Events : nextEvent > n ~> n \in released

\* The end of a lumi section reaches the disk.
EveryEoLSOnDisk == \A ls \in 1..LumiSections : (output = "disk" /\ endedLS >= ls) ~> ls \in DOMAIN eolsJSON
=============================================================================
