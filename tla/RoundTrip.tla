------------------------------ MODULE RoundTrip ------------------------------
(***************************************************************************)
(* An event's way through EVM, RUs and BUs, message by message, after they *)
(* were configured to work with each other.                                *)
(*                                                                         *)
(* The EVM tells the RUs of every trigger and gives the trigger to a BU    *)
(* that asked for an event; the BU asks the RUs for their super-fragments, *)
(* puts the event together, and gives its id back.  Ids and requests are   *)
(* packed into messages that are sent when full or old, and messages to    *)
(* the RUs go to each of them in turn: if one cannot be reached, the       *)
(* sender fails when some have the message and others do not.              *)
(*                                                                         *)
(* The receivers take messages apart element by element, so a connection   *)
(* is a sequence of elements.  A super-fragment is one block, there is     *)
(* always data for a trigger, a built event is discarded at once, and      *)
(* event-builder ids are the numbers of the triggers: BuilderUnit and      *)
(* ReadoutUnit have the details.  After a halt all is configured anew.     *)
(***************************************************************************)
EXTENDS Participants, OneToOneQueueCollection

CONSTANTS
  Setups,             \* zones, and the parameters of one configuration after the other
  NbEvtIdsInBuilder,
  EvBidsPacking,      \* I2O_RU_READOUT_Packing
  RequestsPacking,    \* I2O_RU_SEND_Packing
  AllocatePacking,    \* I2O_EVM_ALLOCATE_CLEAR_Packing
  FIFOCapacity,       \* of evbIdFIFO, triggerFIFO and blockFIFO; eventFIFO has NbEvtIdsInBuilder
  MaxPostFailures     \* bound: RUs that cannot be reached

ASSUME RoundTripAssumption ==
  /\ NbEvtIdsInBuilder \in Nat \ {0} /\ FIFOCapacity \in Nat \ {0} /\ MaxPostFailures \in Nat
  /\ {EvBidsPacking, RequestsPacking, AllocatePacking} \subseteq Nat \ {0}
  \* the protocol is that of one EVM
  /\ \A s \in Setups :
       /\ Cardinality(s.zone.EVM) <= 1
       /\ \A S \in {s.zone.RU, s.zone.BU} : IsFiniteSet(S) /\ S \subseteq Nat
       /\ Len(s.configurations) \in Nat
       /\ \A i \in 1 .. Len(s.configurations) :
            LET c == s.configurations[i]
            IN c.resources \in Nat /\ IsRuParameters(c.evm) /\ IsRuParameters(c.bu) /\ IsList(c.smInstances)

VARIABLES
  setup, configuration,   \* the applications there are, and how often they were configured
  mode,                   \* "Halted", "Enabled", or "Failed" when one could not be configured
  evmRUs, sms,            \* RUproxy and SMproxy of the EVM
  buRUs,                  \* RUproxy of each BU
  failures,               \* the applications that failed since, and why
  \* the EVM
  nbTriggers, readout, eventFIFO, requestFIFOs, releasedEvbIdFIFO, evbIdMap,
  \* the RUs
  evbIdFIFO, data, requests,
  \* the BUs
  evtIdRqsts, triggerFIFO, rqstForFrags, blockFIFO, events, built,
  \* the connections: from the EVM to an RU, from a BU to the EVM and back, from a BU to an RU and back
  toRU, toEVM, confirms, rqsts, blocks,
  passed, joined          \* what happened while a request of a BU waits: the events given to other BUs, and the
                          \* queues created for other BUs

participants == << setup, configuration, mode, evmRUs, sms, buRUs >>
evmVars == << nbTriggers, readout, eventFIFO, requestFIFOs, releasedEvbIdFIFO, evbIdMap, passed, joined >>
ruVars  == << evbIdFIFO, data, requests >>
buVars  == << evtIdRqsts, triggerFIFO, rqstForFrags, blockFIFO, events, built >>
netVars == << toRU, toEVM, confirms, rqsts, blocks >>
vars    == << participants, failures, evmVars, ruVars, buVars, netVars >>

RUs == setup.zone.RU
BUs == setup.zone.BU
Parameters == setup.configurations[configuration]
BuiltEvents == { e.evbId : e \in built }
Empty(S) == [x \in S |-> << >>]

Init ==
  /\ setup \in Setups /\ configuration = 0 /\ mode = "Halted" /\ failures = {}
  /\ evmRUs = NoRUs /\ sms = NoSMs /\ buRUs = [b \in BUs |-> NoRUs]
  /\ nbTriggers = 0 /\ readout = << >> /\ eventFIFO = << >> /\ requestFIFOs = EmptyCollection
  /\ releasedEvbIdFIFO = << >> /\ evbIdMap = {}
  /\ passed = [b \in BUs |-> 0] /\ joined = [b \in BUs |-> 0]
  /\ evbIdFIFO = Empty(RUs) /\ data = [u \in RUs |-> {}] /\ requests = [u \in RUs |-> {}]
  /\ evtIdRqsts = Empty(BUs) /\ triggerFIFO = Empty(BUs) /\ rqstForFrags = Empty(BUs)
  /\ blockFIFO = Empty(BUs) /\ events = Empty(BUs) /\ built = {}
  /\ toRU = Empty(RUs) /\ toEVM = Empty(BUs) /\ confirms = Empty(BUs)
  /\ rqsts = [u \in RUs |-> Empty(BUs)] /\ blocks = [b \in BUs |-> Empty(RUs)]

-----------------------------------------------------------------------------
(* Configuring: every application looks for its peers and clears what is left *)
(* of the last run; it fails if a peer is not there.                         *)

Configurable(p, evm, storage, bus) ==
  /\ evm.ok /\ storage.ok /\ \A b \in BUs : bus[b].ok
  /\ EvmsOfBU(setup.zone, p) # {} /\ RuFindsBUs(setup.zone) /\ RuiFindsRU(setup.zone, p)

\* EVMproxy::sendEvtIdRqstAndOrRelease of a BU, when processing starts: a request for each resource.
FirstRequests(resources) == [i \in 1..resources |-> [resource |-> i, release |-> 0]]
Posted(n) == n - (n % AllocatePacking)

Configure ==
  /\ mode = "Halted" /\ configuration < Len(setup.configurations)
  /\ configuration' = configuration + 1
  /\ LET p == setup.configurations[configuration + 1]
         n == Posted(p.resources)
         first == FirstRequests(p.resources)
     IN /\ evmRUs' = ParticipatingRUs(setup.zone, evmRUs, p.evm)
        /\ sms' = ParticipatingSMs(setup.zone, p)
        /\ buRUs' = [b \in BUs |-> ParticipatingRUs(setup.zone, buRUs[b], p.bu)]
        /\ mode' = IF Configurable(p, evmRUs', sms', buRUs') THEN "Enabled" ELSE "Failed"
        /\ toEVM' = [b \in BUs |-> IF mode' = "Enabled" THEN SubSeq(first, 1, n) ELSE << >>]
        /\ evtIdRqsts' = [b \in BUs |-> IF mode' = "Enabled" THEN SubSeq(first, n + 1, p.resources) ELSE << >>]
  /\ requestFIFOs' = Drained(requestFIFOs)
  /\ passed' = [b \in BUs |-> 0] /\ joined' = [b \in BUs |-> 0]
  /\ readout' = << >> /\ rqstForFrags' = Empty(BUs)
  /\ UNCHANGED << setup, failures, nbTriggers, eventFIFO, releasedEvbIdFIFO, evbIdMap, ruVars,
                  triggerFIFO, blockFIFO, events, built, toRU, confirms, rqsts, blocks >>

\* The run is halted when nothing is under way any more.
Halt ==
  /\ mode = "Enabled" /\ configuration < Len(setup.configurations)
  /\ nbTriggers = Parameters.triggers /\ BuiltEvents = 1 .. nbTriggers /\ evbIdMap = {}
  /\ toEVM = Empty(BUs) /\ failures = {}
  /\ mode' = "Halted"
  /\ UNCHANGED << setup, configuration, evmRUs, sms, buRUs, failures, evmVars, ruVars, buVars, netVars >>

-----------------------------------------------------------------------------
Evm   == << "EVM", 0 >>
Ru(u) == << "RU", u >>
Bu(b) == << "BU", b >>

Works(app) == mode = "Enabled" /\ app \notin { f.app : f \in failures }
Fail(app, why) == failures' = failures \cup {[app |-> app, why |-> why]}
PostsFailed == Cardinality({ f \in failures : f.why = "post" })

\* RUbroadcaster::sendToAllRUs.  The RUs are in the order of the addresses of their descriptors:
\* any of them may have been reached before the one that is not.
Reachable(app, rus) ==
  { reached \in SUBSET rus : reached = rus \/ PostsFailed < MaxPostFailures }

-----------------------------------------------------------------------------
(* The EVM. *)

SendEvBidsToAllRUs(msg, reached) ==
  toRU' = [u \in RUs |-> IF u \in reached THEN toRU[u] \o msg ELSE toRU[u]]

AddEvBid(evbId, reached) ==
  LET msg == Append(readout, evbId)
  IN IF Len(msg) = EvBidsPacking
     THEN /\ SendEvBidsToAllRUs(msg, reached)
          /\ readout' = IF reached = evmRUs.participatingRUs THEN << >> ELSE msg
     ELSE readout' = msg /\ UNCHANGED toRU

\* A trigger: the RUs are told, then the event waits for a BU.
TakeTrigger ==
  /\ Works(Evm) /\ nbTriggers < Parameters.triggers /\ Cardinality(evbIdMap) < NbEvtIdsInBuilder
  /\ nbTriggers' = nbTriggers + 1
  /\ \E reached \in Reachable(Evm, evmRUs.participatingRUs) :
       /\ AddEvBid(nbTriggers', reached)
       /\ IF reached # evmRUs.participatingRUs /\ Len(readout) + 1 = EvBidsPacking
          THEN Fail(Evm, "post") /\ UNCHANGED << evbIdMap, eventFIFO >>
          ELSE /\ reached = evmRUs.participatingRUs
               /\ evbIdMap' = evbIdMap \cup {nbTriggers'}
               /\ IF Len(eventFIFO) < NbEvtIdsInBuilder
                  THEN eventFIFO' = Append(eventFIFO, nbTriggers') /\ UNCHANGED failures
                  ELSE Fail(Evm, "eventFIFO") /\ UNCHANGED eventFIFO
  /\ UNCHANGED << participants, requestFIFOs, releasedEvbIdFIFO, passed, joined, ruVars, buVars,
                  toEVM, confirms, rqsts, blocks >>

\* Faulty variant: ids are only sent in full messages.
SendOldEvBids_OnlyFull ==
  /\ Works(Evm) /\ Len(readout) = EvBidsPacking
  /\ SendEvBidsToAllRUs(readout, evmRUs.participatingRUs) /\ readout' = << >>
  /\ UNCHANGED << participants, failures, nbTriggers, eventFIFO, requestFIFOs, releasedEvbIdFIFO, evbIdMap,
                  passed, joined, ruVars, buVars, toEVM, confirms, rqsts, blocks >>

\* The timer of the message under construction has fired.
SendOldEvBids ==
  /\ Works(Evm) /\ readout # << >>
  /\ \E reached \in Reachable(Evm, evmRUs.participatingRUs) :
       /\ SendEvBidsToAllRUs(readout, reached)
       /\ IF reached = evmRUs.participatingRUs
          THEN readout' = << >> /\ UNCHANGED failures
          ELSE Fail(Evm, "post") /\ UNCHANGED readout
  /\ UNCHANGED << participants, nbTriggers, eventFIFO, requestFIFOs, releasedEvbIdFIFO, evbIdMap, passed, joined,
                  ruVars, buVars, toEVM, confirms, rqsts, blocks >>

Waits(b) == Elements(requestFIFOs, b) # << >>

\* BUproxy::I2Ocallback: there is always room for the requests of a BU's resources.
AllocateClear(b) ==
  /\ mode = "Enabled" /\ toEVM[b] # << >>
  /\ LET e == Head(toEVM[b])
     IN /\ requestFIFOs' = Enq(requestFIFOs, b, e.resource)
        /\ releasedEvbIdFIFO' = IF e.release = 0 THEN releasedEvbIdFIFO ELSE Append(releasedEvbIdFIFO, e.release)
  /\ joined' = [o \in BUs |-> IF b \in DOMAIN requestFIFOs.queues \/ ~ Waits(o) THEN joined[o] ELSE joined[o] + 1]
  /\ toEVM' = [toEVM EXCEPT ![b] = Tail(@)]
  /\ UNCHANGED << participants, failures, nbTriggers, readout, eventFIFO, evbIdMap, passed, ruVars, buVars,
                  toRU, confirms, rqsts, blocks >>

ProcessNextReleasedEvent ==
  /\ Works(Evm) /\ releasedEvbIdFIFO # << >>
  /\ releasedEvbIdFIFO' = Tail(releasedEvbIdFIFO)
  /\ IF Head(releasedEvbIdFIFO) \in evbIdMap
     THEN evbIdMap' = evbIdMap \ {Head(releasedEvbIdFIFO)} /\ UNCHANGED failures
     ELSE Fail(Evm, "unknown evb id") /\ UNCHANGED evbIdMap
  /\ UNCHANGED << participants, nbTriggers, readout, eventFIFO, requestFIFOs, passed, joined, ruVars, buVars, netVars >>

ServiceBuRqst ==
  /\ Works(Evm) /\ eventFIFO # << >> /\ CanDeq(requestFIFOs)
  /\ LET rqst == IF Parameters.assignRoundRobin THEN RoundRobin(requestFIFOs) ELSE FromFullest(requestFIFOs)
         b    == rqst.index
     IN /\ requestFIFOs' = rqst.rest
        /\ confirms' = [confirms EXCEPT ![b] = Append(@, [evbId |-> Head(eventFIFO), resource |-> rqst.element])]
        /\ passed' = [o \in BUs |-> IF o = b \/ ~ Waits(o) THEN 0 ELSE passed[o] + 1]
        /\ joined' = [joined EXCEPT ![b] = 0]
  /\ eventFIFO' = Tail(eventFIFO)
  /\ UNCHANGED << participants, failures, nbTriggers, readout, releasedEvbIdFIFO, evbIdMap, ruVars, buVars,
                  toRU, toEVM, rqsts, blocks >>

-----------------------------------------------------------------------------
(* An RU. *)

\* EVMproxy::I2Ocallback waits for room.
RuReadout(u) ==
  /\ mode = "Enabled" /\ toRU[u] # << >> /\ Len(evbIdFIFO[u]) < FIFOCapacity
  /\ evbIdFIFO' = [evbIdFIFO EXCEPT ![u] = Append(@, Head(toRU[u]))]
  /\ toRU' = [toRU EXCEPT ![u] = Tail(@)]
  /\ UNCHANGED << participants, failures, evmVars, data, requests, buVars, toEVM, confirms, rqsts, blocks >>

SendData(u, request) ==
  blocks' = [blocks EXCEPT ![request.bu][u] =
               Append(@, [evbId |-> request.evbId, resource |-> request.resource])]

\* The super-fragment of the next trigger goes to the table, or to the BU that has asked for it.
ProcessTrigger(u) ==
  /\ Works(Ru(u)) /\ evbIdFIFO[u] # << >>
  /\ evbIdFIFO' = [evbIdFIFO EXCEPT ![u] = Tail(@)]
  /\ LET evbId == Head(evbIdFIFO[u])
         asked == { r \in requests[u] : r.evbId = evbId }
     IN IF evbId \in data[u] THEN Fail(Ru(u), "super-fragment twice") /\ UNCHANGED << data, requests, blocks >>
        ELSE IF asked = {} THEN data' = [data EXCEPT ![u] = @ \cup {evbId}] /\ UNCHANGED << failures, requests, blocks >>
        ELSE /\ \E r \in asked : SendData(u, r)
             /\ requests' = [requests EXCEPT ![u] = @ \ asked]
             /\ UNCHANGED << failures, data >>
  /\ UNCHANGED << participants, evmVars, buVars, toRU, toEVM, confirms, rqsts >>

\* BUproxy::I2Ocallback.
RuSend(u, b) ==
  /\ Works(Ru(u)) /\ rqsts[u][b] # << >>
  /\ rqsts' = [rqsts EXCEPT ![u][b] = Tail(@)]
  /\ LET r == [bu |-> b, evbId |-> Head(rqsts[u][b]).evbId, resource |-> Head(rqsts[u][b]).resource]
     IN IF \E q \in requests[u] : q.evbId = r.evbId
        THEN Fail(Ru(u), "request twice") /\ UNCHANGED << data, requests, blocks >>
        ELSE IF r.evbId \in data[u]
        THEN SendData(u, r) /\ data' = [data EXCEPT ![u] = @ \ {r.evbId}] /\ UNCHANGED << failures, requests >>
        ELSE requests' = [requests EXCEPT ![u] = @ \cup {r}] /\ UNCHANGED << failures, data, blocks >>
  /\ UNCHANGED << participants, evmVars, evbIdFIFO, buVars, toRU, toEVM, confirms >>

-----------------------------------------------------------------------------
(* A BU. *)

\* EVMproxy::I2Ocallback and RUproxy::I2Ocallback wait for room.
BuConfirm(b) ==
  /\ mode = "Enabled" /\ confirms[b] # << >> /\ Len(triggerFIFO[b]) < FIFOCapacity
  /\ triggerFIFO' = [triggerFIFO EXCEPT ![b] = Append(@, Head(confirms[b]))]
  /\ confirms' = [confirms EXCEPT ![b] = Tail(@)]
  /\ UNCHANGED << participants, failures, evmVars, ruVars, evtIdRqsts, rqstForFrags, blockFIFO, events, built,
                  toRU, toEVM, rqsts, blocks >>

BuCache(b, u) ==
  /\ mode = "Enabled" /\ blocks[b][u] # << >> /\ Len(blockFIFO[b]) < FIFOCapacity
  /\ blockFIFO' = [blockFIFO EXCEPT ![b] = Append(@, [ru |-> u, evbId |-> Head(blocks[b][u]).evbId,
                                                     resource |-> Head(blocks[b][u]).resource])]
  /\ blocks' = [blocks EXCEPT ![b][u] = Tail(@)]
  /\ UNCHANGED << participants, failures, evmVars, ruVars, evtIdRqsts, triggerFIFO, rqstForFrags, events, built,
                  toRU, toEVM, confirms, rqsts >>

\* EVMproxy::sendEvtIdRqstAndOrRelease.
SendEvtIdRqst(b, element) ==
  LET msg == Append(evtIdRqsts[b], element)
  IN IF Len(msg) = AllocatePacking
     THEN toEVM' = [toEVM EXCEPT ![b] = @ \o msg] /\ evtIdRqsts' = [evtIdRqsts EXCEPT ![b] = << >>]
     ELSE evtIdRqsts' = [evtIdRqsts EXCEPT ![b] = msg] /\ UNCHANGED toEVM

\* The trigger counts as a super-fragment.
Event(trigger, superFragments, nbComplete, nbExpected) ==
  [evbId |-> trigger.evbId, resource |-> trigger.resource, superFragments |-> superFragments,
   nbCompleteSuperFragments |-> nbComplete, nbExpectedSuperFragments |-> nbExpected]

\* A complete event is discarded, its resource and its id go back to the EVM.
CheckForCompleteEvent(b, event) ==
  IF event.nbCompleteSuperFragments = event.nbExpectedSuperFragments
  THEN /\ built' = built \cup {[run |-> configuration, evbId |-> event.evbId,
                                superFragments |-> event.superFragments]}
       /\ events' = [events EXCEPT ![b] = [r \in DOMAIN @ \ {event.resource} |-> @[r]]]
       /\ SendEvtIdRqst(b, [resource |-> event.resource, release |-> event.evbId])
  ELSE /\ events' = [events EXCEPT ![b] = [r \in DOMAIN @ \cup {event.resource} |->
                                             IF r = event.resource THEN event ELSE @[r]]]
       /\ UNCHANGED << built, evtIdRqsts, toEVM >>

\* RUproxy::requestDataForTrigger.
RequestDataForTrigger(b, trigger, reached) ==
  LET msg == Append(rqstForFrags[b], trigger)
  IN IF Len(msg) = RequestsPacking
     THEN /\ rqsts' = [u \in RUs |-> IF u \in reached THEN [rqsts[u] EXCEPT ![b] = @ \o msg] ELSE rqsts[u]]
          /\ IF reached = buRUs[b].participatingRUs
             THEN rqstForFrags' = [rqstForFrags EXCEPT ![b] = << >>] /\ UNCHANGED failures
             ELSE Fail(Bu(b), "post") /\ rqstForFrags' = [rqstForFrags EXCEPT ![b] = msg]
     ELSE /\ reached = buRUs[b].participatingRUs
          /\ rqstForFrags' = [rqstForFrags EXCEPT ![b] = msg] /\ UNCHANGED << rqsts, failures >>

StartConstruction(b) ==
  /\ Works(Bu(b)) /\ triggerFIFO[b] # << >>
  /\ triggerFIFO' = [triggerFIFO EXCEPT ![b] = Tail(@)]
  /\ LET t == Head(triggerFIFO[b])
     IN IF t.resource \in DOMAIN events[b]
        THEN Fail(Bu(b), "slot occupied") /\ UNCHANGED << events, built, evtIdRqsts, toEVM, rqstForFrags, rqsts >>
        ELSE /\ CheckForCompleteEvent(b, Event(t, {}, 1, buRUs[b].ruCount + 1))
             /\ IF buRUs[b].ruCount > 0
                THEN \E reached \in Reachable(Bu(b), buRUs[b].participatingRUs) : RequestDataForTrigger(b, t, reached)
                ELSE UNCHANGED << rqstForFrags, rqsts, failures >>
  /\ UNCHANGED << participants, evmVars, ruVars, blockFIFO, toRU, confirms, blocks >>

AppendSuperFragment(b) ==
  /\ Works(Bu(b)) /\ blockFIFO[b] # << >>
  /\ blockFIFO' = [blockFIFO EXCEPT ![b] = Tail(@)]
  /\ LET block == Head(blockFIFO[b])
     IN IF block.resource \notin DOMAIN events[b]
        THEN Fail(Bu(b), "not under construction") /\ UNCHANGED << events, built, evtIdRqsts, toEVM >>
        ELSE /\ LET event == events[b][block.resource]
                IN CheckForCompleteEvent(b,
                     Event(event, event.superFragments \cup {[ru |-> block.ru, evbId |-> block.evbId]},
                           event.nbCompleteSuperFragments + 1, event.nbExpectedSuperFragments))
             /\ UNCHANGED failures
  /\ UNCHANGED << participants, evmVars, ruVars, triggerFIFO, rqstForFrags, toRU, confirms, rqsts, blocks >>

\* BU::sendOldMessages.
SendOldEvmRequests(b) ==
  /\ Works(Bu(b)) /\ evtIdRqsts[b] # << >>
  /\ toEVM' = [toEVM EXCEPT ![b] = @ \o evtIdRqsts[b]] /\ evtIdRqsts' = [evtIdRqsts EXCEPT ![b] = << >>]
  /\ UNCHANGED << participants, failures, evmVars, ruVars, triggerFIFO, rqstForFrags, blockFIFO, events, built,
                  toRU, confirms, rqsts, blocks >>

SendOldRuRequests(b) ==
  /\ Works(Bu(b)) /\ rqstForFrags[b] # << >>
  /\ \E reached \in Reachable(Bu(b), buRUs[b].participatingRUs) :
       /\ rqsts' = [u \in RUs |-> IF u \in reached THEN [rqsts[u] EXCEPT ![b] = @ \o rqstForFrags[b]] ELSE rqsts[u]]
       /\ IF reached = buRUs[b].participatingRUs
          THEN rqstForFrags' = [rqstForFrags EXCEPT ![b] = << >>] /\ UNCHANGED failures
          ELSE Fail(Bu(b), "post") /\ UNCHANGED rqstForFrags
  /\ UNCHANGED << participants, evmVars, ruVars, evtIdRqsts, triggerFIFO, blockFIFO, events, built,
                  toRU, toEVM, confirms, blocks >>

-----------------------------------------------------------------------------
Messages ==
  \/ TakeTrigger \/ SendOldEvBids \/ ProcessNextReleasedEvent \/ ServiceBuRqst
  \/ \E u \in RUs : RuReadout(u) \/ ProcessTrigger(u) \/ \E b \in BUs : RuSend(u, b) \/ BuCache(b, u)
  \/ \E b \in BUs : \/ AllocateClear(b) \/ BuConfirm(b) \/ StartConstruction(b) \/ AppendSuperFragment(b)
                    \/ SendOldEvmRequests(b) \/ SendOldRuRequests(b)

Next ==
  \/ Configure \/ Halt
  \/ TakeTrigger \/ SendOldEvBids \/ ProcessNextReleasedEvent \/ ServiceBuRqst
  \/ \E u \in RUs : RuReadout(u)
  \/ \E u \in RUs : ProcessTrigger(u)
  \/ \E u \in RUs, b \in BUs : RuSend(u, b)
  \/ \E u \in RUs, b \in BUs : BuCache(b, u)
  \/ \E b \in BUs : AllocateClear(b)
  \/ \E b \in BUs : BuConfirm(b)
  \/ \E b \in BUs : StartConstruction(b)
  \/ \E b \in BUs : AppendSuperFragment(b)
  \/ \E b \in BUs : SendOldEvmRequests(b)
  \/ \E b \in BUs : SendOldRuRequests(b)

Spec == Init /\ [][Next]_vars

\* The work loops and callbacks go on, and so do the timers of old messages.
FairSpec == Spec /\ WF_vars(Messages)

-----------------------------------------------------------------------------
\* What the parameters ask for: the items and ranges of the last definition of the fragment set,
\* or the list of RUs.
AskedRUs(p) ==
  IF p.useFragmentSet
  THEN LET file == p.fragmentSets
           last == file[Max({ i \in DOMAIN file : file[i].id = p.fragmentSetId })].children
       IN { u \in RUs : \E i \in DOMAIN last :
              \/ last[i].kind = "item" /\ last[i].value = u
              \/ last[i].kind = "range" /\ u \in last[i].min .. last[i].max }
  ELSE Range(p.ruInstances)
Agreed == AskedRUs(Parameters.evm) = AskedRUs(Parameters.bu)

\* The applications work with exactly the peers that the present parameters ask for, whatever
\* they worked with before: a peer asked for and not there, or asked for twice, is never
\* passed over (RUbroadcaster, SMproxy).
ConfiguredAsAsked ==
  mode = "Enabled" =>
    /\ evmRUs.participatingRUs = AskedRUs(Parameters.evm) /\ AskedRUs(Parameters.evm) \subseteq RUs
    /\ \A b \in BUs : buRUs[b].participatingRUs = AskedRUs(Parameters.bu) /\ AskedRUs(Parameters.bu) \subseteq RUs
    /\ sms.participatingSMs = IF Parameters.autoDiscoverSM THEN setup.zone.SM ELSE Range(Parameters.smInstances)
    /\ Len(Parameters.evm.ruInstances) > Cardinality(AskedRUs(Parameters.evm)) => Parameters.evm.useFragmentSet

\* An event that was built holds the super-fragment of its own trigger from each of the RUs that
\* its BU was told to ask, and of no other, although messages are packed, requests and
\* super-fragments overtake each other, and a broadcast may have reached a part of the RUs;
\* and nobody ever fails for a message that comes twice or for nothing.
BuiltFromAllRUs ==
  /\ \A e \in built :
       e.superFragments = [ru : AskedRUs(setup.configurations[e.run].bu), evbId : {e.evbId}]
  /\ \A f \in failures : f.why = "post"

\* With assignRoundRobin a BU that waits is passed over at most once by each other BU, and as
\* often again for each queue that is created meanwhile, since a new queue takes the turn.
RoundRobinIsFair ==
  configuration > 0 /\ Parameters.assignRoundRobin =>
    \A b \in BUs : passed[b] <= (joined[b] + 1) * (Cardinality(BUs) - 1)

\* When EVM and BUs were told the same RUs and none is out of reach, every trigger becomes an
\* event, its id comes back to the EVM and nothing is left in the RUs, although no more
\* triggers come to fill the last messages.
EverythingBuilt ==
  <>[](mode = "Enabled" /\ Agreed /\ failures = {} =>
         /\ nbTriggers = Parameters.triggers /\ BuiltEvents = 1 .. nbTriggers /\ evbIdMap = {}
         /\ \A u \in RUs : data[u] = {} /\ requests[u] = {})
=============================================================================
