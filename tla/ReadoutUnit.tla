----------------------------- MODULE ReadoutUnit -----------------------------
(***************************************************************************)
(* A readout unit (RU) matches three streams that arrive in any order      *)
(* relative to each other: the event-builder ids of the triggers (from the *)
(* EVM), the event data (from its input) and the requests for fragments    *)
(* (from the builder units).                                               *)
(*                                                                         *)
(* Threads: the I2O callbacks of the three streams, and the processing     *)
(* workloop (RU::process), which takes one trigger id at a time, waits for *)
(* the next super-fragment and files it in the SuperFragmentTable.  The    *)
(* table is protected by a mutex, each of its operations is one step.      *)
(*                                                                         *)
(* The input (RUinput's handler) is one of                                 *)
(*   "FBO"    a super-fragment arrives as a chain of blocks,               *)
(*   "FEROL"  the callback merges the fragments of the FEDs by EvBid,      *)
(*   "FEROL2" the workloop merges them, from one queue for each FED,       *)
(*   "Local"  super-fragments are made up for the trigger id.              *)
(*                                                                         *)
(* An event is known by the position k of its trigger in the run: that is  *)
(* what a fragment really belongs to, whatever id it is given.             *)
(***************************************************************************)
EXTENDS EvBidFactory, FiniteSets, Sequences

CONSTANTS
  InputSources,      \* the values of the parameter inputSource
  Feds,              \* fedSourceIds: the FEDs expected in a super-fragment
  StrangeFeds,       \* FEDs that send although they are not expected
  NbBlocks,          \* FBO: the blocks of a super-fragment
  TriggerNumbers,    \* the event numbers of the run's triggers
  EvbIdFIFOCapacity,
  BlockFIFOCapacity,
  TimeoutEnabled,    \* maxPairAgeMSec > 0
  MaxFaults          \* bound: fragments lost, repeated or sent by a strange FED

ASSUME InputAssumption ==
  /\ InputSources \subseteq {"FBO", "FEROL", "FEROL2", "Local"}
  /\ IsFiniteSet(Feds) /\ Feds \subseteq Nat \ {0} /\ Feds # {}
  /\ StrangeFeds \subseteq Nat \ {0} /\ StrangeFeds \cap Feds = {}
  /\ NbBlocks \in Nat \ {0}
  /\ TriggerNumbers \in Seq(Nat)
  /\ TimeoutEnabled \in BOOLEAN /\ MaxFaults \in Nat

VARIABLES
  inputSource,             \* the handler Configure chose
  \* the sources
  evmFactory, nbTriggers,  \* of the EVM
  issued,                  \* the id the EVM gave to trigger k
  nextEvent,               \* source -> the event it sends next
  faults,                  \* what the sources did wrong so far
  \* messages on the network
  readoutMsgs, requestMsgs,
  sent,                    \* the super-fragments sent to the BUs
  \* the RU
  evbIdFIFO,
  evbIdFactories,          \* source -> the factory that identifies its fragments
  superFragmentMap,        \* FEROL: EvBid -> the fragments received so far
  superFragmentHead,       \* FBO: the blocks received so far
  blockFIFO,               \* FBO, FEROL: the complete super-fragments
  fedFragmentFIFOs,        \* FEROL2: FED -> its fragments
  workloop,                \* where the processing workloop is
  data, requests,          \* the SuperFragmentTable
  nbSuperFragmentsReady,
  fsm,                     \* the state of the RU
  failure                  \* why it failed

evmVars    == << evmFactory, nbTriggers, issued >>
sourceVars == << nextEvent, faults >>
inputVars  == << evbIdFactories, superFragmentMap, superFragmentHead, blockFIFO, fedFragmentFIFOs >>
tableVars  == << data, requests, nbSuperFragmentsReady, sent >>
fsmVars    == << fsm, failure >>
vars == << inputSource, evmVars, sourceVars, inputVars, tableVars, fsmVars,
           readoutMsgs, requestMsgs, evbIdFIFO, workloop >>

Events    == 1..Len(TriggerNumbers)
\* An FBO is source 0, and its fragments are numbered blocks.
Sources   == {0} \cup Feds \cup StrangeFeds
Active    == IF inputSource = "FBO" THEN {0} ELSE IF inputSource = "Local" THEN {} ELSE Feds
Parts     == IF inputSource = "FBO" THEN 1..NbBlocks ELSE Feds
Fragments == (1..NbBlocks \cup Feds) \X Events
WholeEvent(k) == { <<p, k>> : p \in Parts }
Faults    == [source : Sources, event : Events, kind : {"lost", "repeated", "strange"}]

\* What FEROLproxy and FBOproxy queue: the fragments and the id of the first.
SuperFragment == [evbId : EvBid, fragments : SUBSET Fragments]
\* The workloop waits for a trigger, for the data of trigger evbId, or, with an error it
\* has found, for the exclusive lock of the state machine.
Errors   == {"MismatchDetectedBackPressuring", "TimedOutBackPressuring"}
Workloop == [at : {"trigger", "data", "stopped"} \cup Errors, evbId : EvBid, fragments : SUBSET Fragments]
NoEvBid  == [resyncCount |-> 0, eventNumber |-> 0]
AtTrigger == [at |-> "trigger", evbId |-> NoEvBid, fragments |-> {}]
Stopped   == [at |-> "stopped", evbId |-> NoEvBid, fragments |-> {}]
HoldsTrigger == workloop.at \in {"data"} \cup Errors

IsMap(f, S, T)  == DOMAIN f \subseteq S /\ f \in [DOMAIN f -> T]
Insert(f, k, v) == [x \in DOMAIN f \cup {k} |-> IF x = k THEN v ELSE f[x]]
Erase(f, k)     == [x \in DOMAIN f \ {k} |-> f[x]]

SourceTypeOK ==
  /\ inputSource \in InputSources
  /\ evmFactory \in Factory
  /\ nbTriggers \in 0..Len(TriggerNumbers)
  /\ issued \in Seq(EvBid) /\ Len(issued) = nbTriggers
  /\ nextEvent \in [Sources -> 1..(Len(TriggerNumbers) + 1)]
  /\ faults \subseteq Faults

InputTypeOK ==
  /\ evbIdFactories \in [Sources -> Factory]
  /\ IsMap(superFragmentMap, EvBid, SUBSET Fragments)
  /\ superFragmentHead \in Seq(Fragments)
  /\ blockFIFO \in Seq(SuperFragment)
  /\ fedFragmentFIFOs \in [Sources -> Seq(Events)]

TableTypeOK ==
  /\ IsMap(data, EvBid, SUBSET Fragments)
  /\ requests \subseteq EvBid
  /\ nbSuperFragmentsReady \in Nat
  /\ IsMap(sent, EvBid, SUBSET Fragments)

ControlTypeOK ==
  /\ readoutMsgs \in Seq(EvBid) /\ requestMsgs \subseteq EvBid
  /\ evbIdFIFO \in Seq(EvBid)
  /\ workloop \in Workloop
  /\ fsm \in {"Enabled", "MismatchDetectedBackPressuring", "TimedOutBackPressuring", "Failed"}
  /\ failure \in {"none", "duplicatedFed", "unexpectedFed", "duplicateData", "duplicateRequest"}

TypeOK == SourceTypeOK /\ InputTypeOK /\ TableTypeOK /\ ControlTypeOK

Init ==
  /\ inputSource \in InputSources
  /\ evmFactory = NewEvBidFactory /\ nbTriggers = 0 /\ issued = << >>
  /\ nextEvent = [s \in Sources |-> 1] /\ faults = {}
  /\ readoutMsgs = << >> /\ requestMsgs = {} /\ sent = << >>
  /\ evbIdFIFO = << >>
  /\ evbIdFactories = [s \in Sources |-> NewEvBidFactory]
  /\ superFragmentMap = << >> /\ superFragmentHead = << >> /\ blockFIFO = << >>
  /\ fedFragmentFIFOs = [s \in Sources |-> << >>]
  /\ workloop = AtTrigger
  /\ data = << >> /\ requests = {} /\ nbSuperFragmentsReady = 0
  /\ fsm = "Enabled" /\ failure = "none"

-----------------------------------------------------------------------------
(* The sources: the EVM and the front-end. *)

\* The EVM gives trigger k its id, sends the id to the RUs and confirms it to a
\* BU, which requests the super-fragments.
IssueTrigger ==
  /\ nbTriggers < Len(TriggerNumbers)
  /\ LET number == TriggerNumbers[nbTriggers + 1]
         evbId  == GetEvBid(evmFactory, number)
     IN /\ evmFactory' = AfterGetEvBid(evmFactory, number)
        /\ issued' = Append(issued, evbId)
        /\ readoutMsgs' = Append(readoutMsgs, evbId)
        /\ requestMsgs' = requestMsgs \cup {evbId}
  /\ nbTriggers' = nbTriggers + 1
  /\ UNCHANGED << inputSource, sourceVars, inputVars, tableVars, fsmVars, evbIdFIFO, workloop >>

Fail(reason) == fsm' = "Failed" /\ failure' = reason /\ workloop' = Stopped

\* FBOproxy: the callback waits while blockFIFO_ is full.
FboI2Ocallback(k) ==
  LET chain == Append(superFragmentHead, <<Len(superFragmentHead) + 1, k>>)
  IN /\ IF Len(chain) = NbBlocks
        THEN /\ Len(blockFIFO) < BlockFIFOCapacity
             /\ blockFIFO' = Append(blockFIFO,
                  [evbId |-> NoEvBid, fragments |-> { chain[i] : i \in DOMAIN chain }])
             /\ superFragmentHead' = << >>
        ELSE superFragmentHead' = chain /\ UNCHANGED blockFIFO
     /\ UNCHANGED << evbIdFactories, superFragmentMap, fedFragmentFIFOs, fsmVars, workloop >>

\* Faulty variant: the FEDs are merged by event number, resyncs are ignored.
IdOfFragment_NoResync(s, k) == [resyncCount |-> 0, eventNumber |-> TriggerNumbers[k]]

\* evbIdFactories_[fedId].getEvBid(eventNumber)
IdOfFragment(s, k) == GetEvBid(evbIdFactories[s], TriggerNumbers[k])

\* FEROLproxy: a fragment joins the super-fragment of its EvBid.
FerolI2Ocallback(s, k) ==
  LET evbId  == IdOfFragment(s, k)
      before == IF evbId \in DOMAIN superFragmentMap THEN superFragmentMap[evbId] ELSE {}
      after  == before \cup {<<s, k>>}
  IN /\ evbIdFactories' = [evbIdFactories EXCEPT ![s] = AfterGetEvBid(@, TriggerNumbers[k])]
     /\ IF s \notin Feds \/ \E f \in before : f[1] = s
        THEN /\ superFragmentMap' = Insert(superFragmentMap, evbId, before)
             /\ Fail(IF s \notin Feds THEN "duplicatedFed" ELSE "unexpectedFed")
             /\ UNCHANGED blockFIFO
        ELSE /\ IF { f[1] : f \in after } = Feds
                THEN /\ Len(blockFIFO) < BlockFIFOCapacity
                     /\ blockFIFO' = Append(blockFIFO, [evbId |-> evbId, fragments |-> after])
                     /\ superFragmentMap' = Erase(superFragmentMap, evbId)
                ELSE /\ superFragmentMap' = Insert(superFragmentMap, evbId, after)
                     /\ UNCHANGED blockFIFO
             /\ UNCHANGED << fsmVars, workloop >>
     /\ UNCHANGED << superFragmentHead, fedFragmentFIFOs >>

\* FEROL2proxy: a fragment is queued for its FED.
Ferol2I2Ocallback(s, k) ==
  /\ IF s \notin Feds
     THEN Fail("unexpectedFed") /\ UNCHANGED fedFragmentFIFOs
     ELSE /\ Len(fedFragmentFIFOs[s]) < BlockFIFOCapacity
          /\ fedFragmentFIFOs' = [fedFragmentFIFOs EXCEPT ![s] = Append(@, k)]
          /\ UNCHANGED << fsmVars, workloop >>
  /\ UNCHANGED << evbIdFactories, superFragmentMap, superFragmentHead, blockFIFO >>

\* RUinput::I2Ocallback.  It ignores what arrives while the RU is not Enabled.
I2Ocallback(s, k) ==
  /\ fsm = "Enabled" /\ k \in Events
  /\ \/ inputSource = "FBO"    /\ FboI2Ocallback(k)
     \/ inputSource = "FEROL"  /\ FerolI2Ocallback(s, k)
     \/ inputSource = "FEROL2" /\ Ferol2I2Ocallback(s, k)
  /\ UNCHANGED << inputSource, evmVars, tableVars, readoutMsgs, requestMsgs, evbIdFIFO >>

\* The data of an event are all sent when the last block is, for an FBO.
Finishes == inputSource = "FBO" => Len(superFragmentHead) + 1 = NbBlocks
Starts   == superFragmentHead = << >>

SendFragment(s) ==
  /\ s \in Active
  /\ I2Ocallback(s, nextEvent[s])
  /\ nextEvent' = [nextEvent EXCEPT ![s] = IF Finishes THEN @ + 1 ELSE @]
  /\ UNCHANGED faults

\* The faults: a source sends a fragment twice, loses one, or should not send.
Blame(s, k, kind) ==
  /\ Cardinality(faults) < MaxFaults
  /\ faults' = faults \cup {[source |-> s, event |-> k, kind |-> kind]}

RepeatFragment(s) ==
  /\ s \in Active /\ Finishes
  /\ I2Ocallback(s, nextEvent[s])
  /\ Blame(s, nextEvent[s], "repeated")
  /\ UNCHANGED nextEvent

StrangeFragment(s, k) ==
  /\ s \in StrangeFeds /\ inputSource \in {"FEROL", "FEROL2"}
  /\ I2Ocallback(s, k)
  /\ Blame(s, k, "strange")
  /\ UNCHANGED nextEvent

LoseFragment(s) ==
  /\ s \in Active /\ Starts /\ fsm = "Enabled"
  /\ nextEvent[s] \in Events
  /\ Blame(s, nextEvent[s], "lost")
  /\ nextEvent' = [nextEvent EXCEPT ![s] = @ + 1]
  /\ UNCHANGED << inputSource, evmVars, inputVars, tableVars, fsmVars,
                  readoutMsgs, requestMsgs, evbIdFIFO, workloop >>

-----------------------------------------------------------------------------
(* The I2O callbacks for the EVM's ids and the BUs' requests. *)

\* EVMproxy::I2Ocallback waits while evbIdFIFO_ is full; Outermost discards the
\* message once the RU failed.
ReceiveReadout ==
  /\ readoutMsgs # << >>
  /\ IF fsm = "Failed" THEN UNCHANGED evbIdFIFO
     ELSE /\ Len(evbIdFIFO) < EvbIdFIFOCapacity
          /\ evbIdFIFO' = Append(evbIdFIFO, Head(readoutMsgs))
  /\ readoutMsgs' = Tail(readoutMsgs)
  /\ UNCHANGED << inputSource, evmVars, sourceVars, inputVars, tableVars, fsmVars, requestMsgs, workloop >>

\* Faulty variant: the data found are not removed from the table.
AddRequest_KeepData(id) ==
  IF id \in DOMAIN data
  THEN /\ sent' = Insert(sent, id, data[id])
       /\ nbSuperFragmentsReady' = nbSuperFragmentsReady - 1
       /\ UNCHANGED << data, requests, fsmVars, workloop >>
  ELSE /\ requests' = requests \cup {id}
       /\ UNCHANGED << data, nbSuperFragmentsReady, sent, fsmVars, workloop >>

\* SuperFragmentTable::addRequest
AddRequest(id) ==
  IF id \in requests
  THEN Fail("duplicateRequest") /\ UNCHANGED tableVars
  ELSE IF id \in DOMAIN data
  THEN /\ sent' = Insert(sent, id, data[id])
       /\ data' = Erase(data, id)
       /\ nbSuperFragmentsReady' = nbSuperFragmentsReady - 1
       /\ UNCHANGED << requests, fsmVars, workloop >>
  ELSE /\ requests' = requests \cup {id}
       /\ UNCHANGED << data, nbSuperFragmentsReady, sent, fsmVars, workloop >>

ReceiveRequest(id) ==
  /\ id \in requestMsgs
  /\ requestMsgs' = requestMsgs \ {id}
  /\ IF fsm = "Failed" THEN UNCHANGED << tableVars, fsmVars, workloop >> ELSE AddRequest(id)
  /\ UNCHANGED << inputSource, evmVars, sourceVars, inputVars, readoutMsgs, evbIdFIFO >>

-----------------------------------------------------------------------------
(* The processing workloop. *)

GetTrigEvBid ==
  /\ workloop.at = "trigger" /\ evbIdFIFO # << >>
  /\ workloop' = [at |-> "data", evbId |-> Head(evbIdFIFO), fragments |-> {}]
  /\ evbIdFIFO' = Tail(evbIdFIFO)
  /\ UNCHANGED << inputSource, evmVars, sourceVars, inputVars, tableVars, fsmVars, readoutMsgs, requestMsgs >>

\* Faulty variants: a request that came first is not looked for, is left in the
\* table, or its data are not counted before they are sent.
AddEvBidAndBlock_IgnoreRequest(id, fragments) ==
  /\ data' = Insert(data, id, fragments)
  /\ nbSuperFragmentsReady' = nbSuperFragmentsReady + 1
  /\ workloop' = AtTrigger
  /\ UNCHANGED << requests, sent, fsmVars >>

AddEvBidAndBlock_KeepRequest(id, fragments) ==
  /\ IF id \in requests
     THEN sent' = Insert(sent, id, fragments) /\ UNCHANGED << data, nbSuperFragmentsReady >>
     ELSE /\ data' = Insert(data, id, fragments)
          /\ nbSuperFragmentsReady' = nbSuperFragmentsReady + 1
          /\ UNCHANGED sent
  /\ workloop' = AtTrigger
  /\ UNCHANGED << requests, fsmVars >>
AddEvBidAndBlock_NotCounted(id, fragments) ==
  /\ IF id \in requests
     THEN /\ sent' = Insert(sent, id, fragments)
          /\ requests' = requests \ {id}
          /\ nbSuperFragmentsReady' = nbSuperFragmentsReady - 1
          /\ UNCHANGED data
     ELSE /\ data' = Insert(data, id, fragments)
          /\ nbSuperFragmentsReady' = nbSuperFragmentsReady + 1
          /\ UNCHANGED << requests, sent >>
  /\ workloop' = AtTrigger
  /\ UNCHANGED fsmVars

\* SuperFragmentTable::addEvBidAndBlock. (The data of an id are never there already,
\* see ReadoutUnit_proofs: so this error is not made to wait for the lock.)
AddEvBidAndBlock(id, fragments) ==
  IF id \in DOMAIN data
  THEN Fail("duplicateData") /\ UNCHANGED tableVars
  ELSE /\ IF id \in requests
          THEN /\ sent' = Insert(sent, id, fragments)
               /\ requests' = requests \ {id}
               /\ UNCHANGED << data, nbSuperFragmentsReady >>
          ELSE /\ data' = Insert(data, id, fragments)
               /\ nbSuperFragmentsReady' = nbSuperFragmentsReady + 1
               /\ UNCHANGED << requests, sent >>
       /\ workloop' = AtTrigger
       /\ UNCHANGED fsmVars

\* What getData and the timer raise is caught by process.
BackPressure(state) ==
  /\ workloop' = [workloop EXCEPT !.at = state]
  /\ UNCHANGED << tableVars, fsmVars >>

\* processFSMEvent: MismatchDetected and TimedOut leave Enabled, which stops the workloop.
ReportError ==
  /\ workloop.at \in Errors
  /\ fsm' = workloop.at /\ workloop' = Stopped
  /\ UNCHANGED << inputSource, evmVars, sourceVars, inputVars, tableVars, failure, readoutMsgs, requestMsgs, evbIdFIFO >>

\* Faulty variant: any super-fragment is taken for the trigger's.
MatchesTrigger_Any(id) == TRUE

\* The check of getData.
MatchesTrigger(id) == id = workloop.evbId

\* FBOproxy: the id follows from the number in the first block.
IdOfHead(superFragment) ==
  IF inputSource = "FEROL" THEN superFragment.evbId
  ELSE LET k == CHOOSE e \in Events : <<1, e>> \in superFragment.fragments
       IN GetEvBid(evbIdFactories[0], TriggerNumbers[k])

\* getData of FBOproxy and FEROLproxy, and what process does with the data.
GetData ==
  /\ workloop.at = "data" /\ inputSource \in {"FBO", "FEROL"} /\ blockFIFO # << >>
  /\ LET superFragment == Head(blockFIFO)
         id == IdOfHead(superFragment)
     IN /\ IF MatchesTrigger(id)
           THEN AddEvBidAndBlock(workloop.evbId, superFragment.fragments)
           ELSE BackPressure("MismatchDetectedBackPressuring")
        /\ evbIdFactories' =
             IF inputSource = "FBO"
             THEN [evbIdFactories EXCEPT ![0] = AfterGetEvBid(@, id.eventNumber)]
             ELSE evbIdFactories
  /\ blockFIFO' = Tail(blockFIFO)
  /\ UNCHANGED << inputSource, evmVars, sourceVars, superFragmentMap, superFragmentHead, fedFragmentFIFOs,
                  readoutMsgs, requestMsgs, evbIdFIFO >>

\* FEROL2proxy::getNextFragment takes one fragment from each FED, in the order
\* of the FED ids; it waits in a loop that tests neither doProcessing_ nor the
\* timer.
GetNextFragment(f) ==
  /\ workloop.at = "data" /\ inputSource = "FEROL2"
  /\ f \in Feds /\ fedFragmentFIFOs[f] # << >>
  /\ { g \in Feds : g < f } = { g[1] : g \in workloop.fragments }
  /\ LET k  == Head(fedFragmentFIFOs[f])
         collected == workloop.fragments \cup {<<f, k>>}
     IN /\ evbIdFactories' = [evbIdFactories EXCEPT ![f] = AfterGetEvBid(@, TriggerNumbers[k])]
        /\ IF ~ MatchesTrigger(IdOfFragment(f, k))
           THEN BackPressure("MismatchDetectedBackPressuring")
           ELSE IF { g[1] : g \in collected } = Feds
           THEN AddEvBidAndBlock(workloop.evbId, collected)
           ELSE workloop' = [workloop EXCEPT !.fragments = collected] /\ UNCHANGED << tableVars, fsmVars >>
  /\ fedFragmentFIFOs' = [fedFragmentFIFOs EXCEPT ![f] = Tail(@)]
  /\ UNCHANGED << inputSource, evmVars, sourceVars, superFragmentMap, superFragmentHead, blockFIFO,
                  readoutMsgs, requestMsgs, evbIdFIFO >>

\* DummyInputData generates the super-fragment of the trigger.
GenerateSuperFragment ==
  /\ workloop.at = "data" /\ inputSource = "Local"
  /\ \E k \in 1..nbTriggers :
       issued[k] = workloop.evbId /\ AddEvBidAndBlock(workloop.evbId, WholeEvent(k))
  /\ UNCHANGED << inputSource, evmVars, sourceVars, inputVars, readoutMsgs, requestMsgs, evbIdFIFO >>

\* Faulty variant: the timer is looked at only when there are data.
TimedOut_WithData ==
  /\ workloop.at = "data" /\ TimeoutEnabled
  /\ inputSource \in {"FBO", "FEROL"} /\ blockFIFO # << >>
  /\ BackPressure("TimedOutBackPressuring")
  /\ UNCHANGED << inputSource, evmVars, sourceVars, inputVars, readoutMsgs, requestMsgs, evbIdFIFO >>

\* The timer fires and there is still no super-fragment.
TimedOut ==
  /\ workloop.at = "data" /\ TimeoutEnabled
  /\ inputSource \in {"FBO", "FEROL"} /\ blockFIFO = << >>
  /\ BackPressure("TimedOutBackPressuring")
  /\ UNCHANGED << inputSource, evmVars, sourceVars, inputVars, readoutMsgs, requestMsgs, evbIdFIFO >>

-----------------------------------------------------------------------------
Process ==
  \/ GetTrigEvBid \/ GetData \/ GenerateSuperFragment \/ TimedOut
  \/ \E f \in Feds : GetNextFragment(f)

\* A queue of the workloop is full, and there is more for it: the callback that brings
\* it waits for room, with the shared lock of the state machine.
CallbackMayWait ==
  \/ readoutMsgs # << >> /\ Len(evbIdFIFO) = EvbIdFIFOCapacity
  \/ Len(blockFIFO) = BlockFIFOCapacity /\ \E s \in Active : nextEvent[s] \in Events
  \/ \E s \in Feds : Len(fedFragmentFIFOs[s]) = BlockFIFOCapacity /\ nextEvent[s] \in Events

Next ==
  \/ IssueTrigger
  \/ \E s \in Sources : SendFragment(s) \/ RepeatFragment(s) \/ LoseFragment(s)
  \/ \E s \in StrangeFeds, k \in Events : StrangeFragment(s, k)
  \/ ReceiveReadout
  \/ \E id \in requestMsgs : ReceiveRequest(id)
  \/ Process
  \/ ReportError

Spec == Init /\ [][Next]_vars

\* Triggers keep coming, what is sent arrives, and the workloop keeps running; it gets
\* the exclusive lock unless a callback waits for the workloop to make room.
FairSpec ==
  /\ Spec
  /\ WF_vars(IssueTrigger) /\ WF_vars(ReceiveReadout) /\ WF_vars(Process)
  /\ WF_vars(~CallbackMayWait /\ ReportError)
  /\ \A s \in Sources : WF_vars(SendFragment(s))
  /\ WF_vars(\E id \in requestMsgs : ReceiveRequest(id))

-----------------------------------------------------------------------------
\* The data kept or sent under an id are all the fragments of its trigger's event
\* and nothing else, although every source and the EVM number the events on their
\* own (getData's check), also when a source loses or repeats a fragment, as long as
\* no trigger number comes twice. (In a run numbered 1, 1 the second event would take
\* the place of the first, were that lost.)
OwnData ==
  /\ \A id \in DOMAIN data : \E k \in 1..nbTriggers : issued[k] = id /\ data[id] = WholeEvent(k)
  /\ \A id \in DOMAIN sent : \E k \in 1..nbTriggers : issued[k] = id /\ sent[id] = WholeEvent(k)

\* The table never holds both the data and the request of an event, and counts
\* its data (SuperFragmentTable).
TableConsistent ==
  /\ DOMAIN data \cap requests = {}
  /\ nbSuperFragmentsReady = Cardinality(DOMAIN data)

\* While the RU is Enabled, every id the EVM issued is at exactly one place on its
\* way to the BU: no trigger is lost, and none is served twice.
AtTriggerPlace(id, p) ==
  \/ p = "network"   /\ \E i \in DOMAIN readoutMsgs : readoutMsgs[i] = id
  \/ p = "evbIdFIFO" /\ \E i \in DOMAIN evbIdFIFO : evbIdFIFO[i] = id
  \/ p = "workloop"  /\ HoldsTrigger /\ workloop.evbId = id
  \/ p = "data"      /\ id \in DOMAIN data
  \/ p = "sent"      /\ id \in DOMAIN sent
TriggerPlaces == {"network", "evbIdFIFO", "workloop", "data", "sent"}
TriggerInOnePlace ==
  fsm = "Enabled" =>
    \A k \in 1..nbTriggers :
      \E p \in TriggerPlaces : \A q \in TriggerPlaces : AtTriggerPlace(issued[k], q) <=> q = p

\* While the RU has not failed, a request is on its way, waiting or answered:
\* back-pressure delays requests, it loses none.
AtRequestPlace(id, p) ==
  \/ p = "network"  /\ id \in requestMsgs
  \/ p = "requests" /\ id \in requests
  \/ p = "sent"     /\ id \in DOMAIN sent
RequestPlaces == {"network", "requests", "sent"}
RequestInOnePlace ==
  fsm # "Failed" =>
    \A k \in 1..nbTriggers :
      \E p \in RequestPlaces : \A q \in RequestPlaces : AtRequestPlace(issued[k], q) <=> q = p

\* No false alarm: without a fault of a source the RU detects no mismatch, and it
\* fails only when an unexpected FED sends: what a source loses or repeats leads
\* to back-pressure and never to an inconsistent table (SuperFragmentTable's raises).
\* Nothing is said of timeouts: an RU may time out although nothing is lost.
NoFalseAlarm ==
  /\ fsm = "MismatchDetectedBackPressuring" => faults # {}
  /\ fsm = "Failed" => \E f \in faults : f.kind = "strange"

\* The FEROL2 input waits for a fragment without looking at the timer.
Lost == \E f \in faults : f.kind = "lost"
LossUnseen == Lost /\ inputSource = "FEROL2"

\* The workloop waits for the lock that a callback holds until the workloop makes room.
Deadlocked == workloop.at \in Errors /\ CallbackMayWait

\* Every super-fragment of a trigger is sent to the BU that asks for it, as long as
\* the RU stays Enabled (and does not wait for a fragment that FEROL2 input lost).
EveryRequestServed ==
  \A k \in Events :
    nbTriggers >= k ~>
      (fsm # "Enabled" \/ Deadlocked \/ LossUnseen \/ (k <= nbTriggers /\ issued[k] \in DOMAIN sent))

\* A lost fragment is detected by the inputs that look at the timer: the RU leaves
\* Enabled, with a mismatch or, after the last event, "Waited for more than
\* maxPairAgeMSec ms" (RU::process), unless it deadlocks when it wants to.
LossDetected == Lost /\ ~LossUnseen ~> fsm # "Enabled" \/ Deadlocked
=============================================================================
