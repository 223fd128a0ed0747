------------------------------ MODULE FilterUnit ------------------------------
(***************************************************************************)
(* The other end of the builder: the builder unit (BU) and the emulator of *)
(* a filter unit (FU). The FU asks for events when it is enabled and once  *)
(* more for each event it has discarded; the BU sends it the trigger and   *)
(* the readout unit's super-fragment of a complete event, and frees the    *)
(* resource when the event is discarded. How events are allotted and built *)
(* is the matter of EventIdProtocol and BuilderUnit, and one step here.    *)
(* Messages and events are marked with their test, as in TriggerAdapter.   *)
(***************************************************************************)
EXTENDS TriggerAdapter, FiniteSets

CONSTANTS
  Resources,           \* BU resource ids: maxEvtsUnderConstruction of them
  RequestCapacity,     \* requestFIFOCapacity of the BU
  NbOutstandingRqsts,  \* nbOutstandingRqsts of the FU
  NbEventsBeforeExit,  \* nbEventsBeforeExit of the FU when it is to crash
  MaxDamaged           \* bound: super-fragments that reach the FU damaged

ASSUME ResourcesAssumption == IsFiniteSet(Resources) /\ Resources # {}
ASSUME RequestsAssumption ==
  /\ RequestCapacity \in Nat /\ NbOutstandingRqsts \in Nat \ {0}
  /\ NbOutstandingRqsts <= RequestCapacity
ASSUME ExitAssumption == NbEventsBeforeExit \in Nat \ {0}
ASSUME DamagedAssumption == MaxDamaged \in Nat

VARIABLES
  bu,                 \* state of the BU
  dropEventData,
  freeResources,      \* resources that wait for an event
  eventOf,            \* the table: resource -> test of its event, for those that have one
  completeEvents,     \* completeEventsFIFO_
  discardFIFO,        \* discardFIFO_
  requestFIFO,        \* the FU's requests, with their tests
  fu,                 \* state of the FU, "Gone" after its emulated crash
  nbEventsProcessed,  \* counted when it matters
  faultDetected,
  damaged,
  takes,              \* super-fragments on their way to the FU
  allocates, discards \* messages from the FU to the BU

buVars == << bu, dropEventData, freeResources, eventOf, completeEvents, discardFIFO, requestFIFO >>
fuVars == << fu, nbEventsProcessed, faultDetected, damaged >>
farmVars == << buVars, fuVars, takes, allocates, discards >>

FarmTypeOK ==
  /\ bu \in {"Halted", "Configuring", "Ready", "Enabled", "Failed"}
  /\ dropEventData \in BOOLEAN /\ faultDetected \in BOOLEAN
  /\ freeResources \subseteq Resources
  /\ DOMAIN eventOf \subseteq Resources \ freeResources /\ \A r \in DOMAIN eventOf : eventOf[r] \in Tests
  /\ completeEvents \in Seq(Resources) /\ discardFIFO \in Seq(Resources)
  /\ requestFIFO \in Seq(Tests) /\ Len(requestFIFO) <= RequestCapacity
  /\ fu \in {"Halted", "Ready", "Enabled", "Failed", "Gone"}
  /\ nbEventsProcessed \in 0 .. NbEventsBeforeExit
  /\ damaged \in 0 .. MaxDamaged
  /\ takes \in Seq([resource : Resources, last : BOOLEAN, of : Tests])
  /\ allocates \in Seq([n : 1 .. NbOutstandingRqsts, of : Tests])
  /\ discards \in Seq([resource : Resources, of : Tests])

FarmInit ==
  /\ bu = "Halted" /\ dropEventData = FALSE
  /\ freeResources = {} /\ eventOf = << >>
  /\ completeEvents = << >> /\ discardFIFO = << >> /\ requestFIFO = << >>
  /\ fu = "Halted" /\ nbEventsProcessed = 0 /\ faultDetected = FALSE /\ damaged = 0
  /\ takes = << >> /\ allocates = << >> /\ discards = << >>

EventsAge ==
  /\ eventOf' = [r \in DOMAIN eventOf |-> "earlier test"]
  /\ requestFIFO' = Aged(requestFIFO) /\ takes' = AgedMessages(takes)
  /\ allocates' = AgedMessages(allocates) /\ discards' = AgedMessages(discards)

(***************************************************************************)
(* The BU.                                                                 *)
(***************************************************************************)

Without(f, r) == [x \in DOMAIN f \ {r} |-> f[x]]

\* An event of the EVM is allotted to a free resource and built from the super-fragments
\* that the readout unit has (hasData). With dropEventData it is discarded at once.
BuildEvent(hasData) ==
  /\ bu = "Enabled" /\ evm = "Enabled" /\ hasData
  /\ events # << >> /\ events' = Tail(events)
  /\ \E r \in freeResources :
       /\ freeResources' = freeResources \ {r}
       /\ eventOf' = [x \in DOMAIN eventOf \cup {r} |-> IF x = r THEN Head(events) ELSE eventOf[x]]
       /\ IF dropEventData THEN discardFIFO' = Append(discardFIFO, r) /\ UNCHANGED completeEvents
                           ELSE completeEvents' = Append(completeEvents, r) /\ UNCHANGED discardFIFO
  /\ UNCHANGED << trouble, taVars, credits, triggers, evm, source, handlerVars, triggerFIFO, nbEvtsInBuilder,
                  bu, dropEventData, requestFIFO, fuVars, takes, allocates, discards >>

\* sendNextCompleteEventToFU, when the FU still exists.
SendEventToFU ==
  /\ bu = "Enabled" /\ completeEvents # << >> /\ requestFIFO # << >>
  /\ requestFIFO' = Tail(requestFIFO)
  /\ completeEvents' = Tail(completeEvents)
  /\ LET r == Head(completeEvents)
     IN  \/ /\ fu # "Gone"
            /\ takes' = takes \o << [resource |-> r, last |-> FALSE, of |-> eventOf[r]],
                                    [resource |-> r, last |-> TRUE,  of |-> eventOf[r]] >>
            /\ UNCHANGED bu
         \/ fu = "Gone" /\ bu' = "Failed" /\ UNCHANGED takes
  /\ UNCHANGED << triggerVars, dropEventData, freeResources, eventOf, discardFIFO, fuVars, allocates, discards >>

\* handleDiscards: the event's id goes back to the EVM, which counts it as built, and the
\* resource asks for another event. A resource without an event makes the BU fail.
HandleDiscard ==
  /\ bu = "Enabled" /\ discardFIFO # << >>
  /\ discardFIFO' = Tail(discardFIFO)
  /\ LET r == Head(discardFIFO)
     IN  \/ /\ r \in DOMAIN eventOf
            /\ eventOf' = Without(eventOf, r) /\ freeResources' = freeResources \cup {r}
            /\ nbEvtsInBuilder' = IF evm \in Processing THEN nbEvtsInBuilder - 1 ELSE nbEvtsInBuilder
            /\ UNCHANGED bu
         \/ r \notin DOMAIN eventOf /\ bu' = "Failed" /\ UNCHANGED << eventOf, freeResources, nbEvtsInBuilder >>
  /\ UNCHANGED << trouble, taVars, credits, triggers, evm, source, handlerVars, triggerFIFO, events,
                  dropEventData, completeEvents, requestFIFO, fuVars, takes, allocates, discards >>

\* allocateI2Ocallback; outside Enabled the state machine releases the message. The
\* callback waits for room in the queue for each request.
AllocateCallback ==
  /\ allocates # << >>
  /\ allocates' = Tail(allocates)
  /\ LET m == Head(allocates)
     IN  \/ /\ bu = "Enabled" /\ Len(requestFIFO) + m.n <= RequestCapacity
            /\ requestFIFO' = requestFIFO \o Repeat(m.of, m.n)
         \/ bu # "Enabled" /\ UNCHANGED requestFIFO
  /\ UNCHANGED << triggerVars, bu, dropEventData, freeResources, eventOf, completeEvents, discardFIFO,
                  fuVars, takes, discards >>

DiscardCallback ==
  /\ discards # << >>
  /\ discards' = Tail(discards)
  /\ \/ /\ bu = "Enabled" /\ Len(discardFIFO) < Cardinality(Resources)
        /\ discardFIFO' = Append(discardFIFO, Head(discards).resource)
     \/ bu # "Enabled" /\ UNCHANGED discardFIFO
  /\ UNCHANGED << triggerVars, bu, dropEventData, freeResources, eventOf, completeEvents, requestFIFO,
                  fuVars, takes, allocates >>

\* The BU's state machine. Halt and Configure are ignored where they have no transition.
ConfigureBU == bu = "Halted" /\ bu' = "Configuring"
                 /\ UNCHANGED << triggerVars, dropEventData, freeResources, eventOf, completeEvents, discardFIFO,
                                 requestFIFO, fuVars, takes, allocates, discards >>

BUConfigured ==
  /\ bu = "Configuring" /\ bu' = "Ready"
  /\ freeResources' = {} /\ eventOf' = << >>
  /\ completeEvents' = << >> /\ discardFIFO' = << >> /\ requestFIFO' = << >>
  /\ UNCHANGED << triggerVars, dropEventData, fuVars, takes, allocates, discards >>

\* EventTable::startProcessing makes the resources known.
EnableBU == bu = "Ready" /\ bu' = "Enabled" /\ freeResources' = Resources
              /\ UNCHANGED << triggerVars, dropEventData, eventOf, completeEvents, discardFIFO, requestFIFO,
                              fuVars, takes, allocates, discards >>

HaltBU == bu \in {"Configuring", "Ready", "Enabled"} /\ bu' = "Halted"
            /\ UNCHANGED << triggerVars, dropEventData, freeResources, eventOf, completeEvents, discardFIFO,
                            requestFIFO, fuVars, takes, allocates, discards >>

SetDropEventData == dropEventData' = TRUE
                      /\ UNCHANGED << triggerVars, bu, freeResources, eventOf, completeEvents, discardFIFO,
                                      requestFIFO, fuVars, takes, allocates, discards >>

(***************************************************************************)
(* The FU.                                                                 *)
(***************************************************************************)

AllocateNEvents(n) == allocates' = Append(allocates, [n |-> n, of |-> This])

\* Faulty variant: the event is not discarded.
FinishEvent_NoDiscard(m) ==
  /\ nbEventsProcessed' = IF trouble = "crash" THEN nbEventsProcessed + 1 ELSE 0
  /\ AllocateNEvents(1) /\ UNCHANGED << discards, fu >>

\* processDataBlock at the end of an event: discard it and ask for another one, or exit.
FinishEvent(m) ==
  /\ nbEventsProcessed' = IF trouble = "crash" THEN nbEventsProcessed + 1 ELSE 0
  /\ \/ /\ nbEventsProcessed' = NbEventsBeforeExit
        /\ fu' = "Gone" /\ UNCHANGED << allocates, discards >>
     \/ /\ nbEventsProcessed' # NbEventsBeforeExit
        /\ discards' = Append(discards, [resource |-> m.resource, of |-> m.of])
        /\ AllocateNEvents(1) /\ UNCHANGED fu

\* I2O_FU_TAKE_Callback for a super-fragment. A fault found in it does not keep its own
\* last block from ending the event; later super-fragments are released unseen.
TakeSuperFragment ==
  /\ takes # << >>
  /\ takes' = Tail(takes)
  /\ LET m == Head(takes)
     IN  \/ /\ fu \in {"Halted", "Failed", "Gone"} \/ faultDetected
            /\ UNCHANGED << fu, nbEventsProcessed, faultDetected, damaged, allocates, discards >>
         \/ /\ fu \in {"Ready", "Enabled"} /\ ~ faultDetected
            /\ \E bad \in BOOLEAN :
                 /\ bad => trouble = "data" /\ damaged < MaxDamaged
                 /\ damaged' = IF bad THEN damaged + 1 ELSE damaged
                 /\ faultDetected' = bad
            /\ IF m.last THEN FinishEvent(m)
                         ELSE UNCHANGED << fu, nbEventsProcessed, allocates, discards >>
  /\ UNCHANGED << triggerVars, buVars >>

ConfigureFU ==
  /\ fu = "Halted" /\ fu' = "Ready"
  /\ faultDetected' = FALSE /\ nbEventsProcessed' = 0
  /\ UNCHANGED << triggerVars, buVars, damaged, takes, allocates, discards >>

EnableFU ==
  /\ fu = "Ready" /\ fu' = "Enabled"
  /\ AllocateNEvents(NbOutstandingRqsts)
  /\ UNCHANGED << triggerVars, buVars, nbEventsProcessed, faultDetected, damaged,
                  takes, discards >>

\* There is no memory for the request.
FailToEnableFU ==
  /\ fu = "Ready" /\ fu' = "Failed"
  /\ UNCHANGED << triggerVars, buVars, nbEventsProcessed, faultDetected, damaged,
                  takes, allocates, discards >>

HaltFU ==
  /\ fu \in {"Halted", "Ready", "Enabled"} /\ fu' = "Halted"
  /\ UNCHANGED << triggerVars, buVars, nbEventsProcessed, faultDetected, damaged,
                  takes, allocates, discards >>

Farm == SendEventToFU \/ HandleDiscard \/ AllocateCallback \/ DiscardCallback \/ TakeSuperFragment

(***************************************************************************)
(* Where the FU's requests are.                                            *)
(***************************************************************************)

EventsOnTheirWay == Cardinality({ i \in DOMAIN takes : takes[i].last })
RequestsInMessages == FoldLeft(LAMBDA sum, m : sum + m.n, 0, allocates)
=============================================================================
