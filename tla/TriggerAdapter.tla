---------------------------- MODULE TriggerAdapter ----------------------------
(***************************************************************************)
(* The trigger adapter (TA) and the part of the event manager (EVM) that   *)
(* asks it for triggers. The EVM gives the TA a credit for every trigger   *)
(* there is room for; the TA answers each credit with a trigger when it is *)
(* enabled, holds it when it is ready or suspended, and forgets it when it *)
(* is halted. The thread that halts the EVM and the EVM's work loop both   *)
(* change the count of credits to be sent, without a lock.                 *)
(* Credits and triggers are marked as belonging to this test or to an      *)
(* earlier one.                                                            *)
(***************************************************************************)
EXTENDS Integers, SequencesExt

CONSTANTS
  Capacity,     \* triggerFIFOCapacity
  Packing,      \* I2O_TA_CREDIT_Packing
  CounterSize,  \* nbCreditsToBeSent_ counts modulo this: 2^32
  NbEvtIds,     \* nbEvtIdsInBuilder_
  MaxLost       \* bound: credits lost in the TA because its memory is exhausted

ASSUME CapacityAssumption == Capacity \in Nat \ {0}
ASSUME PackingAssumption == Packing \in 1 .. CounterSize - 1
ASSUME CounterAssumption == CounterSize \in Nat /\ CounterSize > Capacity
ASSUME NbEvtIdsAssumption == NbEvtIds \in Nat \ {0}
ASSUME LostAssumption == MaxLost \in Nat

VARIABLES
  trouble,            \* what may go wrong: "memory", "data", "crash", "enable", "suspend"
  ta,                 \* state of the TA
  held,               \* nbCreditsHeld_, each with its test
  lost,               \* credits lost in the TA since the EVM was enabled
  credits, triggers,  \* messages from the EVM to the TA and back
  evm,                \* state of the EVM; leaving Enabled takes several steps
  source,             \* triggerSource: "TA", or "Local" when it makes its own triggers
  toBeSent,           \* nbCreditsToBeSent_
  doRequestTriggers, firstRequest,
  triggerFIFO,
  loop,               \* where the EVM's work loop is in TAhandler
  nbEvtsInBuilder,
  events              \* triggers that wait for a BU, in BUproxy's eventFIFO

taVars      == << ta, held, lost >>
handlerVars == << toBeSent, doRequestTriggers, firstRequest, loop >>
evmVars     == << evm, source, handlerVars, triggerFIFO, nbEvtsInBuilder, events >>
triggerVars == << trouble, taVars, credits, triggers, evmVars >>

This == "this test"
Tests == {This, "earlier test"}
CreditMessages == [n : 1 .. CounterSize - 1, of : Tests]

\* The states in which the EVM's work loop does its rounds (doProcessing_).
Processing == {"Enabled", "Posting", "Posted"}

TriggerTypeOK ==
  /\ ta \in {"Halted", "Ready", "Enabled", "Suspended", "Failed"}
  /\ held \in Seq(Tests) /\ triggers \in Seq(Tests) /\ triggerFIFO \in Seq(Tests) /\ events \in Seq(Tests)
  /\ credits \in Seq(CreditMessages)
  /\ lost \in 0 .. MaxLost
  /\ evm \in {"Halted", "Configuring", "Ready", "Stopping"} \cup Processing
  /\ source \in {"TA", "Local"}
  /\ toBeSent \in 0 .. CounterSize - 1
  /\ doRequestTriggers \in BOOLEAN /\ firstRequest \in BOOLEAN
  /\ loop \in {"idle", "adding", "asking", "posted", "flushed"}
  /\ nbEvtsInBuilder \in 0 .. NbEvtIds

TriggerInit ==
  /\ ta = "Halted" /\ held = << >> /\ lost = 0
  /\ credits = << >> /\ triggers = << >>
  /\ evm = "Halted" /\ source = "TA"
  /\ toBeSent = 0 /\ doRequestTriggers = TRUE /\ firstRequest = TRUE /\ loop = "idle"
  /\ triggerFIFO = << >> /\ nbEvtsInBuilder = 0 /\ events = << >>

\* What there is when a new test starts.
Aged(tests) == [i \in DOMAIN tests |-> "earlier test"]
AgedMessages(messages) == [i \in DOMAIN messages |-> [messages[i] EXCEPT !.of = "earlier test"]]

TriggersAge ==
  /\ held' = Aged(held) /\ triggers' = Aged(triggers) /\ triggerFIFO' = Aged(triggerFIFO)
  /\ events' = Aged(events) /\ credits' = AgedMessages(credits)

Repeat(x, n) == [i \in 1 .. n |-> x]

(***************************************************************************)
(* The EVM's work loop: EVM::doWork with TAhandler::getNextTrigger.        *)
(***************************************************************************)

\* sendTrigCredits up to postFrame. The caller subtracts n in a step of its own.
Post(n) == credits' = Append(credits, [n |-> n, of |-> This])

\* The condition of the loop in requestTriggers, which sends full messages only.
NextRound == IF toBeSent' > Packing THEN "asking" ELSE "idle"

RoomInBuilder == nbEvtsInBuilder < NbEvtIds

\* getNextTrigger asks for as many triggers as the queue has room for, once.
FirstRequest ==
  /\ evm \in Processing /\ loop = "idle" /\ source = "TA" /\ RoomInBuilder
  /\ firstRequest
  /\ firstRequest' = FALSE
  /\ toBeSent' = (toBeSent + Capacity) % CounterSize
  /\ loop' = NextRound
  /\ UNCHANGED << trouble, taVars, credits, triggers, evm, source, doRequestTriggers,
                  triggerFIFO, nbEvtsInBuilder, events >>

\* A trigger goes from the queue into an event, and makes room for another one.
TakeTrigger ==
  /\ evm \in Processing /\ loop = "idle" /\ source = "TA" /\ RoomInBuilder
  /\ ~ firstRequest /\ triggerFIFO # << >>
  /\ triggerFIFO' = Tail(triggerFIFO)
  /\ events' = Append(events, Head(triggerFIFO))
  /\ nbEvtsInBuilder' = nbEvtsInBuilder + 1
  /\ loop' = IF doRequestTriggers THEN "adding" ELSE "idle"
  /\ UNCHANGED << trouble, taVars, credits, triggers, evm, source, toBeSent, doRequestTriggers, firstRequest >>

\* requestTriggers(1).
AddCredit ==
  /\ loop = "adding"
  /\ toBeSent' = (toBeSent + 1) % CounterSize
  /\ loop' = NextRound
  /\ UNCHANGED << trouble, taVars, credits, triggers, evm, source, doRequestTriggers, firstRequest,
                  triggerFIFO, nbEvtsInBuilder, events >>

AskForTriggers ==
  /\ loop = "asking"
  /\ Post(Packing)
  /\ loop' = "posted"
  /\ UNCHANGED << trouble, taVars, triggers, evm, source, toBeSent, doRequestTriggers, firstRequest,
                  triggerFIFO, nbEvtsInBuilder, events >>

SubtractPacking ==
  /\ loop = "posted"
  /\ toBeSent' = (toBeSent + CounterSize - Packing) % CounterSize
  /\ loop' = NextRound
  /\ UNCHANGED << trouble, taVars, credits, triggers, evm, source, doRequestTriggers, firstRequest,
                  triggerFIFO, nbEvtsInBuilder, events >>

\* sendOldTriggerMessage, which the work loop runs once the timer has fired.
FlushCredits ==
  /\ evm \in Processing \cup {"Stopping"} /\ loop = "idle" /\ source = "TA"
  /\ toBeSent > 0
  /\ Post(toBeSent)
  /\ loop' = "flushed"
  /\ UNCHANGED << trouble, taVars, triggers, evm, source, toBeSent, doRequestTriggers, firstRequest,
                  triggerFIFO, nbEvtsInBuilder, events >>

\* The number to subtract is passed by reference: it is the count itself.
SubtractAll ==
  /\ loop = "flushed"
  /\ toBeSent' = 0
  /\ loop' = "idle"
  /\ UNCHANGED << trouble, taVars, credits, triggers, evm, source, doRequestTriggers, firstRequest,
                  triggerFIFO, nbEvtsInBuilder, events >>

\* DummyTrigger::getNextTrigger: the EVM makes the trigger itself.
MakeTrigger ==
  /\ evm \in Processing /\ loop = "idle" /\ source = "Local" /\ RoomInBuilder
  /\ doRequestTriggers
  /\ events' = Append(events, This)
  /\ nbEvtsInBuilder' = nbEvtsInBuilder + 1
  /\ UNCHANGED << trouble, taVars, credits, triggers, evm, source, handlerVars, triggerFIFO >>

(***************************************************************************)
(* I2O callbacks. Those of the EVM wait while its state machine is locked. *)
(***************************************************************************)

\* TRGproxy::I2Ocallback in Processing, the state machine elsewhere. The callback
\* waits when the queue is full, holding the shared lock.
TriggerCallback ==
  /\ triggers # << >>
  /\ evm \in {"Halted", "Configuring", "Ready", "Enabled"}
  /\ triggers' = Tail(triggers)
  /\ \/ /\ evm = "Enabled" /\ Len(triggerFIFO) < Capacity
        /\ triggerFIFO' = Append(triggerFIFO, Head(triggers))
     \/ evm # "Enabled" /\ UNCHANGED triggerFIFO
  /\ UNCHANGED << trouble, taVars, credits, evm, source, handlerVars, nbEvtsInBuilder, events >>

\* sendNTriggers for the credits given in a sequence of tests; a credit for which there
\* is no memory is used up without a trigger.
SendNTriggers(answered) ==
  \E n \in 0 .. Len(answered) :
    /\ n = Len(answered) \/ (trouble = "memory" /\ lost + Len(answered) - n <= MaxLost)
    /\ lost' = lost + Len(answered) - n
    /\ triggers' = triggers \o SubSeq(answered, 1, n)

TaCreditMsg ==
  /\ credits # << >>
  /\ credits' = Tail(credits)
  /\ LET given == Repeat(Head(credits).of, Head(credits).n)
     IN  \/ ta \in {"Halted", "Failed"} /\ UNCHANGED << held, lost, triggers >>
         \/ ta = "Enabled" /\ SendNTriggers(given) /\ UNCHANGED held
         \/ ta \in {"Ready", "Suspended"} /\ held' = held \o given /\ UNCHANGED << lost, triggers >>
  /\ UNCHANGED << trouble, ta, evmVars >>

(***************************************************************************)
(* The state machine of the TA: what a SOAP command does. Each action says *)
(* in which states the command is accepted.                                *)
(***************************************************************************)

ConfigureTA == ta = "Halted" /\ ta' = "Ready" /\ UNCHANGED << trouble, held, lost, credits, triggers, evmVars >>

SendHeldCredits ==
  /\ SendNTriggers(held)
  /\ held' = << >>
  /\ ta' = "Enabled"
  /\ UNCHANGED << trouble, credits, evmVars >>

EnableTA == ta = "Ready" /\ SendHeldCredits
ResumeTA == ta = "Suspended" /\ SendHeldCredits

\* The work loop of the simulation cannot be started.
FailToEnableTA == ta = "Ready" /\ ta' = "Failed" /\ UNCHANGED << trouble, held, lost, credits, triggers, evmVars >>

SuspendTA == ta = "Enabled" /\ ta' = "Suspended" /\ UNCHANGED << trouble, held, lost, credits, triggers, evmVars >>

HaltTA ==
  /\ ta \in {"Halted", "Ready", "Enabled", "Suspended"}
  /\ ta' = "Halted"
  /\ held' = << >>
  /\ UNCHANGED << trouble, lost, credits, triggers, evmVars >>

(***************************************************************************)
(* What the EVM's state machine does to its trigger input.                 *)
(***************************************************************************)

\* triggerSourceChanged to "Local", while the EVM is halted.
SetTriggerSource ==
  /\ source' = "Local"
  /\ triggerFIFO' = << >>
  /\ doRequestTriggers' = TRUE
  /\ UNCHANGED << trouble, taVars, credits, triggers, evm, toBeSent, firstRequest, loop, nbEvtsInBuilder, events >>

ConfigureEVM ==
  /\ evm = "Halted" /\ evm' = "Configuring"
  /\ UNCHANGED << trouble, taVars, credits, triggers, source, handlerVars, triggerFIFO, nbEvtsInBuilder, events >>

\* Faulty variant: the trigger queue is not cleared.
EVMConfigured_KeepTriggers ==
  /\ evm = "Configuring" /\ evm' = "Ready"
  /\ events' = << >>
  /\ UNCHANGED << trouble, taVars, credits, triggers, source, handlerVars, triggerFIFO, nbEvtsInBuilder >>

\* Configuring and Clearing: the components are configured and cleared.
EVMConfigured ==
  /\ evm = "Configuring" /\ evm' = "Ready"
  /\ triggerFIFO' = << >> /\ events' = << >>
  /\ UNCHANGED << trouble, taVars, credits, triggers, source, handlerVars, nbEvtsInBuilder >>

\* Faulty variant: the credits of the last run are not forgotten.
EnableEVM_NoReset ==
  /\ evm = "Ready" /\ evm' = "Enabled"
  /\ doRequestTriggers' = TRUE /\ firstRequest' = TRUE
  /\ nbEvtsInBuilder' = 0 /\ lost' = 0
  /\ UNCHANGED << trouble, ta, held, credits, triggers, source, toBeSent, loop, triggerFIFO, events >>

\* Processing's entry action resets the handler and the counters.
EnableEVM ==
  /\ evm = "Ready" /\ evm' = "Enabled"
  /\ toBeSent' = 0 /\ doRequestTriggers' = TRUE /\ firstRequest' = TRUE
  /\ nbEvtsInBuilder' = 0 /\ lost' = 0
  /\ UNCHANGED << trouble, ta, held, credits, triggers, source, loop, triggerFIFO, events >>

\* Halt. In Enabled its exit action comes first, stopRequestingTriggers, while the work
\* loop is at work: no trigger is to be asked for any more, and what is due is sent.
HaltEVM ==
  /\ \/ evm \in {"Configuring", "Ready"} /\ evm' = "Halted" /\ UNCHANGED doRequestTriggers
     \/ evm = "Enabled" /\ evm' = "Posting" /\ doRequestTriggers' = FALSE
  /\ UNCHANGED << trouble, taVars, credits, triggers, source, toBeSent, firstRequest, loop, triggerFIFO,
                  nbEvtsInBuilder, events >>

StopRequesting ==
  /\ evm = "Posting"
  /\ \/ source = "TA" /\ toBeSent > 0 /\ Post(toBeSent) /\ evm' = "Posted"
     \/ (source = "TA" => toBeSent = 0) /\ evm' = "Stopping" /\ UNCHANGED credits
  /\ UNCHANGED << trouble, taVars, triggers, source, handlerVars, triggerFIFO, nbEvtsInBuilder, events >>

\* The count becomes 0, unless the work loop has read it and is about to write it.
SubtractStopped ==
  /\ evm = "Posted" /\ evm' = "Stopping"
  /\ toBeSent' \in {0} \cup (IF loop \in {"adding", "posted"} THEN {toBeSent} ELSE {})
  /\ UNCHANGED << trouble, taVars, credits, triggers, source, doRequestTriggers, firstRequest, loop,
                  triggerFIFO, nbEvtsInBuilder, events >>

\* Processing's exit action: stopProcessing waits for the work loop.
EVMStopped ==
  /\ evm = "Stopping" /\ loop = "idle"
  /\ evm' = "Halted"
  /\ UNCHANGED << trouble, taVars, credits, triggers, source, handlerVars, triggerFIFO, nbEvtsInBuilder, events >>

EVMWork ==
  \/ FirstRequest \/ TakeTrigger \/ AddCredit \/ AskForTriggers \/ SubtractPacking
  \/ FlushCredits \/ SubtractAll \/ MakeTrigger

(***************************************************************************)
(* Where the credits are.                                                  *)
(***************************************************************************)

CreditsInMessages == FoldLeft(LAMBDA sum, m : sum + m.n, 0, credits)

Outstanding == CreditsInMessages + Len(held) + Len(triggers) + Len(triggerFIFO) + lost

\* The count is ahead of what has been sent while a message is posted but not subtracted,
\* and behind by the trigger just taken.
Due == toBeSent + (CASE loop = "adding" -> 1 [] loop = "posted" -> 0 - Packing
                     [] loop = "flushed" -> 0 - toBeSent [] OTHER -> 0)
=============================================================================
