------------------------------- MODULE TestRun -------------------------------
(***************************************************************************)
(* The tester: it starts and stops a whole data-acquisition system, one    *)
(* SOAP command after the other, and takes a fault for an answer only as a *)
(* reason to give up. Of each kind of application there is at most one;    *)
(* without a trigger adapter the event manager makes the triggers, without *)
(* a readout-unit input (RUI) the readout unit (RU) makes the data, and    *)
(* without a filter unit the builder unit drops the events.                *)
(***************************************************************************)
EXTENDS FilterUnit

CONSTANTS
  Setups  \* what to look at: pairs of a set of optional applications and a trouble

ASSUME SetupsAssumption ==
  Setups \subseteq (SUBSET {"TA", "RUI", "FU"})
                    \X {"none", "memory", "data", "crash", "enable", "suspend"}

VARIABLES
  present,      \* the optional applications there are
  ru, rui,      \* states of RU and RUI
  inputSource,  \* of the RU: "FBO", or "Local" when it makes its own data
  script,       \* the instructions that the tester still has to follow
  testStarted   \* testStarted_

testerVars == << present, ru, rui, inputSource, script, testStarted >>
vars == << triggerVars, farmVars, testerVars >>

Applications == {"EVM", "BU", "RU", "TA", "RUI", "FU"}
StateOf(app) == CASE app = "EVM" -> evm [] app = "BU" -> bu [] app = "RU" -> ru
                  [] app = "TA" -> ta [] app = "RUI" -> rui [] app = "FU" -> fu

(***************************************************************************)
(* What the tester does: commands, parameters to set, and pauses.          *)
(***************************************************************************)

ToApp(app, event) == << app, event >>
Sleep == << "tester", "sleep" >>
Done == << "tester", "done" >>

\* setEVMGenerateDummyTriggers, setRUsGenerateDummySuperFrags, setBUsDropEvents.
SetParameters ==
  << ToApp("EVM", "Local"), ToApp("RU", "Local"), ToApp("BU", "DropEvents") >>

StartTrigger == << ToApp("TA", "Configure"), ToApp("TA", "Enable") >>

StartRuBuilder ==
  << ToApp("EVM", "Configure"), ToApp("BU", "Configure"), ToApp("RU", "Configure"), Sleep,
     ToApp("RU", "Enable"), ToApp("EVM", "Enable"), ToApp("BU", "Enable") >>

StartFedBuilder == << ToApp("RUI", "Configure"), Sleep, ToApp("RUI", "Enable") >>
StartFilterFarm == << ToApp("FU", "Configure"), ToApp("FU", "Enable") >>

If(condition, instructions) == IF condition THEN instructions ELSE << >>

StartTest ==
     If("TA" \notin present, << SetParameters[1] >>)
  \o If("RUI" \notin present, << SetParameters[2] >>)
  \o If("FU" \notin present, << SetParameters[3] >>)
  \o If("TA" \in present, StartTrigger)
  \o StartRuBuilder
  \o If("RUI" \in present, StartFedBuilder)
  \o If("FU" \in present, StartFilterFarm)
  \o << Done >>

StopRuBuilder == << ToApp("EVM", "Halt"), ToApp("BU", "Halt"), ToApp("RU", "Halt") >>

StopTest ==
     If("RUI" \in present, << ToApp("RUI", "Halt") >>)
  \o StopRuBuilder
  \o If("TA" \in present, << ToApp("TA", "Halt") >>)
  \o If("FU" \in present, << ToApp("FU", "Halt") >>)
  \o << Done >>

(***************************************************************************)
(* The operator. The web page offers start or stop, and each is refused    *)
(* when the test is already, or is not, started.                           *)
(***************************************************************************)

Start ==
  /\ script = << >> /\ ~ testStarted
  /\ script' = StartTest
  /\ TriggersAge /\ EventsAge
  /\ UNCHANGED << trouble, ta, lost, evm, source, handlerVars, nbEvtsInBuilder, bu, dropEventData, freeResources,
                  completeEvents, discardFIFO, fuVars, present, ru, rui, inputSource, testStarted >>

Stop ==
  /\ script = << >> /\ testStarted
  /\ script' = StopTest
  /\ UNCHANGED << triggerVars, farmVars, present, ru, rui, inputSource, testStarted >>

\* Somebody suspends and resumes the TA.
Suspend == trouble = "suspend" /\ script = << >> /\ SuspendTA /\ UNCHANGED << farmVars, testerVars >>
Resume  == script = << >> /\ ResumeTA /\ UNCHANGED << farmVars, testerVars >>

(***************************************************************************)
(* The instructions.                                                       *)
(***************************************************************************)

Told(app, event) == script # << >> /\ Head(script) = ToApp(app, event)
Go == script' = Tail(script)
GiveUp == script' = << >>
RestUnchanged == UNCHANGED << present, ru, rui, inputSource, testStarted >>

\* An application with a statechart ignores a command it has no transition for, and the
\* answer is no fault.
Ignored(app, event) ==
  CASE event = "Configure" -> StateOf(app) # "Halted"
    [] event = "Enable"    -> StateOf(app) # "Ready"
    [] event = "Halt"      -> StateOf(app) \notin {"Configuring", "Ready", "Enabled"}

Ignore == \E app \in {"EVM", "BU", "RU", "RUI"}, event \in {"Configure", "Enable", "Halt"} :
  /\ Told(app, event) /\ (app = "EVM" => evm \in {"Halted", "Configuring", "Ready", "Enabled"})
  /\ Ignored(app, event) /\ Go
  /\ RestUnchanged /\ UNCHANGED << triggerVars, farmVars >>

CommandEVM ==
  /\ \/ Told("EVM", "Configure") /\ ConfigureEVM /\ Go
     \/ Told("EVM", "Enable") /\ EnableEVM /\ Go
     \/ Told("EVM", "Halt") /\ HaltEVM /\ (IF evm = "Enabled" THEN UNCHANGED script ELSE Go)
  /\ RestUnchanged /\ UNCHANGED farmVars

\* Leaving Enabled, and the answer to the tester at the end of it.
LeaveEVM ==
  /\ \/ (StopRequesting \/ SubtractStopped) /\ UNCHANGED script
     \/ EVMStopped /\ Go
  /\ RestUnchanged /\ UNCHANGED farmVars

CommandBU ==
  /\ \/ Told("BU", "Configure") /\ ConfigureBU
     \/ Told("BU", "Enable") /\ EnableBU
     \/ Told("BU", "Halt") /\ HaltBU
  /\ Go /\ RestUnchanged

StateAfter(event) == CASE event = "Configure" -> "Configuring" [] event = "Enable" -> "Enabled"
                       [] event = "Halt" -> "Halted"

CommandRU == \E event \in {"Configure", "Enable", "Halt"} :
  /\ Told("RU", event) /\ ~ Ignored("RU", event) /\ ru' = StateAfter(event) /\ Go
  /\ UNCHANGED << triggerVars, farmVars, present, rui, inputSource, testStarted >>

CommandRUI == \E event \in {"Configure", "Enable", "Halt"} :
  /\ Told("RUI", event) /\ ~ Ignored("RUI", event) /\ rui' = StateAfter(event) /\ Go
  /\ UNCHANGED << triggerVars, farmVars, present, ru, inputSource, testStarted >>

\* TA and FU answer with a fault when they cannot do what they are told; so does the
\* transport when the FU is gone.
CommandTA ==
  /\ \/ Told("TA", "Configure") /\ ConfigureTA /\ Go
     \/ Told("TA", "Enable") /\ EnableTA /\ Go
     \/ Told("TA", "Enable") /\ trouble = "enable" /\ FailToEnableTA /\ GiveUp
     \/ Told("TA", "Halt") /\ HaltTA /\ Go
  /\ RestUnchanged /\ UNCHANGED farmVars

CommandFU ==
  /\ \/ Told("FU", "Configure") /\ ConfigureFU /\ Go
     \/ Told("FU", "Enable") /\ EnableFU /\ Go
     \/ Told("FU", "Enable") /\ trouble = "enable" /\ FailToEnableFU /\ GiveUp
     \/ Told("FU", "Halt") /\ HaltFU /\ Go
  /\ RestUnchanged

Fault ==
  /\ \/ Told("TA", "Configure") /\ ta # "Halted"
     \/ Told("TA", "Enable") /\ ta # "Ready"
     \/ Told("TA", "Halt") /\ ta = "Failed"
     \/ Told("FU", "Configure") /\ fu # "Halted"
     \/ Told("FU", "Enable") /\ fu # "Ready"
     \/ Told("FU", "Halt") /\ fu \in {"Failed", "Gone"}
  /\ GiveUp
  /\ RestUnchanged /\ UNCHANGED << triggerVars, farmVars >>

ChangeParameter ==
  /\ \/ Told("EVM", "Local") /\ SetTriggerSource /\ UNCHANGED << farmVars, inputSource >>
     \/ Told("RU", "Local") /\ inputSource' = "Local" /\ UNCHANGED << triggerVars, farmVars >>
     \/ Told("BU", "DropEvents") /\ SetDropEventData /\ UNCHANGED inputSource
  /\ Go /\ UNCHANGED << present, ru, rui, testStarted >>

\* The applications configure themselves in threads of their own.
Configured ==
  \/ EVMConfigured /\ UNCHANGED << farmVars, testerVars >>
  \/ BUConfigured /\ UNCHANGED testerVars
  \/ ru = "Configuring" /\ ru' = "Ready"
       /\ UNCHANGED << triggerVars, farmVars, present, rui, inputSource, script, testStarted >>
  \/ rui = "Configuring" /\ rui' = "Ready"
       /\ UNCHANGED << triggerVars, farmVars, present, ru, inputSource, script, testStarted >>

\* The pause is one second, whatever the applications do meanwhile.
Wait ==
  /\ script # << >> /\ Head(script) = Sleep
  /\ Go /\ RestUnchanged /\ UNCHANGED << triggerVars, farmVars >>

\* The command is finished without an exception: start becomes stop and stop start.
Finish ==
  /\ script # << >> /\ Head(script) = Done
  /\ testStarted' = ~ testStarted
  /\ Go /\ UNCHANGED << triggerVars, farmVars, present, ru, rui, inputSource >>

HasData == ru = "Enabled" /\ (inputSource = "Local" \/ rui = "Enabled")

Init ==
  /\ TriggerInit /\ FarmInit
  /\ \E setup \in Setups : present = setup[1] /\ trouble = setup[2]
  /\ ru = "Halted" /\ rui = "Halted" /\ inputSource = "FBO"
  /\ script = << >> /\ testStarted = FALSE

Work == \/ (EVMWork \/ TriggerCallback \/ TaCreditMsg) /\ UNCHANGED << farmVars, testerVars >>
        \/ (Farm \/ BuildEvent(HasData)) /\ UNCHANGED testerVars

Command ==
  \/ Ignore \/ CommandEVM \/ LeaveEVM \/ CommandBU \/ CommandRU \/ CommandRUI \/ CommandTA
  \/ CommandFU \/ Fault \/ ChangeParameter \/ Configured \/ Wait \/ Finish

Next == Start \/ Stop \/ Suspend \/ Resume \/ Command \/ Work

\* The one assumption about time, which nothing in the code ensures: a second is long
\* enough for every application to get configured and for messages of earlier tests to
\* be delivered. Without it TLC finds PromisesConserved and NothingOfAnEarlierTest
\* violated.
FromEarlier(messages) == \E i \in DOMAIN messages : messages[i].of # This
OneSecondIsEnough ==
  /\ \A app \in Applications : StateOf(app) # "Configuring"
  /\ ~ FromEarlier(credits) /\ ~ FromEarlier(takes) /\ ~ FromEarlier(allocates) /\ ~ FromEarlier(discards)
  /\ \A i \in DOMAIN triggers : triggers[i] = This

InTime == Wait => OneSecondIsEnough

\* The threads of the applications and the tester go on; the operator need not do anything.
Spec == Init /\ [][Next /\ InTime]_vars /\ WF_vars((Command \/ Work) /\ InTime)

(***************************************************************************)
(* Properties.                                                             *)
(***************************************************************************)

TypeOK ==
  /\ TriggerTypeOK /\ FarmTypeOK
  /\ \E setup \in Setups : present = setup[1] /\ trouble = setup[2]
  /\ {ru, rui} \subseteq {"Halted", "Configuring", "Ready", "Enabled"}
  /\ inputSource \in {"FBO", "Local"} /\ testStarted \in BOOLEAN
  /\ Len(script) <= Len(StartTest)

\* While the EVM asks the TA for triggers, there is a credit, a trigger or an empty slot
\* of the trigger queue for each of its slots: no credit is given twice, none is
\* forgotten, and none of an earlier test is answered now. So a trigger always finds
\* room, and the callback never waits with the state machine locked (TAhandler.cc,
\* TRGproxy.cc:78, ta/Application.cc:1382).
CreditsConserved ==
  evm = "Enabled" /\ source = "TA" =>
    Outstanding + Due = (IF firstRequest THEN 0 ELSE Capacity)

\* While BU and FU work, every request of the FU is in a message, in the BU's queue or
\* being answered, and there are nbOutstandingRqsts of them: none of an earlier test is
\* left, and the BU's callback finds room (FUproxy.cc:84, fu/Application.cc:1461-1500).
RequestsConserved ==
  bu = "Enabled" /\ fu = "Enabled" /\ ~ faultDetected =>
    RequestsInMessages + Len(requestFIFO) + EventsOnTheirWay = NbOutstandingRqsts

\* Both ends of the chain are promised what there is room for: triggers from the TA to
\* the EVM, events from the BU to the FU.
PromisesConserved == CreditsConserved /\ RequestsConserved

\* When a test has been started, whatever triggers, events, requests and discards there
\* are belong to it: queues have been cleared and messages of earlier tests have come
\* to applications that release them (tester/Application.cc:1404-1522, 1850-1904). That
\* they have come before the pause ends is assumed (InTime).
NothingOfAnEarlierTest ==
  testStarted =>
    /\ \A t \in ToSet(triggerFIFO) \cup ToSet(triggers) \cup ToSet(held) \cup ToSet(events) : t = This
    /\ \A t \in ToSet(requestFIFO) \cup {eventOf[r] : r \in DOMAIN eventOf} : t = This
    /\ ~ FromEarlier(credits) /\ ~ FromEarlier(takes) /\ ~ FromEarlier(allocates) /\ ~ FromEarlier(discards)

\* As long as a started test goes on undisturbed, events are triggered, built, taken by
\* the FU or dropped, and discarded, again and again. Disturbed means: the TA suspended
\* or all credits lost, a fault in the data (the FU keeps the event), a failed or
\* crashed application.
Undisturbed ==
  /\ testStarted /\ script = << >>
  /\ \A app \in {"EVM", "BU", "RU"} \cup present : StateOf(app) = "Enabled"
  /\ ~ faultDetected /\ lost < Capacity

EventsFlow == <>[]Undisturbed => []<><<HandleDiscard>>_vars
=============================================================================
