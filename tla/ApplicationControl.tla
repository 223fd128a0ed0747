--------------------------- MODULE ApplicationControl ---------------------------
(***************************************************************************)
(* How an EVM, RU, BU or RUI application is driven through its state       *)
(* machine while its own threads run:                                      *)
(*   - the client sends SOAP commands; each waits for the exclusive lock   *)
(*     of the state machine and gets the name of the new state;            *)
(*   - entering a state starts threads (configuring, clearing, draining)   *)
(*     and work loops, leaving it stops them and waits for them;           *)
(*   - the work loops move data between the components and ask for the     *)
(*     Fail event themselves when something goes wrong;                    *)
(*   - three loops of the EVM (L1Info, L1Scalers, EoLSSignalSender) run in *)
(*     every state and are waited for when their queues are cleared;       *)
(*   - the callback thread delivers I2O messages under the shared lock.    *)
(* The charts are those of Statechart. The data is left out, but for whether*)
(* the queues of those three loops are empty. What the components keep and *)
(* lose from run to run is the subject of L1InfoHandler, TestRun and the   *)
(* modules of the protocols.                                               *)
(***************************************************************************)
EXTENDS Statechart, Naturals

CONSTANTS
  Apps,          \* which of the applications to look at
  SoapCommands,  \* application -> commands the client sends to it: "Configure",
                 \* "Enable", "Stop", "Halt", "Fail" (unknown ones count as it), and
                 \* for the EVM "Clear" and "Blocked"
  MaxCommands,   \* bound: application -> how many it sends
  Schedulers,    \* the loops, "bu" or "evm", whose oldMessageSenderSleepUSec is short
                 \* enough for the sending of old messages to be scheduled
  MayFail        \* application -> where an exception may be raised in it: "activity",
                 \* "entry", "exit", "process", "sendOldMessages", "writing", "callback"

ASSUME AppsAssumption == Apps \subseteq DOMAIN Chart

VARIABLES
  app,         \* the application
  leaf,        \* its current state
  heading,     \* the target of the transition that is under way
  stateName,   \* stateName_, what the client and the monitoring read
  mover,       \* the thread inside process_event that moves the machine, or None
  todo,        \* what is left of the transition: a sequence of instructions per state
  posted,      \* Fail events posted by entry and exit actions
  wants,       \* thread -> the event it wants to have processed, or None
  commands,    \* commands the client has sent
  callback,    \* the callback thread is in a component
  activity,    \* the threads of the states Configuring, Clearing and Draining
  doProcessing, active, queue, at,
               \* per group, loop, loop and loop: doProcessing_, processActive_ and its
               \* like, the actions waiting in the work loop, where its thread is
  pending,     \* sendOldMessagesActionPending_
  scheduling,  \* the scheduler has seen doProcessing_ set and nothing pending
  filled       \* the handlers of the EVM whose queues are not empty

machine == << leaf, heading, stateName, mover, todo, posted >>
loops   == << doProcessing, active, queue, at, pending, scheduling >>
vars == << app, machine, wants, commands, callback, activity, loops, filled >>

(***************************************************************************)
(* The parts of the applications.                                          *)
(***************************************************************************)

\* What the threads of Configuring go through, one sequence per try block: the handlers
\* whose queues they wait for, and in between the "calls" that wait for nobody.
RUConfiguration  == << << "calls" >> >>
BUConfiguration  == << << "calls" >>, << "calls" >> >>
EVMConfiguration == << << "calls" >>, << "eolsHandler", "l1InfoHandler", "calls" >> >>
RUIConfiguration == << << "calls" >> >>

Configuration == "RU" :> RUConfiguration @@ "BU" :> BUConfiguration
                   @@ "EVM" :> EVMConfiguration @@ "RUI" :> RUIConfiguration

\* What Clearing goes through.
RUToClear  == << "calls" >>
BUToClear  == << "calls" >>
EVMToClear == << "eolsHandler", "l1InfoHandler", "calls" >>
RUIToClear == << "calls" >>

ToClear == "RU" :> RUToClear @@ "BU" :> BUToClear @@ "EVM" :> EVMToClear @@ "RUI" :> RUIToClear

\* The work loops of an application, by the doProcessing_ flag they obey. The BU's writers
\* are one loop here.
Groups ==
     "RU"  :> ("ru" :> << "ru" >>)
  @@ "BU"  :> ("bu" :> << "bu" >> @@ "eventTable" :> << "eventTable" >>
                @@ "diskWriter" :> << "diskWriter", "writer" >>)
  @@ "EVM" :> ("evm" :> << "evm" >>)
  @@ "RUI" :> ("rui" :> << "generating", "sending" >>)

LoopsOf == [a \in DOMAIN Chart |-> UNION {ToSet(Groups[a][g]) : g \in DOMAIN Groups[a]}]
Loops == LoopsOf[app]
AllLoops == UNION {LoopsOf[a] : a \in DOMAIN Chart}

\* A partition of the loops, of which fairness needs no finer one.
Peers == {{"ru", "bu", "evm", "generating"}, {"eventTable", "sending"}, {"diskWriter", "writer"}}

GroupOf == [l \in AllLoops |-> CASE l = "writer" -> "diskWriter"
                                 [] l \in {"generating", "sending"} -> "rui" [] OTHER -> l]

\* The loop that sends old messages too, when the scheduler's sleep ends.
OldSender == Loops \cap {"bu", "evm"} \cap Schedulers

\* The loops whose action does a round without looking at doProcessing_ first.
Heedless == {"generating", "sending", "writer"}

\* What the EVM's loops that run in every state empty: L1Info and L1Scalers the queues of
\* l1InfoHandler, EoLSSignalSender that of eolsHandler.
FreeHandlers == {h \in {"l1InfoHandler", "eolsHandler"} : app = "EVM"}

\* Bound: threads of Configuring, Clearing and Draining, aborted ones included.
ThreadNames == << "thread 1", "thread 2", "thread 3" >>
Slots == ToSet(ThreadNames)
Threads == {"client"} \cup Slots \cup Loops
NoActivity == [state |-> None, rest |-> << >>, alive |-> FALSE]

(***************************************************************************)
(* Entry and exit actions, as sequences of instructions.                   *)
(***************************************************************************)

\* Faulty variant: nobody waits for the loops.
Stopping_NoWait(g) == << << "stop", g >> >>

Stopping(g) == << << "stop", g >> >> \o [i \in DOMAIN Groups[app][g] |-> << "await", Groups[app][g][i] >>]

RUEntryAction(s) == IF s = "Enabled" THEN << << "start", "ru" >> >> ELSE << >>

\* Starting the disk writer creates directories, which may fail.
BUEntryAction(s) ==
  IF s = "Enabled" THEN << << "attempt", "entry" >>, << "start", "diskWriter" >>, << "start", "bu" >>, << "start", "eventTable" >> >>
                   ELSE << >>

EVMEntryAction(s) ==
  CASE s = "Processing" -> << << "start", "evm" >> >>
    [] s = "Draining"   -> << << "spawn", s >> >>
    [] OTHER            -> << >>

RUIEntryAction(s) == IF s = "Enabled" THEN << << "start", "rui" >> >> ELSE << >>

EntryAction(s) ==
  CASE s \in {"Configuring", "Clearing"} -> << << "spawn", s >> >>
    [] app = "RU"  -> RUEntryAction(s)
    [] app = "BU"  -> BUEntryAction(s)
    [] app = "EVM" -> EVMEntryAction(s)
    [] OTHER       -> RUIEntryAction(s)

RUExitAction(s) == IF s = "Enabled" THEN Stopping("ru") ELSE << >>

\* Stopping the disk writer closes the files and removes a directory, which may fail.
BUExitAction(s) ==
  IF s = "Enabled" THEN Stopping("bu") \o << << "awaitOld", "bu" >> >> \o Stopping("eventTable")
                          \o Stopping("diskWriter") \o << << "attempt", "exit" >> >>
                   ELSE << >>

EVMExitAction(s) ==
  CASE s = "Processing" -> Stopping("evm") \o << << "awaitOld", "evm" >>, << "keep", "l1InfoHandler" >> >>
    [] s = "Draining"   -> << << "cancel", s >> >>
    [] OTHER            -> << >>

RUIExitAction(s) == IF s = "Enabled" THEN Stopping("rui") ELSE << >>

ExitAction(s) ==
  CASE s \in {"Configuring", "Clearing"} -> << << "cancel", s >> >>
    [] app = "RU"  -> RUExitAction(s)
    [] app = "BU"  -> BUExitAction(s)
    [] app = "EVM" -> EVMExitAction(s)
    [] OTHER       -> RUIExitAction(s)

\* All of a transition: leave states, the transition's own action, enter states.
Transition(from, event) ==
  LET s      == Head(Reacting(Chart[app], from, event))
      exits  == Exits(Chart[app], from, s, Chart[app][s].on[event])
      enters == Entries(Chart[app], s, Chart[app][s].on[event])
      actions == [i \in DOMAIN exits |-> ExitAction(exits[i])]
                   \o (IF s = "AllOk" THEN << << << "fail", s >> >> >> ELSE << >>)
                   \o [i \in DOMAIN enters |-> EntryAction(enters[i])]
  IN  [to |-> Last(enters), steps |-> SelectSeq(actions, LAMBDA x : x # << >>)]

(***************************************************************************)
(* Processing an event.                                                    *)
(***************************************************************************)

\* send_event: a state reacts and the transition starts.
StartTransition(from, event) ==
  LET transition == Transition(from, event)
  IN  heading' = transition.to /\ todo' = transition.steps

\* processFSMEvent gets the exclusive lock, and a state reacts.
ProcessFSMEvent(t) ==
  /\ wants[t] # None /\ mover = None /\ ~callback
  /\ Reacting(Chart[app], leaf, wants[t]) # << >>
  /\ StartTransition(leaf, wants[t])
  /\ mover' = t
  /\ UNCHANGED << app, leaf, stateName, posted, wants, commands, callback, activity, loops, filled >>

\* No state reacts: unconsumed_event.
EventNotSupported(t) ==
  /\ wants[t] # None /\ mover = None /\ ~callback
  /\ Reacting(Chart[app], leaf, wants[t]) = << >>
  /\ wants' = [wants EXCEPT ![t] = None]
  /\ stateName' = leaf
  /\ UNCHANGED << app, leaf, heading, mover, todo, posted, commands, callback, activity, loops, filled >>

\* The next instruction of the transition is (op, x).
IsNext(op, x) == mover # None /\ todo # << >> /\ Head(Head(todo)) = << op, x >>

Executes(op, x) ==
  /\ IsNext(op, x)
  /\ todo' = IF Len(Head(todo)) = 1 THEN Tail(todo) ELSE [todo EXCEPT ![1] = Tail(@)]
  /\ UNCHANGED << app, leaf, heading, mover, wants, commands, callback >>

\* entryAction of Configuring, Clearing and Draining: a detached thread.
Spawn(s) ==
  /\ Executes("spawn", s)
  /\ LET free == SelectSeq(ThreadNames, LAMBDA t : activity[t] = NoActivity) IN
        /\ free # << >>
        /\ activity' = [activity EXCEPT ![Head(free)] = [state |-> s, alive |-> TRUE,
             rest |-> CASE s = "Configuring" -> Configuration[app] [] s = "Clearing" -> << ToClear[app] >>
                        [] OTHER -> << >>]]
  /\ UNCHANGED << stateName, posted, loops, filled >>

\* Their exitAction: the flag is reset, the thread is detached and not waited for, and
\* the state with the flag is freed.
Cancel(s) ==
  /\ Executes("cancel", s)
  /\ activity' = [n \in Slots |-> IF activity[n].state = s THEN [activity[n] EXCEPT !.alive = FALSE]
                                                           ELSE activity[n]]
  /\ UNCHANGED << stateName, posted, loops, filled >>

StartProcessing(g) ==
  /\ Executes("start", g)
  /\ doProcessing' = [doProcessing EXCEPT ![g] = TRUE]
  /\ queue' = [l \in Loops |-> IF GroupOf[l] = g THEN Append(queue[l], "process") ELSE queue[l]]
  /\ UNCHANGED << stateName, posted, activity, active, at, pending, scheduling, filled >>

StopProcessing(g) ==
  /\ Executes("stop", g)
  /\ doProcessing' = [doProcessing EXCEPT ![g] = FALSE]
  /\ UNCHANGED << stateName, posted, activity, active, queue, at, pending, scheduling, filled >>

\* while (processActive_) usleep
AwaitInactive(l) ==
  /\ ~active[l]
  /\ Executes("await", l)
  /\ UNCHANGED << stateName, posted, activity, loops, filled >>

\* while (sendOldMessagesActionPending_) usleep
AwaitOldMessages(l) ==
  /\ ~pending
  /\ Executes("awaitOld", l)
  /\ UNCHANGED << stateName, posted, activity, loops, filled >>

\* enqCurrentLumiSectionInfo: something, if there were triggers.
KeepLumiInfo ==
  /\ Executes("keep", "l1InfoHandler")
  /\ filled' \in {filled, filled \cup {"l1InfoHandler"}}
  /\ UNCHANGED << stateName, posted, activity, loops >>

\* Faulty variant: the name is only set by processFSMEvent.
FailEvent_NoName ==
  /\ Executes("fail", "AllOk")
  /\ UNCHANGED << stateName, posted, activity, loops, filled >>

\* failEvent
FailEvent ==
  /\ Executes("fail", "AllOk")
  /\ stateName' = "Failed"
  /\ UNCHANGED << posted, activity, loops, filled >>

\* The parts of an entry or exit action that write to disk succeed ...
AttemptSucceeds ==
  /\ \E x \in {"entry", "exit"} : Executes("attempt", x)
  /\ UNCHANGED << stateName, posted, activity, loops, filled >>

\* ... or raise an exception: the rest of the action is skipped and Fail is posted.
AttemptFails ==
  /\ \E x \in {"entry", "exit"} \cap MayFail[app] : IsNext("attempt", x)
  /\ todo' = Tail(todo)
  /\ posted' = posted + 1
  /\ UNCHANGED << app, leaf, heading, stateName, mover, wants, commands, callback, activity, loops, filled >>

\* The target is reached, and process_queued_events takes a posted Fail.
TakePostedFail ==
  /\ mover # None /\ todo = << >> /\ posted > 0
  /\ leaf' = heading
  /\ posted' = posted - 1
  /\ StartTransition(heading, "Fail")
  /\ UNCHANGED << app, stateName, mover, wants, commands, callback, activity, loops, filled >>

\* The target is reached: processFSMEvent sets the name of the state and unlocks. A
\* callback that has failed only had its own shared lock.
Arrive ==
  /\ mover # None /\ todo = << >> /\ posted = 0
  /\ leaf' = heading
  /\ mover' = None
  /\ IF mover = "callback"
     THEN callback' = FALSE /\ UNCHANGED << stateName, wants >>
     ELSE stateName' = heading /\ wants' = [wants EXCEPT ![mover] = None] /\ UNCHANGED callback
  /\ UNCHANGED << app, heading, todo, posted, commands, activity, loops, filled >>

(***************************************************************************)
(* The client sends any command at any time, but for one: it waits for the *)
(* reply to the last.                                                      *)
(***************************************************************************)

Settled == mover = None /\ (\A t \in Threads : wants[t] = None) /\ ~callback
Transient == {"Configuring", "Clearing", "Draining"}

\* The threads that a command starts, and those that follow from it, fit in Slots.
HasRoom(e) ==
  e \in {"Configure", "Stop", "Clear"} => Cardinality({n \in Slots : activity[n] = NoActivity}) >= 2

Command(e) ==
  /\ commands < MaxCommands[app] /\ HasRoom(e)
  /\ wants["client"] = None
  /\ commands' = commands + 1
  /\ wants' = [wants EXCEPT !["client"] = e]
  /\ UNCHANGED << app, machine, callback, activity, loops, filled >>

(***************************************************************************)
(* The threads of Configuring, Clearing and Draining.                      *)
(***************************************************************************)

\* if (doConfiguring_): once the state is gone, its flag is freed memory.
Flag(n) == IF activity[n].alive THEN {TRUE} ELSE BOOLEAN

Asks(t, e) == wants' = [wants EXCEPT ![t] = e]

\* Components are configured or cleared, or skipped. The two handlers of the EVM are
\* not emptied: clear waits until their own loops have done it.
TreatPart(n) ==
  /\ activity[n].state \in {"Configuring", "Clearing"} /\ wants[n] = None
  /\ activity[n].rest # << >> /\ Head(activity[n].rest) # << >>
  /\ Head(Head(activity[n].rest)) \in filled => FALSE \in Flag(n)
  /\ activity' = [activity EXCEPT ![n].rest[1] = Tail(@)]
  /\ UNCHANGED << app, machine, wants, commands, callback, loops, filled >>

\* It raises an exception: Fail, and on to the next try block.
TreatPartFails(n) ==
  /\ "activity" \in MayFail[app]
  /\ activity[n].state \in {"Configuring", "Clearing"} /\ wants[n] = None
  /\ activity[n].rest # << >> /\ Head(activity[n].rest) # << >>
  /\ TRUE \in Flag(n)
  /\ activity' = [activity EXCEPT ![n].rest = Tail(@)]
  /\ Asks(n, "Fail")
  /\ UNCHANGED << app, machine, commands, callback, loops, filled >>

NextTryBlock(n) ==
  /\ activity[n].state \in {"Configuring", "Clearing"} /\ wants[n] = None
  /\ Len(activity[n].rest) > 1 /\ Head(activity[n].rest) = << >>
  /\ activity' = [activity EXCEPT ![n].rest = Tail(@)]
  /\ UNCHANGED << app, machine, wants, commands, callback, loops, filled >>

\* ConfigureDone or ClearDone ends the last try block.
AllTreated(n) ==
  /\ activity[n].state \in {"Configuring", "Clearing"} /\ wants[n] = None
  /\ activity[n].rest = << << >> >>
  /\ activity' = [activity EXCEPT ![n].rest = << >>]
  /\ \E flag \in Flag(n) :
        IF flag THEN Asks(n, IF activity[n].state = "Configuring" THEN "ConfigureDone" ELSE "ClearDone")
                ELSE UNCHANGED wants
  /\ UNCHANGED << app, machine, commands, callback, loops, filled >>

ActivityEnds(n) ==
  /\ activity[n].state \in {"Configuring", "Clearing"} /\ wants[n] = None
  /\ activity[n].rest = << >>
  /\ activity' = [activity EXCEPT ![n] = NoActivity]
  /\ UNCHANGED << app, machine, wants, commands, callback, loops, filled >>

\* isDraining: the builder says it is flushed (which the monitoring may have said long
\* ago), and the handlers are empty ...
DrainingDone(n) ==
  /\ activity[n].state = "Draining" /\ wants[n] = None /\ TRUE \in Flag(n)
  /\ filled = {}
  /\ activity' = [activity EXCEPT ![n].state = "drained"]
  /\ Asks(n, "DrainingDone")
  /\ UNCHANGED << app, machine, commands, callback, loops, filled >>

\* ... or no event was built for drainingTimeOutSec. Otherwise it is asked again.
Blocked(n) ==
  /\ activity[n].state = "Draining" /\ wants[n] = None /\ TRUE \in Flag(n)
  /\ activity' = [activity EXCEPT ![n].state = "drained"]
  /\ Asks(n, "Blocked")
  /\ UNCHANGED << app, machine, commands, callback, loops, filled >>

DrainingEnds(n) ==
  /\ wants[n] = None
  /\ \/ activity[n].state = "drained"
     \/ activity[n].state = "Draining" /\ FALSE \in Flag(n)
  /\ activity' = [activity EXCEPT ![n] = NoActivity]
  /\ UNCHANGED << app, machine, wants, commands, callback, loops, filled >>

(***************************************************************************)
(* The work loops. A "waiting" work loop takes the next action submitted to*)
(* it; an action that returns true is submitted again.                     *)
(***************************************************************************)

Goes(l, to) == at' = [at EXCEPT ![l] = to]
Sets(l, flag) == active' = [active EXCEPT ![l] = flag]

\* process, writing, generating and sending: processActive_ is set first of all. A round
\* that is not asked for any more is "late".
Wake(l) ==
  /\ at[l] = "waiting" /\ queue[l] # << >> /\ Head(queue[l]) = "process"
  /\ queue' = [queue EXCEPT ![l] = Tail(@)]
  /\ Sets(l, TRUE)
  /\ Goes(l, IF l \notin Heedless THEN "looping" ELSE IF doProcessing[GroupOf[l]] THEN "working" ELSE "late")
  /\ UNCHANGED << app, machine, wants, commands, callback, activity, doProcessing, pending, scheduling, filled >>

\* while (doProcessing_): before the first round, and after each in Work.
GoOn(l) == IF doProcessing[GroupOf[l]] THEN "working" ELSE "leaving"

LookAtFlag(l) ==
  /\ at[l] = "looping"
  /\ Goes(l, GoOn(l))
  /\ UNCHANGED << app, machine, wants, commands, callback, activity, doProcessing, active, queue, pending, scheduling, filled >>

\* A round. All but the RU's loop end when there is no work left. The EVM's hands
\* information over to the handlers. The queues between the BU's loops have room for all
\* events that it has resources for: no round waits for another loop.
Work(l) ==
  /\ at[l] \in {"working", "late"}
  /\ filled' \in {filled \cup more : more \in SUBSET {h \in FreeHandlers : l = "evm"}}
  /\ \/ l \notin Heedless /\ Goes(l, GoOn(l))
     \/ l # "ru" /\ Goes(l, "leaving")
  /\ UNCHANGED << app, machine, wants, commands, callback, activity, doProcessing, active, queue, pending, scheduling >>

\* FEROL2proxy waits for the fragment of each FED, whatever becomes of doProcessing_.
WaitForFragment(l) ==
  /\ l = "ru" /\ at[l] = "working"
  /\ Goes(l, "starved")
  /\ UNCHANGED << app, machine, wants, commands, callback, activity, doProcessing, active, queue, pending, scheduling, filled >>

Errors(l) == IF l = "ru" THEN {"MismatchDetected", "TimedOut", "Fail"} ELSE {"Fail"}

\* Faulty variant: processActive_ is reset after the event is processed.
WorkFails_StillActive(l) ==
  /\ at[l] \in {"working", "late"}
  /\ IF l = "writer" THEN "writing" \in MayFail[app] ELSE app # "RUI" /\ "process" \in MayFail[app]
  /\ Goes(l, "asking")
  /\ \E e \in Errors(l) : Asks(l, e)
  /\ UNCHANGED << app, machine, commands, callback, activity, doProcessing, active, queue, pending, scheduling, filled >>

\* The round raises an exception: processActive_ is reset before the event is processed.
WorkFails(l) ==
  /\ at[l] \in {"working", "late"}
  /\ IF l = "writer" THEN "writing" \in MayFail[app] ELSE app # "RUI" /\ "process" \in MayFail[app]
  /\ Sets(l, FALSE)
  /\ Goes(l, "asking")
  /\ \E e \in Errors(l) : Asks(l, e)
  /\ UNCHANGED << app, machine, commands, callback, activity, doProcessing, queue, pending, scheduling, filled >>

\* The event was processed. The RU's loop goes on as long as doProcessing_ is set.
Asked(l) ==
  /\ at[l] = "asking" /\ wants[l] = None
  /\ Goes(l, IF l = "ru" THEN "looping" ELSE "leaving")
  /\ UNCHANGED << app, machine, wants, commands, callback, activity, doProcessing, active, queue, pending, scheduling, filled >>

\* processActive_ = false; return doProcessing_
Leave(l) ==
  /\ at[l] = "leaving"
  /\ Sets(l, FALSE)
  /\ queue' = [queue EXCEPT ![l] = IF doProcessing[GroupOf[l]] THEN Append(@, "process") ELSE @]
  /\ Goes(l, "waiting")
  /\ UNCHANGED << app, machine, wants, commands, callback, activity, doProcessing, pending, scheduling, filled >>

\* oldMsgSenderScheduler looks at the flags ...
Schedule(l) ==
  /\ l \in OldSender /\ ~scheduling
  /\ doProcessing[GroupOf[l]] /\ ~pending
  /\ scheduling' = TRUE
  /\ UNCHANGED << app, machine, wants, commands, callback, activity, doProcessing, active, queue, at, pending, filled >>

\* ... and submits sendOldMessages. stopProcessing does not take its mutex.
Submit(l) ==
  /\ l \in OldSender /\ scheduling
  /\ queue' = [queue EXCEPT ![l] = Append(@, "sendOldMessages")]
  /\ pending' = TRUE
  /\ scheduling' = FALSE
  /\ UNCHANGED << app, machine, wants, commands, callback, activity, doProcessing, active, at, filled >>

SendOldMessages(l) ==
  /\ at[l] = "waiting" /\ queue[l] # << >> /\ Head(queue[l]) = "sendOldMessages"
  /\ queue' = [queue EXCEPT ![l] = Tail(@)]
  /\ Goes(l, "sending old")
  /\ UNCHANGED << app, machine, wants, commands, callback, activity, doProcessing, active, pending, scheduling, filled >>

\* Both kinds of old messages are sent; afterwards more can be submitted.
OldMessagesSent(l) ==
  /\ at[l] \in {"sending old", "sending rest", "old sent"} /\ wants[l] = None /\ ~scheduling
  /\ pending' = FALSE
  /\ Goes(l, "waiting")
  /\ UNCHANGED << app, machine, wants, commands, callback, activity, doProcessing, active, queue, scheduling, filled >>

\* One kind fails. The BU lets more be submitted before it asks for Fail, the EVM after.
SendOldMessagesFails(l) ==
  /\ at[l] \in {"sending old", "sending rest"} /\ wants[l] = None
  /\ "sendOldMessages" \in MayFail[app] /\ ~scheduling
  /\ Goes(l, IF at[l] = "sending old" THEN "sending rest" ELSE "old sent")
  /\ Asks(l, "Fail")
  /\ pending' = (pending /\ app = "EVM")
  /\ UNCHANGED << app, machine, commands, callback, activity, doProcessing, active, queue, scheduling, filled >>

(***************************************************************************)
(* The loops of the EVM that run in every state. Nothing they do reaches   *)
(* the state machine: what they raise is only reported.                    *)
(***************************************************************************)

\* L1Info and L1Scalers get to the end of their queues; skipped lumi sections are sent to
\* the EoLSHandler.
EmptyL1InfoHandler ==
  /\ "l1InfoHandler" \in filled
  /\ filled' \in {filled \ {"l1InfoHandler"}, {"eolsHandler"}}
  /\ UNCHANGED << app, machine, wants, commands, callback, activity, loops >>

EoLSSignalSender ==
  /\ "eolsHandler" \in filled
  /\ filled' = filled \ {"eolsHandler"}
  /\ UNCHANGED << app, machine, wants, commands, callback, activity, loops >>

(***************************************************************************)
(* I2O messages.                                                           *)
(***************************************************************************)

\* processEvent gets the shared lock when nobody has or waits for the exclusive one;
\* the message goes to a component if the current state is inside Processing.
Receive ==
  /\ Settled
  /\ MessageFate(Chart[app], leaf) = "process"
  /\ callback' = TRUE
  /\ UNCHANGED << app, machine, wants, commands, activity, loops, filled >>

\* The component takes it. It may be what the RU waits for.
Received ==
  /\ callback /\ mover = None
  /\ callback' = FALSE
  /\ at' \in {at} \cup {[at EXCEPT !["ru"] = "working"] : l \in {k \in Loops : at[k] = "starved"}}
  /\ UNCHANGED << app, machine, wants, commands, activity, doProcessing, active, queue, pending, scheduling, filled >>

\* The handler catches what the component throws, and processes Fail on the spot.
ReceiveFails ==
  /\ callback /\ mover = None /\ "callback" \in MayFail[app]
  /\ StartTransition(leaf, "Fail")
  /\ mover' = "callback"
  /\ UNCHANGED << app, leaf, stateName, posted, wants, commands, callback, activity, loops, filled >>

(***************************************************************************)
(* The specification.                                                      *)
(***************************************************************************)

Init ==
  /\ app \in Apps
  /\ leaf = "Halted" /\ heading = "Halted" /\ stateName = "Halted"
  /\ mover = None /\ todo = << >> /\ posted = 0
  /\ wants = [t \in Threads |-> None] /\ commands = 0 /\ callback = FALSE
  /\ activity = [n \in Slots |-> NoActivity]
  /\ doProcessing = [g \in DOMAIN Groups[app] |-> FALSE]
  /\ active = [l \in Loops |-> FALSE]
  /\ queue = [l \in Loops |-> << >>]
  /\ at = [l \in Loops |-> "waiting"]
  /\ pending = FALSE /\ scheduling = FALSE
  /\ filled = {}

\* The steps of the thread that moves the machine.
MoverStep ==
  \/ KeepLumiInfo \/ FailEvent \/ AttemptSucceeds \/ AttemptFails
  \/ TakePostedFail \/ Arrive
  \/ \E s \in Transient : Spawn(s) \/ Cancel(s)
  \/ \E g \in DOMAIN Groups[app] : StartProcessing(g) \/ StopProcessing(g)
  \/ \E l \in Loops : AwaitInactive(l) \/ AwaitOldMessages(l)

ThreadStep(n) ==
  \/ TreatPart(n) \/ TreatPartFails(n) \/ NextTryBlock(n) \/ AllTreated(n) \/ ActivityEnds(n)
  \/ DrainingDone(n) \/ Blocked(n) \/ DrainingEnds(n)

LoopStep(l) ==
  \/ Wake(l) \/ LookAtFlag(l) \/ Work(l) \/ WorkFails(l) \/ Asked(l) \/ Leave(l)
  \/ SendOldMessages(l) \/ OldMessagesSent(l) \/ SendOldMessagesFails(l)

SchedulerStep(l) == Schedule(l) \/ Submit(l)

Next ==
  \/ KeepLumiInfo \/ FailEvent \/ AttemptSucceeds \/ AttemptFails
  \/ TakePostedFail \/ Arrive
  \/ \E s \in Transient : Spawn(s) \/ Cancel(s)
  \/ \E g \in DOMAIN Groups[app] : StartProcessing(g) \/ StopProcessing(g)
  \/ \E l \in Loops : AwaitInactive(l) \/ AwaitOldMessages(l)
  \/ \E t \in Threads : ProcessFSMEvent(t) \/ EventNotSupported(t)
  \/ \E e \in SoapCommands[app] : Command(e)
  \/ \E n \in Slots : ThreadStep(n)
  \/ \E l \in Loops : LoopStep(l) \/ WaitForFragment(l) \/ SchedulerStep(l)
  \/ EmptyL1InfoHandler \/ EoLSSignalSender
  \/ Receive \/ Received \/ ReceiveFails

Spec == Init /\ [][Next]_vars

\* What ProcessFSMEvent and EventNotSupported have in common: a thread has got the lock,
\* and its event is being processed or was not consumed.
TakenUp(t) ==
  /\ mover = None /\ ~callback /\ wants[t] # None
  /\ \/ mover' = t /\ wants' = wants
     \/ mover' = None /\ wants' = [wants EXCEPT ![t] = None]

\* The threads run, and threads that want the lock get it in the end. The draining ends
\* because, once no triggers are asked for, the number of confirmed events stops growing
\* and the timer fires. Nothing is assumed of the client, of failures and of messages. A
\* callback waits for room in its queue: it ends unless the loops that make room wait
\* for the lock or for a fragment.
Fairness ==
  /\ WF_vars((mover # None /\ MoverStep) \/ (\E n \in Slots : ThreadStep(n)))
  /\ WF_<< mover, wants >>(\E t \in Threads : TakenUp(t))
  /\ \A peers \in Peers : WF_vars(\E l \in Loops \cap peers : LoopStep(l))
  /\ WF_vars((\A l \in Loops : wants[l] = None /\ at[l] # "starved") /\ Received)
  /\ WF_vars(EmptyL1InfoHandler \/ EoLSSignalSender)
  /\ WF_vars(\E l \in OldSender : Submit(l))

FairSpec == Spec /\ Fairness

(***************************************************************************)
(* Properties.                                                             *)
(***************************************************************************)

\* The variables have the values that the comments above say.
TypeOK ==
  /\ app \in Apps
  /\ {leaf, heading, stateName} \subseteq DOMAIN Chart[app]
  /\ Chart[app][leaf].initial = None
  /\ mover \in Threads \cup {"callback", None}
  /\ posted \in 0 .. 2
  /\ commands \in 0 .. MaxCommands[app]
  /\ callback \in BOOLEAN
  /\ DOMAIN active = Loops /\ DOMAIN at = Loops /\ DOMAIN queue = Loops
  /\ \A g \in DOMAIN doProcessing : doProcessing[g] \in BOOLEAN
  /\ filled \subseteq FreeHandlers

InProcessing == "Processing" \in ToSet(Outward(Chart[app], leaf))

\* The thread of a state that has not been left is configuring or clearing components.
Treating == \E n \in Slots : activity[n].alive /\ activity[n].state # "Draining" /\ activity[n].rest # << >>

\* The RU's loop went on after it had reported an error and reset processActive_, because
\* doProcessing_ was set again by then: no stop waits for it.
Unawaited(l) == l = "ru" /\ ~active[l]

\* Once a transition has left Processing, and while components are configured or cleared,
\* no callback is in a component and no loop is in a round that it began before it was
\* told to stop. This is what processActive_ and the two kinds of locks are for. Exempt
\* are a loop that is Unawaited and the writers, who share one writingActive_.
QuietOutsideProcessing ==
  Treating \/ (mover = None /\ ~InProcessing) =>
    ~callback /\ \A l \in Loops \ {"writer"} : at[l] \in {"working", "starved"} => Unawaited(l)

\* While an application is Enabled, each of its loops is running or submitted: none is
\* lost between a stop and the next start.
EnabledRuns ==
  mover = None /\ leaf \in {"Enabled", "Draining"} =>
    \A l \in Loops : /\ doProcessing[GroupOf[l]]
                     /\ "process" \in ToSet(queue[l]) \/ at[l] \notin {"waiting", "sending old", "sending rest", "old sent"}

\* The loops and callbacks follow the state: they work while the application is Enabled
\* and leave the components alone outside Processing, whatever is commanded and fails.
LoopsFollowState == QuietOutsideProcessing /\ EnabledRuns

\* When nothing is going on, the state name that is reported is that of the state.
StateNameIsTrue == Settled => stateName = leaf

\* stopProcessing waits for old messages that the waiting thread itself has to send, or
\* that are sent by a thread that waits for the lock.
SelfWait == pending /\ \E l \in OldSender : IsNext("awaitOld", l) /\ wants[l] # None

\* A work loop waits for the exclusive lock, and a callback, with the shared lock, for the
\* loop to make room in its queue.
NoRoom == callback /\ \E l \in Loops : wants[l] # None

\* A stop or a callback waits for the RU's loop, and the loop for a fragment that can no
\* longer arrive: messages need the lock that the stop or the callback has.
Starved == \E l \in Loops : at[l] = "starved" /\ (callback \/ IsNext("await", l))

\* Every command, every activity and every failure ends in a state that lasts, unless
\* threads wait for themselves or for each other in one of these three ways.
AlwaysSettles == []<>((Settled /\ leaf \notin Transient) \/ SelfWait \/ NoRoom \/ Starved)
=============================================================================
