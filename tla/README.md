# A formal model of the RU builder

The RU builder assembles collision events of the CMS experiment. An event
manager (EVM) gives every trigger an identifier; readout units (RUs) hold one
part of each event (a super-fragment); builder units (BUs) ask the EVM for
events, fetch the parts from all RUs, and pass the complete event on to a file
or to a filter unit (FU). The applications are C++ on top of XDAQ and exchange
I2O messages; inside each of them, several threads (I2O and SOAP callbacks, and
XDAQ "workloops") share queues, maps and flags.

This directory holds TLA+ modules for the parts where that concurrency matters,
configurations with which TLC checks them on small instances, and proofs,
checked by TLAPS, of what holds for instances of any size.

Paths are relative to the root of the repository.

## Inventory

| part | state | operations | talks to |
|---|---|---|---|
| EVM main loop, `src/evm/src/common/EVM.cc` | events in the builder, id factory | `doWork`: a release, a trigger, a request per round | EVM's proxies |
| EVM `BUproxy` | `evbIdMap_`, event queue, request, notice and release queues | `I2Ocallback`, `addEvent`, `serviceBuRqst`, `processNextReleasedEvent`, `sendEoLSmsg` | BUs (requests, releases; confirms, notices) |
| EVM `RUproxy`, `RUbroadcaster` | the message under construction | `addEvBid`, flush | RUs (ids of triggers) |
| `EvBidFactory`, `EvBid` | last event number, resync count | `getEvBid`, `reset` | EVM, RU inputs |
| `LumiSectionTable` | events in the builder per lumi section (LS) | increment, decrement, `sendEoLSsignal` | `EoLSHandler` |
| `EoLSHandler` | queue of completed LS | `send`, sender workloop | EVM `BUproxy` |
| `L1InfoHandler`, `SMproxy` | queues, current LS | `extractL1Info`, `addLumiSectionInfo`, skipped LS | `EoLSHandler`, storage manager |
| trigger sources `TRGproxy`, `TAhandler`, `GTPehandler`, `FEROLhandler` | trigger queue, credits | `getNextTrigger`, credits | trigger adapter (TA) |
| BU `EventTable`, `Event` | slot per resource, complete, discarded and free resources | `startConstruction`, `appendSuperFragment`, `handleDiscards`, outputs | all BU parts |
| BU `EVMproxy`, `RUproxy` | messages under construction, queues of triggers and blocks | callbacks, packing, flush of old messages | EVM, RUs |
| BU `FUproxy` | queue of FU requests | requests, discards, EoLS broadcast | FUs |
| BU `DiskWriter`, `LumiHandler`, `FileHandler` | queues, files of each LS, counts | `writeEvent`, `closeLS`, processing and writing workloops | `EventTable`, disk |
| BU `DiskUsage` | water marks | `update`, `tooHigh` | `EventTable` (requests on or off) |
| RU main loop, `EVMproxy` | queue of ids | `process`: id, data, table; timeout | table, input |
| RU input: `FBOproxy`, `FEROLproxy`, `FEROL2proxy`, `DummyInputData` | partial super-fragments | `I2Ocallback`, `getData` | front end |
| RU `SuperFragmentTable`, `BUproxy` | data without request, requests without data | `addEvBidAndBlock`, `addRequest` | BUs |
| state machines of EVM, RU, BU | state, activity thread | configure, clear, enable, stop, fail | SOAP, all workloops |
| `OneToOneQueue`, `OneToOneQueueCollection` | ring buffer(s) | `enq`, `deq`, `resize` | every pair of threads above |
| `TimerManager` | timers | `initTimer`, `restartTimer`, `isFired` | RU timeout, old messages |
| state-machine base, `src/utils/include/rubuilder/utils/RubuilderStateMachine.h`, on Boost.Statechart | current state, locks, posted events | `processEvent` (shared lock), `processFSMEvent` (exclusive lock) | SOAP client, I2O, workloops |
| `ParticipatingRUs`: instances or fragment sets, `RUbroadcaster` | list of RUs | `getRuInstances`, `sendToAllRUs` | EVM and BU `RUproxy` |
| super-fragments: `SuperFragmentGenerator`, `SuperFragmentTracker`, `EventUtils` | event number, position in block and FED | `getData`; `checkBlock`, `checkCRC` | RU, TA, RUI (writers); EVM, BU, FU (readers) |
| performance counters of each application | counters, samples, rates, monitored items | update, retrieve, reset | monitoring loop |
| RUI, TA, FU: emulators of what surrounds the event builder | chart, credits, requests, counters | their workloops and callbacks | RU, EVM, BU |
| tester | which applications were configured and enabled | `startTest`, `stopTest` | all applications |
| web pages, parameters | | | |

What makes it hard:

- **interleaving**: queues without locks between every two threads; flags that
  several workloops set; check-then-act on two queues;
- **ordering**: ids, data and requests reach an RU in any order relative to each
  other; the end of an LS must not overtake its events;
- **identity**: events are matched by resource id in the BU, by event-builder id
  in the RU and by position in the front end, and event numbers start again
  after a resync;
- **faults**: lost, repeated and unexpected fragments, timeouts, full queues,
  full disks;
- **stop and restart** in the middle of all this, with locks that callbacks,
  activity threads and workloops wait for;
- **agreement**: an event is only complete if EVM and BU mean the same RUs, and a
  broadcast may reach some of them only;
- **numbers**: counters that wrap, are reset under a running reader, or are
  compared with one another.

`PROJECT.json` lists every component with its status, and every hazard with the
line at which it bites and the properties that cover it.

## Modules

| module | models | extends |
|---|---|---|
| `EvBidFactory` | event-builder ids | |
| `EventIdProtocol` | ids, resources, EoLS notices between EVM and BUs | `EvBidFactory` |
| `ReadoutUnit` | an RU with its sources, the four kinds of input | `EvBidFactory` |
| `DiskWriter` | the disk writer of a BU (actions only) | |
| `BuilderUnit` | a BU: event table, proxies, FU requests, disk writer | `DiskWriter` |
| `BoundedFIFO` | what a queue promises | |
| `OneToOneQueue` | the ring buffer, access by access; refines `BoundedFIFO` | |
| `OneToOneQueueCollection` | queues per BU, served in turn or fullest first (operators) | |
| `Participants` | which RUs and storage managers take part (operators) | |
| `RoundTrip` | EVM, RUs and BUs together, message by message, configured and halted | the last two |
| `Statechart` | how Boost.Statechart runs a chart, and the four charts | |
| `ApplicationControl` | EVM, RU, BU, RUI under commands, loops, callbacks and failures | `Statechart` |
| `L1InfoHandler` | scalers per LS, skipped LS, draining and clearing | |
| `SuperFragmentReaders` | checks of EVM, BU and FU (operators) | |
| `SuperFragments` | the generator, memory that runs out, damage, and the readers | the former, `EvBidFactory` |
| `TriggerAdapter` | the credits between EVM and TA (actions) | |
| `FilterUnit` | the FU and the BU's `FUproxy` (actions) | `TriggerAdapter` |
| `TestRun` | the tester, and the whole system as far as it sees it | `FilterUnit` |
| `Monitoring` | counters, rates, resets and retrieval in six applications | |
| `MC*` | instances for TLC | |
| `EvBidFactory_proofs`, `OneToOneQueue_proofs`, `ReadoutUnit_proofs`, `BuilderUnit_proofs`, `L1InfoHandler_proofs`, `RoundTrip_proofs`, `EventIdProtocol_proofs`, `TestRun_proofs` | theorems | the module proved about |

How they fit. `EventIdProtocol` looks at the EVM in full and reduces a BU to its
resources. `BuilderUnit` looks at the BU in full and reduces the EVM to what
`EventIdProtocol` shows of it: requests are answered once and in order, and an
LS ends when all its events are released. `ReadoutUnit` takes the ids in the
order in which the EVM issues them. `RoundTrip` puts the three together, without
their inner threads, and adds what lies between them: packing, broadcasts, who takes
part. `ApplicationControl` keeps the threads and the states of an application and
leaves out its data. `TestRun` has all applications in one system, each as
far as its commands, its credits and its requests go. The queues between
threads are atomic bounded sequences in these modules; `OneToOneQueue` shows why they
may be.

Conventions. Actions and variables have the names of the functions and members
they stand for. A thread that polls with `usleep` until a queue has room is an
action that is disabled until it has. An exception is a value of `failure`, or moves
the application to Failed. Monitoring counters are in `Monitoring` only; web pages and
log messages are left out. A trailing detail that a module leaves out is named at the definition
(`EvmLumisection`: the broadcast to the FUs; `HandleEvents`: the check of the run number;
`NotFlushed`: the seconds of the interval). Definitions called `X_Something` next to an `X`,
introduced as faulty variants, are not part of the models: they are plausible
mistakes, with which each property was seen to fail.

### EventIdProtocol

Each action is one uninterrupted piece of one of the EVM's four threads, cut
where another thread also uses a queue: the I2O callback (`AnswerRequestWithEoLS`
to `ReleaseEvent`), the processing workloop `EVM::doWork` (`ProcessNextReleasedEvent`,
`SendEoLSsignal`, `AcceptTrigger`, `RejectLumiSection`, `RejectMalformedTrigger`,
`ServiceBuRqst`), the L1 workloop (`AnnounceSkippedLumiSection`,
`AddLumiSectionInfo`) and the EoLS workloop (`TakeCompletedLumiSection` to
`DropEoLS`). Network messages are sets: delivered once, in any order. Which BU is
served (round robin or fullest queue) is left open. Within a round of `doWork` the
three parts may run in any order; this allows more behaviours than the code has.
The raises of `BUproxy.cc:202-235`, for a BU without a descriptor and for messages that cannot
be sent, are left out.

### ReadoutUnit

An event is the position `k` of its trigger in the run; a fragment carries the `k`
it really belongs to, and the model can therefore say whether data are the right
ones while the code sees only event numbers. Every source may lose or repeat a
fragment, and a FED that is not configured may send one. The labels of the
failures mirror the code; without `FEDLIST_BITSET` the two texts for an unexpected and
for a repeated FED are swapped in `FEROLproxy.cc`, which concerns only the text.

A callback holds the shared lock of the state machine while it waits for room in a
queue. A workloop that has found an error (`workloop.at` in `Errors`) asks for the
exclusive lock (`ReportError`) and therefore waits for the callback, which waits for
the workloop to take something out of the queue: a real deadlock (`Deadlocked`;
`src/ru/src/common/EVMproxy.cc:53`, `FEROLproxy.cc:130`, `FEROL2proxy.cc:99`,
`FBOproxy.cc:91`). The two liveness properties exempt exactly this state, and
without the exemption TLC shows `LossDetected` violated. `LossDetected` also exempts the
FEROL2 input, which waits for a fragment without looking at the timer (`LossUnseen`).
`NoFalseAlarm` is about mismatches and failures; an RU without a fault may time out.

### DiskWriter and BuilderUnit

`EventTable::process` polls three queues in a fixed order, and
`DiskWriter::process` polls events before ends of LS. As an entry may arrive right
after its poll, any of them may be next, and the model lets any be next.
The reference counting of files is modelled (`Referenced`, `CloseUnreferenced`):
a file that its LS handler has replaced is closed, with its JSON file, when the
last event that was given it is dropped, not when it is full. `++eventCount_` is
two steps because it has no lock.

### OneToOneQueue

The two pointers are `volatile`, the slots are not. The model takes the accesses
of each thread in program order, as x86 executes them, and assumes that the
compiler keeps the store to a slot before the store to the pointer.

### Participants, OneToOneQueueCollection and RoundTrip

The receivers take messages apart element by element, so a connection is a sequence
of elements and packing decides only when the elements are posted. A super-fragment is
one block and a built event is discarded at once (`BuilderUnit` has the details); an
id is the number of its trigger. A broadcast goes from RU to RU in the order of
descriptor addresses, which is no order of the instances: any subset may have been
reached when it fails, and the message stays under construction. A halt comes
only when nothing is under way, and is followed by a configuration with the next
parameters; the request queues of the EVM and the turn among them survive it, as
in the code. EVM and BUs read the same parameter each for itself: the setups in
which they differ build no wrong event, but `EverythingBuilt` promises nothing for them.
`passed` and `joined` are counters of the model, not of the code: while a request of a BU waits, the
events given to other BUs and the queues created for other BUs. The turn goes to each new
queue (`OneToOneQueueCollection.h:209`), so a BU is passed over at most once by each other BU,
and as often again for each queue created meanwhile (`RoundRobinIsFair`).

### Statechart and ApplicationControl

`Statechart` defines what the library does with an event (which state reacts, which
states are left and entered, in which order) and the charts of EVM, RU, BU and RUI
as data. `ApplicationControl` steps through exits and entries instruction by
instruction while the other threads go on: the client, the threads of Configuring, Clearing
and Draining, the workloops, the sender of old messages with its scheduler, the callbacks, and
the loops of the EVM that run in every state (`FreeHandlers`: L1Info, L1Scalers and
EoLSSignalSender). The client sends any command at any time; it only waits for the reply
to the last one. So commands come while an activity is under way and while the thread of an
aborted one still runs. The build is the one with detached threads (no
`RUBUILDER_BOOST`); reading a flag of a state object that is gone gives any value (`Flag`).

The data is left out. Of the queues of the free loops it matters whether they are empty
(`filled`), since `clear` of the L1InfoHandler and of the EoLSHandler does not empty them but waits
until their loops have (`TreatPart`). What is left in them for the next run is
`L1InfoHandler`'s subject. A round of the RU's loop may end or wait for a fragment that only a
message can bring (`WaitForFragment`; `FEROL2proxy.cc:129`). The disk writer's
resource monitoring is not here: it starts and stops nothing.

What the properties exempt is reachable and named in the module:

- A round of the RUI's loops or of a writer that begins after the stop (`late`): they
  do not look at `doProcessing_` first. The writers are exempt altogether, since they share one
  `writingActive_` (`DiskWriter.cc:269`).
- An RU loop that reported an error, and went on because `doProcessing_` was set again by
  the time the report was processed: `processActive_` is not set, and no stop waits for it
  (`Unawaited`).
- Old messages may be sent outside Processing, since the scheduler checks and then submits
  (`BU.cc:225`, `EVM.cc:305`).
- `SelfWait`: `stopProcessing` waits for the end of the action that reported the failure and that waits
  for `stopProcessing` (`BU.cc:106`, `EVM.cc:146`).
- `NoRoom`: a callback waits for room while the loop that would make it waits for the lock.
- `Starved`: a stop (`RU.cc:138`) or a callback waits for the RU's loop, and the loop for a fragment
  that cannot arrive any more, as its message needs the lock.

### L1InfoHandler

Threads: the EVM's work loop that hands on triggers, the L1-info loop, the scalers
loop, the draining and clearing threads, which poll `empty()` (three reads, one after
another), and the exit of Processing, which may come at any time: `exitAction` waits for no
queue (`evm/StateMachine.cc:294`), and a draining may end early because
`ruBuilderIsFlushed_` is stale (`EVM.cc:95`). A run that ends while information waits in
`l1InfoFIFO` is `late`. What is waiting is then worked off after
`exitAction` has closed the current LS, so that an LS is opened that nobody closes; `clear`
does not look at it (`L1InfoHandler.cc:252`), and the next run inherits and publishes it. The
properties say how far this goes: only a late run leaves data
(`OnlyALateRunLeavesData`); publications are true until the first late run
(`PublishedIsTrue`); and each trigger is counted exactly once, late or not
(`EachTriggerCountedOnce`).

### SuperFragments

A block has words of 8 bytes and room in bytes. FEDs are cut into blocks
as the generator does it, header and trailer included; one damage may then happen to
an event: a block is lost, two neighbours are exchanged, the mark of the last segment
is flipped, a word is altered. A checksum stands for the words it covers. Payload
words are never taken for headers or trailers. The trigger's super-fragment is a single
FED in a single block. The FU does not see a wrong mark in the
trigger's block, and the BU neither computes checksums nor compares the number of
blocks with the one announced: `DamageIsSeen` says who sees what.

### TriggerAdapter, FilterUnit and TestRun

At most one application of each kind; TA, RUI and FU are optional. The tester's
start and stop are sequences of commands, each an action, and stop asks only the
applications that are there. `trouble` is chosen at the start: the TA loses triggers
for lack of memory, data are damaged, the FU exits after a number of events, the
entry into Enabled of TA or FU fails, an operator suspends and resumes the TA, or
nothing. The exchange between EVM and BU is one step (`BuildEvent`).

The tester's pause (`::sleep(1)`, `Application.cc:1754`) waits for nothing, and `Wait` has no guard. That
the second is long enough, for all applications to have left Configuring and for messages under way
to arrive, is an assumption: the conjunct `InTime` of `Spec`. Without it
TLC finds `PromisesConserved` and `NothingOfAnEarlierTest` violated.

`stopRequestingTriggers` runs in the SOAP thread while the work loop may be asking for
triggers; the two are interleaved statement by statement, with the lost update of
the credits this makes possible. The properties speak of the EVM while Enabled; the
surplus of credits that an underflow asks the TA for after a stop is not judged.

### Monitoring

One application at a time, of EVM, RU, RUI, BU with disk or with FU, TA, FU, with the
threads that count, the monitoring loop, the retrieval of parameters, and the reset
(in the SOAP thread on entering Processing; in TA and FU a message under
`applicationBSem_`). The EVM holds its mutex during the whole update
(`PerformanceLocked`), the others do not, and therefore promise a true rate from their
second sample on: their first sample of a run may mix two runs (`RUI.cc:96`). Of the counters only numbers of events, requests and the like are
taken; sizes, tables and last event numbers are left out. The time between two samples
is assumed not to be zero.

## Runs

| run | instance | shows |
|---|---|---|
| `protocol_two` | 2 BUs with 1 resource, one throttled, 3 triggers with the same event number (resyncs), LS 1 or 3 (so that LS 2 may be skipped and LS 1 be ended by its count) | resources, ids and counters are consistent; only the trigger can fail the EVM; no event of an announced LS is left, and each BU is told once, whether the LS was counted to its end or skipped |
| `protocol_live` | 1 BU with 2 resources, 2 ids, 3 triggers, LS 2 or 3 (so that LS 0 and 1 are skipped), a notice queue of 1 that may overflow | every event is released, every LS left behind is announced |
| `protocol_stranded` | 1 BU, 1 trigger that skips LS | **violated**: a notice and a request wait for each other |
| `queue` | capacities 0, 1, 3 | the ring buffer is an atomic bounded FIFO; its threads stay apart |
| `readout` | 4 inputs, 2 FEDs, 1 strange FED, 3 triggers with a resync, 1 fault | own data only; every id and every request at one place; no false alarm; requests are served; a lost fragment is noticed, but by FEROL2 |
| `builder_unit` | 2 resources, 2 RUs (one with 2 blocks), 3 events, an empty LS, all three outputs, 2 writers | nothing is lost or doubled; events are whole; the end of an LS counts all events, which are in their files; every event is released; every end of an LS reaches the disk |
| `round_trip` | 1 EVM, 2 RUs, 1 or 2 BUs, 15 setups | who takes part is what was asked for, after any earlier configuration; events have the super-fragments of all RUs; BUs take turns, also while queues are created; every trigger becomes an event |
| `control` | EVM, RU, BU, RUI, up to 4 commands at any time (RU 5), failures | outside Processing, and while components are configured or cleared, no loop and no callback works on them; no loop is lost from run to run; the reported state is the state; everything settles, but for the named ways to hang |
| `l1_scalers` | 3 triggers of 2 kinds, 3 LS, 2 runs, queues of 1 | until a run is late, publications count triggers exactly, skipped LS are announced once and `clear` leaves nothing; late or not, each trigger is counted once, and `clear` ends |
| `super_fragments` | 4 layouts, rooms of 8 to 48 bytes, fixed and random sizes | what the generator makes is accepted; damage is seen; ids increase |
| `test_run` | 6 sets of optional applications and kinds of trouble | if the tester's pause is long enough: credits and requests are conserved; nothing of an earlier test is left; events flow |
| `monitoring` | 7 variants of applications, 2 runs | rates are those of the run; in the end all items are true |

### What the violated run shows

`protocol_stranded` (`src/evm/src/common/BUproxy.cc:544`): `sendEoLSmsg` and
`requestEvent` look into each other's queue before they fill their own, with no
lock over both. The notice waits until the BU's next request.

### Bounds, and why they are enough

- `EventIdProtocol`: `MaxTriggers` ends the run. Three triggers exceed the two ids in
  the builder, so ids are exhausted and reused; the event numbers repeat, so every
  trigger after the first is a resync; `LumiSections` starts late and has a
  gap. In the run of two BUs the first LS is 1, so that it may end in both ways: counted to zero by the
  work loop when a trigger of a later one was seen, while the L1 workloop announces the gap. Two BUs are needed for
  notices that are half distributed, two resources for two messages of a BU that
  overtake each other.
- A request queue shorter than the number of a BU's resources makes
  `EveryEventReleased` fail: the I2O thread waits for room before it passes on the
  release that came with the request, and the EVM waits for that release. The
  defaults (8192 requests, 64 resources) exclude this, and the run has queues just
  long enough.
- `ReadoutUnit`: `MaxFaults = 1`, and a resync only after two events. With two losses, one on
  either side of a resync, all FEDs can agree on a wrong number, and no input can
  tell: a limit of the event numbering, not of the code.
  Queues of capacity 1 make every producer wait.
- `BuilderUnit`: three events for two resources reuse a resource; messages of two
  requests leave an old, half-filled one; queues of capacity 1. The first LS has
  all events so that two of them may be in files when the third arrives; the
  second is empty. `MaxFuRequests` bounds the requests of the FUs.
- `OneToOneQueue`: three elements tell order and duplication apart, capacity 3 wraps
  around; the proof covers the rest.
- `RoundTrip`: packings of 2 with an odd number of elements leave messages that only age
  sends; queues of 1 make callbacks wait; at most one RU cannot be
  reached (`MaxPostFailures`), since the first failure stops the sender. The setups
  take 1 to 4 triggers; two BUs with two resources each and 4 triggers are the least
  in which being passed over twice in a row shows.
- `ApplicationControl`: four commands (`MaxCommands`) reach every state, a second run or a second
  configuration, the clearing after a draining that failed, and leave one for a stop, a
  halt or a failure in the middle. The RU has five, for the end of the second run.
  Three `ThreadNames` hold the threads of activities: a command is sent when two of them are free
  (`HasRoom`), for its own activity and the one that may follow, so one aborted thread may outlive
  the next command. `Schedulers` limits the
  sending of old messages to the EVM, `MCMayFail` the places of exceptions and the
  commands of the BU, whose four loops make the largest state space.
- `L1InfoHandler`: three triggers can open, complete and skip LS; two runs show what the
  first leaves to the second. The memory pools never run dry.
- `SuperFragments`: rooms below, at and above one FED; a last event number before
  the wrap at 2^24; two events, one shortage of memory, one damage.
- `TestRun`: counters of width `CounterSize` = 4 stand for 2^32, so that an underflow
  shows; capacities of 2 and one outstanding FU request fill and drain at once.
  `MaxLost`, `MaxDamaged`, `NbEventsBeforeExit` bound the troubles. The tests may go on for ever: what is
  done in a test ages into "earlier" at the next start.
- `Monitoring`: `CounterSize` 4 and `SmallSize` 2 make counters wrap; `MaxEvents` and
  `MaxRuns` bound what is counted, with two runs wherever a reset matters.

Where a cfg says `CHECK_DEADLOCK FALSE` the behaviours end when the bound is
reached, or when a failure stops the application.

### Fairness

The XDAQ workloops are resubmitted while the application is Enabled, and I2O is a
reliable transport; so each workloop, and each delivery, gets weak fairness.
Triggers, faults, failures, commands of the operator and the disk monitoring owe
nothing.

- `EventIdProtocol` gives one condition to each part of `doWork`, which goes through all
  of them in each round, and one to each of the other threads.
- `ReadoutUnit` makes the sources fair in what they do right.
- `BuilderUnit` needs in addition that RUs answer and that FUs ask for events and discard
  them, and that the flush of old messages (every `oldMessageSenderSleepUSec`) finds
  a message old at some time.
- `RoundTrip` has one condition over all message steps, old messages included: the
  system as a whole goes on as long as anything can.
- `ApplicationControl`: one condition for the threads that move the machine or do an activity;
  one that some thread that waits for the free lock gets it (`TakenUp`); one for each group of
  loops; one for callbacks, but only while no loop waits for the lock or for a fragment; one for the
  loops that run in every state; the scheduler submits in the end. Nothing is assumed of the client,
  of failures and of messages.
- `L1InfoHandler`: the two loops and the waiting callers are weakly fair. A caller
  that polls `empty()` is strongly fair in finding each condition true, as it polls
  again and again.
- `TestRun`: one condition over all work and the tester's next command, within `InTime`.
- `Monitoring`: the monitoring loop goes on, and the threads finish what they began.

## Proofs

| theorem | module | states | for every |
|---|---|---|---|
| `EvBidsStrictlyIncrease`, `EvBidsNeverRepeat` | `EvBidFactory_proofs` | ids increase; no two events of a run have the same id | factory and event number; sequence of event numbers |
| `TypeCorrect` | `EventIdProtocol_proofs` | `TypeOK` | number of BUs, resources, triggers, capacities |
| `ResourceCorrect` | `EventIdProtocol_proofs` | `ResourceInOnePlace` | the same |
| `EventCorrect`, `AccountingCorrect` | `EventIdProtocol_proofs` | `EventInOnePlace`, `BuilderAccounting` | the same |
| `EndCorrect`, `FailureCorrect` | `EventIdProtocol_proofs` | `EndOfLumiSectionIsFinal`, `OnlyTriggerFails` | the same |
| `QueueImplementsFIFO`, `ThreadsStayApart` | `OneToOneQueue_proofs` | `ImplementsFIFO`, `ThreadsApart` | capacity, set of elements |
| `TypeCorrect`, `TableCorrect` | `ReadoutUnit_proofs` | types; the super-fragment table is consistent | input, set of FEDs, run, number of faults |
| `TriggerCorrect`, `RequestCorrect`, `DuplicatesNeverRaised` | `ReadoutUnit_proofs` | `TriggerInOnePlace`, `RequestInOnePlace`; two raises are unreachable | the same |
| `AlarmsAreTrue` | `ReadoutUnit_proofs` | `NoFalseAlarm` | the same |
| `DataAreOwn` | `ReadoutUnit_proofs` | `OwnData`, if nothing was lost or if no event number comes twice | the same |
| `TypeCorrect`, `QueuesAlwaysHaveRoom`, `NeverRaises` | `BuilderUnit_proofs` | types; queues of the size of the table never overflow; three raises are unreachable | resources, RUs, blocks, events, writers, output, sizes |
| `LosesAndDoublesNothing` | `BuilderUnit_proofs` | `NothingLostOrDoubled` | the same |
| `CompleteEventsAreWhole` | `BuilderUnit_proofs` | `EventsAreWhole` | the same |
| `EndsCountAllEvents` | `BuilderUnit_proofs` | `EoLSCountsAllEvents` | the same |
| `TurnsCorrect` | `RoundTrip_proofs` | `RoundRobinIsFair` | RUs, BUs, parameters of each configuration, packing, capacities |
| `ConfiguredCorrect` | `RoundTrip_proofs` | `ConfiguredAsAsked` | the same |
| `BuiltCorrect` | `RoundTrip_proofs` | `BuiltFromAllRUs` | the same |
| `TypeCorrect` | `L1InfoHandler_proofs` | `TypeOK` | LS, triggers, bits, capacities, runs |
| `ClearIsComplete` | `L1InfoHandler_proofs` | `OnlyALateRunLeavesData` | the same |
| `PublishedTruly` | `L1InfoHandler_proofs` | `PublishedIsTrue` | the same |
| `TypeCorrect`, `PromisesCorrect` | `TestRun_proofs` | `TypeOK`, `PromisesConserved` (under `InTime`, as the next) | optional applications, trouble, sizes of queues and messages |
| `EarlierTestsGone` | `TestRun_proofs` | `NothingOfAnEarlierTest` | the same |

They use the named `ASSUME`s of the modules and, where the table says "if", a hypothesis
that is part of the theorem; TLC evaluates the `ASSUME`s in every run.

**Resources.** `ResourceInOnePlace` is not inductive: a message that the I2O thread
has taken is still in one place only if the thread holds at most one. `ResourceInv`
adds `TypeOK` and `I2oOne`, and states the property as `Places`, which says for each
resource which of six predicates holds (a sum of six conditions is hard for the
SMT solver). There is one lemma per kind of step; steps that move no resource are
dealt with together. The property speaks of a running EVM only, since a failed one
drops requests: `FailedStays` carries this through the steps.

**Event ids.** `EventInv` says where an id can be: the five kinds of places share no id
(`Apart`), none has an id twice (`NoneTwice`), the map of the EVM holds their union
(`Everywhere`). A sum of cardinalities is not enough to see that a step keeps the
union, and the union not enough to see that it keeps the sum, hence both. An accepted
trigger gets an id that is nowhere yet since the ids there are not younger than the
last one issued (`IdsIssued`, with `EvBidsStrictlyIncrease`); `eventFIFO` has room for
it since it holds no more events than the builder, whose number the EVM limits to
`NbEvtIdsInBuilder <= EventFIFOCapacity` (both parameters have the same default,
`EVM.cc:41`, `BUproxy.cc:258`; with a smaller queue the EVM would fail). A release finds its id in the map, as the id is in one place and that place is the
queue; its LS is counted, as the map and `lumiSectionMap` agree (`Accounts`). So the
raises for unknown or doubled ids and LS cannot be reached.

**Ends of lumi sections.** `LumiInv` adds what ties the two threads that announce
together. An event carries the LS the map has for it (`Agrees`); the L1 workloop sees
the LS in order, and has seen or will see the LS of every event (`Seen`): a gap it
announces is before everything to come, so no event has that LS, and one counted to
zero is not a gap. `Past` then holds of every announced LS. `OnceInv` follows a notice on
its way: per BU, each LS is at one of six places (`Once`), and counted or announced
but not both (`Tracked`). One lemma, `Moved`, serves all steps that move a notice. All
of this must hold after the EVM has failed too, when its other threads go on.
`FailsInv` adds that the slot of each confirm is free, which does not follow from
`Places` any more when the EVM has failed, but persists on its own.

**Queue.** `QueueInv` says what each thread knows between two of its accesses: the
producer has a free slot and then has filled it, the consumer has an element and
then has read it. The refinement maps the ring to the sequence of its used slots.
A store keeps that sequence (the slot is not yet in use), publishing the pointer
appends to it; reading and clearing keep it, advancing the pointer takes its head.

**Ids in the RU.** `IdsInv` says that the issued ids differ (they increase, by
`EvBidsStrictlyIncrease`), and that in order of issue they are filed, with
the workloop, queued, on the network. Counting from the end gives each id its place;
`TriggerInOnePlace` follows. `RequestInv` splits the issued ids into requests on the
way, waiting and answered. As the ids differ, the two raises of
`SuperFragmentTable` for duplicates cannot be reached (`DuplicatesNeverRaised`): the proof
needs no bound on faults, since the ids come from the EVM and not from the fragments.
The workloop keeps the id it holds while it waits for the lock (`HoldsTrigger`).

**Data of the RU.** The EVM, the FBO and each FED number the events on their own, and
only equal ids bring data and request together. `FactoryAfter` is the state of a
factory after the first k numbers of the run; `EvBidsNeverRepeat` shows that the ids it
gives tell the events of a run apart. That is an induction over the run, which the prover cannot
take from its library; it is done by hand, as the absence of a least counterexample.
As long as the RU is Enabled and nothing was lost, repeated or made up, each source
is at a known distance from the work loop (`InStep`: the factory of a FED is the one
after `Filed` events and what waits in its queue), so the ids agree, no alarm is
raised (`AlarmsAreTrue`: no mismatch and no failure; a timeout is possible) and the data are the own ones. With faults `OwnInv` follows each fragment from the
factory of its FED to the table, and needs that the id of an event *determines* the
event: true if no event number comes twice (`NumbersDiffer`). Otherwise `OwnData` is not
a theorem: with event numbers 1, 1 and the first event of a FED lost, its second gets the id
of the first. `IdsAreTrue` is the disjunction of the two cases. The run
goes back to event number 1 after two events; with one fault `OwnData` still holds there.

**Places in the BU.** `PlacesInv` is proved first. `Partition(W, S)` says that each element of `S` is in
exactly one of the sets in `W`; `Moves` says what a step does to such a partition, and
one lemma shows that it stays one. It is used for resources (free, asked for, on the
network, in the queue of triggers, in the table) and for the outputs (under construction,
complete, and the places of file, FU and drop). `NeverRaises` and `NothingLostOrDoubled` follow, and
`QueuesAlwaysHaveRoom` by counting. `ConstructionInv` adds, for each event in the table and each RU, that
the request is still unanswered or that exactly the missing blocks are on their way, once and in order; the
number of complete super-fragments is then that of the RUs that have sent all, so an
event that counts as complete is whole although blocks are matched by their resource only.

**Ends of LS in the BU.** `DiskInv` partitions the events too (to come, network, queue, table,
freed). What the disk writer holds are the events of their slots (`CarriesInv`), so a slot is
not reused under it; a file has events of its own LS only and a new one never takes the
name of an old one (`FilesInv`); what is in a file was written and then discarded and
released (`WrittenInv`). An end of LS is announced when all its events are released
(`EndsInv`, what `EventIdProtocol` proves of the EVM), hence none of them can be
waiting for a file, and the counter of the LS is that of the events that were given
files (`CountsInv`). At the close it is therefore the number of all its events, for any
number of writers and any order of their commands.

**L1 information.** `ClearInv` shows that what `empty()` has found to hold stays true while
it reads the next condition: outside Processing nothing is added to a sum, so the queue
of LS does not fill again, and once `idle_` is set the scalers loop has nothing in its hand. This
is proved of every run that is not late; whether it is, is known when `exitAction` has the mutex of the L1-info loop. The invariants from
here on hold until the first late run, since what that leaves makes records of two runs. `AcceptedInv` locates all that was accepted: summed up, in the loop's hand,
in its queue, with the work loop, in this order and in the order of runs and LS. Every
record, open or closed, is the `Summary` of what is summed up (`SumsInv`); a closed one is
of an LS before the one in progress (`KeysInv`), so later information does not change its summary;
everything summed up is in a record (`CoverInv`). The records are closed in order
(`OrderInv`), and the LS announced as skipped fill the gaps between them (`SkippedInv`). When
the EVM is Ready all that was accepted is summed up and published or lost. `EachTriggerCountedOnce`, which
also holds of late runs, is only model-checked: it sums over sequences.

**Turns.** `TurnInv` says that, for each queue of the collection, the events given to others while
its BU waited and the queues that come before it in turn (`Before`, from `nextQueue_` on and
round) are together at most `Allowed`, one round of the other BUs for the wait and one for each queue
created during it. Another BU that is served was before it and is not any more
(`TurnPasses`); a new queue may put all others before it, for which `Allowed` grows by as many
(`AllowedGrows`).
The models of the collection's operations are shown to give what they say for every collection of
finitely many queues (`EnqIsCollection`, `RoundRobinTakes`, `FromFullestTakes`, `DrainedIsCollection`).

**Events across EVM, RUs and BUs.** That an event is built from one super-fragment of each RU
rests on four invariants of `RoundTrip`, proved one after the other. `OrderInv`: what an RU is told of increases,
as long as the EVM works, so no super-fragment comes to a table twice. `PlaceInv`: each resource of a BU is in one
place (on the way back, asked for, given a trigger, under construction), so a trigger finds its slot free.
`IdInv`: each id waits for a BU, is at one place of one BU, or was released, and the EVM knows exactly such ids;
so no release is unknown and `eventFIFO` has room. `WayInv` follows, for each BU and RU, what is still due: the
request or the super-fragment is in one of five places (`OneWay`: unsent, sent, filed with the RU, returned,
cached), each for an event under construction that has nothing of this RU yet (`Due`), and an event under construction has
a part of its super-fragments and counts them (`Partial`). A broadcast that fails part-way breaks none of this only
because the BU sends nothing any more, so what it holds unsent does not count (`Unsent`). An event is
complete when the count is that of the RUs; as none has come twice, all are there. `CountInv` says the count is
of the list (`RUbroadcaster` sets both in one go).

**Configuring.** That the list is the one asked for is `ConfiguredCorrect`. The lists are folds: over the
instances of a parameter, the definitions of a file, and the children of a definition. The prover cannot apply an induction
theorem to an operator, but it can expand `FoldLeft` into the recursive function it chooses; one lemma per fold
(`FillSteps`, `SMSteps`, `ChildrenSteps`, `FileSteps`) shows that this function exists and turns the fold into a sequence of values, each of which
follows from the one before it, and `UpTo` is induction over its positions. So a list that was filled holds its instances,
all of the zone and none twice (`FilledWith`); a set that was read holds what the children of the last definition of its id give
(`FileIsRead`); and a file that cannot be read has no sets (`UnreadFile`). `std::set<int>` hands the instances out in order:
`InOrderIs` shows that a finite set of numbers has such an order and that it leaves out none. Assumed of the parameters is only that lists are
lists and that attributes, where they are there, are numbers.

**Test runs.** `TestInv` has two parts that need each other. `DataInv` is what the applications
keep among themselves: credits and requests are conserved (`CreditsConserved`, `RequestsAre`), the EVM
counts its events (`BuilderCount`), and each event of the BU is complete, on its way to the FU, given back or
queued for discarding, and only one of these (`EventsOnce`). It holds only if commands come when they may: a TA
halted under an EVM that asks it would lose what it was promised for, and an EVM enabled with a trigger still on
its way would count it twice. `ControlInv` says that they do. It gives the tester 27 places, 1 to 18 in the script
of a start, 20 to 26 in that of a stop, 19 and 27 where it has nothing to do; `From(p)` is what is left of the script
at place p, without the instructions for applications that are not there (`StartFromFirst` and
`StopFromFirst` show that this is the script of the code's order). `At(p)` tells the state of every application at
that place (`Modes`) and of which test the messages and queues are (`MessagesFit`): of an earlier one up to the pause,
which they do not survive, and of this one after it. Three states are outside the
places: `TAFailed` and `FUFailed`, in which every new start ends at the same fault, and `FUGone`, in which every stop
does. That there are no more was found by TLC, on all 48 sets of applications and troubles (25 million states), before the
proof. A BU that failed on the way to an FU that is gone is at an ordinary place (`Broken`). `GoesStep` goes
through the instructions, one lemma each, and shows that the step leads to the next place. The theorems follow: in a
started test the place is one from 19 to 26 or the FU is gone, and there nothing is of an earlier test. That the pause is long enough is the
assumption `InTime`, as in the runs; the loss of triggers and the damage are bounded by constants of any value.

**Only model-checked:** all liveness properties (the proof system has no rules for
fairness here), and the safety properties of `ApplicationControl`,
`SuperFragments` and `Monitoring`. What recursive operators compute (`Outward` of a chart, the cutting of FEDs)
is only evaluated on the instances.

## What the models showed besides

None of these is checked by a run of its own; most were met as counterexamples of a
property in an earlier form. Each is a hazard in `PROJECT.json`, or is exempted by name
in the property it would violate.

- RU: workloop and callback wait for each other (see ReadoutUnit above); the FEROL2 input waits
  for a fragment in a loop that looks neither at the timer nor at `doProcessing_`
  (`FEROL2proxy.cc:129`), and a stop waits for it, possibly for ever (`Starved`). A loop that reports an
  error while it is being stopped and started again goes on without `processActive_` set, so that
  the next stop does not wait for it (`Unawaited`).
- BU and EVM: `stopProcessing` waits for itself (`BU.cc:106`, `EVM.cc:146`). RU: a
  mismatch found before a stop is reported in the next run (`RU.cc:211`).
- EVM: `EoLSHandler::configure` resizes a queue that its sender polls
  (`EoLSHandler.cc:77`); `ruBuilderIsFlushed_` is stale for a round (`EVM.cc:95`). An LS
  survives `clear` (`L1InfoHandler.cc:248`), documented as "Remove all data"
  (`L1InfoHandler.h:88`), when information waits at the end of a run
  (`evm/StateMachine.cc:294`), and is counted with the next run.
- BU: writers count the events of a common file without a lock
  (`FileHandler.h:45`), and two performance counters too (`EventTable.cc:76`,
  `DiskWriter.cc:201`).
- Timers compare milliseconds with microseconds (`TimerManager.cc:39`).
- TA: after a halt the event number is 1 and the rate wraps for an interval; enabling
  it again sets its LS back, at which an EVM that was not cleared raises
  (`L1InfoHandler.cc:606`); a credit is lost when there is no memory; suspending,
  stopping, enabling and resuming asks for credits twice.
- EVM and TA: `TRGproxyHandlers.h:73` says "Stop requesting any new triggers", but the
  work loop may ask once more after it.
- FU: it exits when a counter *equals* `nbEventsBeforeExit`, and a reset message
  sets that counter to 0; on an exception a buffer is not released.
- Generator: a block too small for a header makes it produce empty blocks for ever
  (the assumption on the room excludes it); `updateCRC`
  (`SuperFragmentGenerator.cc:596`) uses the configured size, not the random one.
- Fullest-queue selection may starve a BU; in turns, each new queue takes the turn, so
  that BUs may be passed over once more for each first request that comes in.
- Tester: a start that fails half-way can neither be repeated nor stopped.

## Not modelled, and why

- Directories, checksums of files and errors of the file system; corrupted events,
  which end the writing workloops; the water marks of `DiskUsage` (its effect, requests
  going off and on, is in `BuilderUnit`).
- GTP payloads, playback files, dumps of events: pure computations, on which the
  control does not depend.
- The broadcast of ends of LS from a BU to FUs, `SMproxy`'s messages to the storage
  manager: sent and forgotten.
- The copying of FEROL fragments into data blocks. A super-fragment without data counts
  as complete but is not kept (`Event.cc:63`); no RU of the models sends one.
- The triggers GTP and GTPe (`EventIdProtocol` has any source of triggers).
- Time: a timer may fire at any moment after its start. The tester's pause is assumed to be long enough.
- What late loops do to the data: the exempt rounds after a stop are steps of `ApplicationControl`
  without an effect, and only `L1InfoHandler` follows their data. A BU with request queues in the EVM
  shorter than its resources, and a FEROL2 input that has lost a fragment, are outside the
  liveness properties because they violate them.
- Web pages, parameters, SOAP and XDAQ plumbing: no state of their own that another part
  reads. Of Boost.Statechart, what the charts do not use.

## What is left

In the order of what it would add:

1. Proofs for `ApplicationControl`, whose charts are interpreted by a recursive operator: it would have to
   be a function first.
2. `RoundTrip` as the abstract specification that `BuilderUnit` and `ReadoutUnit`
   implement: at present the modules agree at their borders by reading only.
3. `FEROLproxy` and `FEROL2proxy` down to the blocks, with `SuperFragments` as their
   readers; the EoLS broadcast to the FUs.
