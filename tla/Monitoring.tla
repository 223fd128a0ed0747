------------------------------ MODULE Monitoring ------------------------------
(***************************************************************************)
(* The monitoring of the applications: the counters that the threads of an *)
(* application keep, the monitoring work loop that copies them, lock by    *)
(* lock, into the items of the information space, the parameters clients   *)
(* retrieve from there, and the reset when a run starts, in the thread of  *)
(* the state machine, while the monitoring work loop goes on.  TA and FU   *)
(* are reset by a message instead: for them a run is what is between two   *)
(* of these.                                                               *)
(*                                                                         *)
(* An event passes the steps of a path, each event after the one before    *)
(* it; `done' says how many events of this run passed each step, and is    *)
(* what the counters should tell.  Payloads, last event numbers (which     *)
(* equal the counts as long as none is skipped) and the sizes of tables    *)
(* that are looked at when monitored are left out.                         *)
(***************************************************************************)
EXTENDS Integers, SequencesExt, FiniteSetsExt

CONSTANTS
  Apps,          \* the applications: "EVM", "RU", "BU to disk", "BU to FU", "RUI", "TA", "FU"
  MaxEvents,     \* application -> bound on the events of a run
  MaxRuns,       \* application -> bound on the runs
  CounterSize,   \* stands for the 2^64 of uint64_t
  SmallSize      \* stands for the 2^32 of uint32_t

ASSUME SizesAssumption ==
  /\ CounterSize \in Nat \ {0} /\ SmallSize \in Nat \ {0} /\ SmallSize <= CounterSize
  /\ MaxRuns \in [Apps -> Nat] /\ MaxEvents \in [Apps -> Nat]

Wrap(n) == n % CounterSize

-----------------------------------------------------------------------------
(* What a component does when it is monitored and when it is reset: a sequence *)
(* of steps, each under one lock.                                            *)

Do(kind, items) == [kind |-> kind, items |-> items]

\* A component with nothing but counters: each group of them has a lock of its own.
Counting(groups) ==
  [update |-> [i \in DOMAIN groups |-> Do("copy", groups[i])],
   reset  |-> [i \in DOMAIN groups |-> Do("zero", groups[i])]]

EoLSHandler   == Counting(<< {"lastCompletedLS"} >>)
L1InfoHandler == Counting(<< {"lastL1InfoForLS"} >>)
TRGproxy      == Counting(<< {"i2oEVMTriggerCount"} >>)
RUproxy_evm   == Counting(<< {"i2oRUReadoutCount"} >>)
BUproxy_evm   == Counting(<< {"i2oBUConfirmLogicalCount"}, {"i2oEVMAllocClearCount"} >>)
\* Faulty variant: the interval starts where it ended in the last run.
EVM_IntervalKept ==
  [update |-> << Do("sample", {}), Do("subtract", {"i2oBUConfirmLogicalCount"}),
                 Do("look in builder", {}), Do("look for triggers", {}) >>,
   reset  |-> << Do("zero", {"nbEvtsBuilt", "nbEvtsInBuilder"}) >>]

\* nbEvtsBuilt and nbEvtsInBuilder are items themselves, and nothing is copied.
EVM ==
  [update |-> << Do("sample", {}), Do("subtract", {"i2oBUConfirmLogicalCount"}),
                 Do("look in builder", {}), Do("look for triggers", {}) >>,
   reset  |-> << Do("zero", {"nbEvtsBuilt", "nbEvtsInBuilder"}), Do("interval", {}) >>]

\* The counters of the BUs' requests and of the data are reset under both locks at once.
BUproxy_ru  == [update |-> << Do("copy", {"i2oRUSendCountBU"}), Do("copy", {"i2oBUCacheCount"}) >>,
                reset  |-> << Do("zero", {"i2oRUSendCountBU", "i2oBUCacheCount"}) >>]
EVMproxy_ru == Counting(<< {"i2oRUReadoutCount"} >>)
RUinput     == Counting(<< {"i2oEVMRUDataReadyCount"} >>)
RU ==
  [update |-> << Do("read", {"i2oEVMRUDataReadyCount"}), Do("subtract", {"i2oBUCacheCount"}),
                 Do("sample", {}) >>,
   reset  |-> << Do("interval", {}), Do("zero", {"superFragments"}) >>]

DiskWriter  == Counting(<< {"nbEvtsWritten", "nbFilesWritten", "nbEvtsCorrupted"} >>)
EventTable  == Counting(<< {"nbEvtsUnderConstruction", "nbEvtsBuilt", "nbEventsInBU"} >>)

EVMproxy_bu == Counting(<< {"i2oBUConfirmCount"}, {"i2oEVMAllocCount"} >>)
RUproxy_bu  == Counting(<< {"i2oRUSendCount"}, {"i2oBUCacheCount"} >>)
FUproxy     == Counting(<< {"i2oBUAllocCount"}, {"i2oBUDiscardCount"}, {"i2oFUTakeCount"} >>)
BU          == [update |-> << Do("sample", {}) >>, reset |-> << Do("interval", {}) >>]

\* The RUI resets its counter, but not the start of the interval.
RUI == [update |-> << Do("sample", {}), Do("show sample", {"i2oEVMRUDataReadyCount"}) >>,
        reset  |-> << Do("zero", {"i2oEVMRUDataReadyCount"}) >>]

\* All parameters that count are reset while the application's semaphore is held; the TA's
\* eventNumber is not one of them.
TA == [update |-> << Do("sample", {}) >>,
       reset  |-> << Do("zero", {"I2O_TA_CREDIT_LogicalCount", "I2O_EVM_TRIGGER_LogicalCount"}) >>]
FU == [update |-> << >>,
       reset  |-> << Do("zero", {"nbEventsProcessed", "I2O_BU_ALLOCATE_LogicalCount",
                                 "I2O_BU_DISCARD_LogicalCount", "I2O_FU_TAKE_LogicalCount"}) >>]

BUs == {"BU to disk", "BU to FU"}

\* The components of an application in the order in which Processing::entryAction resets them ...
ResetOrder(a) ==
  CASE a = "EVM"  -> << EoLSHandler, L1InfoHandler, TRGproxy, RUproxy_evm, BUproxy_evm, EVM >>
    [] a = "RU"   -> << BUproxy_ru, EVMproxy_ru, RU, RUinput >>
    [] a \in BUs  -> << BU, EVMproxy_bu, FUproxy, RUproxy_bu, DiskWriter, EventTable >>
    [] a = "RUI"  -> << RUI >>
    [] a = "TA"   -> << TA >>
    [] a = "FU"   -> << FU >>

\* ... and in which do_updateMonitoringInfo goes through them.
UpdateOrder(a) ==
  CASE a = "EVM"  -> << EoLSHandler, L1InfoHandler, TRGproxy, RUproxy_evm, BUproxy_evm, EVM >>
    [] a = "RU"   -> << BUproxy_ru, EVMproxy_ru, RUinput, RU >>
    [] a \in BUs  -> << DiskWriter, EventTable, EVMproxy_bu, RUproxy_bu, FUproxy, BU >>
    [] a = "RUI"  -> << RUI >>
    [] a = "TA"   -> << TA >>
    [] a = "FU"   -> << FU >>

Steps(order, what) == FlattenSeq([i \in DOMAIN order |-> order[i][what]])
UpdateSteps == [a \in Apps |-> Steps(UpdateOrder(a), "update")]
ResetSteps  == [a \in Apps |-> Steps(ResetOrder(a), "reset")]

-----------------------------------------------------------------------------
(* The path of an event: a step follows the steps `after' and then adds one to *)
(* the counters `plus' and takes one from `minus'.  A BU's request and its      *)
(* release are elements of their own, as they are when requests are throttled.  *)

After(steps, plus, minus) == [after |-> steps, plus |-> plus, minus |-> minus]

TriggerArrives              == After({}, {}, {})
UpdateTriggerCounters       == After({"arrive"}, {"i2oEVMTriggerCount"}, {})
UpdateReadoutCounters_evm   == After({"trigger"}, {"i2oRUReadoutCount"}, {})
UpdateL1Scalers             == After({"trigger"}, {"lastL1InfoForLS"}, {})
AddEvent                    == After({"trigger"}, {"nbEvtsInBuilder"}, {})
UpdateAllocateClearCounters == After({}, {"i2oEVMAllocClearCount"}, {})
UpdateConfirmCounters       == After({"add", "request"}, {"i2oBUConfirmLogicalCount"}, {})
ReleaseArrives              == After({"confirm", "request"}, {"i2oEVMAllocClearCount"}, {})
ProcessReleasedEvent        == After({"release"}, {"nbEvtsBuilt"}, {"nbEvtsInBuilder"})
EoLSSignalSender            == After({"built"}, {"lastCompletedLS"}, {})

UpdateReadoutCounters       == After({}, {"i2oRUReadoutCount"}, {})
UpdateInputCounters         == After({}, {"i2oEVMRUDataReadyCount"}, {})
UpdateSuperFragmentCounters == After({"readout", "input"}, {"superFragments"}, {})
UpdateRequestCounters       == After({}, {"i2oRUSendCountBU"}, {})
SendData                    == After({"super-fragment", "request"}, {"i2oBUCacheCount"}, {})

SendEvtIdRqst               == After({}, {"i2oEVMAllocCount"}, {})
UpdateConfirmed             == After({"request"}, {"i2oBUConfirmCount"}, {})
StartConstruction           == After({"confirm"}, {"nbEvtsUnderConstruction"}, {})
\* counted after the message went to all RUs: the blocks may be there before
UpdateRequestCounters_bu    == After({"construct"}, {"i2oRUSendCount"}, {})
UpdateBlockCounters         == After({"construct"}, {"i2oBUCacheCount"}, {})
UpdateEventCounters         == After({"block"}, {"nbEvtsBuilt", "nbEventsInBU"}, {"nbEvtsUnderConstruction"})
\* one event per file; the event is discarded before it is counted as written
HandleEvents                == After({"built"}, {"nbFilesWritten"}, {})
WriteEvent                  == After({"open"}, {"nbEvtsWritten"}, {})
UpdateAllocateCounters      == After({}, {"i2oBUAllocCount"}, {})
HandleEvent                 == After({"built", "allocate"}, {"i2oFUTakeCount"}, {})
UpdateDiscardCounters       == After({"take"}, {"i2oBUDiscardCount"}, {})
FreeEvent(last)             == After({last}, {}, {"nbEventsInBU"})
SendRelease                 == After({"freed"}, {"i2oEVMAllocCount"}, {})

UpdateDataCounters          == After({}, {"i2oEVMRUDataReadyCount"}, {})

\* What was under way at the reset is counted after it.
TaCreditMsg                 == After({}, {"I2O_TA_CREDIT_LogicalCount"}, {})
SendNTriggers               == After({}, {"I2O_EVM_TRIGGER_LogicalCount", "eventNumber"}, {})
AllocateNEvents             == After({}, {"I2O_BU_ALLOCATE_LogicalCount"}, {})
\* an event of one block, at the end of which its resource is discarded and another one asked for
ProcessDataBlock            == After({}, {"I2O_FU_TAKE_LogicalCount", "nbEventsProcessed",
                                          "I2O_BU_DISCARD_LogicalCount", "I2O_BU_ALLOCATE_LogicalCount"}, {})

BuPath(last) ==
  "request" :> SendEvtIdRqst @@ "confirm" :> UpdateConfirmed @@ "construct" :> StartConstruction
  @@ "ask RUs" :> UpdateRequestCounters_bu @@ "block" :> UpdateBlockCounters
  @@ "built" :> UpdateEventCounters @@ "freed" :> FreeEvent(last) @@ "release" :> SendRelease

Path ==
  [a \in Apps |->
     CASE a = "EVM" ->
            "arrive" :> TriggerArrives @@ "trigger" :> UpdateTriggerCounters
            @@ "readout" :> UpdateReadoutCounters_evm @@ "l1 info" :> UpdateL1Scalers
            @@ "add" :> AddEvent @@ "request" :> UpdateAllocateClearCounters
            @@ "confirm" :> UpdateConfirmCounters @@ "release" :> ReleaseArrives
            @@ "built" :> ProcessReleasedEvent @@ "EoLS" :> EoLSSignalSender
       [] a = "RU" ->
            "readout" :> UpdateReadoutCounters @@ "input" :> UpdateInputCounters
            @@ "super-fragment" :> UpdateSuperFragmentCounters
            @@ "request" :> UpdateRequestCounters @@ "send" :> SendData
       [] a = "BU to disk" ->
            BuPath("open") @@ "open" :> HandleEvents @@ "written" :> WriteEvent
       [] a = "BU to FU" ->
            BuPath("discard") @@ "allocate" :> UpdateAllocateCounters @@ "take" :> HandleEvent
            @@ "discard" :> UpdateDiscardCounters
       [] a = "RUI" -> "send" :> UpdateDataCounters
       [] a = "TA"  -> "credit" :> TaCreditMsg @@ "trigger" :> SendNTriggers
       [] a = "FU"  -> "allocate" :> AllocateNEvents @@ "take" :> ProcessDataBlock]

Counters ==
  [a \in Apps |-> UNION { ResetSteps[a][i].items : i \in DOMAIN ResetSteps[a] }
                    \cup UNION { Path[a][p].plus \cup Path[a][p].minus : p \in DOMAIN Path[a] }]

\* The counter that the rate of events is taken from.
PerformanceOf(a) ==
  CASE a = "EVM" -> "i2oEVMTriggerCount" [] a = "RU" -> "superFragments"
    [] a \in BUs -> "nbEvtsBuilt"        [] a = "RUI" -> "i2oEVMRUDataReadyCount"
    [] a = "TA"  -> "eventNumber"

\* The items that are the counters themselves, or are not items at all.
Live(a) == CASE a = "EVM" -> {"nbEvtsBuilt", "nbEvtsInBuilder"}
             [] a = "RU"  -> {"superFragments"}
             [] a \in {"TA", "FU"} -> Counters[a] [] OTHER -> {}

\* The parameters clients retrieve, each from the item of its name but for the EVM's triggers.
EvmRetrieves == [nbTriggers |-> "i2oEVMTriggerCount", nbEvtsBuilt |-> "nbEvtsBuilt"]
BuRetrieves ==
  [nbEvtsUnderConstruction |-> "nbEvtsUnderConstruction", nbEventsInBU |-> "nbEventsInBU",
   nbEvtsBuilt |-> "nbEvtsBuilt", nbEvtsCorrupted |-> "nbEvtsCorrupted",
   nbFilesWritten |-> "nbFilesWritten"]
RuRetrieves ==
  [i2oEVMRUDataReadyCount |-> "i2oEVMRUDataReadyCount", i2oBUCacheCount |-> "i2oBUCacheCount"]
RuiRetrieves == [i2oEVMRUDataReadyCount |-> "i2oEVMRUDataReadyCount"]
Retrieves ==
  [a \in Apps |-> CASE a = "EVM" -> EvmRetrieves [] a = "RU"  -> RuRetrieves
                    [] a \in BUs -> BuRetrieves  [] a = "RUI" -> RuiRetrieves
                    [] a \in {"TA", "FU"} -> << >>]

-----------------------------------------------------------------------------
VARIABLES
  app,         \* the application
  state,       \* "Ready", "resetting" in Processing's entry action, "Processing"
  runs,        \* the runs started so far
  done,        \* step -> the events of this run that passed it
  counter,     \* counter -> its value
  at,          \* the step the monitoring work loop is about to do
  resetting,   \* the step of the reset that comes next, 0 when there is none
  shown,       \* item -> the value in the information space
  read,        \* the count the monitoring work loop keeps while it looks at another
  difference,  \* nbTriggersInEVM or nbSuperFragmentsInRU
  flushed,     \* ruBuilderIsFlushed
  interval,    \* intervalStart_ and delta_ (their N)
  sampled      \* what is true of the samples: the events counted in the run at the last
               \* one and between the last two, and the samples of the run

vars == << app, state, runs, done, counter, at, resetting, shown, read, difference, flushed,
           interval, sampled >>
looked == << at, shown, read, difference, flushed, interval, sampled >>

TypeOK ==
  /\ app \in Apps /\ state \in {"Ready", "resetting", "Processing"} /\ runs \in 0 .. MaxRuns[app]
  /\ done \in [DOMAIN Path[app] -> 0 .. MaxEvents[app]]
  /\ counter \in [Counters[app] -> 0 .. CounterSize - 1]
  /\ at \in 1 .. Max({1, Len(UpdateSteps[app])}) /\ resetting \in {0} \cup DOMAIN ResetSteps[app]
  /\ (resetting # 0) = (state = "resetting")
  /\ shown \in [Counters[app] -> 0 .. CounterSize - 1]
  /\ read \in 0 .. CounterSize - 1 /\ difference \in 0 .. CounterSize - 1 /\ flushed \in BOOLEAN
  /\ interval \in [start : 0 .. CounterSize - 1, delta : 0 .. CounterSize - 1]
  /\ sampled \in [count : 0 .. MaxEvents[app], new : 0 .. MaxEvents[app], samples : 0 .. 2]

Init ==
  /\ app \in Apps /\ state = "Ready" /\ runs = 0
  /\ done = [p \in DOMAIN Path[app] |-> 0]
  /\ counter = [c \in Counters[app] |-> 0] /\ shown = [c \in Counters[app] |-> 0]
  /\ at = 1 /\ resetting = 0 /\ read = 0 /\ difference = 0 /\ flushed = TRUE
  /\ interval = [start |-> 0, delta |-> 0] /\ sampled = [count |-> 0, new |-> 0, samples |-> 0]

-----------------------------------------------------------------------------
EventsOfThisRun == done[CHOOSE p \in DOMAIN done : PerformanceOf(app) \in Path[app][p].plus]

\* Processing::entryAction begins: the components are empty.
Enable ==
  /\ state = "Ready" /\ runs < MaxRuns[app]
  /\ state' = "resetting" /\ runs' = runs + 1 /\ resetting' = 1
  /\ done' = [p \in DOMAIN done |-> 0] /\ sampled' = [count |-> 0, new |-> 0, samples |-> 0]
  /\ UNCHANGED << app, counter, at, shown, read, difference, flushed, interval >>

\* The EVM holds performanceMonitorMutex_ from its sample on to the end of its update.
PerformanceLocked ==
  app = "EVM" /\ UpdateSteps[app][at].kind \in {"subtract", "look in builder", "look for triggers"}

\* The next step of resetMonitoringCounters; after the last one the run starts.
ResetMonitoringCounters ==
  /\ state = "resetting"
  /\ LET step == ResetSteps[app][resetting]
         last == resetting = Len(ResetSteps[app])
     IN /\ step.kind = "interval" => ~ PerformanceLocked
        /\ counter' = [c \in DOMAIN counter |->
                         IF step.kind = "zero" /\ c \in step.items THEN 0 ELSE counter[c]]
        /\ interval' = IF step.kind = "interval" THEN [start |-> 0, delta |-> 0] ELSE interval
        /\ resetting' = IF last THEN 0 ELSE resetting + 1
        /\ state' = IF last THEN "Processing" ELSE state
  /\ UNCHANGED << app, runs, done, at, shown, read, difference, flushed, sampled >>

\* The next event passes step p.
Work(p) ==
  /\ state = "Processing" /\ done[p] < MaxEvents[app]
  /\ \A q \in Path[app][p].after : done[q] > done[p]
  /\ done' = [done EXCEPT ![p] = @ + 1]
  /\ counter' = [c \in DOMAIN counter |->
                   IF c \in Path[app][p].plus THEN Wrap(counter[c] + 1)
                   ELSE IF c \in Path[app][p].minus THEN Wrap(counter[c] - 1) ELSE counter[c]]
  /\ UNCHANGED << app, state, runs, resetting, looked >>

\* The run is stopped, whatever is under way.
StopProcessing ==
  /\ state = "Processing" /\ state' = "Ready"
  /\ UNCHANGED << app, runs, done, counter, resetting, looked >>

\* The TA starts again with its first event.  Its eventNumber is the number of the next one
\* less 1 and, but for this, does not wrap.
HaltTA ==
  /\ app = "TA" /\ state = "Processing" /\ counter["eventNumber"] # 0
  /\ counter' = [counter EXCEPT !["eventNumber"] = 0]
  /\ sampled' = [count |-> EventsOfThisRun, new |-> 0, samples |-> 0]
  /\ UNCHANGED << app, state, runs, done, at, resetting, shown, read, difference, flushed, interval >>

-----------------------------------------------------------------------------
(* The monitoring work loop; the FU has none.                              *)

Updating(kind) == at \in DOMAIN UpdateSteps[app] /\ UpdateSteps[app][at].kind = kind
Items == UpdateSteps[app][at].items
TheItem == CHOOSE i \in Items : TRUE
NextUpdate == at' = IF at = Len(UpdateSteps[app]) THEN 1 ELSE at + 1
UNCHANGEDBesides == UNCHANGED << app, state, runs, done, counter, resetting >>

CopyCounters ==
  /\ Updating("copy") /\ NextUpdate
  /\ shown' = [i \in DOMAIN shown |-> IF i \in Items THEN counter[i] ELSE shown[i]]
  /\ UNCHANGED << read, difference, flushed, interval, sampled >> /\ UNCHANGEDBesides

\* getPerformance at the end of the interval.
Sample(n) ==
  /\ read' = n
  /\ interval' = [start |-> n, delta |-> Wrap(n - interval.start)]

GetPerformance ==
  /\ Updating("sample") /\ NextUpdate /\ Sample(counter[PerformanceOf(app)])
  /\ sampled' = IF state = "resetting" THEN sampled
                ELSE [count |-> EventsOfThisRun, new |-> EventsOfThisRun - sampled.count,
                      samples |-> IF sampled.samples = 2 THEN 2 ELSE sampled.samples + 1]
  /\ UNCHANGED << shown, difference, flushed >> /\ UNCHANGEDBesides

ShowSample ==
  /\ Updating("show sample") /\ NextUpdate
  /\ shown' = [shown EXCEPT ![TheItem] = read]
  /\ UNCHANGED << read, difference, flushed, interval, sampled >> /\ UNCHANGEDBesides

ReadCounter ==
  /\ Updating("read") /\ NextUpdate
  /\ read' = counter[TheItem]
  /\ UNCHANGED << shown, difference, flushed, interval, sampled >> /\ UNCHANGEDBesides

\* Unsigned: std::max(0, ...) around it in the RU changes nothing.
SubtractCounter ==
  /\ Updating("subtract") /\ NextUpdate
  /\ difference' = Wrap(read - counter[TheItem])
  /\ UNCHANGED << shown, read, flushed, interval, sampled >> /\ UNCHANGEDBesides

\* Faulty variant: events in the builder do not count.
NotFlushed_OnlyRate == interval.delta # 0

\* Events are being built, or triggers came in the interval. (Or no time has passed since
\* the last sample, delta_.seconds = 0, which is assumed not to happen.)
NotFlushed == counter["nbEvtsInBuilder"] > 0 \/ interval.delta # 0

LookInBuilder ==
  /\ Updating("look in builder")
  /\ IF NotFlushed THEN flushed' = FALSE /\ at' = 1
                   ELSE NextUpdate /\ UNCHANGED flushed
  /\ UNCHANGED << shown, read, difference, interval, sampled >> /\ UNCHANGEDBesides

\* trgProxy_->empty()
TriggersWait == done["arrive"] > done["trigger"]

LookForTriggers ==
  /\ Updating("look for triggers") /\ NextUpdate
  /\ flushed' = ~ TriggersWait
  /\ UNCHANGED << shown, read, difference, interval, sampled >> /\ UNCHANGEDBesides

UpdateMonitoringInfo ==
  CopyCounters \/ GetPerformance \/ ShowSample \/ ReadCounter \/ SubtractCounter
    \/ LookInBuilder \/ LookForTriggers

Next ==
  \/ Enable \/ ResetMonitoringCounters \/ StopProcessing \/ HaltTA
  \/ \E p \in DOMAIN done : Work(p)
  \/ CopyCounters \/ GetPerformance \/ ShowSample \/ ReadCounter \/ SubtractCounter
  \/ LookInBuilder \/ LookForTriggers

Spec == Init /\ [][Next]_vars

FairSpec == Spec /\ WF_vars(UpdateMonitoringInfo) /\ WF_vars(ResetMonitoringCounters)

-----------------------------------------------------------------------------
\* What the counters should tell of this run.
EventsThrough(steps) == MapThenSumSet(LAMBDA p : done[p], steps)
True(c) == Wrap(EventsThrough({ p \in DOMAIN done : c \in Path[app][p].plus })
                - EventsThrough({ p \in DOMAIN done : c \in Path[app][p].minus }))

Item(i) == IF i \in Live(app) THEN counter[i] ELSE shown[i]

\* do_handleItemRetrieveEvent; nbTriggers is cut to 32 bits.
Retrieved(parameter) ==
  LET value == Item(Retrieves[app][parameter])
  IN IF parameter = "nbTriggers" THEN value % SmallSize ELSE value

\* Nothing wrong is shown for ever: once nothing happens, every item, every parameter
\* that is retrieved and the EVM's flag that the RU builder is flushed tell what was done
\* in this run, whatever was reset or counted while the monitoring looked at it.
EventuallyTrue ==
  <>[](/\ \A i \in Counters[app] \ {"eventNumber"} : Item(i) = True(i)
       /\ \A p \in DOMAIN Retrieves[app] :
            Retrieved(p) = True(Retrieves[app][p]) % (IF p = "nbTriggers" THEN SmallSize ELSE CounterSize)
       /\ interval.delta = 0
       /\ app = "EVM" => /\ difference = Wrap(True("i2oEVMTriggerCount") - True("i2oBUConfirmLogicalCount"))
                         /\ flushed = (True("nbEvtsInBuilder") = 0 /\ ~ TriggersWait)
       /\ app = "RU" => difference = Wrap(True("i2oEVMRUDataReadyCount") - True("i2oBUCacheCount")))

\* The number of events of an interval is what was counted in it: from the first sample of
\* a run on in the EVM; elsewhere the sample may fall into the reset, or the start of the
\* interval is that of the last run, or before the TA was halted, and it is right from the
\* second sample on.
RateIsTrue ==
  sampled.samples >= (IF app = "EVM" THEN 1 ELSE 2) => interval.delta = Wrap(sampled.new)
=============================================================================
