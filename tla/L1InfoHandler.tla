----------------------------- MODULE L1InfoHandler -----------------------------
(***************************************************************************)
(* The level-1 trigger information on its way through the EVM. The work    *)
(* loop of the EVM extracts it from each trigger into l1InfoFIFO; the      *)
(* L1Info loop sums it up per lumi section and passes the sum on, through  *)
(* lumiSectionInfoFIFO, when a later lumi section begins; the L1Scalers    *)
(* loop publishes it. These two loops run all the time, and have to be     *)
(* done with a run before the EVM is Ready for the next one.               *)
(* The state machine of the EVM appears as far as it uses the handler.     *)
(***************************************************************************)
EXTENDS Naturals, SequencesExt

CONSTANTS
  None,          \* a null pointer
  LumiSections,  \* the lumi sections of a run, numbered from 1
  Triggers,      \* what the trigger system decides: [eventType, bits]
  Bits,          \* the trigger bits
  L1InfoFIFOCapacity, LumiSectionInfoFIFOCapacity,
  EnableL1Info,  \* enableL1Info_
  MayLose,       \* publishing a lumi section may fail
  MaxRuns,       \* bound: runs
  MaxTriggers    \* bound: triggers, in all the runs

ASSUME LumiSectionsAssumption == LumiSections \subseteq Nat \ {0}
ASSUME TriggersAssumption == \A t \in Triggers : t.eventType \in Nat /\ t.bits \subseteq Bits
ASSUME CapacityAssumption ==
  L1InfoFIFOCapacity \in Nat \ {0} /\ LumiSectionInfoFIFOCapacity \in Nat \ {0}

Events == {"DrainingDone", "Blocked", "Halt", "Fail"}
L1Informations == [run : Nat, ls : LumiSections, eventType : Nat, bits : SUBSET Bits]
LumiSectionInfos == [run : Nat, ls : LumiSections, skipped : Nat, eventCount : Nat,
                     triggers : [1 .. 3 -> Nat], bits : [Bits -> Nat]]

ASSUME NoneAssumption == None \notin Events \cup L1Informations \cup LumiSectionInfos

VARIABLES
  evmState,    \* the EVM's state, "Leaving" while it leaves Processing
  leaving,     \* why: the event that made it leave
  run,         \* runNumber_
  extracted,   \* what the EVM's work loop is about to put into l1InfoFIFO, or None
  l1InfoFIFO,
  l1Locked,    \* the L1Info loop holds currentLumiSectionInfoMutex_
  l1Info,      \* what it works on, or None
  lumiSectionInfoFIFO,
  lastSeenLumiSection,
  currentLumiSectionInfo,
  scalers,     \* where the L1Scalers loop is
  lsInfo,      \* what it publishes, or None
  idle,        \* idle_
  emptySoFar,  \* how many of the conditions of empty() its caller has found to hold
  accepted,    \* history: the information extracted and accepted, in order
  published,   \* history: what has been published
  lost,        \* history: what could not be, in order
  skipped,     \* history: the lumi sections announced as skipped, in order
  late         \* history: the runs that the EVM left while information of theirs, or of
               \* an earlier run, waited in l1InfoFIFO

evm     == << evmState, leaving, run, emptySoFar, late >>
current == << currentLumiSectionInfo, lumiSectionInfoFIFO, skipped >>
publisher == << scalers, lsInfo, idle, published, lost >>
vars == << evm, extracted, l1InfoFIFO, l1Locked, l1Info, lastSeenLumiSection, current, publisher, accepted >>

Init ==
  /\ evmState = "Halted" /\ leaving = None /\ run = 0 /\ emptySoFar = 0
  /\ extracted = None /\ l1InfoFIFO = << >> /\ lastSeenLumiSection = 0
  /\ l1Locked = FALSE /\ l1Info = None
  /\ currentLumiSectionInfo = None /\ lumiSectionInfoFIFO = << >> /\ skipped = << >>
  /\ scalers = "asleep" /\ lsInfo = None /\ idle = TRUE
  /\ accepted = << >> /\ published = << >> /\ lost = << >> /\ late = {}

(***************************************************************************)
(* The work loop of the EVM.                                               *)
(***************************************************************************)

\* The loop runs while the EVM is Processing, and finishes its round when it is left.
Processing == evmState \in {"Enabled", "Draining"}

\* extractInfoFromGTP: only a physics trigger has its bits looked at.
ExtractInfoFromGTP(trigger, ls) ==
  [run |-> run, ls |-> ls, eventType |-> trigger.eventType,
   bits |-> IF trigger.eventType = 1 THEN trigger.bits ELSE {}]

\* verifyLumiSection
VerifyLumiSection(ls) == ls >= lastSeenLumiSection

\* extractL1Info, up to the FIFO. (What cannot be decoded leaves nothing behind.)
ExtractL1Info(trigger, ls) ==
  /\ Processing /\ EnableL1Info /\ extracted = None
  /\ Len(accepted) < MaxTriggers
  /\ VerifyLumiSection(ls)
  /\ lastSeenLumiSection' = ls
  /\ extracted' = ExtractInfoFromGTP(trigger, ls)
  /\ accepted' = Append(accepted, extracted')
  /\ UNCHANGED << evm, l1InfoFIFO, l1Locked, l1Info, current, publisher >>

\* verifyLumiSection raises, and the EVM fails.
LumiSectionDecreases(ls) ==
  /\ Processing /\ EnableL1Info /\ extracted = None
  /\ ~VerifyLumiSection(ls)
  /\ evmState' = "Leaving" /\ leaving' = "Fail" /\ emptySoFar' = 0
  /\ UNCHANGED << run, extracted, l1InfoFIFO, l1Locked, l1Info, lastSeenLumiSection,
                  current, publisher, accepted, late >>

\* extractL1Info waits until there is room.
EnqL1Info ==
  /\ extracted # None /\ Len(l1InfoFIFO) < L1InfoFIFOCapacity
  /\ l1InfoFIFO' = Append(l1InfoFIFO, extracted)
  /\ extracted' = None
  /\ UNCHANGED << evm, l1Locked, l1Info, lastSeenLumiSection, current, publisher, accepted >>

(***************************************************************************)
(* The L1Info loop.                                                        *)
(***************************************************************************)

ProcessL1Info ==
  /\ ~l1Locked /\ l1InfoFIFO # << >>
  /\ l1Locked' = TRUE
  /\ UNCHANGED << evm, extracted, l1InfoFIFO, l1Info, lastSeenLumiSection, current, publisher, accepted >>

\* processAllAvailableL1Infos takes the next one, and ends when there is none.
DeqL1Info ==
  /\ l1Locked /\ l1Info = None /\ l1InfoFIFO # << >>
  /\ l1Info' = Head(l1InfoFIFO)
  /\ l1InfoFIFO' = Tail(l1InfoFIFO)
  /\ UNCHANGED << evm, extracted, l1Locked, lastSeenLumiSection, current, publisher, accepted >>

NoMoreL1Info ==
  /\ l1Locked /\ l1Info = None /\ l1InfoFIFO = << >>
  /\ l1Locked' = FALSE
  /\ UNCHANGED << evm, extracted, l1InfoFIFO, l1Info, lastSeenLumiSection, current, publisher, accepted >>

\* getNewLumiSectionInfo
NewLumiSectionInfo(info, previous) ==
  [run |-> info.run, ls |-> info.ls, skipped |-> info.ls - previous - 1, eventCount |-> 0,
   triggers |-> [type \in 1 .. 3 |-> 0], bits |-> [b \in Bits |-> 0]]

\* addSkippedLumiSectionsToFIFO
SkippedLumiSections(ls) ==
  [i \in 1 .. ls.skipped |-> [run |-> ls.run, ls |-> ls.ls - ls.skipped + i - 1]]

\* addEventCounts
AddEventCounts(ls, info) ==
  [ls EXCEPT !.eventCount = @ + 1,
             !.triggers = [type \in 1 .. 3 |-> @[type] + (IF type = info.eventType THEN 1 ELSE 0)]]

\* addTriggerBits
AddTriggerBits(ls, info) ==
  [ls EXCEPT !.bits = [b \in Bits |-> @[b] + (IF b \in info.bits THEN 1 ELSE 0)]]

\* Faulty variant: what the EVM's work loop saw last is taken for what was summed up last.
PreviousLumiSection_LastSeen == lastSeenLumiSection - 1

\* The lumi section summed up so far; 0 when nothing was "since reset".
PreviousLumiSection == IF currentLumiSectionInfo = None THEN 0 ELSE currentLumiSectionInfo.ls

Added(ls) == AddTriggerBits(AddEventCounts(ls, l1Info), l1Info)

\* addLumiSectionInfo: a new lumi section begins, or
BeginLumiSection ==
  /\ l1Info # None /\ l1Info.ls > PreviousLumiSection
  /\ currentLumiSectionInfo # None => Len(lumiSectionInfoFIFO) < LumiSectionInfoFIFOCapacity
  /\ lumiSectionInfoFIFO' = IF currentLumiSectionInfo = None THEN lumiSectionInfoFIFO
                            ELSE Append(lumiSectionInfoFIFO, currentLumiSectionInfo)
  /\ LET new == NewLumiSectionInfo(l1Info, PreviousLumiSection)
     IN  /\ skipped' = skipped \o SkippedLumiSections(new)
         /\ currentLumiSectionInfo' = Added(new)
  /\ l1Info' = None
  /\ UNCHANGED << evm, extracted, l1InfoFIFO, l1Locked, lastSeenLumiSection, publisher, accepted >>

\* the one in progress goes on.
AddLumiSectionInfo ==
  /\ l1Info # None /\ currentLumiSectionInfo # None /\ l1Info.ls <= currentLumiSectionInfo.ls
  /\ currentLumiSectionInfo' = Added(currentLumiSectionInfo)
  /\ l1Info' = None
  /\ UNCHANGED << evm, extracted, l1InfoFIFO, l1Locked, lastSeenLumiSection, lumiSectionInfoFIFO, skipped,
                  publisher, accepted >>

(***************************************************************************)
(* The L1Scalers loop.                                                     *)
(***************************************************************************)

\* sendL1Scalers
SendL1Scalers ==
  /\ scalers = "asleep"
  /\ scalers' = "sending" /\ idle' = FALSE
  /\ UNCHANGED << evm, extracted, l1InfoFIFO, l1Locked, l1Info, lastSeenLumiSection, current,
                  lsInfo, published, lost, accepted >>

\* sendAllAvailableL1Scalers takes the next one, and ends when there is none.
DeqLumiSectionInfo ==
  /\ scalers = "sending" /\ lsInfo = None /\ lumiSectionInfoFIFO # << >>
  /\ lsInfo' = Head(lumiSectionInfoFIFO)
  /\ lumiSectionInfoFIFO' = Tail(lumiSectionInfoFIFO)
  /\ UNCHANGED << evm, extracted, l1InfoFIFO, l1Locked, l1Info, lastSeenLumiSection, currentLumiSectionInfo,
                  skipped, scalers, idle, published, lost, accepted >>

\* updateL1Scalers, with sendL1ScalersMsg
UpdateL1Scalers ==
  /\ lsInfo # None
  /\ published' = Append(published, lsInfo)
  /\ lsInfo' = None
  /\ UNCHANGED << evm, extracted, l1InfoFIFO, l1Locked, l1Info, lastSeenLumiSection, current,
                  scalers, idle, lost, accepted >>

\* updateL1Scalers raises; sendL1Scalers reports it and sleeps. (The buffer is not released.)
UpdateFails ==
  /\ lsInfo # None /\ MayLose
  /\ lost' = Append(lost, lsInfo)
  /\ lsInfo' = None
  /\ scalers' = "asleep" /\ idle' = TRUE
  /\ UNCHANGED << evm, extracted, l1InfoFIFO, l1Locked, l1Info, lastSeenLumiSection, current,
                  published, accepted >>

\* Faulty variant: idle_ is not set again.
NoMoreLumiSectionInfo_StaysBusy ==
  /\ scalers = "sending" /\ lsInfo = None /\ lumiSectionInfoFIFO = << >>
  /\ scalers' = "asleep"
  /\ UNCHANGED << evm, extracted, l1InfoFIFO, l1Locked, l1Info, lastSeenLumiSection, current,
                  lsInfo, idle, published, lost, accepted >>

NoMoreLumiSectionInfo ==
  /\ scalers = "sending" /\ lsInfo = None /\ lumiSectionInfoFIFO = << >>
  /\ scalers' = "asleep" /\ idle' = TRUE
  /\ UNCHANGED << evm, extracted, l1InfoFIFO, l1Locked, l1Info, lastSeenLumiSection, current,
                  lsInfo, published, lost, accepted >>

(***************************************************************************)
(* The state machine of the EVM.                                           *)
(***************************************************************************)

\* Faulty variant: empty() does not look at idle_.
EmptyCondition_NoIdle(i) ==
  \/ i = 1 /\ l1InfoFIFO = << >>
  \/ i = 2 /\ lumiSectionInfoFIFO = << >>
  \/ i = 3

\* The conditions empty() reads, one after the other.
EmptyCondition(i) ==
  \/ i = 1 /\ l1InfoFIFO = << >>
  \/ i = 2 /\ lumiSectionInfoFIFO = << >>
  \/ i = 3 /\ idle

\* Who calls empty(): clear(), and the draining thread whenever ruBuilderIsFlushed_ is
\* true. This flag is only updated with the monitoring: it may be true of some time before
\* the last triggers.
Asking == evmState \in {"Clearing", "Draining"}

Empty(i) ==
  /\ Asking /\ emptySoFar = i - 1
  /\ EmptyCondition(i)
  /\ emptySoFar' = i
  /\ UNCHANGED << evmState, leaving, run, extracted, l1InfoFIFO, l1Locked, l1Info,
                  lastSeenLumiSection, current, publisher, accepted, late >>

\* empty() returns false and is called again some time later.
NotEmpty ==
  /\ Asking /\ emptySoFar \in 1 .. 2
  /\ ~EmptyCondition(emptySoFar + 1)
  /\ emptySoFar' = 0
  /\ UNCHANGED << evmState, leaving, run, extracted, l1InfoFIFO, l1Locked, l1Info,
                  lastSeenLumiSection, current, publisher, accepted, late >>

\* clear(), called by Configuring and by Clearing, returns.
Clear ==
  /\ evmState = "Clearing" /\ emptySoFar = 3
  /\ lastSeenLumiSection' = 0
  /\ evmState' = "Ready" /\ emptySoFar' = 0
  /\ UNCHANGED << leaving, run, extracted, l1InfoFIFO, l1Locked, l1Info, current, publisher, accepted, late >>

Configure ==
  /\ evmState = "Halted" /\ run < MaxRuns
  /\ evmState' = "Clearing"
  /\ UNCHANGED << leaving, run, emptySoFar, extracted, l1InfoFIFO, l1Locked, l1Info,
                  lastSeenLumiSection, current, publisher, accepted, late >>

Enable ==
  /\ evmState = "Ready" /\ run < MaxRuns
  /\ evmState' = "Enabled" /\ run' = run + 1
  /\ UNCHANGED << leaving, emptySoFar, extracted, l1InfoFIFO, l1Locked, l1Info,
                  lastSeenLumiSection, current, publisher, accepted, late >>

Stop ==
  /\ evmState = "Enabled"
  /\ evmState' = "Draining"
  /\ UNCHANGED << leaving, run, emptySoFar, extracted, l1InfoFIFO, l1Locked, l1Info,
                  lastSeenLumiSection, current, publisher, accepted, late >>

\* An event makes the EVM leave Processing: Draining is done, or has been blocked for
\* too long, or the client says it is, or the client halts or fails the EVM.
Leave(event) ==
  /\ \/ event = "DrainingDone" /\ evmState = "Draining" /\ emptySoFar = 3
     \/ event \in {"Blocked", "Halt", "Fail"} /\ Processing
  /\ evmState' = "Leaving" /\ leaving' = event /\ emptySoFar' = 0
  /\ UNCHANGED << run, extracted, l1InfoFIFO, l1Locked, l1Info,
                  lastSeenLumiSection, current, publisher, accepted, late >>

\* Where it gets to.
NextState(event) ==
  CASE event = "DrainingDone" -> "Clearing"
    [] event = "Blocked"      -> "FlushFailed"
    [] event = "Halt"         -> "Halted"
    [] event = "Fail"         -> "Failed"

\* Faulty variant: currentLumiSectionInfo_ is not reset.
EnqCurrentLumiSectionInfo_NotReset ==
  /\ evmState = "Leaving" /\ extracted = None /\ ~l1Locked
  /\ currentLumiSectionInfo # None => Len(lumiSectionInfoFIFO) < LumiSectionInfoFIFOCapacity
  /\ lumiSectionInfoFIFO' = IF currentLumiSectionInfo = None THEN lumiSectionInfoFIFO
                            ELSE Append(lumiSectionInfoFIFO, currentLumiSectionInfo)
  /\ late' = IF l1InfoFIFO = << >> THEN late ELSE late \cup {run}
  /\ evmState' = NextState(leaving) /\ leaving' = None
  /\ UNCHANGED << run, emptySoFar, extracted, l1InfoFIFO, l1Locked, l1Info, currentLumiSectionInfo,
                  lastSeenLumiSection, skipped, publisher, accepted >>

\* Processing::exitAction: the work loop has stopped, and enqCurrentLumiSectionInfo
\* gets the mutex and room in the FIFO. It does not look at l1InfoFIFO.
EnqCurrentLumiSectionInfo ==
  /\ evmState = "Leaving" /\ extracted = None /\ ~l1Locked
  /\ currentLumiSectionInfo # None => Len(lumiSectionInfoFIFO) < LumiSectionInfoFIFOCapacity
  /\ lumiSectionInfoFIFO' = IF currentLumiSectionInfo = None THEN lumiSectionInfoFIFO
                            ELSE Append(lumiSectionInfoFIFO, currentLumiSectionInfo)
  /\ currentLumiSectionInfo' = None
  /\ late' = IF l1InfoFIFO = << >> THEN late ELSE late \cup {run}
  /\ evmState' = NextState(leaving) /\ leaving' = None
  /\ UNCHANGED << run, emptySoFar, extracted, l1InfoFIFO, l1Locked, l1Info,
                  lastSeenLumiSection, skipped, publisher, accepted >>

\* The client reacts to a state that is not Processing: Clear after a failed flush, Halt.
ClearCommand ==
  /\ evmState = "FlushFailed"
  /\ evmState' = "Clearing"
  /\ UNCHANGED << leaving, run, emptySoFar, extracted, l1InfoFIFO, l1Locked, l1Info,
                  lastSeenLumiSection, current, publisher, accepted, late >>

HaltCommand ==
  /\ evmState \in {"Ready", "FlushFailed"}
  /\ evmState' = "Halted"
  /\ UNCHANGED << leaving, run, emptySoFar, extracted, l1InfoFIFO, l1Locked, l1Info,
                  lastSeenLumiSection, current, publisher, accepted, late >>

Next ==
  \/ \E trigger \in Triggers, ls \in LumiSections : ExtractL1Info(trigger, ls)
  \/ \E ls \in LumiSections : LumiSectionDecreases(ls)
  \/ EnqL1Info
  \/ ProcessL1Info \/ DeqL1Info \/ NoMoreL1Info \/ BeginLumiSection \/ AddLumiSectionInfo
  \/ SendL1Scalers \/ DeqLumiSectionInfo \/ UpdateL1Scalers \/ UpdateFails \/ NoMoreLumiSectionInfo
  \/ \E i \in 1 .. 3 : Empty(i)
  \/ NotEmpty \/ Clear
  \/ Configure \/ Enable \/ Stop
  \/ \E event \in Events : Leave(event)
  \/ EnqCurrentLumiSectionInfo \/ ClearCommand \/ HaltCommand

Spec == Init /\ [][Next]_vars

(***************************************************************************)
(* Fairness. The loops and the callers of empty() run again and again. The *)
(* L1Scalers loop sleeps a second with idle_ set, and empty() is called    *)
(* every millisecond: while it is true that the loop sleeps, time and      *)
(* again, each of the conditions is looked at.                             *)
(***************************************************************************)
L1InfoLoop    == ProcessL1Info \/ DeqL1Info \/ NoMoreL1Info \/ BeginLumiSection \/ AddLumiSectionInfo
L1ScalersLoop == SendL1Scalers \/ DeqLumiSectionInfo \/ UpdateL1Scalers \/ UpdateFails \/ NoMoreLumiSectionInfo
EmptyWhileIdle(i) == idle /\ Empty(i)

Fairness ==
  /\ WF_vars(L1InfoLoop) /\ WF_vars(L1ScalersLoop)
  /\ WF_vars(NotEmpty \/ Clear \/ EnqCurrentLumiSectionInfo \/ EnqL1Info)
  /\ \A i \in 1 .. 3 : SF_vars(EmptyWhileIdle(i))

FairSpec == Spec /\ Fairness

(***************************************************************************)
(* Properties.                                                             *)
(***************************************************************************)

\* The variables have their types and the FIFOs their capacities.
TypeOK ==
  /\ evmState \in {"Halted", "Clearing", "Ready", "Enabled", "Draining", "Leaving", "FlushFailed", "Failed"}
  /\ leaving \in Events \cup {None}
  /\ run \in Nat /\ late \subseteq Nat /\ emptySoFar \in 0 .. 3
  /\ extracted \in L1Informations \cup {None} /\ l1Info \in L1Informations \cup {None}
  /\ l1InfoFIFO \in Seq(L1Informations) /\ Len(l1InfoFIFO) <= L1InfoFIFOCapacity
  /\ l1Locked \in BOOLEAN /\ lastSeenLumiSection \in LumiSections \cup {0}
  /\ currentLumiSectionInfo \in LumiSectionInfos \cup {None}
  /\ lumiSectionInfoFIFO \in Seq(LumiSectionInfos)
  /\ Len(lumiSectionInfoFIFO) <= LumiSectionInfoFIFOCapacity
  /\ scalers \in {"asleep", "sending"} /\ idle \in BOOLEAN
  /\ lsInfo \in LumiSectionInfos \cup {None}
  /\ accepted \in Seq(L1Informations) /\ published \in Seq(LumiSectionInfos)
  /\ lost \in Seq(LumiSectionInfos) /\ skipped \in Seq([run : Nat, ls : Nat])

\* clear() is documented as "Remove all data". It keeps this promise, whatever the timing
\* of the loops, if the last run was not late: then, when the EVM is Ready, nothing of it
\* or of an earlier run is left in the handler, with its loops or in between. (clear() does
\* not look at the current lumi section and at what the L1Info loop has in its hands: a
\* run that ends while information waits in l1InfoFIFO leaves data to the next one.)
OnlyALateRunLeavesData ==
  evmState = "Ready" /\ run \notin late =>
    /\ l1InfoFIFO = << >> /\ lumiSectionInfoFIFO = << >>
    /\ extracted = None /\ l1Info = None /\ lsInfo = None
    /\ currentLumiSectionInfo = None /\ lastSeenLumiSection = 0

\* What was accepted in a lumi section of a run, and the lumi section before it.
Of(r, ls) == {i \in DOMAIN accepted : accepted[i].run = r /\ accepted[i].ls = ls}
Seen(r) == {accepted[i].ls : i \in {i \in DOMAIN accepted : accepted[i].run = r}}
LastBefore(r, ls) ==
  LET before == {l \in Seen(r) : l < ls} IN IF before = {} THEN 0 ELSE Max(before)

\* The record that should be published for it.
TrueInfo(r, ls) ==
  [run |-> r, ls |-> ls, skipped |-> ls - LastBefore(r, ls) - 1, eventCount |-> Cardinality(Of(r, ls)),
   triggers |-> [type \in 1 .. 3 |-> Cardinality({i \in Of(r, ls) : accepted[i].eventType = type})],
   bits |-> [b \in Bits |-> Cardinality({i \in Of(r, ls) : b \in accepted[i].bits})]]

\* What is published of a lumi section counts each of its triggers, and nothing else; it
\* is published once and in order; and before the next run, all that was not lost is.
ScalersAreTrue ==
  /\ \A i \in 1 .. Len(published) : published[i] = TrueInfo(published[i].run, published[i].ls)
  /\ \A i, j \in 1 .. Len(published) : i < j =>
       \/ published[i].run < published[j].run
       \/ published[i].run = published[j].run /\ published[i].ls < published[j].ls
  /\ evmState = "Ready" =>
       \A info \in ToSet(accepted) : TrueInfo(info.run, info.ls) \in ToSet(published \o lost)

\* A lumi section that is announced as skipped never has, nor gets, a trigger, and is
\* announced once; before the next run each one that was skipped has been announced.
SkippedSectionsAreEmpty ==
  /\ \A i \in 1 .. Len(skipped) : skipped[i].ls \notin Seen(skipped[i].run)
  /\ IsInjective(skipped)
  /\ evmState = "Ready" =>
       \A r \in 1 .. run : \A l \in Seen(r) : \A ls \in 1 .. l :
         ls \in Seen(r) \/ [run |-> r, ls |-> ls] \in ToSet(skipped)

\* What the L1Info loop and the L1Scalers loop tell the others of a run, scalers and
\* skipped lumi sections, is true of its triggers, whatever the two threads' timing, as
\* long as no run was late.
PublishedIsTrue == late = {} => ScalersAreTrue /\ SkippedSectionsAreEmpty

\* The sums, published or not, and the information that is not yet part of one.
Optional(x) == IF x = None THEN << >> ELSE << x >>
Sums    == published \o lost \o Optional(lsInfo) \o lumiSectionInfoFIFO \o Optional(currentLumiSectionInfo)
Waiting == Optional(l1Info) \o l1InfoFIFO \o Optional(extracted)

Total(count(_), sums) == FoldLeft(LAMBDA n, sum : n + count(sum), 0, sums)
Number(is(_), infos)  == Cardinality({i \in DOMAIN infos : is(infos[i])})

\* Late or not, across runs and failures: each trigger that was accepted is counted once,
\* in one sum or as waiting to be, with its type and its bits. So what a late run leaves
\* is counted in a wrong place, but it is neither lost nor counted twice.
EachTriggerCountedOnce ==
  /\ Total(LAMBDA sum : sum.eventCount, Sums) + Len(Waiting) = Len(accepted)
  /\ \A type \in 1 .. 3 :
       LET OfType(info) == info.eventType = type
       IN  Total(LAMBDA sum : sum.triggers[type], Sums) + Number(OfType, Waiting) = Number(OfType, accepted)
  /\ \A b \in Bits :
       LET HasBit(info) == b \in info.bits
       IN  Total(LAMBDA sum : sum.bits[b], Sums) + Number(HasBit, Waiting) = Number(HasBit, accepted)

\* clear() returns: the L1Scalers loop cannot keep it from finding everything empty, and
\* leaving Processing ends although it waits for two loops, for a mutex and for room.
ClearEnds ==
  /\ evmState = "Clearing" ~> evmState = "Ready"
  /\ evmState = "Leaving" ~> evmState # "Leaving"
=============================================================================
