------------------------------ MODULE Statechart ------------------------------
(***************************************************************************)
(* The state machines of the applications EVM, RU, BU and RUI, as the      *)
(* Boost.Statechart library runs them. A chart gives for each state its    *)
(* outer state, the inner state it starts in (None for a leaf), its        *)
(* transitions, and what it does with I2O messages:                        *)
(*   "process"  call the component that the message is for                 *)
(*   "discard"  release the message                                        *)
(*   "keep"     neither (the buffer is not released)                       *)
(*   "forward"  leave the message to the outer state                       *)
(* None of the charts has orthogonal regions, history or deferral.         *)
(***************************************************************************)
EXTENDS SequencesExt, TLC

Machine == "state machine"
None == "none"

State(outer, initial, transitions, messages) ==
  [outer |-> outer, initial |-> initial, on |-> transitions, i2o |-> messages]

NoTransition == << >>

(***************************************************************************)
(* The library.                                                            *)
(***************************************************************************)

\* outer_state_ptr: the state and those around it, from the inside out.
Outward(chart, s) ==
  LET around[x \in DOMAIN chart] ==
        IF chart[x].outer = Machine THEN << x >> ELSE << x >> \o around[chart[x].outer]
  IN  around[s]

\* deep_construct: the state and the inner states that are entered with it.
Inward(chart, s) ==
  LET within[x \in DOMAIN chart] ==
        IF chart[x].initial = None THEN << x >> ELSE << x >> \o within[chart[x].initial]
  IN  within[s]

\* react_impl: the innermost state that reacts gets the event.
Reacting(chart, leaf, event) ==
  SelectSeq(Outward(chart, leaf), LAMBDA s : event \in DOMAIN chart[s].on)

\* transit_impl: what has to be left and what has to be entered to go from a leaf to
\* the target of the transition of state s. States around both s and the target stay.
Staying(chart, s, target) ==
  ToSet(Tail(Outward(chart, s))) \cap ToSet(Tail(Outward(chart, target)))

Exits(chart, leaf, s, target) ==
  SelectSeq(Outward(chart, leaf), LAMBDA x : x \notin Staying(chart, s, target))

Entries(chart, s, target) ==
  SelectSeq(Reverse(Outward(chart, target)), LAMBDA x : x \notin Staying(chart, s, target))
    \o Tail(Inward(chart, target))

\* What becomes of an I2O message in a leaf state.
MessageFate(chart, leaf) ==
  LET takers == SelectSeq(Outward(chart, leaf), LAMBDA s : chart[s].i2o # "forward")
  IN  IF takers = << >> THEN "unconsumed" ELSE chart[Head(takers)].i2o

(***************************************************************************)
(* The charts, class by class (States.h of each application). RU's Failed  *)
(* keeps one kind of message only, I2O_EVMRU_DATA_READY; EVM's Failed      *)
(* I2O_EVM_TRIGGER.                                                        *)
(***************************************************************************)

RUOuterStates ==
     "Outermost" :> State(Machine, "AllOk", NoTransition, "discard")
  @@ "Failed"    :> State("Outermost", None, "Fail" :> "Failed", "keep")
  @@ "AllOk"     :> State("Outermost", "Halted", "Fail" :> "Failed", "forward")
  @@ "Halted"    :> State("AllOk", None, "Configure" :> "Active", "forward")
  @@ "Active"    :> State("AllOk", "Configuring", "Halt" :> "Halted", "forward")

RUActiveStates ==
     "Configuring" :> State("Active", None, "ConfigureDone" :> "Configured", "forward")
  @@ "Configured"  :> State("Active", "Clearing", NoTransition, "forward")
  @@ "Processing"  :> State("Active", "Enabled", "Stop" :> "Configured", "process")
  @@ "Clearing"    :> State("Configured", None, "ClearDone" :> "Ready", "forward")
  @@ "Ready"       :> State("Configured", None, "Enable" :> "Processing", "forward")

RUProcessingStates ==
     "Enabled" :> State("Processing", None,
                          "MismatchDetected" :> "MismatchDetectedBackPressuring"
                       @@ "TimedOut" :> "TimedOutBackPressuring", "forward")
  @@ "MismatchDetectedBackPressuring" :> State("Processing", None, NoTransition, "forward")
  @@ "TimedOutBackPressuring" :> State("Processing", None, NoTransition, "forward")

BUOuterStates ==
     "Outermost" :> State(Machine, "AllOk", NoTransition, "discard")
  @@ "Failed"    :> State("Outermost", None, "Fail" :> "Failed", "forward")
  @@ "AllOk"     :> State("Outermost", "Halted", "Fail" :> "Failed", "forward")
  @@ "Halted"    :> State("AllOk", None, "Configure" :> "Active", "forward")
  @@ "Active"    :> State("AllOk", "Configuring", "Halt" :> "Halted", "forward")

BUActiveStates ==
     "Configuring" :> State("Active", None, "ConfigureDone" :> "Configured", "forward")
  @@ "Configured"  :> State("Active", "Clearing", NoTransition, "forward")
  @@ "Processing"  :> State("Active", "Enabled", "Stop" :> "Configured", "process")

BUInnerStates ==
     "Clearing" :> State("Configured", None, "ClearDone" :> "Ready", "forward")
  @@ "Ready"    :> State("Configured", None, "Enable" :> "Processing", "forward")
  @@ "Enabled"  :> State("Processing", None, NoTransition, "forward")

EVMOuterStates ==
     "Outermost" :> State(Machine, "AllOk", NoTransition, "discard")
  @@ "Failed"    :> State("Outermost", None, "Fail" :> "Failed", "keep")
  @@ "AllOk"     :> State("Outermost", "Halted", "Fail" :> "Failed", "forward")
  @@ "Halted"    :> State("AllOk", None, "Configure" :> "Active", "forward")
  @@ "Active"    :> State("AllOk", "Configuring", "Halt" :> "Halted", "forward")

EVMActiveStates ==
     "Configuring" :> State("Active", None, "ConfigureDone" :> "Configured", "forward")
  @@ "Configured"  :> State("Active", "Clearing", NoTransition, "forward")
  @@ "Processing"  :> State("Active", "Enabled", "Blocked" :> "FlushFailed", "process")
  @@ "FlushFailed" :> State("Active", None, "Clear" :> "Configured", "forward")

EVMInnerStates ==
     "Clearing" :> State("Configured", None, "ClearDone" :> "Ready", "forward")
  @@ "Ready"    :> State("Configured", None, "Enable" :> "Processing", "forward")
  @@ "Enabled"  :> State("Processing", None, "Stop" :> "Draining", "forward")
  @@ "Draining" :> State("Processing", None, "DrainingDone" :> "Configured", "forward")

RUIOuterStates ==
     "Outermost" :> State(Machine, "AllOk", NoTransition, "forward")
  @@ "Failed"    :> State("Outermost", None, "Fail" :> "Failed", "forward")
  @@ "AllOk"     :> State("Outermost", "Halted", "Fail" :> "Failed", "forward")
  @@ "Halted"    :> State("AllOk", None, "Configure" :> "Active", "forward")
  @@ "Active"    :> State("AllOk", "Configuring", "Halt" :> "Halted", "forward")

RUIActiveStates ==
     "Configuring" :> State("Active", None, "ConfigureDone" :> "Configured", "forward")
  @@ "Configured"  :> State("Active", "Clearing", NoTransition, "forward")
  @@ "Processing"  :> State("Active", "Enabled", "Stop" :> "Configured", "forward")
  @@ "Clearing"    :> State("Configured", None, "ClearDone" :> "Ready", "forward")
  @@ "Ready"       :> State("Configured", None, "Enable" :> "Processing", "forward")
  @@ "Enabled"     :> State("Processing", None, NoTransition, "forward")

Chart ==
     "RU"  :> (RUOuterStates @@ RUActiveStates @@ RUProcessingStates)
  @@ "BU"  :> (BUOuterStates @@ BUActiveStates @@ BUInnerStates)
  @@ "EVM" :> (EVMOuterStates @@ EVMActiveStates @@ EVMInnerStates)
  @@ "RUI" :> (RUIOuterStates @@ RUIActiveStates)
=============================================================================
