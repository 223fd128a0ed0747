---------------------------- MODULE MCRoundTrip ----------------------------
EXTENDS RoundTrip

Zone(rus, bus) == [EVM |-> {0}, RU |-> rus, BU |-> bus, SM |-> {1, 2}]

\* Fragment sets 1 (defined twice) and 2, and a file with an item that has no value.
GoodFile == << FragmentSetDef(1, "first", << AnItem(2) >>), FragmentSetDef(2, "all", << Comment, ARange(1, 2) >>),
               FragmentSetDef(1, "again", << AnItem(1) >>) >>
BadFile  == << FragmentSetDef(1, "bad", << AnItem(1), AnItem(Missing) >>) >>

ByInstances(list)    == [useFragmentSet |-> FALSE, fragmentSets |-> Missing, fragmentSetId |-> 0, ruInstances |-> list]
ByFragmentSet(f, id) == [useFragmentSet |-> TRUE, fragmentSets |-> f, fragmentSetId |-> id, ruInstances |-> << 1 >>]

Configuration(evm, bu, resources, triggers) ==
  [evm |-> evm, bu |-> bu, resources |-> resources, triggers |-> triggers, assignRoundRobin |-> FALSE,
   autoDiscoverSM |-> TRUE, smInstances |-> << >>, evmInstance |-> -1, destinationInstance |-> 1]
Same(rus, resources, triggers) == Configuration(rus, rus, resources, triggers)
Setup(zone, configurations)    == [zone |-> zone, configurations |-> configurations]
One(c)             == Setup(Zone({1, 2}, {1}), << c >>)

All == ByInstances(<< 1, 2 >>)

\* One RU and then both; both, none, and those of a fragment set.
Added   == Setup(Zone({1, 2}, {1}),
             << [Same(ByFragmentSet(GoodFile, 1), 1, 1) EXCEPT !.autoDiscoverSM = FALSE, !.smInstances = << 2 >>],
                Same(All, 1, 2) >>)
Removed == Setup(Zone({1, 2}, {1}),
             << Same(All, 1, 1), Same(ByInstances(<< >>), 1, 2), Same(ByFragmentSet(GoodFile, 2), 1, 3) >>)

\* BUs that share the events.
Turns == Setup(Zone({1}, {1, 2}), << [Same(ByInstances(<< 1 >>), 2, 4) EXCEPT !.assignRoundRobin = TRUE] >>)
Fullest == Setup(Zone({1, 2}, {1, 2}), << Same(All, 1, 3) >>)

\* EVM and BU that were told different RUs.
Differing == { One(Configuration(All, ByInstances(<< 2 >>), 2, 2)), One(Configuration(ByInstances(<< 1 >>), All, 2, 2)) }

\* What is refused.
Refused ==
  { One(Same(rus, 1, 1)) :
      rus \in { ByInstances(<< 1, 1 >>), ByInstances(<< 1, 3 >>), ByFragmentSet(GoodFile, 3),
                ByFragmentSet(BadFile, 1), ByFragmentSet(Missing, 1) } }
  \cup { One([Same(All, 1, 1) EXCEPT !.autoDiscoverSM = FALSE, !.smInstances = s]) : s \in { << 1, 1 >>, << 3 >> } }
  \cup { One([Same(All, 1, 1) EXCEPT !.evmInstance = 3]), One([Same(All, 1, 1) EXCEPT !.destinationInstance = 3]),
         Setup(Zone({1, 2}, {}), << Same(All, 1, 1) >>) }

MCSetups == { Added, Removed, Turns, Fullest, One(Same(All, 3, 3)) } \cup Differing \cup Refused
============================================================================
