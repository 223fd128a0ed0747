----------------------------- MODULE Participants -----------------------------
(***************************************************************************)
(* How EVM, RU, BU and RUI find their peers when they are configured: from *)
(* the applications of the zone and the parameters, among them a file of   *)
(* fragment sets, each of which names the RUs of a partition.              *)
(*                                                                         *)
(* A zone has the instance numbers of the applications of each class.  The *)
(* I2O address of an application that is in the zone is always found.      *)
(***************************************************************************)
EXTENDS Integers, SequencesExt, FiniteSetsExt

CONSTANT Missing   \* an attribute that is not there

IsList(s) == s \in Seq(Range(s))

\* A definition in a file of fragment sets, and its children of interest.
FragmentSetDef(id, name, children) == [id |-> id, name |-> name, children |-> children]
AnItem(value)      == [kind |-> "item", value |-> value]
ARange(min, max)   == [kind |-> "range", min |-> min, max |-> max]
Comment            == [kind |-> "#comment"]

\* The attributes of a child that are there are numbers.
IsChild(node) ==
  /\ node.kind = "item"  => (node.value = Missing \/ node.value \in Int)
  /\ node.kind = "range" => (Missing \in {node.min, node.max} \/ {node.min, node.max} \subseteq Int)
IsFile(file) ==
  IsList(file) /\ \A i \in DOMAIN file : /\ IsList(file[i].children)
                                         /\ \A j \in DOMAIN file[i].children : IsChild(file[i].children[j])

\* The parameters by which an application finds its RUs.
IsRuParameters(p) == IsList(p.ruInstances) /\ (p.fragmentSets = Missing \/ IsFile(p.fragmentSets))

Raised == [ok |-> FALSE, sets |-> << >>]

AddItem(read, id, node) ==
  IF node.value = Missing THEN Raised ELSE [read EXCEPT !.sets[id] = @ \cup {node.value}]

AddRange(read, id, node) ==
  IF Missing \in {node.min, node.max} THEN Raised
  ELSE [read EXCEPT !.sets[id] = @ \cup (node.min .. node.max)]

AddChild(read, id, node) ==
  IF ~ read.ok THEN Raised
  ELSE CASE node.kind = "item"    -> AddItem(read, id, node)
         [] node.kind = "range"   -> AddRange(read, id, node)
         [] OTHER                 -> read

\* A later definition of a set replaces an earlier one.
NewFragmentSet(sets, id) == [i \in {id} \cup DOMAIN sets |-> IF i = id THEN {} ELSE sets[i]]

AddFragmentSet(read, def) ==
  IF ~ read.ok \/ Missing \in {def.id, def.name} THEN Raised
  ELSE FoldLeft(LAMBDA r, node : AddChild(r, def.id, node),
                [read EXCEPT !.sets = NewFragmentSet(@, def.id)], def.children)

\* FragmentSets::init; a file that cannot be parsed is Missing.
FragmentSets(file) ==
  IF file = Missing THEN Raised ELSE FoldLeft(AddFragmentSet, [ok |-> TRUE, sets |-> << >>], file)

-----------------------------------------------------------------------------
(* The RUs: RUbroadcaster, in the EVM's and in the BU's RUproxy.           *)

\* The order of std::set<int>.
InOrder(S) == CHOOSE s \in [1 .. Cardinality(S) -> S] : \A i, j \in DOMAIN s : i < j => s[i] < s[j]

\* ruInstances as it is exported: all RUs of the zone.
RuInstances(zone) == InOrder(zone.RU)

NoRUs == [ok |-> TRUE, participatingRUs |-> {}, ruCount |-> 0]

FillRUInstance(zone, rus, instance) ==
  CASE ~ rus.ok                            -> rus
    [] instance \notin zone.RU             -> [rus EXCEPT !.ok = FALSE]
    [] instance \in rus.participatingRUs   -> [rus EXCEPT !.ok = FALSE]
    [] OTHER                               -> [rus EXCEPT !.participatingRUs = @ \cup {instance}]

\* Faulty variant: the RUs of the last configuration stay.
Fill_NotCleared(zone, before, instances) ==
  LET rus == FoldLeft(LAMBDA r, i : FillRUInstance(zone, r, i), before, instances)
  IN IF rus.ok THEN [rus EXCEPT !.ruCount = Cardinality(rus.participatingRUs)] ELSE rus

\* Faulty variant: the number of RUs stays that of the first configuration.
Fill_CountKept(zone, before, instances) ==
  LET rus == FoldLeft(LAMBDA r, i : FillRUInstance(zone, r, i),
                      [before EXCEPT !.participatingRUs = {}], instances)
  IN IF rus.ok /\ rus.ruCount = 0 THEN [rus EXCEPT !.ruCount = Cardinality(rus.participatingRUs)] ELSE rus

\* When it raises, the count is that of before.
Fill(zone, before, instances) ==
  LET rus == FoldLeft(LAMBDA r, i : FillRUInstance(zone, r, i),
                      [before EXCEPT !.participatingRUs = {}], instances)
  IN [ok |-> rus.ok, participatingRUs |-> rus.participatingRUs,
      ruCount |-> IF rus.ok THEN Cardinality(rus.participatingRUs) ELSE before.ruCount]

\* A set of instances, in the order of std::set.
FillParticipatingRUsUsingFragmentSet(zone, before, params) ==
  LET read == FragmentSets(params.fragmentSets)
  IN IF params.fragmentSetId \notin DOMAIN read.sets THEN [before EXCEPT !.ok = FALSE]
     ELSE Fill(zone, before, InOrder(read.sets[params.fragmentSetId]))

FillParticipatingRUsUsingRuInstances(zone, before, params) == Fill(zone, before, params.ruInstances)

ParticipatingRUs(zone, before, params) ==
  IF params.useFragmentSet THEN FillParticipatingRUsUsingFragmentSet(zone, before, params)
  ELSE FillParticipatingRUsUsingRuInstances(zone, before, params)

-----------------------------------------------------------------------------
(* The storage managers, told of the end of a lumi section by the EVM.     *)

NoSMs == [ok |-> TRUE, participatingSMs |-> {}]

AddSM(zone, sms, instance) ==
  IF sms.ok /\ instance \in zone.SM \ sms.participatingSMs
  THEN [sms EXCEPT !.participatingSMs = @ \cup {instance}] ELSE [sms EXCEPT !.ok = FALSE]

DiscoverParticipatingSMs(zone) == [ok |-> TRUE, participatingSMs |-> zone.SM]

FillParticipatingSMsUsingSMInstances(zone, params) ==
  FoldLeft(LAMBDA s, i : AddSM(zone, s, i), NoSMs, params.smInstances)

ParticipatingSMs(zone, params) ==
  IF params.autoDiscoverSM THEN DiscoverParticipatingSMs(zone)
  ELSE FillParticipatingSMsUsingSMInstances(zone, params)

-----------------------------------------------------------------------------
(* The other peers.                                                        *)

\* The EVMs a BU may take: any when no instance is given, for the set is ordered by address.
EvmsOfBU(zone, params) ==
  IF params.evmInstance < 0 THEN zone.EVM ELSE zone.EVM \cap {params.evmInstance}

\* An RU needs a BU; the EVM takes all there are.
RuFindsBUs(zone) == zone.BU # {}
BuDescriptors(zone) == zone.BU

\* An RUI sends to the application it is told to.
RuiFindsRU(zone, params) == params.destinationInstance \in zone.RU
=============================================================================
