---------------------------- MODULE EvBidFactory ----------------------------
(***************************************************************************)
(* The event-builder identifier (utils/EvBid.h) and the factory that       *)
(* issues it (utils/EvBidFactory.cc).  An EvBid is the pair of a resync    *)
(* count and the trigger (event) number; the factory bumps the resync      *)
(* count whenever the trigger number does not increase, so that the        *)
(* identifiers it issues never repeat.  Every FED input of a readout unit  *)
(* and the event manager own a factory each; the identifiers of an event   *)
(* agree only as long as all of them see the same trigger numbers.         *)
(*                                                                         *)
(* The resync count is a uint32_t: the 2^32 resyncs that would wrap it are *)
(* out of reach of a run and Nat stands for it.                            *)
(***************************************************************************)
EXTENDS Naturals

\* The identifiers: what EvBid(resyncCount, eventNumber) constructs.
EvBid == [resyncCount : Nat, eventNumber : Nat]

\* EvBid::operator<, the order of std::map<EvBid, ...>.
EvBidLess(a, b) ==
  \/ a.resyncCount < b.resyncCount
  \/ a.resyncCount = b.resyncCount /\ a.eventNumber < b.eventNumber

\* The state of a factory, as constructed and after reset().
Factory == [previousEventNumber : Nat, resyncCount : Nat]
NewEvBidFactory == [previousEventNumber |-> 0, resyncCount |-> 0]

\* getEvBid(eventNumber): the identifier returned and the state left behind.
\* Faulty variants: the resync is missed for a repeated, or for any, number.
ResyncCountFor_RepeatMissed(factory, eventNumber) ==
  factory.resyncCount + (IF eventNumber < factory.previousEventNumber THEN 1 ELSE 0)
ResyncCountFor_Never(factory, eventNumber) == factory.resyncCount

ResyncCountFor(factory, eventNumber) ==
  factory.resyncCount + (IF eventNumber <= factory.previousEventNumber THEN 1 ELSE 0)

GetEvBid(factory, eventNumber) ==
  [resyncCount |-> ResyncCountFor(factory, eventNumber), eventNumber |-> eventNumber]

AfterGetEvBid(factory, eventNumber) ==
  [previousEventNumber |-> eventNumber,
   resyncCount         |-> ResyncCountFor(factory, eventNumber)]

\* The identifier issued last, the bound of all identifiers issued so far.
LastEvBid(factory) ==
  [resyncCount |-> factory.resyncCount, eventNumber |-> factory.previousEventNumber]
=============================================================================
