---------------------------- MODULE SuperFragments ----------------------------
(***************************************************************************)
(* The events of generated data, from the generators to the readers. A     *)
(* generator (utils::SuperFragmentGenerator with its SuperFragmentTracker) *)
(* stands in for the trigger, another one for the input of an RU. The EVM  *)
(* looks into the trigger's super-fragment, a BU parses the event and      *)
(* writes it to disk, and an FU checks it block by block.                  *)
(* On the way to the BU one thing may happen to the data of an event.      *)
(* Sizes of data are in words of 8 bytes, the room in a block in bytes.    *)
(***************************************************************************)
EXTENDS SuperFragmentReaders, FiniteSets, EvBidFactory

CONSTANTS
  None,
  FedSourceIds,      \* the fedSourceIds the RU may be configured with
  BlockRooms,        \* and the bytes of its blocks that are left for data
  PayloadSizes,      \* and the words of payload of its FEDs
  LogNormalSizes,    \* the sizes that a log-normal distribution may come up with
  FirstEventNumbers, \* bound: where the event numbers start
  MaxEvents,         \* bound: events
  MaxFailures,       \* bound: how often there is no memory
  MaxDamages         \* bound: damages

\* A block without room for a word would never be filled, and the generator never finish.
ASSUME RoomAssumption == BlockRooms \subseteq Nat /\ \A room \in BlockRooms : room >= 8
ASSUME FedSourceIdsAssumption == << >> \notin FedSourceIds

\* The super-fragments of an event.
Trigger  == 1
RU       == 2
WORD     == 8
LastEventNumber == 2^24 - 1

VARIABLES
  conf,         \* what each generator is configured with
  making,       \* the super-fragment being made, or None between two events
  tracker,      \* the SuperFragmentTracker at work, or None
  nextBlock,    \* the words in the block being filled, or None
  fedCRC,       \* the words fedCRC_ has been computed from
  chain,        \* the blocks made, with head and tail
  eventNumber,  \* eventNumber_ of the trigger's generator
  factory,      \* its evbIdFactory_
  evbId,        \* the event being made
  superFragments, \* the super-fragments of the event that are made
  damaged,      \* what has happened to the event: [kind, superFragment], or None
  damages,      \* bound: how often something has happened to one
  failures,     \* bound: how often there was no memory
  nbEvents,     \* bound: events made
  l1InfoFound,  \* whether the EVM has found the trigger information, or None
  parsed,       \* what the BU has parsed, or None
  toFU,         \* the blocks of the super-fragment that the FU has before it
  nbSent,       \* the super-fragments sent to the FU
  superFragment,   \* superFragmentHead_, the FU's chain
  blockNb,         \* blockNb_ of the FU
  fedSourceIds,    \* fedSourceIds_ of the FU
  faultDetected,   \* faultDetected_
  nbEventsProcessed

generator == << conf, making, tracker, nextBlock, fedCRC, chain, eventNumber, factory, evbId, failures, nbEvents >>
fu == << toFU, nbSent, superFragment, blockNb, fedSourceIds, faultDetected, nbEventsProcessed >>
readers == << l1InfoFound, parsed, fu >>
vars == << generator, superFragments, damaged, damages, readers >>

Configurations ==
  [fedSourceIds : FedSourceIds, room : BlockRooms, payload : PayloadSizes, useLogNormal : {FALSE}]
  \cup [fedSourceIds : FedSourceIds, room : BlockRooms, payload : PayloadSizes \ {0}, useLogNormal : {TRUE}]

\* The trigger is one FED in one block.
TriggerConfiguration ==
  [fedSourceIds |-> << GTP >>, room |-> 3 * WORD, payload |-> 1, useLogNormal |-> FALSE]

Init ==
  /\ conf \in { << TriggerConfiguration, ru >> : ru \in Configurations }
  /\ making = None /\ tracker = None /\ nextBlock = None /\ fedCRC = << >> /\ chain = << >>
  /\ eventNumber \in FirstEventNumbers /\ factory = NewEvBidFactory /\ evbId = None
  /\ superFragments = << >> /\ damaged = None /\ damages = 0 /\ failures = 0 /\ nbEvents = 0
  /\ l1InfoFound = None /\ parsed = None
  /\ toFU = << >> /\ nbSent = 0
  /\ superFragment = << >> /\ blockNb = 0 /\ fedSourceIds = {} /\ faultDetected = FALSE
  /\ nbEventsProcessed = 0

(***************************************************************************)
(* The tracker.                                                            *)
(***************************************************************************)

StartTracker(sizes) ==
  [fedSourceIds |-> sizes.fedSourceIds, current |-> 1, type |-> "header",
   remaining |-> 0, payload |-> sizes.payload]

ReachedEndOfSuperFragment == tracker.current > Len(tracker.fedSourceIds)

\* getNextComponent: the words of the next component, given the room for it. What does not
\* fit at all is given its least size.
ComponentSize(room) ==
  CASE tracker.type \in {"header", "trailer"} -> 1
    [] tracker.type = "payload" /\ room < WORD -> 1
    [] tracker.type = "payload" /\ room >= WORD ->
         IF tracker.remaining * WORD > room THEN room \div WORD ELSE tracker.remaining

\* moveToNextComponent, past one of size words; payload is the size drawn for a FED.
AfterComponent(size, payload) ==
  CASE tracker.type = "header"  -> IF tracker.payload > 0
                                   THEN [tracker EXCEPT !.type = "payload", !.payload = payload,
                                                        !.remaining = payload]
                                   ELSE [tracker EXCEPT !.type = "trailer", !.remaining = 0]
    [] tracker.type = "payload" -> IF tracker.remaining > size
                                   THEN [tracker EXCEPT !.remaining = @ - size]
                                   ELSE [tracker EXCEPT !.type = "trailer", !.remaining = 0]
    [] tracker.type = "trailer" -> [tracker EXCEPT !.type = "header", !.current = @ + 1]

(***************************************************************************)
(* The generator.                                                          *)
(***************************************************************************)

\* getData of the trigger's generator gets the next identifier, and asks for a
\* super-fragment of it; the RU's generator is given the identifier.
StartSuperFragment ==
  /\ making # None /\ tracker = None
  /\ tracker' = StartTracker(conf[making])
  /\ chain' = << >> /\ nextBlock' = None
  /\ IF making = Trigger
     THEN /\ evbId' = GetEvBid(factory, eventNumber)
          /\ factory' = AfterGetEvBid(factory, eventNumber)
     ELSE UNCHANGED << evbId, factory >>
  /\ UNCHANGED << conf, making, fedCRC, eventNumber, failures, nbEvents,
                  superFragments, damaged, damages, readers >>

\* getFrame gives memory for the next block.
GetFrame ==
  /\ tracker # None /\ nextBlock = None
  /\ ~ReachedEndOfSuperFragment
  /\ nextBlock' = << >>
  /\ UNCHANGED << conf, making, tracker, fedCRC, chain, eventNumber, factory, evbId, failures, nbEvents,
                  superFragments, damaged, damages, readers >>

\* There is none: getSuperFragment returns false, and the caller asks again. (The blocks
\* made so far are lost.)
NoFrame ==
  /\ tracker # None /\ nextBlock = None
  /\ ~ReachedEndOfSuperFragment
  /\ failures < MaxFailures
  /\ failures' = failures + 1
  /\ tracker' = None
  /\ UNCHANGED << conf, making, nextBlock, fedCRC, chain, eventNumber, factory, evbId, nbEvents,
                  superFragments, damaged, damages, readers >>

Room == conf[making].room - WORD * Len(nextBlock)

\* insertFedComponent: the words of the component. The payload is what the memory holds.
FedComponent(size) ==
  LET fed == tracker.fedSourceIds[tracker.current]
  IN CASE tracker.type = "header"  -> << FedHeader(fed, evbId.eventNumber) >>
       [] tracker.type = "payload" ->
            [w \in 1..size |-> FedPayload(<< tracker.current, tracker.remaining - w >>)]
       [] tracker.type = "trailer" ->
            << FedTrailer(tracker.payload + 2, Append(fedCRC, FedTrailer(tracker.payload + 2, << >>))) >>

\* fillBlock inserts a component.
InsertFedComponent ==
  /\ tracker # None /\ nextBlock # None
  /\ ~ReachedEndOfSuperFragment
  /\ LET size  == ComponentSize(Room)
         words == FedComponent(size)
     IN /\ WORD * size <= Room
        /\ nextBlock' = nextBlock \o words
        /\ fedCRC' = IF tracker.type = "header" THEN words ELSE fedCRC \o words
        /\ \E payload \in IF conf[making].useLogNormal THEN LogNormalSizes ELSE {tracker.payload} :
             tracker' = AfterComponent(size, payload)
  /\ UNCHANGED << conf, making, chain, eventNumber, factory, evbId, failures, nbEvents,
                  superFragments, damaged, damages, readers >>

\* fillRuAndFrlHeaders
Block(words, number, last) ==
  [eventNumber |-> evbId.eventNumber, trigno |-> evbId.eventNumber,
   blockNb |-> number, segno |-> number, nbBlocksInSuperFragment |-> 0,
   segsize |-> Len(words), lastSegment |-> last, words |-> words]

\* fillBlock ends, and the block is appended to the super-fragment.
FinishBlock ==
  /\ tracker # None /\ nextBlock # None
  /\ ReachedEndOfSuperFragment \/ WORD * ComponentSize(Room) > Room
  /\ chain' = Append(chain, Block(nextBlock, Len(chain), ReachedEndOfSuperFragment))
  /\ nextBlock' = None
  /\ UNCHANGED << conf, making, tracker, fedCRC, eventNumber, factory, evbId, failures, nbEvents,
                  superFragments, damaged, damages, readers >>

\* setNbBlocksInSuperFragment
WithNbBlocks(blocks) ==
  [b \in 1..Len(blocks) |-> [blocks[b] EXCEPT !.nbBlocksInSuperFragment = Len(blocks)]]

\* The information about the event that goes into the payload.
L1Payload == FedPayload(<< evbId.resyncCount, evbId.eventNumber >>)

\* Faulty variant: the trigger information is not followed by updateCRC.
FillTriggerPayload_NoCRC(words) == [words EXCEPT ![2] = L1Payload]

\* fillTriggerPayload and updateCRC
FillTriggerPayload(words) ==
  LET filled == [words EXCEPT ![2] = L1Payload]
  IN [filled EXCEPT ![Len(words)] = FedTrailer(@.size, ComputeCRC(filled))]

\* Faulty variant: the event number runs into its 25th bit.
NextEventNumber_NoWrap(n) == n + 1

\* The event number is 24-bits and starts with 1.
NextEventNumber(n) == IF (n + 1) % 2^24 = 0 THEN 1 ELSE n + 1

\* getSuperFragment returns. That of the trigger has its payload filled, and its event
\* number is used up.
FinishSuperFragment ==
  /\ tracker # None /\ nextBlock = None
  /\ ReachedEndOfSuperFragment
  /\ LET made == WithNbBlocks(chain)
     IN superFragments' = Append(superFragments,
          IF making = Trigger THEN [made EXCEPT ![1].words = FillTriggerPayload(@)] ELSE made)
  /\ tracker' = None /\ chain' = << >>
  /\ IF making = Trigger
     THEN eventNumber' = NextEventNumber(eventNumber) /\ making' = RU /\ UNCHANGED nbEvents
     ELSE making' = None /\ nbEvents' = nbEvents + 1 /\ UNCHANGED eventNumber
  /\ UNCHANGED << conf, nextBlock, fedCRC, factory, evbId, failures, damaged, damages, readers >>

(***************************************************************************)
(* What may happen to the data: a block is lost that is not the last one   *)
(* of its super-fragment (without it the event is never complete), two     *)
(* blocks change places, a word is altered, or the mark of a last segment. *)
(***************************************************************************)

Event == making = None /\ Len(superFragments) = RU

Altered(word) ==
  CASE word.kind = "header"  -> [word EXCEPT !.fed = GTP]
    [] word.kind = "payload" -> [word EXCEPT !.value = Bad]
    [] word.kind = "trailer" -> [word EXCEPT !.crc = << >>]

Exchanged(blocks, b) == [blocks EXCEPT ![b] = blocks[b + 1], ![b + 1] = blocks[b]]

Losses(blocks)    == { RemoveAt(blocks, b) : b \in 1..Len(blocks) - 1 }
Exchanges(blocks) == { Exchanged(blocks, b) : b \in 1..Len(blocks) - 1 }
Markings(blocks)  == { [blocks EXCEPT ![b].lastSegment = ~@] : b \in 1..Len(blocks) }
Alterations(blocks) ==
  UNION { { [blocks EXCEPT ![b].words[w] = Altered(@)] : w \in 1..Len(blocks[b].words) }
          : b \in 1..Len(blocks) }

\* One of the changes possible in each super-fragment.
Damage(kind, changes) ==
  /\ Event /\ parsed = None /\ l1InfoFound # None /\ damages < MaxDamages
  /\ \E s \in {Trigger, RU} : \E blocks \in changes[s] \ {superFragments[s]} :
       /\ superFragments' = [superFragments EXCEPT ![s] = blocks]
       /\ damaged' = [kind |-> kind, superFragment |-> s]
  /\ damages' = damages + 1
  /\ UNCHANGED << generator, readers >>

LoseBlock      == Damage("loss", [s \in {Trigger, RU} |-> Losses(superFragments[s])])
ExchangeBlocks == Damage("exchange", [s \in {Trigger, RU} |-> Exchanges(superFragments[s])])
MarkBlock      == Damage("mark", [s \in {Trigger, RU} |-> Markings(superFragments[s])])
AlterWord      == Damage("word", [s \in {Trigger, RU} |-> Alterations(superFragments[s])])

(***************************************************************************)
(* The readers.                                                            *)
(***************************************************************************)

\* The EVM has the trigger of an event, and could have had what the RU has.
ExtractL1Info ==
  /\ Event /\ l1InfoFound = None
  /\ l1InfoFound' = [s \in {Trigger, RU} |-> FillL1Info(superFragments[s])]
  /\ UNCHANGED << generator, superFragments, damaged, damages, parsed, fu >>

\* The BU has the event.
ParseEvent ==
  /\ Event /\ l1InfoFound # None /\ parsed = None
  /\ parsed' = ParseAndCheckData(superFragments)
  /\ UNCHANGED << generator, superFragments, damaged, damages, l1InfoFound, fu >>

\* sendToFU, for the next super-fragment; an FU that has detected a fault releases it
\* (I2O_FU_TAKE_Callback).
SendSuperFragment ==
  /\ parsed # None /\ toFU = << >> /\ nbSent < RU
  /\ nbSent' = nbSent + 1
  /\ toFU' = IF faultDetected THEN << >> ELSE superFragments[nbSent + 1]
  /\ UNCHANGED << generator, superFragments, damaged, damages, l1InfoFound, parsed,
                  superFragment, blockNb, fedSourceIds, faultDetected, nbEventsProcessed >>

\* What checkRUIPayload expects next. After a fault it is what it was.
BlockNbAfter(block, valid) ==
  IF ~valid THEN blockNb ELSE IF LastBlock(block) THEN 0 ELSE blockNb + 1

\* processDataBlock, for the next block of the super-fragment.
ProcessDataBlock ==
  /\ toFU # << >>
  /\ LET block == Head(toFU)
         valid == IF nbSent = Trigger THEN CheckTAPayload(block) ELSE CheckRUIPayload(block, blockNb)
         whole == Append(superFragment, block)
         lastOfEvent == nbSent = RU /\ LastBlock(block)
         buf   == Buffer(whole)
         sound == CheckFedTraversal(buf) /\ CheckFedSourceIds(buf, fedSourceIds)
     IN /\ blockNb' = IF nbSent = Trigger THEN blockNb ELSE BlockNbAfter(block, valid)
        /\ faultDetected' = (faultDetected \/ ~valid \/ (LastBlock(block) /\ ~sound))
        /\ superFragment' = IF LastBlock(block) THEN << >> ELSE whole
        /\ fedSourceIds' =
             IF lastOfEvent THEN {}
             ELSE IF LastBlock(block) /\ CheckFedTraversal(buf)
             THEN fedSourceIds \cup ToSet(FedSourceIdsOf(buf))
             ELSE fedSourceIds
        /\ nbEventsProcessed' = nbEventsProcessed + (IF lastOfEvent THEN 1 ELSE 0)
  /\ toFU' = Tail(toFU)
  /\ UNCHANGED << generator, superFragments, damaged, damages, l1InfoFound, parsed, nbSent >>

\* The next event. What remains of this one is discarded.
NextEvent ==
  /\ making = None /\ nbEvents < MaxEvents
  /\ nbEvents > 0 => nbSent = RU /\ toFU = << >>
  /\ making' = Trigger
  /\ superFragments' = << >> /\ l1InfoFound' = None /\ parsed' = None /\ nbSent' = 0
  /\ damaged' = None
  /\ UNCHANGED << conf, tracker, nextBlock, fedCRC, chain, eventNumber, factory, evbId, failures, nbEvents,
                  damages, toFU, superFragment, blockNb, fedSourceIds, faultDetected,
                  nbEventsProcessed >>

Next ==
  \/ StartSuperFragment \/ GetFrame \/ NoFrame \/ InsertFedComponent \/ FinishBlock
  \/ FinishSuperFragment
  \/ LoseBlock \/ ExchangeBlocks \/ MarkBlock \/ AlterWord
  \/ ExtractL1Info \/ ParseEvent \/ SendSuperFragment \/ ProcessDataBlock
  \/ NextEvent

Spec == Init /\ [][Next]_vars

(***************************************************************************)
(* Properties                                                              *)
(***************************************************************************)

\* The FEDs configured for an event.
FedsOfEvent == conf[Trigger].fedSourceIds \o conf[RU].fedSourceIds

\* What the file of an event looks like: super-fragment by super-fragment, the FEDs in the
\* reverse of their order.
ExpectedFile ==
  LET FedsOf(words) ==
        { << i, j >> \in (1..Len(words)) \X (1..Len(words)) :
            /\ i < j /\ words[i].kind = "header" /\ words[j].kind = "trailer"
            /\ \A k \in i + 1 .. j - 1 : words[k].kind = "payload" }
      Backwards(words) ==
        FlattenSeq([n \in 1..Cardinality(FedsOf(words)) |->
          LET fed == CHOOSE f \in FedsOf(words) :
                       Cardinality({ g \in FedsOf(words) : g[1] >= f[1] }) = n
          IN SubSeq(words, fed[1], fed[2])])
  IN Backwards(Buffer(superFragments[Trigger])) \o Backwards(Buffer(superFragments[RU]))

\* What is generated is accepted by every reader, unless two FEDs have the same id, which
\* both the BU and the FU refuse; the EVM finds the trigger information wherever there
\* is a GTP FED, and the file that the BU writes has each FED in one piece.
\* (Generator and readers lay the FEDs over the blocks in code of their own:
\* SuperFragmentGenerator.cc, Event.cc, L1InfoHandler.cc and the FU's Application.cc.)
GeneratedIsAccepted ==
  damages = 0 =>
    /\ l1InfoFound # None =>
         \A s \in {Trigger, RU} : l1InfoFound[s] = (GTP \in ToSet(conf[s].fedSourceIds))
    /\ parsed # None =>
         IF IsInjective(FedsOfEvent)
         THEN parsed # Bad /\ WriteToDisk(parsed) = [p \in 1..Len(ExpectedFile) |-> {ExpectedFile[p]}]
         ELSE parsed = Bad
    /\ nbSent = RU /\ toFU = << >> => (faultDetected = ~IsInjective(FedsOfEvent))
    /\ IsInjective(FedsOfEvent) /\ nbSent = RU /\ toFU = << >> => nbEventsProcessed = nbEvents

\* What happens to the data of an event is noticed by an FU before it is done with the event,
\* and so by no later event than this; only the mark of the trigger's block is nothing to it.
\* A BU that writes the event instead notices every wrong mark, and an id that comes twice.
\* (Each checks what the other does not: the BU computes no checksum.)
DamageIsSeen ==
  damaged # None =>
    /\ nbSent = RU /\ toFU = << >> =>
         faultDetected \/ damaged = [kind |-> "mark", superFragment |-> Trigger]
    /\ parsed # None /\ damaged.kind = "mark" => parsed = Bad

\* Events have identifiers that increase, over the end of the 24-bit event numbers and
\* whatever had to be tried again. (SuperFragmentGenerator::getData, EvBidFactory.)
EvBidsIncrease ==
  [][ evbId' # evbId =>
        /\ evbId'.eventNumber \in 1..LastEventNumber
        /\ evbId = None \/ EvBidLess(evbId, evbId') ]_evbId
=============================================================================
