------------------------- MODULE SuperFragmentReaders -------------------------
(***************************************************************************)
(* How the data of an event is read: by the EVM looking for the trigger    *)
(* information, by a BU that writes the event to disk, and by an FU.       *)
(* A super-fragment is a chain of blocks, and its FEDs run through the     *)
(* blocks without regard to their limits. All readers start at the last    *)
(* FED trailer and walk backwards.                                         *)
(* Sizes are counted in words of 8 bytes. A checksum is the sequence of    *)
(* the words it covers: no two data have the same.                         *)
(***************************************************************************)
EXTENDS Naturals, SequencesExt

CONSTANTS Bad, \* data that has been refused
          GTP  \* GTP_FED_ID

(***************************************************************************)
(* The words of a FED, and the blocks.                                     *)
(***************************************************************************)

FedHeader(fed, event) == [kind |-> "header", fed |-> fed, event |-> event]
FedPayload(value)     == [kind |-> "payload", value |-> value]
FedTrailer(size, crc) == [kind |-> "trailer", size |-> size, crc |-> crc]

\* The checksum of a FED, computed with the one in its trailer set to zero.
ComputeCRC(words) == [words EXCEPT ![Len(words)] = FedTrailer(@.size, << >>)]

SegSize(block) == block.segsize
LastBlock(block) == block.blockNb + 1 = block.nbBlocksInSuperFragment

\* checkFrlHeader
CheckFrlHeader(block) ==
  /\ block.trigno = block.eventNumber
  /\ block.segno = block.blockNb
  /\ block.segsize = Len(block.words)
  /\ LastBlock(block) = block.lastSegment

\* checkFedHeader, which does not check the CRC: it is never computed.
CheckFedHeader(block, offset) ==
  /\ block.words[offset + 1].kind = "header"
  /\ block.words[offset + 1].event = block.eventNumber

(***************************************************************************)
(* The walk back over a chain.                                             *)
(***************************************************************************)

\* What a reader asks of a block, and of the header of a FED that it has walked back to. The
\* EVM only wants a header to be there.
CheckBlock(reader, block) == reader = "BU" => CheckFrlHeader(block)
CheckHeader(reader, block, offset) ==
  IF reader = "BU" THEN CheckFedHeader(block, offset) ELSE block.words[offset + 1].kind = "header"

\* Where the fedSize words that end with the first segSize ones of block b are, last
\* piece first; Bad ends the list when the chain does not hold them.
Pieces(reader, chain) ==
  LET Piece[b \in 1..Len(chain), segSize \in Nat, fedSize \in Nat] ==
        IF fedSize <= segSize
        THEN << [block |-> b, offset |-> segSize - fedSize, length |-> fedSize] >>
        ELSE << [block |-> b, offset |-> 0, length |-> segSize] >>
             \o (IF b = 1 \/ ~CheckBlock(reader, chain[b - 1])
                 THEN << Bad >>
                 ELSE Piece[b - 1, SegSize(chain[b - 1]), fedSize - segSize])
  IN Piece

\* The FEDs before the end of the first segSize words of block b (all, if segSize is 0),
\* last FED first; Bad ends the list where the walk is given up.
WalkBack(reader, chain) ==
  LET Feds[b \in 0..Len(chain), segSize \in Nat] ==
        IF b = 0 THEN << >>
        ELSE IF segSize = 0
        THEN IF CheckBlock(reader, chain[b]) THEN Feds[b, SegSize(chain[b])] ELSE << Bad >>
        ELSE LET trailer == chain[b].words[segSize]
                 pieces  == Pieces(reader, chain)[b, segSize, trailer.size]
                 head    == Last(pieces)
             IN IF trailer.kind # "trailer" THEN << Bad >>
                ELSE IF head = Bad THEN << Bad >>
                ELSE IF ~CheckHeader(reader, chain[head.block], head.offset) THEN << Bad >>
                ELSE << [fed    |-> chain[head.block].words[head.offset + 1].fed,
                         size   |-> trailer.size,
                         pieces |-> pieces] >>
                     \o Feds[IF head.offset = 0 THEN head.block - 1 ELSE head.block, head.offset]
  IN Feds[Len(chain), 0]

(***************************************************************************)
(* The EVM looks for the GTP FED.                                          *)
(***************************************************************************)

\* fillL1Info: whether the information has been found. Of the blocks it only wants to know
\* that the last one says that it is.
FillL1Info(chain) ==
  /\ Last(chain).lastSegment
  /\ LET feds == WalkBack("EVM", chain)
     IN \E i \in 1..Len(feds) : feds[i] # Bad /\ feds[i].fed = GTP

(***************************************************************************)
(* A BU parses an event, and writes it to disk.                            *)
(***************************************************************************)

\* addFedSize accepts each FED once.
AddFedSize(feds) == \A i, j \in 1..Len(feds) : i # j => feds[i].fed # feds[j].fed

\* checkSuperFragment: the FEDs, each with its words in pieces, last piece first.
CheckSuperFragment(chain) ==
  LET feds == WalkBack("BU", chain)
      WordsOf(piece) == SubSeq(chain[piece.block].words, piece.offset + 1,
                               piece.offset + piece.length)
  IN [i \in 1..Len(feds) |->
        IF feds[i] = Bad THEN Bad
        ELSE [fed  |-> feds[i].fed,
              size |-> feds[i].size,
              data |-> [p \in 1..Len(feds[i].pieces) |-> WordsOf(feds[i].pieces[p])]]]

\* checkTriggerFragment
CheckTriggerFragment(chain) ==
  IF Len(chain[1].words) < 2 \/ chain[1].blockNb # 0
  THEN << Bad >>
  ELSE CheckSuperFragment(chain)

\* parseAndCheckData: the FEDs of all the super-fragments, in the order found, or Bad.
ParseAndCheckData(superFragments) ==
  LET feds == FlattenSeq([s \in 1..Len(superFragments) |->
                            IF s = 1 THEN CheckTriggerFragment(superFragments[s])
                            ELSE CheckSuperFragment(superFragments[s])])
  IN IF Bad \in ToSet(feds) \/ ~AddFedSize(feds) THEN Bad ELSE feds

\* Faulty variant: the pieces of a FED are placed in the order in which they are found.
FedLocations_Forwards(feds) ==
  LET End(i) == FoldSeq(LAMBDA fed, sum : sum + fed.size, 0, SubSeq(feds, 1, i))
      Found(i, p) == FoldSeq(LAMBDA words, sum : sum + Len(words), 0, SubSeq(feds[i].data, 1, p - 1))
  IN UNION { { [offset |-> End(i - 1) + Found(i, p), words |-> feds[i].data[p]]
               : p \in 1..Len(feds[i].data) } : i \in 1..Len(feds) }

\* fedLocations_: each FED ends at the sum of the sizes up to it, and its pieces are placed
\* from there downwards.
FedLocations(feds) ==
  LET End(i) == FoldSeq(LAMBDA fed, sum : sum + fed.size, 0, SubSeq(feds, 1, i))
      Found(i, p) == FoldSeq(LAMBDA words, sum : sum + Len(words), 0, SubSeq(feds[i].data, 1, p))
  IN UNION { { [offset |-> End(i) - Found(i, p), words |-> feds[i].data[p]]
               : p \in 1..Len(feds[i].data) } : i \in 1..Len(feds) }

EventSize(feds) == FoldSeq(LAMBDA fed, sum : sum + fed.size, 0, feds)

\* writeToDisk: what each position of the file has been given.
WriteToDisk(feds) ==
  [position \in 1..EventSize(feds) |->
     { location.words[position - location.offset] : location \in
         { l \in FedLocations(feds) : position \in l.offset + 1 .. l.offset + Len(l.words) } }]

(***************************************************************************)
(* An FU checks a block, and a super-fragment.                             *)
(***************************************************************************)

\* checkTAPayload, for the super-fragment of the trigger: one block with one FED.
CheckTAPayload(block) ==
  LET nbWords == Len(block.words)
  IN /\ nbWords >= 2
     /\ block.trigno = block.eventNumber
     /\ block.segno = 0
     /\ block.segsize = nbWords
     /\ block.words[1].kind = "header" /\ block.words[1].event = block.eventNumber
     /\ block.words[nbWords].kind = "trailer" /\ block.words[nbWords].size = nbWords

\* checkRUIPayload
CheckRUIPayload(block, blockNb) == CheckFrlHeader(block) /\ block.blockNb = blockNb

\* fillBufferWithSuperFragment
Buffer(chain) == FlattenSeq([b \in 1..Len(chain) |-> chain[b].words])

\* Faulty variant: the checksum is not looked at.
CheckFedTraversal_NoCRC(buf) ==
  LET Traverse[end \in 0..Len(buf)] ==
        \/ end = 0
        \/ LET start == end + 1 - buf[end].size
           IN /\ end > 1
              /\ buf[end].kind = "trailer"
              /\ buf[end].size <= end
              /\ buf[start].kind = "header"
              /\ Traverse[start - 1]
  IN Traverse[Len(buf)]

\* checkFedTraversal
CheckFedTraversal(buf) ==
  LET Traverse[end \in 0..Len(buf)] ==
        \/ end = 0
        \/ LET start == end + 1 - buf[end].size
           IN /\ end > 1
              /\ buf[end].kind = "trailer"
              /\ buf[end].size <= end
              /\ buf[start].kind = "header"
              /\ buf[end].crc = ComputeCRC(SubSeq(buf, start, end))
              /\ Traverse[start - 1]
  IN Traverse[Len(buf)]

\* The ids that checkFedSourceIds meets, last FED first.
FedSourceIdsOf(buf) ==
  LET Ids[end \in 0..Len(buf)] ==
        IF end = 0 THEN << >>
        ELSE LET start == end + 1 - buf[end].size
             IN << buf[start].fed >> \o Ids[start - 1]
  IN Ids[Len(buf)]

\* checkFedSourceIds: no id twice in an event.
CheckFedSourceIds(buf, fedSourceIds) ==
  /\ IsInjective(FedSourceIdsOf(buf))
  /\ ToSet(FedSourceIdsOf(buf)) \cap fedSourceIds = {}
=============================================================================
