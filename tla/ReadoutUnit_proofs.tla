------------------------- MODULE ReadoutUnit_proofs -------------------------
(***************************************************************************)
(* Proofs about ReadoutUnit for every input, every set of FEDs, every      *)
(* sequence of trigger numbers, every queue capacity and any number of     *)
(* faults of the sources.                                                  *)
(***************************************************************************)
EXTENDS ReadoutUnit, EvBidFactory_proofs, FiniteSetTheorems, TLAPS

-----------------------------------------------------------------------------
(* Maps: what Insert and Erase do to a partial function.                   *)

LEMMA InsertMap ==
  ASSUME NEW S, NEW T, NEW f, IsMap(f, S, T), NEW k \in S, NEW v \in T
  PROVE  IsMap(Insert(f, k, v), S, T) /\ DOMAIN Insert(f, k, v) = DOMAIN f \cup {k}
BY DEF IsMap, Insert

LEMMA EraseMap ==
  ASSUME NEW S, NEW T, NEW f, IsMap(f, S, T), NEW k
  PROVE  IsMap(Erase(f, k), S, T) /\ DOMAIN Erase(f, k) = DOMAIN f \ {k}
BY DEF IsMap, Erase

LEMMA QueueType ==
  ASSUME NEW S, NEW q \in Seq(S), NEW e \in S
  PROVE  /\ Append(q, e) \in Seq(S)
         /\ q # << >> => Head(q) \in S /\ Tail(q) \in Seq(S)
  OBVIOUS

-----------------------------------------------------------------------------
(***************************************************************************)
(* Every variable keeps its type.  The count of the data in the table is a *)
(* natural number because it is their number; an FBO's super-fragment gets *)
(* an id because it holds a first block.                                   *)
(***************************************************************************)
TableInv ==
  /\ TableTypeOK /\ TableConsistent
  /\ IsFiniteSet(DOMAIN data)

FboInv ==
  /\ Len(superFragmentHead) < NbBlocks
  /\ \A i \in DOMAIN superFragmentHead : superFragmentHead[i][1] = i
  /\ inputSource = "FBO" =>
       \A i \in DOMAIN blockFIFO : \E e \in Events : <<1, e>> \in blockFIFO[i].fragments

InputInv   == InputTypeOK /\ FboInv
ControlInv == ControlTypeOK /\ (fsm # "Enabled" => workloop.at = "stopped")
TypeInv    == SourceTypeOK /\ InputInv /\ TableInv /\ ControlInv

LEMMA NumberType == \A k \in Events : TriggerNumbers[k] \in Nat
BY InputAssumption DEF Events

LEMMA PartsType == Parts \X Events \subseteq Fragments
BY InputAssumption DEF Parts, Fragments

LEMMA WorkloopType ==
  /\ AtTrigger \in Workloop /\ Stopped \in Workloop
  /\ \A id \in EvBid, S \in SUBSET Fragments :
       [at |-> "data", evbId |-> id, fragments |-> S] \in Workloop
BY DEF AtTrigger, Stopped, Workloop, NoEvBid, EvBid

LEMMA ErrorType ==
  ASSUME NEW w \in Workloop, NEW e \in Errors
  PROVE  /\ [w EXCEPT !.at = e] \in Workloop
         /\ [w EXCEPT !.at = e].at = e /\ [w EXCEPT !.at = e].evbId = w.evbId
BY DEF Workloop

\* The two operations of the SuperFragmentTable keep it consistent.
LEMMA AddRequestTable ==
  ASSUME TableInv, ControlInv, NEW id \in EvBid, fsm # "Failed", AddRequest(id)
  PROVE  /\ TableInv'
         /\ workloop' \in {workloop, Stopped}
         /\ fsm' # fsm => fsm' = "Failed" /\ workloop' = Stopped
         /\ fsm' \in {fsm, "Failed"} /\ failure' \in {failure, "duplicateRequest"}
<1>1. CASE id \in requests
  BY <1>1 DEF AddRequest, Fail, TableInv, TableTypeOK, TableConsistent, tableVars
<1>2. CASE id \notin requests /\ id \in DOMAIN data
  <2>1. IsMap(data', EvBid, SUBSET Fragments) /\ DOMAIN data' = DOMAIN data \ {id}
    BY <1>2, EraseMap DEF AddRequest, TableInv, TableTypeOK
  <2>2. data[id] \in SUBSET Fragments
    BY <1>2 DEF TableInv, TableTypeOK, IsMap
  <2>3. IsMap(sent', EvBid, SUBSET Fragments)
    <3>1. sent' = Insert(sent, id, data[id]) /\ IsMap(sent, EvBid, SUBSET Fragments)
      BY <1>2 DEF AddRequest, TableInv, TableTypeOK
    <3> QED
      BY <2>2, <3>1, InsertMap
  <2>4. /\ IsFiniteSet(DOMAIN data')
        /\ Cardinality(DOMAIN data') = Cardinality(DOMAIN data) - 1
        /\ Cardinality(DOMAIN data') \in Nat
    BY <1>2, <2>1, FS_RemoveElement, FS_CardinalityType DEF TableInv
  <2> QED
    BY <1>2, <2>1, <2>3, <2>4 DEF AddRequest, TableInv, TableTypeOK, TableConsistent, fsmVars
<1>3. CASE id \notin requests /\ id \notin DOMAIN data
  BY <1>3 DEF AddRequest, TableInv, TableTypeOK, TableConsistent, fsmVars
<1> QED
  BY <1>1, <1>2, <1>3

LEMMA AddEvBidAndBlockTable ==
  ASSUME TableInv, NEW id \in EvBid, NEW F \in SUBSET Fragments, AddEvBidAndBlock(id, F)
  PROVE  /\ TableInv'
         /\ workloop' \in {AtTrigger, Stopped}
         /\ workloop' = AtTrigger => UNCHANGED fsmVars
         /\ workloop' = Stopped => fsm' = "Failed" /\ failure' = "duplicateData"
<1>0. AtTrigger # Stopped
  BY DEF AtTrigger, Stopped
<1>1. CASE id \in DOMAIN data
  BY <1>0, <1>1 DEF AddEvBidAndBlock, Fail, TableInv, TableTypeOK, TableConsistent, tableVars
<1>2. CASE id \notin DOMAIN data /\ id \in requests
  <2>1. IsMap(sent', EvBid, SUBSET Fragments)
    <3>1. sent' = Insert(sent, id, F) /\ IsMap(sent, EvBid, SUBSET Fragments)
      BY <1>2 DEF AddEvBidAndBlock, TableInv, TableTypeOK
    <3> QED
      BY <3>1, InsertMap
  <2> QED
    BY <1>0, <1>2, <2>1 DEF AddEvBidAndBlock, TableInv, TableTypeOK, TableConsistent
<1>3. CASE id \notin DOMAIN data /\ id \notin requests
  <2>1. IsMap(data', EvBid, SUBSET Fragments) /\ DOMAIN data' = DOMAIN data \cup {id}
    BY <1>3, InsertMap DEF AddEvBidAndBlock, TableInv, TableTypeOK
  <2>2. /\ IsFiniteSet(DOMAIN data')
        /\ Cardinality(DOMAIN data') = Cardinality(DOMAIN data) + 1
    BY <1>3, <2>1, FS_AddElement DEF TableInv
  <2> QED
    BY <1>0, <1>3, <2>1, <2>2 DEF AddEvBidAndBlock, TableInv, TableTypeOK, TableConsistent
<1> QED
  BY <1>1, <1>2, <1>3

LEMMA IdOfFragmentType ==
  ASSUME TypeInv, NEW s \in Sources, NEW k \in Events
  PROVE  /\ IdOfFragment(s, k) \in EvBid
         /\ [evbIdFactories EXCEPT ![s] = AfterGetEvBid(@, TriggerNumbers[k])] \in [Sources -> Factory]
<1>1. TriggerNumbers[k] \in Nat /\ evbIdFactories[s] \in Factory
  BY NumberType DEF TypeInv, InputInv, InputTypeOK
<1>2. AfterGetEvBid(evbIdFactories[s], TriggerNumbers[k]) \in Factory
  BY <1>1, GetEvBidType
<1> QED
  BY <1>1, <1>2, GetEvBidType DEF IdOfFragment, TypeInv, InputInv, InputTypeOK

LEMMA FboI2OcallbackType ==
  ASSUME TypeInv, NEW k \in Events, inputSource = "FBO", FboI2Ocallback(k), UNCHANGED inputSource
  PROVE  InputInv' /\ UNCHANGED << fsmVars, workloop >>
<1> DEFINE n     == Len(superFragmentHead)
           chain == Append(superFragmentHead, <<n + 1, k>>)
<1>1. /\ n \in Nat /\ n + 1 \in 1..NbBlocks
      /\ superFragmentHead \in Seq(Fragments)
  BY InputAssumption DEF TypeInv, InputInv, InputTypeOK, FboInv
<1>2. <<n + 1, k>> \in Fragments
  BY <1>1 DEF Fragments
<1>3. chain \in Seq(Fragments) /\ Len(chain) = n + 1 /\ DOMAIN chain = 1..(n + 1)
  BY <1>1, <1>2
<1>4. \A i \in DOMAIN chain : chain[i][1] = i
  <2>1. chain[n + 1] = <<n + 1, k>> /\ \A i \in 1..n : chain[i] = superFragmentHead[i]
    BY <1>1
  <2>2. \A i \in 1..n : superFragmentHead[i][1] = i
    BY DEF TypeInv, InputInv, FboInv
  <2> QED
    BY <1>1, <1>3, <2>1, <2>2
<1> HIDE DEF chain
<1>5. CASE Len(chain) = NbBlocks
  <2> DEFINE entry == [evbId |-> NoEvBid, fragments |-> { chain[i] : i \in DOMAIN chain }]
  <2>1. entry \in SuperFragment
    <3>1. { chain[i] : i \in DOMAIN chain } \subseteq Fragments
      BY <1>3
    <3>2. NoEvBid \in EvBid
      BY DEF NoEvBid, EvBid
    <3> QED
      BY <3>1, <3>2 DEF SuperFragment
  <2>2. \E e \in Events : <<1, e>> \in entry.fragments
    <3>1. 1 \in DOMAIN chain /\ chain[1] \in Fragments /\ chain[1][1] = 1
      BY <1>1, <1>3, <1>4
    <3>2. PICK e \in Events : chain[1] = <<chain[1][1], e>>
      BY <3>1 DEF Fragments
    <3> QED
      BY <3>1, <3>2
  <2>3. blockFIFO' = Append(blockFIFO, entry) /\ superFragmentHead' = << >>
        /\ UNCHANGED << evbIdFactories, superFragmentMap, fedFragmentFIFOs, fsmVars, workloop >>
    BY <1>5 DEF FboI2Ocallback, chain
  <2> HIDE DEF entry
  <2>4. blockFIFO \in Seq(SuperFragment)
        /\ \A i \in DOMAIN blockFIFO : \E e \in Events : <<1, e>> \in blockFIFO[i].fragments
    BY DEF TypeInv, InputInv, InputTypeOK, FboInv
  <2>5. blockFIFO' \in Seq(SuperFragment)
        /\ \A i \in DOMAIN blockFIFO' : \E e \in Events : <<1, e>> \in blockFIFO'[i].fragments
    BY <2>1, <2>2, <2>3, <2>4, SMTT(60)
  <2>6. InputTypeOK'
    BY <2>3, <2>5 DEF TypeInv, InputInv, InputTypeOK
  <2>7. FboInv'
    <3>1. Len(superFragmentHead') = 0 /\ DOMAIN superFragmentHead' = {}
      BY <2>3
    <3> QED
      BY <2>5, <3>1, InputAssumption DEF FboInv
  <2> QED
    BY <2>3, <2>6, <2>7 DEF InputInv
<1>6. CASE Len(chain) # NbBlocks
  <2>1. superFragmentHead' = chain
        /\ UNCHANGED << blockFIFO, evbIdFactories, superFragmentMap, fedFragmentFIFOs, fsmVars, workloop >>
    BY <1>6 DEF FboI2Ocallback, chain
  <2>2. Len(chain) < NbBlocks
    BY <1>1, <1>3, <1>6, InputAssumption
  <2> QED
    BY <1>3, <1>4, <2>1, <2>2 DEF TypeInv, InputInv, InputTypeOK, FboInv
<1> QED
  BY <1>5, <1>6

LEMMA FerolI2OcallbackType ==
  ASSUME TypeInv, NEW s \in Sources, NEW k \in Events, s # 0,
         inputSource # "FBO", FerolI2Ocallback(s, k), UNCHANGED inputSource
  PROVE  /\ InputInv'
         /\ \/ UNCHANGED << fsmVars, workloop >>
            \/ /\ fsm' = "Failed" /\ workloop' = Stopped
               /\ failure' \in {"duplicatedFed", "unexpectedFed"}
<1> DEFINE id == IdOfFragment(s, k)
           before == IF id \in DOMAIN superFragmentMap THEN superFragmentMap[id] ELSE {}
           after  == before \cup {<<s, k>>}
<1>1. id \in EvBid
  BY IdOfFragmentType
<1>2. IsMap(superFragmentMap, EvBid, SUBSET Fragments) /\ blockFIFO \in Seq(SuperFragment)
  BY DEF TypeInv, InputInv, InputTypeOK
<1>3. before \in SUBSET Fragments
  BY <1>2 DEF IsMap
<1> HIDE DEF id
<1>4. FboInv' /\ superFragmentHead' \in Seq(Fragments)
      /\ fedFragmentFIFOs' \in [Sources -> Seq(Events)]
      /\ evbIdFactories' \in [Sources -> Factory]
  BY IdOfFragmentType DEF TypeInv, InputInv, InputTypeOK, FboInv, FerolI2Ocallback
<1>5. CASE s \notin Feds \/ \E f \in before : f[1] = s
  <2>1. /\ superFragmentMap' = Insert(superFragmentMap, id, before)
        /\ Fail(IF s \notin Feds THEN "duplicatedFed" ELSE "unexpectedFed")
        /\ UNCHANGED blockFIFO
    BY <1>5 DEF FerolI2Ocallback, id
  <2>2. IsMap(superFragmentMap', EvBid, SUBSET Fragments)
    BY <1>1, <1>2, <1>3, <2>1, InsertMap
  <2> QED
    BY <1>2, <1>4, <2>1, <2>2 DEF InputInv, InputTypeOK, Fail
<1>6. CASE ~ (s \notin Feds \/ \E f \in before : f[1] = s)
  <2>1. /\ \/ /\ blockFIFO' = Append(blockFIFO, [evbId |-> id, fragments |-> after])
              /\ superFragmentMap' = Erase(superFragmentMap, id)
           \/ /\ superFragmentMap' = Insert(superFragmentMap, id, after)
              /\ UNCHANGED blockFIFO
        /\ UNCHANGED << fsmVars, workloop >>
    BY <1>6 DEF FerolI2Ocallback, id
  <2>2. after \in SUBSET Fragments
    BY <1>3, <1>6 DEF Fragments
  <2>3. [evbId |-> id, fragments |-> after] \in SuperFragment
    BY <1>1, <2>2 DEF SuperFragment
  <2> HIDE DEF after
  <2>4. IsMap(superFragmentMap', EvBid, SUBSET Fragments)
    <3>1. IsMap(Insert(superFragmentMap, id, after), EvBid, SUBSET Fragments)
      BY <1>1, <1>2, <2>2, InsertMap
    <3>2. IsMap(Erase(superFragmentMap, id), EvBid, SUBSET Fragments)
      BY <1>2, EraseMap
    <3> QED
      BY <2>1, <3>1, <3>2
  <2>5. blockFIFO' \in Seq(SuperFragment)
    BY <1>2, <2>1, <2>3, QueueType
  <2> QED
    BY <1>4, <2>1, <2>4, <2>5 DEF InputInv, InputTypeOK
<1> QED
  BY <1>5, <1>6

LEMMA Ferol2I2OcallbackType ==
  ASSUME TypeInv, NEW s \in Sources, NEW k \in Events, Ferol2I2Ocallback(s, k), UNCHANGED inputSource
  PROVE  /\ InputInv'
         /\ \/ UNCHANGED << fsmVars, workloop >>
            \/ /\ fsm' = "Failed" /\ workloop' = Stopped
               /\ failure' \in {"duplicatedFed", "unexpectedFed"}
<1>1. fedFragmentFIFOs \in [Sources -> Seq(Events)]
  BY DEF TypeInv, InputInv, InputTypeOK
<1>2. Append(fedFragmentFIFOs[s], k) \in Seq(Events)
  BY <1>1
<1>3. fedFragmentFIFOs' \in [Sources -> Seq(Events)]
  BY <1>1, <1>2 DEF Ferol2I2Ocallback
<1> QED
  BY <1>3 DEF Ferol2I2Ocallback, TypeInv, InputInv, InputTypeOK, FboInv, Fail

LEMMA I2OcallbackType ==
  ASSUME TypeInv, NEW s \in Sources, NEW k, I2Ocallback(s, k), s \in Active \/ s \in StrangeFeds
  PROVE  /\ k \in Events /\ inputSource' = inputSource
         /\ InputInv' /\ TableInv' /\ ControlInv'
<1>1. /\ k \in Events /\ UNCHANGED << inputSource, tableVars, readoutMsgs, requestMsgs, evbIdFIFO >>
      /\ \/ inputSource = "FBO"    /\ FboI2Ocallback(k)
         \/ inputSource = "FEROL"  /\ FerolI2Ocallback(s, k)
         \/ inputSource = "FEROL2" /\ Ferol2I2Ocallback(s, k)
  BY DEF I2Ocallback
<1>2. inputSource # "FBO" => s # 0
  BY InputAssumption DEF Active
<1>3. /\ InputInv'
      /\ \/ UNCHANGED << fsmVars, workloop >>
         \/ /\ fsm' = "Failed" /\ workloop' = Stopped
            /\ failure' \in {"duplicatedFed", "unexpectedFed"}
  BY <1>1, <1>2, FboI2OcallbackType, FerolI2OcallbackType, Ferol2I2OcallbackType
<1>4. TableInv'
  BY <1>1 DEF TypeInv, TableInv, TableTypeOK, TableConsistent, tableVars
<1>5. ControlInv'
  <2>1. Stopped \in Workloop /\ Stopped.at = "stopped"
    BY WorkloopType DEF Stopped
  <2> QED
    BY <1>1, <1>3, <2>1 DEF TypeInv, ControlInv, ControlTypeOK, fsmVars
<1> QED
  BY <1>1, <1>3, <1>4, <1>5

\* What the workloop does with the data of its trigger keeps the table and the
\* state of the RU well-formed.
LEMMA FileOrStopType ==
  ASSUME TypeInv, NEW F \in SUBSET Fragments, workloop.at = "data",
         \/ AddEvBidAndBlock(workloop.evbId, F)
         \/ BackPressure("MismatchDetectedBackPressuring")
         \/ BackPressure("TimedOutBackPressuring"),
         UNCHANGED << readoutMsgs, requestMsgs, evbIdFIFO >>
  PROVE  TableInv' /\ ControlInv'
<1>1. /\ Stopped \in Workloop /\ Stopped.at = "stopped"
      /\ AtTrigger \in Workloop
      /\ workloop.evbId \in EvBid /\ fsm = "Enabled" /\ TableInv /\ ControlTypeOK
  BY WorkloopType DEF Stopped, TypeInv, ControlInv, ControlTypeOK, Workloop
<1>2. CASE AddEvBidAndBlock(workloop.evbId, F)
  <2>1. /\ TableInv'
        /\ workloop' \in {AtTrigger, Stopped}
        /\ workloop' = AtTrigger => UNCHANGED fsmVars
        /\ workloop' = Stopped => fsm' = "Failed" /\ failure' = "duplicateData"
    BY <1>1, <1>2, AddEvBidAndBlockTable
  <2> QED
    BY <1>1, <2>1 DEF ControlInv, ControlTypeOK, fsmVars
<1>3. CASE \/ BackPressure("MismatchDetectedBackPressuring")
           \/ BackPressure("TimedOutBackPressuring")
  <2>1. TableInv'
    BY <1>1, <1>3 DEF BackPressure, TableInv, TableTypeOK, TableConsistent, tableVars
  <2>2. workloop' \in Workloop /\ UNCHANGED fsmVars
    BY <1>1, <1>3, ErrorType DEF BackPressure, ControlTypeOK, Errors
  <2> QED
    BY <1>1, <2>1, <2>2 DEF ControlInv, ControlTypeOK, fsmVars
<1> QED
  BY <1>2, <1>3

LEMMA GetDataType == TypeInv /\ GetData => TypeInv'
<1> SUFFICES ASSUME TypeInv, GetData PROVE TypeInv'
  OBVIOUS
<1> DEFINE block == Head(blockFIFO)
           id == IdOfHead(block)
<1>1. /\ workloop.at = "data" /\ inputSource \in {"FBO", "FEROL"} /\ blockFIFO # << >>
      /\ blockFIFO' = Tail(blockFIFO)
      /\ UNCHANGED << inputSource, evmVars, sourceVars, superFragmentMap, superFragmentHead, fedFragmentFIFOs,
                      readoutMsgs, requestMsgs, evbIdFIFO >>
      /\ \/ AddEvBidAndBlock(workloop.evbId, block.fragments)
         \/ BackPressure("MismatchDetectedBackPressuring")
      /\ evbIdFactories' =
             IF inputSource = "FBO"
             THEN [evbIdFactories EXCEPT ![0] = AfterGetEvBid(@, id.eventNumber)]
             ELSE evbIdFactories
  BY DEF GetData
<1>2. blockFIFO \in Seq(SuperFragment) /\ block = blockFIFO[1] /\ 1 \in DOMAIN blockFIFO
  BY <1>1 DEF TypeInv, InputInv, InputTypeOK
<1>3. block \in SuperFragment /\ block.fragments \in SUBSET Fragments
  <2>1. blockFIFO[1] \in SuperFragment
    BY <1>2
  <2> QED
    BY <1>2, <2>1 DEF SuperFragment
<1>4. TableInv' /\ ControlInv'
  BY <1>1, <1>3, FileOrStopType
<1>5. evbIdFactories' \in [Sources -> Factory]
  <2>1. evbIdFactories \in [Sources -> Factory]
    BY DEF TypeInv, InputInv, InputTypeOK
  <2>2. CASE inputSource = "FBO"
    <3>1. PICK e \in Events : <<1, e>> \in block.fragments
      BY <1>2, <2>2 DEF TypeInv, InputInv, FboInv
    <3>2. id.eventNumber = TriggerNumbers[CHOOSE x \in Events : <<1, x>> \in block.fragments]
      BY <2>2 DEF IdOfHead, GetEvBid
    <3>3. id.eventNumber \in Nat
      BY <3>1, <3>2, NumberType
    <3>4. 0 \in Sources
      BY DEF Sources
    <3>5. AfterGetEvBid(evbIdFactories[0], id.eventNumber) \in Factory
      BY <2>1, <3>3, <3>4, GetEvBidType
    <3> QED
      BY <1>1, <2>1, <2>2, <3>5
  <2> QED
    BY <1>1, <2>1, <2>2
<1>6. blockFIFO' \in Seq(SuperFragment)
      /\ \A i \in DOMAIN blockFIFO' : blockFIFO'[i] = blockFIFO[i + 1] /\ i + 1 \in DOMAIN blockFIFO
  BY <1>1, <1>2
<1>7. InputInv'
  BY <1>1, <1>5, <1>6 DEF TypeInv, InputInv, InputTypeOK, FboInv
<1>8. SourceTypeOK'
  BY <1>1 DEF TypeInv, SourceTypeOK, evmVars, sourceVars
<1> QED
  BY <1>4, <1>7, <1>8 DEF TypeInv

LEMMA GetNextFragmentType ==
  ASSUME TypeInv, NEW f \in Feds, GetNextFragment(f)
  PROVE  TypeInv'
<1> DEFINE k == Head(fedFragmentFIFOs[f])
           collected == workloop.fragments \cup {<<f, k>>}
<1>1. f \in Sources /\ fedFragmentFIFOs \in [Sources -> Seq(Events)]
      /\ workloop \in Workloop /\ ControlTypeOK /\ TableInv
  BY DEF Sources, TypeInv, InputInv, InputTypeOK, ControlInv, ControlTypeOK
<1>2. fedFragmentFIFOs[f] \in Seq(Events) /\ fedFragmentFIFOs[f] # << >>
  BY <1>1 DEF GetNextFragment
<1>3. k \in Events /\ Tail(fedFragmentFIFOs[f]) \in Seq(Events)
  BY <1>2
<1>4. collected \in SUBSET Fragments /\ workloop.evbId \in EvBid
  BY <1>1, <1>3 DEF Workloop, Fragments
<1> HIDE DEF collected
<1>5. /\ workloop.at = "data"
      /\ UNCHANGED << inputSource, evmVars, sourceVars, superFragmentMap, superFragmentHead, blockFIFO,
                      readoutMsgs, requestMsgs, evbIdFIFO >>
      /\ evbIdFactories' = [evbIdFactories EXCEPT ![f] = AfterGetEvBid(@, TriggerNumbers[k])]
      /\ fedFragmentFIFOs' = [fedFragmentFIFOs EXCEPT ![f] = Tail(@)]
      /\ \/ BackPressure("MismatchDetectedBackPressuring")
         \/ AddEvBidAndBlock(workloop.evbId, collected)
         \/ /\ workloop' = [workloop EXCEPT !.fragments = collected]
            /\ UNCHANGED << tableVars, fsmVars >>
  BY DEF GetNextFragment, collected
<1>6. TableInv' /\ ControlInv'
  <2>1. CASE \/ BackPressure("MismatchDetectedBackPressuring")
             \/ AddEvBidAndBlock(workloop.evbId, collected)
    BY <1>4, <1>5, <2>1, FileOrStopType
  <2>2. CASE /\ workloop' = [workloop EXCEPT !.fragments = collected]
             /\ UNCHANGED << tableVars, fsmVars >>
    <3>1. TableInv'
      BY <1>1, <2>2 DEF TableInv, TableTypeOK, TableConsistent, tableVars
    <3>2. workloop' \in Workloop /\ workloop'.at = workloop.at
      BY <1>1, <1>4, <2>2 DEF Workloop
    <3> QED
      BY <1>1, <1>5, <2>2, <3>1, <3>2 DEF TypeInv, ControlInv, ControlTypeOK, fsmVars
  <2> QED
    BY <1>5, <2>1, <2>2
<1>7. evbIdFactories' \in [Sources -> Factory]
  BY <1>1, <1>3, <1>5, IdOfFragmentType
<1>8. fedFragmentFIFOs' \in [Sources -> Seq(Events)]
  BY <1>1, <1>3, <1>5
<1>9. InputInv'
  BY <1>5, <1>7, <1>8 DEF TypeInv, InputInv, InputTypeOK, FboInv
<1>10. SourceTypeOK'
  BY <1>5 DEF TypeInv, SourceTypeOK, evmVars, sourceVars
<1> QED
  BY <1>6, <1>9, <1>10 DEF TypeInv

LEMMA GenerateSuperFragmentType == TypeInv /\ GenerateSuperFragment => TypeInv'
<1> SUFFICES ASSUME TypeInv, GenerateSuperFragment PROVE TypeInv'
  OBVIOUS
<1>1. PICK k \in 1..nbTriggers : AddEvBidAndBlock(workloop.evbId, WholeEvent(k))
  BY DEF GenerateSuperFragment
<1>2. /\ workloop.at = "data"
      /\ UNCHANGED << inputSource, evmVars, sourceVars, inputVars, readoutMsgs, requestMsgs, evbIdFIFO >>
  BY DEF GenerateSuperFragment
<1>3. WholeEvent(k) \in SUBSET Fragments
  <2>1. k \in Events
    BY DEF TypeInv, SourceTypeOK, Events
  <2> QED
    BY <2>1, PartsType DEF WholeEvent
<1>4. TableInv' /\ ControlInv'
  BY <1>1, <1>2, <1>3, FileOrStopType
<1>5. SourceTypeOK' /\ InputInv'
  BY <1>2 DEF TypeInv, SourceTypeOK, InputInv, InputTypeOK, FboInv, evmVars, sourceVars, inputVars
<1> QED
  BY <1>4, <1>5 DEF TypeInv

LEMMA TimedOutType == TypeInv /\ TimedOut => TypeInv'
<1> SUFFICES ASSUME TypeInv, TimedOut PROVE TypeInv'
  OBVIOUS
<1>1. /\ workloop.at = "data" /\ BackPressure("TimedOutBackPressuring")
      /\ UNCHANGED << inputSource, evmVars, sourceVars, inputVars, readoutMsgs, requestMsgs, evbIdFIFO >>
  BY DEF TimedOut
<1>2. TableInv' /\ ControlInv'
  BY <1>1, FileOrStopType
<1>3. SourceTypeOK' /\ InputInv'
  BY <1>1 DEF TypeInv, SourceTypeOK, InputInv, InputTypeOK, FboInv, evmVars, sourceVars, inputVars
<1> QED
  BY <1>2, <1>3 DEF TypeInv

LEMMA ReportErrorType == TypeInv /\ ReportError => TypeInv'
<1> SUFFICES ASSUME TypeInv, ReportError PROVE TypeInv'
  OBVIOUS
<1>1. /\ fsm' \in Errors /\ workloop' = Stopped
      /\ UNCHANGED << inputSource, evmVars, sourceVars, inputVars, tableVars, failure, readoutMsgs, requestMsgs, evbIdFIFO >>
  BY DEF ReportError
<1>2. Stopped \in Workloop /\ Stopped.at = "stopped"
  BY WorkloopType DEF Stopped
<1>3. ControlInv'
  BY <1>1, <1>2 DEF TypeInv, ControlInv, ControlTypeOK, Errors
<1>4. SourceTypeOK' /\ InputInv' /\ TableInv'
  BY <1>1 DEF TypeInv, SourceTypeOK, InputInv, InputTypeOK, FboInv, TableInv, TableTypeOK,
              TableConsistent, evmVars, sourceVars, inputVars, tableVars
<1> QED
  BY <1>3, <1>4 DEF TypeInv

LEMMA IssueTriggerType == TypeInv /\ IssueTrigger => TypeInv'
<1> SUFFICES ASSUME TypeInv, IssueTrigger PROVE TypeInv'
  OBVIOUS
<1> DEFINE number == TriggerNumbers[nbTriggers + 1]
           evbId  == GetEvBid(evmFactory, number)
<1>1. /\ nbTriggers < Len(TriggerNumbers) /\ nbTriggers' = nbTriggers + 1
      /\ evmFactory' = AfterGetEvBid(evmFactory, number)
      /\ issued' = Append(issued, evbId)
      /\ readoutMsgs' = Append(readoutMsgs, evbId)
      /\ requestMsgs' = requestMsgs \cup {evbId}
      /\ UNCHANGED << inputSource, sourceVars, inputVars, tableVars, fsmVars, evbIdFIFO, workloop >>
  BY DEF IssueTrigger
<1>2. nbTriggers \in Nat /\ nbTriggers' \in 0..Len(TriggerNumbers) /\ nbTriggers + 1 \in Events
      /\ Len(TriggerNumbers) \in Nat
  BY <1>1, InputAssumption DEF TypeInv, SourceTypeOK, Events
<1>3. evmFactory' \in Factory /\ evbId \in EvBid
  BY <1>1, <1>2, NumberType, GetEvBidType DEF TypeInv, SourceTypeOK
<1> HIDE DEF evbId
<1>4. issued' \in Seq(EvBid) /\ Len(issued') = nbTriggers'
  BY <1>1, <1>3 DEF TypeInv, SourceTypeOK
<1>5. SourceTypeOK'
  BY <1>1, <1>2, <1>3, <1>4 DEF TypeInv, SourceTypeOK, sourceVars
<1>6. InputInv' /\ TableInv'
  BY <1>1 DEF TypeInv, InputInv, InputTypeOK, FboInv, TableInv, TableTypeOK, TableConsistent,
              inputVars, tableVars
<1>7. ControlInv'
  BY <1>1, <1>3 DEF TypeInv, ControlInv, ControlTypeOK, fsmVars
<1> QED
  BY <1>5, <1>6, <1>7 DEF TypeInv

LEMMA SourcesType ==
  ASSUME TypeInv, NEW s \in Sources,
         SendFragment(s) \/ RepeatFragment(s) \/ LoseFragment(s)
         \/ \E k \in Events : StrangeFragment(s, k)
  PROVE  TypeInv'
<1>1. /\ nextEvent \in [Sources -> 1..(Len(TriggerNumbers) + 1)] /\ faults \subseteq Faults
      /\ Len(TriggerNumbers) \in Nat
  BY InputAssumption DEF TypeInv, SourceTypeOK
<1>2. \A k \in Events, kind \in {"lost", "repeated", "strange"} :
        Blame(s, k, kind) => faults' \subseteq Faults
  BY <1>1 DEF Blame, Faults
<1>3. \A k \in Events : k + 1 \in 1..(Len(TriggerNumbers) + 1)
  BY <1>1 DEF Events
<1>4. ASSUME SendFragment(s) \/ RepeatFragment(s) \/ \E k \in Events : StrangeFragment(s, k)
      PROVE  TypeInv'
  <2>1. PICK k : /\ I2Ocallback(s, k)
                 /\ s \in Active \/ s \in StrangeFeds
                 /\ \/ k = nextEvent[s] /\ UNCHANGED faults
                       /\ nextEvent' = [nextEvent EXCEPT ![s] = IF Finishes THEN k + 1 ELSE k]
                    \/ (\E kind \in {"lost", "repeated", "strange"} : Blame(s, k, kind))
                       /\ UNCHANGED nextEvent
    BY <1>4, <1>1 DEF SendFragment, RepeatFragment, StrangeFragment
  <2>2. /\ k \in Events /\ inputSource' = inputSource
        /\ InputInv' /\ TableInv' /\ ControlInv'
    BY <2>1, I2OcallbackType
  <2>3. faults' \subseteq Faults
    BY <1>1, <1>2, <2>1, <2>2
  <2>4. nextEvent' \in [Sources -> 1..(Len(TriggerNumbers) + 1)]
    BY <1>1, <1>3, <2>1, <2>2 DEF Events
  <2>5. UNCHANGED evmVars
    BY <2>1 DEF I2Ocallback
  <2>6. SourceTypeOK'
    BY <2>2, <2>3, <2>4, <2>5 DEF TypeInv, SourceTypeOK, evmVars
  <2> QED
    BY <2>2, <2>6 DEF TypeInv
<1>5. ASSUME LoseFragment(s)
      PROVE  TypeInv'
  <2>1. /\ nextEvent[s] \in Events /\ Blame(s, nextEvent[s], "lost")
        /\ nextEvent' = [nextEvent EXCEPT ![s] = @ + 1]
        /\ UNCHANGED << inputSource, evmVars, inputVars, tableVars, fsmVars,
                        readoutMsgs, requestMsgs, evbIdFIFO, workloop >>
    BY <1>5 DEF LoseFragment
  <2>2. faults' \subseteq Faults
    BY <1>2, <2>1
  <2>3. nextEvent' \in [Sources -> 1..(Len(TriggerNumbers) + 1)]
    BY <1>1, <1>3, <2>1
  <2>4. SourceTypeOK'
    BY <2>1, <2>2, <2>3 DEF TypeInv, SourceTypeOK, evmVars
  <2>5. InputInv' /\ TableInv'
    BY <2>1 DEF TypeInv, InputInv, InputTypeOK, FboInv, TableInv, TableTypeOK, TableConsistent,
                inputVars, tableVars
  <2>6. ControlInv'
    BY <2>1 DEF TypeInv, ControlInv, ControlTypeOK, fsmVars
  <2> QED
    BY <2>4, <2>5, <2>6 DEF TypeInv
<1> QED
  BY <1>4, <1>5

LEMMA MessagesType ==
  ASSUME TypeInv,
         ReceiveReadout \/ GetTrigEvBid \/ \E id \in requestMsgs : ReceiveRequest(id)
  PROVE  TypeInv'
<1>1. /\ readoutMsgs \in Seq(EvBid) /\ evbIdFIFO \in Seq(EvBid) /\ requestMsgs \subseteq EvBid
      /\ ControlTypeOK
  BY DEF TypeInv, ControlInv, ControlTypeOK
<1>2. ASSUME ReceiveReadout
      PROVE  TypeInv'
  <2>1. /\ readoutMsgs # << >> /\ readoutMsgs' = Tail(readoutMsgs)
        /\ evbIdFIFO' \in {evbIdFIFO, Append(evbIdFIFO, Head(readoutMsgs))}
        /\ UNCHANGED << inputSource, evmVars, sourceVars, inputVars, tableVars, fsmVars, requestMsgs, workloop >>
    BY <1>2 DEF ReceiveReadout
  <2>2. readoutMsgs' \in Seq(EvBid) /\ evbIdFIFO' \in Seq(EvBid)
    <3>1. Head(readoutMsgs) \in EvBid /\ Tail(readoutMsgs) \in Seq(EvBid)
      BY <1>1, <2>1
    <3>2. Append(evbIdFIFO, Head(readoutMsgs)) \in Seq(EvBid)
      BY <1>1, <3>1
    <3> QED
      BY <1>1, <2>1, <3>1, <3>2
  <2>3. SourceTypeOK' /\ InputInv' /\ TableInv'
    BY <2>1 DEF TypeInv, SourceTypeOK, InputInv, InputTypeOK, FboInv, TableInv, TableTypeOK,
                TableConsistent, evmVars, sourceVars, inputVars, tableVars
  <2>4. ControlInv'
    BY <2>1, <2>2 DEF TypeInv, ControlInv, ControlTypeOK, fsmVars
  <2> QED
    BY <2>3, <2>4 DEF TypeInv
<1>3. ASSUME GetTrigEvBid
      PROVE  TypeInv'
  <2>1. /\ workloop.at = "trigger" /\ evbIdFIFO # << >>
        /\ workloop' = [at |-> "data", evbId |-> Head(evbIdFIFO), fragments |-> {}]
        /\ evbIdFIFO' = Tail(evbIdFIFO)
        /\ UNCHANGED << inputSource, evmVars, sourceVars, inputVars, tableVars, fsmVars, readoutMsgs, requestMsgs >>
    BY <1>3 DEF GetTrigEvBid
  <2>2. Head(evbIdFIFO) \in EvBid /\ evbIdFIFO' \in Seq(EvBid)
    BY <1>1, <2>1
  <2>3. workloop' \in Workloop /\ fsm = "Enabled"
    BY <2>1, <2>2, WorkloopType DEF TypeInv, ControlInv
  <2>4. SourceTypeOK' /\ InputInv' /\ TableInv'
    BY <2>1 DEF TypeInv, SourceTypeOK, InputInv, InputTypeOK, FboInv, TableInv, TableTypeOK,
                TableConsistent, evmVars, sourceVars, inputVars, tableVars
  <2>5. ControlInv'
    BY <2>1, <2>2, <2>3 DEF TypeInv, ControlInv, ControlTypeOK, fsmVars
  <2> QED
    BY <2>4, <2>5 DEF TypeInv
<1>4. ASSUME NEW id \in requestMsgs, ReceiveRequest(id)
      PROVE  TypeInv'
  <2>1. /\ requestMsgs' = requestMsgs \ {id}
        /\ IF fsm = "Failed" THEN UNCHANGED << tableVars, fsmVars, workloop >> ELSE AddRequest(id)
        /\ UNCHANGED << inputSource, evmVars, sourceVars, inputVars, readoutMsgs, evbIdFIFO >>
    BY <1>4 DEF ReceiveRequest
  <2>2. /\ TableInv' /\ workloop' \in {workloop, Stopped}
        /\ fsm' # fsm => fsm' = "Failed" /\ workloop' = Stopped
        /\ fsm' \in {fsm, "Failed"} /\ failure' \in {failure, "duplicateRequest"}
    <3>1. CASE fsm = "Failed"
      BY <2>1, <3>1 DEF TypeInv, TableInv, TableTypeOK, TableConsistent, tableVars, fsmVars
    <3>2. CASE fsm # "Failed"
      BY <1>1, <2>1, <3>2, AddRequestTable DEF TypeInv
    <3> QED
      BY <3>1, <3>2
  <2>3. Stopped \in Workloop /\ Stopped.at = "stopped"
    BY WorkloopType DEF Stopped
  <2>4. ControlInv'
    BY <1>1, <2>1, <2>2, <2>3 DEF TypeInv, ControlInv, ControlTypeOK
  <2>5. SourceTypeOK' /\ InputInv'
    BY <2>1 DEF TypeInv, SourceTypeOK, InputInv, InputTypeOK, FboInv, evmVars, sourceVars, inputVars
  <2> QED
    BY <2>2, <2>4, <2>5 DEF TypeInv
<1> QED
  BY <1>2, <1>3, <1>4

LEMMA InitTypeInv == Init => TypeInv
<1> SUFFICES ASSUME Init PROVE TypeInv
  OBVIOUS
<1>1. NewEvBidFactory \in Factory
  BY DEF NewEvBidFactory, Factory
<1>2. SourceTypeOK
  BY <1>1, InputAssumption DEF Init, SourceTypeOK, Sources
<1>3. InputTypeOK
  BY <1>1 DEF Init, InputTypeOK, IsMap
<1>4. FboInv
  BY InputAssumption DEF Init, FboInv
<1>5. TableInv
  BY FS_EmptySet DEF Init, TableInv, TableTypeOK, TableConsistent, IsMap
<1>6. ControlInv
  BY WorkloopType DEF Init, ControlInv, ControlTypeOK
<1> QED
  BY <1>2, <1>3, <1>4, <1>5, <1>6 DEF TypeInv, InputInv

LEMMA NextTypeInv == TypeInv /\ [Next]_vars => TypeInv'
<1> SUFFICES ASSUME TypeInv, [Next]_vars PROVE TypeInv'
  OBVIOUS
<1>1. CASE IssueTrigger
  BY <1>1, IssueTriggerType
<1>2. ASSUME NEW s \in Sources, SendFragment(s) \/ RepeatFragment(s) \/ LoseFragment(s)
      PROVE  TypeInv'
  BY <1>2, SourcesType
<1>3. ASSUME NEW s \in StrangeFeds, NEW k \in Events, StrangeFragment(s, k)
      PROVE  TypeInv'
  BY <1>3, SourcesType DEF Sources
<1>4. CASE ReceiveReadout \/ \E id \in requestMsgs : ReceiveRequest(id)
  BY <1>4, MessagesType
<1>5. CASE Process
  <2>1. CASE GetTrigEvBid
    BY <2>1, MessagesType
  <2>2. CASE GetData \/ GenerateSuperFragment \/ TimedOut
    BY <2>2, GetDataType, GenerateSuperFragmentType, TimedOutType
  <2>3. ASSUME NEW f \in Feds, GetNextFragment(f)
        PROVE  TypeInv'
    BY <2>3, GetNextFragmentType
  <2> QED
    BY <1>5, <2>1, <2>2, <2>3 DEF Process
<1>6. CASE ReportError
  BY <1>6, ReportErrorType
<1>7. CASE UNCHANGED vars
  BY <1>7 DEF vars, TypeInv, SourceTypeOK, InputInv, InputTypeOK, FboInv, TableInv, TableTypeOK,
              TableConsistent, ControlInv, ControlTypeOK, evmVars, sourceVars, inputVars,
              tableVars, fsmVars
<1> QED
  BY <1>1, <1>2, <1>3, <1>4, <1>5, <1>6, <1>7 DEF Next

LEMMA TypeInvariant == Spec => []TypeInv
BY InitTypeInv, NextTypeInv, PTL DEF Spec

\* Every message, queue and table of the RU keeps its type, whatever its input.
THEOREM TypeCorrect == Spec => []TypeOK
<1>1. TypeInv => TypeOK
  BY DEF TypeInv, TypeOK, InputInv, TableInv, ControlInv
<1> QED
  BY <1>1, TypeInvariant, PTL

\* The table never holds the data and the request of an event, and counts its
\* data (SuperFragmentTable::addEvBidAndBlock and addRequest).
THEOREM TableCorrect == Spec => []TableConsistent
<1>1. TypeInv => TableConsistent
  BY DEF TypeInv, TableInv
<1> QED
  BY <1>1, TypeInvariant, PTL

-----------------------------------------------------------------------------
(***************************************************************************)
(* What happens to the event-builder ids in a readout unit, for every      *)
(* input, every set of FEDs, every sequence of triggers and any number of  *)
(* faults of the sources: no trigger and no request is lost or served      *)
(* twice, and the table's raises for duplicate ids are never reached.      *)
(***************************************************************************)

(***************************************************************************)
(* The inductive invariant.  The ids the EVM issued differ from each other *)
(* (and from the next one, which is larger than the last).  While the RU   *)
(* is Enabled they are, in the order of issue: filed in the table, in the  *)
(* workloop, in evbIdFIFO, on the network.                                 *)
(***************************************************************************)
IssuedInv ==
  /\ \A k \in 1..nbTriggers :
       issued[k] = LastEvBid(evmFactory) \/ EvBidLess(issued[k], LastEvBid(evmFactory))
  /\ \A j, k \in 1..nbTriggers : issued[j] = issued[k] => j = k

\* How many triggers the workloop took, and how many of them are filed.
Taken == nbTriggers - Len(readoutMsgs) - Len(evbIdFIFO)
Filed == IF HoldsTrigger THEN Taken - 1 ELSE Taken

OrderInv ==
  fsm = "Enabled" =>
    /\ Filed >= 0 /\ workloop.at # "stopped"
    /\ \A i \in DOMAIN evbIdFIFO : evbIdFIFO[i] = issued[Taken + i]
    /\ \A i \in DOMAIN readoutMsgs : readoutMsgs[i] = issued[Taken + Len(evbIdFIFO) + i]
    /\ HoldsTrigger => workloop.evbId = issued[Taken]
    /\ \A id \in EvBid : id \in DOMAIN data \cup DOMAIN sent <=> \E k \in 1..Filed : issued[k] = id
    /\ DOMAIN data \cap DOMAIN sent = {}

RequestInv ==
  fsm # "Failed" =>
    /\ requestMsgs \cup requests \cup DOMAIN sent = { issued[k] : k \in 1..nbTriggers }
    /\ requestMsgs \cap requests = {}
    /\ requestMsgs \cap DOMAIN sent = {}
    /\ requests \cap DOMAIN sent = {}

\* The raises of SuperFragmentTable.
TableNeverRaises == failure \notin {"duplicateData", "duplicateRequest"}

IdsInv == IssuedInv /\ OrderInv /\ RequestInv /\ TableNeverRaises

-----------------------------------------------------------------------------
(* What a step does to the ids.                                            *)

\* A step of the sources, of the data callbacks, or of the workloop without a
\* complete super-fragment: it moves no id, but may leave Enabled.
MovesNoId ==
  /\ UNCHANGED << evmVars, tableVars, readoutMsgs, requestMsgs, evbIdFIFO >>
  /\ \/ /\ fsm' = fsm /\ workloop'.evbId = workloop.evbId
        /\ (HoldsTrigger' <=> HoldsTrigger) /\ (workloop'.at = "stopped" <=> workloop.at = "stopped")
     \/ fsm = "Enabled" /\ fsm' # "Enabled"
  /\ failure' \in {failure, "duplicatedFed", "unexpectedFed"}

\* The workloop files the super-fragment of its trigger.
Files ==
  /\ workloop.at = "data"
  /\ \E F \in SUBSET Fragments : AddEvBidAndBlock(workloop.evbId, F)
  /\ UNCHANGED << evmVars, readoutMsgs, requestMsgs, evbIdFIFO >>

LEMMA BackPressureMovesNoId ==
  ASSUME TypeInv, workloop.at = "data",
         BackPressure("MismatchDetectedBackPressuring") \/ BackPressure("TimedOutBackPressuring"),
         UNCHANGED << evmVars, readoutMsgs, requestMsgs, evbIdFIFO >>
  PROVE  MovesNoId
<1>1. \A e \in Errors : [workloop EXCEPT !.at = e].at = e /\ [workloop EXCEPT !.at = e].evbId = workloop.evbId
  BY ErrorType DEF TypeInv, ControlInv, ControlTypeOK
<1>2. workloop'.at \in Errors /\ workloop'.evbId = workloop.evbId
  BY <1>1 DEF BackPressure, Errors
<1> QED
  BY <1>2 DEF BackPressure, MovesNoId, HoldsTrigger, Errors, fsmVars

LEMMA ReportErrorMovesNoId ==
  ASSUME TypeInv, ReportError
  PROVE  MovesNoId
<1>1. fsm = "Enabled" /\ fsm' # "Enabled"
  BY DEF ReportError, TypeInv, ControlInv, Errors
<1> QED
  BY <1>1 DEF ReportError, MovesNoId

LEMMA CallbackMovesNoId ==
  ASSUME TypeInv, NEW s, NEW k, I2Ocallback(s, k)
  PROVE  MovesNoId
<1>1. /\ fsm = "Enabled"
      /\ UNCHANGED << evmVars, tableVars, readoutMsgs, requestMsgs, evbIdFIFO >>
      /\ FboI2Ocallback(k) \/ FerolI2Ocallback(s, k) \/ Ferol2I2Ocallback(s, k)
  BY DEF I2Ocallback
<1>2. \/ UNCHANGED << fsmVars, workloop >>
      \/ Fail("duplicatedFed") \/ Fail("unexpectedFed")
  BY <1>1 DEF FboI2Ocallback, FerolI2Ocallback, Ferol2I2Ocallback
<1> QED
  BY <1>1, <1>2 DEF MovesNoId, HoldsTrigger, Fail, fsmVars

LEMMA StepKinds ==
  ASSUME TypeInv, [Next]_vars
  PROVE  \/ IssueTrigger \/ ReceiveReadout \/ GetTrigEvBid
         \/ \E id \in requestMsgs : ReceiveRequest(id)
         \/ MovesNoId \/ Files
<1>1. ASSUME NEW s \in Sources, SendFragment(s) \/ RepeatFragment(s)
      PROVE  MovesNoId
  BY <1>1, CallbackMovesNoId DEF SendFragment, RepeatFragment
<1>2. ASSUME NEW s \in StrangeFeds, NEW k \in Events, StrangeFragment(s, k)
      PROVE  MovesNoId
  BY <1>2, CallbackMovesNoId DEF StrangeFragment
<1>3. ASSUME NEW s \in Sources, LoseFragment(s)
      PROVE  MovesNoId
  BY <1>3 DEF LoseFragment, MovesNoId, HoldsTrigger, fsmVars
<1>4. CASE GetData
  <2>1. /\ workloop.at = "data" /\ blockFIFO # << >>
        /\ UNCHANGED << evmVars, readoutMsgs, requestMsgs, evbIdFIFO >>
        /\ \/ AddEvBidAndBlock(workloop.evbId, Head(blockFIFO).fragments)
           \/ BackPressure("MismatchDetectedBackPressuring")
    BY <1>4 DEF GetData
  <2>2. Head(blockFIFO).fragments \in SUBSET Fragments
    <3>1. Head(blockFIFO) \in SuperFragment
      BY <2>1 DEF TypeInv, InputInv, InputTypeOK
    <3> QED
      BY <3>1 DEF SuperFragment
  <2> QED
    BY <2>1, <2>2, BackPressureMovesNoId DEF Files
<1>5. CASE GenerateSuperFragment
  <2>1. PICK k \in 1..nbTriggers : AddEvBidAndBlock(workloop.evbId, WholeEvent(k))
    BY <1>5 DEF GenerateSuperFragment
  <2>2. WholeEvent(k) \in SUBSET Fragments
    <3>1. k \in Events
      BY DEF TypeInv, SourceTypeOK, Events
    <3> QED
      BY <3>1, PartsType DEF WholeEvent
  <2>3. workloop.at = "data" /\ UNCHANGED << evmVars, readoutMsgs, requestMsgs, evbIdFIFO >>
    BY <1>5 DEF GenerateSuperFragment
  <2> QED
    BY <2>1, <2>2, <2>3 DEF Files
<1>6. CASE TimedOut
  BY <1>6, BackPressureMovesNoId DEF TimedOut
<1>7. ASSUME NEW f \in Feds, GetNextFragment(f)
      PROVE  MovesNoId \/ Files
  <2> DEFINE collected == workloop.fragments \cup {<<f, Head(fedFragmentFIFOs[f])>>}
  <2>1. /\ workloop.at = "data" /\ fedFragmentFIFOs[f] # << >>
        /\ UNCHANGED << evmVars, readoutMsgs, requestMsgs, evbIdFIFO >>
        /\ \/ BackPressure("MismatchDetectedBackPressuring")
           \/ AddEvBidAndBlock(workloop.evbId, collected)
           \/ /\ workloop' = [workloop EXCEPT !.fragments = collected]
              /\ UNCHANGED << tableVars, fsmVars >>
    BY <1>7 DEF GetNextFragment
  <2>2. workloop \in Workloop /\ fedFragmentFIFOs[f] \in Seq(Events)
    BY DEF TypeInv, ControlInv, ControlTypeOK, InputInv, InputTypeOK, Sources
  <2>3. collected \in SUBSET Fragments
    <3>1. Head(fedFragmentFIFOs[f]) \in Events
      BY <2>1, <2>2
    <3> QED
      BY <2>2, <3>1 DEF Workloop, Fragments
  <2> HIDE DEF collected
  <2>4. CASE workloop' = [workloop EXCEPT !.fragments = collected] /\ UNCHANGED << tableVars, fsmVars >>
    BY <2>1, <2>2, <2>4 DEF MovesNoId, HoldsTrigger, Workloop, fsmVars
  <2> QED
    BY <2>1, <2>3, <2>4, BackPressureMovesNoId DEF Files
<1>8. CASE ReportError
  BY <1>8, ReportErrorMovesNoId
<1>9. CASE UNCHANGED vars
  BY <1>9 DEF vars, MovesNoId, HoldsTrigger, evmVars, tableVars, fsmVars
<1> QED
  BY <1>1, <1>2, <1>3, <1>4, <1>5, <1>6, <1>7, <1>8, <1>9 DEF Next, Process

-----------------------------------------------------------------------------
(* Each kind of step keeps the invariant.                                  *)

LEMMA IdTypes ==
  ASSUME TypeInv
  PROVE  /\ nbTriggers \in Nat /\ issued \in Seq(EvBid) /\ Len(issued) = nbTriggers
         /\ \A k \in 1..nbTriggers : issued[k] \in EvBid
         /\ readoutMsgs \in Seq(EvBid) /\ Len(readoutMsgs) \in Nat
         /\ evbIdFIFO \in Seq(EvBid) /\ Len(evbIdFIFO) \in Nat
         /\ evmFactory \in Factory
         /\ DOMAIN data \subseteq EvBid /\ DOMAIN sent \subseteq EvBid
         /\ requests \subseteq EvBid /\ requestMsgs \subseteq EvBid
<1>1. /\ nbTriggers \in Nat /\ issued \in Seq(EvBid) /\ Len(issued) = nbTriggers
      /\ evmFactory \in Factory
  BY DEF TypeInv, SourceTypeOK
<1>2. \A k \in 1..nbTriggers : issued[k] \in EvBid
  BY <1>1
<1> QED
  BY <1>1, <1>2 DEF TypeInv, ControlInv, ControlTypeOK, TableInv, TableTypeOK, IsMap

LEMMA MovesNoIdStep ==
  ASSUME TypeInv, IdsInv, MovesNoId
  PROVE  IdsInv'
<1>1. UNCHANGED << Taken >>
  BY DEF MovesNoId, Taken, evmVars
<1>2. IssuedInv'
  BY DEF IdsInv, IssuedInv, MovesNoId, evmVars
<1>3. OrderInv'
  BY <1>1 DEF IdsInv, OrderInv, Filed, MovesNoId, evmVars, tableVars
<1>4. RequestInv'
  BY DEF IdsInv, RequestInv, MovesNoId, evmVars, tableVars
<1>5. TableNeverRaises'
  BY DEF IdsInv, TableNeverRaises, MovesNoId
<1> QED
  BY <1>2, <1>3, <1>4, <1>5 DEF IdsInv

LEMMA IssueStep ==
  ASSUME TypeInv, IdsInv, IssueTrigger
  PROVE  IdsInv'
<1> DEFINE number == TriggerNumbers[nbTriggers + 1]
           evbId  == GetEvBid(evmFactory, number)
<1>1. /\ nbTriggers < Len(TriggerNumbers) /\ nbTriggers' = nbTriggers + 1
      /\ evmFactory' = AfterGetEvBid(evmFactory, number)
      /\ issued' = Append(issued, evbId)
      /\ readoutMsgs' = Append(readoutMsgs, evbId)
      /\ requestMsgs' = requestMsgs \cup {evbId}
      /\ UNCHANGED << tableVars, fsmVars, evbIdFIFO, workloop >>
  BY DEF IssueTrigger
<1>2. number \in Nat
  BY <1>1, NumberType, InputAssumption DEF TypeInv, SourceTypeOK, Events
<1>3. /\ evbId \in EvBid /\ LastEvBid(evmFactory') = evbId
      /\ LastEvBid(evmFactory) \in EvBid
      /\ EvBidLess(LastEvBid(evmFactory), evbId)
  BY <1>1, <1>2, GetEvBidType, EvBidsStrictlyIncrease DEF TypeInv, SourceTypeOK, LastEvBid, Factory, EvBid
<1> HIDE DEF evbId
<1>4. /\ nbTriggers \in Nat /\ issued \in Seq(EvBid) /\ Len(issued) = nbTriggers
      /\ \A k \in 1..nbTriggers : issued[k] \in EvBid
  BY IdTypes
<1>5. /\ \A k \in 1..nbTriggers : issued'[k] = issued[k]
      /\ issued'[nbTriggers'] = evbId
      /\ 1..nbTriggers' = 1..nbTriggers \cup {nbTriggers'}
      /\ nbTriggers' \notin 1..nbTriggers
  BY <1>1, <1>3, <1>4
<1>6. \A k \in 1..nbTriggers : EvBidLess(issued[k], evbId) /\ issued[k] # evbId
  BY <1>3, <1>4, EvBidLessStrict DEF IdsInv, IssuedInv
<1>7. IssuedInv'
  BY <1>3, <1>5, <1>6 DEF IdsInv, IssuedInv
<1>8. OrderInv'
  <2> SUFFICES ASSUME fsm = "Enabled" PROVE OrderInv'
    BY <1>1 DEF OrderInv, fsmVars
  <2>1. /\ readoutMsgs \in Seq(EvBid) /\ Len(readoutMsgs) \in Nat
        /\ evbIdFIFO \in Seq(EvBid) /\ Len(evbIdFIFO) \in Nat
    BY IdTypes
  <2>2. /\ Len(readoutMsgs') = Len(readoutMsgs) + 1
        /\ \A i \in DOMAIN readoutMsgs : readoutMsgs'[i] = readoutMsgs[i]
        /\ readoutMsgs'[Len(readoutMsgs) + 1] = evbId
        /\ DOMAIN readoutMsgs' = DOMAIN readoutMsgs \cup {Len(readoutMsgs) + 1}
        /\ DOMAIN readoutMsgs = 1..Len(readoutMsgs) /\ DOMAIN evbIdFIFO = 1..Len(evbIdFIFO)
    BY <1>1, <1>3, <2>1
  <2>3. Taken' = Taken /\ Filed' = Filed /\ Taken \in Int
    BY <1>1, <1>4, <2>1, <2>2 DEF Taken, Filed, HoldsTrigger
  <2>4. Filed \in Nat /\ Taken \in Nat /\ Taken + Len(evbIdFIFO) + Len(readoutMsgs) = nbTriggers
        /\ (HoldsTrigger => Taken >= 1)
        /\ Filed <= nbTriggers
    <3>1. Filed >= 0
      BY DEF IdsInv, OrderInv
    <3>2. Taken + Len(evbIdFIFO) + Len(readoutMsgs) = nbTriggers /\ Taken <= nbTriggers
      BY <1>4, <2>1, <2>3 DEF Taken
    <3>3. CASE HoldsTrigger
      <4>1. Filed = Taken - 1
        BY <3>3 DEF Filed
      <4> QED
        BY <1>4, <2>3, <3>1, <3>2, <4>1
    <3>4. CASE ~HoldsTrigger
      <4>1. Filed = Taken
        BY <3>4 DEF Filed
      <4> QED
        BY <1>4, <2>3, <3>1, <3>2, <3>4, <4>1
    <3> QED
      BY <3>3, <3>4
  <2>5. \A i \in DOMAIN evbIdFIFO : evbIdFIFO'[i] = issued'[Taken + i]
    <3>1. \A i \in DOMAIN evbIdFIFO : Taken + i \in 1..nbTriggers
      BY <1>4, <2>1, <2>2, <2>4
    <3>2. \A i \in DOMAIN evbIdFIFO : evbIdFIFO[i] = issued[Taken + i]
      BY DEF IdsInv, OrderInv
    <3> QED
      BY <1>1, <1>5, <3>1, <3>2
  <2>6. \A i \in DOMAIN readoutMsgs' : readoutMsgs'[i] = issued'[Taken + Len(evbIdFIFO) + i]
    <3>1. \A i \in DOMAIN readoutMsgs : readoutMsgs'[i] = issued'[Taken + Len(evbIdFIFO) + i]
      <4>1. \A i \in DOMAIN readoutMsgs : Taken + Len(evbIdFIFO) + i \in 1..nbTriggers
        BY <1>4, <2>1, <2>2, <2>4
      <4>2. \A i \in DOMAIN readoutMsgs : readoutMsgs[i] = issued[Taken + Len(evbIdFIFO) + i]
        BY DEF IdsInv, OrderInv
      <4> QED
        BY <1>5, <2>2, <4>1, <4>2
    <3>2. Taken + Len(evbIdFIFO) + (Len(readoutMsgs) + 1) = nbTriggers'
      BY <1>1, <1>4, <2>1, <2>4
    <3> QED
      BY <1>5, <2>2, <3>1, <3>2
  <2>7. HoldsTrigger => workloop.evbId = issued'[Taken]
    BY <1>4, <1>5, <2>1, <2>4 DEF IdsInv, OrderInv
  <2>8. \A id \in EvBid : id \in DOMAIN data \cup DOMAIN sent <=> \E k \in 1..Filed : issued'[k] = id
    <3>1. \A k \in 1..Filed : issued'[k] = issued[k]
      BY <1>4, <1>5, <2>4
    <3> QED
      BY <3>1 DEF IdsInv, OrderInv
  <2> QED
    BY <1>1, <2>3, <2>5, <2>6, <2>7, <2>8 DEF IdsInv, OrderInv, tableVars, HoldsTrigger
<1>9. RequestInv'
  <2>1. { issued'[k] : k \in 1..nbTriggers' } = { issued[k] : k \in 1..nbTriggers } \cup {evbId}
    BY <1>5
  <2>2. evbId \notin { issued[k] : k \in 1..nbTriggers }
    BY <1>6
  <2> QED
    BY <1>1, <2>1, <2>2 DEF IdsInv, RequestInv, tableVars, fsmVars
<1>10. TableNeverRaises'
  BY <1>1 DEF IdsInv, TableNeverRaises, fsmVars
<1> QED
  BY <1>7, <1>8, <1>9, <1>10 DEF IdsInv

LEMMA ReceiveReadoutStep ==
  ASSUME TypeInv, IdsInv, ReceiveReadout
  PROVE  IdsInv'
<1>1. /\ readoutMsgs # << >> /\ readoutMsgs' = Tail(readoutMsgs)
      /\ fsm # "Failed" => evbIdFIFO' = Append(evbIdFIFO, Head(readoutMsgs))
      /\ UNCHANGED << evmVars, tableVars, fsmVars, requestMsgs, workloop >>
  BY DEF ReceiveReadout
<1>2. IssuedInv' /\ RequestInv' /\ TableNeverRaises'
  BY <1>1 DEF IdsInv, IssuedInv, RequestInv, TableNeverRaises, evmVars, tableVars, fsmVars
<1>3. OrderInv'
  <2> SUFFICES ASSUME fsm = "Enabled" PROVE OrderInv'
    BY <1>1 DEF OrderInv, fsmVars
  <2>1. /\ readoutMsgs \in Seq(EvBid) /\ Len(readoutMsgs) \in Nat \ {0}
        /\ evbIdFIFO \in Seq(EvBid) /\ Len(evbIdFIFO) \in Nat
        /\ nbTriggers \in Nat
    BY <1>1, IdTypes
  <2>2. /\ Len(readoutMsgs') = Len(readoutMsgs) - 1
        /\ \A i \in DOMAIN readoutMsgs' : readoutMsgs'[i] = readoutMsgs[i + 1] /\ i + 1 \in DOMAIN readoutMsgs
        /\ Head(readoutMsgs) = readoutMsgs[1] /\ 1 \in DOMAIN readoutMsgs
        /\ Head(readoutMsgs) \in EvBid
        /\ DOMAIN readoutMsgs' \subseteq Nat
    BY <1>1, <2>1
  <2>3. /\ Len(evbIdFIFO') = Len(evbIdFIFO) + 1
        /\ \A i \in DOMAIN evbIdFIFO : evbIdFIFO'[i] = evbIdFIFO[i]
        /\ evbIdFIFO'[Len(evbIdFIFO) + 1] = readoutMsgs[1]
        /\ DOMAIN evbIdFIFO' = DOMAIN evbIdFIFO \cup {Len(evbIdFIFO) + 1}
    <3>1. evbIdFIFO' = Append(evbIdFIFO, readoutMsgs[1]) /\ readoutMsgs[1] \in EvBid
      BY <1>1, <2>2
    <3> QED
      BY <2>1, <3>1
  <2>4. Taken \in Int /\ Taken' = Taken /\ Filed' = Filed
    BY <1>1, <2>1, <2>2, <2>3 DEF Taken, Filed, evmVars, HoldsTrigger
  <2>5. /\ \A i \in DOMAIN evbIdFIFO : evbIdFIFO[i] = issued[Taken + i]
        /\ \A i \in DOMAIN readoutMsgs : readoutMsgs[i] = issued[Taken + Len(evbIdFIFO) + i]
    BY DEF IdsInv, OrderInv
  <2>6. \A i \in DOMAIN evbIdFIFO' : evbIdFIFO'[i] = issued[Taken + i]
    <3>1. readoutMsgs[1] = issued[Taken + (Len(evbIdFIFO) + 1)]
      <4>1. Taken + (Len(evbIdFIFO) + 1) = Taken + Len(evbIdFIFO) + 1
        BY <2>1, <2>4
      <4> QED
        BY <2>2, <2>5, <4>1
    <3> QED
      BY <2>3, <2>5, <3>1
  <2>7. \A i \in DOMAIN readoutMsgs' : readoutMsgs'[i] = issued[Taken + Len(evbIdFIFO') + i]
    <3> SUFFICES ASSUME NEW i \in DOMAIN readoutMsgs'
                 PROVE  readoutMsgs'[i] = issued[Taken + Len(evbIdFIFO') + i]
      OBVIOUS
    <3>1. readoutMsgs'[i] = issued[Taken + Len(evbIdFIFO) + (i + 1)]
      BY <2>2, <2>5
    <3>2. Taken + Len(evbIdFIFO) + (i + 1) = Taken + Len(evbIdFIFO') + i
      BY <2>1, <2>2, <2>3, <2>4
    <3> QED
      BY <3>1, <3>2
  <2> QED
    BY <1>1, <2>4, <2>6, <2>7 DEF IdsInv, OrderInv, evmVars, tableVars, HoldsTrigger
<1> QED
  BY <1>2, <1>3 DEF IdsInv

LEMMA GetTrigStep ==
  ASSUME TypeInv, IdsInv, GetTrigEvBid
  PROVE  IdsInv'
<1>1. /\ workloop.at = "trigger" /\ evbIdFIFO # << >>
      /\ HoldsTrigger' /\ workloop'.at # "stopped" /\ workloop'.evbId = Head(evbIdFIFO)
      /\ evbIdFIFO' = Tail(evbIdFIFO)
      /\ UNCHANGED << evmVars, tableVars, fsmVars, readoutMsgs, requestMsgs >>
  BY DEF GetTrigEvBid, HoldsTrigger, Errors
<1>2. IssuedInv' /\ RequestInv' /\ TableNeverRaises'
  BY <1>1 DEF IdsInv, IssuedInv, RequestInv, TableNeverRaises, evmVars, tableVars, fsmVars
<1>3. OrderInv'
  <2> SUFFICES ASSUME fsm = "Enabled" PROVE OrderInv'
    BY <1>1 DEF OrderInv, fsmVars
  <2>1. /\ evbIdFIFO \in Seq(EvBid) /\ Len(evbIdFIFO) \in Nat \ {0}
        /\ Len(readoutMsgs) \in Nat /\ readoutMsgs \in Seq(EvBid)
        /\ nbTriggers \in Nat
    BY <1>1, IdTypes
  <2>2. /\ Len(evbIdFIFO') = Len(evbIdFIFO) - 1
        /\ \A i \in DOMAIN evbIdFIFO' : evbIdFIFO'[i] = evbIdFIFO[i + 1] /\ i + 1 \in DOMAIN evbIdFIFO
        /\ Head(evbIdFIFO) = evbIdFIFO[1] /\ 1 \in DOMAIN evbIdFIFO
        /\ DOMAIN evbIdFIFO' \subseteq Nat
    BY <1>1, <2>1
  <2>3. Taken \in Int /\ Taken' = Taken + 1 /\ Filed' = Filed
    BY <1>1, <2>1, <2>2 DEF Taken, Filed, evmVars, HoldsTrigger, Errors
  <2>4. /\ \A i \in DOMAIN evbIdFIFO : evbIdFIFO[i] = issued[Taken + i]
        /\ \A i \in DOMAIN readoutMsgs : readoutMsgs[i] = issued[Taken + Len(evbIdFIFO) + i]
    BY DEF IdsInv, OrderInv
  <2>5. \A i \in DOMAIN evbIdFIFO' : evbIdFIFO'[i] = issued[Taken' + i]
    <3>1. \A i \in DOMAIN evbIdFIFO' : Taken + (i + 1) = Taken' + i
      BY <2>2, <2>3
    <3>2. \A i \in DOMAIN evbIdFIFO' : evbIdFIFO'[i] = issued[Taken + (i + 1)]
      BY <2>2, <2>4
    <3> QED
      BY <3>1, <3>2
  <2>6. \A i \in DOMAIN readoutMsgs : readoutMsgs[i] = issued[Taken' + Len(evbIdFIFO') + i]
    <3>1. Taken' + Len(evbIdFIFO') = Taken + Len(evbIdFIFO)
      BY <2>1, <2>2, <2>3
    <3> QED
      BY <2>4, <3>1
  <2>7. workloop'.evbId = issued[Taken']
    BY <1>1, <2>2, <2>3, <2>4
  <2> QED
    BY <1>1, <2>3, <2>5, <2>6, <2>7 DEF IdsInv, OrderInv, evmVars, tableVars
<1> QED
  BY <1>2, <1>3 DEF IdsInv

LEMMA ReceiveRequestStep ==
  ASSUME TypeInv, IdsInv, NEW id \in requestMsgs, ReceiveRequest(id)
  PROVE  IdsInv'
<1>1. /\ requestMsgs' = requestMsgs \ {id}
      /\ UNCHANGED << evmVars, readoutMsgs, evbIdFIFO >>
      /\ IF fsm = "Failed" THEN UNCHANGED << tableVars, fsmVars, workloop >> ELSE AddRequest(id)
  BY DEF ReceiveRequest
<1>2. IssuedInv'
  BY <1>1 DEF IdsInv, IssuedInv, evmVars
<1>3. CASE fsm = "Failed"
  BY <1>1, <1>2, <1>3 DEF IdsInv, OrderInv, RequestInv, TableNeverRaises, tableVars, fsmVars
<1>4. CASE fsm # "Failed"
  <2>1. id \notin requests /\ id \notin DOMAIN sent /\ id \in EvBid
    BY <1>4, IdTypes DEF IdsInv, RequestInv
  <2>2. /\ UNCHANGED << fsmVars, workloop >>
        /\ \/ /\ id \in DOMAIN data
              /\ DOMAIN sent' = DOMAIN sent \cup {id}
              /\ DOMAIN data' = DOMAIN data \ {id}
              /\ UNCHANGED requests
           \/ /\ id \notin DOMAIN data
              /\ requests' = requests \cup {id}
              /\ UNCHANGED << data, sent >>
    <3>1. CASE id \in DOMAIN data
      <4>1. /\ sent' = Insert(sent, id, data[id]) /\ data' = Erase(data, id)
            /\ UNCHANGED << requests, fsmVars, workloop >>
        BY <1>1, <1>4, <2>1, <3>1 DEF AddRequest
      <4> QED
        BY <3>1, <4>1 DEF Insert, Erase
    <3>2. CASE id \notin DOMAIN data
      BY <1>1, <1>4, <2>1, <3>2 DEF AddRequest
    <3> QED
      BY <3>1, <3>2
  <2>3. /\ DOMAIN data' \cup DOMAIN sent' = DOMAIN data \cup DOMAIN sent
        /\ DOMAIN data \cap DOMAIN sent = {} => DOMAIN data' \cap DOMAIN sent' = {}
    BY <2>1, <2>2
  <2>4. Taken' = Taken /\ Filed' = Filed
    BY <1>1, <2>2 DEF Taken, Filed, evmVars, HoldsTrigger
  <2>5. OrderInv'
    BY <1>1, <2>2, <2>3, <2>4 DEF IdsInv, OrderInv, evmVars, fsmVars, HoldsTrigger
  <2>6. RequestInv'
    BY <1>1, <1>4, <2>1, <2>2 DEF IdsInv, RequestInv, evmVars, fsmVars
  <2>7. TableNeverRaises'
    BY <2>2 DEF IdsInv, TableNeverRaises, fsmVars
  <2> QED
    BY <1>2, <2>5, <2>6, <2>7 DEF IdsInv
<1> QED
  BY <1>3, <1>4

LEMMA FilesStep ==
  ASSUME TypeInv, IdsInv, Files
  PROVE  IdsInv'
<1> DEFINE id == workloop.evbId
<1>1. /\ workloop.at = "data" /\ fsm = "Enabled"
      /\ UNCHANGED << evmVars, readoutMsgs, requestMsgs, evbIdFIFO >>
  BY DEF Files, TypeInv, ControlInv
<1>2. PICK F \in SUBSET Fragments : AddEvBidAndBlock(id, F)
  BY DEF Files
<1>3. /\ nbTriggers \in Nat /\ \A k \in 1..nbTriggers : issued[k] \in EvBid
      /\ Len(readoutMsgs) \in Nat /\ Len(evbIdFIFO) \in Nat
  BY IdTypes
<1>4. /\ Taken \in Nat \ {0} /\ Taken <= nbTriggers /\ Filed = Taken - 1
      /\ id = issued[Taken] /\ id \in EvBid
      /\ \A x \in EvBid : x \in DOMAIN data \cup DOMAIN sent <=> \E k \in 1..Filed : issued[k] = x
      /\ DOMAIN data \cap DOMAIN sent = {}
  <2>1. Filed >= 0 /\ Filed = Taken - 1 /\ id = issued[Taken]
    BY <1>1 DEF IdsInv, OrderInv, Filed, HoldsTrigger, Errors
  <2>2. Taken \in Nat \ {0} /\ Taken <= nbTriggers
    BY <1>3, <2>1 DEF Taken
  <2>3. id \in EvBid
    BY <1>3, <2>1, <2>2
  <2> QED
    BY <1>1, <2>1, <2>2, <2>3 DEF IdsInv, OrderInv
<1> HIDE DEF id
<1>5. id \notin DOMAIN data /\ id \notin DOMAIN sent
  <2>1. \A k \in 1..Filed : issued[k] # issued[Taken]
    BY <1>3, <1>4 DEF IdsInv, IssuedInv
  <2> QED
    BY <1>4, <2>1
<1>6. /\ workloop' = AtTrigger /\ UNCHANGED fsmVars
      /\ \/ /\ id \in requests
            /\ DOMAIN sent' = DOMAIN sent \cup {id}
            /\ requests' = requests \ {id}
            /\ UNCHANGED data
         \/ /\ id \notin requests
            /\ DOMAIN data' = DOMAIN data \cup {id}
            /\ UNCHANGED << requests, sent >>
  <2>1. CASE id \in requests
    BY <1>2, <1>5, <2>1 DEF AddEvBidAndBlock, Insert
  <2>2. CASE id \notin requests
    BY <1>2, <1>5, <2>2 DEF AddEvBidAndBlock, Insert
  <2> QED
    BY <2>1, <2>2
<1>7. workloop'.at = "trigger"
  BY <1>6 DEF AtTrigger
<1>8. Taken' = Taken /\ Filed' = Taken /\ 1..Filed' = 1..Filed \cup {Taken}
  <2>1. Taken' = Taken /\ Filed' = Taken
    BY <1>1, <1>7 DEF Taken, Filed, evmVars, HoldsTrigger, Errors
  <2> QED
    BY <1>4, <2>1
<1>9. OrderInv'
  <2>1. \A x \in EvBid : x \in DOMAIN data' \cup DOMAIN sent' <=> \E k \in 1..Filed' : issued[k] = x
    BY <1>4, <1>6, <1>8
  <2>2. DOMAIN data' \cap DOMAIN sent' = {}
    BY <1>4, <1>5, <1>6
  <2>3. Filed' >= 0
    BY <1>4, <1>8
  <2> QED
    BY <1>1, <1>7, <1>8, <2>1, <2>2, <2>3 DEF IdsInv, OrderInv, evmVars, HoldsTrigger, Errors
<1>10. RequestInv'
  <2>1. RequestInv /\ fsm # "Failed"
    BY <1>1 DEF IdsInv
  <2>2. id \in { issued[k] : k \in 1..nbTriggers }
    BY <1>3, <1>4
  <2> QED
    BY <1>1, <1>5, <1>6, <2>1, <2>2 DEF RequestInv, evmVars, fsmVars
<1>11. IssuedInv' /\ TableNeverRaises'
  BY <1>1, <1>6 DEF IdsInv, IssuedInv, TableNeverRaises, evmVars, fsmVars
<1> QED
  BY <1>9, <1>10, <1>11 DEF IdsInv

LEMMA InitIdsInv == Init => IdsInv
<1> SUFFICES ASSUME Init PROVE IdsInv
  OBVIOUS
<1>1. IssuedInv
  BY DEF Init, IssuedInv
<1>2. Taken = 0 /\ Filed = 0
  <2>1. Len(readoutMsgs) = 0 /\ Len(evbIdFIFO) = 0 /\ nbTriggers = 0 /\ workloop.at = "trigger"
    BY DEF Init, AtTrigger
  <2> QED
    BY <2>1 DEF Taken, Filed, HoldsTrigger, Errors
<1>3. OrderInv
  BY <1>2 DEF Init, OrderInv, AtTrigger, HoldsTrigger, Errors
<1>4. RequestInv /\ TableNeverRaises
  BY DEF Init, RequestInv, TableNeverRaises
<1> QED
  BY <1>1, <1>3, <1>4 DEF IdsInv

LEMMA NextIdsInv == TypeInv /\ IdsInv /\ [Next]_vars => IdsInv'
<1> SUFFICES ASSUME TypeInv, IdsInv, [Next]_vars PROVE IdsInv'
  OBVIOUS
<1>1. CASE IssueTrigger
  BY <1>1, IssueStep
<1>2. CASE ReceiveReadout
  BY <1>2, ReceiveReadoutStep
<1>3. CASE GetTrigEvBid
  BY <1>3, GetTrigStep
<1>4. ASSUME NEW id \in requestMsgs, ReceiveRequest(id)
      PROVE  IdsInv'
  BY <1>4, ReceiveRequestStep
<1>5. CASE MovesNoId
  BY <1>5, MovesNoIdStep
<1>6. CASE Files
  BY <1>6, FilesStep
<1> QED
  BY <1>1, <1>2, <1>3, <1>4, <1>5, <1>6, StepKinds

LEMMA IdsInvariant == Spec => [](TypeInv /\ IdsInv)
<1>1. Spec => []TypeInv
  BY TypeInvariant
<1> QED
  BY <1>1, InitIdsInv, NextIdsInv, PTL DEF Spec

-----------------------------------------------------------------------------
\* While the RU is Enabled, every id the EVM issued is at exactly one place on its
\* way to the BU (EVMproxy, RU::process, SuperFragmentTable).
THEOREM TriggerCorrect == Spec => []TriggerInOnePlace
<1>1. TypeInv /\ IdsInv => TriggerInOnePlace
  <2> SUFFICES ASSUME TypeInv, IdsInv, fsm = "Enabled", NEW n \in 1..nbTriggers
               PROVE  \E p \in TriggerPlaces : \A q \in TriggerPlaces :
                        AtTriggerPlace(issued[n], q) <=> q = p
    BY DEF TriggerInOnePlace
  <2>1. /\ nbTriggers \in Nat /\ \A k \in 1..nbTriggers : issued[k] \in EvBid
        /\ Len(readoutMsgs) \in Nat /\ Len(evbIdFIFO) \in Nat
        /\ DOMAIN readoutMsgs = 1..Len(readoutMsgs) /\ DOMAIN evbIdFIFO = 1..Len(evbIdFIFO)
    BY IdTypes
  <2>2. /\ Filed \in Nat /\ Taken \in Nat /\ Taken + Len(evbIdFIFO) + Len(readoutMsgs) = nbTriggers
        /\ Filed = IF HoldsTrigger THEN Taken - 1 ELSE Taken
    BY <2>1 DEF IdsInv, OrderInv, Taken, Filed
  <2>3. \A j, k \in 1..nbTriggers : issued[j] = issued[k] => j = k
    BY DEF IdsInv, IssuedInv
  <2>4. AtTriggerPlace(issued[n], "network") <=> n > Taken + Len(evbIdFIFO)
    <3>1. \A i \in DOMAIN readoutMsgs : /\ readoutMsgs[i] = issued[Taken + Len(evbIdFIFO) + i]
                                       /\ Taken + Len(evbIdFIFO) + i \in 1..nbTriggers
      BY <2>1, <2>2 DEF IdsInv, OrderInv
    <3>2. n > Taken + Len(evbIdFIFO) =>
            /\ n - (Taken + Len(evbIdFIFO)) \in DOMAIN readoutMsgs
            /\ Taken + Len(evbIdFIFO) + (n - (Taken + Len(evbIdFIFO))) = n
      BY <2>1, <2>2
    <3>3. ASSUME n > Taken + Len(evbIdFIFO)
          PROVE  \E i \in DOMAIN readoutMsgs : readoutMsgs[i] = issued[n]
      BY <3>1, <3>2, <3>3
    <3>4. ASSUME NEW i \in DOMAIN readoutMsgs, readoutMsgs[i] = issued[n]
          PROVE  n > Taken + Len(evbIdFIFO)
      <4>1. n = Taken + Len(evbIdFIFO) + i
        BY <2>3, <3>1, <3>4
      <4> QED
        BY <2>1, <2>2, <4>1
    <3> QED
      BY <3>3, <3>4 DEF AtTriggerPlace
  <2>5. AtTriggerPlace(issued[n], "evbIdFIFO") <=> n > Taken /\ n <= Taken + Len(evbIdFIFO)
    <3>1. \A i \in DOMAIN evbIdFIFO : evbIdFIFO[i] = issued[Taken + i] /\ Taken + i \in 1..nbTriggers
      BY <2>1, <2>2 DEF IdsInv, OrderInv
    <3>2. n > Taken /\ n <= Taken + Len(evbIdFIFO) =>
            n - Taken \in DOMAIN evbIdFIFO /\ Taken + (n - Taken) = n
      BY <2>1, <2>2
    <3>3. ASSUME n > Taken /\ n <= Taken + Len(evbIdFIFO)
          PROVE  \E i \in DOMAIN evbIdFIFO : evbIdFIFO[i] = issued[n]
      BY <3>1, <3>2, <3>3
    <3>4. ASSUME NEW i \in DOMAIN evbIdFIFO, evbIdFIFO[i] = issued[n]
          PROVE  n > Taken /\ n <= Taken + Len(evbIdFIFO)
      <4>1. n = Taken + i
        BY <2>3, <3>1, <3>4
      <4> QED
        BY <2>1, <2>2, <4>1
    <3> QED
      BY <3>3, <3>4 DEF AtTriggerPlace
  <2>6. AtTriggerPlace(issued[n], "workloop") <=> HoldsTrigger /\ n = Taken
    <3>1. HoldsTrigger => workloop.evbId = issued[Taken] /\ Taken \in 1..nbTriggers
      BY <2>1, <2>2 DEF IdsInv, OrderInv
    <3> QED
      BY <2>3, <3>1 DEF AtTriggerPlace
  <2>7. /\ issued[n] \in DOMAIN data \cup DOMAIN sent <=> n <= Filed
        /\ DOMAIN data \cap DOMAIN sent = {}
    <3>1. /\ issued[n] \in DOMAIN data \cup DOMAIN sent <=> \E k \in 1..Filed : issued[k] = issued[n]
          /\ DOMAIN data \cap DOMAIN sent = {}
      BY <2>1 DEF IdsInv, OrderInv
    <3>2. 1..Filed \subseteq 1..nbTriggers
      BY <2>1, <2>2
    <3>3. (\E k \in 1..Filed : issued[k] = issued[n]) <=> n \in 1..Filed
      BY <2>3, <3>2
    <3> QED
      BY <2>2, <3>1, <3>3
  <2>8. /\ AtTriggerPlace(issued[n], "data") <=> issued[n] \in DOMAIN data
        /\ AtTriggerPlace(issued[n], "sent") <=> issued[n] \in DOMAIN sent
    BY DEF AtTriggerPlace
  <2>9. CASE n > Taken + Len(evbIdFIFO)
    <3>1. \A q \in TriggerPlaces : AtTriggerPlace(issued[n], q) <=> q = "network"
      BY <2>1, <2>2, <2>4, <2>5, <2>6, <2>7, <2>8, <2>9 DEF TriggerPlaces
    <3> QED
      BY <3>1 DEF TriggerPlaces
  <2>10. CASE n > Taken /\ n <= Taken + Len(evbIdFIFO)
    <3>1. \A q \in TriggerPlaces : AtTriggerPlace(issued[n], q) <=> q = "evbIdFIFO"
      BY <2>1, <2>2, <2>4, <2>5, <2>6, <2>7, <2>8, <2>10 DEF TriggerPlaces
    <3> QED
      BY <3>1 DEF TriggerPlaces
  <2>11. CASE HoldsTrigger /\ n = Taken
    <3>1. \A q \in TriggerPlaces : AtTriggerPlace(issued[n], q) <=> q = "workloop"
      BY <2>1, <2>2, <2>4, <2>5, <2>6, <2>7, <2>8, <2>11 DEF TriggerPlaces
    <3> QED
      BY <3>1 DEF TriggerPlaces
  <2>12. CASE n <= Filed /\ issued[n] \in DOMAIN data
    <3>1. \A q \in TriggerPlaces : AtTriggerPlace(issued[n], q) <=> q = "data"
      BY <2>1, <2>2, <2>4, <2>5, <2>6, <2>7, <2>8, <2>12 DEF TriggerPlaces
    <3> QED
      BY <3>1 DEF TriggerPlaces
  <2>13. CASE n <= Filed /\ issued[n] \in DOMAIN sent
    <3>1. \A q \in TriggerPlaces : AtTriggerPlace(issued[n], q) <=> q = "sent"
      BY <2>1, <2>2, <2>4, <2>5, <2>6, <2>7, <2>8, <2>13 DEF TriggerPlaces
    <3> QED
      BY <3>1 DEF TriggerPlaces
  <2> QED
    BY <2>1, <2>2, <2>7, <2>9, <2>10, <2>11, <2>12, <2>13
<1> QED
  BY <1>1, IdsInvariant, PTL

\* While the RU has not failed, every request is on its way, waiting in the table
\* or answered, and exactly one of these (BUproxy, SuperFragmentTable).
THEOREM RequestCorrect == Spec => []RequestInOnePlace
<1>1. TypeInv /\ IdsInv => RequestInOnePlace
  <2> SUFFICES ASSUME IdsInv, fsm # "Failed", NEW n \in 1..nbTriggers
               PROVE  \E p \in RequestPlaces : \A q \in RequestPlaces :
                        AtRequestPlace(issued[n], q) <=> q = p
    BY DEF RequestInOnePlace
  <2>1. /\ issued[n] \in requestMsgs \cup requests \cup DOMAIN sent
        /\ requestMsgs \cap requests = {} /\ requestMsgs \cap DOMAIN sent = {}
        /\ requests \cap DOMAIN sent = {}
    BY DEF IdsInv, RequestInv
  <2>2. CASE issued[n] \in requestMsgs
    BY <2>1, <2>2 DEF RequestPlaces, AtRequestPlace
  <2>3. CASE issued[n] \in requests
    BY <2>1, <2>3 DEF RequestPlaces, AtRequestPlace
  <2>4. CASE issued[n] \in DOMAIN sent
    BY <2>1, <2>4 DEF RequestPlaces, AtRequestPlace
  <2> QED
    BY <2>1, <2>2, <2>3, <2>4
<1> QED
  BY <1>1, IdsInvariant, PTL

\* The raises of SuperFragmentTable for an id it holds already are unreachable,
\* whatever the sources lose, repeat or make up.
THEOREM DuplicatesNeverRaised == Spec => []TableNeverRaises
<1>1. TypeInv /\ IdsInv => TableNeverRaises
  BY DEF IdsInv
<1> QED
  BY <1>1, IdsInvariant, PTL

-----------------------------------------------------------------------------
(***************************************************************************)
(* The data and the alarms.  The EVM, the FBO and each FED number the      *)
(* events on their own; what follows shows when they agree.                *)
(***************************************************************************)
RunFactory(k) == FactoryAfter(TriggerNumbers, k)
RunId(k)      == EvBidOf(TriggerNumbers, k)

\* The id of event k says which event it is: no other event of the run has it.
Determines(id, k) == \A j \in Events : RunId(j) = id => j = k

\* The EVM's factory follows the run.
RunInv ==
  /\ evmFactory = RunFactory(nbTriggers)
  /\ \A k \in 1..nbTriggers : issued[k] = RunId(k)

\* An FBO starts an event only when it has sent all blocks of the event before.
BlocksInv ==
  inputSource = "FBO" =>
    /\ nextEvent[0] \in Events \/ superFragmentHead = << >>
    /\ \A i \in DOMAIN superFragmentHead : superFragmentHead[i] = <<i, nextEvent[0]>>
    /\ \A i \in DOMAIN blockFIFO : \E k \in Events : blockFIFO[i].fragments = WholeEvent(k)

\* A FED's fragments have the ids its factory gave to them, the last one or a smaller one.
KnownInv ==
  inputSource = "FEROL" /\ fsm = "Enabled" =>
    \A id \in DOMAIN superFragmentMap : \A g \in superFragmentMap[id] :
      /\ g[1] \in Feds
      /\ id = LastEvBid(evbIdFactories[g[1]]) \/ EvBidLess(id, LastEvBid(evbIdFactories[g[1]]))

\* The RU fails only because of a FED that should not send.
AlarmInv ==
  /\ fsm = "Failed" => \E f \in faults : f.kind = "strange"
  /\ fsm = "MismatchDetectedBackPressuring" => faults # {}
  /\ workloop.at = "trigger" => workloop.fragments = {}

-----------------------------------------------------------------------------
(* Without a fault, and as long as the RU is Enabled, each source is at a  *)
(* known distance from the workloop.                                       *)

\* FEROL: the fragments in superFragmentMap are those of the events after the last
\* complete one, Filed + Len(blockFIFO), which is the same for all FEDs.
Merged == Filed + Len(blockFIFO)
MergedInv ==
  /\ \A i \in DOMAIN blockFIFO : blockFIFO[i].evbId = RunId(Filed + i)
  /\ \A s \in Feds : nextEvent[s] > Merged /\ evbIdFactories[s] = RunFactory(nextEvent[s] - 1)
  /\ \E s \in Feds : nextEvent[s] <= Merged + 1
  /\ \A id \in DOMAIN superFragmentMap : \A g \in superFragmentMap[id] :
       id = RunId(g[2]) /\ g[2] < nextEvent[g[1]]
  /\ \A s \in Feds, k \in Events :
       Merged < k /\ k < nextEvent[s] =>
         RunId(k) \in DOMAIN superFragmentMap /\ <<s, k>> \in superFragmentMap[RunId(k)]

\* FEROL2: the workloop has taken the fragments of its trigger from some FEDs.
TakenFrom(f) == IF \E g \in workloop.fragments : g[1] = f THEN Filed + 1 ELSE Filed
QueuedInv ==
  \A f \in Feds :
    /\ evbIdFactories[f] = RunFactory(TakenFrom(f))
    /\ nextEvent[f] = TakenFrom(f) + Len(fedFragmentFIFOs[f]) + 1
    /\ \A i \in DOMAIN fedFragmentFIFOs[f] : fedFragmentFIFOs[f][i] = TakenFrom(f) + i

InStep ==
  /\ workloop.at # "MismatchDetectedBackPressuring"
  /\ inputSource \in {"FBO", "FEROL"} =>
       \A i \in DOMAIN blockFIFO :
         Filed + i \in Events /\ blockFIFO[i].fragments = WholeEvent(Filed + i)
  /\ inputSource = "FBO" =>
       /\ evbIdFactories[0] = RunFactory(Filed)
       /\ nextEvent[0] = Filed + Len(blockFIFO) + 1
  /\ inputSource = "FEROL" => MergedInv
  /\ inputSource = "FEROL2" => QueuedInv

FaultlessInv == faults = {} /\ fsm = "Enabled" => InStep

-----------------------------------------------------------------------------
(* The ids tell the events apart if no source is at fault, or, whatever    *)
(* the sources lose and repeat, if the run has no trigger number twice.    *)
NumbersDiffer == \A j, k \in Events : TriggerNumbers[j] = TriggerNumbers[k] => j = k
IdsAreTrue    == faults = {} \/ NumbersDiffer

OwnInv ==
  IdsAreTrue =>
    /\ OwnData
    /\ fsm = "Enabled" =>
         /\ inputSource = "FEROL" =>
              /\ \A id \in DOMAIN superFragmentMap : \A g \in superFragmentMap[id] : Determines(id, g[2])
              /\ \A i \in DOMAIN blockFIFO :
                   /\ { g[1] : g \in blockFIFO[i].fragments } = Feds
                   /\ \A g \in blockFIFO[i].fragments : Determines(blockFIFO[i].evbId, g[2])
         /\ inputSource = "FEROL2" =>
              \A g \in workloop.fragments : g[1] \in Feds /\ Determines(workloop.evbId, g[2])

-----------------------------------------------------------------------------
(* Facts about the run and about the workloop's place in it.               *)

LEMMA RunFacts ==
  /\ RunFactory(0) = NewEvBidFactory
  /\ \A k \in 0..Len(TriggerNumbers) : RunFactory(k) \in Factory
  /\ \A k \in Events :
       /\ RunId(k) \in EvBid /\ RunId(k).eventNumber = TriggerNumbers[k]
       /\ LastEvBid(RunFactory(k)) = RunId(k)
       /\ GetEvBid(RunFactory(k - 1), TriggerNumbers[k]) = RunId(k)
       /\ AfterGetEvBid(RunFactory(k - 1), TriggerNumbers[k]) = RunFactory(k)
  /\ \A j, k \in Events : RunId(j) = RunId(k) => j = k
<1>1. TriggerNumbers \in Seq(Nat) /\ Events = 1..Len(TriggerNumbers)
  BY InputAssumption DEF Events
<1>2. ASSUME NEW k \in Events
      PROVE  RunId(k) \in EvBid /\ RunId(k).eventNumber = TriggerNumbers[k]
  <2>1. k \in 0..Len(TriggerNumbers) /\ k # 0
    BY <1>1
  <2> QED
    BY <1>1, <2>1, FactoryAfterType DEF RunId, PreviousNumber
<1>3. ASSUME NEW j \in Events, NEW k \in Events, RunId(j) = RunId(k)
      PROVE  j = k
  BY <1>1, <1>3, EvBidsNeverRepeat DEF RunId
<1> QED
  BY <1>1, <1>2, <1>3, FactoryAfterType, FactoryOfRun DEF RunFactory, RunId, EvBidOf

\* No other event has the id of event k of the run; nor, if the numbers differ,
\* any id with the number of event k.
LEMMA WhatDetermines ==
  ASSUME NEW k \in Events
  PROVE  /\ Determines(RunId(k), k)
         /\ \A id \in EvBid : NumbersDiffer /\ id.eventNumber = TriggerNumbers[k] => Determines(id, k)
BY RunFacts DEF Determines, NumbersDiffer

LEMMA FiledFacts ==
  ASSUME TypeInv, IdsInv, fsm = "Enabled"
  PROVE  /\ Filed \in Nat /\ Taken \in Nat /\ Taken <= nbTriggers
         /\ HoldsTrigger => /\ Filed = Taken - 1 /\ Taken = Filed + 1 /\ Taken \in 1..nbTriggers
                            /\ workloop.evbId = issued[Taken]
         /\ ~ HoldsTrigger => Filed = Taken
         /\ 1..nbTriggers \subseteq Events
<1>1. /\ nbTriggers \in Nat /\ Len(readoutMsgs) \in Nat /\ Len(evbIdFIFO) \in Nat
      /\ nbTriggers \in 0..Len(TriggerNumbers)
  BY IdTypes DEF TypeInv, SourceTypeOK
<1>2. Taken \in Int /\ Taken <= nbTriggers
  BY <1>1 DEF Taken
<1>3. Filed >= 0 /\ (HoldsTrigger => workloop.evbId = issued[Taken])
  BY DEF IdsInv, OrderInv
<1>4. CASE HoldsTrigger
  BY <1>1, <1>2, <1>3, <1>4 DEF Filed, Events
<1>5. CASE ~ HoldsTrigger
  BY <1>1, <1>2, <1>3, <1>5 DEF Filed, Events
<1> QED
  BY <1>4, <1>5

\* What moves ids towards the table without filing data: the number of filed events stays.
LEMMA FiledKept ==
  ASSUME TypeInv, fsm = "Enabled", fsm' = "Enabled",
         \/ IssueTrigger \/ ReceiveReadout \/ GetTrigEvBid \/ MovesNoId
         \/ \E id \in requestMsgs : ReceiveRequest(id)
  PROVE  Filed' = Filed
<1>1. /\ nbTriggers \in Nat
      /\ readoutMsgs \in Seq(EvBid) /\ Len(readoutMsgs) \in Nat
      /\ evbIdFIFO \in Seq(EvBid) /\ Len(evbIdFIFO) \in Nat
  BY IdTypes
<1>2. CASE IssueTrigger
  <2>1. /\ nbTriggers' = nbTriggers + 1 /\ UNCHANGED << evbIdFIFO, workloop >>
        /\ Len(readoutMsgs') = Len(readoutMsgs) + 1
    BY <1>1, <1>2 DEF IssueTrigger
  <2>2. Taken' = Taken
    BY <1>1, <2>1 DEF Taken
  <2> QED
    BY <2>1, <2>2 DEF Filed, HoldsTrigger
<1>3. CASE ReceiveReadout
  <2>1. /\ nbTriggers' = nbTriggers /\ UNCHANGED workloop
        /\ readoutMsgs # << >> /\ readoutMsgs' = Tail(readoutMsgs)
        /\ evbIdFIFO' = Append(evbIdFIFO, Head(readoutMsgs))
    BY <1>3 DEF ReceiveReadout, evmVars
  <2>2. Len(readoutMsgs') = Len(readoutMsgs) - 1 /\ Head(readoutMsgs) \in EvBid
    BY <1>1, <2>1
  <2>3. Len(evbIdFIFO') = Len(evbIdFIFO) + 1
    BY <1>1, <2>1, <2>2
  <2>4. Taken' = Taken
    BY <1>1, <2>1, <2>2, <2>3 DEF Taken
  <2> QED
    BY <2>1, <2>4 DEF Filed, HoldsTrigger
<1>4. CASE GetTrigEvBid
  <2>1. /\ UNCHANGED << nbTriggers, readoutMsgs >> /\ HoldsTrigger' /\ ~ HoldsTrigger
        /\ evbIdFIFO # << >> /\ evbIdFIFO' = Tail(evbIdFIFO)
    BY <1>4 DEF GetTrigEvBid, evmVars, HoldsTrigger, Errors
  <2>2. Len(evbIdFIFO') = Len(evbIdFIFO) - 1
    BY <1>1, <2>1
  <2>3. Taken' = Taken + 1
    BY <1>1, <2>1, <2>2 DEF Taken
  <2> QED
    BY <1>1, <2>1, <2>3 DEF Filed, Taken
<1>5. CASE MovesNoId
  BY <1>5 DEF MovesNoId, Filed, Taken, evmVars
<1>6. ASSUME NEW id \in requestMsgs, ReceiveRequest(id)
      PROVE  Filed' = Filed
  <2>1. UNCHANGED << nbTriggers, readoutMsgs, evbIdFIFO, workloop >>
    BY <1>6 DEF ReceiveRequest, AddRequest, evmVars, Fail
  <2> QED
    BY <2>1 DEF Filed, Taken, HoldsTrigger
<1> QED
  BY <1>2, <1>3, <1>4, <1>5, <1>6

LEMMA FilesMore ==
  ASSUME TypeInv, IdsInv, Files, fsm' = "Enabled"
  PROVE  fsm = "Enabled" /\ HoldsTrigger /\ Filed' = Filed + 1 /\ workloop' = AtTrigger
<1>1. fsm = "Enabled" /\ HoldsTrigger
  BY DEF Files, TypeInv, ControlInv, HoldsTrigger
<1>2. /\ workloop' = AtTrigger
      /\ UNCHANGED << nbTriggers, readoutMsgs, evbIdFIFO >>
  BY DEF Files, AddEvBidAndBlock, Fail, evmVars
<1>3. Filed' = Taken
  BY <1>2 DEF Filed, Taken, HoldsTrigger, AtTrigger, Errors
<1> QED
  BY <1>1, <1>2, <1>3, FiledFacts

-----------------------------------------------------------------------------
(* The data filed and sent.                                                *)

LEMMA OwnKept ==
  ASSUME TypeInv, OwnData, UNCHANGED << inputSource, data, sent, nbTriggers, issued >>
  PROVE  OwnData'
BY DEF OwnData, WholeEvent, Parts

LEMMA OwnIssue ==
  ASSUME TypeInv, OwnData, IssueTrigger
  PROVE  OwnData'
<1>1. UNCHANGED << inputSource, data, sent >> /\ nbTriggers' = nbTriggers + 1
      /\ issued' = Append(issued, GetEvBid(evmFactory, TriggerNumbers[nbTriggers + 1]))
  BY DEF IssueTrigger, tableVars
<1>2. nbTriggers \in Nat /\ issued \in Seq(EvBid) /\ Len(issued) = nbTriggers
  BY IdTypes
<1>3. \A k \in 1..nbTriggers : k \in 1..nbTriggers' /\ issued'[k] = issued[k]
  BY <1>1, <1>2
<1>4. ASSUME NEW id \in DOMAIN data'
      PROVE  \E k \in 1..nbTriggers' : issued'[k] = id /\ data'[id] = WholeEvent(k)
  <2>1. PICK k \in 1..nbTriggers : issued[k] = id /\ data[id] = WholeEvent(k)
    BY <1>1 DEF OwnData
  <2>2. data'[id] = data[id]
    BY <1>1
  <2> QED
    BY <1>3, <2>1, <2>2
<1>5. ASSUME NEW id \in DOMAIN sent'
      PROVE  \E k \in 1..nbTriggers' : issued'[k] = id /\ sent'[id] = WholeEvent(k)
  <2>1. PICK k \in 1..nbTriggers : issued[k] = id /\ sent[id] = WholeEvent(k)
    BY <1>1 DEF OwnData
  <2>2. sent'[id] = sent[id]
    BY <1>1
  <2> QED
    BY <1>3, <2>1, <2>2
<1>6. Parts' = Parts
  BY <1>1 DEF Parts
<1> QED
  BY <1>4, <1>5, <1>6 DEF OwnData, WholeEvent

LEMMA OwnRequest ==
  ASSUME TypeInv, OwnData, NEW id \in requestMsgs, ReceiveRequest(id)
  PROVE  OwnData'
<1>1. UNCHANGED << inputSource, nbTriggers, issued >>
  BY DEF ReceiveRequest, evmVars
<1>2. CASE UNCHANGED << data, sent >>
  BY <1>1, <1>2, OwnKept
<1>3. CASE id \in DOMAIN data /\ sent' = Insert(sent, id, data[id]) /\ data' = Erase(data, id)
  <2>1. \A k \in 1..nbTriggers : WholeEvent(k)' = WholeEvent(k)
    BY <1>1 DEF WholeEvent, Parts
  <2>2. \A x \in DOMAIN data' : \E k \in 1..nbTriggers : issued[k] = x /\ data'[x] = WholeEvent(k)
    BY <1>3 DEF OwnData, Erase
  <2>3. \A x \in DOMAIN sent' : \E k \in 1..nbTriggers : issued[k] = x /\ sent'[x] = WholeEvent(k)
    <3>1. \E k \in 1..nbTriggers : issued[k] = id /\ data[id] = WholeEvent(k)
      BY <1>3 DEF OwnData
    <3>2. DOMAIN sent' = DOMAIN sent \cup {id} /\ sent'[id] = data[id]
          /\ \A x \in DOMAIN sent \ {id} : sent'[x] = sent[x]
      BY <1>3 DEF Insert
    <3>3. \A x \in DOMAIN sent : \E k \in 1..nbTriggers : issued[k] = x /\ sent[x] = WholeEvent(k)
      BY DEF OwnData
    <3> QED
      BY <3>1, <3>2, <3>3
  <2> QED
    BY <1>1, <2>1, <2>2, <2>3 DEF OwnData
<1> QED
  BY <1>2, <1>3 DEF ReceiveRequest, AddRequest, tableVars

LEMMA OwnFiled ==
  ASSUME TypeInv, OwnData, NEW k \in 1..nbTriggers, AddEvBidAndBlock(issued[k], WholeEvent(k)),
         UNCHANGED << inputSource, nbTriggers, issued >>
  PROVE  OwnData'
<1> DEFINE id == issued[k]
           F  == WholeEvent(k)
<1>1. CASE UNCHANGED << data, sent >>
  BY <1>1, OwnKept
<1>2. CASE data' = Insert(data, id, F) /\ UNCHANGED sent
  BY <1>2 DEF OwnData, WholeEvent, Parts, Insert
<1>3. CASE sent' = Insert(sent, id, F) /\ UNCHANGED data
  BY <1>3 DEF OwnData, WholeEvent, Parts, Insert
<1> QED
  BY <1>1, <1>2, <1>3 DEF AddEvBidAndBlock, tableVars

-----------------------------------------------------------------------------
(* The inductive invariant, and the steps of the workloop and of the       *)
(* messages that do not touch the input.                                   *)
DataInv == RunInv /\ BlocksInv /\ KnownInv /\ AlarmInv /\ FaultlessInv /\ OwnInv

LEMMA IssueRun ==
  ASSUME TypeInv, RunInv, IssueTrigger
  PROVE  RunInv'
<1> DEFINE k == nbTriggers + 1
<1>1. /\ nbTriggers' = k /\ evmFactory' = AfterGetEvBid(evmFactory, TriggerNumbers[k])
      /\ issued' = Append(issued, GetEvBid(evmFactory, TriggerNumbers[k]))
  BY DEF IssueTrigger
<1>2. /\ nbTriggers \in Nat /\ issued \in Seq(EvBid) /\ Len(issued) = nbTriggers
      /\ k \in Events /\ k - 1 = nbTriggers
  BY InputAssumption, IdTypes DEF TypeInv, SourceTypeOK, IssueTrigger, Events
<1>3. evmFactory' = RunFactory(k) /\ GetEvBid(evmFactory, TriggerNumbers[k]) = RunId(k)
  <2>1. evmFactory = RunFactory(k - 1)
    BY <1>2 DEF RunInv
  <2> HIDE DEF k
  <2> QED
    BY <1>1, <1>2, <2>1, RunFacts
<1>4. /\ \A j \in 1..nbTriggers : issued'[j] = issued[j]
      /\ issued'[k] = RunId(k)
      /\ 1..nbTriggers' = 1..nbTriggers \cup {k}
  BY <1>1, <1>2, <1>3
<1> QED
  BY <1>1, <1>3, <1>4 DEF RunInv

\* The workloop keeps its fragments, or has none.
SameFragments ==
  /\ workloop'.fragments = workloop.fragments
  /\ workloop.fragments = {} \/ workloop'.evbId = workloop.evbId

LEMMA QuietStep ==
  ASSUME TypeInv, DataInv,
         UNCHANGED << inputSource, sourceVars, inputVars >>,
         fsm' = "Enabled" => /\ fsm = "Enabled" /\ Filed' = Filed /\ SameFragments
                             /\ workloop'.at # "MismatchDetectedBackPressuring"
                                  \/ workloop'.at = workloop.at,
         OwnData => OwnData'
  PROVE  BlocksInv' /\ KnownInv' /\ FaultlessInv' /\ OwnInv'
<1>1. UNCHANGED << nextEvent, faults, evbIdFactories, superFragmentMap, superFragmentHead,
                   blockFIFO, fedFragmentFIFOs, inputSource >>
  BY DEF sourceVars, inputVars
<1>2. BlocksInv'
  BY <1>1 DEF DataInv, BlocksInv, WholeEvent, Parts
<1>3. KnownInv'
  BY <1>1 DEF DataInv, KnownInv
<1>4. FaultlessInv'
  <2> SUFFICES ASSUME faults' = {}, fsm' = "Enabled" PROVE InStep'
    BY DEF FaultlessInv
  <2>1. InStep /\ Filed' = Filed /\ workloop'.fragments = workloop.fragments
    BY <1>1 DEF DataInv, FaultlessInv, SameFragments
  <2>2. MergedInv => MergedInv'
    BY <1>1, <2>1 DEF MergedInv, Merged
  <2>3. QueuedInv => QueuedInv'
    BY <1>1, <2>1 DEF QueuedInv, TakenFrom
  <2>4. workloop'.at # "MismatchDetectedBackPressuring"
    BY <2>1 DEF InStep
  <2> QED
    BY <1>1, <2>1, <2>2, <2>3, <2>4 DEF InStep, WholeEvent, Parts
<1>5. OwnInv'
  BY <1>1 DEF DataInv, OwnInv, IdsAreTrue, SameFragments
<1> QED
  BY <1>2, <1>3, <1>4, <1>5

LEMMA IssueData == TypeInv /\ IdsInv /\ DataInv /\ IssueTrigger => DataInv'
<1> SUFFICES ASSUME TypeInv, IdsInv, DataInv, IssueTrigger PROVE DataInv'
  OBVIOUS
<1>1. UNCHANGED << inputSource, sourceVars, inputVars, fsm, workloop >>
  BY DEF IssueTrigger, fsmVars
<1>2. BlocksInv' /\ KnownInv' /\ FaultlessInv' /\ OwnInv'
  BY <1>1, FiledKept, OwnIssue, QuietStep DEF SameFragments
<1>3. AlarmInv'
  BY <1>1 DEF DataInv, AlarmInv, sourceVars
<1> QED
  BY <1>2, <1>3, IssueRun DEF DataInv

LEMMA ReadoutData == TypeInv /\ IdsInv /\ DataInv /\ ReceiveReadout => DataInv'
<1> SUFFICES ASSUME TypeInv, IdsInv, DataInv, ReceiveReadout PROVE DataInv'
  OBVIOUS
<1>1. UNCHANGED << inputSource, sourceVars, inputVars, fsm, workloop, evmVars, data, sent >>
  BY DEF ReceiveReadout, fsmVars, tableVars
<1>2. OwnData => OwnData'
  BY <1>1, OwnKept DEF evmVars
<1>3. BlocksInv' /\ KnownInv' /\ FaultlessInv' /\ OwnInv'
  BY <1>1, <1>2, FiledKept, QuietStep DEF SameFragments
<1>4. AlarmInv' /\ RunInv'
  BY <1>1 DEF DataInv, AlarmInv, RunInv, sourceVars, evmVars
<1> QED
  BY <1>3, <1>4 DEF DataInv

LEMMA RequestData ==
  ASSUME TypeInv, IdsInv, IdsInv', DataInv, NEW id \in requestMsgs, ReceiveRequest(id)
  PROVE  DataInv'
<1>1. /\ UNCHANGED << inputSource, sourceVars, inputVars, evmVars >>
      /\ \/ UNCHANGED << fsm, workloop >>
         \/ fsm' = "Failed" /\ failure' = "duplicateRequest"
  BY DEF ReceiveRequest, AddRequest, Fail, fsmVars
<1>2. UNCHANGED << fsm, workloop >>
  BY <1>1 DEF IdsInv, TableNeverRaises
<1>3. OwnData => OwnData'
  BY OwnRequest
<1>4. BlocksInv' /\ KnownInv' /\ FaultlessInv' /\ OwnInv'
  BY <1>1, <1>2, <1>3, FiledKept, QuietStep DEF SameFragments
<1>5. AlarmInv' /\ RunInv'
  BY <1>1, <1>2 DEF DataInv, AlarmInv, RunInv, sourceVars, evmVars
<1> QED
  BY <1>4, <1>5 DEF DataInv

LEMMA GetTrigData == TypeInv /\ IdsInv /\ DataInv /\ GetTrigEvBid => DataInv'
<1> SUFFICES ASSUME TypeInv, IdsInv, DataInv, GetTrigEvBid PROVE DataInv'
  OBVIOUS
<1>1. /\ UNCHANGED << inputSource, sourceVars, inputVars, fsm, evmVars, data, sent >>
      /\ workloop.at = "trigger"
      /\ workloop'.at = "data" /\ workloop'.fragments = {}
  BY DEF GetTrigEvBid, fsmVars, tableVars
<1>2. workloop.fragments = {}
  BY <1>1 DEF DataInv, AlarmInv
<1>3. OwnData => OwnData'
  BY <1>1, OwnKept DEF evmVars
<1>4. BlocksInv' /\ KnownInv' /\ FaultlessInv' /\ OwnInv'
  BY <1>1, <1>2, <1>3, FiledKept, QuietStep DEF SameFragments
<1>5. AlarmInv' /\ RunInv'
  BY <1>1 DEF DataInv, AlarmInv, RunInv, sourceVars, evmVars
<1> QED
  BY <1>4, <1>5 DEF DataInv

LEMMA TimedOutData == TypeInv /\ IdsInv /\ DataInv /\ TimedOut => DataInv'
<1> SUFFICES ASSUME TypeInv, IdsInv, DataInv, TimedOut PROVE DataInv'
  OBVIOUS
<1>1. /\ UNCHANGED << inputSource, sourceVars, inputVars, fsm, evmVars, data, sent >>
      /\ workloop.at = "data"
      /\ workloop' = [workloop EXCEPT !.at = "TimedOutBackPressuring"]
      /\ UNCHANGED << readoutMsgs, requestMsgs, evbIdFIFO >>
  BY DEF TimedOut, BackPressure, fsmVars, tableVars
<1>2. /\ workloop'.at = "TimedOutBackPressuring"
      /\ workloop'.fragments = workloop.fragments /\ workloop'.evbId = workloop.evbId
  BY <1>1 DEF TypeInv, ControlInv, ControlTypeOK, Workloop
<1>3. OwnData => OwnData'
  BY <1>1, OwnKept DEF evmVars
<1>4. MovesNoId
  BY BackPressureMovesNoId DEF TimedOut
<1>5. BlocksInv' /\ KnownInv' /\ FaultlessInv' /\ OwnInv'
  BY <1>1, <1>2, <1>3, <1>4, FiledKept, QuietStep DEF SameFragments
<1>6. AlarmInv' /\ RunInv'
  BY <1>1, <1>2 DEF DataInv, AlarmInv, RunInv, sourceVars, evmVars
<1> QED
  BY <1>5, <1>6 DEF DataInv

LEMMA ReportData == TypeInv /\ IdsInv /\ DataInv /\ ReportError => DataInv'
<1> SUFFICES ASSUME TypeInv, IdsInv, DataInv, ReportError PROVE DataInv'
  OBVIOUS
<1>1. /\ UNCHANGED << inputSource, sourceVars, inputVars, evmVars, data, sent >>
      /\ workloop.at \in Errors /\ fsm' = workloop.at /\ workloop' = Stopped
  BY DEF ReportError, tableVars
<1>2. fsm' # "Enabled" /\ fsm' # "Failed" /\ workloop'.at = "stopped" /\ fsm = "Enabled"
  BY <1>1 DEF Errors, Stopped, TypeInv, ControlInv
<1>3. OwnData => OwnData'
  BY <1>1, OwnKept DEF evmVars
<1>4. BlocksInv' /\ KnownInv' /\ FaultlessInv' /\ OwnInv'
  BY <1>1, <1>2, <1>3, QuietStep
<1>5. AlarmInv' /\ RunInv'
  BY <1>1, <1>2 DEF DataInv, AlarmInv, FaultlessInv, InStep, RunInv, sourceVars, evmVars
<1> QED
  BY <1>4, <1>5 DEF DataInv

LEMMA StutterData == TypeInv /\ IdsInv /\ DataInv /\ UNCHANGED vars => DataInv'
<1> SUFFICES ASSUME TypeInv, IdsInv, DataInv, UNCHANGED vars PROVE DataInv'
  OBVIOUS
<1>1. UNCHANGED << inputSource, sourceVars, inputVars, fsm, workloop, evmVars, data, sent,
                   readoutMsgs, evbIdFIFO >>
  BY DEF vars, fsmVars, tableVars
<1>2. OwnData => OwnData'
  BY <1>1, OwnKept DEF evmVars
<1>3. Filed' = Filed
  BY <1>1 DEF Filed, Taken, HoldsTrigger, evmVars
<1>4. BlocksInv' /\ KnownInv' /\ FaultlessInv' /\ OwnInv'
  BY <1>1, <1>2, <1>3, QuietStep DEF SameFragments
<1>5. AlarmInv' /\ RunInv'
  BY <1>1 DEF DataInv, AlarmInv, RunInv, sourceVars, evmVars
<1> QED
  BY <1>4, <1>5 DEF DataInv

-----------------------------------------------------------------------------
(* The steps of the sources.                                               *)

\* What is common to the two ways in which a source sends the fragment of event k.
Sends(s, k) ==
  /\ s \in Active /\ k = nextEvent[s] /\ I2Ocallback(s, k)
  /\ \/ /\ nextEvent' = [nextEvent EXCEPT ![s] = IF Finishes THEN k + 1 ELSE k]
        /\ faults' = faults
     \/ Finishes /\ nextEvent' = nextEvent /\ faults' # {} /\ faults \subseteq faults'

LEMMA SendKinds ==
  ASSUME NEW s \in Sources, SendFragment(s) \/ RepeatFragment(s)
  PROVE  Sends(s, nextEvent[s])
BY DEF SendFragment, RepeatFragment, Blame, Sends

LEMMA SendFacts ==
  ASSUME TypeInv, IdsInv, DataInv, NEW s \in Sources, NEW k, Sends(s, k)
  PROVE  /\ k \in Events /\ k = nextEvent[s] /\ fsm = "Enabled"
         /\ UNCHANGED << inputSource, evmVars, data, sent >>
         /\ inputSource # "Local"
         /\ s = (IF inputSource = "FBO" THEN 0 ELSE s) /\ (inputSource # "FBO" => s \in Feds)
         /\ faults \subseteq faults'
         /\ fsm' = "Enabled" => Filed' = Filed
         /\ RunInv' /\ (OwnData => OwnData')
<1>1. I2Ocallback(s, k) /\ s \in Active /\ faults \subseteq faults' /\ k = nextEvent[s]
  BY DEF Sends
<1>2. /\ k \in Events /\ fsm = "Enabled" /\ UNCHANGED << inputSource, evmVars, data, sent >>
      /\ inputSource # "Local"
  BY <1>1 DEF I2Ocallback, tableVars
<1>3. fsm' = "Enabled" => Filed' = Filed
  BY <1>1, <1>2, CallbackMovesNoId, FiledKept
<1>4. RunInv' /\ (OwnData => OwnData')
  BY <1>2, OwnKept DEF DataInv, RunInv, evmVars
<1> QED
  BY <1>1, <1>2, <1>3, <1>4 DEF Active

LEMMA LoseData ==
  ASSUME TypeInv, IdsInv, DataInv, NEW s \in Sources, LoseFragment(s)
  PROVE  DataInv'
<1>1. /\ UNCHANGED << inputSource, evmVars, inputVars, tableVars, fsmVars, workloop >>
      /\ faults' # {} /\ faults \subseteq faults'
      /\ superFragmentHead = << >>
  BY DEF LoseFragment, Blame, Starts
<1>2. BlocksInv'
  BY <1>1 DEF DataInv, BlocksInv, inputVars, WholeEvent, Parts
<1>3. KnownInv' /\ RunInv' /\ AlarmInv'
  BY <1>1 DEF DataInv, KnownInv, RunInv, AlarmInv, inputVars, evmVars, fsmVars
<1>4. FaultlessInv'
  BY <1>1 DEF FaultlessInv
<1>5. OwnData => OwnData'
  BY <1>1, OwnKept DEF evmVars, tableVars
<1>6. OwnInv'
  BY <1>1, <1>5 DEF DataInv, OwnInv, IdsAreTrue, inputVars, fsmVars
<1> QED
  BY <1>2, <1>3, <1>4, <1>6 DEF DataInv

LEMMA StrangeData ==
  ASSUME TypeInv, IdsInv, DataInv, NEW s \in StrangeFeds, NEW k \in Events, StrangeFragment(s, k)
  PROVE  DataInv'
<1>1. s \notin Feds /\ inputSource \in {"FEROL", "FEROL2"}
  BY InputAssumption DEF StrangeFragment
<1>2. /\ UNCHANGED << inputSource, evmVars, tableVars >>
      /\ fsm' = "Failed" /\ workloop'.at = "stopped"
  BY <1>1 DEF StrangeFragment, I2Ocallback, FerolI2Ocallback, Ferol2I2Ocallback, Fail, Stopped
<1>3. /\ [source |-> s, event |-> k, kind |-> "strange"] \in faults'
      /\ faults' # {} /\ faults \subseteq faults'
  BY DEF StrangeFragment, Blame
<1>4. BlocksInv' /\ KnownInv' /\ FaultlessInv'
  BY <1>1, <1>2 DEF BlocksInv, KnownInv, FaultlessInv
<1>5. AlarmInv'
  BY <1>2, <1>3 DEF AlarmInv
<1>6. RunInv' /\ (OwnData => OwnData')
  BY <1>2, OwnKept DEF DataInv, RunInv, evmVars, tableVars
<1>7. OwnInv'
  BY <1>2, <1>3, <1>6 DEF DataInv, OwnInv, IdsAreTrue
<1> QED
  BY <1>4, <1>5, <1>6, <1>7 DEF DataInv

LEMMA FboSendData ==
  ASSUME TypeInv, IdsInv, DataInv, NEW s \in Sources, NEW k, Sends(s, k), inputSource = "FBO"
  PROVE  DataInv'
<1>1. /\ s = 0 /\ k \in Events /\ k = nextEvent[0] /\ fsm = "Enabled"
      /\ UNCHANGED << inputSource, evmVars, data, sent >>
      /\ faults \subseteq faults'
      /\ (fsm' = "Enabled" => Filed' = Filed)
      /\ RunInv' /\ (OwnData => OwnData')
  BY SendFacts
<1>2. FboI2Ocallback(k)
  BY DEF Sends, I2Ocallback
<1>3. UNCHANGED << evbIdFactories, superFragmentMap, fedFragmentFIFOs, fsmVars, workloop >>
  BY <1>2 DEF FboI2Ocallback
<1>4. AlarmInv' /\ KnownInv'
  BY <1>1, <1>3 DEF DataInv, AlarmInv, KnownInv, fsmVars
<1> DEFINE n     == Len(superFragmentHead)
           chain == Append(superFragmentHead, <<n + 1, k>>)
           entry == [evbId |-> NoEvBid, fragments |-> { chain[i] : i \in DOMAIN chain }]
<1>5. /\ superFragmentHead \in Seq(Fragments) /\ n \in Nat /\ NbBlocks \in Nat /\ n < NbBlocks
      /\ blockFIFO \in Seq(SuperFragment) /\ Len(blockFIFO) \in Nat
      /\ \A i \in 1..n : superFragmentHead[i] = <<i, k>>
  BY <1>1, InputAssumption DEF TypeInv, InputInv, InputTypeOK, FboInv, DataInv, BlocksInv
<1>6. <<n + 1, k>> \in Fragments
  BY <1>1, <1>5 DEF Fragments
<1>7. Len(chain) = n + 1 /\ DOMAIN chain = 1..(n + 1) /\ \A i \in 1..(n + 1) : chain[i] = <<i, k>>
  <2>1. Len(chain) = n + 1 /\ DOMAIN chain = 1..(n + 1) /\ chain[n + 1] = <<n + 1, k>>
        /\ \A i \in 1..n : chain[i] = superFragmentHead[i]
    BY <1>5, <1>6
  <2> QED
    BY <1>5, <2>1
<1>8. 0 \in Sources /\ nextEvent \in [Sources -> 1..(Len(TriggerNumbers) + 1)]
  BY DEF TypeInv, SourceTypeOK, Sources
<1>9. CASE n + 1 = NbBlocks
  <2>1. blockFIFO' = Append(blockFIFO, entry) /\ superFragmentHead' = << >> /\ Finishes
    BY <1>2, <1>7, <1>9 DEF FboI2Ocallback, Finishes
  <2>2. entry \in SuperFragment /\ entry.fragments = WholeEvent(k)
    <3>1. { chain[i] : i \in DOMAIN chain } = WholeEvent(k)
      BY <1>7, <1>9 DEF WholeEvent, Parts
    <3>2. WholeEvent(k) \subseteq Fragments /\ NoEvBid \in EvBid
      BY <1>1, PartsType DEF WholeEvent, NoEvBid, EvBid
    <3> QED
      BY <3>1, <3>2 DEF SuperFragment
  <2> HIDE DEF entry
  <2>3. /\ Len(blockFIFO') = Len(blockFIFO) + 1
        /\ DOMAIN blockFIFO' = DOMAIN blockFIFO \cup {Len(blockFIFO) + 1}
        /\ \A i \in DOMAIN blockFIFO : blockFIFO'[i] = blockFIFO[i]
        /\ blockFIFO'[Len(blockFIFO) + 1].fragments = WholeEvent(k)
    BY <1>5, <2>1, <2>2
  <2>4. \A e \in Events : WholeEvent(e)' = WholeEvent(e)
    BY <1>1 DEF WholeEvent, Parts
  <2>5. BlocksInv'
    <3>1. \A i \in DOMAIN blockFIFO' : \E e \in Events : blockFIFO'[i].fragments = WholeEvent(e)
      BY <1>1, <2>3 DEF DataInv, BlocksInv
    <3>2. DOMAIN superFragmentHead' = {}
      BY <2>1
    <3> QED
      BY <1>1, <2>1, <3>1, <3>2 DEF BlocksInv, WholeEvent, Parts
  <2>6. FaultlessInv'
    <3> SUFFICES ASSUME faults' = {}, fsm' = "Enabled" PROVE InStep'
      BY DEF FaultlessInv
    <3>1. InStep /\ nextEvent'[0] = k + 1
      BY <1>1, <1>8, <2>1 DEF DataInv, FaultlessInv, Sends
    <3>2. /\ k = Filed + Len(blockFIFO) + 1 /\ evbIdFactories[0] = RunFactory(Filed)
          /\ \A i \in DOMAIN blockFIFO : Filed + i \in Events /\ blockFIFO[i].fragments = WholeEvent(Filed + i)
          /\ Filed \in Nat /\ workloop.at # "MismatchDetectedBackPressuring"
      BY <1>1, <3>1, FiledFacts DEF InStep
    <3>3. \A i \in DOMAIN blockFIFO' : Filed + i \in Events /\ blockFIFO'[i].fragments = WholeEvent(Filed + i)
      <4>1. Filed + (Len(blockFIFO) + 1) = k
        BY <1>5, <3>2
      <4> QED
        BY <1>1, <2>3, <3>2, <4>1
    <3>4. nextEvent'[0] = Filed + Len(blockFIFO') + 1
      BY <1>5, <2>3, <3>1, <3>2
    <3> QED
      BY <1>1, <1>3, <3>2, <3>3, <3>4 DEF InStep, WholeEvent, Parts
  <2>7. OwnInv'
    BY <1>1 DEF DataInv, OwnInv, IdsAreTrue
  <2> QED
    BY <1>1, <1>4, <2>5, <2>6, <2>7 DEF DataInv
<1>10. CASE n + 1 # NbBlocks
  <2>1. superFragmentHead' = chain /\ UNCHANGED blockFIFO /\ ~ Finishes
    BY <1>2, <1>7, <1>10 DEF FboI2Ocallback, Finishes
  <2>2. nextEvent' = nextEvent /\ faults' = faults
    BY <1>1, <1>8, <2>1 DEF Sends
  <2>3. BlocksInv'
    BY <1>1, <1>7, <2>1, <2>2 DEF DataInv, BlocksInv, WholeEvent, Parts
  <2>4. FaultlessInv'
    BY <1>1, <1>3, <2>1, <2>2 DEF DataInv, FaultlessInv, InStep, WholeEvent, Parts, fsmVars
  <2>5. OwnInv'
    BY <1>1 DEF DataInv, OwnInv, IdsAreTrue
  <2> QED
    BY <1>1, <1>4, <2>3, <2>4, <2>5 DEF DataInv
<1> QED
  BY <1>9, <1>10

\* FEROLproxy never finds a second fragment of a FED under an id: the ids of the
\* FED's factory increase.  So a fragment of an expected FED joins the others of its
\* id, or completes them.
Arrived(id) == IF id \in DOMAIN superFragmentMap THEN superFragmentMap[id] ELSE {}

Joins(s, k, id, after) ==
  /\ id \in EvBid /\ id.eventNumber = TriggerNumbers[k]
  /\ after = Arrived(id) \cup {<<s, k>>}
  /\ evbIdFactories' = [evbIdFactories EXCEPT ![s] = AfterGetEvBid(@, TriggerNumbers[k])]
  /\ LastEvBid(evbIdFactories'[s]) = id
  /\ \A f \in Sources \ {s} : evbIdFactories'[f] = evbIdFactories[f]
  /\ EvBidLess(LastEvBid(evbIdFactories[s]), id)
  /\ UNCHANGED << fsmVars, workloop, superFragmentHead, fedFragmentFIFOs >>
  /\ \/ /\ { g[1] : g \in after } = Feds
        /\ blockFIFO' = Append(blockFIFO, [evbId |-> id, fragments |-> after])
        /\ superFragmentMap' = Erase(superFragmentMap, id)
     \/ /\ { g[1] : g \in after } # Feds
        /\ blockFIFO' = blockFIFO
        /\ superFragmentMap' = Insert(superFragmentMap, id, after)

LEMMA FerolCases ==
  ASSUME TypeInv, KnownInv, NEW s \in Feds, NEW k \in Events, NEW id,
         inputSource = "FEROL", fsm = "Enabled", FerolI2Ocallback(s, k),
         id = IdOfFragment(s, k)
  PROVE  \E after : Joins(s, k, id, after)
<1> DEFINE after == Arrived(id) \cup {<<s, k>>}
<1>1. /\ s \in Sources /\ TriggerNumbers[k] \in Nat
      /\ evbIdFactories \in [Sources -> Factory] /\ evbIdFactories[s] \in Factory
      /\ IsMap(superFragmentMap, EvBid, SUBSET Fragments)
  BY NumberType DEF Sources, TypeInv, InputInv, InputTypeOK
<1>2. /\ id = GetEvBid(evbIdFactories[s], TriggerNumbers[k]) /\ id \in EvBid
      /\ id.eventNumber = TriggerNumbers[k]
      /\ LastEvBid(AfterGetEvBid(evbIdFactories[s], TriggerNumbers[k])) = id
      /\ EvBidLess(LastEvBid(evbIdFactories[s]), id)
  BY <1>1, GetEvBidType, EvBidsStrictlyIncrease DEF IdOfFragment, GetEvBid
<1>3. /\ evbIdFactories' = [evbIdFactories EXCEPT ![s] = AfterGetEvBid(@, TriggerNumbers[k])]
      /\ UNCHANGED << superFragmentHead, fedFragmentFIFOs >>
  BY DEF FerolI2Ocallback
<1>4. /\ evbIdFactories'[s] = AfterGetEvBid(evbIdFactories[s], TriggerNumbers[k])
      /\ \A f \in Sources \ {s} : evbIdFactories'[f] = evbIdFactories[f]
  BY <1>1, <1>3
<1>5. ~ \E g \in Arrived(id) : g[1] = s
  <2> SUFFICES ASSUME NEW g \in Arrived(id), g[1] = s PROVE FALSE
    OBVIOUS
  <2>1. id \in DOMAIN superFragmentMap /\ g \in superFragmentMap[id]
    BY DEF Arrived
  <2>2. id = LastEvBid(evbIdFactories[s]) \/ EvBidLess(id, LastEvBid(evbIdFactories[s]))
    BY <2>1 DEF KnownInv
  <2>3. LastEvBid(evbIdFactories[s]) \in EvBid
    BY <1>1 DEF LastEvBid, Factory, EvBid
  <2> QED
    BY <1>2, <2>2, <2>3, EvBidLessStrict
<1>6. /\ IF { g[1] : g \in after } = Feds
         THEN /\ blockFIFO' = Append(blockFIFO, [evbId |-> id, fragments |-> after])
              /\ superFragmentMap' = Erase(superFragmentMap, id)
         ELSE /\ superFragmentMap' = Insert(superFragmentMap, id, after)
              /\ UNCHANGED blockFIFO
      /\ UNCHANGED << fsmVars, workloop >>
  BY <1>5 DEF FerolI2Ocallback, Arrived
<1>7. Joins(s, k, id, after)
  BY <1>2, <1>3, <1>4, <1>6 DEF Joins
<1> QED
  BY <1>7

\* The fragments in the map afterwards are those from before and the new one.
LEMMA FerolArrivals ==
  ASSUME NEW s, NEW k, NEW id, NEW after, Joins(s, k, id, after),
         NEW x \in DOMAIN superFragmentMap', NEW g \in superFragmentMap'[x]
  PROVE  \/ x \in DOMAIN superFragmentMap /\ g \in superFragmentMap[x]
         \/ x = id /\ g = <<s, k>>
<1>1. CASE superFragmentMap' = Erase(superFragmentMap, id)
  BY <1>1 DEF Erase
<1>2. CASE superFragmentMap' = Insert(superFragmentMap, id, after)
  <2>1. CASE x = id
    <3>1. superFragmentMap'[x] = after /\ after = Arrived(id) \cup {<<s, k>>}
      BY <1>2, <2>1 DEF Insert, Joins
    <3> QED
      BY <2>1, <3>1 DEF Arrived
  <2>2. CASE x # id
    BY <1>2, <2>2 DEF Insert
  <2> QED
    BY <2>1, <2>2
<1> QED
  BY <1>1, <1>2 DEF Joins

\* Without a fault, the event that completes is the next one for all FEDs.
LEMMA FerolInStep ==
  ASSUME TypeInv, IdsInv, KnownInv, NEW s \in Feds, NEW k \in Events, k = nextEvent[s],
         inputSource = "FEROL", fsm = "Enabled", FerolI2Ocallback(s, k),
         nextEvent' = [nextEvent EXCEPT ![s] = k + 1], inputSource' = inputSource,
         Filed' = Filed, InStep
  PROVE  InStep'
<1> DEFINE n == Merged
<1>1. PICK id : id = IdOfFragment(s, k)
  OBVIOUS
<1>2. PICK after : Joins(s, k, id, after)
  BY <1>1, FerolCases
<1>3. /\ id \in EvBid
      /\ evbIdFactories' = [evbIdFactories EXCEPT ![s] = AfterGetEvBid(@, TriggerNumbers[k])]
      /\ UNCHANGED << fsmVars, workloop, superFragmentHead, fedFragmentFIFOs >>
      /\ \/ /\ { g[1] : g \in after } = Feds
            /\ blockFIFO' = Append(blockFIFO, [evbId |-> id, fragments |-> after])
            /\ superFragmentMap' = Erase(superFragmentMap, id)
         \/ /\ { g[1] : g \in after } # Feds
            /\ blockFIFO' = blockFIFO
            /\ superFragmentMap' = Insert(superFragmentMap, id, after)
  BY <1>2 DEF Joins
<1>4. after = Arrived(id) \cup {<<s, k>>}
  BY <1>2 DEF Joins
<1>5. /\ MergedInv /\ workloop.at # "MismatchDetectedBackPressuring"
      /\ \A i \in DOMAIN blockFIFO : Filed + i \in Events /\ blockFIFO[i].fragments = WholeEvent(Filed + i)
  BY DEF InStep
<1>6. /\ s \in Sources /\ Feds \subseteq Sources /\ Events \subseteq Nat
      /\ nextEvent \in [Sources -> 1..(Len(TriggerNumbers) + 1)]
      /\ evbIdFactories \in [Sources -> Factory]
      /\ blockFIFO \in Seq(SuperFragment) /\ Len(blockFIFO) \in Nat
      /\ Filed \in Nat /\ n \in Nat
  BY FiledFacts, SMTT(60) DEF Sources, TypeInv, SourceTypeOK, InputInv, InputTypeOK, Merged, Events
<1>7. id = RunId(k) /\ evbIdFactories'[s] = RunFactory(k)
  <2>1. evbIdFactories[s] = RunFactory(k - 1)
    BY <1>5 DEF MergedInv
  <2> QED
    BY <1>1, <1>3, <1>6, <2>1, RunFacts DEF IdOfFragment
<1>8. /\ nextEvent'[s] = k + 1 /\ \A f \in Feds \ {s} : nextEvent'[f] = nextEvent[f]
      /\ \A f \in Feds : nextEvent[f] \in Nat /\ nextEvent[f] <= nextEvent'[f]
      /\ \A f \in Feds \ {s} : evbIdFactories'[f] = evbIdFactories[f]
  BY <1>3, <1>6
<1>9. \A f \in Feds : nextEvent[f] > n /\ evbIdFactories'[f] = RunFactory(nextEvent'[f] - 1)
  <2>1. (k + 1) - 1 = k
    BY <1>6
  <2> QED
    BY <1>5, <1>7, <1>8, <2>1 DEF MergedInv
<1>10. \A x \in DOMAIN superFragmentMap' : \A g \in superFragmentMap'[x] :
        g[1] \in Feds /\ x = RunId(g[2]) /\ g[2] < nextEvent'[g[1]]
  <2> SUFFICES ASSUME NEW x \in DOMAIN superFragmentMap', NEW g \in superFragmentMap'[x]
               PROVE  g[1] \in Feds /\ x = RunId(g[2]) /\ g[2] < nextEvent'[g[1]]
    OBVIOUS
  <2>1. CASE x \in DOMAIN superFragmentMap /\ g \in superFragmentMap[x]
    <3>1. g[1] \in Feds /\ x = RunId(g[2]) /\ g[2] < nextEvent[g[1]]
      BY <1>5, <2>1 DEF KnownInv, MergedInv
    <3>2. g[2] \in Nat
      <4>1. g \in Fragments
        BY <2>1 DEF TypeInv, InputInv, InputTypeOK, IsMap
      <4> QED
        BY <1>6, <4>1 DEF Fragments
    <3> QED
      BY <1>6, <1>8, <3>1, <3>2
  <2>2. CASE x = id /\ g = <<s, k>>
    BY <1>6, <1>7, <1>8, <2>2
  <2> QED
    BY <1>2, <2>1, <2>2, FerolArrivals
<1>11. \A g \in Arrived(id) : g \in Fragments /\ g[1] \in Feds /\ g[2] = k /\ k < nextEvent[g[1]] /\ g = <<g[1], k>>
  <2> SUFFICES ASSUME NEW g \in Arrived(id)
               PROVE  g \in Fragments /\ g[1] \in Feds /\ g[2] = k /\ k < nextEvent[g[1]] /\ g = <<g[1], k>>
    OBVIOUS
  <2>1. id \in DOMAIN superFragmentMap /\ g \in superFragmentMap[id]
    BY DEF Arrived
  <2>2. g \in Fragments /\ g[1] \in Feds /\ id = RunId(g[2]) /\ g[2] < nextEvent[g[1]]
    BY <1>5, <2>1 DEF KnownInv, MergedInv, TypeInv, InputInv, InputTypeOK, IsMap
  <2>3. g[2] \in Events /\ g = <<g[1], g[2]>>
    BY <2>2 DEF Fragments
  <2>4. g[2] = k
    BY <1>7, <2>2, <2>3, RunFacts
  <2> QED
    BY <2>2, <2>3, <2>4
<1>12. CASE /\ { g[1] : g \in after } = Feds
            /\ blockFIFO' = Append(blockFIFO, [evbId |-> id, fragments |-> after])
            /\ superFragmentMap' = Erase(superFragmentMap, id)
  <2>1. after = WholeEvent(k)
    <3>1. \A f \in Feds : <<f, k>> \in after
      <4> SUFFICES ASSUME NEW f \in Feds PROVE <<f, k>> \in after
        OBVIOUS
      <4>1. PICK g \in after : g[1] = f
        BY <1>12
      <4> QED
        BY <1>4, <1>11, <4>1
    <3>2. \A g \in after : g \in { <<f, k>> : f \in Feds }
      BY <1>4, <1>11
    <3>3. WholeEvent(k) = { <<f, k>> : f \in Feds }
      BY DEF WholeEvent, Parts
    <3> QED
      BY <3>1, <3>2, <3>3
  <2>2. k = n + 1
    <3>1. PICK f \in Feds : nextEvent[f] <= n + 1
      BY <1>5 DEF MergedInv
    <3>2. CASE f = s
      BY <1>6, <1>9, <3>1, <3>2
    <3>3. CASE f # s
      <4>1. PICK g \in after : g[1] = f
        BY <1>12
      <4>2. k < nextEvent[f]
        BY <1>4, <1>11, <3>3, <4>1
      <4>3. k > n
        BY <1>9
      <4> QED
        BY <1>6, <1>8, <3>1, <4>2, <4>3
    <3> QED
      BY <3>2, <3>3
  <2>3. /\ Len(blockFIFO') = Len(blockFIFO) + 1
        /\ DOMAIN blockFIFO' = DOMAIN blockFIFO \cup {Len(blockFIFO) + 1}
        /\ \A i \in DOMAIN blockFIFO : blockFIFO'[i] = blockFIFO[i]
        /\ blockFIFO'[Len(blockFIFO) + 1] = [evbId |-> id, fragments |-> after]
    <3>1. [evbId |-> id, fragments |-> after] \in SuperFragment
      <4>1. after \subseteq Fragments
        BY <1>4, <1>11 DEF Fragments
      <4> QED
        BY <1>3, <4>1 DEF SuperFragment
    <3> QED
      BY <1>6, <1>12, <3>1
  <2>4. Merged' = n + 1 /\ Filed + (Len(blockFIFO) + 1) = k
    BY <1>6, <2>2, <2>3 DEF Merged
  <2>5. \A i \in DOMAIN blockFIFO' : /\ Filed + i \in Events
                                     /\ blockFIFO'[i].fragments = WholeEvent(Filed + i)
                                     /\ blockFIFO'[i].evbId = RunId(Filed + i)
    BY <1>5, <1>7, <2>1, <2>3, <2>4 DEF MergedInv
  <2>6. \A f \in Feds : nextEvent'[f] > n + 1
    <3> SUFFICES ASSUME NEW f \in Feds PROVE nextEvent'[f] > n + 1
      OBVIOUS
    <3>1. CASE f = s
      BY <1>6, <1>8, <2>2, <3>1
    <3>2. CASE f # s
      <4>1. PICK g \in after : g[1] = f
        BY <1>12
      <4>2. k < nextEvent[f]
        BY <1>4, <1>11, <3>2, <4>1
      <4> QED
        BY <1>6, <1>8, <2>2, <4>2
    <3> QED
      BY <3>1, <3>2
  <2>7. \E f \in Feds : nextEvent'[f] <= (n + 1) + 1
    BY <1>6, <1>8, <2>2
  <2>8. ASSUME NEW f \in Feds, NEW j \in Events, n + 1 < j, j < nextEvent'[f]
        PROVE  RunId(j) \in DOMAIN superFragmentMap' /\ <<f, j>> \in superFragmentMap'[RunId(j)]
    <3>1. f # s
      BY <1>6, <1>8, <2>2, <2>8
    <3>2. n < j /\ j < nextEvent[f] /\ j # k
      BY <1>6, <1>8, <2>2, <2>8, <3>1
    <3>3. RunId(j) # id
      BY <1>7, <3>2, RunFacts
    <3>4. RunId(j) \in DOMAIN superFragmentMap /\ <<f, j>> \in superFragmentMap[RunId(j)]
      BY <1>5, <3>2 DEF MergedInv
    <3> QED
      BY <1>12, <3>3, <3>4 DEF Erase
  <2>9. MergedInv'
    BY <1>9, <1>10, <2>4, <2>5, <2>6, <2>7, <2>8 DEF MergedInv
  <2> QED
    BY <1>3, <1>5, <2>5, <2>9 DEF InStep, WholeEvent, Parts
<1>13. CASE /\ { g[1] : g \in after } # Feds
            /\ blockFIFO' = blockFIFO
            /\ superFragmentMap' = Insert(superFragmentMap, id, after)
  <2>1. Merged' = n
    BY <1>13 DEF Merged
  <2>2. /\ DOMAIN superFragmentMap' = DOMAIN superFragmentMap \cup {id}
        /\ superFragmentMap'[id] = after
        /\ \A x \in DOMAIN superFragmentMap \ {id} : superFragmentMap'[x] = superFragmentMap[x]
    BY <1>13 DEF Insert
  <2>3. \E f \in Feds : nextEvent'[f] <= n + 1
    <3>1. PICK f \in Feds : nextEvent[f] <= n + 1
      BY <1>5 DEF MergedInv
    <3>2. CASE f # s
      BY <1>8, <3>1, <3>2
    <3>3. CASE f = s
      <4> SUFFICES ASSUME \A g \in Feds : ~ (nextEvent'[g] <= n + 1) PROVE FALSE
        OBVIOUS
      <4>1. k = n + 1
        BY <1>6, <1>9, <3>1, <3>3
      <4>2. \A g \in Feds \ {s} : <<g, k>> \in Arrived(id)
        <5> SUFFICES ASSUME NEW g \in Feds \ {s} PROVE <<g, k>> \in Arrived(id)
          OBVIOUS
        <5>1. n < k /\ k < nextEvent[g]
          BY <1>6, <1>8, <4>1
        <5> QED
          BY <1>5, <1>7, <5>1 DEF MergedInv, Arrived
      <4>3. Feds \subseteq { g[1] : g \in after }
        <5> SUFFICES ASSUME NEW f1 \in Feds PROVE \E g \in after : g[1] = f1
          OBVIOUS
        <5>1. <<f1, k>> \in after
          BY <1>4, <4>2
        <5> QED
          BY <5>1
      <4>4. { g[1] : g \in after } \subseteq Feds
        BY <1>4, <1>11
      <4> QED
        BY <1>13, <4>3, <4>4
    <3> QED
      BY <3>2, <3>3
  <2>4. ASSUME NEW f \in Feds, NEW j \in Events, n < j, j < nextEvent'[f]
        PROVE  RunId(j) \in DOMAIN superFragmentMap' /\ <<f, j>> \in superFragmentMap'[RunId(j)]
    <3>1. CASE f = s /\ j = k
      BY <1>4, <1>7, <2>2, <3>1
    <3>2. CASE ~ (f = s /\ j = k)
      <4>1. j < nextEvent[f]
        BY <1>6, <1>8, <2>4, <3>2
      <4>2. RunId(j) \in DOMAIN superFragmentMap /\ <<f, j>> \in superFragmentMap[RunId(j)]
        BY <1>5, <2>4, <4>1 DEF MergedInv
      <4> QED
        BY <1>4, <2>2, <4>2 DEF Arrived
    <3> QED
      BY <3>1, <3>2
  <2>5. \A f \in Feds : nextEvent'[f] > n
    BY <1>6, <1>8, <1>9
  <2>6. MergedInv'
    BY <1>5, <1>9, <1>10, <1>13, <2>1, <2>3, <2>4, <2>5 DEF MergedInv
  <2> QED
    BY <1>3, <1>5, <1>13, <2>6 DEF InStep, WholeEvent, Parts
<1> QED
  BY <1>3, <1>12, <1>13

LEMMA FerolSendData ==
  ASSUME TypeInv, IdsInv, DataInv, NEW s \in Sources, NEW k, Sends(s, k), inputSource = "FEROL"
  PROVE  DataInv'
<1>1. /\ s \in Feds /\ k \in Events /\ k = nextEvent[s] /\ fsm = "Enabled"
      /\ UNCHANGED << inputSource, evmVars, data, sent >>
      /\ faults \subseteq faults'
      /\ (fsm' = "Enabled" => Filed' = Filed)
      /\ RunInv' /\ (OwnData => OwnData')
  BY SendFacts
<1>2. /\ FerolI2Ocallback(s, k)
      /\ \/ nextEvent' = [nextEvent EXCEPT ![s] = k + 1] /\ faults' = faults
         \/ faults' # {}
  BY DEF Sends, I2Ocallback, Finishes
<1>3. KnownInv
  BY DEF DataInv
<1>4. PICK id : id = IdOfFragment(s, k)
  OBVIOUS
<1>5. PICK after : Joins(s, k, id, after)
  BY <1>1, <1>2, <1>3, <1>4, FerolCases
<1>6. /\ id \in EvBid /\ id.eventNumber = TriggerNumbers[k]
      /\ after = Arrived(id) \cup {<<s, k>>}
      /\ LastEvBid(evbIdFactories'[s]) = id
      /\ \A f \in Sources \ {s} : evbIdFactories'[f] = evbIdFactories[f]
      /\ EvBidLess(LastEvBid(evbIdFactories[s]), id)
      /\ UNCHANGED << fsmVars, workloop >>
  BY <1>5 DEF Joins
<1>7. BlocksInv' /\ AlarmInv'
  BY <1>1, <1>6 DEF DataInv, BlocksInv, AlarmInv, fsmVars
<1>8. KnownInv'
  <2> SUFFICES ASSUME NEW x \in DOMAIN superFragmentMap', NEW g \in superFragmentMap'[x]
               PROVE  /\ g[1] \in Feds
                      /\ \/ x = LastEvBid(evbIdFactories'[g[1]])
                         \/ EvBidLess(x, LastEvBid(evbIdFactories'[g[1]]))
    BY DEF KnownInv
  <2>1. CASE x = id /\ g = <<s, k>>
    BY <1>1, <1>6, <2>1
  <2>2. CASE x \in DOMAIN superFragmentMap /\ g \in superFragmentMap[x]
    <3>1. /\ g[1] \in Feds
          /\ x = LastEvBid(evbIdFactories[g[1]]) \/ EvBidLess(x, LastEvBid(evbIdFactories[g[1]]))
      BY <1>1, <1>3, <2>2 DEF KnownInv
    <3>2. CASE g[1] # s
      BY <1>6, <3>1, <3>2 DEF Sources
    <3>3. CASE g[1] = s
      <4>1. x \in EvBid /\ LastEvBid(evbIdFactories[s]) \in EvBid
        BY <2>2 DEF TypeInv, InputInv, InputTypeOK, IsMap, LastEvBid, Factory, EvBid
      <4>2. EvBidLess(x, id)
        BY <1>6, <3>1, <3>3, <4>1, EvBidLessStrict
      <4> QED
        BY <1>6, <3>1, <3>3, <4>2
    <3> QED
      BY <3>2, <3>3
  <2> QED
    BY <1>5, <2>1, <2>2, FerolArrivals
<1>9. FaultlessInv'
  <2> SUFFICES ASSUME faults' = {}, fsm' = "Enabled" PROVE InStep'
    BY DEF FaultlessInv
  <2>1. nextEvent' = [nextEvent EXCEPT ![s] = k + 1] /\ InStep /\ Filed' = Filed
    BY <1>1, <1>2 DEF DataInv, FaultlessInv
  <2> QED
    BY <1>1, <1>2, <1>3, <2>1, FerolInStep
<1>10. OwnInv'
  <2> SUFFICES ASSUME IdsAreTrue' PROVE OwnInv'
    BY DEF OwnInv
  <2>1. IdsAreTrue /\ OwnInv /\ OwnData'
    BY <1>1 DEF IdsAreTrue, DataInv, OwnInv
  <2>2. Determines(id, k)
    <3>1. CASE faults = {}
      <4>1. evbIdFactories[s] = RunFactory(k - 1)
        BY <1>1, <3>1 DEF DataInv, FaultlessInv, InStep, MergedInv
      <4>2. id = RunId(k)
        BY <1>1, <1>4, <4>1, RunFacts DEF IdOfFragment
      <4> QED
        BY <1>1, <4>2, WhatDetermines
    <3>2. CASE NumbersDiffer
      BY <1>1, <1>6, <3>2, WhatDetermines
    <3> QED
      BY <2>1, <3>1, <3>2 DEF IdsAreTrue
  <2>3. /\ \A x \in DOMAIN superFragmentMap : \A g \in superFragmentMap[x] : Determines(x, g[2])
        /\ \A i \in DOMAIN blockFIFO :
             /\ { g[1] : g \in blockFIFO[i].fragments } = Feds
             /\ \A g \in blockFIFO[i].fragments : Determines(blockFIFO[i].evbId, g[2])
    BY <1>1, <2>1 DEF OwnInv
  <2>4. \A x \in DOMAIN superFragmentMap' : \A g \in superFragmentMap'[x] : Determines(x, g[2])
    BY <1>5, <2>2, <2>3, FerolArrivals
  <2>5. \A i \in DOMAIN blockFIFO' :
          /\ { g[1] : g \in blockFIFO'[i].fragments } = Feds
          /\ \A g \in blockFIFO'[i].fragments : Determines(blockFIFO'[i].evbId, g[2])
    <3>1. CASE blockFIFO' = blockFIFO
      BY <2>3, <3>1
    <3>2. CASE /\ { g[1] : g \in after } = Feds
               /\ blockFIFO' = Append(blockFIFO, [evbId |-> id, fragments |-> after])
      <4>1. \A g \in after : Determines(id, g[2])
        BY <1>6, <2>2, <2>3 DEF Arrived
      <4>2. [evbId |-> id, fragments |-> after] \in SuperFragment
        <5>1. Arrived(id) \subseteq Fragments
          BY DEF Arrived, TypeInv, InputInv, InputTypeOK, IsMap
        <5>2. <<s, k>> \in Fragments
          BY <1>1 DEF Fragments
        <5> QED
          BY <1>6, <5>1, <5>2 DEF SuperFragment
      <4>3. blockFIFO \in Seq(SuperFragment)
        BY DEF TypeInv, InputInv, InputTypeOK
      <4>4. /\ DOMAIN blockFIFO' = DOMAIN blockFIFO \cup {Len(blockFIFO) + 1}
            /\ \A i \in DOMAIN blockFIFO : blockFIFO'[i] = blockFIFO[i]
            /\ blockFIFO'[Len(blockFIFO) + 1] = [evbId |-> id, fragments |-> after]
        BY <3>2, <4>2, <4>3
      <4> QED
        BY <2>3, <3>2, <4>1, <4>4
    <3> QED
      BY <1>5, <3>1, <3>2 DEF Joins
  <2> QED
    BY <1>1, <2>1, <2>4, <2>5 DEF OwnInv
<1> QED
  BY <1>1, <1>7, <1>8, <1>9, <1>10 DEF DataInv

LEMMA Ferol2SendData ==
  ASSUME TypeInv, IdsInv, DataInv, NEW s \in Sources, NEW k, Sends(s, k), inputSource = "FEROL2"
  PROVE  DataInv'
<1>1. /\ s \in Feds /\ k \in Events /\ k = nextEvent[s] /\ fsm = "Enabled"
      /\ UNCHANGED << inputSource, evmVars, data, sent >>
      /\ faults \subseteq faults'
      /\ (fsm' = "Enabled" => Filed' = Filed)
      /\ RunInv' /\ (OwnData => OwnData')
  BY SendFacts
<1>2. /\ Ferol2I2Ocallback(s, k)
      /\ \/ nextEvent' = [nextEvent EXCEPT ![s] = k + 1] /\ faults' = faults
         \/ faults' # {}
  BY <1>1 DEF Sends, I2Ocallback, Finishes
<1>3. /\ fedFragmentFIFOs' = [fedFragmentFIFOs EXCEPT ![s] = Append(@, k)]
      /\ UNCHANGED << fsmVars, workloop, evbIdFactories, superFragmentMap, superFragmentHead, blockFIFO >>
  BY <1>1, <1>2 DEF Ferol2I2Ocallback
<1>4. BlocksInv' /\ AlarmInv' /\ KnownInv'
  BY <1>1, <1>3 DEF DataInv, BlocksInv, AlarmInv, KnownInv, fsmVars
<1>5. OwnInv'
  BY <1>1, <1>3 DEF DataInv, OwnInv, IdsAreTrue, fsmVars
<1>6. FaultlessInv'
  <2> SUFFICES ASSUME faults' = {}, fsm' = "Enabled" PROVE InStep'
    BY DEF FaultlessInv
  <2>1. nextEvent' = [nextEvent EXCEPT ![s] = k + 1] /\ InStep /\ Filed' = Filed /\ QueuedInv
    BY <1>1, <1>2 DEF DataInv, FaultlessInv, InStep
  <2>2. /\ s \in Sources /\ Feds \subseteq Sources
        /\ nextEvent \in [Sources -> 1..(Len(TriggerNumbers) + 1)]
        /\ fedFragmentFIFOs \in [Sources -> Seq(Events)]
        /\ Filed \in Nat /\ k \in Nat
    BY <1>1, FiledFacts DEF Sources, TypeInv, SourceTypeOK, InputInv, InputTypeOK, Events
  <2>3. QueuedInv'
    <3> SUFFICES ASSUME NEW f \in Feds
                 PROVE  /\ evbIdFactories'[f] = RunFactory(TakenFrom(f)')
                        /\ nextEvent'[f] = TakenFrom(f)' + Len(fedFragmentFIFOs'[f]) + 1
                        /\ \A i \in DOMAIN fedFragmentFIFOs'[f] : fedFragmentFIFOs'[f][i] = TakenFrom(f)' + i
      BY DEF QueuedInv
    <3>1. PICK t \in Nat : t = TakenFrom(f)
      <4>1. TakenFrom(f) \in {Filed, Filed + 1}
        BY DEF TakenFrom
      <4> QED
        BY <2>2, <4>1
    <3>2. TakenFrom(f)' = t
      BY <1>3, <2>1, <3>1 DEF TakenFrom
    <3>3. PICK q \in Seq(Events) : q = fedFragmentFIFOs[f]
      BY <2>2
    <3>4. /\ evbIdFactories[f] = RunFactory(t) /\ nextEvent[f] = t + Len(q) + 1
          /\ \A i \in DOMAIN q : q[i] = t + i
      BY <2>1, <3>1, <3>3 DEF QueuedInv
    <3>5. CASE f # s
      <4>1. fedFragmentFIFOs'[f] = q /\ nextEvent'[f] = nextEvent[f]
        BY <1>3, <2>1, <2>2, <3>3, <3>5
      <4> QED
        BY <1>3, <3>2, <3>4, <4>1
    <3>6. CASE f = s
      <4>1. fedFragmentFIFOs'[f] = Append(q, k) /\ nextEvent'[f] = k + 1
        BY <1>3, <2>1, <2>2, <3>3, <3>6
      <4>2. k = t + (Len(q) + 1) /\ Len(q) \in Nat
        BY <1>1, <3>4, <3>6
      <4>3. /\ Len(Append(q, k)) = Len(q) + 1
            /\ DOMAIN Append(q, k) = DOMAIN q \cup {Len(q) + 1}
            /\ \A i \in DOMAIN q : Append(q, k)[i] = q[i]
            /\ Append(q, k)[Len(q) + 1] = k
        BY <1>1
      <4>4. \A i \in DOMAIN Append(q, k) : Append(q, k)[i] = t + i
        BY <3>4, <4>2, <4>3
      <4>5. k + 1 = t + Len(Append(q, k)) + 1
        BY <4>2, <4>3
      <4> QED
        BY <1>3, <3>2, <3>4, <4>1, <4>4, <4>5
    <3> QED
      BY <3>5, <3>6
  <2> QED
    BY <1>1, <1>3, <2>1, <2>3 DEF InStep
<1> QED
  BY <1>1, <1>4, <1>5, <1>6 DEF DataInv

-----------------------------------------------------------------------------
(* The steps of the workloop that take data.                               *)

LEMMA AtDataFacts ==
  ASSUME TypeInv, IdsInv, DataInv, workloop.at = "data"
  PROVE  /\ fsm = "Enabled" /\ HoldsTrigger
         /\ Filed \in Nat /\ Taken = Filed + 1 /\ Filed = Taken - 1
         /\ Taken \in 1..nbTriggers /\ Taken \in Events
         /\ workloop.evbId = issued[Taken] /\ workloop.evbId = RunId(Taken)
<1>1. fsm = "Enabled" /\ HoldsTrigger
  BY DEF TypeInv, ControlInv, HoldsTrigger
<1> QED
  BY <1>1, FiledFacts DEF DataInv, RunInv

\* What the workloop files is never filed already, so it goes on to the next trigger.
LEMMA FilesNotFails ==
  ASSUME TypeInv, IdsInv', NEW F, AddEvBidAndBlock(workloop.evbId, F)
  PROVE  UNCHANGED fsmVars /\ workloop' = AtTrigger
BY DEF AddEvBidAndBlock, Fail, IdsInv, TableNeverRaises

\* What is at the head of blockFIFO.
LEMMA HeadFacts ==
  ASSUME TypeInv, IdsInv, DataInv, workloop.at = "data", inputSource \in {"FBO", "FEROL"},
         NEW entry, blockFIFO # << >>, entry = Head(blockFIFO)
  PROVE  /\ 1 \in DOMAIN blockFIFO /\ entry = blockFIFO[1] /\ entry.fragments \in SUBSET Fragments
         /\ faults = {} => IdOfHead(entry) = RunId(Taken) /\ entry.fragments = WholeEvent(Taken)
         /\ IdsAreTrue /\ IdOfHead(entry) = workloop.evbId => entry.fragments = WholeEvent(Taken)
         /\ inputSource = "FBO" => \E k \in Events : IdOfHead(entry) = GetEvBid(evbIdFactories[0], TriggerNumbers[k])
<1>1. blockFIFO \in Seq(SuperFragment) /\ 1 \in DOMAIN blockFIFO /\ entry = blockFIFO[1]
  BY DEF TypeInv, InputInv, InputTypeOK
<1>2. entry \in SuperFragment
  BY <1>1
<1>3. entry.fragments \in SUBSET Fragments
  BY <1>2 DEF SuperFragment
<1>4. /\ fsm = "Enabled" /\ Filed \in Nat /\ Taken = Filed + 1 /\ Filed = Taken - 1
      /\ Taken \in Events /\ workloop.evbId = RunId(Taken)
  BY AtDataFacts
<1>5. faults = {} => InStep
  BY <1>4 DEF DataInv, FaultlessInv
<1>6. faults = {} => entry.fragments = WholeEvent(Taken)
  BY <1>1, <1>4, <1>5 DEF InStep
<1>7. CASE inputSource = "FBO"
  <2>1. PICK k \in Events : entry.fragments = WholeEvent(k)
    BY <1>1, <1>7 DEF DataInv, BlocksInv
  <2>2. \A j, e \in Events : <<1, e>> \in WholeEvent(j) <=> e = j
    <3>1. 1 \in 1..NbBlocks
      BY InputAssumption
    <3> QED
      BY <1>7, <3>1 DEF WholeEvent, Parts
  <2>3. (CHOOSE e \in Events : <<1, e>> \in entry.fragments) = k
    BY <2>1, <2>2
  <2>4. IdOfHead(entry) = GetEvBid(evbIdFactories[0], TriggerNumbers[k])
    BY <1>7, <2>3 DEF IdOfHead
  <2>5. faults = {} => k = Taken
    BY <1>4, <1>6, <2>1, <2>2
  <2>6. faults = {} => IdOfHead(entry) = RunId(Taken)
    <3>1. faults = {} => evbIdFactories[0] = RunFactory(Taken - 1)
      BY <1>4, <1>5, <1>7 DEF InStep
    <3> QED
      BY <1>4, <2>4, <2>5, <3>1, RunFacts
  <2>7. ASSUME NumbersDiffer, IdOfHead(entry) = RunId(Taken)
        PROVE  k = Taken
    <3>1. TriggerNumbers[k] = TriggerNumbers[Taken]
      BY <1>4, <2>4, <2>7, RunFacts DEF GetEvBid
    <3> QED
      BY <1>4, <2>7, <3>1 DEF NumbersDiffer
  <2> QED
    BY <1>1, <1>3, <1>4, <1>6, <2>1, <2>4, <2>5, <2>6, <2>7 DEF IdsAreTrue
<1>8. CASE inputSource = "FEROL"
  <2>1. IdOfHead(entry) = entry.evbId
    BY <1>8 DEF IdOfHead
  <2>2. faults = {} => IdOfHead(entry) = RunId(Taken)
    BY <1>1, <1>4, <1>5, <1>8, <2>1 DEF InStep, MergedInv
  <2>3. ASSUME IdsAreTrue, IdOfHead(entry) = RunId(Taken)
        PROVE  entry.fragments = WholeEvent(Taken)
    <3>1. /\ { g[1] : g \in entry.fragments } = Feds
          /\ \A g \in entry.fragments : Determines(entry.evbId, g[2])
      BY <1>1, <1>4, <1>8, <2>3 DEF DataInv, OwnInv
    <3>2. \A g \in entry.fragments : g = <<g[1], Taken>> /\ g[1] \in Feds
      <4> SUFFICES ASSUME NEW g \in entry.fragments PROVE g = <<g[1], Taken>> /\ g[1] \in Feds
        OBVIOUS
      <4>1. g[2] = Taken
        BY <1>4, <2>1, <2>3, <3>1 DEF Determines
      <4>2. g \in Fragments
        BY <1>3
      <4>3. g = <<g[1], g[2]>>
        BY <4>2 DEF Fragments
      <4> QED
        BY <3>1, <4>1, <4>3
    <3>3. \A f \in Feds : <<f, Taken>> \in entry.fragments
      <4> SUFFICES ASSUME NEW f \in Feds PROVE <<f, Taken>> \in entry.fragments
        OBVIOUS
      <4>1. PICK g \in entry.fragments : g[1] = f
        BY <3>1
      <4> QED
        BY <3>2, <4>1
    <3>4. WholeEvent(Taken) = { <<f, Taken>> : f \in Feds }
      BY <1>8 DEF WholeEvent, Parts
    <3> QED
      BY <3>2, <3>3, <3>4
  <2> QED
    BY <1>1, <1>3, <1>4, <1>6, <1>8, <2>2, <2>3
<1> QED
  BY <1>7, <1>8

LEMMA GetDataData == TypeInv /\ IdsInv /\ IdsInv' /\ DataInv /\ GetData => DataInv'
<1> SUFFICES ASSUME TypeInv, IdsInv, IdsInv', DataInv, GetData PROVE DataInv'
  OBVIOUS
<1>1. PICK entry : entry = Head(blockFIFO)
  OBVIOUS
<1>2. PICK id : id = IdOfHead(entry)
  OBVIOUS
<1>3. /\ workloop.at = "data" /\ inputSource \in {"FBO", "FEROL"} /\ blockFIFO # << >>
      /\ IF id = workloop.evbId
         THEN AddEvBidAndBlock(workloop.evbId, entry.fragments)
         ELSE BackPressure("MismatchDetectedBackPressuring")
      /\ evbIdFactories' =
           IF inputSource = "FBO"
           THEN [evbIdFactories EXCEPT ![0] = AfterGetEvBid(@, id.eventNumber)]
           ELSE evbIdFactories
      /\ blockFIFO' = Tail(blockFIFO)
      /\ UNCHANGED << inputSource, evmVars, sourceVars, superFragmentMap, superFragmentHead, fedFragmentFIFOs,
                      readoutMsgs, requestMsgs, evbIdFIFO >>
  BY <1>1, <1>2 DEF GetData, MatchesTrigger
<1>4. /\ fsm = "Enabled" /\ Filed \in Nat /\ Taken = Filed + 1
      /\ Taken \in 1..nbTriggers /\ Taken \in Events
      /\ workloop.evbId = issued[Taken] /\ workloop.evbId = RunId(Taken)
  BY <1>3, AtDataFacts
<1>5. /\ 1 \in DOMAIN blockFIFO /\ entry = blockFIFO[1] /\ entry.fragments \in SUBSET Fragments
      /\ faults = {} => id = RunId(Taken)
      /\ IdsAreTrue /\ id = workloop.evbId => entry.fragments = WholeEvent(Taken)
  BY <1>1, <1>2, <1>3, HeadFacts
<1>6. /\ blockFIFO \in Seq(SuperFragment) /\ Len(blockFIFO) \in Nat
      /\ evbIdFactories \in [Sources -> Factory] /\ 0 \in Sources
  BY DEF TypeInv, InputInv, InputTypeOK, Sources
<1>7. /\ Len(blockFIFO') = Len(blockFIFO) - 1
      /\ \A i \in DOMAIN blockFIFO' : i \in Nat /\ i + 1 \in DOMAIN blockFIFO /\ blockFIFO'[i] = blockFIFO[i + 1]
  BY <1>3, <1>6
<1>8. BlocksInv'
  BY <1>3, <1>7 DEF DataInv, BlocksInv, sourceVars, WholeEvent, Parts
<1>9. RunInv'
  BY <1>3 DEF DataInv, RunInv, evmVars
<1>10. CASE id = workloop.evbId
  <2>1. AddEvBidAndBlock(workloop.evbId, entry.fragments)
    BY <1>3, <1>10
  <2>2. fsm' = fsm /\ workloop' = AtTrigger /\ Files
    BY <1>3, <1>5, <2>1, FilesNotFails DEF Files, fsmVars
  <2>3. Filed' = Filed + 1
    BY <1>4, <2>2, FilesMore
  <2>4. AlarmInv' /\ KnownInv'
    BY <1>3, <2>2 DEF DataInv, AlarmInv, KnownInv, AtTrigger, sourceVars
  <2>5. FaultlessInv'
    <3> SUFFICES ASSUME faults' = {} PROVE InStep'
      BY DEF FaultlessInv
    <3>1. InStep
      BY <1>3, <1>4 DEF DataInv, FaultlessInv, sourceVars
    <3>2. \A i \in DOMAIN blockFIFO' : Filed + (i + 1) = Filed' + i
      BY <1>4, <1>7, <2>3
    <3>3. \A i \in DOMAIN blockFIFO' :
            Filed' + i \in Events /\ blockFIFO'[i].fragments = WholeEvent(Filed' + i)
      <4>1. \A i \in DOMAIN blockFIFO : Filed + i \in Events /\ blockFIFO[i].fragments = WholeEvent(Filed + i)
        BY <1>3, <3>1 DEF InStep
      <4> QED
        BY <1>7, <3>2, <4>1
    <3>4. inputSource = "FBO" => /\ evbIdFactories'[0] = RunFactory(Filed')
                                 /\ nextEvent'[0] = Filed' + Len(blockFIFO') + 1
      <4> SUFFICES ASSUME inputSource = "FBO"
                   PROVE  /\ evbIdFactories'[0] = RunFactory(Filed')
                          /\ nextEvent'[0] = Filed' + Len(blockFIFO') + 1
        OBVIOUS
      <4>1. evbIdFactories[0] = RunFactory(Taken - 1) /\ nextEvent[0] = Filed + Len(blockFIFO) + 1
        BY <1>4, <3>1 DEF InStep
      <4>2. id.eventNumber = TriggerNumbers[Taken]
        BY <1>4, <1>10, RunFacts
      <4>3. evbIdFactories'[0] = AfterGetEvBid(RunFactory(Taken - 1), TriggerNumbers[Taken])
        BY <1>3, <1>6, <4>1, <4>2
      <4>4. evbIdFactories'[0] = RunFactory(Taken)
        BY <1>4, <4>3, RunFacts
      <4> QED
        BY <1>3, <1>4, <1>6, <1>7, <2>3, <4>1, <4>4 DEF sourceVars
    <3>5. inputSource = "FEROL" => MergedInv'
      <4> SUFFICES ASSUME inputSource = "FEROL" PROVE MergedInv'
        OBVIOUS
      <4>1. MergedInv /\ Merged' = Merged
        BY <1>4, <1>6, <1>7, <2>3, <3>1 DEF InStep, Merged
      <4>2. \A i \in DOMAIN blockFIFO' : blockFIFO'[i].evbId = RunId(Filed' + i)
        <5>1. \A i \in DOMAIN blockFIFO : blockFIFO[i].evbId = RunId(Filed + i)
          BY <4>1 DEF MergedInv
        <5> QED
          BY <1>7, <3>2, <5>1
      <4> QED
        BY <1>3, <4>1, <4>2 DEF MergedInv, sourceVars
    <3> QED
      BY <1>3, <2>2, <3>3, <3>4, <3>5 DEF InStep, AtTrigger, WholeEvent, Parts
  <2>6. OwnInv'
    <3> SUFFICES ASSUME IdsAreTrue' PROVE OwnInv'
      BY DEF OwnInv
    <3>1. IdsAreTrue /\ OwnInv
      BY <1>3 DEF IdsAreTrue, DataInv, sourceVars
    <3>2. OwnData'
      <4>1. AddEvBidAndBlock(issued[Taken], WholeEvent(Taken)) /\ OwnData
        BY <1>4, <1>5, <1>10, <2>1, <3>1 DEF OwnInv
      <4> QED
        BY <1>3, <1>4, <4>1, OwnFiled DEF evmVars
    <3> QED
      BY <1>3, <1>4, <1>7, <2>2, <3>1, <3>2 DEF OwnInv, AtTrigger
  <2> QED
    BY <1>8, <1>9, <2>4, <2>5, <2>6 DEF DataInv
<1>11. CASE id # workloop.evbId
  <2>1. BackPressure("MismatchDetectedBackPressuring") /\ faults # {}
    BY <1>3, <1>4, <1>5, <1>11
  <2>2. /\ workloop' = [workloop EXCEPT !.at = "MismatchDetectedBackPressuring"]
        /\ UNCHANGED << fsm, data, sent >>
    BY <2>1 DEF BackPressure, fsmVars, tableVars
  <2>3. workloop'.at = "MismatchDetectedBackPressuring" /\ faults' = faults
    BY <1>3, <2>2, ErrorType DEF Errors, TypeInv, ControlInv, ControlTypeOK, sourceVars
  <2>4. AlarmInv' /\ KnownInv' /\ FaultlessInv'
    BY <1>3, <1>4, <2>1, <2>2, <2>3 DEF DataInv, AlarmInv, KnownInv, FaultlessInv
  <2>5. OwnData => OwnData'
    BY <1>3, <2>2, OwnKept DEF evmVars
  <2>6. OwnInv'
    BY <1>3, <1>4, <1>7, <2>2, <2>3, <2>5 DEF DataInv, OwnInv, IdsAreTrue
  <2> QED
    BY <1>8, <1>9, <2>4, <2>6 DEF DataInv
<1> QED
  BY <1>10, <1>11

\* Without a fault, the workloop that takes the next fragment of a FED finds the
\* fragment of its trigger, and is then one event further with this FED.
LEMMA QueuedNext ==
  ASSUME TypeInv, NEW f \in Feds, NEW k \in Events, QueuedInv, Filed \in Nat,
         fedFragmentFIFOs[f] # << >>, k = Head(fedFragmentFIFOs[f]), TakenFrom(f) = Filed,
         evbIdFactories' = [evbIdFactories EXCEPT ![f] = AfterGetEvBid(@, TriggerNumbers[k])],
         fedFragmentFIFOs' = [fedFragmentFIFOs EXCEPT ![f] = Tail(@)],
         nextEvent' = nextEvent
  PROVE  /\ k = Filed + 1 /\ IdOfFragment(f, k) = RunId(k)
         /\ TakenFrom(f)' = Filed + 1 /\ (\A x \in Feds \ {f} : TakenFrom(x)' = TakenFrom(x)) => QueuedInv'
<1>1. /\ f \in Sources /\ Feds \subseteq Sources
      /\ evbIdFactories \in [Sources -> Factory] /\ fedFragmentFIFOs \in [Sources -> Seq(Events)]
  BY DEF Sources, TypeInv, InputInv, InputTypeOK
<1>2. PICK q \in Seq(Events) : q = fedFragmentFIFOs[f]
  BY <1>1
<1>3. /\ evbIdFactories[f] = RunFactory(Filed) /\ nextEvent[f] = Filed + Len(q) + 1
      /\ \A i \in DOMAIN q : q[i] = Filed + i
  BY <1>2 DEF QueuedInv
<1>4. /\ 1 \in DOMAIN q /\ k = q[1] /\ Len(Tail(q)) = Len(q) - 1 /\ Len(q) \in Nat
      /\ \A i \in DOMAIN Tail(q) : i \in Nat /\ i + 1 \in DOMAIN q /\ Tail(q)[i] = q[i + 1]
  BY <1>2
<1>5. k = Filed + 1 /\ k - 1 = Filed
  BY <1>3, <1>4
<1>6. IdOfFragment(f, k) = RunId(k) /\ AfterGetEvBid(evbIdFactories[f], TriggerNumbers[k]) = RunFactory(k)
  <2>1. evbIdFactories[f] = RunFactory(k - 1)
    BY <1>3, <1>5
  <2> QED
    BY <2>1, RunFacts DEF IdOfFragment
<1>7. ASSUME TakenFrom(f)' = Filed + 1, \A x \in Feds \ {f} : TakenFrom(x)' = TakenFrom(x)
      PROVE  QueuedInv'
  <2> SUFFICES ASSUME NEW x \in Feds
               PROVE  /\ evbIdFactories'[x] = RunFactory(TakenFrom(x)')
                      /\ nextEvent'[x] = TakenFrom(x)' + Len(fedFragmentFIFOs'[x]) + 1
                      /\ \A i \in DOMAIN fedFragmentFIFOs'[x] : fedFragmentFIFOs'[x][i] = TakenFrom(x)' + i
    BY DEF QueuedInv
  <2>1. CASE x = f
    <3>1. TakenFrom(x)' = k
      BY <1>5, <1>7, <2>1
    <3>2. fedFragmentFIFOs'[x] = Tail(q) /\ evbIdFactories'[x] = RunFactory(k)
      BY <1>1, <1>2, <1>6, <2>1
    <3>3. nextEvent'[x] = k + Len(Tail(q)) + 1
      BY <1>3, <1>4, <1>5, <2>1
    <3>4. \A i \in DOMAIN Tail(q) : Tail(q)[i] = k + i
      <4>1. \A i \in DOMAIN Tail(q) : Filed + (i + 1) = k + i
        BY <1>4, <1>5
      <4> QED
        BY <1>3, <1>4, <4>1
    <3> QED
      BY <3>1, <3>2, <3>3, <3>4
  <2>2. CASE x # f
    <3>1. PICK t : t = TakenFrom(x)
      OBVIOUS
    <3>2. TakenFrom(x)' = t
      BY <1>7, <2>2, <3>1
    <3>3. fedFragmentFIFOs'[x] = fedFragmentFIFOs[x] /\ evbIdFactories'[x] = evbIdFactories[x]
      BY <1>1, <2>2
    <3>4. /\ evbIdFactories[x] = RunFactory(t) /\ nextEvent[x] = t + Len(fedFragmentFIFOs[x]) + 1
          /\ \A i \in DOMAIN fedFragmentFIFOs[x] : fedFragmentFIFOs[x][i] = t + i
      BY <3>1 DEF QueuedInv
    <3> QED
      BY <3>2, <3>3, <3>4
  <2> QED
    BY <2>1, <2>2
<1> QED
  BY <1>5, <1>6, <1>7

LEMMA GetNextFragmentData ==
  ASSUME TypeInv, IdsInv, IdsInv', DataInv, NEW f \in Feds, GetNextFragment(f)
  PROVE  DataInv'
<1>1. PICK k : k = Head(fedFragmentFIFOs[f])
  OBVIOUS
<1>2. PICK collected : collected = workloop.fragments \cup {<<f, k>>}
  OBVIOUS
<1>3. /\ workloop.at = "data" /\ inputSource = "FEROL2" /\ fedFragmentFIFOs[f] # << >>
      /\ { g \in Feds : g < f } = { g[1] : g \in workloop.fragments }
      /\ evbIdFactories' = [evbIdFactories EXCEPT ![f] = AfterGetEvBid(@, TriggerNumbers[k])]
      /\ fedFragmentFIFOs' = [fedFragmentFIFOs EXCEPT ![f] = Tail(@)]
      /\ IF IdOfFragment(f, k) # workloop.evbId
         THEN BackPressure("MismatchDetectedBackPressuring")
         ELSE IF { g[1] : g \in collected } = Feds
         THEN AddEvBidAndBlock(workloop.evbId, collected)
         ELSE workloop' = [workloop EXCEPT !.fragments = collected] /\ UNCHANGED << tableVars, fsmVars >>
      /\ UNCHANGED << inputSource, evmVars, sourceVars, superFragmentMap, superFragmentHead, blockFIFO,
                      readoutMsgs, requestMsgs, evbIdFIFO >>
  BY <1>1, <1>2 DEF GetNextFragment, MatchesTrigger
<1>4. /\ fsm = "Enabled" /\ HoldsTrigger /\ Filed \in Nat /\ Taken = Filed + 1
      /\ Taken \in 1..nbTriggers /\ Taken \in Events
      /\ workloop.evbId = issued[Taken] /\ workloop.evbId = RunId(Taken)
  BY <1>3, AtDataFacts
<1>5. /\ k \in Events /\ f \in Nat /\ f \in Sources
      /\ workloop \in Workloop /\ workloop.fragments \in SUBSET Fragments
      /\ collected \in SUBSET Fragments
  <2>1. f \in Sources /\ fedFragmentFIFOs \in [Sources -> Seq(Events)]
    BY DEF Sources, TypeInv, InputInv, InputTypeOK
  <2>2. fedFragmentFIFOs[f] \in Seq(Events)
    BY <2>1
  <2>3. k \in Events
    BY <1>1, <1>3, <2>2
  <2>4. workloop \in Workloop /\ f \in Nat
    BY InputAssumption DEF TypeInv, ControlInv, ControlTypeOK
  <2>5. workloop.fragments \in SUBSET Fragments
    BY <2>4 DEF Workloop
  <2>6. <<f, k>> \in Fragments
    BY <2>3 DEF Fragments
  <2> QED
    BY <1>2, <2>1, <2>3, <2>4, <2>5, <2>6
<1>6. TakenFrom(f) = Filed
  <2>1. f \notin { g[1] : g \in workloop.fragments }
    BY <1>3, <1>5
  <2> QED
    BY <2>1 DEF TakenFrom
<1>7. /\ faults = {} => QueuedInv
      /\ faults = {} => k = Filed + 1 /\ IdOfFragment(f, k) = RunId(k)
      /\ faults = {} /\ TakenFrom(f)' = Filed + 1 /\ (\A x \in Feds \ {f} : TakenFrom(x)' = TakenFrom(x)) => QueuedInv'
  <2>1. faults = {} => QueuedInv
    BY <1>3, <1>4 DEF DataInv, FaultlessInv, InStep
  <2>2. nextEvent' = nextEvent
    BY <1>3 DEF sourceVars
  <2> QED
    BY <1>1, <1>3, <1>4, <1>5, <1>6, <2>1, <2>2, QueuedNext
<1>8. IdsAreTrue /\ IdOfFragment(f, k) = workloop.evbId =>
        \A g \in collected : g[1] \in Feds /\ Determines(workloop.evbId, g[2])
  <2> SUFFICES ASSUME IdsAreTrue, IdOfFragment(f, k) = workloop.evbId
               PROVE  \A g \in collected : g[1] \in Feds /\ Determines(workloop.evbId, g[2])
    OBVIOUS
  <2>1. Determines(workloop.evbId, k)
    <3>1. CASE faults = {}
      BY <1>4, <1>7, <3>1, WhatDetermines
    <3>2. CASE NumbersDiffer
      <4>1. workloop.evbId \in EvBid /\ workloop.evbId.eventNumber = TriggerNumbers[k]
        <5>1. workloop.evbId = GetEvBid(evbIdFactories[f], TriggerNumbers[k])
          BY DEF IdOfFragment
        <5> QED
          BY <1>4, <5>1, RunFacts DEF GetEvBid
      <4> QED
        BY <1>5, <3>2, <4>1, WhatDetermines
    <3> QED
      BY <3>1, <3>2 DEF IdsAreTrue
  <2>2. \A g \in workloop.fragments : g[1] \in Feds /\ Determines(workloop.evbId, g[2])
    BY <1>3, <1>4 DEF DataInv, OwnInv
  <2> QED
    BY <1>2, <2>1, <2>2
<1>9. BlocksInv' /\ KnownInv' /\ RunInv'
  BY <1>3 DEF DataInv, BlocksInv, KnownInv, RunInv, evmVars
<1>10. faults' = faults /\ IdsAreTrue' = IdsAreTrue
  BY <1>3 DEF sourceVars, IdsAreTrue
<1>11. CASE IdOfFragment(f, k) # workloop.evbId
  <2>1. BackPressure("MismatchDetectedBackPressuring") /\ faults # {}
    BY <1>3, <1>4, <1>7, <1>11
  <2>2. /\ workloop' = [workloop EXCEPT !.at = "MismatchDetectedBackPressuring"]
        /\ UNCHANGED << fsm, data, sent >>
    BY <2>1 DEF BackPressure, fsmVars, tableVars
  <2>3. /\ workloop'.at = "MismatchDetectedBackPressuring"
        /\ workloop'.fragments = workloop.fragments /\ workloop'.evbId = workloop.evbId
    BY <1>5, <2>2 DEF Workloop
  <2>4. AlarmInv' /\ FaultlessInv'
    BY <1>4, <1>10, <2>1, <2>2, <2>3 DEF DataInv, AlarmInv, FaultlessInv
  <2>5. OwnData => OwnData'
    BY <1>3, <2>2, OwnKept DEF evmVars
  <2>6. OwnInv'
    BY <1>3, <1>10, <2>2, <2>3, <2>5 DEF DataInv, OwnInv
  <2> QED
    BY <1>9, <2>4, <2>6 DEF DataInv
<1>12. CASE IdOfFragment(f, k) = workloop.evbId /\ { g[1] : g \in collected } = Feds
  <2>1. AddEvBidAndBlock(workloop.evbId, collected)
    BY <1>3, <1>12
  <2>2. fsm' = fsm /\ workloop' = AtTrigger /\ Files
    BY <1>3, <1>5, <2>1, FilesNotFails DEF Files, fsmVars
  <2>3. Filed' = Filed + 1
    BY <1>4, <2>2, FilesMore
  <2>4. AlarmInv'
    BY <1>10, <2>2 DEF DataInv, AlarmInv, AtTrigger
  <2>5. FaultlessInv'
    <3> SUFFICES ASSUME faults' = {} PROVE InStep'
      BY DEF FaultlessInv
    <3>1. \A x \in Feds : TakenFrom(x)' = Filed + 1
      BY <2>2, <2>3 DEF TakenFrom, AtTrigger
    <3>2. \A x \in Feds \ {f} : TakenFrom(x) = Filed + 1
      <4> SUFFICES ASSUME NEW x \in Feds \ {f} PROVE TakenFrom(x) = Filed + 1
        OBVIOUS
      <4>1. PICK g \in collected : g[1] = x
        BY <1>12
      <4>2. g \in workloop.fragments
        BY <1>2, <4>1
      <4> QED
        BY <4>1, <4>2 DEF TakenFrom
    <3>3. QueuedInv'
      BY <1>7, <1>10, <3>1, <3>2
    <3> QED
      BY <1>3, <2>2, <3>3 DEF InStep, AtTrigger
  <2>6. OwnInv'
    <3> SUFFICES ASSUME IdsAreTrue PROVE OwnInv'
      BY <1>10 DEF OwnInv
    <3>1. collected = WholeEvent(Taken)
      <4>1. \A g \in collected : g = <<g[1], Taken>> /\ g[1] \in Feds
        <5> SUFFICES ASSUME NEW g \in collected PROVE g = <<g[1], Taken>> /\ g[1] \in Feds
          OBVIOUS
        <5>1. g[2] = Taken /\ g[1] \in Feds
          BY <1>4, <1>8, <1>12 DEF Determines
        <5>2. g = <<g[1], g[2]>>
          BY <1>5 DEF Fragments
        <5> QED
          BY <5>1, <5>2
      <4>2. \A x \in Feds : <<x, Taken>> \in collected
        <5> SUFFICES ASSUME NEW x \in Feds PROVE <<x, Taken>> \in collected
          OBVIOUS
        <5>1. PICK g \in collected : g[1] = x
          BY <1>12
        <5> QED
          BY <4>1, <5>1
      <4>3. WholeEvent(Taken) = { <<x, Taken>> : x \in Feds }
        BY <1>3 DEF WholeEvent, Parts
      <4> QED
        BY <4>1, <4>2, <4>3
    <3>2. OwnData'
      <4>1. AddEvBidAndBlock(issued[Taken], WholeEvent(Taken)) /\ OwnData
        BY <1>4, <2>1, <3>1 DEF DataInv, OwnInv
      <4> QED
        BY <1>3, <1>4, <4>1, OwnFiled DEF evmVars
    <3> QED
      BY <1>3, <2>2, <3>2 DEF OwnInv, AtTrigger
  <2> QED
    BY <1>9, <2>4, <2>5, <2>6 DEF DataInv
<1>13. CASE IdOfFragment(f, k) = workloop.evbId /\ { g[1] : g \in collected } # Feds
  <2>1. /\ workloop' = [workloop EXCEPT !.fragments = collected]
        /\ UNCHANGED << tableVars, fsmVars >>
    BY <1>3, <1>13
  <2>2. workloop'.at = "data" /\ workloop'.fragments = collected /\ workloop'.evbId = workloop.evbId
    BY <1>3, <1>5, <2>1 DEF Workloop
  <2>3. Filed' = Filed
    <3>1. UNCHANGED << nbTriggers, readoutMsgs, evbIdFIFO >>
      BY <1>3 DEF evmVars
    <3> QED
      BY <1>3, <2>2, <3>1 DEF Filed, Taken, HoldsTrigger
  <2>4. AlarmInv'
    BY <1>10, <2>1, <2>2 DEF DataInv, AlarmInv, fsmVars
  <2>5. FaultlessInv'
    <3> SUFFICES ASSUME faults' = {} PROVE InStep'
      BY DEF FaultlessInv
    <3>1. TakenFrom(f)' = Filed + 1
      <4>1. <<f, k>> \in collected /\ <<f, k>>[1] = f
        BY <1>2
      <4>2. \E g \in collected : g[1] = f
        BY <4>1
      <4> QED
        BY <2>2, <2>3, <4>2 DEF TakenFrom
    <3>2. \A x \in Feds \ {f} : TakenFrom(x)' = TakenFrom(x)
      <4>1. \A x \in Feds \ {f} : (\E g \in collected : g[1] = x) <=> (\E g \in workloop.fragments : g[1] = x)
        BY <1>2
      <4> QED
        BY <2>2, <2>3, <4>1 DEF TakenFrom
    <3>3. QueuedInv'
      BY <1>7, <1>10, <3>1, <3>2
    <3> QED
      BY <1>3, <2>2, <3>3 DEF InStep
  <2>6. OwnData => OwnData'
    BY <1>3, <2>1, OwnKept DEF evmVars, tableVars
  <2>7. OwnInv'
    BY <1>3, <1>8, <1>10, <1>13, <2>2, <2>6 DEF DataInv, OwnInv
  <2> QED
    BY <1>9, <2>4, <2>5, <2>7 DEF DataInv
<1> QED
  BY <1>11, <1>12, <1>13

LEMMA GenerateData == TypeInv /\ IdsInv /\ IdsInv' /\ DataInv /\ GenerateSuperFragment => DataInv'
<1> SUFFICES ASSUME TypeInv, IdsInv, IdsInv', DataInv, GenerateSuperFragment PROVE DataInv'
  OBVIOUS
<1>1. PICK k \in 1..nbTriggers :
        issued[k] = workloop.evbId /\ AddEvBidAndBlock(workloop.evbId, WholeEvent(k))
  BY DEF GenerateSuperFragment
<1>2. /\ inputSource = "Local" /\ UNCHANGED << inputSource, evmVars, sourceVars, inputVars >>
  BY DEF GenerateSuperFragment
<1>3. fsm' = fsm /\ workloop' = AtTrigger
  BY <1>1, FilesNotFails DEF fsmVars
<1>4. OwnData => OwnData'
  BY <1>1, <1>2, OwnFiled DEF evmVars
<1>5. BlocksInv' /\ KnownInv' /\ RunInv' /\ AlarmInv'
  BY <1>2, <1>3 DEF DataInv, BlocksInv, KnownInv, RunInv, AlarmInv, AtTrigger, evmVars, sourceVars
<1>6. FaultlessInv' /\ OwnInv'
  BY <1>2, <1>3, <1>4 DEF DataInv, FaultlessInv, InStep, OwnInv, IdsAreTrue, AtTrigger, sourceVars
<1> QED
  BY <1>5, <1>6 DEF DataInv

-----------------------------------------------------------------------------
LEMMA InitDataInv == Init => DataInv
<1> SUFFICES ASSUME Init PROVE DataInv
  OBVIOUS
<1>1. /\ nbTriggers = 0 /\ evmFactory = RunFactory(0) /\ faults = {} /\ fsm = "Enabled"
      /\ evbIdFactories = [s \in Sources |-> RunFactory(0)] /\ nextEvent = [s \in Sources |-> 1]
      /\ fedFragmentFIFOs = [s \in Sources |-> << >>]
      /\ superFragmentMap = << >> /\ superFragmentHead = << >> /\ blockFIFO = << >>
      /\ workloop = AtTrigger /\ data = << >> /\ sent = << >>
  BY RunFacts DEF Init
<1>2. RunInv /\ BlocksInv /\ KnownInv /\ AlarmInv
  BY <1>1 DEF RunInv, BlocksInv, KnownInv, AlarmInv, AtTrigger
<1>3. Filed = 0
  <2>1. Len(readoutMsgs) = 0 /\ Len(evbIdFIFO) = 0 /\ nbTriggers = 0 /\ workloop.at = "trigger"
    BY DEF Init, AtTrigger
  <2> QED
    BY <2>1 DEF Filed, Taken, HoldsTrigger, Errors
<1>4. Len(blockFIFO) = 0 /\ DOMAIN blockFIFO = {} /\ Merged = 0
  BY <1>1, <1>3 DEF Merged
<1>5. 0 \in Sources /\ Feds \subseteq Sources /\ \E s \in Feds : TRUE
  BY InputAssumption DEF Sources
<1>6. MergedInv
  <2>1. \A s \in Sources : nextEvent[s] = 1 /\ evbIdFactories[s] = RunFactory(nextEvent[s] - 1)
    BY <1>1
  <2>2. \A s \in Feds, k \in Events : ~ (0 < k /\ k < nextEvent[s])
    BY <1>5, <2>1 DEF Events
  <2>3. \A s \in Feds : nextEvent[s] > 0
    BY <1>5, <2>1
  <2>4. \E s \in Feds : nextEvent[s] <= 0 + 1
    BY <1>5, <2>1
  <2> QED
    BY <1>1, <1>4, <1>5, <2>1, <2>2, <2>3, <2>4 DEF MergedInv
<1>7. QueuedInv
  <2>1. \A f \in Feds : TakenFrom(f) = 0
    BY <1>1, <1>3 DEF TakenFrom, AtTrigger
  <2>2. \A f \in Feds : /\ evbIdFactories[f] = RunFactory(0) /\ nextEvent[f] = 1
                        /\ fedFragmentFIFOs[f] = << >> /\ Len(fedFragmentFIFOs[f]) = 0
    BY <1>1, <1>5
  <2> QED
    BY <2>1, <2>2 DEF QueuedInv
<1>8. FaultlessInv
  BY <1>1, <1>3, <1>4, <1>5, <1>6, <1>7 DEF FaultlessInv, InStep, AtTrigger
<1>9. OwnInv
  BY <1>1 DEF OwnInv, OwnData, AtTrigger
<1> QED
  BY <1>2, <1>8, <1>9 DEF DataInv

LEMMA NextDataInv == TypeInv /\ IdsInv /\ IdsInv' /\ DataInv /\ [Next]_vars => DataInv'
<1> SUFFICES ASSUME TypeInv, IdsInv, IdsInv', DataInv, [Next]_vars PROVE DataInv'
  OBVIOUS
<1>1. CASE IssueTrigger
  BY <1>1, IssueData
<1>2. ASSUME NEW s \in Sources, SendFragment(s) \/ RepeatFragment(s)
      PROVE  DataInv'
  <2>1. Sends(s, nextEvent[s])
    BY <1>2, SendKinds
  <2>2. inputSource \in {"FBO", "FEROL", "FEROL2"}
    BY <2>1 DEF Sends, I2Ocallback
  <2> QED
    BY <2>1, <2>2, FboSendData, FerolSendData, Ferol2SendData
<1>3. ASSUME NEW s \in Sources, LoseFragment(s)
      PROVE  DataInv'
  BY <1>3, LoseData
<1>4. ASSUME NEW s \in StrangeFeds, NEW k \in Events, StrangeFragment(s, k)
      PROVE  DataInv'
  BY <1>4, StrangeData
<1>5. CASE ReceiveReadout
  BY <1>5, ReadoutData
<1>6. ASSUME NEW id \in requestMsgs, ReceiveRequest(id)
      PROVE  DataInv'
  BY <1>6, RequestData
<1>7. CASE Process
  <2>1. CASE GetTrigEvBid
    BY <2>1, GetTrigData
  <2>2. CASE GetData
    BY <2>2, GetDataData
  <2>3. CASE GenerateSuperFragment
    BY <2>3, GenerateData
  <2>4. CASE TimedOut
    BY <2>4, TimedOutData
  <2>5. ASSUME NEW f \in Feds, GetNextFragment(f)
        PROVE  DataInv'
    BY <2>5, GetNextFragmentData
  <2> QED
    BY <1>7, <2>1, <2>2, <2>3, <2>4, <2>5 DEF Process
<1>8. CASE ReportError
  BY <1>8, ReportData
<1>9. CASE UNCHANGED vars
  BY <1>9, StutterData
<1> QED
  BY <1>1, <1>2, <1>3, <1>4, <1>5, <1>6, <1>7, <1>8, <1>9 DEF Next

LEMMA DataInvariant == Spec => []DataInv
<1>1. Spec => [](TypeInv /\ IdsInv)
  BY IdsInvariant
<1> QED
  BY <1>1, InitDataInv, NextDataInv, PTL DEF Spec

-----------------------------------------------------------------------------
\* Without a fault of a source no input detects a mismatch, for any trigger numbers
\* and any order in which ids, data and requests arrive; and what is lost or repeated
\* never makes the RU fail (FEROLproxy's and SuperFragmentTable's raises). It may still
\* time out without a fault.
THEOREM AlarmsAreTrue == Spec => []NoFalseAlarm
<1>1. DataInv => NoFalseAlarm
  BY DEF DataInv, AlarmInv, NoFalseAlarm
<1> QED
  BY <1>1, DataInvariant, PTL

\* The data of an id are the whole event of its trigger and nothing else: whenever no
\* source is at fault, and, if no trigger number comes twice in the run, whatever
\* the sources lose or repeat (getData of the inputs, FEROLproxy's merging).
THEOREM DataAreOwn == Spec => [](IdsAreTrue => OwnData)
<1>1. DataInv => (IdsAreTrue => OwnData)
  BY DEF DataInv, OwnInv
<1> QED
  BY <1>1, DataInvariant, PTL
=============================================================================
