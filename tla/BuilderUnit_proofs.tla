-------------------------- MODULE BuilderUnit_proofs --------------------------
(***************************************************************************)
(* Proofs about BuilderUnit for every number of resources, RUs, blocks,    *)
(* events, lumi sections and writers, every output and every size of a     *)
(* queue or of a message.                                                  *)
(***************************************************************************)
EXTENDS BuilderUnit, FiniteSetTheorems, TLAPS

-----------------------------------------------------------------------------
(* Queues and maps.                                                        *)

LEMMA InsertMap ==
  ASSUME NEW S, NEW T, NEW f, IsMap(f, S, T), NEW k \in S, NEW v \in T
  PROVE  IsMap(Insert(f, k, v), S, T)
BY DEF IsMap, Insert

LEMMA EraseMap ==
  ASSUME NEW S, NEW T, NEW f, IsMap(f, S, T), NEW k
  PROVE  IsMap(Erase(f, k), S, T)
BY DEF IsMap, Erase

LEMMA UpdateMap ==
  ASSUME NEW S, NEW T, NEW f, IsMap(f, S, T), NEW k \in DOMAIN f, NEW v \in T
  PROVE  IsMap([f EXCEPT ![k] = v], S, T)
BY DEF IsMap

\* The elements of a queue, by their position.
LEMMA AppendAt ==
  ASSUME NEW S, NEW q \in Seq(S), NEW e \in S
  PROVE  /\ Append(q, e) \in Seq(S)
         /\ DOMAIN Append(q, e) = DOMAIN q \cup {Len(q) + 1}
         /\ DOMAIN q = 1..Len(q) /\ Len(q) \in Nat
         /\ \A i \in DOMAIN q : Append(q, e)[i] = q[i] /\ q[i] \in S
         /\ Append(q, e)[Len(q) + 1] = e /\ Len(Append(q, e)) = Len(q) + 1
<1>1. Append(q, e) \in Seq(S) /\ Len(Append(q, e)) = Len(q) + 1 /\ DOMAIN q = 1..Len(q) /\ Len(q) \in Nat
  OBVIOUS
<1>2. DOMAIN Append(q, e) = 1..(Len(q) + 1)
  BY <1>1
<1>3. DOMAIN Append(q, e) = DOMAIN q \cup {Len(q) + 1}
  BY <1>1, <1>2
<1>4. \A i \in DOMAIN q : Append(q, e)[i] = q[i] /\ q[i] \in S
  OBVIOUS
<1>5. Append(q, e)[Len(q) + 1] = e
  OBVIOUS
<1> QED
  BY <1>1, <1>3, <1>4, <1>5

LEMMA TailAt ==
  ASSUME NEW S, NEW q \in Seq(S), q # << >>
  PROVE  /\ Head(q) \in S /\ Tail(q) \in Seq(S)
         /\ 1 \in DOMAIN q /\ q[1] = Head(q)
         /\ DOMAIN q = 1..Len(q) /\ Len(q) \in Nat
         /\ \A i \in DOMAIN q : i \in Nat /\ q[i] \in S
         /\ \A i \in DOMAIN Tail(q) : i \in Nat /\ i + 1 # 1 /\ i + 1 \in DOMAIN q /\ Tail(q)[i] = q[i + 1]
         /\ \A i \in DOMAIN q : i = 1 \/ (i - 1 \in DOMAIN Tail(q) /\ Tail(q)[i - 1] = q[i])
<1>1. /\ Tail(q) \in Seq(S) /\ Len(Tail(q)) = Len(q) - 1 /\ Len(q) \in Nat /\ Len(q) > 0
      /\ DOMAIN q = 1..Len(q) /\ DOMAIN Tail(q) = 1..(Len(q) - 1) /\ Head(q) = q[1] /\ Head(q) \in S
  OBVIOUS
<1>2. \A i \in 1..(Len(q) - 1) : Tail(q)[i] = q[i + 1]
  OBVIOUS
<1>3. \A i \in 1..Len(q) : i = 1 \/ (i - 1 \in 1..(Len(q) - 1) /\ Tail(q)[i - 1] = q[i])
  BY <1>1, <1>2
<1>4. \A i \in DOMAIN Tail(q) : i \in Nat /\ i + 1 # 1 /\ i + 1 \in DOMAIN q /\ Tail(q)[i] = q[i + 1]
  BY <1>1, <1>2
<1>5. 1 \in DOMAIN q /\ \A i \in DOMAIN q : i \in Nat /\ q[i] \in S
  BY <1>1
<1> QED
  BY <1>1, <1>3, <1>4, <1>5

LEMMA RangeAppend ==
  ASSUME NEW S, NEW q \in Seq(S), NEW e \in S
  PROVE  /\ Range(Append(q, e)) = Range(q) \cup {e}
         /\ IsInjective(q) /\ e \notin Range(q) => IsInjective(Append(q, e))
<1>1. /\ DOMAIN Append(q, e) = DOMAIN q \cup {Len(q) + 1}
      /\ \A i \in DOMAIN q : Append(q, e)[i] = q[i]
      /\ Append(q, e)[Len(q) + 1] = e
  BY AppendAt
<1> QED
  BY <1>1 DEF Range, IsInjective

LEMMA RangeTail ==
  ASSUME NEW S, NEW q \in Seq(S), q # << >>
  PROVE  /\ Head(q) \in Range(q)
         /\ Range(q) = Range(Tail(q)) \cup {Head(q)}
         /\ IsInjective(q) => IsInjective(Tail(q)) /\ Range(Tail(q)) = Range(q) \ {Head(q)}
<1>1. /\ 1 \in DOMAIN q /\ q[1] = Head(q)
      /\ \A i \in DOMAIN Tail(q) : i \in Nat /\ i + 1 # 1 /\ i + 1 \in DOMAIN q /\ Tail(q)[i] = q[i + 1]
      /\ \A i \in DOMAIN q : i = 1 \/ (i - 1 \in DOMAIN Tail(q) /\ Tail(q)[i - 1] = q[i])
  BY TailAt
<1>2. Range(q) = Range(Tail(q)) \cup {Head(q)}
  BY <1>1 DEF Range
<1>3. ASSUME IsInjective(q) PROVE IsInjective(Tail(q)) /\ Head(q) \notin Range(Tail(q))
  <2>1. \A i, j \in DOMAIN Tail(q) : i + 1 = j + 1 => i = j
    BY <1>1
  <2>2. IsInjective(Tail(q))
    BY <1>1, <1>3, <2>1 DEF IsInjective
  <2>3. \A i \in DOMAIN Tail(q) : Tail(q)[i] # q[1]
    BY <1>1, <1>3 DEF IsInjective
  <2> QED
    BY <1>1, <2>2, <2>3 DEF Range
<1> QED
  BY <1>1, <1>2, <1>3 DEF Range

\* Queues of records with a resource.
Resources(q) == { q[i].resource : i \in DOMAIN q }
OneEach(q)   == \A i, j \in DOMAIN q : q[i].resource = q[j].resource => i = j

LEMMA ResourcesAppend ==
  ASSUME NEW S, NEW q \in Seq(S), NEW e \in S
  PROVE  /\ Resources(Append(q, e)) = Resources(q) \cup {e.resource}
         /\ OneEach(q) /\ e.resource \notin Resources(q) => OneEach(Append(q, e))
<1>1. /\ DOMAIN Append(q, e) = DOMAIN q \cup {Len(q) + 1}
      /\ \A i \in DOMAIN q : Append(q, e)[i] = q[i]
      /\ Append(q, e)[Len(q) + 1] = e
  BY AppendAt
<1> QED
  BY <1>1 DEF Resources, OneEach

LEMMA ResourcesTail ==
  ASSUME NEW S, NEW q \in Seq(S), q # << >>
  PROVE  /\ Head(q).resource \in Resources(q)
         /\ Resources(q) = Resources(Tail(q)) \cup {Head(q).resource}
         /\ OneEach(q) => OneEach(Tail(q)) /\ Resources(Tail(q)) = Resources(q) \ {Head(q).resource}
<1>1. /\ 1 \in DOMAIN q /\ q[1] = Head(q)
      /\ \A i \in DOMAIN Tail(q) : i \in Nat /\ i + 1 # 1 /\ i + 1 \in DOMAIN q /\ Tail(q)[i] = q[i + 1]
      /\ \A i \in DOMAIN q : i = 1 \/ (i - 1 \in DOMAIN Tail(q) /\ Tail(q)[i - 1] = q[i])
  BY TailAt
<1>2. Resources(q) = Resources(Tail(q)) \cup {Head(q).resource}
  <2>1. ASSUME NEW i \in DOMAIN q
        PROVE  q[i].resource \in Resources(Tail(q)) \cup {Head(q).resource}
    <3>1. CASE i - 1 \in DOMAIN Tail(q) /\ Tail(q)[i - 1] = q[i]
      BY <3>1 DEF Resources
    <3> QED
      BY <1>1, <3>1
  <2>2. Resources(q) \subseteq Resources(Tail(q)) \cup {Head(q).resource}
    BY <2>1 DEF Resources
  <2>3. Resources(Tail(q)) \subseteq Resources(q)
    BY <1>1 DEF Resources
  <2>4. Head(q).resource \in Resources(q)
    BY <1>1 DEF Resources
  <2> QED
    BY <2>2, <2>3, <2>4
<1>3. ASSUME OneEach(q) PROVE OneEach(Tail(q)) /\ Head(q).resource \notin Resources(Tail(q))
  <2>1. \A i, j \in DOMAIN Tail(q) : i + 1 = j + 1 => i = j
    BY <1>1
  <2>2. OneEach(Tail(q))
    BY <1>1, <1>3, <2>1 DEF OneEach
  <2>3. \A i \in DOMAIN Tail(q) : Tail(q)[i].resource # q[1].resource
    BY <1>1, <1>3 DEF OneEach
  <2> QED
    BY <1>1, <2>2, <2>3 DEF Resources
<1> QED
  BY <1>1, <1>2, <1>3 DEF Resources

\* The queue of the writers.
EventResources(q) == { q[i].event.resource : i \in DOMAIN q }
OneEventEach(q)   == \A i, j \in DOMAIN q : q[i].event.resource = q[j].event.resource => i = j

LEMMA EventResourcesAppend ==
  ASSUME NEW S, NEW q \in Seq(S), NEW e \in S
  PROVE  /\ EventResources(Append(q, e)) = EventResources(q) \cup {e.event.resource}
         /\ OneEventEach(q) /\ e.event.resource \notin EventResources(q) => OneEventEach(Append(q, e))
<1>1. /\ DOMAIN Append(q, e) = DOMAIN q \cup {Len(q) + 1}
      /\ \A i \in DOMAIN q : Append(q, e)[i] = q[i]
      /\ Append(q, e)[Len(q) + 1] = e
  BY AppendAt
<1> QED
  BY <1>1 DEF EventResources, OneEventEach

LEMMA EventResourcesTail ==
  ASSUME NEW S, NEW q \in Seq(S), q # << >>
  PROVE  /\ Head(q).event.resource \in EventResources(q)
         /\ EventResources(q) = EventResources(Tail(q)) \cup {Head(q).event.resource}
         /\ OneEventEach(q) => /\ OneEventEach(Tail(q))
                               /\ EventResources(Tail(q)) = EventResources(q) \ {Head(q).event.resource}
<1>1. /\ 1 \in DOMAIN q /\ q[1] = Head(q)
      /\ \A i \in DOMAIN Tail(q) : i \in Nat /\ i + 1 # 1 /\ i + 1 \in DOMAIN q /\ Tail(q)[i] = q[i + 1]
      /\ \A i \in DOMAIN q : i = 1 \/ (i - 1 \in DOMAIN Tail(q) /\ Tail(q)[i - 1] = q[i])
  BY TailAt
<1>2. EventResources(q) = EventResources(Tail(q)) \cup {Head(q).event.resource}
  <2>1. ASSUME NEW i \in DOMAIN q
        PROVE  q[i].event.resource \in EventResources(Tail(q)) \cup {Head(q).event.resource}
    <3>1. CASE i - 1 \in DOMAIN Tail(q) /\ Tail(q)[i - 1] = q[i]
      BY <3>1 DEF EventResources
    <3> QED
      BY <1>1, <3>1
  <2>2. EventResources(q) \subseteq EventResources(Tail(q)) \cup {Head(q).event.resource}
    BY <2>1 DEF EventResources
  <2>3. EventResources(Tail(q)) \subseteq EventResources(q)
    BY <1>1 DEF EventResources
  <2>4. Head(q).event.resource \in EventResources(q)
    BY <1>1 DEF EventResources
  <2> QED
    BY <2>2, <2>3, <2>4
<1>3. ASSUME OneEventEach(q)
      PROVE  OneEventEach(Tail(q)) /\ Head(q).event.resource \notin EventResources(Tail(q))
  <2>1. \A i, j \in DOMAIN Tail(q) : i + 1 = j + 1 => i = j
    BY <1>1
  <2>2. OneEventEach(Tail(q))
    BY <1>1, <1>3, <2>1 DEF OneEventEach
  <2>3. \A i \in DOMAIN Tail(q) : Tail(q)[i].event.resource # q[1].event.resource
    BY <1>1, <1>3 DEF OneEventEach
  <2> QED
    BY <1>1, <2>2, <2>3 DEF EventResources
<1> QED
  BY <1>1, <1>2, <1>3 DEF EventResources

-----------------------------------------------------------------------------
(***************************************************************************)
(* Every variable keeps its type.  A writer that is not idle has an event  *)
(* and an open file; that a complete event is in the table comes from the  *)
(* invariant about the places of the events below.                         *)
(***************************************************************************)
WritersHaveEvents ==
  \A w \in Writers : writing[w].at # "idle" => writing[w].file \in DOMAIN files /\ writing[w].event \in EventPtr

\* Every file that is referred to has been opened.
FilesKnown ==
  /\ \A i \in DOMAIN fileHandlerAndEventFIFO : fileHandlerAndEventFIFO[i].file \in DOMAIN files
  /\ \A ls \in DOMAIN lumiHandlers : \A i \in 1..NumberOfWriters :
       lumiHandlers[ls].fileHandlers[i] \in DOMAIN files \cup {NoFile}

DiskTypeInv == DiskTypeOK /\ WritersHaveEvents /\ FilesKnown
TypeInv == DiskTypeInv /\ TableTypeOK /\ ProxyTypeOK /\ PeerTypeOK

CompleteKnown == Range(completeEventsFIFO) \subseteq DOMAIN data

LEMMA InitTypeInv == Init => TypeInv
<1> SUFFICES ASSUME Init PROVE TypeInv
  OBVIOUS
<1> USE DiskAssumption, BuilderAssumption
<1>1. DiskTypeInv
  <2>1. NotWriting \in Writing
    BY DEF NotWriting, Writing
  <2>2. IsMap(lumiHandlers, 1..LumiSections, LumiHandler) /\ IsMap(files, File, FileHandler)
        /\ IsMap(fileJSON, File, Nat) /\ IsMap(eolsJSON, 1..LumiSections, [events : Nat, files : Nat])
    BY DEF Init, DiskInit, IsMap
  <2>3. \A w \in Writers : writing[w].at = "idle"
    BY DEF Init, DiskInit, NotWriting
  <2> QED
    BY <2>1, <2>2, <2>3 DEF Init, DiskInit, DiskTypeInv, DiskTypeOK, WritersHaveEvents, FilesKnown
<1>2. TableTypeOK
  <2>1. freeResourceIdFIFO \in Seq(ResourceIds)
    BY DEF Init, ResourceIds
  <2>2. IsMap(data, ResourceIds, Event)
    BY DEF Init, IsMap
  <2> QED
    BY <2>1, <2>2 DEF Init, TableTypeOK
<1>3. ProxyTypeOK
  BY DEF Init, ProxyTypeOK, EvtIdRqstsAndOrReleases, NoElements
<1>4. PeerTypeOK
  BY DEF Init, PeerTypeOK
<1> QED
  BY <1>1, <1>2, <1>3, <1>4 DEF TypeInv

LEMMA SendType ==
  ASSUME ProxyTypeOK, PeerTypeOK, NEW element \in EvtIdRqstAndOrRelease,
         "RELEASE" \in element.type => element.evbId \in Events,
         SendEvtIdRqstAndOrRelease(element)
  PROVE  /\ evtIdRqstsAndOrReleases' \in EvtIdRqstsAndOrReleases
         /\ evtIdRqstsAndOrReleases'.nbElements < EvmPacking
         /\ requests' \in Seq(ResourceIds) /\ released' \subseteq Events
<1> DEFINE msg == Packed(evtIdRqstsAndOrReleases, element)
<1>1. msg \in EvtIdRqstsAndOrReleases /\ msg.nbElements = evtIdRqstsAndOrReleases.nbElements + 1
  BY DEF Packed, EvtIdRqstsAndOrReleases, EvtIdRqstAndOrRelease, ProxyTypeOK
<1>2. evtIdRqstsAndOrReleases.nbElements \in Nat /\ EvmPacking \in Nat \ {0}
      /\ evtIdRqstsAndOrReleases.nbElements < EvmPacking
  BY BuilderAssumption DEF EvtIdRqstsAndOrReleases, ProxyTypeOK
<1>3. CASE msg.nbElements = EvmPacking
  <2>1. PostToEVM(msg)
    BY <1>3 DEF SendEvtIdRqstAndOrRelease
  <2>2. msg.asked \in Seq(ResourceIds) /\ msg.freed \subseteq Events
    BY <1>1 DEF EvtIdRqstsAndOrReleases
  <2> HIDE DEF msg
  <2>3. requests' \in Seq(ResourceIds) /\ released' \subseteq Events
    BY <2>1, <2>2 DEF PostToEVM, PeerTypeOK
  <2> QED
    BY <1>2, <2>1, <2>3 DEF PostToEVM, NoElements, EvtIdRqstsAndOrReleases
<1>4. CASE msg.nbElements # EvmPacking
  <2>1. evtIdRqstsAndOrReleases' = msg /\ UNCHANGED << requests, released >>
    BY <1>4 DEF SendEvtIdRqstAndOrRelease
  <2> HIDE DEF msg
  <2>2. msg.nbElements < EvmPacking
    BY <1>1, <1>2, <1>4
  <2> QED
    BY <1>1, <2>1, <2>2 DEF PeerTypeOK
<1> QED
  BY <1>3, <1>4

LEMMA SendToRUsType ==
  ASSUME ProxyTypeOK, PeerTypeOK, NEW msg \in Seq(EventPtr), SendToAllRUs(msg)
  PROVE  /\ rqstForFrags' \in Seq(EventPtr) /\ Len(rqstForFrags') < RuPacking
         /\ ruRequests' \in [RUs -> SUBSET EventPtr]
<1>1. Range(msg) \subseteq EventPtr
  BY DEF Range
<1> QED
  BY <1>1, BuilderAssumption DEF SendToAllRUs, PeerTypeOK

LEMMA RequestDataType ==
  ASSUME ProxyTypeOK, PeerTypeOK, NEW t \in EventPtr, RequestDataForTrigger(t)
  PROVE  /\ rqstForFrags' \in Seq(EventPtr) /\ Len(rqstForFrags') < RuPacking
         /\ ruRequests' \in [RUs -> SUBSET EventPtr]
<1> DEFINE msg == Append(rqstForFrags, t)
<1>1. msg \in Seq(EventPtr) /\ Len(msg) = Len(rqstForFrags) + 1 /\ Len(rqstForFrags) \in Nat
      /\ Len(rqstForFrags) < RuPacking /\ RuPacking \in Nat
  BY BuilderAssumption DEF ProxyTypeOK
<1>2. \/ SendToAllRUs(msg)
      \/ Len(msg) # RuPacking /\ rqstForFrags' = msg /\ UNCHANGED ruRequests
  BY DEF RequestDataForTrigger
<1> HIDE DEF msg
<1> QED
  BY <1>1, <1>2, SendToRUsType DEF PeerTypeOK

LEMMA CloseFilesType ==
  ASSUME DiskTypeOK, NEW S, CloseFiles(S, files)
  PROVE  IsMap(fileJSON', File, Nat)
<1>1. \A f \in DOMAIN files : f \in File /\ files[f].eventCount \in Nat
  BY DEF DiskTypeOK, IsMap, FileHandler
<1>2. \A f \in DOMAIN fileJSON : f \in File /\ fileJSON[f] \in Nat
  BY DEF DiskTypeOK, IsMap
<1>3. fileJSON' = [f \in DOMAIN fileJSON \cup (S \cap DOMAIN files) |->
                     IF f \in DOMAIN fileJSON THEN fileJSON[f] ELSE files[f].eventCount]
  BY DEF CloseFiles
<1> QED
  BY <1>1, <1>2, <1>3 DEF IsMap

LEMMA WritersNumber == NumberOfWriters \in Nat \ {0}
BY DiskAssumption, FS_CardinalityType, FS_EmptySet DEF NumberOfWriters

LEMMA NewLumiHandlerType == NewLumiHandler \in LumiHandler
BY WritersNumber DEF NewLumiHandler, LumiHandler

LEMMA FileForType ==
  ASSUME NEW ls \in 1..LumiSections, NEW handler \in LumiHandler
  PROVE  FileFor(ls, handler) \in File /\ AllocateFile(ls, handler) \in LumiHandler
<1>1. handler.nextFileHandler \in 1..NumberOfWriters /\ handler.filesPerLS \in Nat /\ handler.eventsPerLS \in Nat
      /\ handler.fileHandlers \in [1..NumberOfWriters -> File \cup {NoFile}]
  BY DEF LumiHandler
<1>2. FileFor(ls, handler) \in File
  BY <1>1 DEF FileFor, NeedsFile, File
<1>3. (handler.nextFileHandler % NumberOfWriters) + 1 \in 1..NumberOfWriters
  BY <1>1, WritersNumber
<1>4. handler.filesPerLS + (IF NeedsFile(handler) THEN 1 ELSE 0) \in Nat /\ handler.eventsPerLS + 1 \in Nat
  BY <1>1
<1>5. [handler.fileHandlers EXCEPT ![handler.nextFileHandler] = FileFor(ls, handler)]
        \in [1..NumberOfWriters -> File \cup {NoFile}]
  BY <1>1, <1>2
<1> QED
  BY <1>2, <1>3, <1>4, <1>5 DEF AllocateFile, LumiHandler

LEMMA HandleEventsType ==
  ASSUME DiskTypeInv, HandleEvents
  PROVE  DiskTypeInv'
<1> USE DEF DiskTypeInv
<1> DEFINE event   == Head(eventFIFO)
           ls      == LumiSection[event.evbId]
           handler == IF ls \in DOMAIN lumiHandlers THEN lumiHandlers[ls] ELSE NewLumiHandler
           f       == FileFor(ls, handler)
           opened  == IF NeedsFile(handler)
                      THEN Insert(files, f, [events |-> {}, eventCount |-> 0, allocated |-> 0])
                      ELSE files
<1>1. event \in EventPtr /\ Tail(eventFIFO) \in Seq(EventPtr)
  BY TailAt DEF HandleEvents, DiskTypeOK
<1>2. ls \in 1..LumiSections
  BY <1>1, DiskAssumption DEF EventPtr, Events
<1>3. handler \in LumiHandler
  BY NewLumiHandlerType DEF DiskTypeOK, IsMap
<1>4. f \in File /\ AllocateFile(ls, handler) \in LumiHandler
  BY <1>2, <1>3, FileForType
<1>5. \A i \in 1..NumberOfWriters : handler.fileHandlers[i] \in DOMAIN files \cup {NoFile}
  BY DEF FilesKnown, NewLumiHandler
<1>6. ~ NeedsFile(handler) => f \in DOMAIN files
  BY <1>3, <1>5 DEF FileFor, NeedsFile, LumiHandler
<1>7. /\ lumiHandlers' = Insert(lumiHandlers, ls, AllocateFile(ls, handler))
      /\ files' = [opened EXCEPT ![f].allocated = @ + 1]
      /\ fileHandlerAndEventFIFO' = Append(fileHandlerAndEventFIFO, [file |-> f, event |-> event])
      /\ CloseUnreferenced(lumiHandlers', fileHandlerAndEventFIFO', writing)
      /\ eventFIFO' = Tail(eventFIFO)
      /\ UNCHANGED << eolsFIFO, eolsJSON, writing >>
  BY DEF HandleEvents
<1>8. IsMap(fileJSON', File, Nat)
  BY <1>7, CloseFilesType DEF CloseUnreferenced
<1> HIDE DEF event, ls, handler, f
<1>9. IsMap(lumiHandlers', 1..LumiSections, LumiHandler)
  BY <1>2, <1>4, <1>7, InsertMap DEF DiskTypeOK
<1>10. IsMap(opened, File, FileHandler)
  <2>1. [events |-> {}, eventCount |-> 0, allocated |-> 0] \in FileHandler
    BY DEF FileHandler
  <2> QED
    BY <1>4, <2>1, InsertMap DEF DiskTypeOK
<1> HIDE DEF opened
<1>11. IsMap(files', File, FileHandler)
  <2>1. \A g \in DOMAIN opened : [opened[g] EXCEPT !.allocated = @ + 1] \in FileHandler
    BY <1>10 DEF IsMap, FileHandler
  <2> QED
    BY <1>7, <1>10, <2>1 DEF IsMap
<1>12. [file |-> f, event |-> event] \in FileHandlerAndEvent
  BY <1>1, <1>4 DEF FileHandlerAndEvent
<1>13. fileHandlerAndEventFIFO' \in Seq(FileHandlerAndEvent)
  BY <1>7, <1>12 DEF DiskTypeOK
<1>14. DOMAIN files' = DOMAIN files \cup {f}
  BY <1>7, <1>6 DEF opened, Insert
<1>15. FilesKnown'
  <2>1. \A i \in DOMAIN fileHandlerAndEventFIFO' : fileHandlerAndEventFIFO'[i].file \in DOMAIN files'
    BY <1>7, <1>13, <1>14, <1>12, AppendAt DEF DiskTypeOK, FilesKnown
  <2>2. \A i \in 1..NumberOfWriters :
          AllocateFile(ls, handler).fileHandlers[i] \in DOMAIN files \cup {f, NoFile}
    BY <1>5 DEF AllocateFile, f
  <2> QED
    BY <1>7, <1>14, <2>1, <2>2 DEF FilesKnown, Insert
<1> QED
  BY <1>1, <1>7, <1>8, <1>9, <1>11, <1>13, <1>14, <1>15 DEF DiskTypeOK, WritersHaveEvents

LEMMA HandleEoLSType ==
  ASSUME DiskTypeInv, HandleEoLS
  PROVE  DiskTypeInv'
<1> USE DEF DiskTypeInv
<1> DEFINE ls      == Head(eolsFIFO)
           handler == IF ls \in DOMAIN lumiHandlers THEN lumiHandlers[ls] ELSE NewLumiHandler
           json    == [events |-> handler.eventsPerLS, files |-> handler.filesPerLS]
<1>1. ls \in 1..LumiSections /\ Tail(eolsFIFO) \in Seq(1..LumiSections)
  BY TailAt DEF HandleEoLS, DiskTypeOK
<1>2. handler \in LumiHandler
  BY NewLumiHandlerType DEF DiskTypeOK, IsMap
<1>3. json \in [events : Nat, files : Nat]
  BY <1>2 DEF LumiHandler
<1>4. /\ CloseFiles(Range(handler.fileHandlers), files)
      /\ eolsJSON' = Insert(eolsJSON, ls, json)
      /\ lumiHandlers' = Erase(lumiHandlers, ls)
      /\ eolsFIFO' = Tail(eolsFIFO)
      /\ UNCHANGED << eventFIFO, fileHandlerAndEventFIFO, files, writing >>
  BY DEF HandleEoLS
<1> HIDE DEF json, handler, ls
<1>5. IsMap(fileJSON', File, Nat)
  BY <1>4, CloseFilesType
<1>6. IsMap(eolsJSON', 1..LumiSections, [events : Nat, files : Nat])
  BY <1>1, <1>3, <1>4, InsertMap DEF DiskTypeOK
<1>7. IsMap(lumiHandlers', 1..LumiSections, LumiHandler)
  BY <1>4, EraseMap DEF DiskTypeOK
<1>8. Len(Tail(eolsFIFO)) <= EolsFIFOCapacity
  <2>1. eolsFIFO \in Seq(1..LumiSections) /\ eolsFIFO # << >> /\ Len(eolsFIFO) <= EolsFIFOCapacity
        /\ EolsFIFOCapacity \in Nat
    BY DiskAssumption DEF HandleEoLS, DiskTypeOK
  <2>2. Len(Tail(eolsFIFO)) = Len(eolsFIFO) - 1 /\ Len(eolsFIFO) \in Nat
    BY <2>1
  <2> QED
    BY <2>1, <2>2
<1> QED
  BY <1>1, <1>4, <1>5, <1>6, <1>7, <1>8 DEF DiskTypeOK, WritersHaveEvents, FilesKnown, Erase

LEMMA WriterType ==
  ASSUME DiskTypeInv, NEW w \in Writers,
         \/ TakeEvent(w) \/ LeaveWriting(w) \/ WriteToDisk(w)
         \/ ReadEventCount(w) \/ StoreEventCount(w) \/ DiscardWritten(w)
  PROVE  DiskTypeInv'
<1> USE DEF DiskTypeInv
<1>1. writing \in [Writers -> Writing] /\ IsMap(files, File, FileHandler)
      /\ writing[w].at \in {"idle", "write", "count", "store", "discard", "done"}
      /\ writing[w].count \in Nat
      /\ fileHandlerAndEventFIFO \in Seq(FileHandlerAndEvent)
      /\ DOMAIN files \subseteq File
  BY DEF DiskTypeOK, Writing, IsMap
<1>2. CASE TakeEvent(w)
  <2> DEFINE next == Head(fileHandlerAndEventFIFO)
             new  == [at |-> "write", file |-> next.file, event |-> next.event, count |-> 0]
  <2>1. next \in FileHandlerAndEvent /\ Tail(fileHandlerAndEventFIFO) \in Seq(FileHandlerAndEvent)
    BY <1>1, <1>2, TailAt DEF TakeEvent
  <2>2. new \in Writing /\ new.file \in DOMAIN files /\ new.event \in EventPtr
    <3>1. next.file \in DOMAIN files
      BY <1>1, <1>2, TailAt DEF TakeEvent, FilesKnown
    <3> QED
      BY <1>1, <2>1, <3>1 DEF FileHandlerAndEvent, Writing
  <2>3. /\ writing' = [writing EXCEPT ![w] = new]
        /\ fileHandlerAndEventFIFO' = Tail(fileHandlerAndEventFIFO)
        /\ CloseUnreferenced(lumiHandlers, fileHandlerAndEventFIFO', writing')
        /\ UNCHANGED << eventFIFO, eolsFIFO, lumiHandlers, files, eolsJSON >>
    BY <1>2 DEF TakeEvent
  <2>4. IsMap(fileJSON', File, Nat)
    BY <2>3, CloseFilesType DEF CloseUnreferenced
  <2> HIDE DEF next, new
  <2>5. FilesKnown'
    <3>1. \A i \in DOMAIN Tail(fileHandlerAndEventFIFO) :
            \E j \in DOMAIN fileHandlerAndEventFIFO : Tail(fileHandlerAndEventFIFO)[i] = fileHandlerAndEventFIFO[j]
      BY <1>1, <1>2, TailAt DEF TakeEvent
    <3> QED
      BY <2>3, <3>1 DEF FilesKnown
  <2> QED
    BY <1>1, <2>1, <2>2, <2>3, <2>4, <2>5 DEF DiskTypeOK, WritersHaveEvents
<1>3. CASE LeaveWriting(w)
  <2>1. /\ writing' = [writing EXCEPT ![w] = NotWriting]
        /\ CloseUnreferenced(lumiHandlers, fileHandlerAndEventFIFO, writing')
        /\ UNCHANGED << eventFIFO, eolsFIFO, fileHandlerAndEventFIFO, lumiHandlers, files, eolsJSON >>
    BY <1>3 DEF LeaveWriting
  <2>2. IsMap(fileJSON', File, Nat)
    BY <2>1, CloseFilesType DEF CloseUnreferenced
  <2>3. NotWriting \in Writing /\ NotWriting.at = "idle"
    BY DEF NotWriting, Writing
  <2> QED
    BY <1>1, <2>1, <2>2, <2>3 DEF DiskTypeOK, WritersHaveEvents, FilesKnown
<1>4. CASE WriteToDisk(w)
  <2>1. writing[w].event.evbId \in Events
    BY <1>4 DEF WriteToDisk, WritersHaveEvents, EventPtr
  <2>2. IsMap(files', File, FileHandler)
    <3>1. \A g \in DOMAIN files :
            [files[g] EXCEPT !.events = @ \cup {writing[w].event.evbId}] \in FileHandler
      BY <1>1, <2>1 DEF IsMap, FileHandler
    <3> QED
      BY <1>1, <1>4, <3>1 DEF IsMap, WriteToDisk
  <2>3. [writing[w] EXCEPT !.at = "count"] \in Writing
    BY <1>1 DEF Writing
  <2> QED
    BY <1>1, <1>4, <2>2, <2>3 DEF DiskTypeOK, WritersHaveEvents, FilesKnown, WriteToDisk
<1>5. CASE ReadEventCount(w)
  <2>1. files[writing[w].file].eventCount \in Nat
    BY <1>1, <1>5 DEF IsMap, FileHandler, ReadEventCount, WritersHaveEvents
  <2>2. [writing[w] EXCEPT !.at = "store", !.count = files[writing[w].file].eventCount] \in Writing
    BY <1>1, <2>1 DEF Writing
  <2> QED
    BY <1>1, <1>5, <2>2 DEF DiskTypeOK, WritersHaveEvents, FilesKnown, ReadEventCount
<1>6. CASE StoreEventCount(w)
  <2>1. IsMap(files', File, FileHandler)
    <3>1. \A g \in DOMAIN files : [files[g] EXCEPT !.eventCount = writing[w].count + 1] \in FileHandler
      <4>1. writing[w].count + 1 \in Nat
        BY <1>1
      <4> QED
        BY <1>1, <4>1 DEF IsMap, FileHandler
    <3> QED
      BY <1>1, <1>6, <3>1 DEF IsMap, StoreEventCount
  <2>2. [writing[w] EXCEPT !.at = "discard", !.count = 0] \in Writing
    BY <1>1 DEF Writing
  <2> QED
    BY <1>1, <1>6, <2>1, <2>2 DEF DiskTypeOK, WritersHaveEvents, FilesKnown, StoreEventCount
<1>7. CASE DiscardWritten(w)
  <2>1. [writing[w] EXCEPT !.at = "done"] \in Writing
    BY <1>1 DEF Writing
  <2> QED
    BY <1>1, <1>7, <2>1 DEF DiskTypeOK, WritersHaveEvents, FilesKnown, DiscardWritten
<1> QED
  BY <1>2, <1>3, <1>4, <1>5, <1>6, <1>7

\* Steps that leave the disk writer alone, and steps of the disk writer alone.
LEMMA SameDiskType == DiskTypeInv /\ UNCHANGED diskVars => DiskTypeInv'
BY DEF DiskTypeInv, DiskTypeOK, WritersHaveEvents, FilesKnown, diskVars

LEMMA EvmType ==
  ASSUME TypeInv, \/ Evm \/ ReceiveTrigger \/ EvmLumisection
                  \/ \E u \in RUs : AnswerRequest(u) \/ ReceiveBlock(u)
                  \/ ReceiveFuRequest \/ \E r \in ResourceIds : FuDiscard(r)
  PROVE  TypeInv'
<1> USE DEF TypeInv, tableVars, evmMsgVars, evmVars, ruVars, fuVars
<1>1. CASE AssignEvent
  <2>1. requests # << >> /\ nextEvent <= MaxEvents /\ nextEvent \in 1..(MaxEvents + 1) /\ requests \in Seq(ResourceIds)
    BY <1>1 DEF AssignEvent, PeerTypeOK
  <2>2. Head(requests) \in ResourceIds /\ Tail(requests) \in Seq(ResourceIds)
    BY <2>1, TailAt
  <2>3. nextEvent \in Events /\ nextEvent + 1 \in 1..(MaxEvents + 1)
    BY <2>1, DiskAssumption DEF Events
  <2>4. [resource |-> Head(requests), evbId |-> nextEvent, lumiSection |-> 0] \in EvmMessage
    BY <2>2, <2>3, DiskAssumption DEF EvmMessage
  <2>5. PeerTypeOK'
    BY <1>1, <2>2, <2>3, <2>4 DEF AssignEvent, PeerTypeOK
  <2> QED
    BY <1>1, <2>5, SameDiskType DEF AssignEvent, TableTypeOK, ProxyTypeOK
<1>2. CASE EndLumiSection
  <2>1. requests # << >> /\ requests \in Seq(ResourceIds) /\ endedLS < LumiSections /\ endedLS \in 0..LumiSections
    BY <1>2 DEF EndLumiSection, PeerTypeOK
  <2>2. Head(requests) \in ResourceIds /\ Tail(requests) \in Seq(ResourceIds)
    BY <2>1, TailAt
  <2>3. endedLS + 1 \in 1..LumiSections
    BY <2>1, DiskAssumption
  <2>4. [resource |-> Head(requests), evbId |-> 0, lumiSection |-> endedLS + 1] \in EvmMessage
    BY <2>2, <2>3 DEF EvmMessage
  <2>5. PeerTypeOK'
    BY <1>2, <2>2, <2>3, <2>4 DEF EndLumiSection, PeerTypeOK
  <2> QED
    BY <1>2, <2>5, SameDiskType DEF EndLumiSection, TableTypeOK, ProxyTypeOK
<1>3. CASE ReceiveTrigger
  <2> DEFINE m == Head(fromEVM)
             t == [resource |-> m.resource, evbId |-> m.evbId]
  <2>1. m \in EvmMessage /\ m.evbId # 0 /\ Tail(fromEVM) \in Seq(EvmMessage)
    BY <1>3, TailAt DEF ReceiveTrigger, PeerTypeOK
  <2>2. t \in EventPtr
    BY <2>1 DEF EvmMessage, EventPtr
  <2>3. triggerFIFO' = Append(triggerFIFO, t) /\ fromEVM' = Tail(fromEVM) /\ Len(triggerFIFO) < TriggerFIFOCapacity
    BY <1>3 DEF ReceiveTrigger
  <2> HIDE DEF t, m
  <2>4. ProxyTypeOK'
    <3>1. triggerFIFO' \in Seq(EventPtr) /\ Len(triggerFIFO') = Len(triggerFIFO) + 1 /\ Len(triggerFIFO) \in Nat
      BY <2>2, <2>3 DEF ProxyTypeOK
    <3> QED
      BY <1>3, <2>3, <3>1, BuilderAssumption DEF ReceiveTrigger, ProxyTypeOK
  <2> QED
    BY <1>3, <2>1, <2>3, <2>4, SameDiskType DEF ReceiveTrigger, TableTypeOK, PeerTypeOK
<1>4. CASE EvmLumisection
  <2> DEFINE m == Head(fromEVM)
             e == [type |-> {"REQUEST"}, resource |-> m.resource, evbId |-> 0]
  <2>1. m \in EvmMessage /\ m.evbId = 0 /\ Tail(fromEVM) \in Seq(EvmMessage)
    BY <1>4, TailAt DEF EvmLumisection, PeerTypeOK
  <2>2. e \in EvtIdRqstAndOrRelease /\ ("RELEASE" \in e.type => e.evbId \in Events)
    BY <2>1 DEF EvmMessage, EvtIdRqstAndOrRelease
  <2>3. SendEvtIdRqstAndOrRelease(e)
    BY <1>4 DEF EvmLumisection
  <2> HIDE DEF e
  <2>4. ProxyTypeOK' /\ PeerTypeOK'
    BY <1>4, <2>1, <2>2, <2>3, SendType DEF EvmLumisection, ProxyTypeOK, PeerTypeOK
  <2>5. DiskTypeInv'
    <3>1. CASE CloseLS(m.lumiSection)
      <4>1. m.lumiSection \in 1..LumiSections
        BY <2>1 DEF EvmMessage, Events
      <4>2. eolsFIFO' \in Seq(1..LumiSections) /\ Len(eolsFIFO') = Len(eolsFIFO) + 1 /\ Len(eolsFIFO) \in Nat
            /\ Len(eolsFIFO) < EolsFIFOCapacity
        BY <3>1, <4>1 DEF CloseLS, DiskTypeInv, DiskTypeOK
      <4> QED
        BY <3>1, <4>2, DiskAssumption DEF CloseLS, DiskTypeInv, DiskTypeOK, WritersHaveEvents, FilesKnown
    <3> QED
      BY <1>4, <3>1, SameDiskType DEF EvmLumisection
  <2> QED
    BY <1>4, <2>4, <2>5 DEF EvmLumisection, TableTypeOK
<1>5. ASSUME NEW u \in RUs, AnswerRequest(u) PROVE TypeInv'
  <2>1. PICK t \in ruRequests[u] :
          /\ ruRequests' = [ruRequests EXCEPT ![u] = @ \ {t}]
          /\ fromRU' = [fromRU EXCEPT ![u] = @ \o
               [i \in 1..NbBlocks[u] |-> [ru |-> u, resource |-> t.resource, evbId |-> t.evbId, blockNb |-> i]]]
    BY <1>5 DEF AnswerRequest
  <2>2. t \in EventPtr /\ NbBlocks[u] \in Nat
    BY BuilderAssumption DEF PeerTypeOK
  <2>3. \A i \in 1..NbBlocks[u] : [ru |-> u, resource |-> t.resource, evbId |-> t.evbId, blockNb |-> i] \in Block
    BY <2>2 DEF EventPtr, Block
  <2>4. [i \in 1..NbBlocks[u] |-> [ru |-> u, resource |-> t.resource, evbId |-> t.evbId, blockNb |-> i]] \in Seq(Block)
    BY <2>2, <2>3
  <2>5. ruRequests' \in [RUs -> SUBSET EventPtr] /\ fromRU' \in [RUs -> Seq(Block)]
    BY <2>1, <2>4 DEF PeerTypeOK
  <2> QED
    BY <1>5, <2>5, SameDiskType DEF AnswerRequest, TableTypeOK, ProxyTypeOK, PeerTypeOK
<1>6. ASSUME NEW u \in RUs, ReceiveBlock(u) PROVE TypeInv'
  <2>1. Head(fromRU[u]) \in Block /\ Tail(fromRU[u]) \in Seq(Block)
    <3>1. fromRU[u] \in Seq(Block) /\ fromRU[u] # << >>
      BY <1>6 DEF ReceiveBlock, PeerTypeOK
    <3> QED
      BY <3>1, TailAt
  <2>2. blockFIFO' \in Seq(Block) /\ Len(blockFIFO') <= BlockFIFOCapacity
    <3>1. blockFIFO' = Append(blockFIFO, Head(fromRU[u])) /\ Len(blockFIFO) < BlockFIFOCapacity
          /\ blockFIFO \in Seq(Block) /\ BlockFIFOCapacity \in Nat
      BY <1>6, BuilderAssumption DEF ReceiveBlock, ProxyTypeOK
    <3> QED
      BY <2>1, <3>1
  <2>3. fromRU' \in [RUs -> Seq(Block)]
    BY <1>6, <2>1 DEF ReceiveBlock, PeerTypeOK
  <2> QED
    BY <1>6, <2>2, <2>3, SameDiskType DEF ReceiveBlock, TableTypeOK, ProxyTypeOK, PeerTypeOK
<1>7. CASE ReceiveFuRequest
  <2>1. nbFuRequests' \in 0..MaxFuRequests
    BY <1>7, BuilderAssumption DEF ReceiveFuRequest, ProxyTypeOK
  <2> QED
    BY <1>7, <2>1, SameDiskType DEF ReceiveFuRequest, TableTypeOK, ProxyTypeOK, PeerTypeOK
<1>8. ASSUME NEW r \in ResourceIds, FuDiscard(r) PROVE TypeInv'
  <2>1. discardFIFO' \in Seq(ResourceIds)
    BY <1>8 DEF FuDiscard, TableTypeOK
  <2> QED
    BY <1>8, <2>1, SameDiskType DEF FuDiscard, TableTypeOK, ProxyTypeOK, PeerTypeOK
<1> QED
  BY <1>1, <1>2, <1>3, <1>4, <1>5, <1>6, <1>7, <1>8 DEF Evm

LEMMA DoWorkType ==
  ASSUME TypeInv, DoWork \/ SendOldMessages
  PROVE  TypeInv'
<1> USE DEF TypeInv, tableVars, evmMsgVars, evmVars, ruVars, fuVars
<1>1. ASSUME NEW r \in ResourceIds, CheckForCompleteEvent(r)
      PROVE  completeEventsFIFO' \in Seq(ResourceIds) /\ discardFIFO' \in Seq(ResourceIds)
  <2>1. \/ UNCHANGED << completeEventsFIFO, discardFIFO >>
        \/ discardFIFO' = Append(discardFIFO, r) /\ UNCHANGED completeEventsFIFO
        \/ completeEventsFIFO' = Append(completeEventsFIFO, r) /\ UNCHANGED discardFIFO
    BY <1>1, Zenon DEF CheckForCompleteEvent
  <2>2. completeEventsFIFO \in Seq(ResourceIds) /\ discardFIFO \in Seq(ResourceIds)
    BY DEF TableTypeOK
  <2>3. Append(completeEventsFIFO, r) \in Seq(ResourceIds) /\ Append(discardFIFO, r) \in Seq(ResourceIds)
    BY <2>2
  <2> QED
    BY <2>1, <2>2, <2>3, Zenon
<1>2. CASE StartConstruction
  <2> DEFINE t == Head(triggerFIFO)
             event == [evbId |-> t.evbId, blocks |-> [u \in RUs |-> << >>], nbCompleteSuperFragments |-> 1]
  <2>1. t \in EventPtr /\ Tail(triggerFIFO) \in Seq(EventPtr)
    BY <1>2, TailAt DEF StartConstruction, ProxyTypeOK
  <2>2. event \in Event /\ t.resource \in ResourceIds
    BY <2>1 DEF EventPtr, Event
  <2>3. Len(Tail(triggerFIFO)) <= TriggerFIFOCapacity
    <3>1. triggerFIFO \in Seq(EventPtr) /\ triggerFIFO # << >> /\ Len(triggerFIFO) <= TriggerFIFOCapacity
          /\ TriggerFIFOCapacity \in Nat
      BY <1>2, BuilderAssumption DEF StartConstruction, ProxyTypeOK
    <3>2. Len(Tail(triggerFIFO)) = Len(triggerFIFO) - 1 /\ Len(triggerFIFO) \in Nat
      BY <3>1
    <3> QED
      BY <3>1, <3>2
  <2>4. CASE t.resource \in DOMAIN data
    <3>1. Raise("SlotOccupied") /\ UNCHANGED << rqstForFrags, ruRequests >>
      BY <1>2, <2>4 DEF StartConstruction
    <3> QED
      BY <1>2, <2>1, <2>3, <3>1, SameDiskType DEF StartConstruction, Raise, TableTypeOK, ProxyTypeOK, PeerTypeOK
  <2>5. CASE t.resource \notin DOMAIN data
    <3>1. /\ data' = Insert(data, t.resource, event)
          /\ CheckForCompleteEvent(t.resource)
          /\ RequestDataForTrigger(t) \/ UNCHANGED << rqstForFrags, ruRequests >>
          /\ UNCHANGED failure
      BY <1>2, <2>5 DEF StartConstruction
    <3> HIDE DEF t, event
    <3>2. IsMap(data', ResourceIds, Event)
      BY <2>2, <3>1, InsertMap DEF TableTypeOK
    <3>3. TableTypeOK'
      BY <1>1, <1>2, <2>2, <3>1, <3>2 DEF StartConstruction, TableTypeOK
    <3>4. /\ rqstForFrags' \in Seq(EventPtr) /\ Len(rqstForFrags') < RuPacking
          /\ ruRequests' \in [RUs -> SUBSET EventPtr]
      BY <2>1, <3>1, RequestDataType DEF ProxyTypeOK, PeerTypeOK
    <3>5. triggerFIFO' = Tail(triggerFIFO)
      BY <1>2 DEF StartConstruction
    <3>6. ProxyTypeOK'
      BY <1>2, <2>1, <2>3, <3>4, <3>5 DEF StartConstruction, ProxyTypeOK
    <3>7. PeerTypeOK'
      BY <1>2, <3>1, <3>4 DEF StartConstruction, PeerTypeOK
    <3> QED
      BY <1>2, <3>3, <3>6, <3>7, SameDiskType DEF StartConstruction
  <2> QED
    BY <2>4, <2>5
<1>3. CASE AppendSuperFragment
  <2> DEFINE b == Head(blockFIFO)
  <2>1. b \in Block /\ Tail(blockFIFO) \in Seq(Block)
    BY <1>3, TailAt DEF AppendSuperFragment, ProxyTypeOK
  <2>2. Len(Tail(blockFIFO)) <= BlockFIFOCapacity
    <3>1. blockFIFO \in Seq(Block) /\ blockFIFO # << >> /\ Len(blockFIFO) <= BlockFIFOCapacity
          /\ BlockFIFOCapacity \in Nat
      BY <1>3, BuilderAssumption DEF AppendSuperFragment, ProxyTypeOK
    <3>2. Len(Tail(blockFIFO)) = Len(blockFIFO) - 1 /\ Len(blockFIFO) \in Nat
      BY <3>1
    <3> QED
      BY <3>1, <3>2
  <2>3. CASE b.resource \notin DOMAIN data
    <3>1. Raise("NotUnderConstruction")
      BY <1>3, <2>3 DEF AppendSuperFragment
    <3> QED
      BY <1>3, <2>1, <2>2, <3>1, SameDiskType
         DEF AppendSuperFragment, Raise, TableTypeOK, ProxyTypeOK, PeerTypeOK
  <2>4. CASE b.resource \in DOMAIN data
    <3>1. /\ data' = [data EXCEPT ![b.resource] = WithBlock(@, b)]
          /\ CheckForCompleteEvent(b.resource)
          /\ UNCHANGED failure
      BY <1>3, <2>4 DEF AppendSuperFragment
    <3>2. data[b.resource] \in Event
      BY <2>4 DEF TableTypeOK, IsMap
    <3>3. b.ru \in RUs /\ b.resource \in ResourceIds /\ << b.evbId, b.blockNb >> \in Events \X Nat
      BY <2>1 DEF Block
    <3> HIDE DEF b
    <3>4. WithBlock(data[b.resource], b) \in Event
      <4> DEFINE d == data[b.resource]
                 n == d.nbCompleteSuperFragments + (IF b.blockNb = NbBlocks[b.ru] THEN 1 ELSE 0)
                 B == [d.blocks EXCEPT ![b.ru] = Append(@, << b.evbId, b.blockNb >>)]
      <4>1. n \in Nat
        BY <3>2 DEF Event
      <4>2. B \in [RUs -> Seq(Events \X Nat)]
        <5>1. d.blocks \in [RUs -> Seq(Events \X Nat)]
          BY <3>2 DEF Event
        <5>2. Append(d.blocks[b.ru], << b.evbId, b.blockNb >>) \in Seq(Events \X Nat)
          BY <5>1, <3>3
        <5> QED
          BY <5>1, <5>2
      <4>3. WithBlock(d, b) = [evbId |-> d.evbId, blocks |-> B, nbCompleteSuperFragments |-> n]
        <5>1. d = [evbId |-> d.evbId, blocks |-> d.blocks, nbCompleteSuperFragments |-> d.nbCompleteSuperFragments]
          BY <3>2 DEF Event
        <5>2. WithBlock(d, b) = [[d EXCEPT !.blocks = B] EXCEPT !.nbCompleteSuperFragments = n]
          BY DEF WithBlock
        <5> HIDE DEF d, B, n
        <5> QED
          BY <5>1, <5>2
      <4> HIDE DEF n, B
      <4> QED
        BY <3>2, <4>1, <4>2, <4>3 DEF Event
    <3>5. IsMap(data', ResourceIds, Event)
      BY <2>4, <3>1, <3>4, UpdateMap DEF TableTypeOK
    <3>6. TableTypeOK'
      BY <1>1, <1>3, <3>1, <3>3, <3>5 DEF AppendSuperFragment, TableTypeOK
    <3>7. blockFIFO' = Tail(blockFIFO)
      BY <1>3 DEF AppendSuperFragment
    <3> QED
      BY <1>3, <2>1, <2>2, <3>1, <3>6, <3>7, SameDiskType
         DEF AppendSuperFragment, TableTypeOK, ProxyTypeOK, PeerTypeOK
  <2> QED
    BY <2>3, <2>4
<1>4. CASE SendOldEvmRequests
  <2>1. requests' \in Seq(ResourceIds) /\ released' \subseteq Events
        /\ evtIdRqstsAndOrReleases' \in EvtIdRqstsAndOrReleases /\ evtIdRqstsAndOrReleases'.nbElements < EvmPacking
    BY <1>4, BuilderAssumption
       DEF SendOldEvmRequests, PostToEVM, ProxyTypeOK, PeerTypeOK, EvtIdRqstsAndOrReleases, NoElements
  <2> QED
    BY <1>4, <2>1, SameDiskType DEF SendOldEvmRequests, TableTypeOK, ProxyTypeOK, PeerTypeOK
<1>5. CASE SendOldRuRequests
  <2>1. /\ rqstForFrags' \in Seq(EventPtr) /\ Len(rqstForFrags') < RuPacking
        /\ ruRequests' \in [RUs -> SUBSET EventPtr]
    BY <1>5, SendToRUsType DEF SendOldRuRequests, ProxyTypeOK
  <2> QED
    BY <1>5, <2>1, SameDiskType DEF SendOldRuRequests, TableTypeOK, ProxyTypeOK, PeerTypeOK
<1> QED
  BY <1>2, <1>3, <1>4, <1>5 DEF DoWork, SendOldMessages

LEMMA TableProcessType ==
  ASSUME TypeInv, CompleteKnown, TableProcess \/ ResourceMonitoring
  PROVE  TypeInv'
<1> USE DEF TypeInv, tableVars, evmMsgVars, evmVars, ruVars, fuVars
<1>1. CASE SendEvtIdRqsts
  <2> DEFINE e == [type |-> {"REQUEST"}, resource |-> Head(freeResourceIdFIFO), evbId |-> 0]
  <2>1. Head(freeResourceIdFIFO) \in ResourceIds /\ Tail(freeResourceIdFIFO) \in Seq(ResourceIds)
    BY <1>1, TailAt DEF SendEvtIdRqsts, TableTypeOK
  <2>2. e \in EvtIdRqstAndOrRelease /\ ("RELEASE" \in e.type => e.evbId \in Events)
    BY <2>1 DEF EvtIdRqstAndOrRelease
  <2>3. SendEvtIdRqstAndOrRelease(e)
    BY <1>1 DEF SendEvtIdRqsts
  <2> HIDE DEF e
  <2>4. ProxyTypeOK' /\ PeerTypeOK'
    BY <1>1, <2>2, <2>3, SendType DEF SendEvtIdRqsts, ProxyTypeOK, PeerTypeOK
  <2> QED
    BY <1>1, <2>1, <2>4, SameDiskType DEF SendEvtIdRqsts, TableTypeOK
<1>2. CASE HandleDiscards
  <2> DEFINE r == Head(discardFIFO)
             e == [type |-> {"RELEASE"} \cup (IF requestEvents THEN {"REQUEST"} ELSE {}),
                   resource |-> r, evbId |-> data[r].evbId]
  <2>1. r \in ResourceIds /\ Tail(discardFIFO) \in Seq(ResourceIds)
    BY <1>2, TailAt DEF HandleDiscards, TableTypeOK
  <2>2. CASE r \in DOMAIN data
    <3>1. FreeEvent(r) /\ UNCHANGED failure
      BY <1>2, <2>2 DEF HandleDiscards
    <3>2. data[r].evbId \in Events
      BY <2>2 DEF TableTypeOK, IsMap, Event
    <3>3. e \in EvtIdRqstAndOrRelease /\ e.evbId \in Events
      BY <2>1, <3>2 DEF EvtIdRqstAndOrRelease
    <3>4. SendEvtIdRqstAndOrRelease(e)
      BY <3>1 DEF FreeEvent
    <3>5. freeResourceIdFIFO' \in Seq(ResourceIds)
      BY <2>1, <3>1 DEF FreeEvent, TableTypeOK
    <3>6. IsMap(data', ResourceIds, Event)
      BY <3>1, EraseMap DEF FreeEvent, TableTypeOK
    <3> HIDE DEF e
    <3>7. ProxyTypeOK' /\ PeerTypeOK'
      BY <1>2, <3>1, <3>3, <3>4, SendType DEF HandleDiscards, ProxyTypeOK, PeerTypeOK
    <3> QED
      BY <1>2, <2>1, <3>5, <3>6, <3>7, SameDiskType DEF HandleDiscards, TableTypeOK
  <2>3. CASE r \notin DOMAIN data
    <3>1. failure' = "NonExistingEvent" /\ UNCHANGED << evmMsgVars, freeResourceIdFIFO, data >>
      BY <1>2, <2>3 DEF HandleDiscards
    <3> QED
      BY <1>2, <2>1, <3>1, SameDiskType DEF HandleDiscards, TableTypeOK, ProxyTypeOK, PeerTypeOK
  <2> QED
    BY <2>2, <2>3
<1>3. CASE WriteNextCompleteEvent
  <2> DEFINE r == Head(completeEventsFIFO)
  <2>1. r \in ResourceIds /\ Tail(completeEventsFIFO) \in Seq(ResourceIds) /\ r \in DOMAIN data
    <3>1. completeEventsFIFO \in Seq(ResourceIds) /\ completeEventsFIFO # << >>
      BY <1>3 DEF WriteNextCompleteEvent, TableTypeOK
    <3> QED
      BY <3>1, TailAt, RangeTail DEF CompleteKnown
  <2>2. EventOf(r) \in EventPtr
    BY <2>1 DEF EventOf, EventPtr, TableTypeOK, IsMap, Event
  <2>3. WriteEvent(EventOf(r))
    BY <1>3 DEF WriteNextCompleteEvent
  <2>4. eventFIFO' \in Seq(EventPtr)
    BY <2>2, <2>3 DEF WriteEvent, DiskTypeInv, DiskTypeOK
  <2>5. DiskTypeInv'
    BY <2>3, <2>4 DEF WriteEvent, DiskTypeInv, DiskTypeOK, WritersHaveEvents, FilesKnown
  <2> QED
    BY <1>3, <2>1, <2>5 DEF WriteNextCompleteEvent, TableTypeOK, ProxyTypeOK, PeerTypeOK
<1>4. CASE SendNextCompleteEventToFU
  <2>1. Head(completeEventsFIFO) \in ResourceIds /\ Tail(completeEventsFIFO) \in Seq(ResourceIds)
    BY <1>4, TailAt DEF SendNextCompleteEventToFU, TableTypeOK
  <2>2. nbFuRequests' \in 0..MaxFuRequests /\ atFU' \subseteq ResourceIds
    BY <1>4, <2>1, BuilderAssumption DEF SendNextCompleteEventToFU, ProxyTypeOK
  <2> QED
    BY <1>4, <2>1, <2>2, SameDiskType DEF SendNextCompleteEventToFU, TableTypeOK, ProxyTypeOK, PeerTypeOK
<1>5. CASE ResourceMonitoring
  BY <1>5, SameDiskType DEF ResourceMonitoring, TableTypeOK, ProxyTypeOK, PeerTypeOK
<1> QED
  BY <1>1, <1>2, <1>3, <1>4, <1>5 DEF TableProcess

LEMMA DiskStepType ==
  ASSUME TypeInv, WriteToDisks \/ \E w \in Writers : DiscardEvent(w)
  PROVE  TypeInv'
<1> USE DEF TypeInv, tableVars, evmMsgVars, evmVars, ruVars, fuVars
<1>1. CASE WriteToDisks
  <2>1. DiskTypeInv'
    BY <1>1, HandleEventsType, HandleEoLSType, WriterType DEF WriteToDisks
  <2>2. OnlyDisk
    BY <1>1 DEF WriteToDisks
  <2> QED
    BY <2>1, <2>2 DEF OnlyDisk, TableTypeOK, ProxyTypeOK, PeerTypeOK
<1>2. ASSUME NEW w \in Writers, DiscardEvent(w) PROVE TypeInv'
  <2>1. DiskTypeInv'
    BY <1>2, WriterType DEF DiscardEvent
  <2>2. writing[w].event \in EventPtr
    BY <1>2 DEF DiscardEvent, DiscardWritten, DiskTypeInv, WritersHaveEvents
  <2>3. discardFIFO' \in Seq(ResourceIds)
    BY <1>2, <2>2 DEF DiscardEvent, TableTypeOK, EventPtr
  <2> QED
    BY <1>2, <2>1, <2>3 DEF DiscardEvent, TableTypeOK, ProxyTypeOK, PeerTypeOK
<1> QED
  BY <1>1, <1>2

LEMMA NextTypeInv == TypeInv /\ CompleteKnown /\ [Next]_vars => TypeInv'
<1>1. ASSUME TypeInv, UNCHANGED vars PROVE TypeInv'
  BY <1>1, SameDiskType DEF vars, TypeInv, TableTypeOK, ProxyTypeOK, PeerTypeOK,
       tableVars, evmMsgVars, evmVars, ruVars, fuVars
<1> QED
  BY <1>1, EvmType, DoWorkType, TableProcessType, DiskStepType DEF Next


-----------------------------------------------------------------------------
(***************************************************************************)
(* The construction of the events.  The blocks that have come from an RU   *)
(* are the beginning of its super-fragment, and what has not come yet has  *)
(* been asked for or is on its way, once and in order.                     *)
(***************************************************************************)
Received(r, u) == Len(data[r].blocks[u])

Prefix ==
  \A r \in DOMAIN data, u \in RUs :
    /\ Received(r, u) <= NbBlocks[u]
    /\ \A i \in 1..Received(r, u) : data[r].blocks[u][i] = << data[r].evbId, i >>

AllReceived(r) == { u \in RUs : Received(r, u) = NbBlocks[u] }
Counted == \A r \in DOMAIN data : data[r].nbCompleteSuperFragments = Cardinality(AllReceived(r)) + 1

OfEvent(e) == e.resource \in DOMAIN data /\ data[e.resource].evbId = e.evbId

\* The requests an RU has not answered, sent or not.
Unanswered(u) == Range(rqstForFrags) \cup ruRequests[u]
RequestsInv ==
  \A u \in RUs :
    /\ Range(rqstForFrags) \cap ruRequests[u] = {}
    /\ \A t \in Unanswered(u) : OfEvent(t) /\ Received(t.resource, u) = 0

\* The blocks on their way from an RU to the event table.
InFlight(u) == { b \in Range(blockFIFO) : b.ru = u } \cup Range(fromRU[u])
BlocksInv ==
  \A u \in RUs :
    /\ \A b \in Range(fromRU[u]) : b.ru = u
    /\ \A b \in InFlight(u) :
         /\ OfEvent(b) /\ b.blockNb \in (Received(b.resource, u) + 1)..NbBlocks[u]
         /\ [resource |-> b.resource, evbId |-> b.evbId] \notin Unanswered(u)

BlocksComeInv ==
  \A r \in DOMAIN data, u \in RUs :
    \/ EventOf(r) \in Unanswered(u)
    \/ \A n \in (Received(r, u) + 1)..NbBlocks[u] :
         [ru |-> u, resource |-> r, evbId |-> data[r].evbId, blockNb |-> n] \in InFlight(u)

Before(b, c) == b.ru = c.ru /\ b.resource = c.resource => b.blockNb < c.blockNb
InOrder ==
  /\ \A i, j \in DOMAIN blockFIFO : i < j => Before(blockFIFO[i], blockFIFO[j])
  /\ \A u \in RUs : \A i, j \in DOMAIN fromRU[u] : i < j => Before(fromRU[u][i], fromRU[u][j])
  /\ \A u \in RUs : \A i \in DOMAIN blockFIFO, j \in DOMAIN fromRU[u] : Before(blockFIFO[i], fromRU[u][j])

ConstructionInv == Prefix /\ Counted /\ RequestsInv /\ BlocksInv /\ BlocksComeInv /\ InOrder

LEMMA ConcatAt ==
  ASSUME NEW S, NEW q \in Seq(S), NEW s \in Seq(S)
  PROVE  /\ Range(q \o s) = Range(q) \cup Range(s)
         /\ \A i \in DOMAIN q : i \in Nat /\ (q \o s)[i] = q[i]
         /\ \A i \in DOMAIN (q \o s) : \/ i \in DOMAIN q
                                       \/ i - Len(q) \in DOMAIN s /\ (q \o s)[i] = s[i - Len(q)]
         /\ Len(q) \in Nat /\ DOMAIN q = 1..Len(q) /\ DOMAIN (q \o s) \subseteq Nat
<1>1. /\ Len(q) \in Nat /\ DOMAIN q = 1..Len(q) /\ Len(s) \in Nat /\ DOMAIN s = 1..Len(s)
      /\ DOMAIN (q \o s) = 1..(Len(q) + Len(s))
      /\ \A i \in 1..(Len(q) + Len(s)) : (q \o s)[i] = IF i <= Len(q) THEN q[i] ELSE s[i - Len(q)]
  OBVIOUS
<1>2. \A i \in DOMAIN (q \o s) : \/ i \in DOMAIN q
                                 \/ i - Len(q) \in DOMAIN s /\ (q \o s)[i] = s[i - Len(q)]
  BY <1>1
<1>3. \A i \in DOMAIN q : i \in Nat /\ i \in DOMAIN (q \o s) /\ (q \o s)[i] = q[i]
  BY <1>1
<1>4. \A i \in DOMAIN s : i + Len(q) \in DOMAIN (q \o s) /\ (q \o s)[i + Len(q)] = s[i]
  BY <1>1
<1>5. Range(q \o s) = Range(q) \cup Range(s)
  <2>1. \A x : (\E i \in DOMAIN (q \o s) : (q \o s)[i] = x)
                <=> (\E i \in DOMAIN q : q[i] = x) \/ (\E i \in DOMAIN s : s[i] = x)
    BY <1>2, <1>3, <1>4
  <2> QED
    BY <2>1 DEF Range
<1> QED
  BY <1>1, <1>2, <1>3, <1>5

\* What the types say of the event in a slot.
LEMMA EventTypes ==
  ASSUME TypeInv, NEW r \in DOMAIN data
  PROVE  /\ r \in ResourceIds /\ data[r].evbId \in Events
         /\ data[r] = [evbId |-> data[r].evbId, blocks |-> data[r].blocks,
                       nbCompleteSuperFragments |-> data[r].nbCompleteSuperFragments]
         /\ data[r].nbCompleteSuperFragments \in Nat
         /\ data[r].blocks \in [RUs -> Seq(Events \X Nat)]
         /\ \A u \in RUs : Received(r, u) \in Nat /\ NbBlocks[u] \in Nat \ {0}
<1>1. data[r] \in Event /\ r \in ResourceIds
  BY DEF TypeInv, TableTypeOK, IsMap
<1>2. data[r].blocks \in [RUs -> Seq(Events \X Nat)]
  BY <1>1 DEF Event
<1>3. \A u \in RUs : Len(data[r].blocks[u]) \in Nat
  BY <1>2
<1> QED
  BY <1>1, <1>2, <1>3, BuilderAssumption DEF Received, Event

\* An event is complete when all RUs have sent all their blocks.
LEMMA CompleteHasAll ==
  ASSUME TypeInv, Counted, NEW r \in DOMAIN data
  PROVE  IsComplete(data[r]) <=> \A u \in RUs : Received(r, u) = NbBlocks[u]
<1>1. AllReceived(r) \subseteq RUs /\ IsFiniteSet(RUs)
  BY BuilderAssumption DEF AllReceived
<1>2. Cardinality(AllReceived(r)) \in Nat /\ Cardinality(RUs) \in Nat
      /\ (Cardinality(AllReceived(r)) = Cardinality(RUs) => AllReceived(r) = RUs)
  BY <1>1, FS_Subset, FS_CardinalityType
<1>3. IsComplete(data[r]) <=> Cardinality(AllReceived(r)) = Cardinality(RUs)
  BY <1>2 DEF IsComplete, Counted
<1> QED
  BY <1>2, <1>3 DEF AllReceived

LEMMA SameConstruction ==
  ASSUME ConstructionInv, UNCHANGED << data, rqstForFrags, ruRequests, fromRU, blockFIFO >>
  PROVE  ConstructionInv'
<1>1. Prefix' /\ Counted'
  BY DEF ConstructionInv, Prefix, Counted, Received, AllReceived
<1>2. RequestsInv' /\ BlocksInv'
  BY DEF ConstructionInv, RequestsInv, BlocksInv, Received, OfEvent, Unanswered, InFlight
<1>3. BlocksComeInv' /\ InOrder'
  BY DEF ConstructionInv, BlocksComeInv, InOrder, Before, Received, EventOf, Unanswered, InFlight
<1> QED
  BY <1>1, <1>2, <1>3 DEF ConstructionInv

\* Sending the requests changes nothing of what is unanswered.
LEMMA SendOldConstruction ==
  ASSUME TypeInv, ConstructionInv, SendOldRuRequests
  PROVE  ConstructionInv'
<1>1. /\ UNCHANGED << data, fromRU, blockFIFO >>
      /\ ruRequests' = [u \in RUs |-> ruRequests[u] \cup Range(rqstForFrags)] /\ rqstForFrags' = << >>
  BY DEF SendOldRuRequests, SendToAllRUs, tableVars
<1>2. Range(rqstForFrags') = {}
  BY <1>1 DEF Range
<1>3. \A u \in RUs : Unanswered(u)' = Unanswered(u)
  BY <1>1, <1>2 DEF Unanswered
<1>4. \A u \in RUs : InFlight(u)' = InFlight(u)
  BY <1>1 DEF InFlight
<1>5. Prefix' /\ Counted' /\ InOrder'
  BY <1>1 DEF ConstructionInv, Prefix, Counted, Received, AllReceived, InOrder, Before
<1>6. RequestsInv'
  BY <1>1, <1>2, <1>3 DEF ConstructionInv, RequestsInv, Received, OfEvent
<1>7. BlocksInv'
  BY <1>1, <1>3, <1>4 DEF ConstructionInv, BlocksInv, Received, OfEvent
<1>8. BlocksComeInv'
  BY <1>1, <1>3, <1>4 DEF ConstructionInv, BlocksComeInv, Received, EventOf
<1> QED
  BY <1>5, <1>6, <1>7, <1>8 DEF ConstructionInv

\* A new event has received nothing, and all of it is asked for.
LEMMA StartConstructionInv ==
  ASSUME TypeInv, ConstructionInv, StartConstruction, Head(triggerFIFO).resource \notin DOMAIN data
  PROVE  ConstructionInv'
<1>1. PICK t \in EventPtr : t = Head(triggerFIFO)
  <2>1. Head(triggerFIFO) \in EventPtr
    BY TailAt DEF StartConstruction, TypeInv, ProxyTypeOK
  <2> QED
    BY <2>1
<1> DEFINE r == t.resource
           event == [evbId |-> t.evbId, blocks |-> [u \in RUs |-> << >>], nbCompleteSuperFragments |-> 1]
<1>2. /\ data' = Insert(data, t.resource, event)
      /\ IF RUs # {} THEN RequestDataForTrigger(t) ELSE UNCHANGED << rqstForFrags, ruRequests >>
      /\ UNCHANGED << fromRU, blockFIFO >>
  BY <1>1 DEF StartConstruction
<1>3. rqstForFrags \in Seq(EventPtr)
  BY DEF TypeInv, ProxyTypeOK
<1>4. /\ r \notin DOMAIN data /\ DOMAIN data' = DOMAIN data \cup {r}
      /\ \A s \in DOMAIN data : data'[s] = data[s]
      /\ data'[r] = event
  BY <1>1, <1>2 DEF Insert
<1>5. \A u \in RUs : t \notin Unanswered(u)
  BY <1>4 DEF ConstructionInv, RequestsInv, OfEvent
<1>6. /\ \A s \in DOMAIN data, u \in RUs : Received(s, u)' = Received(s, u)
      /\ \A u \in RUs : Received(r, u)' = 0
  BY <1>4 DEF Received
<1>7. \A e : OfEvent(e) => OfEvent(e)' /\ e.resource \in DOMAIN data
  BY <1>4 DEF OfEvent
<1>8. t = [resource |-> r, evbId |-> t.evbId] /\ EventOf(r)' = t /\ OfEvent(t)'
      /\ \A s \in DOMAIN data : EventOf(s)' = EventOf(s)
  BY <1>1, <1>4 DEF EventPtr, EventOf, OfEvent
<1>9. \A u \in RUs : /\ Unanswered(u)' = Unanswered(u) \cup {t}
                     /\ Range(rqstForFrags)' \cap ruRequests'[u] = {}
  <2> SUFFICES ASSUME NEW u \in RUs
               PROVE  /\ Unanswered(u)' = Unanswered(u) \cup {t}
                      /\ Range(rqstForFrags)' \cap ruRequests'[u] = {}
    OBVIOUS
  <2> DEFINE msg == Append(rqstForFrags, t)
  <2>1. Range(msg) = Range(rqstForFrags) \cup {t}
    BY <1>1, <1>3, RangeAppend
  <2>2. \/ ruRequests' = [v \in RUs |-> ruRequests[v] \cup Range(msg)] /\ rqstForFrags' = << >>
        \/ rqstForFrags' = msg /\ UNCHANGED ruRequests
    BY <1>2 DEF RequestDataForTrigger, SendToAllRUs
  <2>3. Range(<< >>) = {}
    BY DEF Range
  <2> HIDE DEF msg
  <2>4. CASE ruRequests' = [v \in RUs |-> ruRequests[v] \cup Range(msg)] /\ rqstForFrags' = << >>
    BY <2>1, <2>3, <2>4 DEF Unanswered
  <2>5. CASE rqstForFrags' = msg /\ UNCHANGED ruRequests
    BY <1>5, <2>1, <2>5 DEF Unanswered, ConstructionInv, RequestsInv
  <2> QED
    BY <2>2, <2>4, <2>5
<1>10. \A u \in RUs : InFlight(u)' = InFlight(u)
  BY <1>2 DEF InFlight
<1>11. Prefix'
  <2>1. \A s \in DOMAIN data, u \in RUs :
          /\ Received(s, u)' <= NbBlocks[u]
          /\ \A i \in 1..Received(s, u)' : data'[s].blocks[u][i] = << data'[s].evbId, i >>
    BY <1>4, <1>6 DEF ConstructionInv, Prefix
  <2>2. \A u \in RUs : Received(r, u)' <= NbBlocks[u] /\ 1..Received(r, u)' = {}
    BY <1>6, BuilderAssumption
  <2> QED
    BY <1>4, <2>1, <2>2 DEF Prefix
<1>12. Counted'
  <2>1. \A s \in DOMAIN data : AllReceived(s)' = AllReceived(s)
    BY <1>6 DEF AllReceived
  <2>2. AllReceived(r)' = {}
    BY <1>6, BuilderAssumption DEF AllReceived
  <2>3. data'[r].nbCompleteSuperFragments = Cardinality({}) + 1
    BY <1>4, FS_EmptySet
  <2> QED
    BY <1>4, <2>1, <2>2, <2>3 DEF ConstructionInv, Counted
<1> HIDE DEF r, event
<1>13. RequestsInv'
  <2> SUFFICES ASSUME NEW u \in RUs, NEW e \in Unanswered(u)'
               PROVE  OfEvent(e)' /\ Received(e.resource, u)' = 0
    BY <1>9 DEF RequestsInv
  <2>1. CASE e = t
    BY <1>6, <1>8, <2>1 DEF r
  <2>2. CASE e \in Unanswered(u)
    BY <1>6, <1>7, <2>2 DEF ConstructionInv, RequestsInv
  <2> QED
    BY <1>9, <2>1, <2>2
<1>14. BlocksInv'
  <2> SUFFICES ASSUME NEW u \in RUs
               PROVE  /\ \A b \in Range(fromRU[u])' : b.ru = u
                      /\ \A b \in InFlight(u)' :
                           /\ OfEvent(b)' /\ b.blockNb \in (Received(b.resource, u)' + 1)..NbBlocks[u]
                           /\ [resource |-> b.resource, evbId |-> b.evbId] \notin Unanswered(u)'
    BY Zenon DEF BlocksInv
  <2>1. \A b \in InFlight(u) : OfEvent(b) /\ b.resource # r
    BY <1>4, <1>7 DEF ConstructionInv, BlocksInv
  <2> QED
    BY <1>2, <1>6, <1>7, <1>8, <1>9, <1>10, <2>1 DEF ConstructionInv, BlocksInv
<1>15. BlocksComeInv'
  BY <1>4, <1>6, <1>8, <1>9, <1>10 DEF ConstructionInv, BlocksComeInv
<1>16. InOrder'
  BY <1>2 DEF ConstructionInv, InOrder, Before
<1> QED
  BY <1>11, <1>12, <1>13, <1>14, <1>15, <1>16 DEF ConstructionInv

\* The blocks of a super-fragment.
Answer(u, t) ==
  [i \in 1..NbBlocks[u] |-> [ru |-> u, resource |-> t.resource, evbId |-> t.evbId, blockNb |-> i]]

LEMMA AnswerIs ==
  ASSUME NEW u \in RUs, NEW t \in EventPtr
  PROVE  /\ Answer(u, t) \in Seq(Block)
         /\ \A i \in DOMAIN Answer(u, t) : Answer(u, t)[i] \in Range(Answer(u, t))
         /\ \A b \in Range(Answer(u, t)) : /\ b.ru = u /\ b.resource = t.resource /\ b.evbId = t.evbId
                                          /\ b.blockNb \in 1..NbBlocks[u]
         /\ \A n \in 1..NbBlocks[u] :
              [ru |-> u, resource |-> t.resource, evbId |-> t.evbId, blockNb |-> n] \in Range(Answer(u, t))
         /\ \A i, j \in DOMAIN Answer(u, t) : i < j => Before(Answer(u, t)[i], Answer(u, t)[j])
<1> DEFINE answer == Answer(u, t)
<1>1. NbBlocks[u] \in Nat /\ DOMAIN answer = 1..NbBlocks[u]
  BY BuilderAssumption DEF Answer
<1>2. \A i \in 1..NbBlocks[u] : /\ answer[i] \in Block /\ i \in Nat
                                /\ answer[i].ru = u /\ answer[i].resource = t.resource
                                /\ answer[i].evbId = t.evbId /\ answer[i].blockNb = i
                                /\ answer[i] = [ru |-> u, resource |-> t.resource, evbId |-> t.evbId, blockNb |-> i]
  BY DEF EventPtr, Block, Answer
<1>3. answer \in [1..NbBlocks[u] -> Block]
  BY <1>2 DEF Answer
<1> HIDE DEF answer
<1>4. answer \in Seq(Block)
  BY <1>1, <1>3
<1>5. Range(answer) = { answer[i] : i \in 1..NbBlocks[u] }
  BY <1>1 DEF Range
<1>6. \A b \in Range(answer) : /\ b.ru = u /\ b.resource = t.resource /\ b.evbId = t.evbId
                               /\ b.blockNb \in 1..NbBlocks[u]
  <2> TAKE b \in Range(answer)
  <2>1. PICK n \in 1..NbBlocks[u] : b = answer[n]
    BY <1>5
  <2> QED
    BY <1>2, <2>1
<1>7. \A n \in 1..NbBlocks[u] :
        [ru |-> u, resource |-> t.resource, evbId |-> t.evbId, blockNb |-> n] \in Range(answer)
  <2>1. \A n \in 1..NbBlocks[u] :
          [ru |-> u, resource |-> t.resource, evbId |-> t.evbId, blockNb |-> n] = answer[n]
    BY <1>2
  <2> QED
    BY <1>5, <2>1
<1>8. \A i, j \in DOMAIN answer : i < j => Before(answer[i], answer[j])
  BY <1>1, <1>2 DEF Before
<1> QED
  BY <1>1, <1>4, <1>5, <1>6, <1>7, <1>8 DEF answer

\* An RU answers with all blocks of the event, and the request is no longer open.
LEMMA AnswerConstruction ==
  ASSUME TypeInv, ConstructionInv, NEW u \in RUs, AnswerRequest(u)
  PROVE  ConstructionInv'
<1>1. PICK t \in ruRequests[u] :
        /\ ruRequests' = [ruRequests EXCEPT ![u] = @ \ {t}]
        /\ fromRU' = [fromRU EXCEPT ![u] = @ \o Answer(u, t)]
  BY DEF AnswerRequest, Answer
<1> DEFINE answer == Answer(u, t)
<1>2. UNCHANGED << data, rqstForFrags, blockFIFO >>
  BY DEF AnswerRequest, tableVars
<1>3. /\ t \in EventPtr /\ NbBlocks[u] \in Nat
      /\ fromRU \in [RUs -> Seq(Block)] /\ ruRequests \in [RUs -> SUBSET EventPtr]
  BY BuilderAssumption DEF TypeInv, PeerTypeOK
<1>4. /\ answer \in Seq(Block)
      /\ \A i \in DOMAIN answer : answer[i] \in Range(answer)
      /\ \A b \in Range(answer) : /\ b.ru = u /\ b.resource = t.resource /\ b.evbId = t.evbId
                                  /\ b.blockNb \in 1..NbBlocks[u]
      /\ \A n \in 1..NbBlocks[u] :
           [ru |-> u, resource |-> t.resource, evbId |-> t.evbId, blockNb |-> n] \in Range(answer)
      /\ \A i, j \in DOMAIN answer : i < j => Before(answer[i], answer[j])
  BY <1>3, AnswerIs
<1>5. /\ fromRU'[u] = fromRU[u] \o answer
      /\ \A v \in RUs \ {u} : fromRU'[v] = fromRU[v] /\ ruRequests'[v] = ruRequests[v]
      /\ ruRequests'[u] = ruRequests[u] \ {t}
  BY <1>1, <1>3
<1> HIDE DEF answer
<1>6. /\ Range(fromRU'[u]) = Range(fromRU[u]) \cup Range(answer)
      /\ \A i \in DOMAIN fromRU[u] : i \in Nat /\ fromRU'[u][i] = fromRU[u][i]
      /\ \A i \in DOMAIN fromRU'[u] : \/ i \in DOMAIN fromRU[u]
                                      \/ /\ i - Len(fromRU[u]) \in DOMAIN answer
                                         /\ fromRU'[u][i] = answer[i - Len(fromRU[u])]
      /\ Len(fromRU[u]) \in Nat /\ DOMAIN fromRU[u] = 1..Len(fromRU[u]) /\ DOMAIN fromRU'[u] \subseteq Nat
  <2>1. fromRU[u] \in Seq(Block)
    BY <1>3
  <2>2. /\ Range(fromRU[u] \o answer) = Range(fromRU[u]) \cup Range(answer)
        /\ \A i \in DOMAIN fromRU[u] : i \in Nat /\ (fromRU[u] \o answer)[i] = fromRU[u][i]
        /\ \A i \in DOMAIN (fromRU[u] \o answer) :
             \/ i \in DOMAIN fromRU[u]
             \/ /\ i - Len(fromRU[u]) \in DOMAIN answer
                /\ (fromRU[u] \o answer)[i] = answer[i - Len(fromRU[u])]
        /\ Len(fromRU[u]) \in Nat /\ DOMAIN fromRU[u] = 1..Len(fromRU[u])
        /\ DOMAIN (fromRU[u] \o answer) \subseteq Nat
    BY <1>4, <2>1, ConcatAt
  <2> QED
    BY <1>5, <2>2
<1>7. /\ \A v \in RUs \ {u} : Unanswered(v)' = Unanswered(v) /\ InFlight(v)' = InFlight(v)
      /\ Unanswered(u)' = Unanswered(u) \ {t}
      /\ InFlight(u)' = InFlight(u) \cup Range(answer)
  BY <1>2, <1>5, <1>6 DEF Unanswered, InFlight, ConstructionInv, RequestsInv
<1>8. /\ DOMAIN data' = DOMAIN data /\ \A e : OfEvent(e)' <=> OfEvent(e)
      /\ \A r, v : Received(r, v)' = Received(r, v)
      /\ \A r : EventOf(r)' = EventOf(r)
  BY <1>2 DEF OfEvent, Received, EventOf
<1>9. OfEvent(t) /\ Received(t.resource, u) = 0 /\ EventOf(t.resource) = t
      /\ t = [resource |-> t.resource, evbId |-> t.evbId]
  BY <1>3 DEF ConstructionInv, RequestsInv, Unanswered, OfEvent, EventOf, EventPtr
<1>10. Prefix' /\ Counted'
  BY <1>2 DEF ConstructionInv, Prefix, Counted, Received, AllReceived
<1>11. RequestsInv'
  BY <1>2, <1>5, <1>7, <1>8 DEF ConstructionInv, RequestsInv
<1>12. BlocksInv'
  <2> SUFFICES ASSUME NEW v \in RUs
               PROVE  /\ \A b \in Range(fromRU[v])' : b.ru = v
                      /\ \A b \in InFlight(v)' :
                           /\ OfEvent(b)' /\ b.blockNb \in (Received(b.resource, v)' + 1)..NbBlocks[v]
                           /\ [resource |-> b.resource, evbId |-> b.evbId] \notin Unanswered(v)'
    BY Zenon DEF BlocksInv
  <2>1. \A b \in Range(answer) :
          /\ OfEvent(b) /\ b.blockNb \in (Received(b.resource, u) + 1)..NbBlocks[u]
          /\ [resource |-> b.resource, evbId |-> b.evbId] \notin Unanswered(u)'
    <3>1. \A b \in Range(answer) : OfEvent(b) /\ Received(b.resource, u) = 0
      BY <1>4, <1>9 DEF OfEvent
    <3> QED
      BY <1>3, <1>4, <1>7, <1>9, <3>1
  <2> QED
    <3>1. \A b \in Range(fromRU'[v]) : b.ru = v
      BY <1>4, <1>5, <1>6 DEF ConstructionInv, BlocksInv
    <3>2. \A b \in InFlight(v) :
            /\ OfEvent(b) /\ b.blockNb \in (Received(b.resource, v) + 1)..NbBlocks[v]
            /\ [resource |-> b.resource, evbId |-> b.evbId] \notin Unanswered(v)'
      <4>1. Unanswered(v)' \subseteq Unanswered(v)
        BY <1>7
      <4> QED
        BY <4>1 DEF ConstructionInv, BlocksInv
    <3>3. CASE v = u
      BY <1>7, <1>8, <2>1, <3>1, <3>2, <3>3
    <3>4. CASE v # u
      BY <1>7, <1>8, <3>1, <3>2, <3>4
    <3> QED
      BY <3>3, <3>4
<1>13. BlocksComeInv'
  <2> SUFFICES ASSUME NEW r \in DOMAIN data, NEW v \in RUs
               PROVE  \/ EventOf(r)' \in Unanswered(v)'
                      \/ \A n \in (Received(r, v)' + 1)..NbBlocks[v] :
                           [ru |-> v, resource |-> r, evbId |-> data'[r].evbId, blockNb |-> n] \in InFlight(v)'
    BY <1>8, Zenon DEF BlocksComeInv
  <2>1. CASE v = u /\ EventOf(r) = t
    <3>1. r = t.resource /\ data[r].evbId = t.evbId
      BY <2>1 DEF EventOf
    <3>2. (Received(r, u) + 1)..NbBlocks[u] = 1..NbBlocks[u]
      BY <1>9, <3>1
    <3> QED
      BY <1>2, <1>4, <1>7, <1>8, <2>1, <3>1, <3>2
  <2>2. CASE ~ (v = u /\ EventOf(r) = t)
    BY <1>2, <1>7, <1>8, <2>2 DEF ConstructionInv, BlocksComeInv
  <2> QED
    BY <2>1, <2>2
<1>14. InOrder'
  <2>1. \A b \in InFlight(u) : ~ (b.ru = u /\ b.resource = t.resource)
    <3>1. ASSUME NEW b \in InFlight(u), b.resource = t.resource PROVE FALSE
      <4>1. OfEvent(b) /\ [resource |-> b.resource, evbId |-> b.evbId] \notin Unanswered(u)
        BY DEF ConstructionInv, BlocksInv
      <4>2. b.evbId = t.evbId
        BY <1>9, <3>1, <4>1 DEF OfEvent
      <4> QED
        BY <1>9, <3>1, <4>1, <4>2 DEF Unanswered
    <3> QED
      BY <3>1
  <2>2. \A b \in InFlight(u), c \in Range(answer) : Before(b, c)
    BY <1>4, <2>1 DEF Before
  <2>3. \A i \in DOMAIN fromRU[u] : fromRU[u][i] \in InFlight(u)
    BY DEF InFlight, Range
  <2>4. \A i \in DOMAIN fromRU'[u] : i \in DOMAIN fromRU[u] \/ fromRU'[u][i] \in Range(answer)
    BY <1>4, <1>6
  <2>5. ASSUME NEW i \in DOMAIN fromRU'[u], NEW j \in DOMAIN fromRU'[u], i < j
        PROVE  Before(fromRU'[u][i], fromRU'[u][j])
    <3>1. CASE j \in DOMAIN fromRU[u]
      <4>1. i \in DOMAIN fromRU[u]
        BY <1>6, <2>5, <3>1, SMTT(60)
      <4> QED
        BY <1>6, <2>5, <3>1, <4>1 DEF ConstructionInv, InOrder
    <3>2. CASE i \in DOMAIN fromRU[u] /\ j \notin DOMAIN fromRU[u]
      BY <1>6, <2>2, <2>3, <2>4, <3>2
    <3>3. CASE i \notin DOMAIN fromRU[u] /\ j \notin DOMAIN fromRU[u]
      <4>1. i - Len(fromRU[u]) \in DOMAIN answer /\ j - Len(fromRU[u]) \in DOMAIN answer
            /\ i - Len(fromRU[u]) < j - Len(fromRU[u])
        BY <1>6, <2>5, <3>3
      <4> QED
        BY <1>4, <1>6, <3>3, <4>1
    <3> QED
      BY <3>1, <3>2, <3>3
  <2>6. ASSUME NEW i \in DOMAIN blockFIFO, NEW j \in DOMAIN fromRU'[u]
        PROVE  Before(blockFIFO[i], fromRU'[u][j])
    <3>1. CASE j \in DOMAIN fromRU[u]
      BY <1>6, <3>1 DEF ConstructionInv, InOrder
    <3>2. CASE j \notin DOMAIN fromRU[u]
      <4>1. fromRU'[u][j] \in Range(answer)
        BY <2>4, <3>2
      <4>2. CASE blockFIFO[i].ru = u
        <5>1. blockFIFO[i] \in InFlight(u)
          BY <4>2 DEF InFlight, Range
        <5> QED
          BY <2>2, <4>1, <5>1
      <4>3. CASE blockFIFO[i].ru # u
        BY <1>4, <4>1, <4>3 DEF Before
      <4> QED
        BY <4>2, <4>3
    <3> QED
      BY <3>1, <3>2
  <2> QED
    <3>1. \A v \in RUs : \A i, j \in DOMAIN fromRU'[v] : i < j => Before(fromRU'[v][i], fromRU'[v][j])
      BY <1>5, <2>5 DEF ConstructionInv, InOrder
    <3>2. \A v \in RUs : \A i \in DOMAIN blockFIFO, j \in DOMAIN fromRU'[v] : Before(blockFIFO[i], fromRU'[v][j])
      BY <1>5, <2>6 DEF ConstructionInv, InOrder
    <3> QED
      BY <1>2, <3>1, <3>2 DEF ConstructionInv, InOrder, Before
<1> QED
  BY <1>10, <1>11, <1>12, <1>13, <1>14 DEF ConstructionInv

\* A block goes from the network to the BU's queue.
LEMMA ReceiveBlockConstruction ==
  ASSUME TypeInv, ConstructionInv, NEW u \in RUs, ReceiveBlock(u)
  PROVE  ConstructionInv'
<1>1. /\ fromRU[u] # << >> /\ fromRU[u] \in Seq(Block) /\ blockFIFO \in Seq(Block)
      /\ blockFIFO' = Append(blockFIFO, Head(fromRU[u]))
      /\ fromRU'[u] = Tail(fromRU[u]) /\ \A v \in RUs \ {u} : fromRU'[v] = fromRU[v]
      /\ UNCHANGED << data, rqstForFrags, ruRequests >>
  BY DEF ReceiveBlock, TypeInv, PeerTypeOK, ProxyTypeOK, tableVars
<1>2. PICK h \in Block : h = Head(fromRU[u])
  <2>1. Head(fromRU[u]) \in Block
    BY <1>1, TailAt
  <2> QED
    BY <2>1
<1>3. /\ 1 \in DOMAIN fromRU[u] /\ fromRU[u][1] = h
      /\ \A i \in DOMAIN fromRU'[u] : i \in Nat /\ i + 1 \in DOMAIN fromRU[u] /\ fromRU'[u][i] = fromRU[u][i + 1] /\ 1 < i + 1
  <2>1. \A i \in DOMAIN Tail(fromRU[u]) : i \in Nat /\ i + 1 # 1
    BY <1>1, TailAt
  <2>2. \A i \in DOMAIN Tail(fromRU[u]) : 1 < i + 1
    BY <2>1
  <2> QED
    BY <1>1, <1>2, <2>2, TailAt
<1>4. /\ DOMAIN blockFIFO' = DOMAIN blockFIFO \cup {Len(blockFIFO) + 1}
      /\ DOMAIN blockFIFO = 1..Len(blockFIFO) /\ Len(blockFIFO) \in Nat
      /\ \A i \in DOMAIN blockFIFO : blockFIFO'[i] = blockFIFO[i]
      /\ blockFIFO'[Len(blockFIFO) + 1] = h
  BY <1>1, <1>2, AppendAt
<1>5. /\ Range(fromRU[u]) = Range(fromRU'[u]) \cup {h}
      /\ Range(blockFIFO') = Range(blockFIFO) \cup {h}
  BY <1>1, <1>2, RangeTail, RangeAppend
<1>6. h.ru = u
  BY <1>5 DEF ConstructionInv, BlocksInv
<1>7. \A v \in RUs : Unanswered(v)' = Unanswered(v) /\ InFlight(v)' = InFlight(v)
  BY <1>1, <1>5, <1>6 DEF Unanswered, InFlight
<1>8. /\ DOMAIN data' = DOMAIN data /\ \A e : OfEvent(e)' <=> OfEvent(e)
      /\ \A r, v : Received(r, v)' = Received(r, v)
      /\ \A r : EventOf(r)' = EventOf(r)
  BY <1>1 DEF OfEvent, Received, EventOf
<1>9. Prefix' /\ Counted'
  BY <1>1 DEF ConstructionInv, Prefix, Counted, Received, AllReceived
<1>10. RequestsInv'
  BY <1>1, <1>7, <1>8 DEF ConstructionInv, RequestsInv
<1>11. BlocksInv'
  BY <1>1, <1>5, <1>7, <1>8 DEF ConstructionInv, BlocksInv
<1>12. BlocksComeInv'
  BY <1>1, <1>7, <1>8 DEF ConstructionInv, BlocksComeInv
<1>13. InOrder'
  <2>1. \A v \in RUs : \A j \in DOMAIN fromRU'[v] : Before(h, fromRU'[v][j])
    <3>1. \A j \in DOMAIN fromRU'[u] : Before(h, fromRU'[u][j])
      <4>1. \A i \in DOMAIN fromRU[u] : 1 < i => Before(fromRU[u][1], fromRU[u][i])
        BY <1>3 DEF ConstructionInv, InOrder
      <4> QED
        BY <1>3, <4>1 DEF Before
    <3>2. \A v \in RUs \ {u} : \A j \in DOMAIN fromRU[v] : fromRU[v][j].ru = v
      BY DEF ConstructionInv, BlocksInv, Range
    <3>3. \A v \in RUs \ {u} : \A j \in DOMAIN fromRU'[v] : Before(h, fromRU'[v][j])
      BY <1>1, <1>6, <3>2 DEF Before
    <3> QED
      BY <3>1, <3>3
  <2>2. \A i, j \in DOMAIN blockFIFO' : i < j => Before(blockFIFO'[i], blockFIFO'[j])
    <3>1. \A i \in DOMAIN blockFIFO : Before(blockFIFO[i], h)
      BY <1>3 DEF ConstructionInv, InOrder
    <3>2. \A i, j \in DOMAIN blockFIFO' : i < j => i \in DOMAIN blockFIFO
      BY <1>4
    <3> QED
      BY <1>4, <3>1, <3>2 DEF ConstructionInv, InOrder
  <2>3. \A v \in RUs : \A i, j \in DOMAIN fromRU'[v] : i < j => Before(fromRU'[v][i], fromRU'[v][j])
    <3>1. ASSUME NEW i \in DOMAIN fromRU'[u], NEW j \in DOMAIN fromRU'[u], i < j
          PROVE  Before(fromRU'[u][i], fromRU'[u][j])
      <4>1. i + 1 < j + 1
        BY <1>3, <3>1
      <4> QED
        BY <1>3, <4>1 DEF ConstructionInv, InOrder
    <3> QED
      BY <1>1, <3>1 DEF ConstructionInv, InOrder
  <2>4. \A v \in RUs : \A i \in DOMAIN blockFIFO', j \in DOMAIN fromRU'[v] : Before(blockFIFO'[i], fromRU'[v][j])
    <3>1. \A v \in RUs : \A i \in DOMAIN blockFIFO, j \in DOMAIN fromRU'[v] : Before(blockFIFO[i], fromRU'[v][j])
      BY <1>1, <1>3 DEF ConstructionInv, InOrder
    <3> QED
      BY <1>4, <2>1, <3>1
  <2> QED
    BY <2>2, <2>3, <2>4 DEF InOrder, Before
<1> QED
  BY <1>9, <1>10, <1>11, <1>12, <1>13 DEF ConstructionInv

\* An event takes the next block of its RU's super-fragment and no other.
LEMMA NextBlock ==
  ASSUME TypeInv, ConstructionInv, blockFIFO # << >>, NEW b, b = Head(blockFIFO)
  PROVE  /\ b \in Block /\ OfEvent(b)
         /\ b.blockNb = Received(b.resource, b.ru) + 1 /\ b.blockNb \in 1..NbBlocks[b.ru]
         /\ \A u \in RUs : \A c \in InFlight(u)' :
              blockFIFO' = Tail(blockFIFO) /\ fromRU' = fromRU => c \in InFlight(u) /\ Before(b, c)
<1>1. blockFIFO \in Seq(Block)
  BY DEF TypeInv, ProxyTypeOK
<1>2. /\ b \in Block /\ 1 \in DOMAIN blockFIFO /\ blockFIFO[1] = b
      /\ \A i \in DOMAIN blockFIFO : i \in Nat
      /\ \A i \in DOMAIN Tail(blockFIFO) : i + 1 # 1 /\ i + 1 \in DOMAIN blockFIFO /\ Tail(blockFIFO)[i] = blockFIFO[i + 1]
  BY <1>1, TailAt
<1> DEFINE u == b.ru
           r == b.resource
<1>3. u \in RUs /\ r \in ResourceIds /\ b.evbId \in Events /\ b.blockNb \in Nat
      /\ b = [ru |-> u, resource |-> r, evbId |-> b.evbId, blockNb |-> b.blockNb]
  BY <1>2 DEF Block
<1>4. b \in InFlight(u)
  BY <1>2 DEF InFlight, Range
<1>5. /\ OfEvent(b) /\ b.blockNb \in (Received(r, u) + 1)..NbBlocks[u]
      /\ [resource |-> r, evbId |-> b.evbId] \notin Unanswered(u)
  BY <1>3, <1>4 DEF ConstructionInv, BlocksInv
<1>6. r \in DOMAIN data /\ data[r].evbId = b.evbId /\ EventOf(r) = [resource |-> r, evbId |-> b.evbId]
  BY <1>5 DEF OfEvent, EventOf
<1>7. Received(r, u) \in Nat /\ NbBlocks[u] \in Nat
  BY <1>3, <1>6, EventTypes
<1> DEFINE next == [ru |-> u, resource |-> r, evbId |-> b.evbId, blockNb |-> Received(r, u) + 1]
<1>8. next \in InFlight(u)
  <2>1. \A n \in (Received(r, u) + 1)..NbBlocks[u] :
          [ru |-> u, resource |-> r, evbId |-> data[r].evbId, blockNb |-> n] \in InFlight(u)
    BY <1>3, <1>5, <1>6 DEF ConstructionInv, BlocksComeInv
  <2>2. Received(r, u) + 1 \in (Received(r, u) + 1)..NbBlocks[u]
    BY <1>5, <1>7
  <2> QED
    BY <1>6, <2>1, <2>2
<1> HIDE DEF next
<1>9. \A i \in DOMAIN blockFIFO : i # 1 => Before(b, blockFIFO[i])
  <2>1. \A i \in DOMAIN blockFIFO : i # 1 => 1 < i
    BY <1>1
  <2> QED
    BY <1>2, <2>1 DEF ConstructionInv, InOrder
<1>10. \A v \in RUs : \A j \in DOMAIN fromRU[v] : Before(b, fromRU[v][j])
  BY <1>2 DEF ConstructionInv, InOrder
<1>11. b.blockNb = Received(r, u) + 1
  <2>1. next = b \/ Before(b, next)
    BY <1>2, <1>3, <1>8, <1>9, <1>10 DEF InFlight, Range
  <2>2. Before(b, next) => b.blockNb < Received(r, u) + 1
    BY DEF Before, next
  <2>3. next.blockNb = Received(r, u) + 1
    BY DEF next
  <2> QED
    BY <1>5, <1>7, <2>1, <2>2, <2>3
<1>12. ASSUME blockFIFO' = Tail(blockFIFO), fromRU' = fromRU, NEW v \in RUs, NEW c \in InFlight(v)'
       PROVE  c \in InFlight(v) /\ Before(b, c)
  <2>1. CASE \E i \in DOMAIN Tail(blockFIFO) : c = Tail(blockFIFO)[i] /\ c.ru = v
    BY <1>2, <1>9, <2>1 DEF InFlight, Range
  <2>2. CASE \E j \in DOMAIN fromRU[v] : c = fromRU[v][j]
    BY <1>10, <2>2 DEF InFlight, Range
  <2> QED
    BY <1>12, <2>1, <2>2 DEF InFlight, Range
<1> QED
  BY <1>2, <1>5, <1>7, <1>11, <1>12

LEMMA AppendConstruction ==
  ASSUME TypeInv, ConstructionInv, AppendSuperFragment
  PROVE  /\ ConstructionInv'
         /\ Head(blockFIFO).resource \in DOMAIN data
         /\ ~ IsComplete(data[Head(blockFIFO).resource])
<1>1. PICK b \in Block, u \in RUs, r \in ResourceIds, e \in Events \X Nat :
        b = Head(blockFIFO) /\ u = b.ru /\ r = b.resource /\ e = << b.evbId, b.blockNb >>
  <2>1. Head(blockFIFO) \in Block
    BY NextBlock DEF AppendSuperFragment
  <2> QED
    BY <2>1 DEF Block
<1>2. /\ OfEvent(b) /\ b.blockNb = Received(r, u) + 1 /\ b.blockNb \in 1..NbBlocks[u]
      /\ u \in RUs /\ b.blockNb \in Nat
  BY <1>1, NextBlock DEF AppendSuperFragment, Block
<1>3. r \in DOMAIN data /\ data[r].evbId = b.evbId
  BY <1>1, <1>2 DEF OfEvent
<1>4. /\ data' = [data EXCEPT ![r] = WithBlock(@, b)] /\ blockFIFO' = Tail(blockFIFO)
      /\ UNCHANGED << rqstForFrags, ruRequests, fromRU >>
  BY <1>1, <1>3 DEF AppendSuperFragment
<1>5. \A v \in RUs : /\ Unanswered(v)' = Unanswered(v)
                     /\ \A c \in InFlight(v)' : c \in InFlight(v) /\ Before(b, c)
  BY <1>1, <1>4, NextBlock DEF Unanswered, AppendSuperFragment
<1>6. /\ data[r] = [evbId |-> data[r].evbId, blocks |-> data[r].blocks,
                    nbCompleteSuperFragments |-> data[r].nbCompleteSuperFragments]
      /\ data[r].nbCompleteSuperFragments \in Nat /\ data[r].blocks \in [RUs -> Seq(Events \X Nat)]
      /\ \A v \in RUs : Received(r, v) \in Nat /\ NbBlocks[v] \in Nat
      /\ b.evbId \in Events
  BY <1>3, EventTypes
<1> DEFINE n == data[r].nbCompleteSuperFragments + (IF b.blockNb = NbBlocks[u] THEN 1 ELSE 0)
           B == [data[r].blocks EXCEPT ![u] = Append(@, e)]
<1>7. WithBlock(data[r], b) = [evbId |-> data[r].evbId, blocks |-> B, nbCompleteSuperFragments |-> n]
  <2>1. WithBlock(data[r], b) = [[data[r] EXCEPT !.blocks = B] EXCEPT !.nbCompleteSuperFragments = n]
    BY <1>1 DEF WithBlock
  <2> HIDE DEF B, n
  <2> QED
    BY <1>6, <2>1
<1>8. /\ DOMAIN data' = DOMAIN data /\ \A s \in DOMAIN data \ {r} : data'[s] = data[s]
      /\ data'[r] = WithBlock(data[r], b)
  BY <1>3, <1>4
<1>9. /\ \A v \in RUs \ {u} : data'[r].blocks[v] = data[r].blocks[v]
      /\ data'[r].blocks[u] = Append(data[r].blocks[u], e)
      /\ data'[r].evbId = data[r].evbId /\ data'[r].nbCompleteSuperFragments = n
  <2>1. /\ \A v \in RUs \ {u} : B[v] = data[r].blocks[v]
        /\ B[u] = Append(data[r].blocks[u], e)
    BY <1>2, <1>6
  <2>2. data'[r] = [evbId |-> data[r].evbId, blocks |-> B, nbCompleteSuperFragments |-> n]
    BY <1>7, <1>8, Zenon
  <2> HIDE DEF B, n
  <2> QED
    BY <2>1, <2>2
<1> HIDE DEF n, B
<1>10. /\ \A t : OfEvent(t)' <=> OfEvent(t)
       /\ \A s \in DOMAIN data : EventOf(s)' = EventOf(s) /\ data'[s].evbId = data[s].evbId
  BY <1>8, <1>9 DEF OfEvent, EventOf
<1>11. /\ \A s \in DOMAIN data, v \in RUs : ~ (s = r /\ v = u) => Received(s, v)' = Received(s, v)
       /\ Received(r, u)' = Received(r, u) + 1
  <2>1. data[r].blocks[u] \in Seq(Events \X Nat)
    BY <1>6
  <2>2. Len(data'[r].blocks[u]) = Len(data[r].blocks[u]) + 1
    BY <1>9, <2>1, AppendAt
  <2>3. \A s \in DOMAIN data, v \in RUs : ~ (s = r /\ v = u) => data'[s].blocks[v] = data[s].blocks[v]
    BY <1>8, <1>9
  <2> QED
    BY <2>2, <2>3 DEF Received
<1>12. Prefix'
  <2>1. \A s \in DOMAIN data, v \in RUs : ~ (s = r /\ v = u) =>
          /\ Received(s, v)' <= NbBlocks[v]
          /\ \A i \in 1..Received(s, v)' : data'[s].blocks[v][i] = << data'[s].evbId, i >>
    <3>1. \A s \in DOMAIN data, v \in RUs : ~ (s = r /\ v = u) => data'[s].blocks[v] = data[s].blocks[v]
      BY <1>8, <1>9
    <3> QED
      BY <1>10, <1>11, <3>1 DEF ConstructionInv, Prefix
  <2>2. Received(r, u)' <= NbBlocks[u]
    BY <1>2, <1>6, <1>11
  <2>3. \A i \in 1..Received(r, u)' : data'[r].blocks[u][i] = << data'[r].evbId, i >>
    <3>1. data[r].blocks[u] \in Seq(Events \X Nat)
      BY <1>6
    <3>2. /\ \A i \in 1..Received(r, u) : data'[r].blocks[u][i] = data[r].blocks[u][i]
          /\ data'[r].blocks[u][Received(r, u) + 1] = e
      BY <1>9, <3>1, AppendAt, SMTT(60) DEF Received
    <3>3. \A i \in 1..Received(r, u) : data[r].blocks[u][i] = << data[r].evbId, i >>
      BY <1>2, <1>3 DEF ConstructionInv, Prefix
    <3>4. \A i \in 1..Received(r, u)' : i \in 1..Received(r, u) \/ i = Received(r, u) + 1
      <4>1. \A k \in Nat : \A i \in 1..(k + 1) : i \in 1..k \/ i = k + 1
        OBVIOUS
      <4> QED
        BY <1>2, <1>6, <1>11, <4>1
    <3>5. e = << data'[r].evbId, Received(r, u) + 1 >>
      BY <1>1, <1>2, <1>3, <1>9
    <3>6. \A i \in 1..Received(r, u) : data'[r].blocks[u][i] = << data'[r].evbId, i >>
      BY <1>9, <3>2, <3>3
    <3> QED
      BY <3>2, <3>4, <3>5, <3>6
  <2> QED
    BY <1>8, <2>1, <2>2, <2>3 DEF Prefix
<1>13. Counted'
  <2>1. \A s \in DOMAIN data \ {r} : AllReceived(s)' = AllReceived(s)
    BY <1>11 DEF AllReceived
  <2>2. /\ u \notin AllReceived(r)
        /\ AllReceived(r)' = IF b.blockNb = NbBlocks[u] THEN AllReceived(r) \cup {u} ELSE AllReceived(r)
    BY <1>2, <1>3, <1>6, <1>11 DEF AllReceived
  <2>3. IsFiniteSet(AllReceived(r)) /\ Cardinality(AllReceived(r)) \in Nat
        /\ Cardinality(AllReceived(r) \cup {u}) = Cardinality(AllReceived(r)) + 1
    BY <2>2, BuilderAssumption, FS_Subset, FS_CardinalityType, FS_AddElement DEF AllReceived
  <2>4. data[r].nbCompleteSuperFragments = Cardinality(AllReceived(r)) + 1
    BY <1>3 DEF ConstructionInv, Counted
  <2>5. data'[r].nbCompleteSuperFragments = Cardinality(AllReceived(r)') + 1
    <3>1. CASE b.blockNb = NbBlocks[u]
      BY <1>9, <2>2, <2>3, <2>4, <3>1 DEF n
    <3>2. CASE b.blockNb # NbBlocks[u]
      BY <1>6, <1>9, <2>2, <2>4, <3>2 DEF n
    <3> QED
      BY <3>1, <3>2
  <2> QED
    BY <1>8, <2>1, <2>5 DEF ConstructionInv, Counted
<1>14. \A v \in RUs : ~ (v = u /\ EventOf(r) \in Unanswered(v))
  <2>1. b \in InFlight(u)
    <3>1. 1 \in DOMAIN blockFIFO /\ blockFIFO[1] = b
      BY <1>1, TailAt DEF AppendSuperFragment, TypeInv, ProxyTypeOK
    <3> QED
      BY <1>1, <3>1 DEF InFlight, Range
  <2>2. EventOf(r) = [resource |-> b.resource, evbId |-> b.evbId]
    BY <1>1, <1>3 DEF EventOf
  <2> QED
    BY <1>2, <2>1, <2>2 DEF ConstructionInv, BlocksInv
<1>15. RequestsInv'
  <2> SUFFICES ASSUME NEW v \in RUs, NEW t \in Unanswered(v)
               PROVE  OfEvent(t) /\ Received(t.resource, v)' = 0
    BY <1>4, <1>5, <1>10 DEF RequestsInv, ConstructionInv
  <2>1. OfEvent(t) /\ Received(t.resource, v) = 0 /\ t.resource \in DOMAIN data
    BY DEF ConstructionInv, RequestsInv, OfEvent
  <2>2. t.resource = r => EventOf(r) = t
    <3>1. t \in EventPtr
      BY DEF Unanswered, TypeInv, ProxyTypeOK, PeerTypeOK, Range
    <3> QED
      BY <2>1, <3>1 DEF EventPtr, EventOf, OfEvent
  <2> QED
    BY <1>11, <1>14, <2>1, <2>2
<1>16. BlocksInv'
  <2> SUFFICES ASSUME NEW v \in RUs, NEW c \in InFlight(v)'
               PROVE  c.blockNb \in (Received(c.resource, v)' + 1)..NbBlocks[v]
    <3>1. \A v \in RUs : \A c \in Range(fromRU[v])' : c.ru = v
      BY <1>4 DEF ConstructionInv, BlocksInv
    <3>2. \A v \in RUs : \A c \in InFlight(v)' :
            OfEvent(c)' /\ [resource |-> c.resource, evbId |-> c.evbId] \notin Unanswered(v)'
      BY <1>5, <1>10 DEF ConstructionInv, BlocksInv
    <3> QED
      BY <3>1, <3>2, Zenon DEF BlocksInv
  <2>1. c \in InFlight(v) /\ c.ru = v /\ c.resource \in DOMAIN data
        /\ c.blockNb \in (Received(c.resource, v) + 1)..NbBlocks[v]
    BY <1>5 DEF ConstructionInv, BlocksInv, OfEvent, InFlight
  <2>2. CASE c.resource = r /\ v = u
    <3>1. b.blockNb < c.blockNb
      BY <1>1, <1>5, <2>1, <2>2 DEF Before
    <3> QED
      BY <1>2, <1>6, <1>11, <2>1, <2>2, <3>1
  <2>3. CASE ~ (c.resource = r /\ v = u)
    BY <1>11, <2>1, <2>3
  <2> QED
    BY <2>2, <2>3
<1>17. BlocksComeInv'
  <2> SUFFICES ASSUME NEW s \in DOMAIN data, NEW v \in RUs, EventOf(s) \notin Unanswered(v),
                      NEW i \in (Received(s, v)' + 1)..NbBlocks[v]
               PROVE  [ru |-> v, resource |-> s, evbId |-> data[s].evbId, blockNb |-> i] \in InFlight(v)'
    BY <1>5, <1>8, <1>10 DEF BlocksComeInv
  <2> DEFINE c == [ru |-> v, resource |-> s, evbId |-> data[s].evbId, blockNb |-> i]
  <2>1. i \in (Received(s, v) + 1)..NbBlocks[v] /\ c # b
    <3>1. Received(s, v) \in Nat /\ NbBlocks[v] \in Nat
      BY EventTypes
    <3>2. CASE s = r /\ v = u
      <4>1. /\ i \in (Received(r, u) + 2)..NbBlocks[u] /\ c.blockNb = i
        BY <1>11, <3>1, <3>2
      <4> QED
        BY <1>2, <3>1, <3>2, <4>1
    <3>3. CASE ~ (s = r /\ v = u)
      BY <1>1, <1>11, <3>3
    <3> QED
      BY <3>2, <3>3
  <2>2. c \in InFlight(v)
    BY <2>1 DEF ConstructionInv, BlocksComeInv
  <2>3. Range(blockFIFO) = Range(blockFIFO') \cup {b}
    BY <1>1, <1>4, RangeTail DEF AppendSuperFragment, TypeInv, ProxyTypeOK
  <2> HIDE DEF c
  <2>4. c \in InFlight(v)'
    BY <1>4, <2>1, <2>2, <2>3 DEF InFlight
  <2> QED
    BY <2>4 DEF c
<1>18. InOrder'
  <2>1. \A i \in DOMAIN blockFIFO' : i \in Nat /\ i + 1 \in DOMAIN blockFIFO /\ blockFIFO'[i] = blockFIFO[i + 1]
    BY <1>4, TailAt DEF AppendSuperFragment, TypeInv, ProxyTypeOK
  <2>2. ASSUME NEW i \in DOMAIN blockFIFO', NEW j \in DOMAIN blockFIFO', i < j
        PROVE  Before(blockFIFO'[i], blockFIFO'[j])
    <3>1. i + 1 < j + 1
      BY <2>1, <2>2
    <3> QED
      BY <2>1, <3>1 DEF ConstructionInv, InOrder
  <2> QED
    BY <1>4, <2>1, <2>2 DEF ConstructionInv, InOrder, Before
<1>19. ~ IsComplete(data[r])
  <2>1. Received(r, u) # NbBlocks[u]
    BY <1>2, <1>6
  <2> QED
    BY <1>2, <1>3, <2>1, CompleteHasAll DEF ConstructionInv
<1> QED
  BY <1>1, <1>3, <1>12, <1>13, <1>15, <1>16, <1>17, <1>18, <1>19 DEF ConstructionInv

\* Nothing is outstanding of an event that is complete.
LEMMA FreeConstruction ==
  ASSUME TypeInv, ConstructionInv, NEW r \in DOMAIN data, IsComplete(data[r]),
         data' = Erase(data, r), UNCHANGED << rqstForFrags, ruRequests, fromRU, blockFIFO >>
  PROVE  ConstructionInv'
<1>1. \A u \in RUs : Received(r, u) = NbBlocks[u] /\ NbBlocks[u] \in Nat \ {0}
  BY CompleteHasAll, BuilderAssumption DEF ConstructionInv
<1>2. /\ DOMAIN data' = DOMAIN data \ {r}
      /\ \A s \in DOMAIN data \ {r} : data'[s] = data[s]
  BY DEF Erase
<1>3. \A u \in RUs : Unanswered(u)' = Unanswered(u) /\ InFlight(u)' = InFlight(u)
  BY DEF Unanswered, InFlight
<1>4. \A s \in DOMAIN data \ {r} : /\ EventOf(s)' = EventOf(s)
                                   /\ \A u \in RUs : Received(s, u)' = Received(s, u)
                                   /\ AllReceived(s)' = AllReceived(s)
  BY <1>2 DEF EventOf, Received, AllReceived
<1>5. \A e : OfEvent(e) /\ e.resource # r => OfEvent(e)' /\ e.resource \in DOMAIN data \ {r}
  BY <1>2 DEF OfEvent
<1>6. \A u \in RUs : \A t \in Unanswered(u) : t.resource # r
  BY <1>1 DEF ConstructionInv, RequestsInv
<1>7. \A u \in RUs : \A b \in InFlight(u) : b.resource # r
  <2> SUFFICES ASSUME NEW u \in RUs, NEW b \in InFlight(u), b.resource = r PROVE FALSE
    OBVIOUS
  <2>1. b.blockNb \in (Received(r, u) + 1)..NbBlocks[u]
    BY DEF ConstructionInv, BlocksInv
  <2>2. (Received(r, u) + 1)..NbBlocks[u] = {}
    BY <1>1
  <2> QED
    BY <2>1, <2>2
<1>8. Prefix' /\ Counted'
  BY <1>2, <1>4 DEF ConstructionInv, Prefix, Counted
<1>9. RequestsInv'
  BY <1>3, <1>4, <1>5, <1>6 DEF ConstructionInv, RequestsInv
<1>10. BlocksInv'
  BY <1>3, <1>4, <1>5, <1>7 DEF ConstructionInv, BlocksInv
<1>11. BlocksComeInv'
  BY <1>2, <1>3, <1>4 DEF ConstructionInv, BlocksComeInv
<1>12. InOrder'
  BY DEF ConstructionInv, InOrder, Before
<1> QED
  BY <1>8, <1>9, <1>10, <1>11, <1>12 DEF ConstructionInv

-----------------------------------------------------------------------------
(***************************************************************************)
(* Where the resources are, and where a complete event is.                 *)
(***************************************************************************)

\* Every member of S is in exactly one of the sets W[p].
Partition(W, S) == \A x \in S : \E p \in DOMAIN W : \A q \in DOMAIN W : x \in W[q] <=> q = p

\* From W to V, x goes from the set W[p] to the set W[q].
Moves(W, V, p, q, x) ==
  /\ DOMAIN V = DOMAIN W /\ {p, q} \subseteq DOMAIN W /\ p # q /\ x \in W[p]
  /\ V[p] = W[p] \ {x} /\ V[q] = W[q] \cup {x}
  /\ \A k \in DOMAIN W \ {p, q} : V[k] = W[k]

LEMMA Moved ==
  ASSUME NEW W, NEW V, NEW S, NEW p, NEW q, NEW x, Partition(W, S), Moves(W, V, p, q, x)
  PROVE  Partition(V, S)
<1>1. ASSUME NEW y \in S
      PROVE  \E i \in DOMAIN V : \A j \in DOMAIN V : y \in V[j] <=> j = i
  <2>1. PICK i \in DOMAIN W : \A j \in DOMAIN W : y \in W[j] <=> j = i
    BY DEF Partition
  <2>2. CASE y = x
    BY <2>1, <2>2 DEF Moves
  <2>3. CASE y # x
    BY <2>1, <2>3 DEF Moves
  <2> QED
    BY <2>2, <2>3
<1> QED
  BY <1>1 DEF Partition

\* Membership of one of the sets excludes the others.
LEMMA Apart ==
  ASSUME NEW W, NEW S, Partition(W, S), NEW p \in DOMAIN W, NEW q \in DOMAIN W, p # q,
         NEW x \in S, x \in W[p]
  PROVE  x \notin W[q]
BY DEF Partition

\* The resources asked for, whether or not the message has been sent.
Asked == requests \o evtIdRqstsAndOrReleases.asked

ResourcePlaces ==
  [free |-> Range(freeResourceIdFIFO), asked |-> Range(Asked), network |-> Resources(fromEVM),
   trigger |-> Resources(triggerFIFO), table |-> DOMAIN data]
NoneTwice ==
  /\ IsInjective(freeResourceIdFIFO) /\ IsInjective(Asked)
  /\ OneEach(fromEVM) /\ OneEach(triggerFIFO)
ResourcesInv == Partition(ResourcePlaces, ResourceIds) /\ NoneTwice

LEMMA PlacesAre ==
  /\ DOMAIN ResourcePlaces = {"free", "asked", "network", "trigger", "table"}
  /\ ResourcePlaces["free"] = Range(freeResourceIdFIFO) /\ ResourcePlaces["asked"] = Range(Asked)
  /\ ResourcePlaces["network"] = Resources(fromEVM) /\ ResourcePlaces["trigger"] = Resources(triggerFIFO)
  /\ ResourcePlaces["table"] = DOMAIN data
  /\ DOMAIN ResourcePlaces' = DOMAIN ResourcePlaces
  /\ ResourcePlaces'["free"] = Range(freeResourceIdFIFO') /\ ResourcePlaces'["asked"] = Range(Asked')
  /\ ResourcePlaces'["network"] = Resources(fromEVM') /\ ResourcePlaces'["trigger"] = Resources(triggerFIFO')
  /\ ResourcePlaces'["table"] = DOMAIN data'
BY DEF ResourcePlaces

LEMMA SameResources ==
  ASSUME ResourcesInv,
         UNCHANGED << freeResourceIdFIFO, Asked, fromEVM, triggerFIFO, DOMAIN data >>
  PROVE  ResourcesInv'
BY DEF ResourcesInv, ResourcePlaces, NoneTwice, Resources, OneEach

\* A request for an event takes its place behind the others, sent or not.
LEMMA SendAsks ==
  ASSUME TypeInv, NEW element \in EvtIdRqstAndOrRelease, SendEvtIdRqstAndOrRelease(element)
  PROVE  /\ Asked \in Seq(ResourceIds)
         /\ Asked' = IF "REQUEST" \in element.type THEN Append(Asked, element.resource) ELSE Asked
<1>1. /\ requests \in Seq(ResourceIds) /\ evtIdRqstsAndOrReleases.asked \in Seq(ResourceIds)
      /\ element.resource \in ResourceIds
  BY DEF TypeInv, PeerTypeOK, ProxyTypeOK, EvtIdRqstsAndOrReleases, EvtIdRqstAndOrRelease
<1> DEFINE msg == Packed(evtIdRqstsAndOrReleases, element)
<1>2. requests \o msg.asked = IF "REQUEST" \in element.type THEN Append(Asked, element.resource) ELSE Asked
  <2>1. requests \o Append(evtIdRqstsAndOrReleases.asked, element.resource)
          = Append(requests \o evtIdRqstsAndOrReleases.asked, element.resource)
    BY <1>1
  <2> QED
    BY <2>1 DEF Packed, Asked
<1>3. Asked' = requests \o msg.asked
  <2>1. CASE msg.nbElements = EvmPacking
    <3>1. requests' = requests \o msg.asked /\ evtIdRqstsAndOrReleases'.asked = << >>
      BY <2>1 DEF SendEvtIdRqstAndOrRelease, PostToEVM, NoElements
    <3>2. requests \o msg.asked \in Seq(ResourceIds)
      BY <1>1 DEF Packed
    <3> HIDE DEF msg
    <3> QED
      BY <3>1, <3>2 DEF Asked
  <2>2. CASE msg.nbElements # EvmPacking
    BY <2>2 DEF SendEvtIdRqstAndOrRelease, Asked
  <2> QED
    BY <2>1, <2>2
<1> QED
  BY <1>1, <1>2, <1>3 DEF Asked

\* The EVM answers the oldest request, with an event or with the end of a lumi section.
LEMMA EvmResources ==
  ASSUME TypeInv, ResourcesInv, Evm
  PROVE  ResourcesInv'
<1>1. requests # << >> /\ requests \in Seq(ResourceIds)
      /\ evtIdRqstsAndOrReleases.asked \in Seq(ResourceIds) /\ fromEVM \in Seq(EvmMessage)
  BY DEF Evm, AssignEvent, EndLumiSection, TypeInv, PeerTypeOK, ProxyTypeOK, EvtIdRqstsAndOrReleases
<1>2. PICK r \in ResourceIds : r = Head(requests)
  BY <1>1
<1>3. PICK m \in EvmMessage : m.resource = r /\ fromEVM' = Append(fromEVM, m)
  <2>1. CASE AssignEvent
    <3> DEFINE m == [resource |-> r, evbId |-> nextEvent, lumiSection |-> 0]
    <3>1. nextEvent \in Events
      BY <2>1, DiskAssumption DEF AssignEvent, TypeInv, PeerTypeOK, Events
    <3>2. m \in EvmMessage /\ m.resource = r
      BY <1>2, <3>1 DEF EvmMessage
    <3> QED
      BY <1>2, <2>1, <3>2 DEF AssignEvent
  <2>2. CASE EndLumiSection
    <3> DEFINE m == [resource |-> r, evbId |-> 0, lumiSection |-> endedLS + 1]
    <3>1. endedLS + 1 \in 1..LumiSections
      BY <2>2, DiskAssumption DEF EndLumiSection, TypeInv, PeerTypeOK
    <3>2. m \in EvmMessage /\ m.resource = r
      BY <1>2, <3>1 DEF EvmMessage
    <3> QED
      BY <1>2, <2>2, <3>2 DEF EndLumiSection
  <2> QED
    BY <2>1, <2>2 DEF Evm
<1>4. /\ requests' = Tail(requests)
      /\ UNCHANGED << freeResourceIdFIFO, evtIdRqstsAndOrReleases, triggerFIFO, data >>
  BY DEF Evm, AssignEvent, EndLumiSection, tableVars
<1>5. Asked \in Seq(ResourceIds) /\ Asked # << >> /\ Head(Asked) = r /\ Asked' = Tail(Asked)
  BY <1>1, <1>2, <1>4, SMTT(60) DEF Asked
<1>6. /\ r \in Range(Asked) /\ IsInjective(Asked') /\ Range(Asked') = Range(Asked) \ {r}
  BY <1>5, RangeTail DEF ResourcesInv, NoneTwice
<1>7. r \notin Resources(fromEVM)
  BY <1>6, Apart, PlacesAre DEF ResourcesInv
<1>8. Resources(fromEVM') = Resources(fromEVM) \cup {r} /\ OneEach(fromEVM')
  BY <1>1, <1>3, <1>7, ResourcesAppend DEF ResourcesInv, NoneTwice
<1>9. Moves(ResourcePlaces, ResourcePlaces', "asked", "network", r)
  BY <1>4, <1>6, <1>8, PlacesAre DEF Moves
<1>10. Partition(ResourcePlaces', ResourceIds)
  BY <1>6, <1>9, Moved DEF ResourcesInv
<1>11. NoneTwice'
  BY <1>4, <1>6, <1>8 DEF ResourcesInv, NoneTwice, OneEach, IsInjective
<1> QED
  BY <1>10, <1>11 DEF ResourcesInv, Partition

LEMMA TriggerResources ==
  ASSUME TypeInv, ResourcesInv, ReceiveTrigger
  PROVE  ResourcesInv'
<1>1. fromEVM # << >> /\ fromEVM \in Seq(EvmMessage) /\ triggerFIFO \in Seq(EventPtr)
  BY DEF ReceiveTrigger, TypeInv, PeerTypeOK, ProxyTypeOK
<1>2. PICK m \in EvmMessage : m = Head(fromEVM) /\ m.evbId # 0
  <2>1. Head(fromEVM) \in EvmMessage
    BY <1>1
  <2> QED
    BY <2>1 DEF ReceiveTrigger
<1>3. PICK t \in EventPtr : t.resource = m.resource /\ triggerFIFO' = Append(triggerFIFO, t)
  <2>1. [resource |-> m.resource, evbId |-> m.evbId] \in EventPtr
    BY <1>2 DEF EvmMessage, EventPtr
  <2> QED
    BY <1>2, <2>1 DEF ReceiveTrigger
<1>4. /\ fromEVM' = Tail(fromEVM)
      /\ UNCHANGED << freeResourceIdFIFO, requests, evtIdRqstsAndOrReleases, data >>
  BY DEF ReceiveTrigger, tableVars, evmMsgVars
<1>5. UNCHANGED Asked
  BY <1>4 DEF Asked
<1> DEFINE r == m.resource
<1>6. /\ r \in Resources(fromEVM) /\ r \in ResourceIds
      /\ OneEach(fromEVM') /\ Resources(fromEVM') = Resources(fromEVM) \ {r}
  <2>1. r \in ResourceIds
    BY DEF EvmMessage
  <2> QED
    BY <1>1, <1>2, <1>4, <2>1, ResourcesTail DEF ResourcesInv, NoneTwice
<1>7. r \notin Resources(triggerFIFO)
  BY <1>6, Apart, PlacesAre DEF ResourcesInv
<1>8. Resources(triggerFIFO') = Resources(triggerFIFO) \cup {r} /\ OneEach(triggerFIFO')
  BY <1>1, <1>3, <1>7, ResourcesAppend DEF ResourcesInv, NoneTwice
<1> HIDE DEF r
<1>9. Moves(ResourcePlaces, ResourcePlaces', "network", "trigger", r)
  BY <1>4, <1>5, <1>6, <1>8, PlacesAre DEF Moves
<1>10. Partition(ResourcePlaces', ResourceIds)
  BY <1>6, <1>9, Moved DEF ResourcesInv
<1>11. NoneTwice'
  BY <1>4, <1>5, <1>6, <1>8 DEF ResourcesInv, NoneTwice, OneEach, IsInjective
<1> QED
  BY <1>10, <1>11 DEF ResourcesInv, Partition

LEMMA EndOfLsResources ==
  ASSUME TypeInv, ResourcesInv, EvmLumisection
  PROVE  ResourcesInv'
<1>1. fromEVM # << >> /\ fromEVM \in Seq(EvmMessage)
  BY DEF EvmLumisection, TypeInv, PeerTypeOK
<1>2. PICK m \in EvmMessage : m = Head(fromEVM)
  <2>1. Head(fromEVM) \in EvmMessage
    BY <1>1
  <2> QED
    BY <2>1
<1> DEFINE r == m.resource
<1>3. r \in ResourceIds
  BY DEF EvmMessage
<1>4. /\ fromEVM' = Tail(fromEVM)
      /\ UNCHANGED << freeResourceIdFIFO, triggerFIFO, data >>
  BY DEF EvmLumisection, tableVars
<1>5. Asked \in Seq(ResourceIds) /\ Asked' = Append(Asked, r)
  <2> DEFINE e == [type |-> {"REQUEST"}, resource |-> r, evbId |-> 0]
  <2>1. e \in EvtIdRqstAndOrRelease /\ "REQUEST" \in e.type /\ e.resource = r
    BY <1>3 DEF EvtIdRqstAndOrRelease
  <2>2. SendEvtIdRqstAndOrRelease(e)
    BY <1>2 DEF EvmLumisection
  <2> HIDE DEF e
  <2> QED
    BY <2>1, <2>2, SendAsks
<1>6. /\ r \in Resources(fromEVM)
      /\ OneEach(fromEVM') /\ Resources(fromEVM') = Resources(fromEVM) \ {r}
  BY <1>1, <1>2, <1>4, ResourcesTail DEF ResourcesInv, NoneTwice
<1>7. r \notin Range(Asked)
  BY <1>3, <1>6, Apart, PlacesAre DEF ResourcesInv
<1> HIDE DEF r
<1>8. Range(Asked') = Range(Asked) \cup {r} /\ IsInjective(Asked')
  BY <1>3, <1>5, <1>7, RangeAppend DEF ResourcesInv, NoneTwice
<1>9. Moves(ResourcePlaces, ResourcePlaces', "network", "asked", r)
  BY <1>4, <1>6, <1>8, PlacesAre DEF Moves
<1>10. Partition(ResourcePlaces', ResourceIds)
  BY <1>6, <1>9, Moved DEF ResourcesInv
<1>11. NoneTwice'
  BY <1>4, <1>6, <1>8 DEF ResourcesInv, NoneTwice, OneEach, IsInjective
<1> QED
  BY <1>10, <1>11 DEF ResourcesInv, Partition

\* A trigger never finds its slot occupied.
LEMMA StartResources ==
  ASSUME TypeInv, ResourcesInv, StartConstruction
  PROVE  /\ Head(triggerFIFO) \in EventPtr /\ Head(triggerFIFO).resource \notin DOMAIN data
         /\ ResourcesInv'
<1>1. triggerFIFO # << >> /\ triggerFIFO \in Seq(EventPtr)
  BY DEF StartConstruction, TypeInv, ProxyTypeOK
<1>2. PICK t \in EventPtr : t = Head(triggerFIFO)
  <2>1. Head(triggerFIFO) \in EventPtr
    BY <1>1
  <2> QED
    BY <2>1
<1>3. PICK r \in ResourceIds : r = t.resource
  BY DEF EventPtr
<1>4. triggerFIFO' = Tail(triggerFIFO) /\ UNCHANGED << freeResourceIdFIFO, requests, evtIdRqstsAndOrReleases, fromEVM >>
  BY DEF StartConstruction, evmMsgVars, evmVars
<1>5. UNCHANGED Asked
  BY <1>4 DEF Asked
<1>6. /\ r \in Resources(triggerFIFO)
      /\ OneEach(triggerFIFO') /\ Resources(triggerFIFO') = Resources(triggerFIFO) \ {r}
  BY <1>1, <1>2, <1>3, <1>4, ResourcesTail DEF ResourcesInv, NoneTwice
<1>7. r \notin DOMAIN data
  BY <1>6, Apart, PlacesAre DEF ResourcesInv
<1>8. DOMAIN data' = DOMAIN data \cup {r}
  BY <1>2, <1>3, <1>7 DEF StartConstruction, Insert
<1>9. Moves(ResourcePlaces, ResourcePlaces', "trigger", "table", r)
  BY <1>4, <1>5, <1>6, <1>8, PlacesAre DEF Moves
<1>10. Partition(ResourcePlaces', ResourceIds)
  BY <1>6, <1>9, Moved DEF ResourcesInv
<1>11. NoneTwice'
  BY <1>4, <1>5, <1>6 DEF ResourcesInv, NoneTwice, OneEach, IsInjective
<1> QED
  BY <1>2, <1>3, <1>7, <1>10, <1>11 DEF ResourcesInv, Partition

LEMMA AskResources ==
  ASSUME TypeInv, ResourcesInv, SendEvtIdRqsts
  PROVE  ResourcesInv'
<1>1. freeResourceIdFIFO # << >> /\ freeResourceIdFIFO \in Seq(ResourceIds)
  BY DEF SendEvtIdRqsts, TypeInv, TableTypeOK
<1>2. PICK r \in ResourceIds : r = Head(freeResourceIdFIFO)
  BY <1>1
<1>3. freeResourceIdFIFO' = Tail(freeResourceIdFIFO) /\ UNCHANGED << fromEVM, triggerFIFO, data >>
  BY DEF SendEvtIdRqsts, evmVars
<1>4. Asked \in Seq(ResourceIds) /\ Asked' = Append(Asked, r)
  <2> DEFINE e == [type |-> {"REQUEST"}, resource |-> r, evbId |-> 0]
  <2>1. e \in EvtIdRqstAndOrRelease /\ "REQUEST" \in e.type /\ e.resource = r
    BY DEF EvtIdRqstAndOrRelease
  <2>2. SendEvtIdRqstAndOrRelease(e)
    BY <1>2 DEF SendEvtIdRqsts
  <2> HIDE DEF e
  <2> QED
    BY <2>1, <2>2, SendAsks
<1>5. /\ r \in Range(freeResourceIdFIFO)
      /\ IsInjective(freeResourceIdFIFO') /\ Range(freeResourceIdFIFO') = Range(freeResourceIdFIFO) \ {r}
  BY <1>1, <1>2, <1>3, RangeTail DEF ResourcesInv, NoneTwice
<1>6. r \notin Range(Asked)
  BY <1>5, Apart, PlacesAre DEF ResourcesInv
<1>7. Range(Asked') = Range(Asked) \cup {r} /\ IsInjective(Asked')
  BY <1>4, <1>6, RangeAppend DEF ResourcesInv, NoneTwice
<1>8. Moves(ResourcePlaces, ResourcePlaces', "free", "asked", r)
  BY <1>3, <1>5, <1>7, PlacesAre DEF Moves
<1>9. Partition(ResourcePlaces', ResourceIds)
  BY <1>5, <1>8, Moved DEF ResourcesInv
<1>10. NoneTwice'
  BY <1>3, <1>5, <1>7 DEF ResourcesInv, NoneTwice, OneEach, IsInjective
<1> QED
  BY <1>9, <1>10 DEF ResourcesInv, Partition

\* A discarded event's resource is asked for again, or free.
LEMMA FreeResources ==
  ASSUME TypeInv, ResourcesInv, HandleDiscards, Head(discardFIFO) \in DOMAIN data
  PROVE  ResourcesInv'
<1>1. PICK r \in DOMAIN data : r = Head(discardFIFO)
  OBVIOUS
<1>2. r \in ResourceIds /\ data[r].evbId \in Events /\ freeResourceIdFIFO \in Seq(ResourceIds)
  BY EventTypes DEF TypeInv, TableTypeOK
<1>3. /\ FreeEvent(r) /\ UNCHANGED << fromEVM, triggerFIFO >>
      /\ DOMAIN data' = DOMAIN data \ {r}
  BY <1>1 DEF HandleDiscards, evmVars, FreeEvent, Erase
<1>4. Asked \in Seq(ResourceIds) /\ Asked' = IF requestEvents THEN Append(Asked, r) ELSE Asked
  <2> DEFINE e == [type |-> {"RELEASE"} \cup (IF requestEvents THEN {"REQUEST"} ELSE {}),
                   resource |-> r, evbId |-> data[r].evbId]
  <2>1. e \in EvtIdRqstAndOrRelease /\ e.resource = r /\ ("REQUEST" \in e.type <=> requestEvents)
    BY <1>2 DEF EvtIdRqstAndOrRelease
  <2>2. SendEvtIdRqstAndOrRelease(e)
    BY <1>3 DEF FreeEvent
  <2> HIDE DEF e
  <2> QED
    BY <2>1, <2>2, SendAsks
<1>5. r \notin Range(Asked) /\ r \notin Range(freeResourceIdFIFO)
  BY <1>2, Apart, PlacesAre DEF ResourcesInv
<1>6. CASE requestEvents
  <2>1. Asked' = Append(Asked, r) /\ UNCHANGED freeResourceIdFIFO
    BY <1>3, <1>4, <1>6 DEF FreeEvent
  <2>2. Range(Asked') = Range(Asked) \cup {r} /\ IsInjective(Asked')
    BY <1>2, <1>4, <1>5, <2>1, RangeAppend DEF ResourcesInv, NoneTwice
  <2>3. Moves(ResourcePlaces, ResourcePlaces', "table", "asked", r)
    BY <1>3, <2>1, <2>2, PlacesAre DEF Moves
  <2>4. Partition(ResourcePlaces', ResourceIds)
    BY <2>3, Moved DEF ResourcesInv
  <2>5. NoneTwice'
    BY <1>3, <2>1, <2>2 DEF ResourcesInv, NoneTwice, OneEach, IsInjective
  <2> QED
    BY <2>4, <2>5 DEF ResourcesInv, Partition
<1>7. CASE ~ requestEvents
  <2>1. freeResourceIdFIFO' = Append(freeResourceIdFIFO, r) /\ UNCHANGED Asked
    BY <1>3, <1>4, <1>7 DEF FreeEvent
  <2>2. Range(freeResourceIdFIFO') = Range(freeResourceIdFIFO) \cup {r} /\ IsInjective(freeResourceIdFIFO')
    BY <1>2, <1>5, <2>1, RangeAppend DEF ResourcesInv, NoneTwice
  <2>3. Moves(ResourcePlaces, ResourcePlaces', "table", "free", r)
    BY <1>3, <2>1, <2>2, PlacesAre DEF Moves
  <2>4. Partition(ResourcePlaces', ResourceIds)
    BY <2>3, Moved DEF ResourcesInv
  <2>5. NoneTwice'
    BY <1>3, <2>1, <2>2 DEF ResourcesInv, NoneTwice, OneEach, IsInjective
  <2> QED
    BY <2>4, <2>5 DEF ResourcesInv, Partition
<1> QED
  BY <1>6, <1>7

LEMMA SendOldResources ==
  ASSUME TypeInv, ResourcesInv, SendOldEvmRequests
  PROVE  ResourcesInv'
<1>1. /\ requests' = Asked /\ evtIdRqstsAndOrReleases'.asked = << >>
      /\ UNCHANGED << freeResourceIdFIFO, fromEVM, triggerFIFO, data >>
  BY DEF SendOldEvmRequests, PostToEVM, NoElements, Asked, tableVars, evmVars
<1>2. Asked \in Seq(ResourceIds)
  BY DEF Asked, TypeInv, PeerTypeOK, ProxyTypeOK, EvtIdRqstsAndOrReleases
<1>3. UNCHANGED Asked
  <2>1. requests' \o << >> = requests'
    BY <1>1, <1>2
  <2>2. Asked' = requests' \o << >>
    BY <1>1 DEF Asked
  <2> QED
    BY <1>1, <2>1, <2>2
<1> QED
  BY <1>1, <1>3, SameResources

-----------------------------------------------------------------------------
Busy(w) == writing[w].at \in {"write", "count", "store", "discard"}
BusyWriters == { w \in Writers : Busy(w) }
BusyResources == { writing[w].event.resource : w \in BusyWriters }
Complete == { r \in DOMAIN data : IsComplete(data[r]) }

\* What is not complete is at none of the other places.
OutputSets ==
  [open |-> ResourceIds \ Complete, complete |-> Range(completeEventsFIFO), toDisk |-> Resources(eventFIFO),
   inFile |-> EventResources(fileHandlerAndEventFIFO), writer |-> BusyResources, FU |-> atFU,
   discard |-> Range(discardFIFO)]
NoneTwiceAtOutput ==
  /\ IsInjective(completeEventsFIFO) /\ IsInjective(discardFIFO)
  /\ OneEach(eventFIFO) /\ OneEventEach(fileHandlerAndEventFIFO)
  /\ \A v, w \in BusyWriters : writing[v].event.resource = writing[w].event.resource => v = w
OutputsInv == Partition(OutputSets, ResourceIds) /\ NoneTwiceAtOutput

LEMMA OutputsAre ==
  /\ DOMAIN OutputSets = {"open", "complete", "toDisk", "inFile", "writer", "FU", "discard"}
  /\ OutputSets["open"] = ResourceIds \ Complete /\ OutputSets["complete"] = Range(completeEventsFIFO)
  /\ OutputSets["toDisk"] = Resources(eventFIFO)
  /\ OutputSets["inFile"] = EventResources(fileHandlerAndEventFIFO)
  /\ OutputSets["writer"] = BusyResources /\ OutputSets["FU"] = atFU
  /\ OutputSets["discard"] = Range(discardFIFO)
  /\ DOMAIN OutputSets' = DOMAIN OutputSets
  /\ OutputSets'["open"] = ResourceIds \ Complete' /\ OutputSets'["complete"] = Range(completeEventsFIFO')
  /\ OutputSets'["toDisk"] = Resources(eventFIFO')
  /\ OutputSets'["inFile"] = EventResources(fileHandlerAndEventFIFO')
  /\ OutputSets'["writer"] = BusyResources' /\ OutputSets'["FU"] = atFU'
  /\ OutputSets'["discard"] = Range(discardFIFO')
BY DEF OutputSets

\* Whatever is complete and not open is in the table.
LEMMA OutputsComplete ==
  ASSUME OutputsInv, NEW r \in ResourceIds, NEW p \in DOMAIN OutputSets, p # "open", r \in OutputSets[p]
  PROVE  r \in DOMAIN data /\ IsComplete(data[r]) /\ r \in Complete
<1>1. r \notin OutputSets["open"]
  BY Apart, OutputsAre DEF OutputsInv
<1> QED
  BY <1>1, OutputsAre DEF Complete

LEMMA SameOutputs ==
  ASSUME OutputsInv,
         UNCHANGED << Complete, completeEventsFIFO, discardFIFO, eventFIFO, fileHandlerAndEventFIFO, atFU, BusyWriters >>,
         \A w \in BusyWriters : writing'[w].event = writing[w].event
  PROVE  OutputsInv'
<1>1. BusyResources' = BusyResources
  BY DEF BusyResources
<1>2. OutputSets' = OutputSets
  BY <1>1 DEF OutputSets
<1>3. NoneTwiceAtOutput'
  BY DEF OutputsInv, NoneTwiceAtOutput, IsInjective, OneEach, OneEventEach
<1> QED
  BY <1>2, <1>3 DEF OutputsInv, Partition

LEMMA SameComplete == UNCHANGED data => UNCHANGED Complete
BY DEF Complete, IsComplete

LEMMA SameWriters ==
  UNCHANGED writing => /\ UNCHANGED << BusyWriters, BusyResources >>
                       /\ \A w \in BusyWriters : writing'[w].event = writing[w].event
BY DEF BusyWriters, Busy, BusyResources

\* An event that gets its last block is passed on.
LEMMA CheckOutputs ==
  ASSUME TypeInv, OutputsInv, NEW r \in ResourceIds, r \notin Complete,
         Complete' = IF IsComplete(data'[r]) THEN Complete \cup {r} ELSE Complete,
         CheckForCompleteEvent(r), UNCHANGED << eventFIFO, fileHandlerAndEventFIFO, writing, atFU >>
  PROVE  OutputsInv'
<1>1. completeEventsFIFO \in Seq(ResourceIds) /\ discardFIFO \in Seq(ResourceIds)
  BY DEF TypeInv, TableTypeOK
<1>2. BusyWriters' = BusyWriters /\ BusyResources' = BusyResources
  BY SameWriters
<1>3. r \in OutputSets["open"] /\ "open" \in DOMAIN OutputSets
  BY OutputsAre
<1>4. r \notin Range(completeEventsFIFO) /\ r \notin Range(discardFIFO)
  BY <1>3, Apart, OutputsAre DEF OutputsInv
<1>5. CASE ~ IsComplete(data'[r])
  <2>1. UNCHANGED << Complete, completeEventsFIFO, discardFIFO >>
    BY <1>5 DEF CheckForCompleteEvent
  <2> QED
    BY <1>2, <2>1, SameOutputs
<1>6. CASE IsComplete(data'[r]) /\ output = "drop"
  <2>1. /\ discardFIFO' = Append(discardFIFO, r) /\ UNCHANGED completeEventsFIFO
        /\ Complete' = Complete \cup {r}
    BY <1>6 DEF CheckForCompleteEvent
  <2>2. Range(discardFIFO') = Range(discardFIFO) \cup {r} /\ IsInjective(discardFIFO')
    BY <1>1, <1>4, <2>1, RangeAppend DEF OutputsInv, NoneTwiceAtOutput
  <2>3. Moves(OutputSets, OutputSets', "open", "discard", r)
    BY <1>3, <1>2, <2>1, <2>2, OutputsAre DEF Moves
  <2>4. Partition(OutputSets', ResourceIds)
    BY <1>3, <2>3, Moved DEF OutputsInv
  <2>5. NoneTwiceAtOutput'
    BY <1>2, <2>1, <2>2 DEF OutputsInv, NoneTwiceAtOutput, IsInjective, OneEach, OneEventEach
  <2> QED
    BY <2>4, <2>5 DEF OutputsInv, Partition
<1>7. CASE IsComplete(data'[r]) /\ output # "drop"
  <2>1. /\ completeEventsFIFO' = Append(completeEventsFIFO, r) /\ UNCHANGED discardFIFO
        /\ Complete' = Complete \cup {r}
    BY <1>7 DEF CheckForCompleteEvent
  <2>2. Range(completeEventsFIFO') = Range(completeEventsFIFO) \cup {r} /\ IsInjective(completeEventsFIFO')
    BY <1>1, <1>4, <2>1, RangeAppend DEF OutputsInv, NoneTwiceAtOutput
  <2>3. Moves(OutputSets, OutputSets', "open", "complete", r)
    BY <1>3, <1>2, <2>1, <2>2, OutputsAre DEF Moves
  <2>4. Partition(OutputSets', ResourceIds)
    BY <1>3, <2>3, Moved DEF OutputsInv
  <2>5. NoneTwiceAtOutput'
    BY <1>2, <2>1, <2>2 DEF OutputsInv, NoneTwiceAtOutput, IsInjective, OneEach, OneEventEach
  <2> QED
    BY <2>4, <2>5 DEF OutputsInv, Partition
<1> QED
  BY <1>5, <1>6, <1>7

LEMMA StartOutputs ==
  ASSUME TypeInv, OutputsInv, StartConstruction, Head(triggerFIFO) \in EventPtr,
         Head(triggerFIFO).resource \notin DOMAIN data
  PROVE  OutputsInv'
<1>1. PICK r \in ResourceIds : r = Head(triggerFIFO).resource
  BY DEF EventPtr
<1>2. \E event : data' = Insert(data, r, event)
  BY <1>1 DEF StartConstruction
<1>3. CheckForCompleteEvent(r) /\ UNCHANGED << eventFIFO, fileHandlerAndEventFIFO, writing, atFU >>
  BY <1>1 DEF StartConstruction, diskVars, fuVars
<1>4. r \notin Complete /\ DOMAIN data' = DOMAIN data \cup {r} /\ \A s \in DOMAIN data : data'[s] = data[s]
  BY <1>1, <1>2 DEF Complete, Insert
<1>5. Complete' = IF IsComplete(data'[r]) THEN Complete \cup {r} ELSE Complete
  BY <1>1, <1>4 DEF Complete, IsComplete
<1> QED
  BY <1>3, <1>4, <1>5, CheckOutputs

LEMMA AppendOutputs ==
  ASSUME TypeInv, OutputsInv, AppendSuperFragment, Head(blockFIFO).resource \in DOMAIN data,
         ~ IsComplete(data[Head(blockFIFO).resource])
  PROVE  OutputsInv'
<1>1. PICK r \in ResourceIds : r = Head(blockFIFO).resource
  BY EventTypes
<1>2. DOMAIN data' = DOMAIN data /\ \A s \in DOMAIN data \ {r} : data'[s] = data[s]
  BY <1>1 DEF AppendSuperFragment
<1>3. CheckForCompleteEvent(r) /\ UNCHANGED << eventFIFO, fileHandlerAndEventFIFO, writing, atFU >>
  BY <1>1 DEF AppendSuperFragment, diskVars, fuVars
<1>4. r \notin Complete
  BY <1>1 DEF Complete
<1>5. Complete' = IF IsComplete(data'[r]) THEN Complete \cup {r} ELSE Complete
  BY <1>1, <1>2, <1>4 DEF Complete, IsComplete
<1> QED
  BY <1>3, <1>4, <1>5, CheckOutputs

\* The head of the discards is a complete event, and its slot becomes free.
LEMMA FreeOutputs ==
  ASSUME TypeInv, OutputsInv, HandleDiscards
  PROVE  /\ Head(discardFIFO) \in DOMAIN data /\ IsComplete(data[Head(discardFIFO)])
         /\ OutputsInv'
<1>1. discardFIFO # << >> /\ discardFIFO \in Seq(ResourceIds)
  BY DEF HandleDiscards, TypeInv, TableTypeOK
<1>2. PICK r \in ResourceIds : r = Head(discardFIFO)
  BY <1>1
<1>3. /\ discardFIFO' = Tail(discardFIFO)
      /\ UNCHANGED << completeEventsFIFO, eventFIFO, fileHandlerAndEventFIFO, writing, atFU >>
  BY DEF HandleDiscards, diskVars, fuVars
<1>4. /\ r \in Range(discardFIFO)
      /\ IsInjective(discardFIFO') /\ Range(discardFIFO') = Range(discardFIFO) \ {r}
  BY <1>1, <1>2, <1>3, RangeTail DEF OutputsInv, NoneTwiceAtOutput
<1>5. r \in DOMAIN data /\ IsComplete(data[r]) /\ r \in Complete
  BY <1>4, OutputsComplete, OutputsAre
<1>6. data' = Erase(data, r)
  BY <1>2, <1>5 DEF HandleDiscards, FreeEvent
<1>7. Complete' = Complete \ {r}
  BY <1>6 DEF Complete, IsComplete, Erase
<1>8. BusyWriters' = BusyWriters /\ BusyResources' = BusyResources
  BY <1>3, SameWriters
<1>9. Moves(OutputSets, OutputSets', "discard", "open", r)
  BY <1>3, <1>4, <1>7, <1>8, OutputsAre DEF Moves
<1>10. Partition(OutputSets', ResourceIds)
  BY <1>4, <1>9, Moved DEF OutputsInv
<1>11. NoneTwiceAtOutput'
  BY <1>3, <1>4, <1>8 DEF OutputsInv, NoneTwiceAtOutput, IsInjective, OneEach, OneEventEach
<1> QED
  BY <1>2, <1>5, <1>10, <1>11 DEF OutputsInv, Partition

LEMMA WriteNextOutputs ==
  ASSUME TypeInv, OutputsInv, WriteNextCompleteEvent
  PROVE  OutputsInv'
<1>1. /\ completeEventsFIFO # << >> /\ completeEventsFIFO \in Seq(ResourceIds) /\ eventFIFO \in Seq(EventPtr)
      /\ completeEventsFIFO' = Tail(completeEventsFIFO)
  BY DEF WriteNextCompleteEvent, TypeInv, DiskTypeInv, DiskTypeOK, TableTypeOK
<1>2. PICK r \in ResourceIds : r = Head(completeEventsFIFO)
  BY <1>1
<1>3. /\ r \in Range(completeEventsFIFO)
      /\ IsInjective(completeEventsFIFO') /\ Range(completeEventsFIFO') = Range(completeEventsFIFO) \ {r}
  BY <1>1, <1>2, RangeTail DEF OutputsInv, NoneTwiceAtOutput
<1>4. r \in DOMAIN data
  BY <1>3, OutputsComplete, OutputsAre
<1>5. PICK e \in EventPtr : e.resource = r /\ eventFIFO' = Append(eventFIFO, e)
  <2>1. EventOf(r) \in EventPtr /\ EventOf(r).resource = r
    BY <1>4, EventTypes DEF EventOf, EventPtr
  <2> QED
    BY <1>2, <2>1 DEF WriteNextCompleteEvent, WriteEvent
<1>6. UNCHANGED << data, discardFIFO, fileHandlerAndEventFIFO, writing, atFU >>
  BY DEF WriteNextCompleteEvent, WriteEvent, fuVars
<1>7. r \notin Resources(eventFIFO)
  BY <1>3, Apart, OutputsAre DEF OutputsInv
<1>8. Resources(eventFIFO') = Resources(eventFIFO) \cup {r} /\ OneEach(eventFIFO')
  BY <1>1, <1>5, <1>7, ResourcesAppend DEF OutputsInv, NoneTwiceAtOutput
<1>9. BusyWriters' = BusyWriters /\ BusyResources' = BusyResources /\ Complete' = Complete
  BY <1>6, SameWriters, SameComplete
<1>10. Moves(OutputSets, OutputSets', "complete", "toDisk", r)
  BY <1>3, <1>6, <1>8, <1>9, OutputsAre DEF Moves
<1>11. Partition(OutputSets', ResourceIds)
  BY <1>3, <1>10, Moved DEF OutputsInv
<1>12. NoneTwiceAtOutput'
  BY <1>3, <1>6, <1>8, <1>9 DEF OutputsInv, NoneTwiceAtOutput, IsInjective, OneEach, OneEventEach
<1> QED
  BY <1>11, <1>12 DEF OutputsInv, Partition

LEMMA SendToFUOutputs ==
  ASSUME TypeInv, OutputsInv, SendNextCompleteEventToFU
  PROVE  OutputsInv'
<1>1. /\ completeEventsFIFO # << >> /\ completeEventsFIFO \in Seq(ResourceIds)
      /\ completeEventsFIFO' = Tail(completeEventsFIFO)
  BY DEF SendNextCompleteEventToFU, TypeInv, TableTypeOK
<1>2. PICK r \in ResourceIds : r = Head(completeEventsFIFO)
  BY <1>1
<1>3. /\ r \in Range(completeEventsFIFO)
      /\ IsInjective(completeEventsFIFO') /\ Range(completeEventsFIFO') = Range(completeEventsFIFO) \ {r}
  BY <1>1, <1>2, RangeTail DEF OutputsInv, NoneTwiceAtOutput
<1>4. atFU' = atFU \cup {r} /\ UNCHANGED << data, discardFIFO, eventFIFO, fileHandlerAndEventFIFO, writing >>
  BY <1>2 DEF SendNextCompleteEventToFU, diskVars
<1>5. BusyWriters' = BusyWriters /\ BusyResources' = BusyResources /\ Complete' = Complete
  BY <1>4, SameWriters, SameComplete
<1>6. Moves(OutputSets, OutputSets', "complete", "FU", r)
  BY <1>3, <1>4, <1>5, OutputsAre DEF Moves
<1>7. Partition(OutputSets', ResourceIds)
  BY <1>3, <1>6, Moved DEF OutputsInv
<1>8. NoneTwiceAtOutput'
  BY <1>3, <1>4, <1>5 DEF OutputsInv, NoneTwiceAtOutput, IsInjective, OneEach, OneEventEach
<1> QED
  BY <1>7, <1>8 DEF OutputsInv, Partition

LEMMA FuDiscardOutputs ==
  ASSUME TypeInv, OutputsInv, NEW r \in ResourceIds, FuDiscard(r)
  PROVE  OutputsInv'
<1>1. /\ r \in atFU /\ atFU' = atFU \ {r} /\ discardFIFO' = Append(discardFIFO, r)
      /\ UNCHANGED << data, completeEventsFIFO, eventFIFO, fileHandlerAndEventFIFO, writing >>
      /\ discardFIFO \in Seq(ResourceIds)
  BY DEF FuDiscard, diskVars, TypeInv, TableTypeOK
<1>2. r \notin Range(discardFIFO)
  BY <1>1, Apart, OutputsAre DEF OutputsInv
<1>3. Range(discardFIFO') = Range(discardFIFO) \cup {r} /\ IsInjective(discardFIFO')
  BY <1>1, <1>2, RangeAppend DEF OutputsInv, NoneTwiceAtOutput
<1>4. BusyWriters' = BusyWriters /\ BusyResources' = BusyResources /\ Complete' = Complete
  BY <1>1, SameWriters, SameComplete
<1>5. Moves(OutputSets, OutputSets', "FU", "discard", r)
  BY <1>1, <1>3, <1>4, OutputsAre DEF Moves
<1>6. Partition(OutputSets', ResourceIds)
  BY <1>1, <1>5, Moved DEF OutputsInv
<1>7. NoneTwiceAtOutput'
  BY <1>1, <1>3, <1>4 DEF OutputsInv, NoneTwiceAtOutput, IsInjective, OneEach, OneEventEach
<1> QED
  BY <1>6, <1>7 DEF OutputsInv, Partition

\* What the processing workloop does with the queues.
LEMMA HandleEventsQueues ==
  ASSUME DiskTypeInv, HandleEvents
  PROVE  \E e \in EventPtr, h \in FileHandlerAndEvent :
           /\ eventFIFO # << >> /\ e = Head(eventFIFO) /\ eventFIFO' = Tail(eventFIFO)
           /\ h.event = e /\ fileHandlerAndEventFIFO' = Append(fileHandlerAndEventFIFO, h)
<1> DEFINE e       == Head(eventFIFO)
           ls      == LumiSection[e.evbId]
           handler == IF ls \in DOMAIN lumiHandlers THEN lumiHandlers[ls] ELSE NewLumiHandler
           h       == [file |-> FileFor(ls, handler), event |-> e]
<1>1. eventFIFO # << >> /\ eventFIFO' = Tail(eventFIFO) /\ fileHandlerAndEventFIFO' = Append(fileHandlerAndEventFIFO, h)
  BY DEF HandleEvents
<1>2. e \in EventPtr
  BY <1>1, TailAt DEF DiskTypeInv, DiskTypeOK
<1>3. ls \in 1..LumiSections
  BY <1>2, DiskAssumption DEF EventPtr, Events
<1>4. handler \in LumiHandler
  BY NewLumiHandlerType DEF DiskTypeInv, DiskTypeOK, IsMap
<1>5. h \in FileHandlerAndEvent /\ h.event = e
  BY <1>2, <1>3, <1>4, FileForType DEF FileHandlerAndEvent
<1> HIDE DEF h, e
<1> QED
  BY <1>1, <1>2, <1>5 DEF e

LEMMA HandleEventsOutputs ==
  ASSUME TypeInv, OutputsInv, HandleEvents, OnlyDisk
  PROVE  OutputsInv'
<1>1. PICK e \in EventPtr, h \in FileHandlerAndEvent :
        /\ eventFIFO # << >> /\ e = Head(eventFIFO) /\ eventFIFO' = Tail(eventFIFO)
        /\ h.event = e /\ fileHandlerAndEventFIFO' = Append(fileHandlerAndEventFIFO, h)
  BY HandleEventsQueues DEF TypeInv
<1>2. PICK r \in ResourceIds : r = e.resource /\ r = h.event.resource
  BY <1>1 DEF EventPtr
<1>3. eventFIFO \in Seq(EventPtr) /\ fileHandlerAndEventFIFO \in Seq(FileHandlerAndEvent)
  BY DEF TypeInv, DiskTypeInv, DiskTypeOK
<1>4. UNCHANGED << data, completeEventsFIFO, discardFIFO, writing, atFU >>
  BY DEF HandleEvents, OnlyDisk, tableVars, fuVars
<1>5. /\ r \in Resources(eventFIFO)
      /\ OneEach(eventFIFO') /\ Resources(eventFIFO') = Resources(eventFIFO) \ {r}
  BY <1>1, <1>2, <1>3, ResourcesTail DEF OutputsInv, NoneTwiceAtOutput
<1>6. r \notin EventResources(fileHandlerAndEventFIFO)
  BY <1>5, Apart, OutputsAre DEF OutputsInv
<1>7. /\ EventResources(fileHandlerAndEventFIFO') = EventResources(fileHandlerAndEventFIFO) \cup {r}
      /\ OneEventEach(fileHandlerAndEventFIFO')
  BY <1>1, <1>2, <1>3, <1>6, EventResourcesAppend DEF OutputsInv, NoneTwiceAtOutput
<1>8. BusyWriters' = BusyWriters /\ BusyResources' = BusyResources /\ Complete' = Complete
  BY <1>4, SameWriters, SameComplete
<1>9. Moves(OutputSets, OutputSets', "toDisk", "inFile", r)
  BY <1>4, <1>5, <1>7, <1>8, OutputsAre DEF Moves
<1>10. Partition(OutputSets', ResourceIds)
  BY <1>5, <1>9, Moved DEF OutputsInv
<1>11. NoneTwiceAtOutput'
  BY <1>4, <1>5, <1>7, <1>8 DEF OutputsInv, NoneTwiceAtOutput, IsInjective, OneEach, OneEventEach
<1> QED
  BY <1>10, <1>11 DEF OutputsInv, Partition

LEMMA TakeOutputs ==
  ASSUME TypeInv, OutputsInv, NEW w \in Writers, TakeEvent(w), OnlyDisk
  PROVE  OutputsInv'
<1>1. /\ fileHandlerAndEventFIFO # << >> /\ fileHandlerAndEventFIFO \in Seq(FileHandlerAndEvent)
      /\ fileHandlerAndEventFIFO' = Tail(fileHandlerAndEventFIFO)
      /\ writing \in [Writers -> Writing] /\ writing[w].at \in {"idle", "done"}
  BY DEF TakeEvent, TypeInv, DiskTypeInv, DiskTypeOK
<1>2. PICK h \in FileHandlerAndEvent : h = Head(fileHandlerAndEventFIFO)
  <2>1. Head(fileHandlerAndEventFIFO) \in FileHandlerAndEvent
    BY <1>1
  <2> QED
    BY <2>1
<1>3. PICK r \in ResourceIds : r = h.event.resource
  BY DEF FileHandlerAndEvent, EventPtr
<1>4. /\ \A v \in Writers \ {w} : writing'[v] = writing[v]
      /\ writing'[w].at = "write" /\ writing'[w].event.resource = r
      /\ UNCHANGED << data, completeEventsFIFO, discardFIFO, eventFIFO, atFU >>
  BY <1>1, <1>2, <1>3 DEF TakeEvent, OnlyDisk, tableVars, fuVars
<1>5. /\ r \in EventResources(fileHandlerAndEventFIFO)
      /\ OneEventEach(fileHandlerAndEventFIFO')
      /\ EventResources(fileHandlerAndEventFIFO') = EventResources(fileHandlerAndEventFIFO) \ {r}
  BY <1>1, <1>2, <1>3, EventResourcesTail DEF OutputsInv, NoneTwiceAtOutput
<1>6. r \notin BusyResources
  BY <1>5, Apart, OutputsAre DEF OutputsInv
<1>7. BusyWriters' = BusyWriters \cup {w} /\ w \notin BusyWriters
  BY <1>1, <1>4 DEF BusyWriters, Busy
<1>8. BusyResources' = BusyResources \cup {r}
  BY <1>4, <1>7 DEF BusyResources, BusyWriters
<1>9. \A v, x \in BusyWriters' : writing'[v].event.resource = writing'[x].event.resource => v = x
  <2>1. \A v \in BusyWriters : v \in Writers \ {w} /\ writing'[v] = writing[v] /\ writing[v].event.resource # r
    BY <1>4, <1>6, <1>7 DEF BusyResources, BusyWriters
  <2> QED
    BY <1>4, <1>7, <2>1 DEF OutputsInv, NoneTwiceAtOutput
<1>10. Complete' = Complete
  BY <1>4, SameComplete
<1>11. Moves(OutputSets, OutputSets', "inFile", "writer", r)
  BY <1>4, <1>5, <1>8, <1>10, OutputsAre DEF Moves
<1>12. Partition(OutputSets', ResourceIds)
  BY <1>5, <1>11, Moved DEF OutputsInv
<1>13. NoneTwiceAtOutput'
  BY <1>4, <1>5, <1>9 DEF OutputsInv, NoneTwiceAtOutput, IsInjective, OneEach
<1> QED
  BY <1>12, <1>13 DEF OutputsInv, Partition

LEMMA DiscardOutputs ==
  ASSUME TypeInv, OutputsInv, NEW w \in Writers, DiscardEvent(w)
  PROVE  OutputsInv'
<1>1. PICK r \in ResourceIds : r = writing[w].event.resource
  BY DEF DiscardEvent, DiscardWritten, TypeInv, DiskTypeInv, WritersHaveEvents, EventPtr
<1>2. /\ writing \in [Writers -> Writing] /\ writing[w].at = "discard"
      /\ discardFIFO \in Seq(ResourceIds) /\ discardFIFO' = Append(discardFIFO, r)
      /\ UNCHANGED << data, completeEventsFIFO, eventFIFO, fileHandlerAndEventFIFO, atFU >>
  BY <1>1 DEF DiscardEvent, DiscardWritten, TypeInv, DiskTypeInv, DiskTypeOK, TableTypeOK, fuVars
<1>3. \A v \in Writers \ {w} : writing'[v] = writing[v]
  BY <1>2 DEF DiscardEvent, DiscardWritten
<1>4. w \in BusyWriters /\ BusyWriters' = BusyWriters \ {w} /\ r \in BusyResources
  <2>1. writing'[w].at = "done"
    BY <1>2 DEF DiscardEvent, DiscardWritten, Writing
  <2> QED
    BY <1>1, <1>2, <1>3, <2>1 DEF BusyWriters, Busy, BusyResources
<1>5. BusyResources' = BusyResources \ {r}
  <2>1. \A v \in BusyWriters \ {w} : writing[v].event.resource # r /\ writing'[v] = writing[v]
    BY <1>1, <1>3, <1>4 DEF OutputsInv, NoneTwiceAtOutput, BusyWriters
  <2>2. BusyResources' = { writing[v].event.resource : v \in BusyWriters \ {w} }
    BY <1>4, <2>1 DEF BusyResources
  <2> QED
    BY <1>1, <2>1, <2>2 DEF BusyResources
<1>6. r \notin Range(discardFIFO)
  BY <1>4, Apart, OutputsAre DEF OutputsInv
<1>7. Range(discardFIFO') = Range(discardFIFO) \cup {r} /\ IsInjective(discardFIFO')
  BY <1>2, <1>6, RangeAppend DEF OutputsInv, NoneTwiceAtOutput
<1>8. Complete' = Complete
  BY <1>2, SameComplete
<1>9. Moves(OutputSets, OutputSets', "writer", "discard", r)
  BY <1>4, <1>2, <1>5, <1>7, <1>8, OutputsAre DEF Moves
<1>10. Partition(OutputSets', ResourceIds)
  BY <1>4, <1>9, Moved DEF OutputsInv
<1>11. \A v, x \in BusyWriters' : writing'[v].event.resource = writing'[x].event.resource => v = x
  BY <1>3, <1>4 DEF OutputsInv, NoneTwiceAtOutput, BusyWriters
<1>12. NoneTwiceAtOutput'
  BY <1>2, <1>7, <1>11 DEF OutputsInv, NoneTwiceAtOutput, IsInjective, OneEach, OneEventEach
<1> QED
  BY <1>10, <1>12 DEF OutputsInv, Partition

\* A writer keeps its event while it writes and counts, and none else does.
LEMMA WritingOutputs ==
  ASSUME TypeInv, OutputsInv, NEW w \in Writers, OnlyDisk,
         LeaveWriting(w) \/ WriteToDisk(w) \/ ReadEventCount(w) \/ StoreEventCount(w)
  PROVE  OutputsInv'
<1>1. writing \in [Writers -> Writing]
  BY DEF TypeInv, DiskTypeInv, DiskTypeOK
<1>2. /\ UNCHANGED << data, completeEventsFIFO, discardFIFO, eventFIFO, fileHandlerAndEventFIFO, atFU >>
      /\ \A v \in Writers \ {w} : writing'[v] = writing[v]
  BY <1>1 DEF OnlyDisk, tableVars, fuVars, LeaveWriting, WriteToDisk, ReadEventCount, StoreEventCount
<1>3. /\ Busy(w)' <=> Busy(w)
      /\ Busy(w) => writing'[w].event = writing[w].event
  <2>1. CASE LeaveWriting(w)
    BY <1>1, <2>1 DEF LeaveWriting, Busy, NotWriting
  <2>2. CASE WriteToDisk(w)
    BY <1>1, <2>2 DEF WriteToDisk, Busy, Writing
  <2>3. CASE ReadEventCount(w)
    BY <1>1, <2>3 DEF ReadEventCount, Busy, Writing
  <2>4. CASE StoreEventCount(w)
    BY <1>1, <2>4 DEF StoreEventCount, Busy, Writing
  <2> QED
    BY <2>1, <2>2, <2>3, <2>4
<1>4. BusyWriters' = BusyWriters /\ \A v \in BusyWriters : writing'[v].event = writing[v].event
  BY <1>2, <1>3 DEF BusyWriters, Busy
<1> QED
  BY <1>2, <1>4, SameOutputs, SameComplete

-----------------------------------------------------------------------------
(***************************************************************************)
(* The parts together.  The BU never gets a trigger for a slot in use, a   *)
(* block for none, or the discard of an event it does not have.            *)
(***************************************************************************)
NothingRaised == failure = "none"
PlacesInv == TypeInv /\ NothingRaised /\ ResourcesInv /\ OutputsInv /\ ConstructionInv

LEMMA InitPlaces == Init => PlacesInv
<1> SUFFICES ASSUME Init PROVE PlacesInv
  OBVIOUS
<1>1. TypeInv /\ NothingRaised
  BY InitTypeInv DEF Init, NothingRaised
<1>2. Range(<< >>) = {} /\ Resources(<< >>) = {} /\ EventResources(<< >>) = {}
  BY DEF Range, Resources, EventResources
<1>3. ResourcesInv
  <2>1. Asked = << >>
    BY DEF Init, Asked, NoElements
  <2>2. Range(freeResourceIdFIFO) = ResourceIds
    BY DEF Init, Range
  <2>3. /\ ResourcePlaces["free"] = ResourceIds /\ ResourcePlaces["asked"] = {}
        /\ ResourcePlaces["network"] = {} /\ ResourcePlaces["trigger"] = {} /\ ResourcePlaces["table"] = {}
    BY <1>2, <2>1, <2>2, PlacesAre DEF Init
  <2>4. Partition(ResourcePlaces, ResourceIds)
    BY <2>3, PlacesAre DEF Partition
  <2>5. NoneTwice
    BY <2>1 DEF Init, NoneTwice, IsInjective, OneEach
  <2> QED
    BY <2>4, <2>5 DEF ResourcesInv
<1>4. OutputsInv
  <2>1. BusyWriters = {} /\ BusyResources = {} /\ Complete = {}
    BY DEF Init, DiskInit, NotWriting, BusyWriters, Busy, BusyResources, Complete
  <2>2. /\ OutputSets["open"] = ResourceIds
        /\ \A p \in DOMAIN OutputSets \ {"open"} : OutputSets[p] = {}
    BY <1>2, <2>1, OutputsAre DEF Init, DiskInit
  <2>3. Partition(OutputSets, ResourceIds)
    BY <2>2, OutputsAre DEF Partition
  <2>4. NoneTwiceAtOutput
    BY <2>1 DEF Init, DiskInit, NoneTwiceAtOutput, IsInjective, OneEach, OneEventEach
  <2> QED
    BY <2>3, <2>4 DEF OutputsInv
<1>5. ConstructionInv
  <2>1. \A u \in RUs : Unanswered(u) = {} /\ InFlight(u) = {}
    BY <1>2 DEF Init, Unanswered, InFlight
  <2>2. Prefix /\ Counted /\ BlocksComeInv
    BY DEF Init, Prefix, Counted, BlocksComeInv
  <2>3. RequestsInv /\ BlocksInv
    BY <1>2, <2>1 DEF Init, RequestsInv, BlocksInv
  <2>4. InOrder
    BY DEF Init, InOrder
  <2> QED
    BY <2>2, <2>3, <2>4 DEF ConstructionInv
<1> QED
  BY <1>1, <1>3, <1>4, <1>5 DEF PlacesInv

\* What leaves the table and its outputs alone.
LEMMA OutputsApart ==
  OutputsInv /\ UNCHANGED << data, completeEventsFIFO, discardFIFO, eventFIFO, fileHandlerAndEventFIFO, atFU, writing >>
    => OutputsInv'
BY SameOutputs, SameComplete, SameWriters

LEMMA ResourcesApart ==
  ResourcesInv /\ UNCHANGED << freeResourceIdFIFO, requests, evtIdRqstsAndOrReleases, fromEVM, triggerFIFO, data >>
    => ResourcesInv'
BY SameResources DEF Asked

LEMMA PlacesStep ==
  ASSUME PlacesInv, [Next]_vars
  PROVE  PlacesInv'
<1>1. TypeInv /\ NothingRaised /\ ResourcesInv /\ OutputsInv /\ ConstructionInv
  BY DEF PlacesInv
<1>2. TypeInv'
  <2>1. CompleteKnown
    <3>1. \A r \in Range(completeEventsFIFO) : r \in ResourceIds
      BY <1>1 DEF TypeInv, TableTypeOK, Range
    <3> QED
      BY <1>1, <3>1, OutputsComplete, OutputsAre DEF CompleteKnown
  <2> QED
    BY <1>1, <2>1, NextTypeInv
<1> SUFFICES NothingRaised' /\ ResourcesInv' /\ OutputsInv' /\ ConstructionInv'
  BY <1>2 DEF PlacesInv
<1> USE DEF tableVars, evmMsgVars, evmVars, ruVars, fuVars, diskVars, NothingRaised
<1>3. CASE Evm
  BY <1>1, <1>3, EvmResources, OutputsApart, SameConstruction DEF Evm, AssignEvent, EndLumiSection
<1>4. CASE ReceiveTrigger
  BY <1>1, <1>4, TriggerResources, OutputsApart, SameConstruction DEF ReceiveTrigger
<1>5. CASE EvmLumisection
  BY <1>1, <1>5, EndOfLsResources, OutputsApart, SameConstruction DEF EvmLumisection, CloseLS
<1>6. ASSUME NEW u \in RUs, AnswerRequest(u)
      PROVE  /\ NothingRaised' /\ ResourcesInv' /\ OutputsInv' /\ ConstructionInv'
  BY <1>1, <1>6, ResourcesApart, OutputsApart, AnswerConstruction DEF AnswerRequest
<1>7. ASSUME NEW u \in RUs, ReceiveBlock(u)
      PROVE  /\ NothingRaised' /\ ResourcesInv' /\ OutputsInv' /\ ConstructionInv'
  BY <1>1, <1>7, ResourcesApart, OutputsApart, ReceiveBlockConstruction DEF ReceiveBlock
<1>8. CASE ReceiveFuRequest
  BY <1>1, <1>8, ResourcesApart, OutputsApart, SameConstruction DEF ReceiveFuRequest
<1>9. ASSUME NEW r \in ResourceIds, FuDiscard(r)
      PROVE  /\ NothingRaised' /\ ResourcesInv' /\ OutputsInv' /\ ConstructionInv'
  BY <1>1, <1>9, ResourcesApart, FuDiscardOutputs, SameConstruction DEF FuDiscard
<1>10. CASE StartConstruction
  <2>1. /\ Head(triggerFIFO) \in EventPtr /\ Head(triggerFIFO).resource \notin DOMAIN data
        /\ ResourcesInv'
    BY <1>1, <1>10, StartResources
  <2>2. NothingRaised'
    BY <1>1, <1>10, <2>1 DEF StartConstruction
  <2> QED
    BY <1>1, <1>10, <2>1, <2>2, StartOutputs, StartConstructionInv
<1>11. CASE AppendSuperFragment
  <2>1. /\ ConstructionInv' /\ Head(blockFIFO).resource \in DOMAIN data
        /\ ~ IsComplete(data[Head(blockFIFO).resource])
    BY <1>1, <1>11, AppendConstruction
  <2>2. NothingRaised' /\ DOMAIN data' = DOMAIN data
    BY <1>1, <1>11, <2>1 DEF AppendSuperFragment
  <2>3. ResourcesInv'
    BY <1>1, <1>11, <2>2, SameResources DEF AppendSuperFragment, Asked
  <2> QED
    BY <1>1, <1>11, <2>1, <2>2, <2>3, AppendOutputs
<1>12. CASE SendOldEvmRequests
  BY <1>1, <1>12, SendOldResources, OutputsApart, SameConstruction DEF SendOldEvmRequests
<1>13. CASE SendOldRuRequests
  BY <1>1, <1>13, ResourcesApart, OutputsApart, SendOldConstruction DEF SendOldRuRequests
<1>14. CASE SendEvtIdRqsts
  BY <1>1, <1>14, AskResources, OutputsApart, SameConstruction DEF SendEvtIdRqsts
<1>15. CASE HandleDiscards
  <2>1. /\ Head(discardFIFO) \in DOMAIN data /\ IsComplete(data[Head(discardFIFO)])
        /\ OutputsInv'
    BY <1>1, <1>15, FreeOutputs
  <2>2. NothingRaised' /\ data' = Erase(data, Head(discardFIFO))
    BY <1>1, <1>15, <2>1 DEF HandleDiscards, FreeEvent
  <2>3. UNCHANGED << rqstForFrags, ruRequests, fromRU, blockFIFO >>
    BY <1>15 DEF HandleDiscards
  <2> QED
    BY <1>1, <1>15, <2>1, <2>2, <2>3, FreeResources, FreeConstruction
<1>16. CASE WriteNextCompleteEvent
  BY <1>1, <1>16, ResourcesApart, WriteNextOutputs, SameConstruction DEF WriteNextCompleteEvent
<1>17. CASE SendNextCompleteEventToFU
  BY <1>1, <1>17, ResourcesApart, SendToFUOutputs, SameConstruction DEF SendNextCompleteEventToFU
<1>18. ASSUME NEW w \in Writers, DiscardEvent(w)
       PROVE  /\ NothingRaised' /\ ResourcesInv' /\ OutputsInv' /\ ConstructionInv'
  BY <1>1, <1>18, ResourcesApart, DiscardOutputs, SameConstruction DEF DiscardEvent
<1>19. CASE WriteToDisks
  <2>1. OnlyDisk
    BY <1>19 DEF WriteToDisks
  <2>2. NothingRaised' /\ ResourcesInv' /\ ConstructionInv'
    BY <1>1, <2>1, ResourcesApart, SameConstruction DEF OnlyDisk
  <2>3. CASE HandleEvents
    BY <1>1, <2>1, <2>2, <2>3, HandleEventsOutputs
  <2>4. CASE HandleEoLS
    BY <1>1, <2>1, <2>2, <2>4, OutputsApart DEF HandleEoLS, OnlyDisk
  <2>5. ASSUME NEW w \in Writers, TakeEvent(w) PROVE OutputsInv'
    BY <1>1, <2>1, <2>5, TakeOutputs
  <2>6. ASSUME NEW w \in Writers,
               LeaveWriting(w) \/ WriteToDisk(w) \/ ReadEventCount(w) \/ StoreEventCount(w)
        PROVE  OutputsInv'
    BY <1>1, <2>1, <2>6, WritingOutputs
  <2> QED
    BY <1>19, <2>2, <2>3, <2>4, <2>5, <2>6 DEF WriteToDisks
<1>20. CASE ResourceMonitoring
  BY <1>1, <1>20, ResourcesApart, OutputsApart, SameConstruction DEF ResourceMonitoring
<1>21. CASE UNCHANGED vars
  BY <1>1, <1>21, ResourcesApart, OutputsApart, SameConstruction DEF vars
<1> QED
  BY <1>3, <1>4, <1>5, <1>6, <1>7, <1>8, <1>9, <1>10, <1>11, <1>12, <1>13, <1>14, <1>15, <1>16,
     <1>17, <1>18, <1>19, <1>20, <1>21 DEF Next, DoWork, SendOldMessages, TableProcess

\* The places hold in every state.
THEOREM PlacesInvariant == Spec => []PlacesInv
<1>1. PlacesInv /\ [Next]_vars => PlacesInv'
  BY PlacesStep
<1> QED
  BY InitPlaces, <1>1, PTL DEF Spec

\* Type correctness: every variable keeps to its type, the messages and the queues
\* of the proxies to their sizes, and the disk writer's files to their lumi sections.
THEOREM TypeCorrect == Spec => []TypeOK
<1>1. PlacesInv => TypeOK
  BY DEF PlacesInv, TypeInv, DiskTypeInv, TypeOK
<1> QED
  BY PlacesInvariant, <1>1, PTL

\* The BU never raises: no trigger comes for a slot in use (EventTable::startConstruction),
\* no block for an event that is not under construction (appendSuperFragment), and no
\* discard for an event that does not exist (freeEventAndGetReleaseMsg).
THEOREM NeverRaises == Spec => []NothingRaised
<1>1. PlacesInv => NothingRaised
  BY DEF PlacesInv
<1> QED
  BY PlacesInvariant, <1>1, PTL

\* A resource that is asked for is in the message or at the EVM, not both.
LEMMA AskedApart ==
  ASSUME TypeInv, ResourcesInv
  PROVE  /\ Range(Asked) = Range(requests) \cup Range(evtIdRqstsAndOrReleases.asked)
         /\ Range(requests) \cap Range(evtIdRqstsAndOrReleases.asked) = {}
<1> DEFINE q == requests
           s == evtIdRqstsAndOrReleases.asked
<1>1. q \in Seq(ResourceIds) /\ s \in Seq(ResourceIds)
  BY DEF TypeInv, PeerTypeOK, ProxyTypeOK, EvtIdRqstsAndOrReleases
<1>2. IsInjective(q \o s)
  BY DEF ResourcesInv, NoneTwice, Asked
<1> HIDE DEF q, s
<1>3. Range(q \o s) = Range(q) \cup Range(s)
  BY <1>1, ConcatAt
<1>4. ASSUME NEW i \in DOMAIN q, NEW j \in DOMAIN s, q[i] = s[j]
      PROVE  FALSE
  <2>1. i \in 1..Len(q) /\ j \in 1..Len(s) /\ Len(q) \in Nat /\ Len(s) \in Nat
    BY <1>1
  <2>2. i \in DOMAIN (q \o s) /\ Len(q) + j \in DOMAIN (q \o s) /\ i # Len(q) + j
    BY <1>1, <2>1
  <2>3. (q \o s)[i] = q[i] /\ (q \o s)[Len(q) + j] = s[j]
    BY <1>1, <2>1
  <2> QED
    BY <1>2, <1>4, <2>2, <2>3 DEF IsInjective
<1>5. Range(q) \cap Range(s) = {}
  BY <1>4 DEF Range
<1> QED
  BY <1>3, <1>5 DEF q, s, Asked

LEMMA OneResourcePlace == TypeInv /\ ResourcesInv => ResourceInOnePlace
<1> SUFFICES ASSUME TypeInv, ResourcesInv, NEW r \in ResourceIds
             PROVE  \E p \in Places : \A q \in Places : AtPlace(r, q) <=> q = p
  BY DEF ResourceInOnePlace
<1>1. PICK p \in DOMAIN ResourcePlaces : \A q \in DOMAIN ResourcePlaces : r \in ResourcePlaces[q] <=> q = p
  BY DEF ResourcesInv, Partition
<1>2. /\ AtPlace(r, "free") <=> p = "free"
      /\ AtPlace(r, "message") \/ AtPlace(r, "EVM") <=> p = "asked"
      /\ ~ (AtPlace(r, "message") /\ AtPlace(r, "EVM"))
      /\ AtPlace(r, "network") <=> p = "network"
      /\ AtPlace(r, "trigger") <=> p = "trigger"
      /\ AtPlace(r, "table") <=> p = "table"
  <2>1. AtPlace(r, "network") <=> r \in Resources(fromEVM)
    BY DEF AtPlace, Resources
  <2>2. AtPlace(r, "trigger") <=> r \in Resources(triggerFIFO)
    BY DEF AtPlace, Resources
  <2>3. /\ AtPlace(r, "free") <=> r \in Range(freeResourceIdFIFO)
        /\ AtPlace(r, "message") <=> r \in Range(evtIdRqstsAndOrReleases.asked)
        /\ AtPlace(r, "EVM") <=> r \in Range(requests)
        /\ AtPlace(r, "table") <=> r \in DOMAIN data
    BY DEF AtPlace
  <2> QED
    BY <1>1, <2>1, <2>2, <2>3, AskedApart, PlacesAre
<1>3. p \in {"free", "asked", "network", "trigger", "table"}
  BY PlacesAre
<1>4. CASE p # "asked"
  <2>1. p \in Places /\ \A q \in Places : AtPlace(r, q) <=> q = p
    BY <1>2, <1>3, <1>4 DEF Places
  <2> QED
    BY <2>1
<1>5. CASE p = "asked" /\ AtPlace(r, "message")
  <2>1. \A q \in Places : AtPlace(r, q) <=> q = "message"
    BY <1>2, <1>5 DEF Places
  <2> QED
    BY <2>1 DEF Places
<1>6. CASE p = "asked" /\ AtPlace(r, "EVM")
  <2>1. \A q \in Places : AtPlace(r, q) <=> q = "EVM"
    BY <1>2, <1>6 DEF Places
  <2> QED
    BY <2>1 DEF Places
<1> QED
  BY <1>2, <1>4, <1>5, <1>6

LEMMA OneOutputPlace == OutputsInv => CompleteEventInOnePlace
<1> SUFFICES ASSUME OutputsInv, NEW r \in ResourceIds
             PROVE  IF r \in Complete
                    THEN \E p \in OutputPlaces : \A q \in OutputPlaces : AtOutput(r, q) <=> q = p
                    ELSE \A q \in OutputPlaces : ~ AtOutput(r, q)
  BY DEF CompleteEventInOnePlace, Complete
<1>1. PICK p \in DOMAIN OutputSets : \A q \in DOMAIN OutputSets : r \in OutputSets[q] <=> q = p
  BY DEF OutputsInv, Partition
<1>2. \A q \in OutputPlaces : AtOutput(r, q) <=> r \in OutputSets[q]
  <2>1. AtOutput(r, "toDisk") <=> r \in Resources(eventFIFO)
    BY DEF AtOutput, Resources
  <2>2. AtOutput(r, "inFile") <=> r \in EventResources(fileHandlerAndEventFIFO)
    BY DEF AtOutput, EventResources
  <2>3. AtOutput(r, "writer") <=> r \in BusyResources
    BY DEF AtOutput, BusyResources, BusyWriters, Busy
  <2>4. /\ AtOutput(r, "complete") <=> r \in Range(completeEventsFIFO)
        /\ AtOutput(r, "FU") <=> r \in atFU
        /\ AtOutput(r, "discard") <=> r \in Range(discardFIFO)
    BY DEF AtOutput
  <2> QED
    BY <2>1, <2>2, <2>3, <2>4, OutputsAre DEF OutputPlaces
<1>3. DOMAIN OutputSets = OutputPlaces \cup {"open"} /\ "open" \notin OutputPlaces
  BY OutputsAre DEF OutputPlaces
<1>4. r \in Complete <=> p # "open"
  BY <1>1, <1>3, OutputsAre
<1> QED
  BY <1>1, <1>2, <1>3, <1>4

\* Neither a resource nor a complete event is lost or used twice: the id of a resource
\* travels through freeResourceIdFIFO, the request, the trigger and the slot it names,
\* and a complete event through the outputs, and each is always at one place.
THEOREM LosesAndDoublesNothing == Spec => []NothingLostOrDoubled
<1>1. PlacesInv => NothingLostOrDoubled
  BY OneResourcePlace, OneOutputPlace DEF PlacesInv, NothingLostOrDoubled
<1> QED
  BY PlacesInvariant, <1>1, PTL

\* A complete event has all blocks of all RUs, in order, and no block of another event.
\* Event::appendSuperFragment appends whatever comes for the resource and counts the
\* last blocks: that this is enough is a matter of the requests and of the network.
THEOREM CompleteEventsAreWhole == Spec => []EventsAreWhole
<1>1. ASSUME PlacesInv, NEW r \in DOMAIN data, IsComplete(data[r]), NEW u \in RUs
      PROVE  data[r].blocks[u] = [i \in 1..NbBlocks[u] |-> << data[r].evbId, i >>]
  <2>1. Received(r, u) = NbBlocks[u]
    BY <1>1, CompleteHasAll DEF PlacesInv, ConstructionInv
  <2>2. PICK blocks \in Seq(Events \X Nat) : blocks = data[r].blocks[u]
    BY <1>1, EventTypes DEF PlacesInv
  <2>3. \A i \in 1..Len(blocks) : blocks[i] = << data[r].evbId, i >>
    BY <1>1, <2>2 DEF PlacesInv, ConstructionInv, Prefix, Received
  <2>4. Len(blocks) = NbBlocks[u]
    BY <2>1, <2>2 DEF Received
  <2>5. blocks = [i \in 1..Len(blocks) |-> blocks[i]]
    OBVIOUS
  <2> QED
    BY <2>2, <2>3, <2>4, <2>5
<1>2. PlacesInv => EventsAreWhole
  BY <1>1 DEF EventsAreWhole
<1> QED
  BY PlacesInvariant, <1>2, PTL

\* A queue that holds each resource at most once is not longer than there are resources.
LEMMA ShortQueue ==
  ASSUME NEW n \in Nat, NEW f \in [1..n -> ResourceIds], IsInjective(f)
  PROVE  n <= NbResources
<1>1. NbResources \in Nat /\ n \in Int /\ NbResources \in Int /\ 1 \in Int
  BY DiskAssumption
<1>2. IsFiniteSet(1..n) /\ Cardinality(1..n) = n
      /\ IsFiniteSet(1..NbResources) /\ Cardinality(1..NbResources) = NbResources
  BY <1>1, FS_Interval
<1>3. CASE NbResources < n
  <2>1. PICK x, y \in 1..n : x # y /\ f[x] = f[y]
    BY <1>2, <1>3, FS_PigeonHole DEF ResourceIds
  <2> QED
    BY <2>1 DEF IsInjective
<1> QED
  BY <1>1, <1>3

LEMMA AllHaveRoom == PlacesInv => QueuesHaveRoom
<1> SUFFICES ASSUME PlacesInv PROVE QueuesHaveRoom
  OBVIOUS
<1>1. TypeInv /\ NoneTwice /\ NoneTwiceAtOutput
  BY DEF PlacesInv, ResourcesInv, OutputsInv
<1>2. ASSUME NEW q \in Seq(ResourceIds), IsInjective(q) PROVE Len(q) <= NbResources
  <2>1. Len(q) \in Nat /\ q \in [1..Len(q) -> ResourceIds]
    OBVIOUS
  <2> QED
    BY <1>2, <2>1, ShortQueue
<1>3. Len(eventFIFO) <= NbResources
  <2> DEFINE f == [i \in 1..Len(eventFIFO) |-> eventFIFO[i].resource]
  <2>1. /\ Len(eventFIFO) \in Nat /\ DOMAIN eventFIFO = 1..Len(eventFIFO)
        /\ \A i \in DOMAIN eventFIFO : eventFIFO[i] \in EventPtr
    BY <1>1 DEF TypeInv, DiskTypeInv, DiskTypeOK
  <2>2. f \in [1..Len(eventFIFO) -> ResourceIds]
    BY <2>1 DEF EventPtr
  <2>3. IsInjective(f)
    BY <1>1, <2>1 DEF NoneTwiceAtOutput, OneEach, IsInjective
  <2> QED
    BY <2>1, <2>2, <2>3, ShortQueue
<1>4. Len(fileHandlerAndEventFIFO) <= NbResources
  <2> DEFINE q == fileHandlerAndEventFIFO
             f == [i \in 1..Len(q) |-> q[i].event.resource]
  <2>1. /\ Len(q) \in Nat /\ DOMAIN q = 1..Len(q)
        /\ \A i \in DOMAIN q : q[i] \in FileHandlerAndEvent
    BY <1>1 DEF TypeInv, DiskTypeInv, DiskTypeOK
  <2>2. \A i \in DOMAIN q : q[i].event \in EventPtr
    BY <2>1 DEF FileHandlerAndEvent
  <2>3. f \in [1..Len(q) -> ResourceIds]
    BY <2>1, <2>2 DEF EventPtr
  <2>4. IsInjective(f)
    BY <1>1, <2>1 DEF NoneTwiceAtOutput, OneEventEach, IsInjective
  <2> QED
    BY <2>1, <2>3, <2>4, ShortQueue
<1> QED
  BY <1>1, <1>2, <1>3, <1>4 DEF TypeInv, TableTypeOK, NoneTwice, NoneTwiceAtOutput, QueuesHaveRoom

\* The queues of the event table and of the disk writer are made for as many elements
\* as there are resources: no more ever come, so that nobody waits for room in them.
THEOREM QueuesAlwaysHaveRoom == Spec => []QueuesHaveRoom
BY PlacesInvariant, AllHaveRoom, PTL

-----------------------------------------------------------------------------
(***************************************************************************)
(* The events.  An event is still to come, on its way with its trigger, in *)
(* the table, or freed, i.e. released or about to be.                      *)
(***************************************************************************)
Ids(q)       == { q[i].evbId : i \in DOMAIN q } \cap Events
OneIdEach(q) == \A i, j \in DOMAIN q : q[i].evbId = q[j].evbId /\ q[i].evbId \in Events => i = j

TableIds == { data[r].evbId : r \in DOMAIN data }
OneSlotEach == \A r, s \in DOMAIN data : data[r].evbId = data[s].evbId => r = s
Freed == evtIdRqstsAndOrReleases.freed \cup released

EventSets ==
  [coming |-> { n \in Events : n >= nextEvent }, network |-> Ids(fromEVM), trigger |-> Ids(triggerFIFO),
   table |-> TableIds, freed |-> Freed]
EventsInv == Partition(EventSets, Events) /\ OneIdEach(fromEVM) /\ OneIdEach(triggerFIFO) /\ OneSlotEach

LEMMA EventsAre ==
  /\ DOMAIN EventSets = {"coming", "network", "trigger", "table", "freed"}
  /\ EventSets["coming"] = { n \in Events : n >= nextEvent } /\ EventSets["network"] = Ids(fromEVM)
  /\ EventSets["trigger"] = Ids(triggerFIFO) /\ EventSets["table"] = TableIds /\ EventSets["freed"] = Freed
  /\ DOMAIN EventSets' = DOMAIN EventSets
  /\ EventSets'["coming"] = { n \in Events : n >= nextEvent' } /\ EventSets'["network"] = Ids(fromEVM')
  /\ EventSets'["trigger"] = Ids(triggerFIFO') /\ EventSets'["table"] = TableIds'
  /\ EventSets'["freed"] = Freed'
BY DEF EventSets

LEMMA IdsAppend ==
  ASSUME NEW S, NEW q \in Seq(S), NEW e \in S
  PROVE  /\ Ids(Append(q, e)) = Ids(q) \cup ({e.evbId} \cap Events)
         /\ OneIdEach(q) /\ e.evbId \notin Ids(q) => OneIdEach(Append(q, e))
<1>1. /\ DOMAIN Append(q, e) = DOMAIN q \cup {Len(q) + 1}
      /\ \A i \in DOMAIN q : Append(q, e)[i] = q[i]
      /\ Append(q, e)[Len(q) + 1] = e
  BY AppendAt
<1> QED
  BY <1>1 DEF Ids, OneIdEach

LEMMA IdsTail ==
  ASSUME NEW S, NEW q \in Seq(S), q # << >>, OneIdEach(q)
  PROVE  /\ OneIdEach(Tail(q))
         /\ Head(q).evbId \in Events => Head(q).evbId \in Ids(q)
         /\ Ids(Tail(q)) = Ids(q) \ {Head(q).evbId}
<1>1. /\ 1 \in DOMAIN q /\ q[1] = Head(q)
      /\ \A i \in DOMAIN Tail(q) : i \in Nat /\ i + 1 # 1 /\ i + 1 \in DOMAIN q /\ Tail(q)[i] = q[i + 1]
      /\ \A i \in DOMAIN q : i = 1 \/ (i - 1 \in DOMAIN Tail(q) /\ Tail(q)[i - 1] = q[i])
  BY TailAt
<1>2. \A i, j \in DOMAIN Tail(q) : i + 1 = j + 1 => i = j
  BY <1>1
<1>3. OneIdEach(Tail(q))
  BY <1>1, <1>2 DEF OneIdEach
<1>4. Head(q).evbId \in Events => Head(q).evbId \in Ids(q)
  BY <1>1 DEF Ids
<1>5. \A i \in DOMAIN Tail(q) : Tail(q)[i].evbId \in Events => Tail(q)[i].evbId # Head(q).evbId
  BY <1>1 DEF OneIdEach
<1>6. Ids(Tail(q)) \subseteq Ids(q) \ {Head(q).evbId}
  BY <1>1, <1>5 DEF Ids
<1>7. ASSUME NEW n \in Ids(q) \ {Head(q).evbId} PROVE n \in Ids(Tail(q))
  <2>1. PICK i \in DOMAIN q : n = q[i].evbId
    BY DEF Ids
  <2>2. i - 1 \in DOMAIN Tail(q) /\ Tail(q)[i - 1] = q[i]
    BY <1>1, <2>1
  <2> QED
    BY <2>1, <2>2 DEF Ids
<1> QED
  BY <1>3, <1>4, <1>6, <1>7

\* What a message to the EVM frees.
LEMMA SendFrees ==
  ASSUME NEW element, SendEvtIdRqstAndOrRelease(element)
  PROVE  /\ Freed' = IF "RELEASE" \in element.type THEN Freed \cup {element.evbId} ELSE Freed
         /\ released \subseteq released'
<1> DEFINE msg == Packed(evtIdRqstsAndOrReleases, element)
<1>1. msg.freed = IF "RELEASE" \in element.type THEN evtIdRqstsAndOrReleases.freed \cup {element.evbId}
                  ELSE evtIdRqstsAndOrReleases.freed
  BY DEF Packed
<1>2. CASE msg.nbElements = EvmPacking
  <2>1. released' = released \cup msg.freed /\ evtIdRqstsAndOrReleases'.freed = {}
    BY <1>2 DEF SendEvtIdRqstAndOrRelease, PostToEVM, NoElements
  <2> HIDE DEF msg
  <2> QED
    BY <1>1, <2>1 DEF Freed
<1>3. CASE msg.nbElements # EvmPacking
  <2>1. evtIdRqstsAndOrReleases' = msg /\ released' = released
    BY <1>3 DEF SendEvtIdRqstAndOrRelease
  <2> HIDE DEF msg
  <2> QED
    BY <1>1, <2>1 DEF Freed
<1> QED
  BY <1>2, <1>3

\* What the steps do to the slots of the table.
SameSlots == DOMAIN data' = DOMAIN data /\ \A r \in DOMAIN data : data'[r].evbId = data[r].evbId

LEMMA StartSlots ==
  ASSUME PlacesInv, StartConstruction
  PROVE  \E t \in EventPtr :
           /\ t = Head(triggerFIFO) /\ t.resource \notin DOMAIN data /\ t.resource \notin Range(discardFIFO)
           /\ DOMAIN data' = DOMAIN data \cup {t.resource} /\ data'[t.resource].evbId = t.evbId
           /\ \A r \in DOMAIN data : data'[r].evbId = data[r].evbId
<1>1. /\ Head(triggerFIFO) \in EventPtr /\ Head(triggerFIFO).resource \notin DOMAIN data
  BY StartResources DEF PlacesInv
<1>2. PICK t \in EventPtr : t = Head(triggerFIFO)
  BY <1>1
<1>3. t.resource \notin Range(discardFIFO)
  BY <1>1, <1>2, OutputsComplete, OutputsAre DEF PlacesInv, EventPtr
<1>4. data' = Insert(data, t.resource,
                 [evbId |-> t.evbId, blocks |-> [u \in RUs |-> << >>], nbCompleteSuperFragments |-> 1])
  BY <1>1, <1>2 DEF StartConstruction
<1>5. /\ DOMAIN data' = DOMAIN data \cup {t.resource} /\ data'[t.resource].evbId = t.evbId
      /\ \A r \in DOMAIN data : data'[r].evbId = data[r].evbId
  BY <1>1, <1>2, <1>4 DEF Insert
<1> QED
  BY <1>1, <1>2, <1>3, <1>5

LEMMA AppendSlots ==
  ASSUME PlacesInv, AppendSuperFragment
  PROVE  SameSlots
<1>1. /\ Head(blockFIFO).resource \in DOMAIN data
  BY AppendConstruction DEF PlacesInv
<1>2. PICK b : b = Head(blockFIFO)
  OBVIOUS
<1>3. data' = [data EXCEPT ![b.resource] = WithBlock(@, b)]
  BY <1>1, <1>2 DEF AppendSuperFragment
<1>4. data[b.resource] \in Event
  BY <1>1, <1>2 DEF PlacesInv, TypeInv, TableTypeOK, IsMap
<1>5. WithBlock(data[b.resource], b).evbId = data[b.resource].evbId
  BY <1>4 DEF WithBlock, Event
<1> QED
  BY <1>1, <1>2, <1>3, <1>5 DEF SameSlots

LEMMA FreeSlots ==
  ASSUME PlacesInv, HandleDiscards
  PROVE  \E r \in DOMAIN data :
           /\ r \in ResourceIds /\ data[r].evbId \in Events
           /\ discardFIFO # << >> /\ r = Head(discardFIFO) /\ r \in Range(discardFIFO)
           /\ Range(discardFIFO') = Range(discardFIFO) \ {r}
           /\ DOMAIN data' = DOMAIN data \ {r} /\ \A s \in DOMAIN data' : data'[s] = data[s]
           /\ Freed' = Freed \cup {data[r].evbId} /\ released \subseteq released'
<1>1. discardFIFO # << >> /\ discardFIFO \in Seq(ResourceIds) /\ IsInjective(discardFIFO)
  BY DEF PlacesInv, HandleDiscards, TypeInv, TableTypeOK, OutputsInv, NoneTwiceAtOutput
<1>2. PICK r \in DOMAIN data : r = Head(discardFIFO)
  BY FreeOutputs DEF PlacesInv
<1>3. r \in ResourceIds /\ data[r].evbId \in Events
  BY EventTypes DEF PlacesInv
<1>4. /\ r \in Range(discardFIFO) /\ Range(discardFIFO') = Range(discardFIFO) \ {r}
  BY <1>1, <1>2, RangeTail DEF HandleDiscards
<1>5. FreeEvent(r)
  BY <1>2 DEF HandleDiscards
<1>6. DOMAIN data' = DOMAIN data \ {r} /\ \A s \in DOMAIN data' : data'[s] = data[s]
  BY <1>5 DEF FreeEvent, Erase
<1>7. Freed' = Freed \cup {data[r].evbId} /\ released \subseteq released'
  <2> DEFINE element == [type |-> {"RELEASE"} \cup (IF requestEvents THEN {"REQUEST"} ELSE {}),
                         resource |-> r, evbId |-> data[r].evbId]
  <2>1. SendEvtIdRqstAndOrRelease(element) /\ "RELEASE" \in element.type /\ element.evbId = data[r].evbId
    BY <1>5 DEF FreeEvent
  <2> HIDE DEF element
  <2> QED
    BY <2>1, SendFrees
<1> QED
  BY <1>1, <1>2, <1>3, <1>4, <1>6, <1>7

\* What is no event's business.
LEMMA SameEvents ==
  ASSUME EventsInv, UNCHANGED << nextEvent, fromEVM, triggerFIFO, Freed >>, SameSlots
  PROVE  EventsInv'
<1>1. TableIds' = TableIds /\ OneSlotEach'
  BY DEF EventsInv, SameSlots, TableIds, OneSlotEach
<1>2. EventSets' = EventSets
  BY <1>1 DEF EventSets, Ids
<1> QED
  BY <1>1, <1>2 DEF EventsInv, Partition, OneIdEach

LEMMA SameData == UNCHANGED data => SameSlots
BY DEF SameSlots

LEMMA FreedSame == UNCHANGED << evtIdRqstsAndOrReleases, released >> => Freed' = Freed
BY DEF Freed

LEMMA AssignEvents ==
  ASSUME TypeInv, EventsInv, AssignEvent
  PROVE  EventsInv'
<1>1. PICK n \in Events : n = nextEvent
  BY DiskAssumption DEF AssignEvent, TypeInv, PeerTypeOK, Events
<1>2. fromEVM \in Seq(EvmMessage) /\ requests \in Seq(ResourceIds) /\ requests # << >>
  BY DEF AssignEvent, TypeInv, PeerTypeOK
<1>3. PICK m \in EvmMessage : m.evbId = n /\ fromEVM' = Append(fromEVM, m)
  <2> DEFINE m == [resource |-> Head(requests), evbId |-> n, lumiSection |-> 0]
  <2>1. m \in EvmMessage /\ m.evbId = n
    BY <1>2 DEF EvmMessage
  <2> QED
    BY <1>1, <2>1 DEF AssignEvent
<1>4. UNCHANGED << triggerFIFO, evtIdRqstsAndOrReleases, released, data >>
  BY DEF AssignEvent, tableVars
<1>5. nextEvent' = n + 1 /\ n \in Nat /\ \A k \in Events : k \in Nat
  BY <1>1 DEF AssignEvent, Events
<1>6. { k \in Events : k >= nextEvent' } = { k \in Events : k >= nextEvent } \ {n}
  <2>1. \A k \in Events : k >= n + 1 <=> k >= n /\ k # n
    BY <1>5
  <2> QED
    BY <1>1, <1>5, <2>1
<1>7. n \in EventSets["coming"] /\ {"coming", "network"} \subseteq DOMAIN EventSets
  BY <1>1, <1>5, EventsAre
<1>8. n \notin Ids(fromEVM)
  BY <1>7, Apart, EventsAre DEF EventsInv
<1>9. Ids(fromEVM') = Ids(fromEVM) \cup {n} /\ OneIdEach(fromEVM')
  BY <1>2, <1>3, <1>8, IdsAppend DEF EventsInv
<1>10. TableIds' = TableIds /\ Freed' = Freed /\ Ids(triggerFIFO') = Ids(triggerFIFO) /\ OneSlotEach'
  BY <1>4 DEF TableIds, Freed, EventsInv, OneSlotEach
<1>11. Moves(EventSets, EventSets', "coming", "network", n)
  BY <1>6, <1>7, <1>9, <1>10, EventsAre DEF Moves
<1>12. Partition(EventSets', Events)
  BY <1>11, Moved DEF EventsInv
<1> QED
  BY <1>4, <1>9, <1>10, <1>12 DEF EventsInv, Partition, OneIdEach

\* A message without an event.
LEMMA EndEvents ==
  ASSUME TypeInv, EventsInv, EndLumiSection
  PROVE  EventsInv'
<1>1. PICK m \in EvmMessage : m.evbId = 0 /\ fromEVM' = Append(fromEVM, m)
  <2> DEFINE m == [resource |-> Head(requests), evbId |-> 0, lumiSection |-> endedLS + 1]
  <2>1. requests \in Seq(ResourceIds) /\ requests # << >> /\ endedLS + 1 \in 1..LumiSections
    BY DiskAssumption DEF EndLumiSection, TypeInv, PeerTypeOK
  <2>2. m \in EvmMessage /\ m.evbId = 0
    BY <2>1 DEF EvmMessage
  <2> QED
    BY <2>2 DEF EndLumiSection
<1>2. fromEVM \in Seq(EvmMessage) /\ 0 \notin Events
  BY DEF TypeInv, PeerTypeOK, Events
<1>3. Ids(fromEVM') = Ids(fromEVM) /\ OneIdEach(fromEVM')
  <2>1. m.evbId \notin Ids(fromEVM) /\ {m.evbId} \cap Events = {}
    BY <1>1, <1>2 DEF Ids
  <2>2. /\ Ids(Append(fromEVM, m)) = Ids(fromEVM) \cup ({m.evbId} \cap Events)
        /\ OneIdEach(Append(fromEVM, m))
    BY <1>2, <2>1, IdsAppend DEF EventsInv
  <2> QED
    BY <1>1, <1>2, <2>1, <2>2
<1>4. UNCHANGED << nextEvent, triggerFIFO, evtIdRqstsAndOrReleases, released, data >>
  BY DEF EndLumiSection, tableVars
<1>5. TableIds' = TableIds /\ Freed' = Freed /\ OneSlotEach' /\ OneIdEach(triggerFIFO')
  BY <1>4 DEF TableIds, Freed, EventsInv, OneSlotEach
<1>6. EventSets' = EventSets
  BY <1>3, <1>4, <1>5 DEF EventSets
<1> QED
  BY <1>3, <1>5, <1>6 DEF EventsInv, Partition, OneIdEach

LEMMA EvmLumisectionEvents ==
  ASSUME TypeInv, EventsInv, EvmLumisection
  PROVE  EventsInv'
<1>1. fromEVM # << >> /\ fromEVM \in Seq(EvmMessage) /\ fromEVM' = Tail(fromEVM) /\ Head(fromEVM).evbId = 0
  BY DEF EvmLumisection, TypeInv, PeerTypeOK
<1>2. Ids(fromEVM') = Ids(fromEVM) /\ OneIdEach(fromEVM')
  <2>1. Ids(fromEVM) \ {0} = Ids(fromEVM)
    BY DEF Ids, Events
  <2> QED
    BY <1>1, <2>1, IdsTail DEF EventsInv
<1>3. UNCHANGED << nextEvent, triggerFIFO, data >>
  BY DEF EvmLumisection, tableVars
<1>4. Freed' = Freed
  <2> DEFINE e == [type |-> {"REQUEST"}, resource |-> Head(fromEVM).resource, evbId |-> 0]
  <2>1. SendEvtIdRqstAndOrRelease(e) /\ "RELEASE" \notin e.type
    BY DEF EvmLumisection
  <2> HIDE DEF e
  <2> QED
    BY <2>1, SendFrees
<1>5. TableIds' = TableIds /\ OneSlotEach' /\ OneIdEach(triggerFIFO')
  BY <1>3 DEF TableIds, EventsInv, OneSlotEach
<1>6. EventSets' = EventSets
  BY <1>2, <1>3, <1>4, <1>5 DEF EventSets
<1> QED
  BY <1>2, <1>5, <1>6 DEF EventsInv, Partition, OneIdEach

LEMMA TriggerEvents ==
  ASSUME TypeInv, EventsInv, ReceiveTrigger
  PROVE  EventsInv'
<1>1. fromEVM # << >> /\ fromEVM \in Seq(EvmMessage) /\ triggerFIFO \in Seq(EventPtr)
  BY DEF ReceiveTrigger, TypeInv, PeerTypeOK, ProxyTypeOK
<1>2. PICK m \in EvmMessage : m = Head(fromEVM) /\ m.evbId # 0
  <2>1. Head(fromEVM) \in EvmMessage
    BY <1>1
  <2> QED
    BY <2>1 DEF ReceiveTrigger
<1>3. PICK n \in Events : n = m.evbId
  BY <1>2 DEF EvmMessage
<1>4. PICK t \in EventPtr : t.evbId = n /\ triggerFIFO' = Append(triggerFIFO, t)
  <2>1. [resource |-> m.resource, evbId |-> n] \in EventPtr
    BY <1>2 DEF EvmMessage, EventPtr
  <2> QED
    BY <1>2, <1>3, <2>1 DEF ReceiveTrigger
<1>5. fromEVM' = Tail(fromEVM) /\ UNCHANGED << nextEvent, evtIdRqstsAndOrReleases, released, data >>
  BY DEF ReceiveTrigger, tableVars, evmMsgVars
<1>6. n \in Ids(fromEVM) /\ Ids(fromEVM') = Ids(fromEVM) \ {n} /\ OneIdEach(fromEVM')
  BY <1>1, <1>2, <1>3, <1>5, IdsTail DEF EventsInv
<1>7. n \notin Ids(triggerFIFO)
  BY <1>6, Apart, EventsAre DEF EventsInv
<1>8. Ids(triggerFIFO') = Ids(triggerFIFO) \cup {n} /\ OneIdEach(triggerFIFO')
  BY <1>1, <1>4, <1>7, IdsAppend DEF EventsInv
<1>9. TableIds' = TableIds /\ Freed' = Freed /\ OneSlotEach'
  BY <1>5 DEF TableIds, Freed, EventsInv, OneSlotEach
<1>10. Moves(EventSets, EventSets', "network", "trigger", n)
  BY <1>5, <1>6, <1>8, <1>9, EventsAre DEF Moves
<1>11. Partition(EventSets', Events)
  BY <1>10, Moved DEF EventsInv
<1> QED
  BY <1>6, <1>8, <1>9, <1>11 DEF EventsInv, Partition, OneIdEach

LEMMA StartEvents ==
  ASSUME PlacesInv, EventsInv, StartConstruction
  PROVE  EventsInv'
<1>1. PICK t \in EventPtr :
        /\ t = Head(triggerFIFO) /\ t.resource \notin DOMAIN data
        /\ DOMAIN data' = DOMAIN data \cup {t.resource} /\ data'[t.resource].evbId = t.evbId
        /\ \A r \in DOMAIN data : data'[r].evbId = data[r].evbId
  BY StartSlots
<1>2. PICK n \in Events : n = t.evbId
  BY DEF EventPtr
<1>3. triggerFIFO # << >> /\ triggerFIFO \in Seq(EventPtr) /\ triggerFIFO' = Tail(triggerFIFO)
      /\ UNCHANGED << nextEvent, fromEVM, evtIdRqstsAndOrReleases, released >>
  BY DEF StartConstruction, PlacesInv, TypeInv, ProxyTypeOK, evmVars, evmMsgVars
<1>4. n \in Ids(triggerFIFO) /\ Ids(triggerFIFO') = Ids(triggerFIFO) \ {n} /\ OneIdEach(triggerFIFO')
  BY <1>1, <1>2, <1>3, IdsTail DEF EventsInv
<1>5. n \notin TableIds
  BY <1>4, Apart, EventsAre DEF EventsInv
<1>6. TableIds' = TableIds \cup {n}
  BY <1>1, <1>2 DEF TableIds
<1>7. OneSlotEach'
  BY <1>1, <1>2, <1>5 DEF EventsInv, OneSlotEach, TableIds
<1>8. Freed' = Freed /\ Ids(fromEVM') = Ids(fromEVM) /\ OneIdEach(fromEVM')
  BY <1>3 DEF Freed, EventsInv
<1>9. Moves(EventSets, EventSets', "trigger", "table", n)
  BY <1>3, <1>4, <1>6, <1>8, EventsAre DEF Moves
<1>10. Partition(EventSets', Events)
  BY <1>9, Moved DEF EventsInv
<1> QED
  BY <1>4, <1>7, <1>8, <1>10 DEF EventsInv, Partition, OneIdEach

LEMMA FreeEvents ==
  ASSUME PlacesInv, EventsInv, HandleDiscards
  PROVE  EventsInv'
<1>1. PICK r \in DOMAIN data :
        /\ data[r].evbId \in Events
        /\ DOMAIN data' = DOMAIN data \ {r} /\ \A s \in DOMAIN data' : data'[s] = data[s]
        /\ Freed' = Freed \cup {data[r].evbId}
  BY FreeSlots
<1>2. PICK n \in Events : n = data[r].evbId
  BY <1>1
<1>3. UNCHANGED << nextEvent, fromEVM, triggerFIFO >>
  BY DEF HandleDiscards, evmVars
<1>4. n \in TableIds /\ TableIds' = TableIds \ {n} /\ OneSlotEach'
  BY <1>1, <1>2 DEF TableIds, EventsInv, OneSlotEach
<1>5. Ids(fromEVM') = Ids(fromEVM) /\ Ids(triggerFIFO') = Ids(triggerFIFO)
      /\ OneIdEach(fromEVM') /\ OneIdEach(triggerFIFO')
  BY <1>3 DEF EventsInv
<1>6. Moves(EventSets, EventSets', "table", "freed", n)
  BY <1>1, <1>2, <1>3, <1>4, <1>5, EventsAre DEF Moves
<1>7. Partition(EventSets', Events)
  BY <1>6, Moved DEF EventsInv
<1> QED
  BY <1>4, <1>5, <1>7 DEF EventsInv, Partition, OneIdEach

LEMMA EventsStep ==
  ASSUME PlacesInv, EventsInv, [Next]_vars
  PROVE  EventsInv'
<1>1. TypeInv
  BY DEF PlacesInv
<1> USE DEF tableVars, evmMsgVars, evmVars, diskVars
<1>2. CASE Evm
  BY <1>1, <1>2, AssignEvents, EndEvents DEF Evm
<1>3. CASE ReceiveTrigger
  BY <1>1, <1>3, TriggerEvents
<1>4. CASE EvmLumisection
  BY <1>1, <1>4, EvmLumisectionEvents
<1>5. CASE StartConstruction
  BY <1>5, StartEvents
<1>6. CASE AppendSuperFragment
  BY <1>6, AppendSlots, SameEvents, FreedSame DEF AppendSuperFragment
<1>7. CASE HandleDiscards
  BY <1>7, FreeEvents
<1>8. CASE SendOldEvmRequests
  <2>1. Freed' = Freed
    BY <1>8 DEF SendOldEvmRequests, PostToEVM, NoElements, Freed
  <2> QED
    BY <1>8, <2>1, SameEvents, SameData DEF SendOldEvmRequests
<1>9. CASE SendEvtIdRqsts
  <2> DEFINE e == [type |-> {"REQUEST"}, resource |-> Head(freeResourceIdFIFO), evbId |-> 0]
  <2>1. SendEvtIdRqstAndOrRelease(e) /\ "RELEASE" \notin e.type
    BY <1>9 DEF SendEvtIdRqsts
  <2> HIDE DEF e
  <2>2. Freed' = Freed
    BY <2>1, SendFrees
  <2> QED
    BY <1>9, <2>2, SameEvents, SameData DEF SendEvtIdRqsts
<1>10. CASE UNCHANGED << nextEvent, fromEVM, triggerFIFO, evtIdRqstsAndOrReleases, released, data >>
  BY <1>10, SameEvents, SameData, FreedSame
<1>11. ASSUME NEW u \in RUs, AnswerRequest(u) \/ ReceiveBlock(u)
       PROVE  EventsInv'
  BY <1>10, <1>11 DEF AnswerRequest, ReceiveBlock
<1>12. CASE ReceiveFuRequest \/ SendOldRuRequests \/ ResourceMonitoring
  BY <1>10, <1>12 DEF ReceiveFuRequest, SendOldRuRequests, ResourceMonitoring
<1>13. CASE (\E r \in ResourceIds : FuDiscard(r)) \/ \E w \in Writers : DiscardEvent(w)
  BY <1>10, <1>13 DEF FuDiscard, DiscardEvent
<1>14. CASE WriteNextCompleteEvent \/ SendNextCompleteEventToFU
  BY <1>10, <1>14 DEF WriteNextCompleteEvent, SendNextCompleteEventToFU
<1>15. CASE WriteToDisks
  BY <1>10, <1>15 DEF WriteToDisks, OnlyDisk
<1>16. CASE UNCHANGED vars
  BY <1>10, <1>16 DEF vars
<1> QED
  BY <1>2, <1>3, <1>4, <1>5, <1>6, <1>7, <1>8, <1>9, <1>11, <1>12, <1>13, <1>14, <1>15, <1>16
     DEF Next, DoWork, SendOldMessages, TableProcess

-----------------------------------------------------------------------------
(***************************************************************************)
(* The events at the disk writer.  Those that wait for a file, those in a  *)
(* file's queue and those at a writer are the ones of their slots.         *)
(***************************************************************************)
InFile == { h.event : h \in Range(fileHandlerAndEventFIFO) }
AtWriter == { writing[w].event : w \in BusyWriters }
Held == Range(eventFIFO) \cup InFile \cup AtWriter
CarriesInv == \A e \in Held : OfEvent(e)

LEMMA HeldTypes ==
  ASSUME DiskTypeInv
  PROVE  /\ Range(eventFIFO) \subseteq EventPtr /\ Range(fileHandlerAndEventFIFO) \subseteq FileHandlerAndEvent
         /\ InFile \subseteq EventPtr /\ AtWriter \subseteq EventPtr /\ Held \subseteq EventPtr
<1>1. eventFIFO \in Seq(EventPtr) /\ fileHandlerAndEventFIFO \in Seq(FileHandlerAndEvent)
  BY DEF DiskTypeInv, DiskTypeOK
<1>2. Range(eventFIFO) \subseteq EventPtr /\ Range(fileHandlerAndEventFIFO) \subseteq FileHandlerAndEvent
  BY <1>1 DEF Range
<1>3. InFile \subseteq EventPtr
  BY <1>2 DEF InFile, FileHandlerAndEvent
<1>4. AtWriter \subseteq EventPtr
  BY DEF DiskTypeInv, WritersHaveEvents, AtWriter, BusyWriters, Busy
<1> QED
  BY <1>2, <1>3, <1>4 DEF Held

\* A held event is complete and at one place only.
LEMMA HeldPlaces ==
  ASSUME PlacesInv, NEW e \in Held
  PROVE  /\ e \in EventPtr /\ e.resource \in DOMAIN data /\ IsComplete(data[e.resource])
         /\ e.resource \notin Range(discardFIFO)
<1>1. e \in EventPtr
  BY HeldTypes DEF PlacesInv, TypeInv
<1>2. PICK r \in ResourceIds : r = e.resource
  BY <1>1 DEF EventPtr
<1>3. CASE e \in Range(eventFIFO)
  <2>1. r \in Resources(eventFIFO)
    BY <1>2, <1>3 DEF Range, Resources
  <2> QED
    BY <1>1, <1>2, <2>1, OutputsComplete, Apart, OutputsAre DEF PlacesInv, OutputsInv
<1>4. CASE e \in InFile
  <2>1. r \in EventResources(fileHandlerAndEventFIFO)
    BY <1>2, <1>4 DEF Range, EventResources, InFile
  <2> QED
    BY <1>1, <1>2, <2>1, OutputsComplete, Apart, OutputsAre DEF PlacesInv, OutputsInv
<1>5. CASE e \in AtWriter
  <2>1. r \in BusyResources
    BY <1>2, <1>5 DEF AtWriter, BusyResources
  <2> QED
    BY <1>1, <1>2, <2>1, OutputsComplete, Apart, OutputsAre DEF PlacesInv, OutputsInv
<1> QED
  BY <1>3, <1>4, <1>5 DEF Held

\* The writers, one of which changes.
LEMMA HandleEventsHeld ==
  ASSUME DiskTypeInv, HandleEvents
  PROVE  \E e \in EventPtr, h \in FileHandlerAndEvent :
           /\ eventFIFO # << >> /\ e = Head(eventFIFO) /\ e \in Range(eventFIFO) /\ h.event = e
           /\ Range(eventFIFO) = Range(eventFIFO') \cup {e}
           /\ fileHandlerAndEventFIFO' = Append(fileHandlerAndEventFIFO, h)
           /\ Range(fileHandlerAndEventFIFO') = Range(fileHandlerAndEventFIFO) \cup {h}
           /\ InFile' = InFile \cup {e} /\ AtWriter' = AtWriter
<1>1. PICK e \in EventPtr, h \in FileHandlerAndEvent :
        /\ eventFIFO # << >> /\ e = Head(eventFIFO) /\ eventFIFO' = Tail(eventFIFO)
        /\ h.event = e /\ fileHandlerAndEventFIFO' = Append(fileHandlerAndEventFIFO, h)
  BY HandleEventsQueues
<1>2. eventFIFO \in Seq(EventPtr) /\ fileHandlerAndEventFIFO \in Seq(FileHandlerAndEvent)
  BY DEF DiskTypeInv, DiskTypeOK
<1>3. e \in Range(eventFIFO) /\ Range(eventFIFO) = Range(eventFIFO') \cup {e}
  BY <1>1, <1>2, RangeTail
<1>4. Range(fileHandlerAndEventFIFO') = Range(fileHandlerAndEventFIFO) \cup {h}
  BY <1>1, <1>2, RangeAppend
<1>5. InFile' = InFile \cup {e}
  BY <1>1, <1>4 DEF InFile
<1>6. AtWriter' = AtWriter
  BY SameWriters DEF HandleEvents, AtWriter
<1> QED
  BY <1>1, <1>3, <1>4, <1>5, <1>6

LEMMA TakeHeld ==
  ASSUME DiskTypeInv, NEW w \in Writers, TakeEvent(w)
  PROVE  \E h \in FileHandlerAndEvent :
           /\ h \in Range(fileHandlerAndEventFIFO)
           /\ Range(fileHandlerAndEventFIFO) = Range(fileHandlerAndEventFIFO') \cup {h}
           /\ InFile = InFile' \cup {h.event} /\ AtWriter' = AtWriter \cup {h.event}
           /\ writing'[w].at = "write" /\ writing'[w].file = h.file /\ writing'[w].event = h.event
           /\ w \notin BusyWriters /\ BusyWriters' = BusyWriters \cup {w}
           /\ \A v \in BusyWriters : writing'[v] = writing[v]
<1>1. /\ fileHandlerAndEventFIFO # << >> /\ fileHandlerAndEventFIFO \in Seq(FileHandlerAndEvent)
      /\ fileHandlerAndEventFIFO' = Tail(fileHandlerAndEventFIFO)
      /\ writing \in [Writers -> Writing] /\ writing[w].at \in {"idle", "done"}
  BY DEF TakeEvent, DiskTypeInv, DiskTypeOK
<1>2. PICK h \in FileHandlerAndEvent : h = Head(fileHandlerAndEventFIFO)
  <2>1. Head(fileHandlerAndEventFIFO) \in FileHandlerAndEvent
    BY <1>1
  <2> QED
    BY <2>1
<1>3. /\ \A v \in Writers \ {w} : writing'[v] = writing[v]
      /\ writing'[w].at = "write" /\ writing'[w].file = h.file /\ writing'[w].event = h.event
  BY <1>1, <1>2 DEF TakeEvent
<1>4. h \in Range(fileHandlerAndEventFIFO) /\ Range(fileHandlerAndEventFIFO) = Range(fileHandlerAndEventFIFO') \cup {h}
  BY <1>1, <1>2, RangeTail
<1>5. InFile = InFile' \cup {h.event}
  BY <1>4 DEF InFile
<1>6. w \notin BusyWriters /\ BusyWriters' = BusyWriters \cup {w} /\ BusyWriters \subseteq Writers
  BY <1>1, <1>3 DEF BusyWriters, Busy
<1>7. \A v \in BusyWriters : writing'[v] = writing[v]
  BY <1>3, <1>6
<1>8. AtWriter' = AtWriter \cup {h.event}
  BY <1>3, <1>6, <1>7 DEF AtWriter
<1> QED
  BY <1>3, <1>4, <1>5, <1>6, <1>7, <1>8

\* A writer at work, and one that leaves.
Works(w) == WriteToDisk(w) \/ ReadEventCount(w) \/ StoreEventCount(w)

LEMMA WorksHeld ==
  ASSUME DiskTypeInv, NEW w \in Writers, Works(w)
  PROVE  /\ UNCHANGED << eventFIFO, fileHandlerAndEventFIFO, BusyWriters, AtWriter >>
         /\ w \in BusyWriters /\ \A v \in Writers \ {w} : writing'[v] = writing[v]
         /\ writing'[w].file = writing[w].file /\ writing'[w].event = writing[w].event
         /\ writing[w].at # "idle"
<1>1. writing \in [Writers -> Writing]
  BY DEF DiskTypeInv, DiskTypeOK
<1>2. /\ UNCHANGED << eventFIFO, fileHandlerAndEventFIFO >>
      /\ \A v \in Writers \ {w} : writing'[v] = writing[v]
  BY <1>1 DEF Works, WriteToDisk, ReadEventCount, StoreEventCount
<1>3. /\ Busy(w) /\ Busy(w)'
      /\ writing'[w].file = writing[w].file /\ writing'[w].event = writing[w].event
  <2>1. CASE WriteToDisk(w)
    BY <1>1, <2>1 DEF WriteToDisk, Busy, Writing
  <2>2. CASE ReadEventCount(w)
    BY <1>1, <2>2 DEF ReadEventCount, Busy, Writing
  <2>3. CASE StoreEventCount(w)
    BY <1>1, <2>3 DEF StoreEventCount, Busy, Writing
  <2> QED
    BY <2>1, <2>2, <2>3 DEF Works
<1>4. BusyWriters' = BusyWriters /\ w \in BusyWriters
  BY <1>2, <1>3 DEF BusyWriters, Busy
<1>5. \A v \in BusyWriters : writing'[v].event = writing[v].event
  BY <1>2, <1>3 DEF BusyWriters
<1>6. AtWriter' = AtWriter
  BY <1>4, <1>5 DEF AtWriter
<1>7. writing[w].at # "idle"
  BY <1>3 DEF Busy
<1> QED
  BY <1>2, <1>3, <1>4, <1>6, <1>7

LEMMA LeaveHeld ==
  ASSUME DiskTypeInv, NEW w \in Writers, LeaveWriting(w)
  PROVE  /\ UNCHANGED << eventFIFO, fileHandlerAndEventFIFO, BusyWriters, AtWriter >>
         /\ \A v \in BusyWriters : writing'[v] = writing[v]
<1>1. writing \in [Writers -> Writing] /\ writing' = [writing EXCEPT ![w] = NotWriting]
      /\ writing[w].at = "done"
  BY DEF DiskTypeInv, DiskTypeOK, LeaveWriting
<1>2. w \notin BusyWriters /\ BusyWriters' = BusyWriters /\ BusyWriters \subseteq Writers
  BY <1>1 DEF BusyWriters, Busy, NotWriting
<1>3. \A v \in BusyWriters : writing'[v] = writing[v]
  BY <1>1, <1>2
<1>4. AtWriter' = AtWriter
  BY <1>2, <1>3 DEF AtWriter
<1> QED
  BY <1>2, <1>3, <1>4 DEF LeaveWriting

LEMMA DiscardHeld ==
  ASSUME DiskTypeInv, NEW w \in Writers, DiscardWritten(w)
  PROVE  /\ w \in BusyWriters /\ BusyWriters' = BusyWriters \ {w} /\ writing[w].at = "discard"
         /\ \A v \in BusyWriters' : v \in Writers \ {w} /\ writing'[v] = writing[v]
         /\ AtWriter = AtWriter' \cup {writing[w].event} /\ writing[w].event \in EventPtr
         /\ UNCHANGED << eventFIFO, fileHandlerAndEventFIFO >>
<1>1. writing \in [Writers -> Writing] /\ writing' = [writing EXCEPT ![w].at = "done"]
      /\ writing[w].at = "discard" /\ UNCHANGED << eventFIFO, fileHandlerAndEventFIFO >>
  BY DEF DiskTypeInv, DiskTypeOK, DiscardWritten
<1>2. writing'[w].at = "done" /\ \A v \in Writers \ {w} : writing'[v] = writing[v]
  BY <1>1 DEF Writing
<1>3. w \in BusyWriters /\ BusyWriters' = BusyWriters \ {w} /\ BusyWriters \subseteq Writers
  BY <1>1, <1>2 DEF BusyWriters, Busy
<1>4. AtWriter = AtWriter' \cup {writing[w].event}
  BY <1>2, <1>3 DEF AtWriter
<1>5. writing[w].event \in EventPtr
  BY <1>1 DEF DiskTypeInv, WritersHaveEvents
<1> QED
  BY <1>1, <1>2, <1>3, <1>4, <1>5

LEMMA SameHeld ==
  UNCHANGED << eventFIFO, fileHandlerAndEventFIFO, writing >>
    => UNCHANGED << InFile, AtWriter, Held >>
BY SameWriters DEF InFile, AtWriter, Held

\* Nothing changes in the slots, and nothing new is held.
LEMMA LessHeld ==
  ASSUME CarriesInv, Held' \subseteq Held, SameSlots
  PROVE  CarriesInv'
BY DEF CarriesInv, OfEvent, SameSlots

LEMMA CarriesStep ==
  ASSUME PlacesInv, CarriesInv, [Next]_vars
  PROVE  CarriesInv'
<1>1. TypeInv /\ DiskTypeInv
  BY DEF PlacesInv, TypeInv
<1> USE DEF tableVars, diskVars
<1>2. CASE UNCHANGED << eventFIFO, fileHandlerAndEventFIFO, writing, data >>
  BY <1>2, LessHeld, SameHeld, SameData
<1>3. CASE Evm \/ ReceiveTrigger
  BY <1>2, <1>3 DEF Evm, AssignEvent, EndLumiSection, ReceiveTrigger
<1>4. CASE EvmLumisection
  BY <1>2, <1>4 DEF EvmLumisection, CloseLS
<1>5. ASSUME NEW u \in RUs, AnswerRequest(u) \/ ReceiveBlock(u)
      PROVE  CarriesInv'
  BY <1>2, <1>5 DEF AnswerRequest, ReceiveBlock
<1>6. CASE ReceiveFuRequest \/ SendOldRuRequests \/ SendOldEvmRequests \/ SendEvtIdRqsts \/ ResourceMonitoring
  BY <1>2, <1>6 DEF ReceiveFuRequest, SendOldRuRequests, SendOldEvmRequests, SendEvtIdRqsts, ResourceMonitoring
<1>7. CASE \/ \E r \in ResourceIds : FuDiscard(r)
           \/ SendNextCompleteEventToFU
  BY <1>2, <1>7 DEF FuDiscard, SendNextCompleteEventToFU
<1>8. CASE StartConstruction
  <2>1. PICK t \in EventPtr : /\ t.resource \notin DOMAIN data
                              /\ DOMAIN data' = DOMAIN data \cup {t.resource}
                              /\ \A r \in DOMAIN data : data'[r].evbId = data[r].evbId
    BY <1>8, StartSlots
  <2>2. Held' = Held
    BY <1>8, SameHeld DEF StartConstruction
  <2> QED
    BY <2>1, <2>2 DEF CarriesInv, OfEvent
<1>9. CASE AppendSuperFragment
  BY <1>9, AppendSlots, SameHeld, LessHeld DEF AppendSuperFragment
<1>10. CASE HandleDiscards
  <2>1. PICK r \in DOMAIN data : /\ r \in Range(discardFIFO)
                                 /\ DOMAIN data' = DOMAIN data \ {r}
                                 /\ \A s \in DOMAIN data' : data'[s] = data[s]
    BY <1>10, FreeSlots
  <2>2. Held' = Held
    BY <1>10, SameHeld DEF HandleDiscards
  <2>3. \A e \in Held : e.resource # r
    BY <2>1, HeldPlaces
  <2> QED
    BY <2>1, <2>2, <2>3 DEF CarriesInv, OfEvent
<1>11. CASE WriteNextCompleteEvent
  <2>1. PICK r : r = Head(completeEventsFIFO)
    OBVIOUS
  <2>2. r \in Range(completeEventsFIFO) /\ r \in ResourceIds
    BY <1>1, <1>11, <2>1, RangeTail DEF WriteNextCompleteEvent, TypeInv, TableTypeOK
  <2>3. r \in DOMAIN data
    BY <2>2, OutputsComplete, OutputsAre DEF PlacesInv
  <2>4. PICK e \in EventPtr : e = EventOf(r)
    BY <1>1, <2>3, EventTypes DEF EventOf, EventPtr
  <2>5. Range(eventFIFO') = Range(eventFIFO) \cup {e}
    BY <1>1, <1>11, <2>1, <2>4, RangeAppend DEF WriteNextCompleteEvent, WriteEvent, DiskTypeInv, DiskTypeOK
  <2>6. UNCHANGED << fileHandlerAndEventFIFO, writing, data >>
    BY <1>11 DEF WriteNextCompleteEvent, WriteEvent
  <2>7. InFile' = InFile /\ AtWriter' = AtWriter
    BY <2>6, SameWriters DEF InFile, AtWriter
  <2>8. Held' = Held \cup {e}
    BY <2>5, <2>7 DEF Held
  <2>9. OfEvent(e)
    BY <2>3, <2>4 DEF OfEvent, EventOf
  <2> QED
    BY <2>6, <2>8, <2>9 DEF CarriesInv, OfEvent
<1>12. ASSUME NEW w \in Writers, DiscardEvent(w)
       PROVE  CarriesInv'
  BY <1>1, <1>12, DiscardHeld, LessHeld, SameData DEF DiscardEvent, Held, InFile
<1>13. CASE WriteToDisks
  <2>1. SameSlots
    BY <1>13, SameData DEF WriteToDisks, OnlyDisk
  <2>2. CASE HandleEvents
    BY <1>1, <2>1, <2>2, HandleEventsHeld, LessHeld DEF Held
  <2>3. CASE HandleEoLS
    BY <2>1, <2>3, SameHeld, LessHeld DEF HandleEoLS
  <2>4. ASSUME NEW w \in Writers, TakeEvent(w) PROVE CarriesInv'
    BY <1>1, <2>1, <2>4, TakeHeld, LessHeld DEF Held, TakeEvent
  <2>5. ASSUME NEW w \in Writers, LeaveWriting(w) PROVE CarriesInv'
    BY <1>1, <2>1, <2>5, LeaveHeld, LessHeld DEF Held, InFile
  <2>6. ASSUME NEW w \in Writers, Works(w) PROVE CarriesInv'
    BY <1>1, <2>1, <2>6, WorksHeld, LessHeld DEF Held, InFile
  <2> QED
    BY <1>13, <2>2, <2>3, <2>4, <2>5, <2>6 DEF WriteToDisks, Works
<1>14. CASE UNCHANGED vars
  BY <1>2, <1>14 DEF vars
<1> QED
  BY <1>3, <1>4, <1>5, <1>6, <1>7, <1>8, <1>9, <1>10, <1>11, <1>12, <1>13, <1>14
     DEF Next, DoWork, SendOldMessages, TableProcess

-----------------------------------------------------------------------------
(***************************************************************************)
(* The files.  They have events of their lumi section only, and a new one  *)
(* does not take the place of another.                                     *)
(***************************************************************************)
FilesInv ==
  /\ \A f \in DOMAIN files : \A n \in files[f].events : LumiSection[n] = f.lumiSection
  /\ \A h \in Range(fileHandlerAndEventFIFO) : h.file.lumiSection = LumiSection[h.event.evbId]
  /\ \A w \in BusyWriters : writing[w].file.lumiSection = LumiSection[writing[w].event.evbId]
  /\ \A f \in DOMAIN files :
       \/ f.lumiSection \in DOMAIN lumiHandlers /\ f.index < lumiHandlers[f.lumiSection].filesPerLS
       \/ f.lumiSection \in DOMAIN eolsJSON
  /\ \A ls \in DOMAIN lumiHandlers : \A i \in 1..NumberOfWriters :
       lumiHandlers[ls].fileHandlers[i] = NoFile \/ lumiHandlers[ls].fileHandlers[i].lumiSection = ls

OnDisk == UNION { files[f].events : f \in DOMAIN files }

HandlerOf(ls) == IF ls \in DOMAIN lumiHandlers THEN lumiHandlers[ls] ELSE NewLumiHandler

\* What an event does that is given a file.
Files(e, f) ==
  /\ f \in File /\ f.lumiSection = LumiSection[e.evbId]
  /\ DOMAIN files' = DOMAIN files \cup {f}
  /\ \A g \in DOMAIN files : files'[g].events = files[g].events
  /\ f \notin DOMAIN files => files'[f].events = {}
  /\ \E new \in LumiHandler :
       /\ new.eventsPerLS = HandlerOf(f.lumiSection).eventsPerLS + 1
       /\ HandlerOf(f.lumiSection).filesPerLS <= new.filesPerLS
       /\ f \notin DOMAIN files => f.index < new.filesPerLS
       /\ \A i \in 1..NumberOfWriters :
            new.fileHandlers[i] \in {HandlerOf(f.lumiSection).fileHandlers[i], f}
       /\ lumiHandlers' = Insert(lumiHandlers, f.lumiSection, new)

LEMMA HandlerOfType ==
  ASSUME DiskTypeInv, FilesInv, NEW ls \in 1..LumiSections
  PROVE  /\ HandlerOf(ls) \in LumiHandler
         /\ HandlerOf(ls).filesPerLS \in Nat /\ HandlerOf(ls).eventsPerLS \in Nat
         /\ HandlerOf(ls).nextFileHandler \in 1..NumberOfWriters
         /\ \A i \in 1..NumberOfWriters :
              LET f == HandlerOf(ls).fileHandlers[i]
              IN f = NoFile \/ (f \in DOMAIN files /\ f \in File /\ f.lumiSection = ls)
<1>1. HandlerOf(ls) \in LumiHandler
  BY NewLumiHandlerType DEF HandlerOf, DiskTypeInv, DiskTypeOK, IsMap
<1>2. /\ HandlerOf(ls).filesPerLS \in Nat /\ HandlerOf(ls).eventsPerLS \in Nat
      /\ HandlerOf(ls).nextFileHandler \in 1..NumberOfWriters
  BY <1>1 DEF LumiHandler
<1>3. \A i \in 1..NumberOfWriters : NewLumiHandler.fileHandlers[i] = NoFile
  BY DEF NewLumiHandler
<1>4. \A f \in DOMAIN files : f \in File
  BY DEF DiskTypeInv, DiskTypeOK, IsMap
<1>5. \A i \in 1..NumberOfWriters :
        ls \in DOMAIN lumiHandlers =>
          \/ lumiHandlers[ls].fileHandlers[i] = NoFile
          \/ lumiHandlers[ls].fileHandlers[i] \in DOMAIN files /\ lumiHandlers[ls].fileHandlers[i].lumiSection = ls
  BY DEF DiskTypeInv, FilesKnown, FilesInv
<1> QED
  BY <1>1, <1>2, <1>3, <1>4, <1>5 DEF HandlerOf

LEMMA HandleEventsFiles ==
  ASSUME DiskTypeInv, FilesInv, HandleEvents, LumiSection[Head(eventFIFO).evbId] \notin DOMAIN eolsJSON
  PROVE  \E f \in File : /\ fileHandlerAndEventFIFO' = Append(fileHandlerAndEventFIFO, [file |-> f, event |-> Head(eventFIFO)])
                         /\ Files(Head(eventFIFO), f)
<1>1. PICK e \in EventPtr : e = Head(eventFIFO)
  BY HandleEventsHeld
<1>2. PICK ls \in 1..LumiSections : ls = LumiSection[e.evbId]
  BY DiskAssumption DEF EventPtr, Events
<1>3. PICK old \in LumiHandler : old = HandlerOf(ls)
  BY HandlerOfType
<1>4. /\ old.filesPerLS \in Nat /\ old.eventsPerLS \in Nat /\ old.nextFileHandler \in 1..NumberOfWriters
      /\ \A i \in 1..NumberOfWriters :
           LET f == old.fileHandlers[i]
           IN f = NoFile \/ (f \in DOMAIN files /\ f \in File /\ f.lumiSection = ls)
      /\ old.fileHandlers \in [1..NumberOfWriters -> File \cup {NoFile}]
  BY <1>3, HandlerOfType DEF LumiHandler
<1>5. PICK f \in File : f = FileFor(ls, old)
  BY FileForType
<1>6. /\ NeedsFile(old) => f = [lumiSection |-> ls, index |-> old.filesPerLS]
      /\ ~ NeedsFile(old) => f = old.fileHandlers[old.nextFileHandler] /\ f # NoFile
  BY <1>5 DEF FileFor, NeedsFile
<1>7. f.lumiSection = ls /\ (~ NeedsFile(old) => f \in DOMAIN files)
  BY <1>4, <1>6
<1>8. ASSUME NeedsFile(old) PROVE f \notin DOMAIN files
  <2> SUFFICES ASSUME f \in DOMAIN files PROVE FALSE
    OBVIOUS
  <2>1. f.lumiSection = ls /\ f.index = old.filesPerLS
    BY <1>6, <1>8
  <2>2. ls \in DOMAIN lumiHandlers /\ f.index < lumiHandlers[ls].filesPerLS
    BY <1>1, <1>2, <2>1 DEF FilesInv
  <2> QED
    BY <1>3, <1>4, <2>1, <2>2 DEF HandlerOf
<1>9. PICK opened : opened = IF NeedsFile(old)
                             THEN Insert(files, f, [events |-> {}, eventCount |-> 0, allocated |-> 0])
                             ELSE files
  OBVIOUS
<1>10. /\ lumiHandlers' = Insert(lumiHandlers, ls, AllocateFile(ls, old))
       /\ files' = [opened EXCEPT ![f].allocated = @ + 1]
       /\ fileHandlerAndEventFIFO' = Append(fileHandlerAndEventFIFO, [file |-> f, event |-> e])
  BY <1>1, <1>2, <1>3, <1>5, <1>9 DEF HandleEvents, HandlerOf
<1>11. /\ DOMAIN opened = DOMAIN files \cup {f}
       /\ \A g \in DOMAIN files : opened[g] = files[g] /\ files[g] \in FileHandler
       /\ f \notin DOMAIN files => opened[f] = [events |-> {}, eventCount |-> 0, allocated |-> 0]
  BY <1>7, <1>8, <1>9 DEF Insert, DiskTypeInv, DiskTypeOK, IsMap
<1>12. /\ DOMAIN files' = DOMAIN files \cup {f}
       /\ \A g \in DOMAIN files : files'[g].events = files[g].events
       /\ f \notin DOMAIN files => files'[f].events = {}
  BY <1>10, <1>11 DEF FileHandler
<1>13. PICK new \in LumiHandler : new = AllocateFile(ls, old)
  BY FileForType
<1>14. /\ new.eventsPerLS = old.eventsPerLS + 1 /\ old.filesPerLS <= new.filesPerLS
       /\ f \notin DOMAIN files => f.index < new.filesPerLS
       /\ \A i \in 1..NumberOfWriters : new.fileHandlers[i] \in {old.fileHandlers[i], f}
  <2>1. /\ new.eventsPerLS = old.eventsPerLS + 1
        /\ new.filesPerLS = old.filesPerLS + (IF NeedsFile(old) THEN 1 ELSE 0)
        /\ new.fileHandlers = [old.fileHandlers EXCEPT ![old.nextFileHandler] = f]
    BY <1>5, <1>13 DEF AllocateFile
  <2>2. f \notin DOMAIN files => NeedsFile(old) /\ f.index = old.filesPerLS
    BY <1>6, <1>7
  <2> QED
    BY <1>4, <2>1, <2>2
<1> QED
  BY <1>1, <1>2, <1>3, <1>7, <1>10, <1>12, <1>13, <1>14 DEF Files

LEMMA GivenFile ==
  ASSUME DiskTypeInv, FilesInv, HandleEvents, LumiSection[Head(eventFIFO).evbId] \notin DOMAIN eolsJSON
  PROVE  FilesInv' /\ OnDisk' = OnDisk
<1>1. PICK e \in EventPtr, h \in FileHandlerAndEvent :
           /\ eventFIFO # << >> /\ e = Head(eventFIFO) /\ h.event = e
           /\ fileHandlerAndEventFIFO' = Append(fileHandlerAndEventFIFO, h)
           /\ Range(fileHandlerAndEventFIFO') = Range(fileHandlerAndEventFIFO) \cup {h}
  BY HandleEventsHeld
<1>2. PICK f \in File : /\ fileHandlerAndEventFIFO' = Append(fileHandlerAndEventFIFO, [file |-> f, event |-> e])
                        /\ Files(e, f)
  BY <1>1, HandleEventsFiles
<1>3. h.file = f
  <2>1. PICK n : n = Len(fileHandlerAndEventFIFO) + 1
    OBVIOUS
  <2>2. [file |-> f, event |-> e] \in FileHandlerAndEvent /\ fileHandlerAndEventFIFO \in Seq(FileHandlerAndEvent)
    BY DEF FileHandlerAndEvent, DiskTypeInv, DiskTypeOK
  <2>3. PICK k \in FileHandlerAndEvent : k = [file |-> f, event |-> e]
    BY <2>2
  <2>4. Append(fileHandlerAndEventFIFO, h)[n] = h /\ Append(fileHandlerAndEventFIFO, k)[n] = k
    BY <2>1, <2>2, AppendAt
  <2>5. Append(fileHandlerAndEventFIFO, h) = Append(fileHandlerAndEventFIFO, k)
    BY <1>1, <1>2, <2>3, Zenon
  <2>6. h = k /\ k.file = f
    BY <2>3, <2>4, <2>5
  <2> QED
    BY <2>6
<1>4. PICK ls \in 1..LumiSections, new \in LumiHandler :
        /\ ls = f.lumiSection /\ ls = LumiSection[e.evbId]
        /\ HandlerOf(ls).filesPerLS <= new.filesPerLS
        /\ f \notin DOMAIN files => f.index < new.filesPerLS
        /\ \A i \in 1..NumberOfWriters : new.fileHandlers[i] \in {HandlerOf(ls).fileHandlers[i], f}
        /\ lumiHandlers' = Insert(lumiHandlers, ls, new)
  BY <1>2 DEF Files, File
<1>5. /\ DOMAIN files' = DOMAIN files \cup {f}
      /\ \A g \in DOMAIN files : files'[g].events = files[g].events
      /\ f \notin DOMAIN files => files'[f].events = {}
  BY <1>2 DEF Files
<1>6. DOMAIN lumiHandlers' = DOMAIN lumiHandlers \cup {ls} /\ lumiHandlers'[ls] = new
      /\ \A k \in DOMAIN lumiHandlers \ {ls} : lumiHandlers'[k] = lumiHandlers[k]
  BY <1>4 DEF Insert
<1>7. writing' = writing /\ eolsJSON' = eolsJSON
  BY DEF HandleEvents
<1>8. BusyWriters' = BusyWriters
  BY <1>7, SameWriters
<1>9. \A g \in DOMAIN files' : \A n \in files'[g].events : LumiSection[n] = g.lumiSection
  BY <1>5 DEF FilesInv
<1>10. \A k \in Range(fileHandlerAndEventFIFO') : k.file.lumiSection = LumiSection[k.event.evbId]
  BY <1>1, <1>3, <1>4 DEF FilesInv
<1>11. \A w \in BusyWriters' : writing'[w].file.lumiSection = LumiSection[writing'[w].event.evbId]
  BY <1>7, <1>8 DEF FilesInv
<1>12. ASSUME NEW g \in DOMAIN files'
       PROVE  \/ g.lumiSection \in DOMAIN lumiHandlers' /\ g.index < lumiHandlers'[g.lumiSection].filesPerLS
              \/ g.lumiSection \in DOMAIN eolsJSON'
  <2>1. CASE g \notin DOMAIN files
    BY <1>4, <1>5, <1>6, <2>1
  <2>2. CASE g \in DOMAIN files /\ g.lumiSection # ls
    BY <1>6, <1>7, <2>2 DEF FilesInv
  <2>3. CASE g \in DOMAIN files /\ g.lumiSection = ls /\ g.lumiSection \notin DOMAIN eolsJSON
    <3>1. g.index < HandlerOf(ls).filesPerLS
      BY <2>3 DEF FilesInv, HandlerOf
    <3>2. g.index \in Nat /\ HandlerOf(ls).filesPerLS \in Nat /\ new.filesPerLS \in Nat
      BY <2>3, HandlerOfType DEF DiskTypeInv, DiskTypeOK, IsMap, File, LumiHandler
    <3>3. g.index < new.filesPerLS
      BY <1>4, <3>1, <3>2
    <3> QED
      BY <1>6, <2>3, <3>3
  <2> QED
    BY <1>7, <2>1, <2>2, <2>3
<1>13. \A k \in DOMAIN lumiHandlers' : \A i \in 1..NumberOfWriters :
         lumiHandlers'[k].fileHandlers[i] = NoFile \/ lumiHandlers'[k].fileHandlers[i].lumiSection = k
  <2>1. \A i \in 1..NumberOfWriters : new.fileHandlers[i] = NoFile \/ new.fileHandlers[i].lumiSection = ls
    BY <1>4, HandlerOfType
  <2> QED
    BY <1>6, <2>1 DEF FilesInv
<1>14. FilesInv'
  BY <1>9, <1>10, <1>11, <1>12, <1>13 DEF FilesInv
<1>15. OnDisk' = OnDisk
  BY <1>5 DEF OnDisk
<1> QED
  BY <1>14, <1>15

\* The events that are written but not discarded, and those that have a file.
Written == { writing[w].event.evbId : w \in { v \in BusyWriters : writing[v].at # "write" } }
Filed == OnDisk \cup { e.evbId : e \in InFile \cup AtWriter }

LEMMA KeepsFiles ==
  ASSUME FilesInv, DOMAIN files' = DOMAIN files, \A f \in DOMAIN files : files'[f].events = files[f].events,
         Range(fileHandlerAndEventFIFO') \subseteq Range(fileHandlerAndEventFIFO), UNCHANGED << lumiHandlers, eolsJSON >>,
         \A w \in BusyWriters' : writing'[w].file.lumiSection = LumiSection[writing'[w].event.evbId]
  PROVE  FilesInv' /\ OnDisk' = OnDisk
<1>1. OnDisk' = OnDisk
  BY DEF OnDisk
<1>2. \A f \in DOMAIN files' : \A n \in files'[f].events : LumiSection[n] = f.lumiSection
  BY DEF FilesInv
<1>3. \A h \in Range(fileHandlerAndEventFIFO') : h.file.lumiSection = LumiSection[h.event.evbId]
  BY DEF FilesInv
<1>4. \A f \in DOMAIN files' :
        \/ f.lumiSection \in DOMAIN lumiHandlers' /\ f.index < lumiHandlers'[f.lumiSection].filesPerLS
        \/ f.lumiSection \in DOMAIN eolsJSON'
  BY DEF FilesInv
<1>5. \A ls \in DOMAIN lumiHandlers' : \A i \in 1..NumberOfWriters :
        lumiHandlers'[ls].fileHandlers[i] = NoFile \/ lumiHandlers'[ls].fileHandlers[i].lumiSection = ls
  BY DEF FilesInv
<1> QED
  BY <1>1, <1>2, <1>3, <1>4, <1>5 DEF FilesInv

LEMMA TakeFiles ==
  ASSUME DiskTypeInv, FilesInv, NEW w \in Writers, TakeEvent(w)
  PROVE  FilesInv' /\ UNCHANGED << OnDisk, Written, Filed >>
<1>1. PICK h \in FileHandlerAndEvent :
           /\ h \in Range(fileHandlerAndEventFIFO)
           /\ Range(fileHandlerAndEventFIFO) = Range(fileHandlerAndEventFIFO') \cup {h}
           /\ InFile = InFile' \cup {h.event} /\ AtWriter' = AtWriter \cup {h.event}
           /\ writing'[w].at = "write" /\ writing'[w].file = h.file /\ writing'[w].event = h.event
           /\ w \notin BusyWriters /\ BusyWriters' = BusyWriters \cup {w}
           /\ \A v \in BusyWriters : writing'[v] = writing[v]
  BY TakeHeld
<1>2. UNCHANGED << files, lumiHandlers, eolsJSON >>
  BY DEF TakeEvent
<1>3. \A v \in BusyWriters' : writing'[v].file.lumiSection = LumiSection[writing'[v].event.evbId]
  BY <1>1 DEF FilesInv
<1>4. FilesInv' /\ OnDisk' = OnDisk
  BY <1>1, <1>2, <1>3, KeepsFiles
<1>5. Written' = Written
  <2>1. { v \in BusyWriters' : writing'[v].at # "write" } = { v \in BusyWriters : writing[v].at # "write" }
    BY <1>1
  <2> QED
    BY <1>1, <2>1 DEF Written
<1>6. InFile' \cup AtWriter' = InFile \cup AtWriter
  BY <1>1
<1> QED
  BY <1>4, <1>5, <1>6 DEF Filed

LEMMA LeaveFiles ==
  ASSUME DiskTypeInv, FilesInv, NEW w \in Writers, LeaveWriting(w)
  PROVE  FilesInv' /\ UNCHANGED << OnDisk, Written, Filed >>
<1>1. /\ UNCHANGED << fileHandlerAndEventFIFO, BusyWriters, AtWriter >>
      /\ \A v \in BusyWriters : writing'[v] = writing[v]
  BY LeaveHeld
<1>2. UNCHANGED << files, lumiHandlers, eolsJSON >>
  BY DEF LeaveWriting
<1>3. \A v \in BusyWriters' : writing'[v].file.lumiSection = LumiSection[writing'[v].event.evbId]
  BY <1>1 DEF FilesInv
<1>4. FilesInv' /\ OnDisk' = OnDisk
  BY <1>1, <1>2, <1>3, KeepsFiles
<1>5. Written' = Written
  <2>1. { v \in BusyWriters' : writing'[v].at # "write" } = { v \in BusyWriters : writing[v].at # "write" }
    BY <1>1
  <2> QED
    BY <1>1, <2>1 DEF Written
<1>6. InFile' = InFile /\ AtWriter' = AtWriter
  BY <1>1 DEF InFile
<1> QED
  BY <1>4, <1>5, <1>6 DEF Filed

\* The counting is not seen in the events.
LEMMA CountingFiles ==
  ASSUME DiskTypeInv, FilesInv, NEW w \in Writers, ReadEventCount(w) \/ StoreEventCount(w)
  PROVE  FilesInv' /\ UNCHANGED << OnDisk, Written, Filed >>
<1>1. /\ UNCHANGED << fileHandlerAndEventFIFO, BusyWriters, AtWriter >>
      /\ w \in BusyWriters /\ \A v \in Writers \ {w} : writing'[v] = writing[v]
      /\ writing'[w].file = writing[w].file /\ writing'[w].event = writing[w].event
      /\ writing[w].at # "idle"
  BY WorksHeld DEF Works
<1>2. writing \in [Writers -> Writing] /\ BusyWriters \subseteq Writers
  BY DEF DiskTypeInv, DiskTypeOK, BusyWriters
<1>3. writing[w].file \in DOMAIN files /\ \A f \in DOMAIN files : files[f] \in FileHandler
  BY <1>1 DEF DiskTypeInv, DiskTypeOK, WritersHaveEvents, IsMap
<1>4. DOMAIN files' = DOMAIN files /\ \A f \in DOMAIN files : files'[f].events = files[f].events
  <2>1. CASE ReadEventCount(w)
    BY <2>1 DEF ReadEventCount
  <2>2. CASE StoreEventCount(w)
    BY <1>3, <2>2 DEF StoreEventCount, FileHandler
  <2> QED
    BY <2>1, <2>2
<1>5. UNCHANGED << lumiHandlers, eolsJSON >> /\ writing[w].at # "write" /\ writing'[w].at # "write"
  <2>1. CASE ReadEventCount(w)
    BY <1>2, <2>1 DEF ReadEventCount, Writing
  <2>2. CASE StoreEventCount(w)
    BY <1>2, <2>2 DEF StoreEventCount, Writing
  <2> QED
    BY <2>1, <2>2
<1>6. \A v \in BusyWriters' : /\ writing'[v].file = writing[v].file /\ writing'[v].event = writing[v].event
                              /\ writing'[v].at # "write" <=> writing[v].at # "write"
  BY <1>1, <1>2, <1>5
<1>7. FilesInv' /\ OnDisk' = OnDisk
  <2>1. \A v \in BusyWriters' : writing'[v].file.lumiSection = LumiSection[writing'[v].event.evbId]
    BY <1>1, <1>6 DEF FilesInv
  <2> QED
    BY <1>1, <1>4, <1>5, <2>1, KeepsFiles
<1>8. Written' = Written
  <2>1. { v \in BusyWriters' : writing'[v].at # "write" } = { v \in BusyWriters : writing[v].at # "write" }
    BY <1>1, <1>6
  <2> QED
    BY <1>1, <1>6, <2>1 DEF Written
<1>9. InFile' = InFile /\ AtWriter' = AtWriter
  BY <1>1 DEF InFile
<1> QED
  BY <1>7, <1>8, <1>9 DEF Filed

LEMMA WriteFiles ==
  ASSUME DiskTypeInv, FilesInv, NEW w \in Writers, WriteToDisk(w)
  PROVE  /\ FilesInv' /\ Filed' = Filed
         /\ \E n \in Events : OnDisk' = OnDisk \cup {n} /\ Written' = Written \cup {n}
<1>1. /\ UNCHANGED << fileHandlerAndEventFIFO, BusyWriters, AtWriter >>
      /\ w \in BusyWriters /\ \A v \in Writers \ {w} : writing'[v] = writing[v]
      /\ writing'[w].file = writing[w].file /\ writing'[w].event = writing[w].event
      /\ writing[w].at # "idle"
  BY WorksHeld DEF Works
<1>2. writing \in [Writers -> Writing] /\ BusyWriters \subseteq Writers
  BY DEF DiskTypeInv, DiskTypeOK, BusyWriters
<1>3. PICK f \in DOMAIN files : f = writing[w].file
  BY <1>1 DEF DiskTypeInv, WritersHaveEvents
<1>4. PICK n \in Events : n = writing[w].event.evbId
  BY <1>1 DEF DiskTypeInv, WritersHaveEvents, EventPtr
<1>5. /\ files' = [files EXCEPT ![f].events = @ \cup {n}] /\ writing[w].at = "write" /\ writing'[w].at = "count"
      /\ UNCHANGED << lumiHandlers, eolsJSON >>
  BY <1>2, <1>3, <1>4 DEF WriteToDisk, Writing
<1>6. /\ DOMAIN files' = DOMAIN files /\ files'[f].events = files[f].events \cup {n}
      /\ \A g \in DOMAIN files \ {f} : files'[g] = files[g]
  <2>1. files[f] \in FileHandler
    BY DEF DiskTypeInv, DiskTypeOK, IsMap
  <2> QED
    BY <1>5, <2>1 DEF FileHandler
<1>7. OnDisk' = OnDisk \cup {n}
  BY <1>6 DEF OnDisk
<1>8. LumiSection[n] = f.lumiSection
  BY <1>1, <1>3, <1>4 DEF FilesInv
<1>9. \A v \in BusyWriters' : writing'[v].file = writing[v].file /\ writing'[v].event = writing[v].event
  BY <1>1, <1>2
<1>10. FilesInv'
  <2>1. \A g \in DOMAIN files' : \A k \in files'[g].events : LumiSection[k] = g.lumiSection
    BY <1>6, <1>8 DEF FilesInv
  <2>2. \A h \in Range(fileHandlerAndEventFIFO') : h.file.lumiSection = LumiSection[h.event.evbId]
    BY <1>1 DEF FilesInv
  <2>3. \A v \in BusyWriters' : writing'[v].file.lumiSection = LumiSection[writing'[v].event.evbId]
    BY <1>1, <1>9 DEF FilesInv
  <2>4. \A g \in DOMAIN files' :
          \/ g.lumiSection \in DOMAIN lumiHandlers' /\ g.index < lumiHandlers'[g.lumiSection].filesPerLS
          \/ g.lumiSection \in DOMAIN eolsJSON'
    BY <1>5, <1>6 DEF FilesInv
  <2>5. \A ls \in DOMAIN lumiHandlers' : \A i \in 1..NumberOfWriters :
          lumiHandlers'[ls].fileHandlers[i] = NoFile \/ lumiHandlers'[ls].fileHandlers[i].lumiSection = ls
    BY <1>5 DEF FilesInv
  <2> QED
    BY <2>1, <2>2, <2>3, <2>4, <2>5 DEF FilesInv
<1>11. Written' = Written \cup {n}
  <2>1. { v \in BusyWriters' : writing'[v].at # "write" }
          = { v \in BusyWriters : writing[v].at # "write" } \cup {w}
    BY <1>1, <1>2, <1>5
  <2> QED
    BY <1>1, <1>4, <1>9, <2>1 DEF Written
<1>12. Filed' = Filed
  <2>1. writing[w].event \in AtWriter
    BY <1>1 DEF AtWriter
  <2>2. n \in { e.evbId : e \in InFile \cup AtWriter }
    BY <1>4, <2>1
  <2>3. InFile' = InFile /\ AtWriter' = AtWriter
    BY <1>1 DEF InFile
  <2> QED
    BY <1>7, <2>2, <2>3 DEF Filed
<1> QED
  BY <1>7, <1>10, <1>11, <1>12

LEMMA DiscardFiles ==
  ASSUME DiskTypeInv, FilesInv, NEW w \in Writers, DiscardWritten(w)
  PROVE  /\ FilesInv' /\ OnDisk' = OnDisk
         /\ Written = Written' \cup {writing[w].event.evbId}
         /\ Filed = Filed' \cup {writing[w].event.evbId}
<1>1. /\ w \in BusyWriters /\ BusyWriters' = BusyWriters \ {w} /\ writing[w].at = "discard"
      /\ \A v \in BusyWriters' : v \in Writers \ {w} /\ writing'[v] = writing[v]
      /\ AtWriter = AtWriter' \cup {writing[w].event}
      /\ UNCHANGED fileHandlerAndEventFIFO
  BY DiscardHeld
<1>2. UNCHANGED << files, lumiHandlers, eolsJSON >>
  BY DEF DiscardWritten
<1>3. \A v \in BusyWriters' : writing'[v].file.lumiSection = LumiSection[writing'[v].event.evbId]
  BY <1>1 DEF FilesInv
<1>4. FilesInv' /\ OnDisk' = OnDisk
  BY <1>1, <1>2, <1>3, KeepsFiles
<1>5. Written = Written' \cup {writing[w].event.evbId}
  <2>1. { v \in BusyWriters : writing[v].at # "write" }
          = { v \in BusyWriters' : writing'[v].at # "write" } \cup {w}
    BY <1>1
  <2> QED
    BY <1>1, <2>1 DEF Written
<1>6. Filed = Filed' \cup {writing[w].event.evbId}
  <2>1. InFile' = InFile
    BY <1>1 DEF InFile
  <2> QED
    BY <1>1, <1>4, <2>1 DEF Filed
<1> QED
  BY <1>4, <1>5, <1>6

LEMMA EndFiles ==
  ASSUME DiskTypeInv, FilesInv, HandleEoLS
  PROVE  FilesInv' /\ UNCHANGED << OnDisk, Written, Filed >>
<1>1. PICK ls : ls = Head(eolsFIFO)
  OBVIOUS
<1>2. /\ DOMAIN lumiHandlers' = DOMAIN lumiHandlers \ {ls}
      /\ \A k \in DOMAIN lumiHandlers' : lumiHandlers'[k] = lumiHandlers[k]
      /\ DOMAIN eolsJSON' = DOMAIN eolsJSON \cup {ls}
      /\ UNCHANGED << fileHandlerAndEventFIFO, files, writing >>
  BY <1>1 DEF HandleEoLS, Erase, Insert
<1>3. BusyWriters' = BusyWriters /\ AtWriter' = AtWriter /\ InFile' = InFile
  BY <1>2, SameWriters DEF AtWriter, InFile
<1>4. OnDisk' = OnDisk /\ Written' = Written
  BY <1>2, <1>3 DEF OnDisk, Written
<1>5. FilesInv'
  BY <1>2, <1>3 DEF FilesInv
<1> QED
  BY <1>3, <1>4, <1>5 DEF Filed

LEMMA SameFiles ==
  UNCHANGED << fileHandlerAndEventFIFO, lumiHandlers, files, eolsJSON, writing >>
    => (FilesInv => FilesInv') /\ UNCHANGED << OnDisk, Written, Filed >>
<1> SUFFICES ASSUME UNCHANGED << fileHandlerAndEventFIFO, lumiHandlers, files, eolsJSON, writing >>
             PROVE  (FilesInv => FilesInv') /\ UNCHANGED << OnDisk, Written, Filed >>
  OBVIOUS
<1>1. BusyWriters' = BusyWriters /\ AtWriter' = AtWriter /\ InFile' = InFile
  BY SameWriters DEF AtWriter, InFile
<1>2. OnDisk' = OnDisk /\ Written' = Written
  BY <1>1 DEF OnDisk, Written
<1>3. FilesInv => FilesInv'
  BY <1>1 DEF FilesInv
<1> QED
  BY <1>1, <1>2, <1>3 DEF Filed

-----------------------------------------------------------------------------
(***************************************************************************)
(* What is on disk has been written by a writer and is discarded, freed or *)
(* about to be; with files as the output, what is discarded has been       *)
(* written.                                                                *)
(***************************************************************************)
Discarded == { data[r].evbId : r \in Range(discardFIFO) }
WrittenInv ==
  /\ OnDisk \subseteq Freed \cup Discarded \cup Written
  /\ Written \subseteq OnDisk
  /\ output = "disk" => Freed \cup Discarded \subseteq OnDisk

\* The end of a lumi section is announced to the disk writer only, and after its
\* events have been released.
Ends == Range(eolsFIFO) \cup DOMAIN eolsJSON
EndsInv ==
  /\ \A m \in Range(fromEVM) : m.evbId = 0 => m.lumiSection \in 1..endedLS
  /\ Ends \subseteq 1..endedLS
  /\ \A n \in Events : LumiSection[n] <= endedLS => n \in released
  /\ Ends # {} => output = "disk"
  /\ output = "disk" => atFU = {}

InLS(ls) == { n \in Events : LumiSection[n] = ls }
CountsInv ==
  /\ DOMAIN lumiHandlers \cap DOMAIN eolsJSON = {}
  /\ \A ls \in DOMAIN lumiHandlers : lumiHandlers[ls].eventsPerLS = Cardinality(Filed \cap InLS(ls))
  /\ \A ls \in 1..LumiSections : ls \notin DOMAIN lumiHandlers \cup DOMAIN eolsJSON => Filed \cap InLS(ls) = {}
  /\ \A ls \in DOMAIN eolsJSON : eolsJSON[ls].events = Cardinality(InLS(ls)) /\ InLS(ls) \subseteq OnDisk

DiskInv == EventsInv /\ CarriesInv /\ FilesInv /\ WrittenInv /\ EndsInv /\ CountsInv

\* An event that waits for a file has none yet, and its lumi section has not ended.
LEMMA WaitsForFile ==
  ASSUME PlacesInv, DiskInv, NEW e \in Range(eventFIFO)
  PROVE  /\ e \in EventPtr /\ e.evbId \notin Filed
         /\ LumiSection[e.evbId] \notin Ends /\ LumiSection[e.evbId] \in 1..LumiSections
<1>1. e \in Held /\ e \in EventPtr
  BY HeldPlaces DEF Held
<1>2. PICK r \in ResourceIds, n \in Events : r = e.resource /\ n = e.evbId
  BY <1>1 DEF EventPtr
<1>3. r \in DOMAIN data /\ data[r].evbId = n /\ r \notin Range(discardFIFO)
  BY <1>1, <1>2, HeldPlaces DEF DiskInv, CarriesInv, OfEvent
<1>4. n \notin Freed
  <2>1. n \in TableIds
    BY <1>3 DEF TableIds
  <2> QED
    BY <2>1, Apart, EventsAre DEF DiskInv, EventsInv
<1>5. \A s \in DOMAIN data : data[s].evbId = n => s = r
  BY <1>3 DEF DiskInv, EventsInv, OneSlotEach
<1>6. r \in OutputSets["toDisk"]
  BY <1>2, OutputsAre DEF Resources, Range
<1>7. ASSUME NEW x \in InFile \cup AtWriter PROVE x.evbId # n
  <2> SUFFICES ASSUME x.evbId = n PROVE FALSE
    OBVIOUS
  <2>1. x.resource = r
    BY <1>5 DEF DiskInv, CarriesInv, OfEvent, Held
  <2>2. r \in EventResources(fileHandlerAndEventFIFO) \cup BusyResources
    BY <2>1 DEF InFile, Range, EventResources, AtWriter, BusyResources
  <2> QED
    BY <1>6, <2>2, Apart, OutputsAre DEF PlacesInv, OutputsInv
<1>8. n \notin OnDisk
  <2>1. n \notin Discarded
    <3>1. \A s \in Range(discardFIFO) : s \in ResourceIds
      BY DEF PlacesInv, TypeInv, TableTypeOK, Range
    <3>2. \A s \in Range(discardFIFO) : s \in DOMAIN data
      BY <3>1, OutputsComplete, OutputsAre DEF PlacesInv
    <3> QED
      BY <1>3, <1>5, <3>2 DEF Discarded
  <2>2. n \notin Written
    BY <1>7 DEF Written, AtWriter
  <2> QED
    BY <1>4, <2>1, <2>2 DEF DiskInv, WrittenInv
<1>9. n \notin Filed
  BY <1>7, <1>8 DEF Filed
<1>10. LumiSection[n] \in 1..LumiSections
  BY DiskAssumption DEF Events
<1>11. LumiSection[n] \notin Ends
  BY <1>4, <1>10 DEF Freed, DiskInv, EndsInv
<1> QED
  BY <1>1, <1>2, <1>9, <1>10, <1>11

LEMMA KeepsEnds ==
  ASSUME EndsInv, Range(fromEVM') \subseteq Range(fromEVM), Ends' \subseteq Ends, endedLS' = endedLS,
         released \subseteq released', output' = output, atFU' \subseteq atFU
  PROVE  EndsInv'
<1>1. \A m \in Range(fromEVM') : m.evbId = 0 => m.lumiSection \in 1..endedLS'
  BY DEF EndsInv
<1>2. Ends' \subseteq 1..endedLS' /\ (Ends' # {} => output' = "disk") /\ (output' = "disk" => atFU' = {})
  BY DEF EndsInv
<1>3. \A n \in Events : LumiSection[n] <= endedLS' => n \in released'
  BY DEF EndsInv
<1> QED
  BY <1>1, <1>2, <1>3 DEF EndsInv

LEMMA SameEnds == UNCHANGED << eolsFIFO, eolsJSON >> => Ends' = Ends
BY DEF Ends

LEMMA EvmEnds ==
  ASSUME TypeInv, EndsInv, Evm
  PROVE  EndsInv'
<1>1. fromEVM \in Seq(EvmMessage) /\ requests \in Seq(ResourceIds) /\ requests # << >>
  BY DEF Evm, AssignEvent, EndLumiSection, TypeInv, PeerTypeOK
<1>2. UNCHANGED << eolsFIFO, eolsJSON, output, atFU, released >>
  BY DEF Evm, AssignEvent, EndLumiSection, diskVars, fuVars
<1>3. Ends' = Ends
  BY <1>2, SameEnds
<1>4. CASE AssignEvent
  <2>1. PICK m \in EvmMessage : m.evbId # 0 /\ fromEVM' = Append(fromEVM, m)
    <3> DEFINE m == [resource |-> Head(requests), evbId |-> nextEvent, lumiSection |-> 0]
    <3>1. nextEvent \in Events /\ nextEvent # 0
      BY <1>4, DiskAssumption DEF AssignEvent, TypeInv, PeerTypeOK, Events
    <3>2. m \in EvmMessage /\ m.evbId # 0
      BY <1>1, <3>1 DEF EvmMessage
    <3> QED
      BY <1>4, <3>2 DEF AssignEvent
  <2>2. Range(fromEVM') = Range(fromEVM) \cup {m}
    BY <1>1, <2>1, RangeAppend
  <2>3. endedLS' = endedLS
    BY <1>4 DEF AssignEvent
  <2>4. \A k \in Range(fromEVM') : k.evbId = 0 => k.lumiSection \in 1..endedLS
    BY <2>1, <2>2 DEF EndsInv
  <2> QED
    BY <1>2, <1>3, <2>3, <2>4 DEF EndsInv
<1>5. CASE EndLumiSection
  <2>1. endedLS \in Nat /\ endedLS' = endedLS + 1 /\ endedLS + 1 \in 1..LumiSections
        /\ \A n \in Events : LumiSection[n] <= endedLS' => n \in released'
    BY <1>2, <1>5, DiskAssumption DEF EndLumiSection, TypeInv, PeerTypeOK
  <2>2. PICK m \in EvmMessage : m.lumiSection = endedLS + 1 /\ fromEVM' = Append(fromEVM, m)
    <3> DEFINE m == [resource |-> Head(requests), evbId |-> 0, lumiSection |-> endedLS + 1]
    <3>1. m \in EvmMessage /\ m.lumiSection = endedLS + 1
      BY <1>1, <2>1 DEF EvmMessage
    <3> QED
      BY <1>5, <3>1 DEF EndLumiSection
  <2>3. Range(fromEVM') = Range(fromEVM) \cup {m}
    BY <1>1, <2>2, RangeAppend
  <2>4. 1..endedLS \subseteq 1..endedLS' /\ endedLS + 1 \in 1..endedLS'
    BY <2>1
  <2>5. \A k \in Range(fromEVM') : k.evbId = 0 => k.lumiSection \in 1..endedLS'
    BY <2>2, <2>3, <2>4 DEF EndsInv
  <2>6. Ends' \subseteq 1..endedLS'
    BY <1>3, <2>4 DEF EndsInv
  <2> QED
    BY <1>2, <1>3, <2>1, <2>5, <2>6 DEF EndsInv
<1> QED
  BY <1>4, <1>5 DEF Evm

LEMMA EvmLumisectionEnds ==
  ASSUME TypeInv, EndsInv, EvmLumisection
  PROVE  EndsInv'
<1>1. fromEVM # << >> /\ fromEVM \in Seq(EvmMessage) /\ fromEVM' = Tail(fromEVM) /\ Head(fromEVM).evbId = 0
  BY DEF EvmLumisection, TypeInv, PeerTypeOK
<1>2. PICK m \in EvmMessage : m = Head(fromEVM)
  BY <1>1, TailAt
<1>3. m \in Range(fromEVM) /\ Range(fromEVM') \subseteq Range(fromEVM)
  BY <1>1, <1>2, RangeTail
<1>4. m.lumiSection \in 1..endedLS
  BY <1>1, <1>2, <1>3 DEF EndsInv
<1>5. released \subseteq released'
  <2> DEFINE e == [type |-> {"REQUEST"}, resource |-> Head(fromEVM).resource, evbId |-> 0]
  <2>1. SendEvtIdRqstAndOrRelease(e)
    BY DEF EvmLumisection
  <2> HIDE DEF e
  <2> QED
    BY <2>1, SendFrees
<1>6. UNCHANGED << output, endedLS, atFU >>
  BY DEF EvmLumisection, fuVars
<1>7. CASE output = "disk"
  <2>1. PICK ls \in 1..LumiSections : ls = m.lumiSection
    BY <1>4, DiskAssumption DEF TypeInv, PeerTypeOK
  <2>2. eolsFIFO \in Seq(1..LumiSections) /\ eolsFIFO' = Append(eolsFIFO, ls) /\ eolsJSON' = eolsJSON
    BY <1>2, <1>7, <2>1 DEF EvmLumisection, CloseLS, TypeInv, DiskTypeInv, DiskTypeOK
  <2>3. Range(eolsFIFO') = Range(eolsFIFO) \cup {ls}
    <3>1. PICK S : S = 1..LumiSections
      OBVIOUS
    <3>2. eolsFIFO \in Seq(S) /\ ls \in S
      BY <2>2, <3>1
    <3>3. Range(Append(eolsFIFO, ls)) = Range(eolsFIFO) \cup {ls}
      BY <3>2, RangeAppend
    <3> QED
      BY <2>2, <3>3, Zenon
  <2>4. Ends' = Ends \cup {ls}
    BY <2>2, <2>3 DEF Ends
  <2>5. Ends' \subseteq 1..endedLS'
    BY <1>4, <1>6, <2>1, <2>4 DEF EndsInv
  <2>6. \A k \in Range(fromEVM') : k.evbId = 0 => k.lumiSection \in 1..endedLS'
    BY <1>3, <1>6 DEF EndsInv
  <2>7. \A n \in Events : LumiSection[n] <= endedLS' => n \in released'
    BY <1>5, <1>6 DEF EndsInv
  <2> QED
    BY <1>6, <1>7, <2>5, <2>6, <2>7 DEF EndsInv
<1>8. CASE output # "disk"
  <2>1. Ends' = Ends
    BY <1>8, SameEnds DEF EvmLumisection, diskVars
  <2> QED
    BY <1>3, <1>5, <1>6, <2>1, KeepsEnds
<1> QED
  BY <1>7, <1>8

LEMMA HandleEoLSEnds ==
  ASSUME DiskTypeInv, HandleEoLS
  PROVE  /\ Ends' = Ends /\ Head(eolsFIFO) \in Ends /\ Head(eolsFIFO) \in 1..LumiSections
<1>1. eolsFIFO # << >> /\ eolsFIFO \in Seq(1..LumiSections) /\ eolsFIFO' = Tail(eolsFIFO)
  BY DEF HandleEoLS, DiskTypeInv, DiskTypeOK
<1>2. PICK ls \in 1..LumiSections : ls = Head(eolsFIFO)
  BY <1>1, TailAt
<1>3. ls \in Range(eolsFIFO) /\ Range(eolsFIFO) = Range(eolsFIFO') \cup {ls}
  BY <1>1, <1>2, RangeTail
<1>4. DOMAIN eolsJSON' = DOMAIN eolsJSON \cup {ls}
  BY <1>2 DEF HandleEoLS, Insert
<1> QED
  BY <1>2, <1>3, <1>4 DEF Ends

LEMMA EndsStep ==
  ASSUME PlacesInv, EndsInv, [Next]_vars
  PROVE  EndsInv'
<1>1. TypeInv /\ DiskTypeInv
  BY DEF PlacesInv, TypeInv
<1> USE DEF evmVars, evmMsgVars, fuVars, diskVars
<1>2. CASE UNCHANGED << fromEVM, eolsFIFO, eolsJSON, endedLS, output, atFU, released >>
  BY <1>2, KeepsEnds, SameEnds
<1>3. CASE Evm
  BY <1>1, <1>3, EvmEnds
<1>4. CASE ReceiveTrigger
  <2>1. Range(fromEVM') \subseteq Range(fromEVM)
    BY <1>1, <1>4, RangeTail DEF ReceiveTrigger, TypeInv, PeerTypeOK
  <2> QED
    BY <1>4, <2>1, KeepsEnds, SameEnds DEF ReceiveTrigger
<1>5. CASE EvmLumisection
  BY <1>1, <1>5, EvmLumisectionEnds
<1>6. ASSUME NEW u \in RUs, AnswerRequest(u) \/ ReceiveBlock(u)
      PROVE  EndsInv'
  BY <1>2, <1>6 DEF AnswerRequest, ReceiveBlock
<1>7. CASE ReceiveFuRequest \/ SendOldRuRequests \/ ResourceMonitoring
  BY <1>2, <1>7 DEF ReceiveFuRequest, SendOldRuRequests, ResourceMonitoring
<1>8. CASE \E r \in ResourceIds : FuDiscard(r)
  <2>1. atFU' \subseteq atFU
    BY <1>8 DEF FuDiscard
  <2> QED
    BY <1>8, <2>1, KeepsEnds, SameEnds DEF FuDiscard
<1>9. CASE SendNextCompleteEventToFU
  BY <1>9 DEF SendNextCompleteEventToFU, EndsInv, Ends
<1>10. CASE SendOldEvmRequests
  <2>1. released \subseteq released'
    BY <1>10 DEF SendOldEvmRequests, PostToEVM
  <2> QED
    BY <1>10, <2>1, KeepsEnds, SameEnds DEF SendOldEvmRequests
<1>11. CASE SendEvtIdRqsts
  <2> DEFINE e == [type |-> {"REQUEST"}, resource |-> Head(freeResourceIdFIFO), evbId |-> 0]
  <2>1. SendEvtIdRqstAndOrRelease(e)
    BY <1>11 DEF SendEvtIdRqsts
  <2> HIDE DEF e
  <2>2. released \subseteq released'
    BY <2>1, SendFrees
  <2> QED
    BY <1>11, <2>2, KeepsEnds, SameEnds DEF SendEvtIdRqsts
<1>12. CASE HandleDiscards
  <2>1. released \subseteq released'
    BY <1>12, FreeSlots
  <2> QED
    BY <1>12, <2>1, KeepsEnds, SameEnds DEF HandleDiscards
<1>13. CASE DoWork
  BY <1>2, <1>13 DEF DoWork, StartConstruction, AppendSuperFragment
<1>14. CASE WriteNextCompleteEvent
  BY <1>2, <1>14 DEF WriteNextCompleteEvent, WriteEvent
<1>15. ASSUME NEW w \in Writers, DiscardEvent(w)
       PROVE  EndsInv'
  BY <1>2, <1>15 DEF DiscardEvent, DiscardWritten
<1>16. CASE WriteToDisks
  <2>1. OnlyDisk
    BY <1>16 DEF WriteToDisks
  <2>2. CASE HandleEoLS
    BY <1>1, <2>1, <2>2, HandleEoLSEnds, KeepsEnds DEF OnlyDisk
  <2>3. CASE HandleEvents
    BY <1>2, <2>1, <2>3 DEF OnlyDisk, HandleEvents
  <2>4. ASSUME NEW w \in Writers,
               TakeEvent(w) \/ LeaveWriting(w) \/ WriteToDisk(w) \/ ReadEventCount(w) \/ StoreEventCount(w)
        PROVE  EndsInv'
    BY <1>2, <2>1, <2>4 DEF OnlyDisk, TakeEvent, LeaveWriting, WriteToDisk, ReadEventCount, StoreEventCount
  <2> QED
    BY <1>16, <2>2, <2>3, <2>4 DEF WriteToDisks
<1>17. CASE UNCHANGED vars
  BY <1>2, <1>17 DEF vars
<1> QED
  BY <1>3, <1>4, <1>5, <1>6, <1>7, <1>8, <1>9, <1>10, <1>11, <1>12, <1>13, <1>14, <1>15, <1>16, <1>17
     DEF Next, DoWork, SendOldMessages, TableProcess

\* What is discarded is in the table.
LEMMA DiscardsKnown ==
  ASSUME PlacesInv
  PROVE  \A r \in Range(discardFIFO) : r \in ResourceIds /\ r \in DOMAIN data
<1>1. \A r \in Range(discardFIFO) : r \in ResourceIds
  BY DEF PlacesInv, TypeInv, TableTypeOK, Range
<1> QED
  BY <1>1, OutputsComplete, OutputsAre DEF PlacesInv

LEMMA KeepsWritten ==
  ASSUME WrittenInv, UNCHANGED << OnDisk, Written, output >>,
         Freed \cup Discarded \subseteq Freed' \cup Discarded',
         output = "disk" => Freed' \cup Discarded' \subseteq Freed \cup Discarded
  PROVE  WrittenInv'
<1>1. OnDisk' \subseteq Freed' \cup Discarded' \cup Written' /\ Written' \subseteq OnDisk'
  BY DEF WrittenInv
<1>2. output' = "disk" => Freed' \cup Discarded' \subseteq OnDisk'
  BY DEF WrittenInv
<1> QED
  BY <1>1, <1>2 DEF WrittenInv

LEMMA KeepsCounts ==
  ASSUME CountsInv, UNCHANGED << Filed, lumiHandlers, eolsJSON >>, OnDisk \subseteq OnDisk'
  PROVE  CountsInv'
<1>1. \A ls \in DOMAIN eolsJSON' : eolsJSON'[ls].events = Cardinality(InLS(ls)) /\ InLS(ls) \subseteq OnDisk'
  BY DEF CountsInv
<1>2. /\ DOMAIN lumiHandlers' \cap DOMAIN eolsJSON' = {}
      /\ \A ls \in DOMAIN lumiHandlers' : lumiHandlers'[ls].eventsPerLS = Cardinality(Filed' \cap InLS(ls))
      /\ \A ls \in 1..LumiSections :
           ls \notin DOMAIN lumiHandlers' \cup DOMAIN eolsJSON' => Filed' \cap InLS(ls) = {}
  BY DEF CountsInv
<1> QED
  BY <1>1, <1>2 DEF CountsInv, InLS

FileInv == FilesInv /\ WrittenInv /\ CountsInv

\* What the BU does without the files.
LEMMA SameFileInv ==
  ASSUME FileInv, UNCHANGED << fileHandlerAndEventFIFO, lumiHandlers, files, eolsJSON, writing, output >>,
         Freed \cup Discarded \subseteq Freed' \cup Discarded',
         output = "disk" => Freed' \cup Discarded' \subseteq Freed \cup Discarded
  PROVE  FileInv'
<1>1. FilesInv' /\ UNCHANGED << OnDisk, Written, Filed >>
  BY SameFiles DEF FileInv
<1>2. WrittenInv'
  BY <1>1, KeepsWritten DEF FileInv
<1>3. CountsInv'
  BY <1>1, KeepsCounts DEF FileInv
<1> QED
  BY <1>1, <1>2, <1>3 DEF FileInv

\* The construction of an event discards it only where the output is dropped.
LEMMA DoWorkFileInv ==
  ASSUME PlacesInv, FileInv, DoWork
  PROVE  FileInv'
<1>1. UNCHANGED << fileHandlerAndEventFIFO, lumiHandlers, files, eolsJSON, writing, output >> /\ Freed' = Freed
  BY FreedSame DEF DoWork, StartConstruction, AppendSuperFragment, diskVars, evmMsgVars
<1>2. \A r \in DOMAIN data : data'[r].evbId = data[r].evbId
  BY StartSlots, AppendSlots DEF DoWork, SameSlots
<1>3. /\ discardFIFO \in Seq(ResourceIds)
      /\ \/ discardFIFO' = discardFIFO
         \/ output = "drop" /\ \E r \in ResourceIds : discardFIFO' = Append(discardFIFO, r)
  <2>1. discardFIFO \in Seq(ResourceIds)
    BY DEF PlacesInv, TypeInv, TableTypeOK
  <2>2. CASE StartConstruction
    <3>1. PICK t \in EventPtr : t = Head(triggerFIFO) /\ t.resource \notin DOMAIN data
      BY <2>2, StartSlots
    <3>2. CheckForCompleteEvent(t.resource) /\ t.resource \in ResourceIds
      BY <2>2, <3>1 DEF StartConstruction, EventPtr
    <3> QED
      BY <2>1, <3>2 DEF CheckForCompleteEvent
  <2>3. CASE AppendSuperFragment
    <3>1. Head(blockFIFO).resource \in DOMAIN data
      BY <2>3, AppendConstruction DEF PlacesInv
    <3>2. PICK r \in ResourceIds : r = Head(blockFIFO).resource
      BY <3>1 DEF PlacesInv, TypeInv, TableTypeOK, IsMap
    <3>3. CheckForCompleteEvent(r)
      BY <2>3, <3>1, <3>2 DEF AppendSuperFragment
    <3> QED
      BY <2>1, <3>3 DEF CheckForCompleteEvent
  <2> QED
    BY <2>1, <2>2, <2>3 DEF DoWork
<1>4. Range(discardFIFO) \subseteq Range(discardFIFO')
      /\ (output = "disk" => Range(discardFIFO') = Range(discardFIFO))
  <2>1. CASE discardFIFO' = discardFIFO
    BY <2>1
  <2>2. ASSUME NEW r \in ResourceIds, output = "drop", discardFIFO' = Append(discardFIFO, r)
        PROVE  Range(discardFIFO) \subseteq Range(discardFIFO') /\ output # "disk"
    BY <1>3, <2>2, RangeAppend
  <2> QED
    BY <1>3, <2>1, <2>2
<1>5. Discarded \subseteq Discarded' /\ (output = "disk" => Discarded' \subseteq Discarded)
  BY <1>2, <1>4, DiscardsKnown DEF Discarded
<1> QED
  BY <1>1, <1>5, SameFileInv

LEMMA FreeFileInv ==
  ASSUME PlacesInv, FileInv, HandleDiscards
  PROVE  FileInv'
<1>1. PICK r \in DOMAIN data :
           /\ r \in Range(discardFIFO) /\ Range(discardFIFO') = Range(discardFIFO) \ {r}
           /\ DOMAIN data' = DOMAIN data \ {r} /\ \A s \in DOMAIN data' : data'[s] = data[s]
           /\ Freed' = Freed \cup {data[r].evbId}
  BY FreeSlots
<1>2. \A s \in Range(discardFIFO') : data'[s] = data[s]
  BY <1>1, DiscardsKnown
<1>3. Discarded = Discarded' \cup {data[r].evbId}
  BY <1>1, <1>2 DEF Discarded
<1>4. UNCHANGED << fileHandlerAndEventFIFO, lumiHandlers, files, eolsJSON, writing, output >>
  BY DEF HandleDiscards, diskVars
<1> QED
  BY <1>1, <1>3, <1>4, SameFileInv

\* A writer discards its event, which it has written.
LEMMA DiscardFileInv ==
  ASSUME PlacesInv, CarriesInv, FileInv, NEW w \in Writers, DiscardEvent(w)
  PROVE  FileInv'
<1>1. DiskTypeInv /\ DiscardWritten(w)
  BY DEF PlacesInv, TypeInv, DiscardEvent
<1>2. w \in BusyWriters /\ writing[w].at = "discard" /\ writing[w].event \in EventPtr
  BY <1>1, DiscardHeld
<1>3. PICK e \in EventPtr : e = writing[w].event
  BY <1>2
<1>4. PICK r \in ResourceIds, n \in Events : r = e.resource /\ n = e.evbId
  BY DEF EventPtr
<1>5. e \in AtWriter /\ n \in Written
  BY <1>2, <1>3, <1>4 DEF AtWriter, Written
<1>6. data[r].evbId = n
  BY <1>4, <1>5 DEF CarriesInv, Held, OfEvent
<1>7. FilesInv' /\ OnDisk' = OnDisk /\ Written = Written' \cup {n} /\ Filed = Filed' \cup {n}
  BY <1>1, <1>3, <1>4, DiscardFiles DEF FileInv
<1>8. Discarded' = Discarded \cup {n} /\ Freed' = Freed
  <2>1. discardFIFO' = Append(discardFIFO, r) /\ discardFIFO \in Seq(ResourceIds)
    BY <1>3, <1>4 DEF DiscardEvent, PlacesInv, TypeInv, TableTypeOK
  <2>2. Range(discardFIFO') = Range(discardFIFO) \cup {r}
    BY <2>1, RangeAppend
  <2>3. data' = data
    BY DEF DiscardEvent
  <2>4. Freed' = Freed
    BY FreedSame DEF DiscardEvent, evmMsgVars
  <2> QED
    BY <1>6, <2>2, <2>3, <2>4 DEF Discarded
<1>9. WrittenInv'
  <2>1. output' = output
    BY DEF DiscardEvent
  <2> QED
    BY <1>5, <1>7, <1>8, <2>1 DEF FileInv, WrittenInv
<1>10. Filed' = Filed
  <2>1. n \in OnDisk'
    BY <1>5, <1>7 DEF FileInv, WrittenInv
  <2>2. OnDisk' \subseteq Filed'
    BY DEF Filed
  <2> QED
    BY <1>7, <2>1, <2>2
<1>11. CountsInv'
  <2>1. UNCHANGED << lumiHandlers, eolsJSON >>
    BY <1>1 DEF DiscardWritten
  <2> QED
    BY <1>7, <1>10, <2>1, KeepsCounts DEF FileInv
<1> QED
  BY <1>7, <1>9, <1>11 DEF FileInv

LEMMA InLSFinite ==
  ASSUME NEW S, NEW ls
  PROVE  IsFiniteSet(S \cap InLS(ls)) /\ IsFiniteSet(InLS(ls))
<1>1. MaxEvents \in Int /\ 1 \in Int
  BY DiskAssumption
<1>2. IsFiniteSet(Events)
  BY <1>1, FS_Interval DEF Events
<1>3. InLS(ls) \subseteq Events /\ S \cap InLS(ls) \subseteq Events
  BY DEF InLS
<1> QED
  BY <1>2, <1>3, FS_Subset

\* What the handler of a lumi section has counted, and a new handler.
LEMMA HandlerCounts ==
  ASSUME CountsInv, NEW ls \in 1..LumiSections, ls \notin DOMAIN eolsJSON
  PROVE  HandlerOf(ls).eventsPerLS = Cardinality(Filed \cap InLS(ls))
<1>1. CASE ls \in DOMAIN lumiHandlers
  BY <1>1 DEF CountsInv, HandlerOf
<1>2. CASE ls \notin DOMAIN lumiHandlers
  <2>1. Filed \cap InLS(ls) = {}
    BY <1>2 DEF CountsInv
  <2>2. HandlerOf(ls).eventsPerLS = 0
    BY <1>2 DEF HandlerOf, NewLumiHandler
  <2> QED
    BY <2>1, <2>2, FS_EmptySet
<1> QED
  BY <1>1, <1>2

LEMMA GivenFileInv ==
  ASSUME PlacesInv, DiskInv, HandleEvents, OnlyDisk
  PROVE  FileInv'
<1>1. DiskTypeInv /\ FilesInv /\ WrittenInv /\ CountsInv
  BY DEF PlacesInv, TypeInv, DiskInv
<1>2. PICK e \in EventPtr :
        /\ e = Head(eventFIFO) /\ e \in Range(eventFIFO)
        /\ InFile' = InFile \cup {e} /\ AtWriter' = AtWriter
  BY <1>1, HandleEventsHeld
<1>3. PICK n \in Events, ls \in 1..LumiSections : n = e.evbId /\ ls = LumiSection[n]
  BY <1>2, WaitsForFile DEF EventPtr
<1>4. n \notin Filed /\ ls \notin DOMAIN eolsJSON /\ n \in InLS(ls)
  BY <1>2, <1>3, WaitsForFile DEF Ends, InLS
<1>5. FilesInv' /\ OnDisk' = OnDisk
  BY <1>1, <1>2, <1>3, <1>4, GivenFile
<1>6. Written' = Written /\ eolsJSON' = eolsJSON
  BY SameWriters DEF HandleEvents, Written
<1>7. Filed' = Filed \cup {n}
  BY <1>2, <1>3, <1>5 DEF Filed
<1>8. WrittenInv'
  <2>1. Freed' = Freed /\ Discarded' = Discarded /\ output' = output
    BY FreedSame DEF OnlyDisk, tableVars, evmMsgVars, Discarded
  <2> QED
    BY <1>1, <1>5, <1>6, <2>1, KeepsWritten
<1>9. PICK new \in LumiHandler :
        new.eventsPerLS = HandlerOf(ls).eventsPerLS + 1 /\ lumiHandlers' = Insert(lumiHandlers, ls, new)
  <2>1. PICK f \in File : Files(e, f)
    BY <1>1, <1>2, <1>3, <1>4, HandleEventsFiles
  <2>2. f.lumiSection = ls
    BY <1>3, <2>1 DEF Files
  <2> QED
    BY <2>1, <2>2 DEF Files
<1>10. /\ DOMAIN lumiHandlers' = DOMAIN lumiHandlers \cup {ls} /\ lumiHandlers'[ls] = new
       /\ \A k \in DOMAIN lumiHandlers \ {ls} : lumiHandlers'[k] = lumiHandlers[k]
  BY <1>9 DEF Insert
<1>11. new.eventsPerLS = Cardinality(Filed' \cap InLS(ls))
  <2>1. HandlerOf(ls).eventsPerLS = Cardinality(Filed \cap InLS(ls))
    BY <1>1, <1>4, HandlerCounts
  <2>2. Filed' \cap InLS(ls) = (Filed \cap InLS(ls)) \cup {n} /\ n \notin Filed \cap InLS(ls)
    BY <1>4, <1>7
  <2>3. Cardinality((Filed \cap InLS(ls)) \cup {n}) = Cardinality(Filed \cap InLS(ls)) + 1
    BY <2>2, InLSFinite, FS_AddElement
  <2> QED
    BY <1>9, <2>1, <2>2, <2>3
<1>12. \A k \in 1..LumiSections : k # ls => Filed' \cap InLS(k) = Filed \cap InLS(k)
  BY <1>3, <1>7 DEF InLS
<1>13. \A k \in DOMAIN lumiHandlers' : lumiHandlers'[k].eventsPerLS = Cardinality(Filed' \cap InLS(k))
  <2>1. \A k \in DOMAIN lumiHandlers : k \in 1..LumiSections
    BY <1>1 DEF DiskTypeInv, DiskTypeOK, IsMap
  <2>2. \A k \in DOMAIN lumiHandlers \ {ls} : lumiHandlers'[k].eventsPerLS = Cardinality(Filed' \cap InLS(k))
    BY <1>1, <1>10, <1>12, <2>1 DEF CountsInv
  <2> QED
    BY <1>10, <1>11, <2>2
<1>14. CountsInv'
  <2>1. DOMAIN lumiHandlers' \cap DOMAIN eolsJSON' = {}
    BY <1>1, <1>4, <1>6, <1>10 DEF CountsInv
  <2>2. \A k \in 1..LumiSections :
          k \notin DOMAIN lumiHandlers' \cup DOMAIN eolsJSON' => Filed' \cap InLS(k) = {}
    BY <1>1, <1>6, <1>10, <1>12 DEF CountsInv
  <2>3. \A k \in DOMAIN eolsJSON' : eolsJSON'[k].events = Cardinality(InLS(k)) /\ InLS(k) \subseteq OnDisk'
    BY <1>1, <1>5, <1>6 DEF CountsInv
  <2> QED
    BY <1>13, <2>1, <2>2, <2>3 DEF CountsInv, InLS
<1> QED
  BY <1>5, <1>8, <1>14 DEF FileInv

\* When the end of a lumi section is handled, its handler has counted all its events.
LEMMA EndFileInv ==
  ASSUME PlacesInv, DiskInv, HandleEoLS, OnlyDisk
  PROVE  FileInv'
<1>1. DiskTypeInv /\ FilesInv /\ WrittenInv /\ CountsInv
  BY DEF PlacesInv, TypeInv, DiskInv
<1>2. PICK ls \in 1..LumiSections : ls = Head(eolsFIFO) /\ ls \in Ends /\ ls \notin DOMAIN eolsJSON
  BY <1>1, HandleEoLSEnds DEF HandleEoLS
<1>3. FilesInv' /\ UNCHANGED << OnDisk, Written, Filed >>
  BY <1>1, EndFiles
<1>4. WrittenInv'
  <2>1. Freed' = Freed /\ Discarded' = Discarded /\ output' = output
    BY FreedSame DEF OnlyDisk, tableVars, evmMsgVars, Discarded
  <2> QED
    BY <1>1, <1>3, <2>1, KeepsWritten
<1>5. InLS(ls) \subseteq OnDisk
  <2>1. ls \in 1..endedLS /\ endedLS \in Nat /\ output = "disk"
    BY <1>2 DEF DiskInv, EndsInv, PlacesInv, TypeInv, PeerTypeOK
  <2>2. \A n \in InLS(ls) : n \in released
    BY <2>1 DEF InLS, DiskInv, EndsInv
  <2> QED
    BY <1>1, <2>1, <2>2 DEF WrittenInv, Freed
<1>6. Filed \cap InLS(ls) = InLS(ls)
  BY <1>5 DEF Filed
<1>7. HandlerOf(ls).eventsPerLS = Cardinality(InLS(ls))
  BY <1>1, <1>2, <1>6, HandlerCounts
<1>8. /\ DOMAIN lumiHandlers' = DOMAIN lumiHandlers \ {ls}
      /\ \A k \in DOMAIN lumiHandlers' : lumiHandlers'[k] = lumiHandlers[k]
      /\ DOMAIN eolsJSON' = DOMAIN eolsJSON \cup {ls}
      /\ \A k \in DOMAIN eolsJSON : eolsJSON'[k] = eolsJSON[k]
      /\ eolsJSON'[ls].events = HandlerOf(ls).eventsPerLS
  BY <1>2 DEF HandleEoLS, Erase, Insert, HandlerOf
<1>9. CountsInv'
  <2>1. DOMAIN lumiHandlers' \cap DOMAIN eolsJSON' = {}
    BY <1>1, <1>8 DEF CountsInv
  <2>2. \A k \in DOMAIN lumiHandlers' : lumiHandlers'[k].eventsPerLS = Cardinality(Filed' \cap InLS(k))
    BY <1>1, <1>3, <1>8 DEF CountsInv
  <2>3. \A k \in 1..LumiSections :
          k \notin DOMAIN lumiHandlers' \cup DOMAIN eolsJSON' => Filed' \cap InLS(k) = {}
    BY <1>1, <1>3, <1>8 DEF CountsInv
  <2>4. \A k \in DOMAIN eolsJSON' : eolsJSON'[k].events = Cardinality(InLS(k)) /\ InLS(k) \subseteq OnDisk'
    BY <1>1, <1>3, <1>5, <1>7, <1>8 DEF CountsInv
  <2> QED
    BY <2>1, <2>2, <2>3, <2>4 DEF CountsInv, InLS
<1> QED
  BY <1>3, <1>4, <1>9 DEF FileInv

LEMMA DiskStep ==
  ASSUME PlacesInv, DiskInv, [Next]_vars
  PROVE  FileInv'
<1>1. DiskTypeInv /\ FileInv /\ EndsInv /\ CarriesInv
  BY DEF PlacesInv, TypeInv, DiskInv, FileInv
<1> USE DEF tableVars, evmMsgVars, evmVars, diskVars
<1>2. CASE UNCHANGED << fileHandlerAndEventFIFO, lumiHandlers, files, eolsJSON, writing, output, Freed, data, discardFIFO >>
  <2>1. Discarded' = Discarded
    BY <1>2 DEF Discarded
  <2> QED
    BY <1>1, <1>2, <2>1, SameFileInv
<1>3. CASE Evm \/ ReceiveTrigger
  BY <1>2, <1>3, FreedSame DEF Evm, AssignEvent, EndLumiSection, ReceiveTrigger
<1>4. CASE EvmLumisection
  <2> DEFINE e == [type |-> {"REQUEST"}, resource |-> Head(fromEVM).resource, evbId |-> 0]
  <2>1. SendEvtIdRqstAndOrRelease(e) /\ "RELEASE" \notin e.type
    BY <1>4 DEF EvmLumisection
  <2> HIDE DEF e
  <2>2. Freed' = Freed
    BY <2>1, SendFrees
  <2> QED
    BY <1>2, <1>4, <2>2 DEF EvmLumisection, CloseLS
<1>5. ASSUME NEW u \in RUs, AnswerRequest(u) \/ ReceiveBlock(u)
      PROVE  FileInv'
  BY <1>2, <1>5, FreedSame DEF AnswerRequest, ReceiveBlock
<1>6. CASE ReceiveFuRequest \/ SendOldRuRequests \/ ResourceMonitoring
  BY <1>2, <1>6, FreedSame DEF ReceiveFuRequest, SendOldRuRequests, ResourceMonitoring
<1>7. ASSUME NEW r \in ResourceIds, FuDiscard(r)
      PROVE  FileInv'
  <2>1. output # "disk"
    BY <1>1, <1>7 DEF FuDiscard, EndsInv
  <2>2. discardFIFO \in Seq(ResourceIds) /\ discardFIFO' = Append(discardFIFO, r)
    BY <1>7 DEF FuDiscard, PlacesInv, TypeInv, TableTypeOK
  <2>3. Range(discardFIFO') = Range(discardFIFO) \cup {r}
    BY <2>2, RangeAppend
  <2>4. Discarded \subseteq Discarded' /\ Freed' = Freed
    BY <1>7, <2>3, FreedSame DEF FuDiscard, Discarded
  <2>5. UNCHANGED << fileHandlerAndEventFIFO, lumiHandlers, files, eolsJSON, writing, output >>
    BY <1>7 DEF FuDiscard
  <2> QED
    BY <1>1, <2>1, <2>4, <2>5, SameFileInv
<1>8. CASE SendNextCompleteEventToFU
  BY <1>2, <1>8, FreedSame DEF SendNextCompleteEventToFU
<1>9. CASE SendOldEvmRequests
  <2>1. Freed' = Freed
    BY <1>9 DEF SendOldEvmRequests, PostToEVM, NoElements, Freed
  <2> QED
    BY <1>2, <1>9, <2>1 DEF SendOldEvmRequests
<1>10. CASE SendEvtIdRqsts
  <2> DEFINE e == [type |-> {"REQUEST"}, resource |-> Head(freeResourceIdFIFO), evbId |-> 0]
  <2>1. SendEvtIdRqstAndOrRelease(e) /\ "RELEASE" \notin e.type
    BY <1>10 DEF SendEvtIdRqsts
  <2> HIDE DEF e
  <2>2. Freed' = Freed
    BY <2>1, SendFrees
  <2> QED
    BY <1>2, <1>10, <2>2 DEF SendEvtIdRqsts
<1>11. CASE HandleDiscards
  BY <1>1, <1>11, FreeFileInv
<1>12. CASE DoWork
  BY <1>1, <1>12, DoWorkFileInv
<1>13. CASE WriteNextCompleteEvent
  BY <1>2, <1>13, FreedSame DEF WriteNextCompleteEvent, WriteEvent
<1>14. ASSUME NEW w \in Writers, DiscardEvent(w)
       PROVE  FileInv'
  BY <1>1, <1>14, DiscardFileInv
<1>15. CASE WriteToDisks
  <2>1. OnlyDisk
    BY <1>15 DEF WriteToDisks
  <2>2. CASE HandleEvents
    BY <2>1, <2>2, GivenFileInv
  <2>3. CASE HandleEoLS
    BY <2>1, <2>3, EndFileInv
  <2>4. Freed' = Freed /\ Discarded' = Discarded /\ output' = output
    BY <2>1, FreedSame DEF OnlyDisk, Discarded
  <2>5. ASSUME NEW w \in Writers, TakeEvent(w) \/ LeaveWriting(w) \/ ReadEventCount(w) \/ StoreEventCount(w)
        PROVE  FileInv'
    <3>1. FilesInv' /\ UNCHANGED << OnDisk, Written, Filed >>
      BY <1>1, <2>5, TakeFiles, LeaveFiles, CountingFiles DEF FileInv
    <3>2. UNCHANGED << lumiHandlers, eolsJSON >>
      BY <2>5 DEF TakeEvent, LeaveWriting, ReadEventCount, StoreEventCount
    <3> QED
      BY <1>1, <2>4, <3>1, <3>2, KeepsWritten, KeepsCounts DEF FileInv
  <2>6. ASSUME NEW w \in Writers, WriteToDisk(w) PROVE FileInv'
    <3>1. FilesInv' /\ Filed' = Filed
      BY <1>1, <2>6, WriteFiles DEF FileInv
    <3>2. PICK n \in Events : OnDisk' = OnDisk \cup {n} /\ Written' = Written \cup {n}
      BY <1>1, <2>6, WriteFiles DEF FileInv
    <3>3. UNCHANGED << lumiHandlers, eolsJSON >>
      BY <2>6 DEF WriteToDisk
    <3>4. WrittenInv'
      BY <1>1, <2>4, <3>2 DEF FileInv, WrittenInv
    <3> QED
      BY <1>1, <3>1, <3>2, <3>3, <3>4, KeepsCounts DEF FileInv
  <2> QED
    BY <1>15, <2>2, <2>3, <2>5, <2>6 DEF WriteToDisks
<1>16. CASE UNCHANGED vars
  BY <1>2, <1>16, FreedSame DEF vars
<1> QED
  BY <1>3, <1>4, <1>5, <1>6, <1>7, <1>8, <1>9, <1>10, <1>11, <1>12, <1>13, <1>14, <1>15, <1>16
     DEF Next, SendOldMessages, TableProcess

LEMMA InitDisk == Init => DiskInv
<1> SUFFICES ASSUME Init PROVE DiskInv
  OBVIOUS
<1>1. Range(<< >>) = {}
  BY DEF Range
<1>2. BusyWriters = {} /\ InFile = {} /\ AtWriter = {}
  BY <1>1 DEF Init, DiskInit, NotWriting, BusyWriters, Busy, InFile, AtWriter
<1>3. OnDisk = {} /\ Written = {} /\ Filed = {} /\ Freed = {} /\ Discarded = {} /\ Ends = {} /\ TableIds = {}
  BY <1>1, <1>2 DEF Init, DiskInit, OnDisk, Written, Filed, Freed, Discarded, Ends, TableIds, NoElements
<1>4. EventsInv
  <2>1. Ids(<< >>) = {} /\ OneIdEach(<< >>) /\ OneSlotEach
    BY DEF Ids, OneIdEach, OneSlotEach, Init
  <2>2. { n \in Events : n >= nextEvent } = Events
    BY DEF Init, Events
  <2>3. /\ EventSets["coming"] = Events /\ EventSets["network"] = {} /\ EventSets["trigger"] = {}
        /\ EventSets["table"] = {} /\ EventSets["freed"] = {}
    BY <1>3, <2>1, <2>2, EventsAre DEF Init
  <2>4. Partition(EventSets, Events)
    BY <2>3, EventsAre DEF Partition
  <2> QED
    BY <2>1, <2>4 DEF EventsInv, Init
<1>5. CarriesInv
  BY <1>1, <1>2 DEF CarriesInv, Held, Init, DiskInit
<1>6. FilesInv
  BY <1>1, <1>2 DEF FilesInv, Init, DiskInit
<1>7. WrittenInv
  BY <1>3 DEF WrittenInv
<1>8. EndsInv
  <2>1. \A n \in Events : ~ (LumiSection[n] <= endedLS)
    <3>1. \A n \in Events : LumiSection[n] \in Nat /\ LumiSection[n] >= 1
      BY DiskAssumption DEF Events
    <3> QED
      BY <3>1 DEF Init
  <2> QED
    BY <1>1, <1>3, <2>1 DEF EndsInv, Init
<1>9. CountsInv
  BY <1>3 DEF CountsInv, Init, DiskInit
<1> QED
  BY <1>4, <1>5, <1>6, <1>7, <1>8, <1>9 DEF DiskInv

\* The places and the disk hold together in every state.
THEOREM DiskInvariant == Spec => [](PlacesInv /\ DiskInv)
<1>1. PlacesInv /\ DiskInv /\ [Next]_vars => DiskInv'
  <2> SUFFICES ASSUME PlacesInv, DiskInv, [Next]_vars PROVE DiskInv'
    OBVIOUS
  <2>1. EventsInv' /\ CarriesInv' /\ EndsInv'
    BY EventsStep, CarriesStep, EndsStep DEF DiskInv
  <2>2. FilesInv' /\ WrittenInv' /\ CountsInv'
    BY DiskStep DEF FileInv
  <2> QED
    BY <2>1, <2>2 DEF DiskInv
<1>2. PlacesInv /\ [Next]_vars => PlacesInv'
  BY PlacesStep
<1> QED
  BY InitPlaces, InitDisk, <1>1, <1>2, PTL DEF Spec

\* The JSON file of a lumi section (LumiHandler::writeJSON) counts all its events, and
\* by then they are in the files of the lumi section, although the end of a lumi
\* section overtakes the events in another queue (DiskWriter::process): the EVM ends it
\* when its events are released, and only a written event is.
THEOREM EndsCountAllEvents == Spec => []EoLSCountsAllEvents
<1>1. ASSUME PlacesInv, DiskInv, NEW ls \in DOMAIN eolsJSON
      PROVE  /\ eolsJSON[ls].events = Cardinality(InLS(ls))
             /\ InLS(ls) = UNION { files[f].events : f \in { g \in DOMAIN files : g.lumiSection = ls } }
  <2>1. eolsJSON[ls].events = Cardinality(InLS(ls)) /\ InLS(ls) \subseteq OnDisk
    BY <1>1 DEF DiskInv, CountsInv
  <2>2. \A f \in DOMAIN files : files[f].events \subseteq Events
    BY <1>1 DEF PlacesInv, TypeInv, DiskTypeInv, DiskTypeOK, IsMap, FileHandler
  <2>3. \A f \in DOMAIN files : \A n \in files[f].events : n \in Events /\ LumiSection[n] = f.lumiSection
    BY <1>1, <2>2 DEF DiskInv, FilesInv
  <2>4. ASSUME NEW n \in InLS(ls)
        PROVE  \E f \in { g \in DOMAIN files : g.lumiSection = ls } : n \in files[f].events
    BY <2>1, <2>3, <2>4 DEF OnDisk, InLS
  <2>5. ASSUME NEW f \in DOMAIN files, f.lumiSection = ls, NEW n \in files[f].events
        PROVE  n \in InLS(ls)
    BY <2>3, <2>5 DEF InLS
  <2> QED
    BY <2>1, <2>4, <2>5
<1>2. PlacesInv /\ DiskInv => EoLSCountsAllEvents
  BY <1>1 DEF EoLSCountsAllEvents, InLS
<1> QED
  BY DiskInvariant, <1>2, PTL
=============================================================================
