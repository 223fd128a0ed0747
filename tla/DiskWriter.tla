------------------------------ MODULE DiskWriter ------------------------------
(***************************************************************************)
(* The disk writer of a builder unit: DiskWriter, LumiHandler, FileHandler.*)
(*                                                                         *)
(* The processing workloop (DiskWriter::process) gives every complete      *)
(* event a file of its lumi section, and closes the lumi section when its  *)
(* end is announced.  Several writing workloops (DiskWriter::writing) take *)
(* the events from one queue, write them and discard them.  A file may be  *)
(* shared by two writers; it is closed with its lumi section or, once it   *)
(* is full, when the last event that was given it is dropped.              *)
(*                                                                         *)
(* The actions are composed with the rest of the builder unit in           *)
(* BuilderUnit.  Events are known by their position in the run.            *)
(***************************************************************************)
EXTENDS Naturals, FiniteSets, Sequences, SequencesExt

CONSTANTS
  NbResources,       \* maxEvtsUnderConstruction, the resources of the BU
  MaxEvents,         \* the events 1..MaxEvents of the run
  LumiSection,       \* event -> its lumi section
  LumiSections,      \* the lumi sections of the run, 1..LumiSections
  Writers,           \* the writing workloops
  MaxEventsPerFile,
  EolsFIFOCapacity

ASSUME DiskAssumption ==
  /\ NbResources \in Nat \ {0} /\ MaxEvents \in Nat /\ LumiSections \in Nat
  /\ LumiSection \in [1..MaxEvents -> 1..LumiSections]
  /\ IsFiniteSet(Writers) /\ Writers # {}
  /\ MaxEventsPerFile \in Nat \ {0} /\ EolsFIFOCapacity \in Nat \ {0}

VARIABLES
  eventFIFO,
  eolsFIFO,
  fileHandlerAndEventFIFO,
  lumiHandlers,      \* lumi section -> its handler
  files,             \* file -> its FileHandler
  fileJSON,          \* closed file -> the number of events its JSON file gives
  eolsJSON,          \* closed lumi section -> what its JSON file gives
  writing            \* writer -> where it is

diskVars == << eventFIFO, eolsFIFO, fileHandlerAndEventFIFO, lumiHandlers, files,
               fileJSON, eolsJSON, writing >>

Events  == 1..MaxEvents
ResourceIds == 1..NbResources
\* An event, as the disk writer sees it: its id, and the resource it occupies.
EventPtr == [resource : ResourceIds, evbId : Events]
NoEvent  == [resource |-> 0, evbId |-> 0]
NumberOfWriters == Cardinality(Writers)
\* A file is named by its lumi section and its index in it.
File    == [lumiSection : 1..LumiSections, index : Nat]
NoFile  == [lumiSection |-> 0, index |-> 0]
\* events: those written into the file; allocated: those meant for it.
FileHandler == [events : SUBSET Events, eventCount : Nat, allocated : Nat]
LumiHandler == [fileHandlers : [1..NumberOfWriters -> File \cup {NoFile}],
                nextFileHandler : 1..NumberOfWriters, filesPerLS : Nat, eventsPerLS : Nat]
FileHandlerAndEvent == [file : File, event : EventPtr]
Writing == [at : {"idle", "write", "count", "store", "discard", "done"},
            file : File \cup {NoFile}, event : EventPtr \cup {NoEvent}, count : Nat]
NotWriting == [at |-> "idle", file |-> NoFile, event |-> NoEvent, count |-> 0]

IsMap(f, S, T)  == DOMAIN f \subseteq S /\ f \in [DOMAIN f -> T]
Insert(f, k, v) == [x \in DOMAIN f \cup {k} |-> IF x = k THEN v ELSE f[x]]
Erase(f, k)     == [x \in DOMAIN f \ {k} |-> f[x]]

DiskTypeOK ==
  /\ eventFIFO \in Seq(EventPtr)
  /\ eolsFIFO \in Seq(1..LumiSections) /\ Len(eolsFIFO) <= EolsFIFOCapacity
  /\ fileHandlerAndEventFIFO \in Seq(FileHandlerAndEvent)
  /\ IsMap(lumiHandlers, 1..LumiSections, LumiHandler)
  /\ IsMap(files, File, FileHandler)
  /\ IsMap(fileJSON, File, Nat)
  /\ IsMap(eolsJSON, 1..LumiSections, [events : Nat, files : Nat])
  /\ writing \in [Writers -> Writing]

DiskInit ==
  /\ eventFIFO = << >> /\ eolsFIFO = << >> /\ fileHandlerAndEventFIFO = << >>
  /\ lumiHandlers = << >> /\ files = << >> /\ fileJSON = << >> /\ eolsJSON = << >>
  /\ writing = [w \in Writers |-> NotWriting]

-----------------------------------------------------------------------------
\* writeEvent and closeLS: called by the event table and by the EVM's callback.
WriteEvent(event) ==
  /\ eventFIFO' = Append(eventFIFO, event)
  /\ UNCHANGED << eolsFIFO, fileHandlerAndEventFIFO, lumiHandlers, files, fileJSON,
                  eolsJSON, writing >>

CloseLS(ls) ==
  /\ Len(eolsFIFO) < EolsFIFOCapacity
  /\ eolsFIFO' = Append(eolsFIFO, ls)
  /\ UNCHANGED << eventFIFO, fileHandlerAndEventFIFO, lumiHandlers, files, fileJSON,
                  eolsJSON, writing >>

-----------------------------------------------------------------------------
(***************************************************************************)
(* The processing workloop.  process polls the events before the ends of   *)
(* lumi sections, but an event may arrive between the two polls: either    *)
(* queue may be served next.                                               *)
(***************************************************************************)

NewLumiHandler ==
  [fileHandlers |-> [i \in 1..NumberOfWriters |-> NoFile],
   nextFileHandler |-> 1, filesPerLS |-> 0, eventsPerLS |-> 0]

\* getFileHandler: the next of the handler's files, a new one if that is full.
NeedsFile(handler) ==
  LET f == handler.fileHandlers[handler.nextFileHandler]
  IN f = NoFile \/ files[f].allocated >= MaxEventsPerFile

FileFor(ls, handler) ==
  IF NeedsFile(handler) THEN [lumiSection |-> ls, index |-> handler.filesPerLS]
  ELSE handler.fileHandlers[handler.nextFileHandler]

AllocateFile(ls, handler) ==
  [fileHandlers    |-> [handler.fileHandlers EXCEPT ![handler.nextFileHandler] = FileFor(ls, handler)],
   nextFileHandler |-> (handler.nextFileHandler % NumberOfWriters) + 1,
   filesPerLS      |-> handler.filesPerLS + (IF NeedsFile(handler) THEN 1 ELSE 0),
   eventsPerLS     |-> handler.eventsPerLS + 1]

\* The files that a handler, the queue or a writer still refers to.
Referenced(handlers, fifo, writers) ==
  { handlers[ls].fileHandlers[i] : ls \in DOMAIN handlers, i \in 1..NumberOfWriters }
    \cup { fifo[i].file : i \in DOMAIN fifo } \cup { writers[w].file : w \in Writers }

\* FileHandler::close, also called when the last reference is gone: the JSON file
\* is written once, with the events counted so far.
CloseFiles(S, contents) ==
  fileJSON' = [f \in DOMAIN fileJSON \cup (S \cap DOMAIN contents) |->
                 IF f \in DOMAIN fileJSON THEN fileJSON[f] ELSE contents[f].eventCount]

\* What is not referred to any more is closed.
CloseUnreferenced(handlers, fifo, writers) ==
  CloseFiles(DOMAIN files \ Referenced(handlers, fifo, writers), files)

\* All events are of the one run looked at, so the check of the run number passes.
HandleEvents ==
  /\ eventFIFO # << >>
  /\ LET event   == Head(eventFIFO)
         ls      == LumiSection[event.evbId]
         handler == IF ls \in DOMAIN lumiHandlers THEN lumiHandlers[ls] ELSE NewLumiHandler
         f       == FileFor(ls, handler)
         opened  == IF NeedsFile(handler)
                    THEN Insert(files, f, [events |-> {}, eventCount |-> 0, allocated |-> 0])
                    ELSE files
     IN /\ lumiHandlers' = Insert(lumiHandlers, ls, AllocateFile(ls, handler))
        /\ files' = [opened EXCEPT ![f].allocated = @ + 1]
        /\ fileHandlerAndEventFIFO' = Append(fileHandlerAndEventFIFO, [file |-> f, event |-> event])
        /\ CloseUnreferenced(lumiHandlers', fileHandlerAndEventFIFO', writing)
  /\ eventFIFO' = Tail(eventFIFO)
  /\ UNCHANGED << eolsFIFO, eolsJSON, writing >>

\* A lumi section without events gets a JSON file too.  An existing JSON file of the
\* lumi section makes writeJSON raise, which ends the workloop.
HandleEoLS ==
  /\ eolsFIFO # << >> /\ Head(eolsFIFO) \notin DOMAIN eolsJSON
  /\ LET ls      == Head(eolsFIFO)
         handler == IF ls \in DOMAIN lumiHandlers THEN lumiHandlers[ls] ELSE NewLumiHandler
     IN /\ CloseFiles(Range(handler.fileHandlers), files)
        /\ eolsJSON' = Insert(eolsJSON, ls, [events |-> handler.eventsPerLS, files |-> handler.filesPerLS])
        /\ lumiHandlers' = Erase(lumiHandlers, ls)
  /\ eolsFIFO' = Tail(eolsFIFO)
  /\ UNCHANGED << eventFIFO, fileHandlerAndEventFIFO, files, writing >>

-----------------------------------------------------------------------------
(***************************************************************************)
(* The writing workloops.  A writer keeps its last event, and thereby its  *)
(* file, until it takes another or finds the queue empty.                  *)
(***************************************************************************)

TakeEvent(w) ==
  /\ writing[w].at \in {"idle", "done"} /\ fileHandlerAndEventFIFO # << >>
  /\ LET next == Head(fileHandlerAndEventFIFO)
     IN writing' = [writing EXCEPT ![w] = [at |-> "write", file |-> next.file,
                                           event |-> next.event, count |-> 0]]
  /\ fileHandlerAndEventFIFO' = Tail(fileHandlerAndEventFIFO)
  /\ CloseUnreferenced(lumiHandlers, fileHandlerAndEventFIFO', writing')
  /\ UNCHANGED << eventFIFO, eolsFIFO, lumiHandlers, files, eolsJSON >>

LeaveWriting(w) ==
  /\ writing[w].at = "done" /\ fileHandlerAndEventFIFO = << >>
  /\ writing' = [writing EXCEPT ![w] = NotWriting]
  /\ CloseUnreferenced(lumiHandlers, fileHandlerAndEventFIFO, writing')
  /\ UNCHANGED << eventFIFO, eolsFIFO, fileHandlerAndEventFIFO, lumiHandlers, files, eolsJSON >>

\* writeToDisk: getMemMap and the copy.  A closed file cannot be stretched.
WriteToDisk(w) ==
  /\ writing[w].at = "write" /\ writing[w].file \notin DOMAIN fileJSON
  /\ files' = [files EXCEPT ![writing[w].file].events = @ \cup {writing[w].event.evbId}]
  /\ writing' = [writing EXCEPT ![w].at = "count"]
  /\ UNCHANGED << eventFIFO, eolsFIFO, fileHandlerAndEventFIFO, lumiHandlers, fileJSON, eolsJSON >>

\* incrementEventCount: no lock, so it is a read and a write.
ReadEventCount(w) ==
  /\ writing[w].at = "count"
  /\ writing' = [writing EXCEPT ![w].at = "store", ![w].count = files[writing[w].file].eventCount]
  /\ UNCHANGED << eventFIFO, eolsFIFO, fileHandlerAndEventFIFO, lumiHandlers, files, fileJSON, eolsJSON >>

StoreEventCount(w) ==
  /\ writing[w].at = "store"
  /\ files' = [files EXCEPT ![writing[w].file].eventCount = writing[w].count + 1]
  /\ writing' = [writing EXCEPT ![w].at = "discard", ![w].count = 0]
  /\ UNCHANGED << eventFIFO, eolsFIFO, fileHandlerAndEventFIFO, lumiHandlers, fileJSON, eolsJSON >>

\* The writer hands the event to EventTable::discardEvent.
DiscardWritten(w) ==
  /\ writing[w].at = "discard"
  /\ writing' = [writing EXCEPT ![w].at = "done"]
  /\ UNCHANGED << eventFIFO, eolsFIFO, fileHandlerAndEventFIFO, lumiHandlers, files, fileJSON, eolsJSON >>

-----------------------------------------------------------------------------
\* What can go wrong on disk, as the code notices it: the JSON file of a lumi
\* section exists already (LumiHandler::writeJSON), or an event comes to a file
\* that is closed (FileHandler::getMemMap).
EoLSWrittenTwice == \E i \in DOMAIN eolsFIFO : eolsFIFO[i] \in DOMAIN eolsJSON
WriteAfterClose  == \E w \in Writers : writing[w].at = "write" /\ writing[w].file \in DOMAIN fileJSON
=============================================================================
