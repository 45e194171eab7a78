------------------------------ MODULE DataRecorder ------------------------------
(***************************************************************************)
(* The FITS writer: the flags and the dump cache of CDataCollection, the   *)
(* callbacks of the bulk data receiver, the operations of the component    *)
(* and its engine thread, together with the two parties they work for:     *)
(*                                                                         *)
(*   - the scheduler core, which goes through the steps that               *)
(*     DataReceiver.idl lists, or gives up through disableDataTransfer;    *)
(*   - the backend, which puts the main header, the dumps and the stop on  *)
(*     the bulk data flow (TotalPowerBackend is the detailed model).       *)
(*                                                                         *)
(* The flow delivers in order and late.  The engine reads the flags of the *)
(* collection without the mutex: its loop is cut wherever another thread   *)
(* can change what it has read, or does work that takes long (creating a   *)
(* file, writing its headers, closing it).                                 *)
(***************************************************************************)
EXTENDS Naturals, Sequences

CONSTANTS
    MaxSubScans,   \* subscans the core commands in a behaviour
    MaxScans,      \* scans the core commands in a behaviour
    MaxDumps,      \* dumps of a subscan
    CacheSize,     \* the dumps that fit in the cache
    MaxFailures    \* times a file cannot be created

ASSUME RecorderBounds ==
    {MaxSubScans, MaxScans, MaxDumps, CacheSize, MaxFailures} \subseteq Nat

VARIABLES
    coll,      \* the flags of the collection, the file name and the headers it was given
    dumps,     \* m_dumpCollection
    flow,      \* messages of the bulk data flow that are not delivered yet
    engine,    \* the engine thread: pc, the open file, the scan of the open summary
    written,   \* the dumps of the open file
    finished,  \* the file that was finalized last, with its dumps
    core,      \* the scheduler core: pc, subscan, scan
    source,    \* the backend: may it send, has it sent anything since it may
    sent,      \* history: how many dumps were sent for the present subscan
    dropped,   \* history: those the cache had no room for
    orderly,   \* history: see StartScan, SendStop and Abort
    failures   \* files that could not be created

recorder == <<coll, dumps, engine, written, finished, failures>>
history  == <<sent, dropped>>
vars     == <<recorder, flow, core, source, history, orderly>>

SubScans == 0 .. MaxSubScans
Scans    == 0 .. MaxScans
File     == [scan : Scans, sub : SubScans]
NoFile   == [scan |-> 0, sub |-> 0]

Header(scan) == [kind |-> "header", scan |-> scan]
Dump(sub, n) == [kind |-> "dump", sub |-> sub, n |-> n]
Stop         == [kind |-> "stop"]

Dumps    == {Dump(sub, n) : sub \in SubScans, n \in 1 .. MaxDumps}
Messages == {Header(scan) : scan \in Scans} \cup Dumps \cup {Stop}
IsDump(m) == m.kind = "dump"

Collection == [running : BOOLEAN, ready : BOOLEAN, start : BOOLEAN, stop : BOOLEAN,
               reset : BOOLEAN, scanHeader : BOOLEAN, subScanHeader : BOOLEAN,
               writeSummary : BOOLEAN, name : File, headers : Scans]

TypeOK ==
    /\ coll \in Collection
    /\ dumps \in Seq(Dumps) /\ Len(dumps) <= CacheSize
    /\ flow \in Seq(Messages)
    /\ engine \in [pc : {"idle", "flags", "opening", "headers", "draining", "closing"},
                   file : File, summary : Scans]
    /\ written \in Seq(Dumps)
    /\ finished \in [file : File, dumps : Seq(Dumps)]
    /\ core \in [pc : {"idle", "prepared", "opened", "ready", "recording", "stopping", "scan",
                       "stopped", "resetting"},
                 sub : SubScans, scan : Scans]
    /\ source \in [go : BOOLEAN, sending : BOOLEAN]
    /\ sent \in 0 .. MaxDumps /\ dropped \subseteq Dumps
    /\ orderly \in BOOLEAN
    /\ failures \in 0 .. MaxFailures

\* CDataCollection::CDataCollection, CEngineThread::CEngineThread
Init ==
    /\ coll = [running |-> FALSE, ready |-> FALSE, start |-> FALSE, stop |-> FALSE,
               reset |-> FALSE, scanHeader |-> FALSE, subScanHeader |-> FALSE,
               writeSummary |-> FALSE, name |-> NoFile, headers |-> 0]
    /\ dumps = <<>> /\ flow = <<>>
    /\ engine = [pc |-> "idle", file |-> NoFile, summary |-> 0]
    /\ written = <<>>
    /\ finished = [file |-> NoFile, dumps |-> <<>>]
    /\ core = [pc |-> "idle", sub |-> 0, scan |-> 0]
    /\ source = [go |-> FALSE, sending |-> FALSE]
    /\ sent = 0 /\ dropped = {} /\ orderly = TRUE /\ failures = 0

FileOpened == engine.file # NoFile

\* Nothing of an earlier scan is left in the recorder, or on its way to it.
Quiet ==
    /\ ~coll.running /\ ~coll.start /\ ~coll.stop /\ ~coll.reset /\ ~coll.subScanHeader
    /\ ~coll.writeSummary /\ engine.summary = 0
    /\ dumps = <<>> /\ \A i \in 1 .. Len(flow) : flow[i].kind = "header"
    /\ engine.pc \in {"idle", "flags"} /\ ~FileOpened

--------------------------------------------------------------------------------
(* The scheduler core.                                                     *)

At(place)   == core.pc = place
Goes(place) == core' = [core EXCEPT !.pc = place]

\* CCore::enableDataTransfer
SendHeader ==
    /\ At("idle") /\ core.scan < MaxScans
    /\ core' = [core EXCEPT !.pc = "prepared", !.scan = @ + 1]
    /\ flow' = Append(flow, Header(core.scan + 1))
    /\ UNCHANGED <<recorder, source, history, orderly>>

\* CCore::setupDataTransfer, first call: CDataCollection::setScanSetup.  The
\* scan is orderly as long as it began in a quiet recorder.
StartScan ==
    /\ At("prepared")
    /\ ~coll.scanHeader
    /\ coll' = [coll EXCEPT !.scanHeader = TRUE, !.name.scan = core.scan]
    /\ Goes("opened")
    /\ orderly' = Quiet
    /\ UNCHANGED <<dumps, engine, written, finished, failures, flow, source, history>>

\* CDataCollection::setSubScanSetup accepts.  The test of m_start && m_running
\* is left out: startRunnigStage clears m_start when it raises m_running, and
\* saveDump raises m_start only when m_running is down.
SubScanAccepted == coll.scanHeader /\ ~coll.subScanHeader

\* CCore::setupDataTransfer, second call.  The name of the file is written
\* whatever the engine does with it.
StartSubScan ==
    /\ core.pc \in {"opened", "scan"} /\ core.sub < MaxSubScans
    /\ SubScanAccepted
    /\ coll' = [coll EXCEPT !.subScanHeader = TRUE,
                            !.name.sub = core.sub + 1]
    /\ core' = [core EXCEPT !.pc = "ready", !.sub = @ + 1]
    /\ sent' = 0 /\ dropped' = {}
    /\ UNCHANGED <<dumps, engine, written, finished, failures, flow, source, orderly>>

\* CCore::startDataTansfer: the backend resumes.
SendData ==
    /\ At("ready")
    /\ Goes("recording")
    /\ source' = [source EXCEPT !.go = TRUE]
    /\ UNCHANGED <<recorder, flow, history, orderly>>

\* The backend stops; it puts the stop on the flow only if it has sent a dump
\* since it was resumed.
Suspend ==
    /\ source' = [go |-> FALSE, sending |-> FALSE]
    /\ flow' = IF source.sending THEN Append(flow, Stop) ELSE flow

\* CCore::stopDataTransfer.  A stop is in time when the file is open.
SendStop ==
    /\ At("recording")
    /\ Goes("stopping")
    /\ Suspend
    /\ orderly' = (orderly /\ coll.running)
    /\ UNCHANGED <<recorder, history>>

\* Mutant: the core does not ask.
GoOnAtOnce ==
    /\ At("stopping")
    /\ Goes("scan")
    /\ UNCHANGED <<recorder, flow, source, history, orderly>>

\* CCore::checkRecording answers that the recorder has written all its dumps.
RecordingCompleted ==
    /\ At("stopping") /\ ~coll.running
    /\ Goes("scan")
    /\ UNCHANGED <<recorder, flow, source, history, orderly>>

\* CDataCollection::stopScan: m_subScanHeader stays what it is.
ScanStopped ==
    coll' = [coll EXCEPT !.ready = FALSE, !.scanHeader = FALSE, !.writeSummary = TRUE]

\* CCore::_terminateScan: stopScan, then the backend terminates.
StopScan ==
    /\ At("scan")
    /\ ScanStopped
    /\ Goes("idle")
    /\ UNCHANGED <<dumps, engine, written, finished, failures, flow, source, history, orderly>>

\* CCore::disableDataTransfer on a stream that is not recording: nothing but
\* stopScan is asked of the recorder.
Abort ==
    /\ core.pc \in {"prepared", "opened", "ready", "stopping", "scan"}
    /\ IF At("prepared") THEN UNCHANGED coll ELSE ScanStopped
    /\ Goes("idle")
    /\ orderly' = FALSE
    /\ UNCHANGED <<dumps, engine, written, finished, failures, flow, source, history>>

\* CCore::disableDataTransfer on a stream that is recording: sendStop,
AbortRecording ==
    /\ At("recording")
    /\ Goes("stopped")
    /\ Suspend
    /\ orderly' = FALSE
    /\ UNCHANGED <<recorder, history>>

\* ... stopScan,
AbortScan ==
    /\ At("stopped")
    /\ ScanStopped
    /\ Goes("resetting")
    /\ UNCHANGED <<dumps, engine, written, finished, failures, flow, source, history, orderly>>

\* ... and reset: CDataCollection::forceReset.
Reset ==
    /\ At("resetting")
    /\ coll' = [coll EXCEPT !.running = FALSE, !.ready = FALSE, !.start = FALSE, !.stop = FALSE,
                            !.scanHeader = FALSE, !.subScanHeader = FALSE,
                            !.writeSummary = FALSE, !.reset = TRUE]
    /\ dumps' = <<>>
    /\ Goes("idle")
    /\ UNCHANGED <<engine, written, finished, failures, flow, source, history, orderly>>

--------------------------------------------------------------------------------
(* The backend and the flow.                                               *)

\* CSenderThread::computeSample
SendDump ==
    /\ source.go
    /\ sent < MaxDumps /\ sent' = sent + 1
    /\ flow' = Append(flow, Dump(core.sub, sent + 1))
    /\ source' = [source EXCEPT !.sending = TRUE]
    /\ UNCHANGED <<recorder, core, dropped, orderly>>

\* ReceiverCallback::cbStart, CDataCollection::saveMainHeaders
ReceiveHeader ==
    /\ flow # <<>> /\ Head(flow).kind = "header"
    /\ flow' = Tail(flow)
    /\ coll' = [coll EXCEPT !.ready = TRUE, !.headers = Head(flow).scan]
    /\ UNCHANGED <<dumps, engine, written, finished, failures, core, source, history, orderly>>

\* Mutant: the cache has no limit.
ReceiveDumpAlways ==
    /\ flow # <<>> /\ IsDump(Head(flow))
    /\ flow' = Tail(flow)
    /\ coll' = [coll EXCEPT !.start = @ \/ (~coll.running /\ ~coll.stop)]
    /\ dumps' = Append(dumps, Head(flow))
    /\ UNCHANGED <<engine, written, finished, failures, core, source, history, orderly>>

\* ReceiverCallback::cbReceive, CDataCollection::saveDump: a dump the cache has
\* no room for is lost.
ReceiveDump ==
    /\ flow # <<>> /\ IsDump(Head(flow))
    /\ flow' = Tail(flow)
    /\ coll' = [coll EXCEPT !.start = @ \/ (~coll.running /\ ~coll.stop)]
    /\ IF Len(dumps) < CacheSize
       THEN dumps' = Append(dumps, Head(flow)) /\ UNCHANGED dropped
       ELSE dropped' = dropped \cup {Head(flow)} /\ UNCHANGED dumps
    /\ UNCHANGED <<engine, written, finished, failures, core, source, sent, orderly>>

\* ReceiverCallback::cbStop, CDataCollection::startStopStage: the stop of a
\* recorder that has not opened its file yet is lost.
ReceiveStop ==
    /\ flow # <<>> /\ Head(flow).kind = "stop"
    /\ flow' = Tail(flow)
    /\ coll' = [coll EXCEPT !.stop = @ \/ coll.running]
    /\ UNCHANGED <<dumps, engine, written, finished, failures, core, source, history, orderly>>

Deliver == ReceiveHeader \/ ReceiveDump \/ ReceiveStop

--------------------------------------------------------------------------------
(* The engine thread: CEngineThread::runLoop.                              *)

EngineAt(place) == engine.pc = place
Runs(place) == engine' = [engine EXCEPT !.pc = place]

\* Mutant: the end of the scan is not waited for.
SummaryAlwaysDue == engine.summary # 0

SummaryDue == coll.writeSummary /\ engine.summary # 0

\* The loop begins by finalizing the summary of a scan that was stopped.
FinalizeSummary ==
    /\ EngineAt("idle") /\ SummaryDue
    /\ engine' = [engine EXCEPT !.pc = "flags", !.summary = 0]
    /\ coll' = [coll EXCEPT !.writeSummary = FALSE]
    /\ UNCHANGED <<dumps, written, finished, failures, flow, core, source, history, orderly>>

\* Then it looks at the flags; the first one that is up decides.
Branches == EngineAt("flags") \/ (EngineAt("idle") /\ ~SummaryDue)

\* A reset: the open file and the summary are closed as they are.
AnswerReset ==
    /\ Branches /\ coll.reset
    /\ coll' = [coll EXCEPT !.reset = FALSE]
    /\ engine' = [pc |-> "idle", file |-> NoFile, summary |-> 0]
    /\ written' = <<>>
    /\ UNCHANGED <<dumps, finished, failures, flow, core, source, history, orderly>>

StartAsked == coll.start /\ coll.ready /\ coll.scanHeader /\ coll.subScanHeader

\* A start; asked for with a file open, it keeps the loop from doing anything.
BeginOpening ==
    /\ Branches /\ ~coll.reset /\ StartAsked
    /\ Runs(IF FileOpened THEN "idle" ELSE "opening")
    /\ UNCHANGED <<coll, dumps, written, finished, failures, flow, core, source, history, orderly>>

\* A stop.
BeginStop ==
    /\ Branches /\ ~coll.reset /\ ~StartAsked /\ coll.stop
    /\ Runs("draining")
    /\ UNCHANGED <<coll, dumps, written, finished, failures, flow, core, source, history, orderly>>

\* CEngineThread::processData: one dump goes from the cache into the file.
ProcessData ==
    /\ dumps # <<>>
    /\ dumps' = Tail(dumps)
    /\ written' = Append(written, Head(dumps))
    /\ UNCHANGED <<coll, finished, failures, flow, core, source, history, orderly>>

\* Nothing but m_running: dumps are saved, at least one in a time slice.
SaveDumps ==
    /\ Branches /\ ~coll.reset /\ ~StartAsked /\ ~coll.stop /\ coll.running /\ FileOpened
    /\ ProcessData
    /\ Runs("idle")

\* No flag, or nothing to save.
NothingToDo ==
    /\ EngineAt("flags") /\ ~coll.reset /\ ~StartAsked /\ ~coll.stop
    /\ ~coll.running \/ ~FileOpened \/ dumps = <<>>
    /\ Runs("idle")
    /\ UNCHANGED <<coll, dumps, written, finished, failures, flow, core, source, history, orderly>>

\* Mutant: the setup of the subscan stays after its file was opened.
CreateFileOnly ==
    /\ EngineAt("opening")
    /\ LET summary == IF engine.summary = 0 THEN coll.name.scan ELSE engine.summary
       IN  engine' = [pc |-> "headers", file |-> coll.name, summary |-> summary]
    /\ coll' = [coll EXCEPT !.running = TRUE, !.start = FALSE]
    /\ UNCHANGED <<dumps, written, finished, failures, flow, core, source, history, orderly>>

\* The summary is opened with the first file of the scan.  The file may not be
\* created: the loop tries again, as long as the flags ask for it.
CreateFile ==
    /\ EngineAt("opening")
    /\ LET summary == IF engine.summary = 0 THEN coll.name.scan ELSE engine.summary
       IN  \/ /\ engine' = [pc |-> "headers", file |-> coll.name, summary |-> summary]
              /\ coll' = [coll EXCEPT !.running = TRUE, !.start = FALSE, !.subScanHeader = FALSE]
              /\ UNCHANGED failures
           \/ /\ failures < MaxFailures
              /\ failures' = failures + 1
              /\ engine' = [engine EXCEPT !.pc = "idle", !.summary = summary]
              /\ UNCHANGED coll
    /\ UNCHANGED <<dumps, written, finished, flow, core, source, history, orderly>>

\* The headers of the file are written, from m_sectionH among the others.
WriteHeaders ==
    /\ EngineAt("headers")
    /\ Runs("idle")
    /\ UNCHANGED <<coll, dumps, written, finished, failures, flow, core, source, history, orderly>>

\* The cache is emptied.
Drain ==
    /\ EngineAt("draining") /\ FileOpened
    /\ ProcessData
    /\ UNCHANGED engine

\* Mutant: the file is closed without emptying the cache.
CloseFileEarly ==
    /\ EngineAt("draining")
    /\ engine' = [engine EXCEPT !.pc = "closing", !.file = NoFile]
    /\ IF FileOpened
       THEN finished' = [file |-> engine.file, dumps |-> written] /\ written' = <<>>
       ELSE UNCHANGED <<finished, written>>
    /\ UNCHANGED <<coll, dumps, failures, flow, core, source, history, orderly>>

\* The cache was found empty: the file, if there is one, is closed.
CloseFile ==
    /\ EngineAt("draining")
    /\ FileOpened => dumps = <<>>
    /\ engine' = [engine EXCEPT !.pc = "closing", !.file = NoFile]
    /\ IF FileOpened
       THEN finished' = [file |-> engine.file, dumps |-> written] /\ written' = <<>>
       ELSE UNCHANGED <<finished, written>>
    /\ UNCHANGED <<coll, dumps, failures, flow, core, source, history, orderly>>

\* Mutant: the recorder goes on running without a file.
HaltStopOnly ==
    /\ EngineAt("closing")
    /\ Runs("idle")
    /\ coll' = [coll EXCEPT !.stop = FALSE]
    /\ UNCHANGED <<dumps, written, finished, failures, flow, core, source, history, orderly>>

\* CDataCollection::haltStopStage
HaltStopStage ==
    /\ EngineAt("closing")
    /\ Runs("idle")
    /\ coll' = [coll EXCEPT !.running = FALSE, !.stop = FALSE]
    /\ UNCHANGED <<dumps, written, finished, failures, flow, core, source, history, orderly>>

Engine ==
    \/ FinalizeSummary \/ AnswerReset \/ BeginOpening \/ BeginStop \/ SaveDumps \/ NothingToDo
    \/ CreateFile \/ WriteHeaders
    \/ Drain \/ CloseFile \/ HaltStopStage

Core ==
    \/ SendHeader \/ StartScan \/ StartSubScan \/ SendData \/ SendStop \/ RecordingCompleted
    \/ StopScan \/ Abort \/ AbortRecording \/ AbortScan \/ Reset

Next == Core \/ SendDump \/ Deliver \/ Engine

Spec == Init /\ [][Next]_vars

\* The engine thread and the bulk data transfer keep running, and the core
\* keeps asking whether the recording is over.
FairSpec ==
    /\ Spec
    /\ WF_vars(Engine) /\ WF_vars(Deliver) /\ WF_vars(RecordingCompleted)

--------------------------------------------------------------------------------
(* Properties.                                                             *)

\* A sequence of messages carries some dumps: these and no others, each once and
\* in the order in which they were sent.
DumpsIn(messages) == {messages[i] : i \in {k \in 1 .. Len(messages) : IsDump(messages[k])}}
InOrder(messages) ==
    \A i, j \in 1 .. Len(messages) :
        i < j /\ IsDump(messages[i]) /\ IsDump(messages[j]) => messages[i].n < messages[j].n
Carries(messages, some) == InOrder(messages) /\ DumpsIn(messages) = some

\* What is in the open file, in the cache and on the flow.
UnderWay == written \o dumps \o flow

\* What the backend has sent for the present subscan, and what the cache had room for.
Sent == {Dump(core.sub, n) : n \in 1 .. sent}
Kept == Sent \ dropped

\* In an orderly scan nothing of a subscan ends in the file of another one:
\* the open file is that of the subscan being recorded, with the headers of
\* its scan, and all the dumps on their way are its own.
OwnFile ==
    orderly =>
        /\ FileOpened => /\ engine.file = [scan |-> core.scan, sub |-> core.sub]
                         /\ coll.headers = core.scan
        /\ DumpsIn(UnderWay) # {} => core.pc \in {"recording", "stopping"}

\* The finished file is the one of the present subscan, with all its dumps.
Finished ==
    /\ finished.file = [scan |-> core.scan, sub |-> core.sub]
    /\ Carries(finished.dumps, Kept)

\* Nothing is lost or reordered: what the backend has sent for the subscan is
\* in the file, in the cache and on the flow, except what the cache refused;
\* when the core goes on, it is all in the finished file.
NothingLost ==
    orderly =>
        /\ core.pc \in {"ready", "recording"} => Carries(UnderWay, Kept)
        /\ core.pc = "stopping" => Carries(UnderWay, Kept) \/ Finished
        /\ core.pc = "scan" => Finished

\* In an orderly scan the next subscan is never refused.
StartAccepted == orderly /\ core.pc \in {"opened", "scan"} => SubScanAccepted

\* m_sectionH, which the engine goes through while it writes the headers of a
\* file, is not replaced meanwhile by the main header of the next scan.
HeadersStable ==
    [][orderly /\ EngineAt("headers") /\ EngineAt("headers")' => coll'.headers = coll.headers]_vars

\* The summary is that of the scan the open file belongs to.
OwnSummary == orderly /\ FileOpened => engine.summary = engine.file.scan

\* A stop that found the file open is answered: the recorder closes the file
\* and says so.
StopAnswered == orderly /\ At("stopping") ~> ~At("stopping")

\* "6 bck->sendStop(), 7 wait !wrt->isRecording(), 8 if there is another
\* subscan goto 4" (DataReceiver.idl): the wait ends.  It need not, when the stop
\* comes before the file is open: no run checks this (see the findings).
WaitEnds == At("stopping") ~> ~At("stopping")
================================================================================
