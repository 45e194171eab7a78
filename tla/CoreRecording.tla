----------------------------- MODULE CoreRecording -----------------------------
(***************************************************************************)
(* The recording operations of the scheduler core (Core_Operations.i) that *)
(* clients command without a schedule, alone or in a macro (crossScan,     *)
(* skydip, peakerScan): each command runs in a thread of its own, and they *)
(* all share the stream, the telescope and one abort flag, with each other *)
(* and with the executor of the schedules.                                 *)
(*                                                                         *)
(* m_mutex of the core is held inside a step, and between steps by a       *)
(* client that waits for the telescope to close a scan.  The waits of the  *)
(* operations (for a time, a source, the end of a recording) hold nothing: *)
(* they poll the abort flag, which the one that sees it clears.            *)
(***************************************************************************)
EXTENDS StreamOps, Naturals, Sequences

CONSTANTS
    Clients,
    Tasks,      \* the commands: sequences of operations, a macro has several
    Faults

Operations == {"antenna", "wait", "scan", "init", "record", "terminate"}
FaultClasses == {"backend", "recorder", "telescope", "close", "stop", "timer"}

ASSUME CoreAssumption ==
    /\ Tasks \subseteq Seq(Operations)
    /\ Faults \subseteq FaultClasses
    /\ {"schedule", "nobody"} \cap Clients = {}

VARIABLES
    stream,         \* the stream flags
    telescope,      \* m_subScanStarted
    abort,          \* m_abortCurrentOperation
    recorderBusy,   \* the recorder still has data in its cache
    schedule,       \* "off", "closing": startSchedule waits for the telescope, "active"
    at,             \* where each client is in its operation
    job,            \* the operations each client still has to do
    author          \* who started the last recording: a client or the schedule

vars == <<stream, telescope, abort, recorderBusy, schedule, at, job, author>>

Places == {"idle", "ready", "waiting", "closing", "checked", "started", "recording", "aborted",
           "draining", "delay"}

TypeOK ==
    /\ stream \in Flags
    /\ telescope \in BOOLEAN
    /\ abort \in BOOLEAN
    /\ recorderBusy \in BOOLEAN
    /\ schedule \in {"off", "closing", "active"}
    /\ at \in [Clients -> Places]
    /\ job \in [Clients -> Seq(Operations)]
    /\ \A c \in Clients : (at[c] = "idle") <=> (job[c] = <<>>)
    /\ author \in Clients \cup {"schedule", "nobody"}

Init ==
    /\ stream = NoStream
    /\ telescope = FALSE
    /\ abort = FALSE
    /\ recorderBusy = FALSE
    /\ schedule = "off"
    /\ at = [c \in Clients |-> "idle"]
    /\ job = [c \in Clients |-> <<>>]
    /\ author = "nobody"

--------------------------------------------------------------------------------

\* m_mutex can be taken by client c (by the schedule: by anybody).
FreeFor(c) == \A d \in Clients : at[d] = "closing" => d = c
Free == \A d \in Clients : at[d] # "closing"

\* Client c is about to execute this operation.
Doing(c, operation) == at[c] = "ready" /\ job[c] # <<>> /\ Head(job[c]) = operation

Goes(c, place) == at' = [at EXCEPT ![c] = place] /\ UNCHANGED job

\* Mutant: the end of the macro is not noticed.
ReturnsForever(c) ==
    /\ job' = [job EXCEPT ![c] = Tail(@)]
    /\ at' = [at EXCEPT ![c] = "ready"]

\* The operation returns: the next one of the macro follows.
Returns(c) ==
    /\ job' = [job EXCEPT ![c] = Tail(@)]
    /\ at' = [at EXCEPT ![c] = IF Len(job[c]) > 1 THEN "ready" ELSE "idle"]

\* The operation raises: the rest of the macro is skipped.
Raises(c) ==
    /\ job' = [job EXCEPT ![c] = <<>>]
    /\ at' = [at EXCEPT ![c] = "idle"]

Possible(outcomes, fault) == {o \in outcomes : fault \in Faults \/ Succeeds(o)}

\* A command of a client; a macro is refused while a schedule is active.
Submit(c, task) ==
    /\ at[c] = "idle"
    /\ task # <<>>
    /\ Len(task) > 1 => schedule # "active"
    /\ at' = [at EXCEPT ![c] = "ready"]
    /\ job' = [job EXCEPT ![c] = task]
    /\ UNCHANGED <<stream, telescope, abort, recorderBusy, schedule, author>>

\* goOff and callTSys, between the waits of the macros.
Antenna(c) ==
    /\ Doing(c, "antenna")
    /\ FreeFor(c)
    /\ Returns(c) \/ ("telescope" \in Faults /\ Raises(c))
    /\ UNCHANGED <<stream, telescope, abort, recorderBusy, schedule, author>>

(* _wait, _waitUntil, _waitOnSource, _waitTracking: each one clears the    *)
(* flag and polls it.                                                      *)

\* A wait of client c begins, at this place, or its event cannot be scheduled.
BeginsWait(c, place) ==
    /\ abort' = FALSE
    /\ Goes(c, place) \/ ("timer" \in Faults /\ Raises(c))

\* A wait of client c sees the flag.
SeesAbort == abort /\ abort' = FALSE

BeginWait(c) ==
    /\ Doing(c, "wait")
    /\ BeginsWait(c, "waiting")
    /\ UNCHANGED <<stream, telescope, recorderBusy, schedule, author>>

EndWait(c) ==
    /\ at[c] = "waiting"
    /\ Returns(c)
    /\ UNCHANGED <<stream, telescope, abort, recorderBusy, schedule, author>>

\* Any of the waits that just raise: also the one for the closing of a scan,
\* and the one between two questions to the recorder.
AbortWait(c) ==
    /\ at[c] \in {"waiting", "closing", "delay"}
    /\ SeesAbort
    /\ Raises(c)
    /\ UNCHANGED <<stream, telescope, recorderBusy, schedule, author>>

\* _abort
Abort ==
    /\ schedule # "active"
    /\ abort' = TRUE
    /\ UNCHANGED <<stream, telescope, recorderBusy, schedule, at, job, author>>

(* _latOTF, _skydipOTF, _peaker, ...: all of them call startScan.          *)

\* checkScan and doScan: m_subScanStarted is raised before doScan commands the
\* subsystems.
CommandScan(c) ==
    \/ telescope' = TRUE /\ (Returns(c) \/ ("telescope" \in Faults /\ Raises(c)))
    \/ telescope' = FALSE /\ Raises(c)

\* startScan closes the previous scan first, and waits for the subsystems
\* with m_mutex held by the operation.
BeginScan(c) ==
    /\ Doing(c, "scan")
    /\ FreeFor(c)
    /\ \/ CommandScan(c) /\ UNCHANGED abort
       \/ /\ telescope
          /\ telescope' = FALSE
          /\ BeginsWait(c, "closing")
       \/ /\ telescope
          /\ "close" \in Faults
          /\ Raises(c)
          /\ UNCHANGED <<telescope, abort>>
    /\ UNCHANGED <<stream, recorderBusy, schedule, author>>

EndScan(c) ==
    /\ at[c] = "closing"
    /\ CommandScan(c)
    /\ UNCHANGED <<stream, abort, recorderBusy, schedule, author>>

(* _initRecording                                                          *)

\* The errors of disableDataTransfer are swallowed, all the flags cleared.
InitRecording(c) ==
    /\ Doing(c, "init")
    /\ FreeFor(c)
    /\ \/ schedule = "active" /\ Raises(c) /\ UNCHANGED stream
       \/ /\ schedule # "active"
          /\ \E o \in Possible(EnableOutcomes(NoStream), "backend") :
                /\ stream' = o.flags
                /\ IF Succeeds(o) THEN Returns(c) ELSE Raises(c)
    /\ UNCHANGED <<telescope, abort, recorderBusy, schedule, author>>

(* _startRecording                                                         *)

\* What is checked before m_mutex is released to load the logger.
RecordingAllowed ==
    /\ schedule # "active"
    /\ ~stream.started
    /\ stream.connected \/ stream.prepared

CheckRecording(c) ==
    /\ Doing(c, "record")
    /\ FreeFor(c)
    /\ \/ RecordingAllowed /\ Goes(c, "checked")
       \/ (~RecordingAllowed \/ "backend" \in Faults) /\ Raises(c)
    /\ UNCHANGED <<stream, telescope, abort, recorderBusy, schedule, author>>

Record(c) ==
    /\ at[c] = "checked"
    /\ FreeFor(c)
    /\ \E o \in StartOutcomes(stream) :
          /\ Succeeds(o) \/ o.failed \in {"setup", "unstarted"} \/ "backend" \in Faults
          /\ stream' = o.flags
          /\ IF Succeeds(o)
             THEN Goes(c, "started") /\ author' = c /\ recorderBusy' = TRUE
             ELSE Raises(c) /\ UNCHANGED <<author, recorderBusy>>
    /\ UNCHANGED <<telescope, abort, schedule>>

\* _waitUntil: when it cannot schedule its event, nobody stops the recording.
AwaitEnd(c) ==
    /\ at[c] = "started"
    /\ BeginsWait(c, "recording")
    /\ UNCHANGED <<stream, telescope, recorderBusy, schedule, author>>

\* Mutant: an aborted recording is given up without stopping it.
AbortCarelessly(c) ==
    /\ at[c] = "recording"
    /\ SeesAbort
    /\ Raises(c)
    /\ UNCHANGED <<stream, telescope, recorderBusy, schedule, author>>

AbortRecording(c) ==
    /\ at[c] = "recording"
    /\ SeesAbort
    /\ Goes(c, "aborted")
    /\ UNCHANGED <<stream, telescope, recorderBusy, schedule, author>>

\* Mutant: like the others, the stop is refused during a schedule.
StopUnlessActive(c) ==
    /\ at[c] \in {"recording", "aborted"}
    /\ FreeFor(c)
    /\ \/ schedule = "active" /\ Raises(c) /\ UNCHANGED stream
       \/ /\ schedule # "active"
          /\ stream' = [stream EXCEPT !.started = FALSE]
          /\ IF at[c] = "recording" THEN Goes(c, "draining") ELSE Raises(c)
    /\ UNCHANGED <<telescope, abort, recorderBusy, schedule, author>>

\* At the end of the recording, or after an abort: whatever is recording now,
\* is stopped.
StopRecording(c) ==
    /\ at[c] \in {"recording", "aborted"}
    /\ FreeFor(c)
    /\ \E o \in {s \in StopOutcomes(stream) : s.failed # "load"} :
          /\ "stop" \in Faults \/ Succeeds(o)
          /\ stream' = o.flags
          /\ IF Succeeds(o) /\ at[c] = "recording" THEN Goes(c, "draining") ELSE Raises(c)
    /\ UNCHANGED <<telescope, abort, recorderBusy, schedule, author>>

\* The recorder is asked until its cache is empty.
Drain(c) ==
    /\ at[c] = "draining"
    /\ \/ recorderBusy /\ BeginsWait(c, "delay")
       \/ ~recorderBusy /\ Returns(c) /\ UNCHANGED abort
       \/ "recorder" \in Faults /\ Raises(c) /\ UNCHANGED abort
    /\ UNCHANGED <<stream, telescope, recorderBusy, schedule, author>>

EndDelay(c) ==
    /\ at[c] = "delay"
    /\ Goes(c, "draining")
    /\ UNCHANGED <<stream, telescope, abort, recorderBusy, schedule, author>>

\* _terminateScan: allowed at any time, also to a client that did not record.
TerminateScan(c) ==
    /\ Doing(c, "terminate")
    /\ FreeFor(c)
    /\ \/ "backend" \in Faults /\ Raises(c) /\ UNCHANGED stream
       \/ \E o \in Possible(StopScanOutcomes(stream), "recorder") :
             \/ ~Succeeds(o) /\ stream' = o.flags /\ Raises(c)
             \/ /\ Succeeds(o)
                /\ \E p \in Possible(DisableOutcomes(o.flags), "recorder") :
                      /\ stream' = p.flags
                      /\ IF Succeeds(p) THEN Returns(c) ELSE Raises(c)
    /\ UNCHANGED <<telescope, abort, recorderBusy, schedule, author>>

--------------------------------------------------------------------------------
(* The executor, as the core sees it: see ScheduleExecutor.                *)

\* startSchedule: closeScan(true), which releases m_mutex while it waits; then
\* the schedule is read, and may be refused.
StartSchedule ==
    /\ schedule = "off"
    /\ Free
    /\ \/ schedule' \in {"off", "active"} /\ telescope' = FALSE /\ UNCHANGED abort
       \/ telescope /\ telescope' = FALSE /\ abort' = FALSE /\ schedule' = "closing"
    /\ UNCHANGED <<stream, recorderBusy, at, job, author>>

ScheduleStarts ==
    /\ schedule = "closing"
    /\ \/ schedule' \in {"off", "active"} /\ UNCHANGED abort
       \/ schedule' = "off" /\ SeesAbort
    /\ UNCHANGED <<stream, telescope, recorderBusy, at, job, author>>

\* Any call of the executor to the data transfer or to the telescope.
ScheduleCalls ==
    /\ schedule = "active"
    /\ Free
    /\ telescope' \in BOOLEAN
    /\ \E o \in DisableOutcomes(stream) \cup EnableOutcomes(stream) \cup StartOutcomes(stream)
                \cup StopOutcomes(stream) :
          /\ stream' = o.flags
          /\ IF o.flags.started /\ ~stream.started
             THEN author' = "schedule" /\ recorderBusy' = TRUE
             ELSE UNCHANGED <<author, recorderBusy>>
    /\ UNCHANGED <<abort, schedule, at, job>>

\* cleanSchedule, with the call that failed before it: a subscan that was
\* commanded half way and cannot be closed stays on the telescope.
ScheduleEnds ==
    /\ schedule = "active"
    /\ Free
    /\ schedule' = "off"
    /\ telescope' \in BOOLEAN
    /\ \E o \in DisableOutcomes(stream) : stream' = o.flags
    /\ UNCHANGED <<abort, recorderBusy, at, job, author>>

RecorderDrains ==
    /\ recorderBusy
    /\ ~stream.started
    /\ recorderBusy' = FALSE
    /\ UNCHANGED <<stream, telescope, abort, schedule, at, job, author>>

--------------------------------------------------------------------------------

\* The thread of client c executes its command.
Advance(c) ==
    \/ Antenna(c)
    \/ BeginWait(c) \/ EndWait(c) \/ AbortWait(c)
    \/ BeginScan(c) \/ EndScan(c)
    \/ InitRecording(c)
    \/ CheckRecording(c) \/ Record(c) \/ AwaitEnd(c) \/ AbortRecording(c) \/ StopRecording(c)
    \/ Drain(c) \/ EndDelay(c)
    \/ TerminateScan(c)

Next ==
    \/ \E c \in Clients : Advance(c) \/ \E task \in Tasks : Submit(c, task)
    \/ Abort
    \/ StartSchedule \/ ScheduleStarts \/ ScheduleCalls \/ ScheduleEnds
    \/ RecorderDrains

Spec == Init /\ [][Next]_vars

\* The threads keep running, the times waited for come, the recorder writes its
\* cache.  m_mutex is free over and over: its holder waits for a time.
FairSpec == Spec /\ (\A c \in Clients : SF_vars(Advance(c))) /\ WF_vars(RecorderDrains)

--------------------------------------------------------------------------------

\* The client that has started a recording and has not stopped it yet.
InCharge(c) == at[c] \in {"started", "recording", "aborted"}

\* A started stream has somebody who will stop it: the schedule, or the client
\* that started it.  Except when the stop itself, or the event that should
\* bring it, fails.
SomebodyInCharge ==
    stream.started /\ Faults \cap {"stop", "timer"} = {} =>
        \/ author = "schedule" /\ schedule = "active"
        \/ author \in Clients /\ InCharge(author)

\* The flags stay a chain, whatever the clients and the schedule interleave.
StreamNested == Nested(stream)

\* The inductive invariant.
CoreInvariant == TypeOK /\ SomebodyInCharge /\ StreamNested

\* Nobody takes over a stream that is recording: it is stopped first.
OneAtATime == [][stream.started /\ stream'.started => author' = author]_vars

\* "When the duration is expired a stop recording is issued automatically"
\* (startRecording), also for the client whose recording is aborted.
RecordingEnds == \A c \in Clients : stream.started /\ author = c ~> ~stream.started

\* "The operation is not allowed during schedule execution", and a schedule
\* starts by "Stopping all pending tasks": no operation of a client stops what
\* the schedule records.  One does: no run checks this (see the findings).
ScheduleUndisturbed ==
    [][stream.started /\ author = "schedule" /\ at' # at => stream'.started]_vars
================================================================================
