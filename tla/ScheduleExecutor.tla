---------------------------- MODULE ScheduleExecutor ----------------------------
(***************************************************************************)
(* CScheduleExecutor (ScheduleExecutor.cpp): the thread that runs a        *)
(* schedule, one subscan after the other, as a switch over stages whose    *)
(* cases fall through into each other.                                     *)
(*                                                                         *)
(* runLoop() is called over and over by the thread and keeps m_mutex for   *)
(* the whole call.  A call goes through several stages (no break) or ends  *)
(* (break); pc says where the thread is:                                   *)
(*    "out"    between two calls, m_mutex is free,                         *)
(*    "in"     in the switch, about to execute the case of the stage,      *)
(*    "armed"  in STARTTIME_WAIT, the restart event has been scheduled and *)
(*             m_goAhead has not been cleared yet.                         *)
(* Commands and the stop event of the timer take m_mutex.  The callback of *)
(* the parser and the restart event do not: they write m_goAhead at any    *)
(* time.                                                                   *)
(*                                                                         *)
(* The telescope, the recorder, the timer and the parser are environment:  *)
(* Faults names the classes of failures an instance lets them have.        *)
(***************************************************************************)
EXTENDS ScheduleList, StreamOps

CONSTANTS
    Times,      \* the times events can be scheduled at (bounds the timer)
    NoTime,     \* a zero m_lastScheduledTime
    MaxQueue,   \* bounds the commands waiting in the parser
    Faults

FaultClasses == {"refuse", "check", "telescope", "close", "backend", "recorder",
                 "stop", "late", "timer", "command"}

\* A single subscan LST schedule reads past the end of the list, see
\* SubScanSelection.
ASSUME ExecutorAssumption ==
    /\ Mode = "LST" => Len(SubScans) > 1
    /\ NoTime \notin Times
    /\ MaxQueue \in Nat
    /\ Faults \subseteq FaultClasses

VARIABLES
    stage,              \* m_stage
    pc,
    goAhead,            \* m_goAhead
    stopMe,             \* m_stopMe
    haltMe,             \* m_haltMe
    active,             \* isScheduleActive(), and the thread is not suspended
    counter,            \* m_scheduleCounter, m_currentScan.counter
    rewind,             \* m_currentScan.rewind
    scheduleRewound,    \* m_scheduleRewound
    firstSubScan,       \* m_firstSubScan
    startSubScan,       \* m_startSubScan
    scansCounter,       \* m_scansCounter, 1 stands for any positive value
    repetition,         \* m_repetition, counted when it is compared only
    lastScanID,         \* m_lastScanID
    subScanDone,        \* m_subScanDone
    scanStopError,      \* m_scanStopError
    startTimeSet,       \* m_startRecordTime > 0
    currentBackend,     \* m_currentBackendProcedure
    stream,             \* the stream flags of the core
    telescope,          \* m_subScanStarted of the core
    status,             \* m_schedulerStatus of the core: 0 ok, 1 warning, 2 failure
    tracking,           \* isTracking()
    closeTimer,         \* m_closeScanTimer is in the future
    recorderBusy,       \* the recorder still has data in its cache
    timer,              \* the events of m_timer
    lastScheduled,      \* m_lastScheduledTime
    parserQueue         \* the commands of m_parser that have a callback

control   == <<goAhead, stopMe, haltMe, active>>
position  == <<counter, rewind, scheduleRewound, firstSubScan, startSubScan, scansCounter,
               repetition, lastScanID>>
recording == <<subScanDone, scanStopError, startTimeSet, currentBackend, stream>>
site      == <<telescope, tracking, closeTimer, recorderBusy>>
timing    == <<timer, lastScheduled>>

vars == <<stage, pc, control, position, recording, site, timing, parserQueue, status>>

Stages == {"LIMBO", "INIT", "STARTTIME_WAIT", "SCAN_SELECTION", "SCAN_CHECK",
           "SCAN_PREPARATION", "WRITING_INITIALIZATION", "PRE_SCAN_PROC", "SCAN_START",
           "STOP_SCHEDULING", "SCAN_EXECUTION", "POST_SCAN_PROC", "SCAN_CLOSEUP",
           "CLOSEUP_WAIT", "RECORDING_FINALIZE"}

Handlers == {"stop", "restart"}
Events == [at : Times, handler : Handlers]

\* A command of the procedure of a stage; last: it is the last command of the
\* procedure; failed: it raised, the second of its two callbacks is due.
Slots == {"init", "pre", "post"}
Commands == [slot : Slots, last : BOOLEAN, failed : BOOLEAN]

Backends == {"", Null, "b1", "b2"}

TypeOK ==
    /\ stage \in Stages
    /\ pc \in {"out", "in", "armed"}
    /\ goAhead \in BOOLEAN /\ stopMe \in BOOLEAN /\ haltMe \in BOOLEAN /\ active \in BOOLEAN
    /\ counter \in {0} \cup Counters
    /\ rewind \in BOOLEAN
    /\ scheduleRewound \in BOOLEAN
    /\ firstSubScan \in {0} \cup Counters
    /\ startSubScan \in {0} \cup Counters
    /\ scansCounter \in {-1, 0, 1}
    /\ repetition \in Nat
    /\ lastScanID \in Nat
    /\ subScanDone \in BOOLEAN
    /\ scanStopError \in BOOLEAN
    /\ startTimeSet \in BOOLEAN
    /\ currentBackend \in Backends
    /\ stream \in Flags
    /\ telescope \in BOOLEAN
    /\ status \in 0 .. 2
    /\ tracking \in BOOLEAN
    /\ closeTimer \in BOOLEAN
    /\ recorderBusy \in BOOLEAN
    /\ timer \subseteq Events
    /\ lastScheduled \in Times \cup {NoTime}
    /\ parserQueue \in Seq(Commands)

\* initialize().  m_startRecordTime is not initialized.
Init ==
    /\ stage = "INIT"
    /\ pc = "out"
    /\ goAhead = TRUE
    /\ stopMe = FALSE
    /\ haltMe = FALSE
    /\ active = FALSE
    /\ counter = 0
    /\ rewind = FALSE
    /\ scheduleRewound = FALSE
    /\ firstSubScan = 0
    /\ startSubScan = 0
    /\ scansCounter = -1
    /\ repetition = 0
    /\ lastScanID = 0
    /\ subScanDone = FALSE
    /\ scanStopError = FALSE
    /\ startTimeSet \in BOOLEAN
    /\ currentBackend = ""
    /\ stream = NoStream
    /\ telescope = FALSE
    /\ status = 0
    /\ tracking = FALSE
    /\ closeTimer = FALSE
    /\ recorderBusy = FALSE
    /\ timer = {}
    /\ lastScheduled = NoTime
    /\ parserQueue = <<>>

--------------------------------------------------------------------------------
(* What the calls of the executor can come back with.                      *)

current == SubScans[counter]

Raise(level) == IF level > status THEN level ELSE status

Possible(outcomes, fault) == {o \in outcomes : fault \in Faults \/ Succeeds(o)}

Disabled(f) == Possible(DisableOutcomes(f), "recorder")

\* Mutant: the flag of the subscan stays up.
ClosedHalfway(tel) == {[telescope |-> tel, later |-> FALSE, failed |-> FALSE]}

\* CCore::closeScan(false): nothing to do without a subscan on the telescope;
\* a call that raises leaves the flag up.  later: the subsystems ask for time.
Closed(tel) ==
    IF ~tel
    THEN {[telescope |-> FALSE, later |-> FALSE, failed |-> FALSE]}
    ELSE {[telescope |-> FALSE, later |-> l, failed |-> FALSE] : l \in BOOLEAN}
         \cup When("close" \in Faults, [telescope |-> TRUE, later |-> FALSE, failed |-> TRUE])

\* Mutant: the event is not cancelled.
NothingCancelled == timer

\* CCore::cancelTimerEvent(m_lastScheduledTime)
Remaining == {e \in timer : e.at # lastScheduled}

\* CCore::addTimerEvent, at a time of its own.
AddEvent(events, handler) ==
    \E at \in Times \ {e.at : e \in events} :
        /\ timer' = events \cup {[at |-> at, handler |-> handler]}
        /\ lastScheduled' = at

TimerRefuses == "timer" \in Faults

(* The two ways out of a failure.                                          *)

\* cleanSchedule(), once the timer is left with these events, the stream has
\* these flags and the telescope this one: it forgets the schedule and
\* suspends the thread.
CleanSchedule(events, f, tel) ==
    /\ timer' = events
    /\ lastScheduled' = NoTime
    /\ \E o \in Disabled(f) : stream' = o.flags
    /\ \E c \in Closed(tel) : telescope' = c.telescope
    /\ closeTimer' = FALSE
    /\ currentBackend' = ""
    /\ counter' = 0
    /\ lastScanID' = 0
    /\ stage' = "LIMBO"
    /\ firstSubScan' = 0
    /\ startSubScan' = 0
    /\ repetition' = 0
    /\ scansCounter' = -1
    /\ subScanDone' = FALSE
    /\ scanStopError' = FALSE
    /\ goAhead' = FALSE
    /\ stopMe' = FALSE
    /\ haltMe' = FALSE
    /\ active' = FALSE
    /\ pc' = "out"
    /\ UNCHANGED <<rewind, startTimeSet, recorderBusy, parserQueue>>

\* The part of cleanScan() before the restart event.
AbandonSubScan(f, tel, scanID) ==
    /\ stream' = f
    /\ telescope' = tel
    /\ closeTimer' = FALSE
    /\ currentBackend' = ""
    /\ stage' = "SCAN_SELECTION"
    /\ subScanDone' = FALSE
    /\ scanStopError' = FALSE
    /\ pc' = "out"
    /\ lastScanID' = scanID
    /\ UNCHANGED <<stopMe, haltMe, active, counter, rewind, firstSubScan, startSubScan,
                   scansCounter, repetition, startTimeSet, recorderBusy, parserQueue>>

\* cleanScan(): in LST mode the next selection follows at once, in the other
\* modes a restart event gives the system time to recover.
CleanScan(f, tel, scanID) ==
    \E o \in Disabled(f), c \in Closed(tel) :
        \/ /\ Mode = "LST"
           /\ AbandonSubScan(o.flags, c.telescope, scanID)
           /\ timer' = Remaining
           /\ lastScheduled' = NoTime
           /\ UNCHANGED goAhead
        \/ /\ Mode # "LST"
           /\ AbandonSubScan(o.flags, c.telescope, scanID)
           /\ AddEvent(Remaining, "restart")
           /\ goAhead' = FALSE
        \/ /\ Mode # "LST"
           /\ TimerRefuses
           /\ CleanSchedule(Remaining, o.flags, c.telescope)

(* Procedures.                                                             *)

Command(slot, last) == [slot |-> slot, last |-> last, failed |-> FALSE]

\* The commands with a callback that CParser::runAsync queues: the last one of
\* the procedure, and the last one of a procedure nested in it.
Queued(slot, kind) ==
    IF kind = "queued" THEN <<Command(slot, TRUE)>>
    ELSE IF kind = "nested" THEN <<Command(slot, FALSE), Command(slot, TRUE)>>
    ELSE <<>>

Rejected(kind) == kind \in {"unknown", "broken"}

\* Mutant: a procedure that is refused is not answered.
AnsweredOnSuccess(kind) == kind = "empty"

\* An empty body and an invalid one are answered before runAsync returns, an
\* unknown name is not.
Answered(kind) == kind \in {"empty", "broken"}

\* CCore::executeProcedure, called with this value of m_goAhead.
ExecuteProcedure(slot, kind, go) ==
    /\ Len(parserQueue) + Len(Queued(slot, kind)) <= MaxQueue
    /\ parserQueue' = parserQueue \o Queued(slot, kind)
    /\ goAhead' = (go \/ Answered(kind))
    /\ status' = IF Rejected(kind) THEN Raise(1) ELSE status

\* A blocking procedure: the call ends if the procedure was accepted.
RunBlocking(slot, kind, next) ==
    /\ ExecuteProcedure(slot, kind, FALSE)
    /\ stage' = next
    /\ pc' = IF Rejected(kind) THEN "in" ELSE "out"

RunNonBlocking(slot, kind, next) ==
    /\ ExecuteProcedure(slot, kind, goAhead)
    /\ stage' = next
    /\ UNCHANGED pc

--------------------------------------------------------------------------------
(* runLoop()                                                               *)

At(s) == pc = "in" /\ stage = s
Continue(next) == stage' = next /\ UNCHANGED pc
Break(next) == stage' = next /\ pc' = "out"

\* Mutant: the stop is not looked at first.
EnterAnyway ==
    /\ pc = "out"
    /\ active
    /\ goAhead
    /\ pc' = "in"
    /\ UNCHANGED <<stage, control, position, recording, site, timing, parserQueue, status>>

Enter ==
    /\ pc = "out"
    /\ active
    /\ ~stopMe
    /\ goAhead
    /\ pc' = "in"
    /\ UNCHANGED <<stage, control, position, recording, site, timing, parserQueue, status>>

StopRequested ==
    /\ pc = "out"
    /\ active
    /\ stopMe
    /\ CleanSchedule(Remaining, stream, telescope)
    /\ UNCHANGED <<scheduleRewound, tracking, status>>

RunInitProc ==
    /\ At("INIT")
    /\ IF InitProc = Null
       THEN Continue("STARTTIME_WAIT") /\ UNCHANGED <<goAhead, parserQueue, status>>
       ELSE RunBlocking("init", InitProc, "STARTTIME_WAIT")
    /\ UNCHANGED <<stopMe, haltMe, active, position, recording, site, timing>>

WaitStartTime ==
    /\ At("STARTTIME_WAIT")
    /\ \/ /\ Mode # "TIMETAGGED"
          /\ Continue("SCAN_SELECTION")
          /\ UNCHANGED timing
       \/ /\ Mode = "TIMETAGGED"
          /\ AddEvent(timer, "restart")
          /\ pc' = "armed"
          /\ UNCHANGED stage
    /\ UNCHANGED <<control, position, recording, site, parserQueue, status>>

StartTimeRefused ==
    /\ At("STARTTIME_WAIT")
    /\ Mode = "TIMETAGGED"
    /\ TimerRefuses
    /\ CleanSchedule(timer, stream, telescope)
    /\ status' = Raise(2)
    /\ UNCHANGED <<scheduleRewound, tracking>>

\* The rest of STARTTIME_WAIT: the restart event may have fired already.
Suspend ==
    /\ pc = "armed"
    /\ goAhead' = FALSE
    /\ Break("SCAN_SELECTION")
    /\ UNCHANGED <<stopMe, haltMe, active, position, recording, site, timing, parserQueue, status>>

\* Mutant: the halt is taken off and nothing stops.
HaltForgotten ==
    /\ At("SCAN_SELECTION")
    /\ haltMe
    /\ haltMe' = FALSE
    /\ Break("SCAN_SELECTION")
    /\ UNCHANGED <<goAhead, stopMe, active, position, recording, site, timing, parserQueue, status>>

HaltHere ==
    /\ At("SCAN_SELECTION")
    /\ haltMe
    /\ stopMe' = TRUE
    /\ Break("SCAN_SELECTION")
    /\ UNCHANGED <<goAhead, haltMe, active, position, recording, site, timing, parserQueue, status>>

SelectSubScan ==
    /\ At("SCAN_SELECTION")
    /\ ~haltMe
    /\ \E next \in Selections(counter) :
          /\ counter' = next.counter
          /\ rewind' = next.rewind
          /\ scheduleRewound' = (scheduleRewound \/ (firstSubScan # 0 /\ next.rewind))
    /\ subScanDone' = FALSE
    /\ Continue("SCAN_CHECK")
    /\ UNCHANGED <<control, firstSubScan, startSubScan, scansCounter, repetition, lastScanID,
                   scanStopError, startTimeSet, currentBackend, stream, site, timing, parserQueue, status>>

CheckFails ==
    /\ At("SCAN_CHECK")
    /\ "check" \in Faults
    /\ CleanScan(stream, telescope, lastScanID)
    /\ status' = Raise(2)
    /\ UNCHANGED <<scheduleRewound, tracking>>

\* checkScan refuses the subscan: too late, or out of the elevation limits.
NoScansDone == startSubScan = counter /\ scansCounter = 0

SkipSubScan ==
    /\ At("SCAN_CHECK")
    /\ "refuse" \in Faults
    /\ ~NoScansDone
    /\ scansCounter' = IF scansCounter = -1 THEN 0 ELSE scansCounter
    /\ Break("SCAN_SELECTION")
    /\ UNCHANGED <<control, counter, rewind, scheduleRewound, firstSubScan, startSubScan, repetition,
                   lastScanID, recording, site, timing, parserQueue, status>>

GiveUp ==
    /\ At("SCAN_CHECK")
    /\ "refuse" \in Faults
    /\ NoScansDone
    /\ CleanSchedule(Remaining, stream, telescope)
    /\ UNCHANGED <<scheduleRewound, tracking, status>>

RepetitionDone == firstSubScan <= counter /\ scheduleRewound

LastRepetition ==
    /\ RepetitionDone
    /\ Mode = "LST"
    /\ Reps > 0
    /\ repetition + 1 >= Reps

AcceptSubScan ==
    /\ At("SCAN_CHECK")
    /\ ~LastRepetition
    /\ IF RepetitionDone
       THEN /\ scansCounter' = 0
            /\ scheduleRewound' = FALSE
            /\ repetition' = IF Mode = "LST" /\ Reps > 0 THEN repetition + 1 ELSE repetition
       ELSE /\ scansCounter' = IF scansCounter = -1 THEN 0 ELSE scansCounter
            /\ UNCHANGED <<scheduleRewound, repetition>>
    /\ firstSubScan' = IF firstSubScan = 0 THEN counter ELSE firstSubScan
    /\ Continue("SCAN_PREPARATION")
    /\ UNCHANGED <<control, counter, rewind, startSubScan, lastScanID, recording, site, timing,
                   parserQueue, status>>

CompleteSchedule ==
    /\ At("SCAN_CHECK")
    /\ LastRepetition
    /\ CleanSchedule(Remaining, stream, telescope)
    /\ scheduleRewound' = FALSE
    /\ UNCHANGED <<tracking, status>>

\* clearTracking() and doScan().
CommandSubScan ==
    /\ At("SCAN_PREPARATION")
    /\ tracking' = FALSE
    /\ telescope' = TRUE
    /\ closeTimer' = FALSE
    /\ Continue("WRITING_INITIALIZATION")
    /\ UNCHANGED <<control, position, recording, recorderBusy, timing, parserQueue, status>>

CommandFails ==
    /\ At("SCAN_PREPARATION")
    /\ "telescope" \in Faults
    /\ tracking' = FALSE
    /\ CleanScan(stream, TRUE, lastScanID)
    /\ status' = Raise(2)
    /\ UNCHANGED scheduleRewound

\* prepareFileWriting(): the previous scan is closed on the recorder when
\* another one starts or the schedule was rewound.
ScanChanges == lastScanID # 0 /\ (lastScanID # current.scan \/ rewind)

PreviousClosed == IF ScanChanges THEN Disabled(stream) ELSE {Outcome(stream, Nothing)}

PrepareRecording ==
    /\ At("WRITING_INITIALIZATION")
    /\ NormalRecording(current)
    /\ \E o \in PreviousClosed :
          /\ Succeeds(o)
          /\ \E e \in EnableOutcomes(o.flags) : Succeeds(e) /\ stream' = e.flags
    /\ currentBackend' = current.bck
    /\ Continue("PRE_SCAN_PROC")
    /\ UNCHANGED <<control, position, subScanDone, scanStopError, startTimeSet, site, timing,
                   parserQueue, status>>

PrepareWithoutRecording ==
    /\ At("WRITING_INITIALIZATION")
    /\ ~NormalRecording(current)
    /\ \E o \in PreviousClosed : Succeeds(o) /\ stream' = o.flags
    /\ currentBackend' = Null
    /\ Continue("PRE_SCAN_PROC")
    /\ UNCHANGED <<control, position, subScanDone, scanStopError, startTimeSet, site, timing,
                   parserQueue, status>>

\* The flags prepareFileWriting() can fail with: the previous scan could not be
\* closed, the backend could not be chosen or configured, the transfer could
\* not be enabled.
FailedPreparations ==
    {o.flags : o \in {c \in PreviousClosed : ~Succeeds(c)}}
    \cup UNION {IF NormalRecording(current) /\ "backend" \in Faults
                THEN {o.flags} \cup {e.flags : e \in {x \in EnableOutcomes(o.flags) : ~Succeeds(x)}}
                ELSE {} : o \in {c \in PreviousClosed : Succeeds(c)}}

PreparationFails ==
    /\ At("WRITING_INITIALIZATION")
    /\ \E f \in FailedPreparations : CleanScan(f, telescope, lastScanID)
    /\ status' = Raise(2)
    /\ UNCHANGED <<scheduleRewound, tracking>>

RunPreScan ==
    /\ At("PRE_SCAN_PROC")
    /\ IF current.pre = Null
       THEN Continue("SCAN_START") /\ UNCHANGED <<goAhead, parserQueue, status>>
       ELSE IF current.preSync THEN RunBlocking("pre", current.pre, "SCAN_START")
                               ELSE RunNonBlocking("pre", current.pre, "SCAN_START")
    /\ UNCHANGED <<stopMe, haltMe, active, position, recording, site, timing>>

\* The subscan has a start time: in LST mode from its sidereal time (getNextScan), in
\* the others from checkScan(), if it is on-the-fly.
Timed == Mode = "LST" \/ current.otf

\* Without a start time the subscan starts on source.
AwaitTracking ==
    /\ At("SCAN_START")
    /\ ~Timed
    /\ ~tracking
    /\ Break("SCAN_START")
    /\ UNCHANGED <<control, position, recording, site, timing, parserQueue, status>>

\* With one it is skipped when the time is over.
SkipLate ==
    /\ At("SCAN_START")
    /\ Timed
    /\ "late" \in Faults
    /\ Break("STOP_SCHEDULING")
    /\ UNCHANGED <<control, position, recording, site, timing, parserQueue, status>>

Ready == Timed \/ tracking

StartRecording ==
    /\ At("SCAN_START")
    /\ Ready
    /\ NormalRecording(current)
    /\ \E o \in StartOutcomes(stream) : Succeeds(o) /\ stream' = o.flags
    /\ startTimeSet' = TRUE
    /\ scanStopError' = FALSE
    /\ recorderBusy' = TRUE
    /\ Continue("STOP_SCHEDULING")
    /\ UNCHANGED <<control, position, subScanDone, currentBackend, telescope, tracking, closeTimer,
                   timing, parserQueue, status>>

\* No recording, or a dry run.
StartWithoutRecording ==
    /\ At("SCAN_START")
    /\ Ready
    /\ ~NormalRecording(current)
    /\ startTimeSet' = DryRun(current)
    /\ scanStopError' = FALSE
    /\ Continue("STOP_SCHEDULING")
    /\ UNCHANGED <<control, position, subScanDone, currentBackend, stream, site, timing, parserQueue,
                   status>>

StartFails ==
    /\ At("SCAN_START")
    /\ Ready
    /\ NormalRecording(current)
    /\ \E o \in StartOutcomes(stream) :
          /\ ~Succeeds(o)
          /\ o.failed \in {"setup", "unstarted"} \/ "backend" \in Faults
          /\ CleanScan(o.flags, telescope, lastScanID)
    /\ status' = Raise(2)
    /\ UNCHANGED <<scheduleRewound, tracking>>

\* A stop event for what was started.  stopRecordingEventHandler and
\* stopDryRecordingEventHandler both call stopRecording().
StopIsDue == stream.started \/ startTimeSet

ScheduleStop ==
    /\ At("STOP_SCHEDULING")
    /\ StopIsDue
    /\ AddEvent(timer, "stop")
    /\ Continue("SCAN_EXECUTION")
    /\ UNCHANGED <<control, position, recording, site, parserQueue, status>>

StopRefused ==
    /\ At("STOP_SCHEDULING")
    /\ StopIsDue
    /\ TimerRefuses
    /\ CleanSchedule(timer, stream, telescope)
    /\ status' = Raise(2)
    /\ UNCHANGED <<scheduleRewound, tracking>>

NothingToStop ==
    /\ At("STOP_SCHEDULING")
    /\ ~StopIsDue
    /\ subScanDone' = TRUE
    /\ Continue("SCAN_EXECUTION")
    /\ UNCHANGED <<control, position, scanStopError, startTimeSet, currentBackend, stream, site, timing,
                   parserQueue, status>>

AwaitCompletion ==
    /\ At("SCAN_EXECUTION")
    /\ ~subScanDone
    /\ Break("SCAN_EXECUTION")
    /\ UNCHANGED <<control, position, recording, site, timing, parserQueue, status>>

Complete ==
    /\ At("SCAN_EXECUTION")
    /\ subScanDone
    /\ ~scanStopError
    /\ lastScanID' = current.scan
    /\ Continue("POST_SCAN_PROC")
    /\ UNCHANGED <<control, counter, rewind, scheduleRewound, firstSubScan, startSubScan, scansCounter,
                   repetition, recording, site, timing, parserQueue, status>>

StopFailed ==
    /\ At("SCAN_EXECUTION")
    /\ subScanDone
    /\ scanStopError
    /\ CleanScan(stream, telescope, current.scan)
    /\ status' = Raise(2)
    /\ UNCHANGED <<scheduleRewound, tracking>>

RunPostScan ==
    /\ At("POST_SCAN_PROC")
    /\ IF current.post = Null
       THEN Continue("SCAN_CLOSEUP") /\ UNCHANGED <<goAhead, parserQueue, status>>
       ELSE IF current.postSync THEN RunBlocking("post", current.post, "SCAN_CLOSEUP")
                                ELSE RunNonBlocking("post", current.post, "SCAN_CLOSEUP")
    /\ UNCHANGED <<stopMe, haltMe, active, position, recording, site, timing>>

CloseSubScan ==
    /\ At("SCAN_CLOSEUP")
    /\ \E c \in Closed(telescope) :
          /\ ~c.failed
          /\ telescope' = c.telescope
          /\ closeTimer' = c.later
    /\ Break("CLOSEUP_WAIT")
    /\ UNCHANGED <<control, position, recording, tracking, recorderBusy, timing, parserQueue, status>>

CloseFails ==
    /\ At("SCAN_CLOSEUP")
    /\ \E c \in Closed(telescope) : c.failed
    /\ CleanScan(stream, telescope, lastScanID)
    /\ status' = Raise(2)
    /\ UNCHANGED <<scheduleRewound, tracking>>

AwaitClosing ==
    /\ At("CLOSEUP_WAIT")
    /\ IF closeTimer THEN Break("CLOSEUP_WAIT") ELSE Continue("RECORDING_FINALIZE")
    /\ UNCHANGED <<control, position, recording, site, timing, parserQueue, status>>

\* checkRecording() is asked only if something was recorded; when it raises the
\* executor goes on with a warning.
FinalizeRecording ==
    /\ At("RECORDING_FINALIZE")
    /\ \/ /\ NormalRecording(current)
          /\ recorderBusy
          /\ Break("RECORDING_FINALIZE")
          /\ UNCHANGED status
       \/ /\ NormalRecording(current) => ~recorderBusy
          /\ Break("SCAN_SELECTION")
          /\ UNCHANGED status
       \/ /\ NormalRecording(current)
          /\ "recorder" \in Faults
          /\ Break("SCAN_SELECTION")
          /\ status' = Raise(1)
    /\ UNCHANGED <<control, position, recording, site, timing, parserQueue>>

RunLoop ==
    \/ Enter \/ StopRequested
    \/ RunInitProc
    \/ WaitStartTime \/ StartTimeRefused \/ Suspend
    \/ HaltHere \/ SelectSubScan
    \/ CheckFails \/ SkipSubScan \/ GiveUp \/ AcceptSubScan \/ CompleteSchedule
    \/ CommandSubScan \/ CommandFails
    \/ PrepareRecording \/ PrepareWithoutRecording \/ PreparationFails
    \/ RunPreScan
    \/ AwaitTracking \/ SkipLate \/ StartRecording \/ StartWithoutRecording \/ StartFails
    \/ ScheduleStop \/ StopRefused \/ NothingToStop
    \/ AwaitCompletion \/ Complete \/ StopFailed
    \/ RunPostScan
    \/ CloseSubScan \/ CloseFails
    \/ AwaitClosing
    \/ FinalizeRecording

--------------------------------------------------------------------------------
(* The commands of the operator, which take m_mutex.                       *)

\* startSchedule(), from subscan i: with a schedule running, or a file that
\* does not exist, it changes nothing.
StartSchedule(i) ==
    /\ pc = "out"
    /\ ~active
    /\ telescope' = FALSE
    /\ counter' = i - 1
    /\ startSubScan' = i
    /\ scansCounter' = -1
    /\ status' = 0
    /\ stage' = "INIT"
    /\ goAhead' = TRUE
    /\ stopMe' = FALSE
    /\ haltMe' = FALSE
    /\ scheduleRewound' = FALSE
    /\ active' = TRUE
    /\ UNCHANGED <<pc, rewind, firstSubScan, repetition, lastScanID, recording, tracking, closeTimer,
                   recorderBusy, timing, parserQueue>>

\* closeScan(true) or the reading of the schedule fails.  The wait for the
\* subsystems can be aborted after they were closed.
StartRefused ==
    /\ pc = "out"
    /\ ~active
    /\ telescope' \in {telescope, FALSE}
    /\ status' = Raise(2)
    /\ UNCHANGED <<stage, pc, control, position, recording, tracking, closeTimer, recorderBusy, timing,
                   parserQueue>>

\* The log file cannot be changed: the exception leaves the counter behind.
StartWithoutLog(i) ==
    /\ pc = "out"
    /\ ~active
    /\ telescope' = FALSE
    /\ counter' = i - 1
    /\ UNCHANGED <<stage, pc, control, rewind, scheduleRewound, firstSubScan, startSubScan, scansCounter,
                   repetition, lastScanID, recording, tracking, closeTimer, recorderBusy, timing,
                   parserQueue, status>>

StopSchedule(force) ==
    /\ pc = "out"
    /\ IF force THEN stopMe' = TRUE /\ UNCHANGED haltMe
                ELSE haltMe' = TRUE /\ UNCHANGED stopMe
    /\ UNCHANGED <<stage, pc, goAhead, active, position, recording, site, timing, parserQueue, status>>

Operator ==
    \/ \E i \in Counters : StartSchedule(i) \/ StartWithoutLog(i)
    \/ StartRefused
    \/ \E force \in BOOLEAN : StopSchedule(force)

--------------------------------------------------------------------------------
(* The timer and the parser threads.                                       *)

\* Mutant: the error of the stop is not kept.
StopErrorLost(o) == scanStopError

StopError(o) == scanStopError \/ ~Succeeds(o)

\* stopRecording(), called by the timer.
StopFires ==
    /\ pc = "out"
    /\ \E e \in timer :
          /\ e.handler = "stop"
          /\ timer' = timer \ {e}
    /\ lastScheduled' = NoTime
    /\ \E o \in Possible(StopOutcomes(stream), "stop") :
          /\ stream' = o.flags
          /\ scanStopError' = StopError(o)
    /\ subScanDone' = TRUE
    /\ scansCounter' = IF scansCounter < 1 THEN scansCounter + 1 ELSE scansCounter
    /\ UNCHANGED <<stage, pc, control, counter, rewind, scheduleRewound, firstSubScan, startSubScan,
                   repetition, lastScanID, startTimeSet, currentBackend, site, parserQueue, status>>

\* restartEventHandler()
RestartFires ==
    /\ \E e \in timer :
          /\ e.handler = "restart"
          /\ timer' = timer \ {e}
    /\ goAhead' = TRUE
    /\ UNCHANGED <<stage, pc, stopMe, haltMe, active, position, recording, site, lastScheduled,
                   parserQueue, status>>

\* procedureCallBack(), called by the worker of the parser: once for a command
\* that succeeds, twice (with false, then with true) for one that raises.
CommandDone ==
    /\ parserQueue # <<>>
    /\ parserQueue' = Tail(parserQueue)
    /\ goAhead' = TRUE
    /\ UNCHANGED <<stage, pc, stopMe, haltMe, active, position, recording, site, timing, status>>

CommandRaises ==
    /\ parserQueue # <<>>
    /\ "command" \in Faults
    /\ ~Head(parserQueue).failed
    /\ parserQueue' = [parserQueue EXCEPT ![1].failed = TRUE]
    /\ status' = Raise(1)
    /\ goAhead' = TRUE
    /\ UNCHANGED <<stage, pc, stopMe, haltMe, active, position, recording, site, timing>>

(* The telescope and the recorder.                                         *)

Tracks ==
    /\ ~tracking
    /\ telescope
    /\ tracking' = TRUE
    /\ UNCHANGED <<stage, pc, control, position, recording, telescope, closeTimer, recorderBusy, timing,
                   parserQueue, status>>

CloseTimeElapses ==
    /\ closeTimer
    /\ closeTimer' = FALSE
    /\ UNCHANGED <<stage, pc, control, position, recording, telescope, tracking, recorderBusy, timing,
                   parserQueue, status>>

RecorderDrains ==
    /\ recorderBusy
    /\ ~stream.started
    /\ recorderBusy' = FALSE
    /\ UNCHANGED <<stage, pc, control, position, recording, telescope, tracking, closeTimer, timing,
                   parserQueue, status>>

Next ==
    \/ RunLoop
    \/ Operator
    \/ StopFires \/ RestartFires
    \/ CommandDone \/ CommandRaises
    \/ Tracks \/ CloseTimeElapses \/ RecorderDrains

Spec == Init /\ [][Next]_vars

\* The thread, the timer and the worker of the parser keep running, and the
\* telescope and the recorder answer.  The stop event has to take m_mutex, which
\* runLoop() frees over and over: the thread sleeps between two calls.
Fairness ==
    /\ WF_vars(RunLoop)
    /\ SF_vars(StopFires)
    /\ WF_vars(RestartFires)
    /\ WF_vars(CommandDone)
    /\ WF_vars(Tracks)
    /\ WF_vars(CloseTimeElapses)
    /\ WF_vars(RecorderDrains)

FairSpec == Spec /\ Fairness

--------------------------------------------------------------------------------
(* Safety.                                                                 *)

Pending(handler) == \E e \in timer : e.handler = handler

\* Nothing records without an end: while the stream is started the executor is
\* about to schedule the stop event, or the event it will cancel by
\* m_lastScheduledTime is pending, or the stop was tried, failed, and the
\* failure is still to be seen by SCAN_EXECUTION.
NoRunawayRecording ==
    stream.started =>
        \/ stage = "STOP_SCHEDULING" /\ pc = "in"
        \/ /\ stage = "SCAN_EXECUTION"
           /\ \/ ~subScanDone /\ [at |-> lastScheduled, handler |-> "stop"] \in timer
              \/ subScanDone /\ scanStopError

\* A stop event belongs to the subscan under execution: it cannot stop, or
\* count, another one, and the executor can still cancel it.
StopEventOwned ==
    \A e \in timer : e.handler = "stop" =>
        stage = "SCAN_EXECUTION" /\ ~subScanDone /\ e.at = lastScheduled

\* Whatever fails, and wherever, the flags of the stream stay a chain: no scan
\* is open on the recorder of an unprepared stream, nothing is sent to a
\* recorder without a scan.
StreamNested == Nested(stream)

\* A subscan is commanded to the telescope only after the previous one was
\* closed on it, if closing does not fail.
TelescopeFree == "close" \notin Faults /\ At("SCAN_PREPARATION") => ~telescope

\* A waiting executor has somebody to wake it up: "the callback procedure
\* should be called anyway, also in case of errors" (runLoop, INIT and
\* PRE_SCAN_PROC).
NoOrphanWait ==
    active /\ ~goAhead /\ pc = "out" => parserQueue # <<>> \/ Pending("restart")

\* The stages that have a subscan, and those of them that come before its end
\* is known.
BeforeStop == {"SCAN_CHECK", "SCAN_PREPARATION", "WRITING_INITIALIZATION", "PRE_SCAN_PROC",
               "SCAN_START", "STOP_SCHEDULING"}
WithSubScan == BeforeStop \cup {"SCAN_EXECUTION", "POST_SCAN_PROC", "SCAN_CLOSEUP", "CLOSEUP_WAIT",
                               "RECORDING_FINALIZE"}

\* The inductive invariant: what the stage says of the thread, of the selected
\* subscan and of its end, and the safety properties that follow.
ExecutorInvariant ==
    /\ TypeOK
    /\ ~active => stage \in {"INIT", "LIMBO"} /\ pc = "out"
    /\ pc = "armed" => stage = "STARTTIME_WAIT"
    /\ stage \in WithSubScan => counter \in Counters
    /\ stage \in BeforeStop => ~subScanDone
    /\ NoRunawayRecording
    /\ StopEventOwned
    /\ StreamNested

(* Liveness.                                                               *)

\* A schedule that is told to stop, stops, whatever the executor is waiting for.
StopHonoured == active /\ stopMe ~> ~active

\* A schedule that is told to halt ends after the current subscan.
HaltHonoured == active /\ haltMe ~> ~active

\* The executor as a recording session.
Session == INSTANCE RecordingSession
              WITH running <- active, recording <- IF stream.started THEN counter ELSE 0
ImplementsSession == Session!FairSpec
================================================================================
