------------------------- MODULE ScheduleExecutorProofs -------------------------
(***************************************************************************)
(* The safety of the executor for every schedule, every set of faults and  *)
(* every bound.  ExecutorInvariant is inductive; WaitInvariant, which says *)
(* who has closed the telescope and who will wake the executor, is         *)
(* inductive beside it.  With them every step is one of the abstract       *)
(* RecordingSession, and one that CoreRecording grants a schedule.         *)
(***************************************************************************)
EXTENDS ScheduleExecutor, StreamOpsProofs

LEMMA ListNotEmpty == Len(SubScans) \in Nat /\ Len(SubScans) > 0
BY ScheduleAssumption

LEMMA BackendNames == "" \in Backends /\ Null \in Backends /\ {"b1", "b2"} \subseteq Backends
BY DEF Backends

\* cancelTimerEvent(m_lastScheduledTime) cancels the stop event, if there is one.
LEMMA RemainingHasNoStop ==
    ASSUME StopEventOwned
    PROVE  Remaining \subseteq timer /\ \A e \in Remaining : e.handler # "stop"
BY DEF StopEventOwned, Remaining

\* closeScan leaves a flag.
LEMMA ClosedType ==
    ASSUME NEW tel \in BOOLEAN, NEW c \in Closed(tel)
    PROVE  c.telescope \in BOOLEAN /\ c.later \in BOOLEAN
<1>1. ASSUME NEW l \in BOOLEAN, c = [telescope |-> FALSE, later |-> l, failed |-> FALSE]
      PROVE  c.telescope \in BOOLEAN /\ c.later \in BOOLEAN
  BY <1>1
<1>2. CASE c = [telescope |-> TRUE, later |-> FALSE, failed |-> TRUE]
  BY <1>2
<1> QED
  BY <1>1, <1>2 DEF Closed, When

LEMMA DisabledStops ==
    ASSUME NEW f \in Flags, Nested(f), NEW o \in Disabled(f)
    PROVE  o.flags \in Flags /\ Nested(o.flags) /\ ~o.flags.started
BY DisableStops DEF Disabled, Possible

\* Whatever it is called with, cleanSchedule leaves a consistent executor.
LEMMA CleanScheduleKeeps ==
    ASSUME ExecutorInvariant,
           NEW events, events \subseteq timer, \A e \in events : e.handler # "stop",
           NEW f \in Flags, Nested(f), NEW tel \in BOOLEAN,
           CleanSchedule(events, f, tel),
           status' \in 0 .. 2, scheduleRewound' \in BOOLEAN, tracking' \in BOOLEAN
    PROVE  ExecutorInvariant'
<1>1. stream' \in Flags /\ Nested(stream') /\ ~stream'.started
  BY DisabledStops DEF CleanSchedule
<1>2. telescope' \in BOOLEAN
  BY ClosedType DEF CleanSchedule
<1>3. TypeOK'
  BY <1>1, <1>2, BackendNames DEF CleanSchedule, ExecutorInvariant, TypeOK, Stages
<1>4. NoRunawayRecording' /\ StopEventOwned' /\ StreamNested'
  BY <1>1 DEF CleanSchedule, NoRunawayRecording, StopEventOwned, StreamNested
<1> QED
  BY <1>3, <1>4 DEF CleanSchedule, ExecutorInvariant, WithSubScan, BeforeStop

\* addTimerEvent adds one event, at the time it leaves in m_lastScheduledTime.
LEMMA AddedEvent ==
    ASSUME NEW events, events \subseteq Events, NEW handler \in Handlers,
           AddEvent(events, handler)
    PROVE  /\ timer' \subseteq Events
           /\ lastScheduled' \in Times
           /\ timer' = events \cup {[at |-> lastScheduled', handler |-> handler]}
<1>1. PICK at \in Times :
          /\ timer' = events \cup {[at |-> at, handler |-> handler]}
          /\ lastScheduled' = at
  BY DEF AddEvent
<1> QED
  BY <1>1 DEF Events

\* So does cleanScan, which may end the schedule.
LEMMA CleanScanKeeps ==
    ASSUME ExecutorInvariant, active,
           NEW f \in Flags, Nested(f), NEW tel \in BOOLEAN, NEW scanID \in Nat,
           CleanScan(f, tel, scanID),
           status' \in 0 .. 2, scheduleRewound' \in BOOLEAN, tracking' \in BOOLEAN
    PROVE  ExecutorInvariant'
<1>1. PICK o \in Disabled(f), c \in Closed(tel) :
          \/ /\ AbandonSubScan(o.flags, c.telescope, scanID)
             /\ timer' = Remaining
             /\ lastScheduled' = NoTime
             /\ UNCHANGED goAhead
          \/ /\ AbandonSubScan(o.flags, c.telescope, scanID)
             /\ AddEvent(Remaining, "restart")
             /\ goAhead' = FALSE
          \/ CleanSchedule(Remaining, o.flags, c.telescope)
  BY DEF CleanScan
<1>2. o.flags \in Flags /\ Nested(o.flags) /\ ~o.flags.started
  BY DisabledStops
<1>3. c.telescope \in BOOLEAN
  BY ClosedType
<1>4. Remaining \subseteq timer /\ \A e \in Remaining : e.handler # "stop"
  BY RemainingHasNoStop DEF ExecutorInvariant
<1>5. ASSUME AbandonSubScan(o.flags, c.telescope, scanID),
             goAhead' \in BOOLEAN, timer' \subseteq Events, lastScheduled' \in Times \cup {NoTime},
             \A e \in timer' : e.handler # "stop"
      PROVE  ExecutorInvariant'
  <2>1. TypeOK'
    BY <1>2, <1>3, <1>5, BackendNames DEF AbandonSubScan, ExecutorInvariant, TypeOK, Stages
  <2>2. NoRunawayRecording' /\ StopEventOwned' /\ StreamNested'
    BY <1>2, <1>5 DEF AbandonSubScan, NoRunawayRecording, StopEventOwned, StreamNested
  <2> QED
    BY <1>5, <2>1, <2>2 DEF AbandonSubScan, ExecutorInvariant, WithSubScan, BeforeStop
<1>6. CASE AbandonSubScan(o.flags, c.telescope, scanID) /\ timer' = Remaining
           /\ lastScheduled' = NoTime /\ UNCHANGED goAhead
  BY <1>4, <1>5, <1>6 DEF ExecutorInvariant, TypeOK
<1>7. CASE AbandonSubScan(o.flags, c.telescope, scanID) /\ AddEvent(Remaining, "restart")
           /\ goAhead' = FALSE
  <2>1. "restart" \in Handlers /\ Remaining \subseteq Events
    BY <1>4 DEF ExecutorInvariant, TypeOK, Handlers
  <2>2. /\ timer' \subseteq Events
        /\ lastScheduled' \in Times
        /\ timer' = Remaining \cup {[at |-> lastScheduled', handler |-> "restart"]}
    BY <1>7, <2>1, AddedEvent
  <2>3. \A e \in timer' : e.handler # "stop"
    BY <1>4, <2>2
  <2> QED
    BY <1>5, <1>7, <2>2, <2>3
<1>8. CASE CleanSchedule(Remaining, o.flags, c.telescope)
  BY <1>2, <1>3, <1>4, <1>8, CleanScheduleKeeps
<1> QED
  BY <1>1, <1>6, <1>7, <1>8

--------------------------------------------------------------------------------
(* The operators the steps are made of.                                    *)

\* The next subscan is a subscan of the list.
LEMMA SelectionInList ==
    ASSUME counter \in {0} \cup Counters, NEW next \in Selections(counter)
    PROVE  next.counter \in Counters /\ next.rewind \in BOOLEAN
<1>1. CASE Mode # "LST"
  <2>1. next = NextSequential(counter)
    BY <1>1 DEF Selections
  <2> QED
    BY <2>1, ListNotEmpty DEF NextSequential, Counters
<1>2. CASE Mode = "LST"
  <2>1. PICK lst \in SiderealTimes : next \in NextSidereal(counter, lst)
    BY <1>2 DEF Selections
  <2>2. CASE \E i \in Counters : next = [counter |-> i, rewind |-> FALSE]
    BY <2>2
  <2>3. CASE next = [counter |-> IF counter = 1 THEN 2 ELSE 1, rewind |-> TRUE]
    BY <1>2, <2>3, ListNotEmpty, ExecutorAssumption DEF Counters
  <2> QED
    BY <2>1, <2>2, <2>3 DEF NextSidereal
<1> QED
  BY <1>1, <1>2

\* A subscan of the list is a record.
LEMMA CurrentType ==
    ASSUME counter \in Counters
    PROVE  /\ current.scan \in Nat
           /\ current.bck \in {Null, "b1", "b2"}
           /\ NormalRecording(current) \in BOOLEAN
           /\ DryRun(current) \in BOOLEAN
<1>1. current \in SubScanRecords
  BY ScheduleAssumption DEF current, Counters
<1> QED
  BY <1>1 DEF SubScanRecords, NormalRecording, DryRun

LEMMA RaiseType ==
    ASSUME status \in 0 .. 2, NEW level \in 0 .. 2
    PROVE  Raise(level) \in 0 .. 2
BY DEF Raise

\* The commands of a procedure.
LEMMA QueuedType ==
    ASSUME NEW slot \in Slots, NEW kind
    PROVE  Queued(slot, kind) \in Seq(Commands)
<1>1. Command(slot, TRUE) \in Commands /\ Command(slot, FALSE) \in Commands
  BY DEF Command, Commands
<1>2. CASE kind = "queued"
  BY <1>1, <1>2 DEF Queued, Command
<1>3. CASE kind = "nested"
  BY <1>1, <1>3 DEF Queued, Command
<1>4. CASE kind \notin {"queued", "nested"}
  BY <1>4 DEF Queued, Command
<1> QED
  BY <1>2, <1>3, <1>4

\* A procedure leaves the executor and the parser in good order.
LEMMA ProcedureType ==
    ASSUME parserQueue \in Seq(Commands), status \in 0 .. 2,
           NEW slot \in Slots, NEW kind, NEW go \in BOOLEAN,
           ExecuteProcedure(slot, kind, go)
    PROVE  parserQueue' \in Seq(Commands) /\ goAhead' \in BOOLEAN /\ status' \in 0 .. 2
<1>2. Queued(slot, kind) \in Seq(Commands)
  BY QueuedType
<1>3. Raise(1) \in 0 .. 2
  BY RaiseType
<1>4. goAhead' \in BOOLEAN
  BY Zenon DEF ExecuteProcedure
<1>5. parserQueue' \in Seq(Commands)
  BY <1>2 DEF ExecuteProcedure
<1>6. status' \in 0 .. 2
  BY <1>3 DEF ExecuteProcedure
<1> QED
  BY <1>4, <1>5, <1>6

--------------------------------------------------------------------------------
(* Every step keeps the invariant.                                         *)

\* The steps of runLoop that move the stage and little else.
LEMMA StageStepsKeep ==
    ASSUME ExecutorInvariant
    PROVE  \/ Enter \/ Suspend \/ HaltHere \/ SkipSubScan \/ CommandSubScan \/ AwaitTracking
           \/ SkipLate \/ NothingToStop \/ AwaitCompletion \/ AwaitClosing \/ FinalizeRecording
           => ExecutorInvariant'
<1> USE DEF ExecutorInvariant, TypeOK, NoRunawayRecording, StopEventOwned, StreamNested,
            control, position, recording, site, timing, At, Continue, Break, Stages, BeforeStop,
            WithSubScan
<1>1. ASSUME Enter PROVE ExecutorInvariant'
  BY <1>1 DEF Enter
<1>2. ASSUME Suspend PROVE ExecutorInvariant'
  <2>1. goAhead' \in BOOLEAN
    BY <1>2, Zenon DEF Suspend
  <2> QED
    BY <1>2, <2>1 DEF Suspend
<1>3. ASSUME HaltHere PROVE ExecutorInvariant'
  BY <1>3 DEF HaltHere
<1>4. ASSUME SkipSubScan PROVE ExecutorInvariant'
  BY <1>4 DEF SkipSubScan
<1>5. ASSUME CommandSubScan PROVE ExecutorInvariant'
  <2>1. tracking' \in BOOLEAN /\ closeTimer' \in BOOLEAN
    BY <1>5, Zenon DEF CommandSubScan
  <2> QED
    BY <1>5, <2>1 DEF CommandSubScan
<1>6. ASSUME AwaitTracking PROVE ExecutorInvariant'
  BY <1>6 DEF AwaitTracking
<1>7. ASSUME SkipLate PROVE ExecutorInvariant'
  BY <1>7 DEF SkipLate
<1>8. ASSUME NothingToStop PROVE ExecutorInvariant'
  BY <1>8 DEF NothingToStop, StopIsDue
<1>9. ASSUME AwaitCompletion PROVE ExecutorInvariant'
  BY <1>9 DEF AwaitCompletion
<1>10. ASSUME AwaitClosing PROVE ExecutorInvariant'
  BY <1>10 DEF AwaitClosing
<1>11. ASSUME FinalizeRecording PROVE ExecutorInvariant'
  BY <1>11 DEF FinalizeRecording, Raise
<1> QED
  BY <1>1, <1>2, <1>3, <1>4, <1>5, <1>6, <1>7, <1>8, <1>9, <1>10, <1>11

\* The selection of a subscan and the bookkeeping of the repetitions.
LEMMA SelectionKeeps ==
    ASSUME ExecutorInvariant
    PROVE  SelectSubScan \/ AcceptSubScan
           => ExecutorInvariant'
<1> USE DEF ExecutorInvariant, TypeOK, NoRunawayRecording, StopEventOwned, StreamNested,
            control, position, recording, site, timing, At, Continue, Stages, BeforeStop, WithSubScan
<1>1. ASSUME SelectSubScan PROVE ExecutorInvariant'
  <2>1. counter' \in Counters /\ rewind' \in BOOLEAN /\ scheduleRewound' \in BOOLEAN
    BY <1>1, SelectionInList DEF SelectSubScan
  <2>2. subScanDone' \in BOOLEAN
    BY <1>1, Zenon DEF SelectSubScan
  <2> QED
    BY <1>1, <2>1, <2>2 DEF SelectSubScan
<1>2. ASSUME AcceptSubScan PROVE ExecutorInvariant'
  <2>1. ASSUME RepetitionDone
        PROVE  scansCounter' \in {-1, 0, 1} /\ scheduleRewound' \in BOOLEAN /\ repetition' \in Nat
    <3>1. scansCounter' \in {-1, 0, 1} /\ repetition' \in Nat
      BY <1>2, <2>1 DEF AcceptSubScan
    <3>2. scheduleRewound' \in BOOLEAN
      BY <1>2, <2>1, Zenon DEF AcceptSubScan
    <3> QED
      BY <3>1, <3>2
  <2>2. ASSUME ~RepetitionDone
        PROVE  scansCounter' \in {-1, 0, 1} /\ scheduleRewound' \in BOOLEAN /\ repetition' \in Nat
    BY <1>2, <2>2 DEF AcceptSubScan
  <2>3. scansCounter' \in {-1, 0, 1} /\ scheduleRewound' \in BOOLEAN /\ repetition' \in Nat
    BY <2>1, <2>2
  <2>4. firstSubScan' \in {0} \cup Counters
    BY <1>2 DEF AcceptSubScan
  <2> QED
    BY <1>2, <2>3, <2>4 DEF AcceptSubScan
<1> QED
  BY <1>1, <1>2

\* The preparation and the start of the recording.
LEMMA RecordingKeeps ==
    ASSUME ExecutorInvariant
    PROVE  PrepareRecording \/ PrepareWithoutRecording \/ StartRecording \/ StartWithoutRecording
           => ExecutorInvariant'
<1> USE DEF ExecutorInvariant, TypeOK, NoRunawayRecording, StopEventOwned, StreamNested,
            control, position, recording, site, timing, At, Continue, Stages, BeforeStop, WithSubScan
<1>1. ASSUME At("WRITING_INITIALIZATION"), NEW o \in PreviousClosed
      PROVE  o.flags \in Flags /\ Nested(o.flags) /\ ~o.flags.started
  BY <1>1, DisabledStops DEF PreviousClosed, Outcome
<1>2. ASSUME PrepareRecording PROVE ExecutorInvariant'
  <2>1. stream' \in Flags /\ Nested(stream') /\ ~stream'.started
    BY <1>1, <1>2, EnableStartsNothing DEF PrepareRecording
  <2>2. currentBackend' \in Backends
    BY <1>2, CurrentType, BackendNames DEF PrepareRecording
  <2> QED
    BY <1>2, <2>1, <2>2 DEF PrepareRecording
<1>3. ASSUME PrepareWithoutRecording PROVE ExecutorInvariant'
  <2>1. stream' \in Flags /\ Nested(stream') /\ ~stream'.started
    BY <1>1, <1>3 DEF PrepareWithoutRecording
  <2>2. currentBackend' \in Backends
    BY <1>3, BackendNames DEF PrepareWithoutRecording
  <2> QED
    BY <1>3, <2>1, <2>2 DEF PrepareWithoutRecording
<1>4. ASSUME StartRecording PROVE ExecutorInvariant'
  <2>1. stream' \in Flags /\ Nested(stream')
    BY <1>4, StartKeepsChain DEF StartRecording
  <2>2. startTimeSet' \in BOOLEAN /\ scanStopError' \in BOOLEAN /\ recorderBusy' \in BOOLEAN
    BY <1>4, Zenon DEF StartRecording
  <2> QED
    BY <1>4, <2>1, <2>2 DEF StartRecording
<1>5. ASSUME StartWithoutRecording PROVE ExecutorInvariant'
  <2>1. startTimeSet' \in BOOLEAN
    BY <1>5, CurrentType DEF StartWithoutRecording
  <2>2. scanStopError' \in BOOLEAN
    BY <1>5, Zenon DEF StartWithoutRecording
  <2> QED
    BY <1>5, <2>1, <2>2 DEF StartWithoutRecording
<1> QED
  BY <1>2, <1>3, <1>4, <1>5

\* The stop event, and the end of the subscan.
LEMMA CompletionKeeps ==
    ASSUME ExecutorInvariant
    PROVE  WaitStartTime \/ ScheduleStop \/ Complete \/ CloseSubScan
           => ExecutorInvariant'
<1> USE DEF ExecutorInvariant, TypeOK, NoRunawayRecording, StopEventOwned, StreamNested,
            control, position, recording, site, timing, At, Continue, Break, Stages, BeforeStop,
            WithSubScan
<1>1. ASSUME WaitStartTime PROVE ExecutorInvariant'
  <2>1. CASE UNCHANGED timing
    BY <1>1, <2>1 DEF WaitStartTime
  <2>2. CASE AddEvent(timer, "restart") /\ pc' = "armed" /\ UNCHANGED stage
    <3>1. "restart" \in Handlers
      BY DEF Handlers
    <3>2. /\ timer' \subseteq Events /\ lastScheduled' \in Times
          /\ timer' = timer \cup {[at |-> lastScheduled', handler |-> "restart"]}
      BY <2>2, <3>1, AddedEvent
    <3>3. \A e \in timer' : e.handler = "stop" => e \in timer
      BY <3>2
    <3> QED
      BY <1>1, <2>2, <3>2, <3>3 DEF WaitStartTime
  <2> QED
    BY <1>1, <2>1, <2>2 DEF WaitStartTime
<1>2. ASSUME ScheduleStop PROVE ExecutorInvariant'
  <2>1. "stop" \in Handlers
    BY DEF Handlers
  <2>2. /\ timer' \subseteq Events /\ lastScheduled' \in Times
        /\ timer' = timer \cup {[at |-> lastScheduled', handler |-> "stop"]}
    BY <1>2, <2>1, AddedEvent DEF ScheduleStop
  <2>3. \A e \in timer' : e.handler = "stop" => e.at = lastScheduled'
    BY <1>2, <2>2 DEF ScheduleStop
  <2> QED
    BY <1>2, <2>2, <2>3 DEF ScheduleStop
<1>3. ASSUME Complete PROVE ExecutorInvariant'
  <2>1. lastScanID' \in Nat
    BY <1>3, CurrentType DEF Complete
  <2> QED
    BY <1>3, <2>1 DEF Complete
<1>4. ASSUME CloseSubScan PROVE ExecutorInvariant'
  <2>1. telescope' \in BOOLEAN /\ closeTimer' \in BOOLEAN
    BY <1>4, ClosedType DEF CloseSubScan
  <2> QED
    BY <1>4, <2>1 DEF CloseSubScan
<1> QED
  BY <1>1, <1>2, <1>3, <1>4

\* The procedures of the schedule.
LEMMA ProceduresKeep ==
    ASSUME ExecutorInvariant
    PROVE  RunInitProc \/ RunPreScan \/ RunPostScan => ExecutorInvariant'
<1> USE DEF ExecutorInvariant, TypeOK, NoRunawayRecording, StopEventOwned, StreamNested,
            control, position, recording, site, timing, At, Continue, Stages, BeforeStop, WithSubScan
<1>1. "init" \in Slots /\ "pre" \in Slots /\ "post" \in Slots
  BY DEF Slots
<1>2. ASSUME NEW slot \in Slots, NEW kind, NEW next, RunBlocking(slot, kind, next)
      PROVE  /\ parserQueue' \in Seq(Commands) /\ goAhead' \in BOOLEAN /\ status' \in 0 .. 2
             /\ stage' = next /\ pc' \in {"in", "out"}
  <2>1. ExecuteProcedure(slot, kind, FALSE)
    BY <1>2 DEF RunBlocking
  <2>2. FALSE \in BOOLEAN
    OBVIOUS
  <2>3. parserQueue' \in Seq(Commands) /\ goAhead' \in BOOLEAN /\ status' \in 0 .. 2
    BY <2>1, <2>2, ProcedureType
  <2> QED
    BY <1>2, <2>3 DEF RunBlocking
<1>3. ASSUME NEW slot \in Slots, NEW kind, NEW next, RunNonBlocking(slot, kind, next)
      PROVE  /\ parserQueue' \in Seq(Commands) /\ goAhead' \in BOOLEAN /\ status' \in 0 .. 2
             /\ stage' = next /\ pc' = pc
  BY <1>3, ProcedureType DEF RunNonBlocking
<1>4. ASSUME RunInitProc PROVE ExecutorInvariant'
  <2>1. /\ parserQueue' \in Seq(Commands) /\ goAhead' \in BOOLEAN /\ status' \in 0 .. 2
        /\ stage' = "STARTTIME_WAIT" /\ pc' \in {"in", "out"}
    BY <1>1, <1>2, <1>4 DEF RunInitProc
  <2> QED
    BY <1>4, <2>1 DEF RunInitProc
<1>5. ASSUME RunPreScan PROVE ExecutorInvariant'
  <2>1. /\ parserQueue' \in Seq(Commands) /\ goAhead' \in BOOLEAN /\ status' \in 0 .. 2
        /\ stage' = "SCAN_START" /\ pc' \in {"in", "out"}
    BY <1>1, <1>2, <1>3, <1>5 DEF RunPreScan
  <2> QED
    BY <1>5, <2>1 DEF RunPreScan
<1>6. ASSUME RunPostScan PROVE ExecutorInvariant'
  <2>1. /\ parserQueue' \in Seq(Commands) /\ goAhead' \in BOOLEAN /\ status' \in 0 .. 2
        /\ stage' = "SCAN_CLOSEUP" /\ pc' \in {"in", "out"}
    BY <1>1, <1>2, <1>3, <1>6 DEF RunPostScan
  <2> QED
    BY <1>6, <2>1 DEF RunPostScan
<1> QED
  BY <1>4, <1>5, <1>6

\* The steps that end the schedule.
LEMMA EndOfScheduleKeeps ==
    ASSUME ExecutorInvariant
    PROVE  StopRequested \/ StartTimeRefused \/ GiveUp \/ CompleteSchedule \/ StopRefused
           => ExecutorInvariant'
<1> USE DEF ExecutorInvariant
<1>1. /\ stream \in Flags /\ Nested(stream) /\ telescope \in BOOLEAN
      /\ status \in 0 .. 2 /\ scheduleRewound \in BOOLEAN /\ tracking \in BOOLEAN
      /\ Raise(2) \in 0 .. 2
  BY RaiseType DEF TypeOK, StreamNested
<1>2. Remaining \subseteq timer /\ \A e \in Remaining : e.handler # "stop"
  BY RemainingHasNoStop
<1>3. stage # "SCAN_EXECUTION" => \A e \in timer : e.handler # "stop"
  BY DEF StopEventOwned
<1>4. ASSUME StopRequested PROVE ExecutorInvariant'
  BY <1>1, <1>2, <1>4, CleanScheduleKeeps DEF StopRequested
<1>5. ASSUME StartTimeRefused PROVE ExecutorInvariant'
  BY <1>1, <1>3, <1>5, CleanScheduleKeeps DEF StartTimeRefused, At
<1>6. ASSUME GiveUp PROVE ExecutorInvariant'
  BY <1>1, <1>2, <1>6, CleanScheduleKeeps DEF GiveUp
<1>7. ASSUME CompleteSchedule PROVE ExecutorInvariant'
  <2>1. scheduleRewound' \in BOOLEAN
    BY <1>7, Zenon DEF CompleteSchedule
  <2> QED
    BY <1>1, <1>2, <1>7, <2>1, CleanScheduleKeeps DEF CompleteSchedule
<1>8. ASSUME StopRefused PROVE ExecutorInvariant'
  BY <1>1, <1>3, <1>8, CleanScheduleKeeps DEF StopRefused, At
<1> QED
  BY <1>4, <1>5, <1>6, <1>7, <1>8

\* A preparation that fails leaves a chain of flags.
LEMMA FailedPreparationChain ==
    ASSUME stream \in Flags, Nested(stream), NEW f \in FailedPreparations
    PROVE  f \in Flags /\ Nested(f)
<1>1. ASSUME NEW o \in PreviousClosed
      PROVE  o.flags \in Flags /\ Nested(o.flags)
  BY DisabledStops DEF PreviousClosed, Outcome
<1>2. ASSUME NEW o \in PreviousClosed, NEW e \in EnableOutcomes(o.flags)
      PROVE  e.flags \in Flags /\ Nested(e.flags)
  BY <1>1, EnableStartsNothing
<1>3. \/ \E o \in PreviousClosed : f = o.flags
      \/ \E o \in PreviousClosed : \E e \in EnableOutcomes(o.flags) : f = e.flags
  BY DEF FailedPreparations
<1> QED
  BY <1>1, <1>2, <1>3

\* The steps that abandon the subscan.
LEMMA AbandonedSubScanKeeps ==
    ASSUME ExecutorInvariant
    PROVE  CheckFails \/ CommandFails \/ PreparationFails \/ StartFails \/ StopFailed \/ CloseFails
           => ExecutorInvariant'
<1> USE DEF ExecutorInvariant
<1>1. /\ stream \in Flags /\ Nested(stream) /\ telescope \in BOOLEAN /\ lastScanID \in Nat
      /\ scheduleRewound \in BOOLEAN /\ tracking \in BOOLEAN /\ Raise(2) \in 0 .. 2
  BY RaiseType DEF TypeOK, StreamNested
<1>2. pc = "in" => active
  OBVIOUS
<1>3. ASSUME CheckFails PROVE ExecutorInvariant'
  BY <1>1, <1>2, <1>3, CleanScanKeeps DEF CheckFails, At
<1>4. ASSUME CommandFails PROVE ExecutorInvariant'
  <2>1. tracking' \in BOOLEAN
    BY <1>4, Zenon DEF CommandFails
  <2>2. TRUE \in BOOLEAN
    OBVIOUS
  <2> QED
    BY <1>1, <1>2, <1>4, <2>1, <2>2, CleanScanKeeps DEF CommandFails, At
<1>5. ASSUME PreparationFails PROVE ExecutorInvariant'
  <2>1. PICK f \in FailedPreparations : CleanScan(f, telescope, lastScanID)
    BY <1>5 DEF PreparationFails
  <2>2. f \in Flags /\ Nested(f)
    BY <1>1, FailedPreparationChain
  <2> QED
    BY <1>1, <1>2, <1>5, <2>1, <2>2, CleanScanKeeps DEF PreparationFails, At
<1>6. ASSUME StartFails PROVE ExecutorInvariant'
  <2>1. PICK o \in StartOutcomes(stream) : CleanScan(o.flags, telescope, lastScanID)
    BY <1>6 DEF StartFails
  <2>2. o.flags \in Flags /\ Nested(o.flags)
    BY <1>1, StartKeepsChain
  <2> QED
    BY <1>1, <1>2, <1>6, <2>1, <2>2, CleanScanKeeps DEF StartFails, At
<1>7. ASSUME StopFailed PROVE ExecutorInvariant'
  <2>1. current.scan \in Nat
    BY <1>7, CurrentType DEF StopFailed, At, WithSubScan
  <2> QED
    BY <1>1, <1>2, <1>7, <2>1, CleanScanKeeps DEF StopFailed, At
<1>8. ASSUME CloseFails PROVE ExecutorInvariant'
  BY <1>1, <1>2, <1>8, CleanScanKeeps DEF CloseFails, At
<1> QED
  BY <1>3, <1>4, <1>5, <1>6, <1>7, <1>8

\* The commands of the operator.
LEMMA OperatorKeeps ==
    ASSUME ExecutorInvariant
    PROVE  Operator => ExecutorInvariant'
<1> USE DEF ExecutorInvariant, TypeOK, NoRunawayRecording, StopEventOwned, StreamNested,
            control, position, recording, site, timing, Stages, BeforeStop, WithSubScan
<1>1. ASSUME NEW i \in Counters, StartSchedule(i) PROVE ExecutorInvariant'
  <2>1. /\ telescope' \in BOOLEAN /\ goAhead' \in BOOLEAN /\ stopMe' \in BOOLEAN /\ haltMe' \in BOOLEAN
        /\ scheduleRewound' \in BOOLEAN /\ active' \in BOOLEAN
    BY <1>1, Zenon DEF StartSchedule
  <2>2. counter' \in {0} \cup Counters /\ startSubScan' \in {0} \cup Counters
    BY <1>1, ListNotEmpty DEF StartSchedule, Counters
  <2> QED
    BY <1>1, <2>1, <2>2 DEF StartSchedule
<1>2. ASSUME NEW i \in Counters, StartWithoutLog(i) PROVE ExecutorInvariant'
  <2>1. telescope' \in BOOLEAN
    BY <1>2, Zenon DEF StartWithoutLog
  <2>2. counter' \in {0} \cup Counters
    BY <1>2, ListNotEmpty DEF StartWithoutLog, Counters
  <2> QED
    BY <1>2, <2>1, <2>2 DEF StartWithoutLog
<1>3. ASSUME StartRefused PROVE ExecutorInvariant'
  <2>1. telescope' \in BOOLEAN
    BY <1>3 DEF StartRefused
  <2>2. status' \in 0 .. 2
    BY <1>3, RaiseType DEF StartRefused
  <2> QED
    BY <1>3, <2>1, <2>2 DEF StartRefused
<1>4. ASSUME NEW force \in BOOLEAN, StopSchedule(force) PROVE ExecutorInvariant'
  <2>1. stopMe' \in BOOLEAN /\ haltMe' \in BOOLEAN
    BY <1>4 DEF StopSchedule
  <2> QED
    BY <1>4, <2>1 DEF StopSchedule
<1> QED
  BY <1>1, <1>2, <1>3, <1>4 DEF Operator

\* The timer.
LEMMA TimerKeeps ==
    ASSUME ExecutorInvariant
    PROVE  StopFires \/ RestartFires => ExecutorInvariant'
<1> USE DEF ExecutorInvariant, control, position, recording, site, timing
<1>1. ASSUME StopFires PROVE ExecutorInvariant'
  <2>1. PICK e \in timer : e.handler = "stop" /\ timer' = timer \ {e}
    BY <1>1 DEF StopFires
  <2>2. PICK o \in StopOutcomes(stream) :
            stream' = o.flags /\ scanStopError' = (scanStopError \/ ~Succeeds(o))
    BY <1>1 DEF StopFires, StopError, Possible
  <2>3. stage = "SCAN_EXECUTION"
    BY <2>1 DEF StopEventOwned
  <2>4. \A x \in timer' : x.handler # "stop"
    <3>1. ASSUME NEW x \in timer, x.handler = "stop" PROVE x = e
      BY <2>1, <3>1 DEF StopEventOwned, TypeOK, Events
    <3> QED
      BY <2>1, <3>1
  <2>5. stream' \in Flags /\ Nested(stream') /\ (stream'.started => ~Succeeds(o))
    BY <2>2, StopStops DEF TypeOK, StreamNested
  <2>6. scanStopError' \in BOOLEAN
    BY <2>2, Zenon
  <2>7. subScanDone' \in BOOLEAN
    BY <1>1, Zenon DEF StopFires
  <2>8. scansCounter' \in {-1, 0, 1}
    BY <1>1 DEF StopFires, TypeOK
  <2>9. lastScheduled' \in Times \cup {NoTime} /\ timer' \subseteq Events
    BY <1>1, <2>1 DEF StopFires, TypeOK
  <2>10. TypeOK'
    BY <1>1, <2>5, <2>6, <2>7, <2>8, <2>9 DEF StopFires, TypeOK
  <2>11. NoRunawayRecording'
    BY <1>1, <2>2, <2>3, <2>5 DEF StopFires, NoRunawayRecording
  <2>12. StopEventOwned' /\ StreamNested'
    BY <2>4, <2>5 DEF StopEventOwned, StreamNested
  <2> QED
    BY <1>1, <2>3, <2>10, <2>11, <2>12 DEF StopFires, WithSubScan, BeforeStop
<1>2. ASSUME RestartFires PROVE ExecutorInvariant'
  <2>1. PICK e \in timer : e.handler = "restart" /\ timer' = timer \ {e}
    BY <1>2 DEF RestartFires
  <2>2. goAhead' \in BOOLEAN
    BY <1>2, Zenon DEF RestartFires
  <2>3. timer' \subseteq timer
    BY <2>1
  <2>4. TypeOK'
    BY <1>2, <2>2, <2>3 DEF RestartFires, TypeOK
  <2>5. [at |-> lastScheduled, handler |-> "stop"] \in timer
        => [at |-> lastScheduled, handler |-> "stop"] \in timer'
    BY <2>1
  <2>6. NoRunawayRecording' /\ StopEventOwned' /\ StreamNested'
    BY <1>2, <2>3, <2>5 DEF RestartFires, NoRunawayRecording, StopEventOwned, StreamNested
  <2> QED
    BY <1>2, <2>4, <2>6 DEF RestartFires
<1> QED
  BY <1>1, <1>2

\* The worker of the parser.
LEMMA ParserKeeps ==
    ASSUME ExecutorInvariant
    PROVE  CommandDone \/ CommandRaises => ExecutorInvariant'
<1> USE DEF ExecutorInvariant, TypeOK, NoRunawayRecording, StopEventOwned, StreamNested,
            control, position, recording, site, timing
<1>1. ASSUME CommandDone PROVE ExecutorInvariant'
  <2>1. parserQueue' \in Seq(Commands)
    BY <1>1 DEF CommandDone
  <2>2. goAhead' \in BOOLEAN
    BY <1>1, Zenon DEF CommandDone
  <2> QED
    BY <1>1, <2>1, <2>2 DEF CommandDone
<1>2. ASSUME CommandRaises PROVE ExecutorInvariant'
  <2>1. parserQueue' \in Seq(Commands)
    <3>1. parserQueue[1] \in Commands
      BY <1>2 DEF CommandRaises
    <3>2. [parserQueue[1] EXCEPT !.failed = TRUE] \in Commands
      BY <3>1 DEF Commands
    <3> QED
      BY <1>2, <3>2 DEF CommandRaises
  <2>2. goAhead' \in BOOLEAN
    BY <1>2, Zenon DEF CommandRaises
  <2>3. status' \in 0 .. 2
    BY <1>2, RaiseType DEF CommandRaises
  <2> QED
    BY <1>2, <2>1, <2>2, <2>3 DEF CommandRaises
<1> QED
  BY <1>1, <1>2

\* The telescope and the recorder.
LEMMA SiteKeeps ==
    ASSUME ExecutorInvariant
    PROVE  Tracks \/ CloseTimeElapses \/ RecorderDrains => ExecutorInvariant'
<1> USE DEF ExecutorInvariant, TypeOK, NoRunawayRecording, StopEventOwned, StreamNested,
            control, position, recording, site, timing
<1>1. ASSUME Tracks PROVE ExecutorInvariant'
  BY <1>1 DEF Tracks
<1>2. ASSUME CloseTimeElapses PROVE ExecutorInvariant'
  <2>1. closeTimer' \in BOOLEAN
    BY <1>2, Zenon DEF CloseTimeElapses
  <2> QED
    BY <1>2, <2>1 DEF CloseTimeElapses
<1>3. ASSUME RecorderDrains PROVE ExecutorInvariant'
  <2>1. recorderBusy' \in BOOLEAN
    BY <1>3, Zenon DEF RecorderDrains
  <2> QED
    BY <1>3, <2>1 DEF RecorderDrains
<1> QED
  BY <1>1, <1>2, <1>3

LEMMA StutteringKeeps ==
    ASSUME ExecutorInvariant, UNCHANGED vars
    PROVE  ExecutorInvariant'
BY DEF ExecutorInvariant, TypeOK, NoRunawayRecording, StopEventOwned, StreamNested, vars,
       control, position, recording, site, timing

LEMMA InitHolds == Init => ExecutorInvariant
<1> SUFFICES ASSUME Init PROVE ExecutorInvariant
  OBVIOUS
<1>1. goAhead \in BOOLEAN /\ stopMe \in BOOLEAN /\ haltMe \in BOOLEAN /\ active \in BOOLEAN
  BY Zenon DEF Init
<1>2. rewind \in BOOLEAN /\ scheduleRewound \in BOOLEAN /\ subScanDone \in BOOLEAN
      /\ scanStopError \in BOOLEAN /\ startTimeSet \in BOOLEAN
  BY Zenon DEF Init
<1>3. telescope \in BOOLEAN /\ tracking \in BOOLEAN /\ closeTimer \in BOOLEAN /\ recorderBusy \in BOOLEAN
  BY Zenon DEF Init
<1>4. stream \in Flags /\ Nested(stream) /\ ~stream.started
  BY DEF Init, NoStream, Flags, Nested
<1>5. TypeOK
  <2>1. /\ stage \in Stages /\ pc \in {"out", "in", "armed"} /\ currentBackend \in Backends
        /\ timer \subseteq Events /\ lastScheduled \in Times \cup {NoTime}
    BY BackendNames DEF Init, Stages
  <2>2. parserQueue \in Seq(Commands)
    <3>1. <<>> \in Seq(Commands)
      OBVIOUS
    <3> QED
      BY <3>1, Zenon DEF Init
  <2>3. /\ counter \in {0} \cup Counters /\ firstSubScan \in {0} \cup Counters
        /\ startSubScan \in {0} \cup Counters /\ scansCounter \in {-1, 0, 1}
        /\ repetition \in Nat /\ lastScanID \in Nat /\ status \in 0 .. 2
    <3>1. 0 \in {0} \cup Counters /\ -1 \in {-1, 0, 1} /\ 0 \in Nat /\ 0 \in 0 .. 2
      OBVIOUS
    <3> QED
      BY <3>1, Zenon DEF Init
  <2> QED
    BY <1>1, <1>2, <1>3, <1>4, <2>1, <2>2, <2>3 DEF TypeOK
<1>6. NoRunawayRecording /\ StopEventOwned /\ StreamNested
  BY <1>4 DEF Init, NoRunawayRecording, StopEventOwned, StreamNested
<1> QED
  BY <1>5, <1>6 DEF Init, ExecutorInvariant, WithSubScan, BeforeStop

--------------------------------------------------------------------------------
(* The theorems.                                                           *)

\* The invariant of the executor holds whatever the schedule, the failures and
\* the interleaving of the threads.
THEOREM InvariantHolds == Spec => []ExecutorInvariant
<1>1. ASSUME ExecutorInvariant, [Next]_vars PROVE ExecutorInvariant'
  <2>1. CASE RunLoop
    BY <1>1, <2>1, StageStepsKeep, SelectionKeeps, RecordingKeeps, CompletionKeeps, ProceduresKeep,
       EndOfScheduleKeeps, AbandonedSubScanKeeps DEF RunLoop
  <2>2. CASE Operator
    BY <1>1, <2>2, OperatorKeeps
  <2>3. CASE StopFires \/ RestartFires
    BY <1>1, <2>3, TimerKeeps
  <2>4. CASE CommandDone \/ CommandRaises
    BY <1>1, <2>4, ParserKeeps
  <2>5. CASE Tracks \/ CloseTimeElapses \/ RecorderDrains
    BY <1>1, <2>5, SiteKeeps
  <2>6. CASE UNCHANGED vars
    BY <1>1, <2>6, StutteringKeeps
  <2> QED
    BY <1>1, <2>1, <2>2, <2>3, <2>4, <2>5, <2>6 DEF Next
<1> QED
  BY <1>1, InitHolds, PTL DEF Spec

\* The state keeps its type.
THEOREM TypeCorrect == Spec => []TypeOK
BY InvariantHolds, PTL DEF ExecutorInvariant

\* A started stream always has an end in sight: the thread is about to schedule
\* it, the timer holds it, or the executor will see that it failed.
THEOREM NoRunaway == Spec => []NoRunawayRecording
BY InvariantHolds, PTL DEF ExecutorInvariant

\* The end of a recording never hits another subscan.
THEOREM StopOwned == Spec => []StopEventOwned
BY InvariantHolds, PTL DEF ExecutorInvariant

\* No failure breaks the order in which the data transfer is set up.
THEOREM StreamChain == Spec => []StreamNested
BY InvariantHolds, PTL DEF ExecutorInvariant

--------------------------------------------------------------------------------
(* The telescope between two subscans, and who wakes the executor up.       *)

\* The stages in which the telescope may have the subscan.
Commanded == {"WRITING_INITIALIZATION", "PRE_SCAN_PROC", "SCAN_START", "STOP_SCHEDULING",
              "SCAN_EXECUTION", "POST_SCAN_PROC", "SCAN_CLOSEUP"}

TelescopeClear == "close" \notin Faults /\ stage \notin Commanded => ~telescope

\* The schedules whose waits are answered: every procedure that is waited for
\* has a name the parser knows, and there is no start time to wait for (the
\* restart event of STARTTIME_WAIT may fire before m_goAhead is cleared).
Answering ==
    /\ Mode # "TIMETAGGED"
    /\ InitProc # "unknown"
    /\ \A i \in Counters : /\ SubScans[i].preSync => SubScans[i].pre # "unknown"
                           /\ SubScans[i].postSync => SubScans[i].post # "unknown"

\* The executor clears m_goAhead only when it leaves runLoop, with a command in
\* the parser or a restart event in the timer.
WakeUpDue == active /\ ~goAhead => pc = "out" /\ (parserQueue # <<>> \/ Pending("restart"))

WaitInvariant == TelescopeClear /\ (Answering => WakeUpDue /\ pc # "armed")

LEMMA ClosedFrees ==
    ASSUME "close" \notin Faults, NEW tel \in BOOLEAN, NEW c \in Closed(tel)
    PROVE  ~c.telescope
BY DEF Closed, When

\* The end of the schedule leaves a free telescope and nobody waiting.
LEMMA CleanScheduleRests ==
    ASSUME NEW events, NEW f, NEW tel \in BOOLEAN, CleanSchedule(events, f, tel)
    PROVE  WaitInvariant'
BY ClosedFrees DEF CleanSchedule, WaitInvariant, TelescopeClear, WakeUpDue

LEMMA RestartAdded ==
    ASSUME NEW events, AddEvent(events, "restart")
    PROVE  Pending("restart")'
<1>1. PICK at \in Times : timer' = events \cup {[at |-> at, handler |-> "restart"]}
  BY DEF AddEvent
<1>2. [at |-> at, handler |-> "restart"] \in timer'
  BY <1>1
<1> QED
  BY <1>2 DEF Pending

\* A subscan that is given up is closed on the telescope, and the restart event
\* brings the executor back.
LEMMA CleanScanRests ==
    ASSUME ExecutorInvariant, WaitInvariant, pc = "in",
           NEW f, NEW tel \in BOOLEAN, NEW scanID, CleanScan(f, tel, scanID)
    PROVE  WaitInvariant'
<1>1. PICK o \in Disabled(f), c \in Closed(tel) :
          \/ /\ Mode = "LST"
             /\ AbandonSubScan(o.flags, c.telescope, scanID)
             /\ UNCHANGED goAhead
          \/ /\ AbandonSubScan(o.flags, c.telescope, scanID)
             /\ AddEvent(Remaining, "restart")
          \/ CleanSchedule(Remaining, o.flags, c.telescope)
  BY DEF CleanScan
<1>2. c.telescope \in BOOLEAN
  BY ClosedType
<1>3. ASSUME AbandonSubScan(o.flags, c.telescope, scanID)
      PROVE  TelescopeClear' /\ pc' = "out" /\ active' = active /\ parserQueue' = parserQueue
  BY <1>3, ClosedFrees DEF AbandonSubScan, TelescopeClear
<1>4. CASE AbandonSubScan(o.flags, c.telescope, scanID) /\ UNCHANGED goAhead
  BY <1>3, <1>4 DEF WaitInvariant, WakeUpDue
<1>5. CASE AbandonSubScan(o.flags, c.telescope, scanID) /\ AddEvent(Remaining, "restart")
  BY <1>3, <1>5, RestartAdded DEF WaitInvariant, WakeUpDue
<1>6. CASE CleanSchedule(Remaining, o.flags, c.telescope)
  BY <1>2, <1>6, CleanScheduleRests
<1> QED
  BY <1>1, <1>4, <1>5, <1>6

\* A procedure that is waited for leaves a command in the parser, or does not
\* keep the executor waiting.
LEMMA BlockingRests ==
    ASSUME ExecutorInvariant, WaitInvariant, pc = "in", active' = active, timer' = timer,
           NEW slot \in Slots, NEW kind \in ProcKinds, NEW next, Answering => kind # "unknown",
           RunBlocking(slot, kind, next)
    PROVE  (Answering => WakeUpDue /\ pc # "armed")'
<1>1. kind \in {"queued", "nested"} => parserQueue' # <<>>
  <2>1. kind \in {"queued", "nested"} => Queued(slot, kind) # <<>>
    BY DEF Queued
  <2>2. Queued(slot, kind) \in Seq(Commands) /\ parserQueue \in Seq(Commands)
    BY QueuedType DEF ExecutorInvariant, TypeOK
  <2> QED
    BY <2>1, <2>2 DEF RunBlocking, ExecuteProcedure
<1>2. kind \in {"empty", "broken"} => goAhead'
  BY DEF RunBlocking, ExecuteProcedure, Answered
<1>3. kind \notin {"queued", "nested", "empty", "broken"} => ~Answering
  BY DEF ProcKinds
<1>4. Answering' = Answering
  BY DEF Answering
<1>5. pc' \in {"in", "out"} /\ (pc' = "in" => kind \in {"unknown", "broken"})
  BY DEF RunBlocking, Rejected
<1> QED
  BY <1>1, <1>2, <1>3, <1>4, <1>5 DEF WakeUpDue

LEMMA NonBlockingRests ==
    ASSUME WaitInvariant, pc = "in", active, active' = active,
           NEW slot, NEW kind, NEW next, RunNonBlocking(slot, kind, next)
    PROVE  (Answering => WakeUpDue /\ pc # "armed")'
<1>1. pc' = "in" /\ (goAhead => goAhead')
  BY DEF RunNonBlocking, ExecuteProcedure
<1> QED
  BY <1>1 DEF WaitInvariant, WakeUpDue, Answering

\* In the middle of runLoop the executor is not waiting.
LEMMA StaysAwake ==
    ASSUME ExecutorInvariant, WaitInvariant, pc = "in", active' = active, goAhead' = goAhead,
           pc' \in {"in", "out"}
    PROVE  (Answering => WakeUpDue /\ pc # "armed")'
<1>1. active
  BY DEF ExecutorInvariant
<1> QED
  BY <1>1 DEF WaitInvariant, WakeUpDue, Answering

\* The steps of runLoop that leave m_goAhead alone.
LEMMA LoopRests ==
    ASSUME ExecutorInvariant, WaitInvariant
    PROVE  \/ Enter \/ Suspend \/ WaitStartTime \/ HaltHere \/ SelectSubScan \/ SkipSubScan
           \/ AcceptSubScan \/ CommandSubScan \/ PrepareRecording \/ PrepareWithoutRecording
           \/ AwaitTracking \/ SkipLate \/ StartRecording \/ StartWithoutRecording
           \/ ScheduleStop \/ NothingToStop \/ AwaitCompletion \/ Complete \/ CloseSubScan
           \/ AwaitClosing \/ FinalizeRecording
           => WaitInvariant'
<1> USE DEF control, position, recording, site, timing, At, Continue, Break, Commanded
<1>1. ASSUME Enter PROVE WaitInvariant'
  BY <1>1 DEF Enter, WaitInvariant, TelescopeClear, WakeUpDue, Answering
<1>2. ASSUME Suspend PROVE WaitInvariant'
  BY <1>2 DEF Suspend, WaitInvariant, TelescopeClear, Answering, ExecutorInvariant
<1>3. ASSUME WaitStartTime PROVE WaitInvariant'
  <2>1. CASE Mode = "TIMETAGGED"
    BY <1>3, <2>1 DEF WaitStartTime, WaitInvariant, TelescopeClear, Answering
  <2>2. CASE Mode # "TIMETAGGED"
    BY <1>3, <2>2, StaysAwake DEF WaitStartTime, WaitInvariant, TelescopeClear
  <2> QED
    BY <2>1, <2>2
<1>4. ASSUME HaltHere \/ SelectSubScan \/ SkipSubScan \/ AcceptSubScan PROVE WaitInvariant'
  BY <1>4, StaysAwake
     DEF HaltHere, SelectSubScan, SkipSubScan, AcceptSubScan, WaitInvariant, TelescopeClear
<1>5. ASSUME CommandSubScan \/ PrepareRecording \/ PrepareWithoutRecording PROVE WaitInvariant'
  BY <1>5, StaysAwake
     DEF CommandSubScan, PrepareRecording, PrepareWithoutRecording, WaitInvariant, TelescopeClear
<1>6. ASSUME AwaitTracking \/ SkipLate \/ StartRecording \/ StartWithoutRecording
      PROVE  WaitInvariant'
  BY <1>6, StaysAwake
     DEF AwaitTracking, SkipLate, StartRecording, StartWithoutRecording, WaitInvariant,
         TelescopeClear
<1>7. ASSUME ScheduleStop \/ NothingToStop \/ AwaitCompletion \/ Complete PROVE WaitInvariant'
  BY <1>7, StaysAwake
     DEF ScheduleStop, NothingToStop, AwaitCompletion, Complete, WaitInvariant, TelescopeClear
<1>8. ASSUME CloseSubScan PROVE WaitInvariant'
  <2>1. PICK c \in Closed(telescope) : telescope' = c.telescope
    BY <1>8 DEF CloseSubScan
  <2>2. TelescopeClear'
    BY <2>1, ClosedFrees DEF ExecutorInvariant, TypeOK, TelescopeClear
  <2> QED
    BY <1>8, <2>2, StaysAwake DEF CloseSubScan, WaitInvariant
<1>9. ASSUME AwaitClosing \/ FinalizeRecording PROVE WaitInvariant'
  BY <1>9, StaysAwake DEF AwaitClosing, FinalizeRecording, WaitInvariant, TelescopeClear
<1> QED
  BY <1>1, <1>2, <1>3, <1>4, <1>5, <1>6, <1>7, <1>8, <1>9

\* The procedures of a schedule.
LEMMA ProceduresRest ==
    ASSUME ExecutorInvariant, WaitInvariant
    PROVE  RunInitProc \/ RunPreScan \/ RunPostScan => WaitInvariant'
<1> USE DEF control, position, recording, site, timing, At, Continue, Commanded
<1>1. pc = "in" => active
  BY DEF ExecutorInvariant
<1>2. ASSUME stage \in WithSubScan
      PROVE  /\ current.pre \in ProcKinds \cup {Null} /\ current.post \in ProcKinds \cup {Null}
             /\ Answering /\ current.preSync => current.pre # "unknown"
             /\ Answering /\ current.postSync => current.post # "unknown"
  <2>1. counter \in Counters
    BY <1>2 DEF ExecutorInvariant
  <2>2. current \in SubScanRecords
    BY <2>1, ScheduleAssumption DEF current, Counters
  <2> QED
    BY <2>1, <2>2 DEF SubScanRecords, Answering, current
<1>3. "init" \in Slots /\ "pre" \in Slots /\ "post" \in Slots
  BY DEF Slots
<1>4. ASSUME RunInitProc PROVE WaitInvariant'
  <2>1. TelescopeClear'
    BY <1>4 DEF RunInitProc, RunBlocking, WaitInvariant, TelescopeClear
  <2>2. CASE InitProc = Null
    BY <1>4, <2>1, <2>2, StaysAwake DEF RunInitProc, WaitInvariant
  <2>3. CASE InitProc # Null
    <3>1. InitProc \in ProcKinds /\ (Answering => InitProc # "unknown")
      BY <2>3, ScheduleAssumption DEF Answering
    <3> QED
      BY <1>3, <1>4, <2>1, <2>3, <3>1, BlockingRests DEF RunInitProc, WaitInvariant
  <2> QED
    BY <2>2, <2>3
<1>5. ASSUME RunPreScan PROVE WaitInvariant'
  <2>1. TelescopeClear'
    BY <1>5 DEF RunPreScan, RunBlocking, RunNonBlocking, WaitInvariant, TelescopeClear
  <2>2. CASE current.pre = Null
    BY <1>5, <2>1, <2>2, StaysAwake DEF RunPreScan, WaitInvariant
  <2>3. CASE current.pre # Null /\ current.preSync
    <3>1. current.pre \in ProcKinds /\ (Answering => current.pre # "unknown")
      BY <1>2, <1>5, <2>3 DEF RunPreScan, WithSubScan, BeforeStop
    <3> QED
      BY <1>3, <1>5, <2>1, <2>3, <3>1, BlockingRests DEF RunPreScan, WaitInvariant
  <2>4. CASE current.pre # Null /\ ~current.preSync
    BY <1>1, <1>5, <2>1, <2>4, NonBlockingRests DEF RunPreScan, WaitInvariant
  <2> QED
    BY <2>2, <2>3, <2>4
<1>6. ASSUME RunPostScan PROVE WaitInvariant'
  <2>1. TelescopeClear'
    BY <1>6 DEF RunPostScan, RunBlocking, RunNonBlocking, WaitInvariant, TelescopeClear
  <2>2. CASE current.post = Null
    BY <1>6, <2>1, <2>2, StaysAwake DEF RunPostScan, WaitInvariant
  <2>3. CASE current.post # Null /\ current.postSync
    <3>1. current.post \in ProcKinds /\ (Answering => current.post # "unknown")
      BY <1>2, <1>6, <2>3 DEF RunPostScan, WithSubScan
    <3> QED
      BY <1>3, <1>6, <2>1, <2>3, <3>1, BlockingRests DEF RunPostScan, WaitInvariant
  <2>4. CASE current.post # Null /\ ~current.postSync
    BY <1>1, <1>6, <2>1, <2>4, NonBlockingRests DEF RunPostScan, WaitInvariant
  <2> QED
    BY <2>2, <2>3, <2>4
<1> QED
  BY <1>4, <1>5, <1>6

\* The steps that give up the subscan or end the schedule.
LEMMA FailuresRest ==
    ASSUME ExecutorInvariant, WaitInvariant
    PROVE  \/ StopRequested \/ StartTimeRefused \/ GiveUp \/ CompleteSchedule \/ StopRefused
           \/ CheckFails \/ CommandFails \/ PreparationFails \/ StartFails \/ StopFailed \/ CloseFails
           => WaitInvariant'
<1>1. telescope \in BOOLEAN /\ TRUE \in BOOLEAN
  BY DEF ExecutorInvariant, TypeOK
<1>2. ASSUME \/ StopRequested \/ StartTimeRefused \/ GiveUp \/ CompleteSchedule \/ StopRefused
      PROVE  WaitInvariant'
  BY <1>1, <1>2, CleanScheduleRests
     DEF StopRequested, StartTimeRefused, GiveUp, CompleteSchedule, StopRefused
<1>3. ASSUME CheckFails \/ StopFailed \/ CloseFails PROVE WaitInvariant'
  BY <1>1, <1>3, CleanScanRests DEF CheckFails, StopFailed, CloseFails, At
<1>4. ASSUME CommandFails PROVE WaitInvariant'
  BY <1>1, <1>4, CleanScanRests DEF CommandFails, At
<1>5. ASSUME PreparationFails PROVE WaitInvariant'
  BY <1>1, <1>5, CleanScanRests DEF PreparationFails, At
<1>6. ASSUME StartFails PROVE WaitInvariant'
  BY <1>1, <1>6, CleanScanRests DEF StartFails, At
<1> QED
  BY <1>2, <1>3, <1>4, <1>5, <1>6

\* The operator, the timer, the parser and the telescope.
LEMMA OthersRest ==
    ASSUME ExecutorInvariant, WaitInvariant
    PROVE  \/ Operator \/ StopFires \/ RestartFires \/ CommandDone \/ CommandRaises
           \/ Tracks \/ CloseTimeElapses \/ RecorderDrains \/ UNCHANGED vars
           => WaitInvariant'
<1> USE DEF control, position, recording, site, timing, WaitInvariant, TelescopeClear, WakeUpDue
<1>1. ASSUME NEW i \in Counters, StartSchedule(i) PROVE WaitInvariant'
  BY <1>1 DEF StartSchedule
<1>2. ASSUME NEW i \in Counters, StartWithoutLog(i) PROVE WaitInvariant'
  BY <1>2 DEF StartWithoutLog
<1>3. ASSUME StartRefused PROVE WaitInvariant'
  <2>1. telescope' => telescope
    BY <1>3, Zenon DEF StartRefused
  <2>2. stage' = stage /\ pc' = pc /\ ~active'
    BY <1>3 DEF StartRefused
  <2> QED
    BY <2>1, <2>2 DEF Answering
<1>4. ASSUME NEW force \in BOOLEAN, StopSchedule(force) PROVE WaitInvariant'
  BY <1>4 DEF StopSchedule, Pending, Answering
<1>5. ASSUME StopFires PROVE WaitInvariant'
  <2>1. PICK e \in timer : e.handler = "stop" /\ timer' = timer \ {e}
    BY <1>5 DEF StopFires
  <2>2. Pending("restart") => Pending("restart")'
    BY <2>1 DEF Pending
  <2> QED
    BY <1>5, <2>2 DEF StopFires, Answering
<1>6. ASSUME RestartFires \/ CommandDone \/ CommandRaises PROVE WaitInvariant'
  BY <1>6 DEF RestartFires, CommandDone, CommandRaises, Answering
<1>7. ASSUME Tracks \/ CloseTimeElapses \/ RecorderDrains PROVE WaitInvariant'
  <2>1. /\ (telescope' => telescope) /\ stage' = stage /\ active' = active /\ goAhead' = goAhead
        /\ pc' = pc /\ parserQueue' = parserQueue /\ timer' = timer
    BY <1>7 DEF Tracks, CloseTimeElapses, RecorderDrains
  <2> QED
    BY <2>1 DEF Pending, Answering
<1>8. ASSUME UNCHANGED vars PROVE WaitInvariant'
  BY <1>8 DEF vars, Pending, Answering
<1> QED
  BY <1>1, <1>2, <1>3, <1>4, <1>5, <1>6, <1>7, <1>8 DEF Operator

LEMMA WaitInvariantHolds == Spec => []WaitInvariant
<1>1. Init => WaitInvariant
  BY DEF Init, WaitInvariant, TelescopeClear, WakeUpDue
<1>2. ASSUME ExecutorInvariant, WaitInvariant, [Next]_vars PROVE WaitInvariant'
  BY <1>2, LoopRests, ProceduresRest, FailuresRest, OthersRest DEF Next, RunLoop
<1> QED
  BY <1>1, <1>2, InvariantHolds, PTL DEF Spec

\* Where closing does not fail, no subscan is commanded to a telescope that has
\* one, whatever else fails and wherever the schedule is given up.
THEOREM TelescopeFreeAlways == Spec => []TelescopeFree
<1>1. WaitInvariant => TelescopeFree
  BY DEF WaitInvariant, TelescopeClear, TelescopeFree, Commanded, At
<1> QED
  BY <1>1, WaitInvariantHolds, PTL

\* An executor that waits has a command in the parser or a restart event in the
\* timer, in the schedules whose waits are answered.
THEOREM NoOrphanWaitAlways == Answering /\ Spec => []NoOrphanWait
<1>1. Answering /\ WaitInvariant => NoOrphanWait
  BY DEF WaitInvariant, WakeUpDue, NoOrphanWait
<1>2. Answering => []Answering
  <2>1. Answering => Answering'
    BY DEF Answering
  <2> QED
    BY <2>1, PTL
<1> QED
  BY <1>1, <1>2, WaitInvariantHolds, PTL

--------------------------------------------------------------------------------
(***************************************************************************)
(* The executor implements the safety part of a recording session: every   *)
(* step of it begins or ends the session, starts or stops a recording, or  *)
(* changes nothing the operator sees.                                      *)
(***************************************************************************)

Allowed == [Session!Next]_(Session!vars)

\* A step that the session does not see: the same recording goes on,
LEMMA SameRecording ==
    ASSUME active' = active, counter' = counter, stream' = stream
    PROVE  Allowed
BY DEF Allowed, Session!vars

\* or there is none before and after.
LEMMA NoRecordingSeen ==
    ASSUME active' = active, ~stream.started, ~stream'.started
    PROVE  Allowed
BY DEF Allowed, Session!vars

\* The end of the schedule ends the recording.
LEMMA SessionEnds ==
    ASSUME active, ~active', ~stream'.started
    PROVE  Allowed
BY DEF Allowed, Session!Next, Session!End

\* The end of the recording.
LEMMA RecordingEnds ==
    ASSUME ExecutorInvariant, active' = active, counter' = counter,
           ~stream'.started
    PROVE  Allowed
<1>1. CASE stream.started
  <2>1. counter \in Counters
    BY <1>1 DEF ExecutorInvariant, NoRunawayRecording, WithSubScan, BeforeStop
  <2>2. counter # 0
    BY <2>1 DEF Counters
  <2> QED
    BY <1>1, <2>2 DEF Allowed, Session!Next, Session!Stop
<1>2. CASE ~stream.started
  BY <1>2, NoRecordingSeen
<1> QED
  BY <1>1, <1>2

\* The stages without a recording.
LEMMA RecordingStages ==
    ASSUME ExecutorInvariant,
           stage \notin {"STOP_SCHEDULING", "SCAN_EXECUTION"}
    PROVE  ~stream.started
BY DEF ExecutorInvariant, NoRunawayRecording

LEMMA CleanScheduleAllowed ==
    ASSUME ExecutorInvariant, active,
           NEW events, NEW f \in Flags, Nested(f), NEW tel,
           CleanSchedule(events, f, tel)
    PROVE  Allowed
<1>1. ~stream'.started
  BY DisabledStops DEF CleanSchedule
<1>2. ~active'
  BY DEF CleanSchedule
<1> QED
  BY <1>1, <1>2, SessionEnds

LEMMA CleanScanAllowed ==
    ASSUME ExecutorInvariant, active,
           NEW f \in Flags, Nested(f), NEW tel, NEW scanID,
           CleanScan(f, tel, scanID)
    PROVE  Allowed
<1>1. PICK o \in Disabled(f), c \in Closed(tel) :
          \/ AbandonSubScan(o.flags, c.telescope, scanID)
          \/ CleanSchedule(Remaining, o.flags, c.telescope)
  BY DEF CleanScan
<1>2. o.flags \in Flags /\ Nested(o.flags) /\ ~o.flags.started
  BY DisabledStops
<1>3. CASE AbandonSubScan(o.flags, c.telescope, scanID)
  BY <1>2, <1>3, RecordingEnds DEF AbandonSubScan
<1>4. CASE CleanSchedule(Remaining, o.flags, c.telescope)
  BY <1>2, <1>4, CleanScheduleAllowed
<1> QED
  BY <1>1, <1>3, <1>4

--------------------------------------------------------------------------------

\* The steps that touch neither the schedule, nor the subscan, nor the stream.
LEMMA QuietSteps ==
    ASSUME \/ Enter \/ RunInitProc \/ WaitStartTime \/ Suspend \/ HaltHere
           \/ SkipSubScan \/ AcceptSubScan \/ CommandSubScan \/ RunPreScan \/ AwaitTracking
           \/ SkipLate \/ StartWithoutRecording \/ ScheduleStop \/ NothingToStop \/ AwaitCompletion
           \/ Complete \/ RunPostScan \/ CloseSubScan \/ AwaitClosing \/ FinalizeRecording
           \/ StartRefused \/ (\E force \in BOOLEAN : StopSchedule(force))
           \/ RestartFires \/ CommandDone \/ CommandRaises
           \/ Tracks \/ CloseTimeElapses \/ RecorderDrains \/ UNCHANGED vars
    PROVE  Allowed
<1> USE DEF control, position, recording, site, timing
<1>1. CASE Enter \/ RunInitProc \/ WaitStartTime \/ Suspend \/ HaltHere
  BY <1>1, SameRecording DEF Enter, RunInitProc, WaitStartTime, Suspend, HaltHere
<1>2. CASE SkipSubScan \/ AcceptSubScan \/ CommandSubScan \/ RunPreScan \/ AwaitTracking
  BY <1>2, SameRecording DEF SkipSubScan, AcceptSubScan, CommandSubScan, RunPreScan, AwaitTracking
<1>3. CASE SkipLate \/ StartWithoutRecording \/ ScheduleStop \/ NothingToStop \/ AwaitCompletion
  BY <1>3, SameRecording DEF SkipLate, StartWithoutRecording, ScheduleStop, NothingToStop,
                             AwaitCompletion
<1>4. CASE Complete \/ RunPostScan \/ CloseSubScan \/ AwaitClosing \/ FinalizeRecording
  BY <1>4, SameRecording DEF Complete, RunPostScan, CloseSubScan, AwaitClosing, FinalizeRecording
<1>5. CASE StartRefused \/ (\E force \in BOOLEAN : StopSchedule(force))
  BY <1>5, SameRecording DEF StartRefused, StopSchedule
<1>6. CASE RestartFires \/ CommandDone \/ CommandRaises
  BY <1>6, SameRecording DEF RestartFires, CommandDone, CommandRaises
<1>7. CASE Tracks \/ CloseTimeElapses \/ RecorderDrains \/ UNCHANGED vars
  BY <1>7, SameRecording DEF Tracks, CloseTimeElapses, RecorderDrains, vars
<1> QED
  BY <1>1, <1>2, <1>3, <1>4, <1>5, <1>6, <1>7

\* The steps that prepare a subscan, or the schedule: nothing is recording.
LEMMA IdleSteps ==
    ASSUME ExecutorInvariant
    PROVE  \/ SelectSubScan \/ PrepareRecording \/ PrepareWithoutRecording
           \/ (\E i \in Counters : StartSchedule(i) \/ StartWithoutLog(i))
           => Allowed
<1> USE DEF control, position, recording, site, timing
<1>1. ASSUME SelectSubScan PROVE Allowed
  BY <1>1, RecordingStages, NoRecordingSeen DEF SelectSubScan, At
<1>2. ASSUME At("WRITING_INITIALIZATION"), NEW o \in PreviousClosed
      PROVE  o.flags \in Flags /\ Nested(o.flags) /\ ~o.flags.started
  BY <1>2, DisabledStops, RecordingStages
     DEF PreviousClosed, Outcome, At, ExecutorInvariant, TypeOK, StreamNested
<1>3. ASSUME PrepareRecording PROVE Allowed
  <2>1. ~stream'.started
    BY <1>2, <1>3, EnableStartsNothing DEF PrepareRecording
  <2> QED
    BY <1>3, <2>1, RecordingStages, NoRecordingSeen DEF PrepareRecording, At
<1>4. ASSUME PrepareWithoutRecording PROVE Allowed
  <2>1. ~stream'.started
    BY <1>2, <1>4 DEF PrepareWithoutRecording
  <2> QED
    BY <1>4, <2>1, RecordingStages, NoRecordingSeen DEF PrepareWithoutRecording, At
<1>5. ASSUME NEW i \in Counters, StartSchedule(i) PROVE Allowed
  <2>1. ~stream.started
    BY <1>5, RecordingStages DEF StartSchedule, ExecutorInvariant
  <2>2. stream' = stream /\ ~active /\ active'
    BY <1>5 DEF StartSchedule
  <2> QED
    BY <2>1, <2>2 DEF Allowed, Session!Next, Session!Begin
<1>6. ASSUME NEW i \in Counters, StartWithoutLog(i) PROVE Allowed
  <2>1. ~stream.started
    BY <1>6, RecordingStages DEF StartWithoutLog, ExecutorInvariant
  <2> QED
    BY <1>6, <2>1, NoRecordingSeen DEF StartWithoutLog
<1> QED
  BY <1>1, <1>3, <1>4, <1>5, <1>6

\* The start of a recording, and its end on the timer.
LEMMA RecordingSteps ==
    ASSUME ExecutorInvariant
    PROVE  StartRecording \/ StopFires => Allowed
<1> USE DEF control, position, recording, site, timing
<1>1. ASSUME StartRecording PROVE Allowed
  <2>1. ~stream.started /\ active /\ counter \in Counters
    BY <1>1, RecordingStages DEF StartRecording, At, ExecutorInvariant, WithSubScan, BeforeStop
  <2>2. active' = active /\ counter' = counter
    BY <1>1 DEF StartRecording
  <2>3. CASE stream'.started
    BY <2>1, <2>2, <2>3 DEF Allowed, Session!Next, Session!Record
  <2>4. CASE ~stream'.started
    BY <2>1, <2>2, <2>4, NoRecordingSeen
  <2> QED
    BY <2>3, <2>4
<1>2. ASSUME StopFires PROVE Allowed
  <2>1. active' = active /\ counter' = counter
    BY <1>2 DEF StopFires
  <2>2. PICK o \in StopOutcomes(stream) : stream' = o.flags
    BY <1>2 DEF StopFires, Possible
  <2>3. stream'.started => stream.started
    BY <2>2, StopStops DEF ExecutorInvariant, TypeOK, StreamNested
  <2>4. CASE ~stream'.started
    BY <2>1, <2>4, RecordingEnds
  <2>5. CASE stream.started /\ stream'.started
    BY <2>1, <2>5 DEF Allowed, Session!vars
  <2> QED
    BY <2>3, <2>4, <2>5
<1> QED
  BY <1>1, <1>2

\* The steps that give up the subscan or end the schedule.
LEMMA CleaningSteps ==
    ASSUME ExecutorInvariant
    PROVE  \/ StopRequested \/ StartTimeRefused \/ GiveUp \/ CompleteSchedule \/ StopRefused
           \/ CheckFails \/ CommandFails \/ PreparationFails \/ StartFails \/ StopFailed \/ CloseFails
           => Allowed
<1>1. stream \in Flags /\ Nested(stream) /\ (pc = "in" => active)
  BY DEF ExecutorInvariant, TypeOK, StreamNested
<1>2. ASSUME \/ StopRequested \/ StartTimeRefused \/ GiveUp \/ CompleteSchedule \/ StopRefused
      PROVE  Allowed
  BY <1>1, <1>2, CleanScheduleAllowed
     DEF StopRequested, StartTimeRefused, GiveUp, CompleteSchedule, StopRefused, At
<1>3. ASSUME CheckFails \/ CommandFails \/ StopFailed \/ CloseFails
      PROVE  Allowed
  BY <1>1, <1>3, CleanScanAllowed DEF CheckFails, CommandFails, StopFailed, CloseFails, At
<1>4. ASSUME PreparationFails PROVE Allowed
  <2>1. PICK f \in FailedPreparations : CleanScan(f, telescope, lastScanID)
    BY <1>4 DEF PreparationFails
  <2>2. f \in Flags /\ Nested(f)
    BY <1>1, FailedPreparationChain
  <2> QED
    BY <1>1, <1>4, <2>1, <2>2, CleanScanAllowed DEF PreparationFails, At
<1>5. ASSUME StartFails PROVE Allowed
  <2>1. PICK o \in StartOutcomes(stream) : CleanScan(o.flags, telescope, lastScanID)
    BY <1>5 DEF StartFails
  <2>2. o.flags \in Flags /\ Nested(o.flags)
    BY <1>1, StartKeepsChain
  <2> QED
    BY <1>1, <1>5, <2>1, <2>2, CleanScanAllowed DEF StartFails, At
<1> QED
  BY <1>2, <1>3, <1>4, <1>5

\* Subscans are recorded one at a time, only while the schedule runs, and the
\* end of the schedule, however it comes, ends the recording.
THEOREM SessionImplemented == Spec => Session!Spec
<1>1. Init => Session!Init
  BY DEF Init, Session!Init, NoStream
<1>2. ASSUME ExecutorInvariant, [Next]_vars
      PROVE  Allowed
  BY <1>2, QuietSteps, IdleSteps, RecordingSteps, CleaningSteps DEF Next, RunLoop, Operator
<1> QED
  BY <1>1, <1>2, InvariantHolds, PTL DEF Spec, Session!Spec, Allowed

--------------------------------------------------------------------------------
(* The executor, as the core sees it.  CoreRecording lets a schedule call  *)
(* any primitive of the data transfer while it is active, and disable the  *)
(* transfer when it ends.  A step of the executor may be several calls:    *)
(* whatever they do in a row, one call of CoreRecording does.              *)

\* The core without clients: the one author of a recording is the schedule.
Core == INSTANCE CoreRecording
           WITH Clients <- {}, Tasks <- {}, abort <- FALSE,
                schedule <- IF active THEN "active" ELSE "off",
                at <- <<>>, job <- <<>>, author <- "schedule"

\* The recorder has data as soon as the stream is started.
RecorderFed == IF stream'.started /\ ~stream.started THEN recorderBusy' ELSE recorderBusy' = recorderBusy

\* A call of the schedule, its end, its start, the recorder, or nothing.
Granted ==
    \/ active /\ active' /\ (stream'.scan => stream.prepared) /\ RecorderFed
    \/ active /\ ~active' /\ Below(stream', stream) /\ UNCHANGED recorderBusy
    \/ ~active /\ ~telescope' /\ UNCHANGED <<stream, recorderBusy>>
    \/ recorderBusy /\ ~stream.started /\ ~recorderBusy' /\ UNCHANGED <<stream, telescope, active>>
    \/ UNCHANGED <<stream, telescope, recorderBusy, active>>

\* The primitives of the core are those of the executor.
LEMMA SamePrimitives ==
    ASSUME NEW f
    PROVE  /\ Core!DisableOutcomes(f) = DisableOutcomes(f)
           /\ Core!EnableOutcomes(f) = EnableOutcomes(f)
           /\ Core!StartOutcomes(f) = StartOutcomes(f)
           /\ Core!StopOutcomes(f) = StopOutcomes(f)
<1> USE DEF Core!When, When, Core!Outcome, Outcome, Core!NoStream, NoStream, Core!Nothing, Nothing,
            Core!Succeeds, Succeeds
<1>1. Core!DisableOutcomes(f) = DisableOutcomes(f)
  BY DEF Core!DisableOutcomes, DisableOutcomes
<1>2. Core!EnableOutcomes(f) = EnableOutcomes(f)
  BY DEF Core!EnableOutcomes, EnableOutcomes
<1>3. Core!StartOutcomes(f) = StartOutcomes(f)
  BY DEF Core!StartOutcomes, StartOutcomes, Core!SetupOutcomes, SetupOutcomes,
         Core!TransferOutcomes, TransferOutcomes
<1>4. Core!StopOutcomes(f) = StopOutcomes(f)
  BY DEF Core!StopOutcomes, StopOutcomes
<1> QED
  BY <1>1, <1>2, <1>3, <1>4

LEMMA GrantedSteps ==
    ASSUME ExecutorInvariant, ExecutorInvariant', Granted
    PROVE  [Core!Next]_(Core!vars)
<1>1. /\ stream \in Flags /\ Nested(stream) /\ stream' \in Flags /\ Nested(stream')
      /\ telescope' \in BOOLEAN /\ recorderBusy' \in BOOLEAN /\ active \in BOOLEAN /\ active' \in BOOLEAN
  BY DEF ExecutorInvariant, TypeOK, StreamNested
<1>2. Core!Free
  BY DEF Core!Free
<1>3. CASE active /\ active' /\ (stream'.scan => stream.prepared) /\ RecorderFed
  <2>1. PICK o \in AnyOutcomes(stream) : o.flags = stream'
    BY <1>1, <1>3, CallReaches
  <2>2. o \in Core!DisableOutcomes(stream) \cup Core!EnableOutcomes(stream)
              \cup Core!StartOutcomes(stream) \cup Core!StopOutcomes(stream)
    BY SamePrimitives DEF AnyOutcomes
  <2>3. Core!ScheduleCalls
    BY <1>1, <1>2, <1>3, <2>1, <2>2 DEF Core!ScheduleCalls, RecorderFed
  <2> QED
    BY <2>3 DEF Core!Next
<1>4. CASE active /\ ~active' /\ Below(stream', stream) /\ UNCHANGED recorderBusy
  <2>1. PICK o \in DisableOutcomes(stream) : o.flags = stream'
    BY <1>1, <1>4, DisableReaches
  <2>2. o \in Core!DisableOutcomes(stream)
    BY SamePrimitives
  <2>3. Core!ScheduleEnds
    BY <1>1, <1>2, <1>4, <2>1, <2>2 DEF Core!ScheduleEnds
  <2> QED
    BY <2>3 DEF Core!Next
<1>5. CASE ~active /\ ~telescope' /\ UNCHANGED <<stream, recorderBusy>>
  <2>1. Core!StartSchedule
    BY <1>1, <1>2, <1>5 DEF Core!StartSchedule
  <2> QED
    BY <2>1 DEF Core!Next
<1>6. CASE /\ recorderBusy /\ ~stream.started /\ ~recorderBusy'
           /\ UNCHANGED <<stream, telescope, active>>
  <2>1. Core!RecorderDrains
    BY <1>1, <1>6 DEF Core!RecorderDrains
  <2> QED
    BY <2>1 DEF Core!Next
<1>7. CASE UNCHANGED <<stream, telescope, recorderBusy, active>>
  BY <1>7 DEF Core!vars
<1> QED
  BY <1>3, <1>4, <1>5, <1>6, <1>7 DEF Granted

\* Steps that leave the stream alone, and the telescope too unless the schedule runs.
LEMMA StreamUntouched ==
    ASSUME ExecutorInvariant, UNCHANGED <<stream, recorderBusy, active>>,
           active \/ UNCHANGED telescope
    PROVE  Granted
BY DEF Granted, RecorderFed, ExecutorInvariant, TypeOK, StreamNested, Nested

\* The end of the schedule, from a stream that is not more than what it was.
LEMMA EndGranted ==
    ASSUME active, NEW f \in Flags, Nested(f),
           f.started => stream.started, f.scan => stream.scan, f.prepared => stream.prepared,
           NEW events, NEW tel, CleanSchedule(events, f, tel)
    PROVE  Granted
<1>1. PICK o \in DisableOutcomes(f) : stream' = o.flags
  BY DEF CleanSchedule, Disabled, Possible
<1>2. Below(stream', f)
  BY <1>1, DisableShortens
<1>3. Below(stream', stream)
  BY <1>2 DEF Below
<1> QED
  BY <1>3 DEF CleanSchedule, Granted

\* A subscan that is given up, or the schedule with it, from a stream that has at most
\* opened a scan.
LEMMA AbandonGranted ==
    ASSUME ExecutorInvariant, active, NEW f \in Flags, Nested(f),
           f.started => stream.started, f.scan => stream.prepared,
           NEW tel, NEW scanID, CleanScan(f, tel, scanID)
    PROVE  Granted
<1>1. PICK o \in Disabled(f), c \in Closed(tel) :
          \/ AbandonSubScan(o.flags, c.telescope, scanID)
          \/ CleanSchedule(Remaining, o.flags, c.telescope)
  BY DEF CleanScan
<1>2. Below(o.flags, f)
  BY DisableShortens DEF Disabled, Possible
<1>3. Nested(stream)
  BY DEF ExecutorInvariant, StreamNested
<1>4. CASE AbandonSubScan(o.flags, c.telescope, scanID)
  <2>1. stream' = o.flags /\ active' = active /\ recorderBusy' = recorderBusy
    BY <1>4 DEF AbandonSubScan
  <2>2. ~stream'.started /\ (stream'.scan => stream.prepared)
    BY <1>2, <1>3, <2>1 DEF Below, Nested
  <2> QED
    BY <2>1, <2>2 DEF Granted, RecorderFed
<1>5. CASE CleanSchedule(Remaining, o.flags, c.telescope)
  <2>1. /\ o.flags \in Flags /\ Nested(o.flags)
        /\ o.flags.started => stream.started
        /\ o.flags.scan => stream.scan
        /\ o.flags.prepared => stream.prepared
    BY <1>2, <1>3 DEF Below, Nested
  <2> QED
    BY <1>5, <2>1, EndGranted
<1> QED
  BY <1>1, <1>4, <1>5

\* What closing the previous scan on the recorder leaves is no more than there was,
LEMMA PreviousShort ==
    ASSUME stream \in Flags, Nested(stream), NEW o \in PreviousClosed
    PROVE  /\ o.flags \in Flags /\ Nested(o.flags)
           /\ o.flags.started => stream.started
           /\ o.flags.scan => stream.prepared
<1>1. CASE o = Outcome(stream, Nothing)
  BY <1>1 DEF Outcome, Nested
<1>2. CASE o \in DisableOutcomes(stream)
  <2>1. Below(o.flags, stream)
    BY <1>2, DisableShortens
  <2> QED
    BY <2>1 DEF Below, Nested
<1> QED
  BY <1>1, <1>2 DEF PreviousClosed, Disabled, Possible

\* ... also when the preparation of the recording fails after it.
LEMMA FailedPreparationShort ==
    ASSUME stream \in Flags, Nested(stream), NEW f \in FailedPreparations
    PROVE  (f.started => stream.started) /\ (f.scan => stream.prepared)
<1>1. \/ \E o \in PreviousClosed : f = o.flags
      \/ \E o \in PreviousClosed : \E e \in EnableOutcomes(o.flags) : f = e.flags
  BY DEF FailedPreparations
<1>2. ASSUME NEW o \in PreviousClosed, NEW e \in EnableOutcomes(o.flags), f = e.flags
      PROVE  f.started = o.flags.started /\ f.scan = o.flags.scan
  BY <1>2, PreviousShort, EnableStartsNothing, EnableOpensNothing
<1> QED
  BY <1>1, <1>2, PreviousShort

LEMMA QuietGranted ==
    ASSUME ExecutorInvariant,
           \/ Enter \/ RunInitProc \/ WaitStartTime \/ Suspend \/ HaltHere \/ SelectSubScan
           \/ SkipSubScan \/ AcceptSubScan \/ CommandSubScan \/ RunPreScan \/ AwaitTracking
           \/ SkipLate \/ StartWithoutRecording \/ ScheduleStop \/ NothingToStop \/ AwaitCompletion
           \/ Complete \/ RunPostScan \/ CloseSubScan \/ AwaitClosing \/ FinalizeRecording
           \/ (\E force \in BOOLEAN : StopSchedule(force))
           \/ RestartFires \/ CommandDone \/ CommandRaises
           \/ Tracks \/ CloseTimeElapses \/ UNCHANGED vars
    PROVE  Granted
<1> USE DEF control, position, recording, site, timing
<1>1. pc = "in" => active
  BY DEF ExecutorInvariant
<1>2. CASE Enter \/ RunInitProc \/ WaitStartTime \/ Suspend \/ HaltHere \/ SelectSubScan
  BY <1>2, StreamUntouched DEF Enter, RunInitProc, WaitStartTime, Suspend, HaltHere, SelectSubScan
<1>3. CASE \/ SkipSubScan \/ AcceptSubScan \/ CommandSubScan \/ RunPreScan \/ AwaitTracking
           \/ SkipLate
  BY <1>1, <1>3, StreamUntouched
     DEF SkipSubScan, AcceptSubScan, CommandSubScan, RunPreScan, AwaitTracking, SkipLate, At
<1>4. CASE StartWithoutRecording \/ ScheduleStop \/ NothingToStop \/ AwaitCompletion \/ Complete
  BY <1>4, StreamUntouched
     DEF StartWithoutRecording, ScheduleStop, NothingToStop, AwaitCompletion, Complete
<1>5. CASE RunPostScan \/ CloseSubScan \/ AwaitClosing \/ FinalizeRecording
  BY <1>1, <1>5, StreamUntouched DEF RunPostScan, CloseSubScan, AwaitClosing, FinalizeRecording, At
<1>6. CASE \/ (\E force \in BOOLEAN : StopSchedule(force))
           \/ RestartFires \/ CommandDone \/ CommandRaises
  BY <1>6, StreamUntouched DEF StopSchedule, RestartFires, CommandDone, CommandRaises
<1>7. CASE Tracks \/ CloseTimeElapses \/ UNCHANGED vars
  BY <1>7, StreamUntouched DEF Tracks, CloseTimeElapses, vars
<1> QED
  BY <1>2, <1>3, <1>4, <1>5, <1>6, <1>7

\* The start of a schedule, the calls that prepare, start and stop a recording, and
\* the recorder.
LEMMA CallsGranted ==
    ASSUME ExecutorInvariant,
           \/ (\E i \in Counters : StartSchedule(i) \/ StartWithoutLog(i)) \/ StartRefused
           \/ PrepareRecording \/ PrepareWithoutRecording \/ StartRecording
           \/ StopFires \/ RecorderDrains
    PROVE  Granted
<1> USE DEF control, position, recording, site, timing
<1>1. /\ stream \in Flags /\ Nested(stream) /\ active \in BOOLEAN /\ telescope \in BOOLEAN
      /\ pc = "in" => active
  BY DEF ExecutorInvariant, TypeOK, StreamNested
<1>2. ASSUME NEW o \in PreviousClosed
      PROVE  /\ o.flags \in Flags /\ Nested(o.flags)
             /\ o.flags.started => stream.started
             /\ o.flags.scan => stream.prepared
  BY <1>1, PreviousShort
<1>3. CASE (\E i \in Counters : StartSchedule(i) \/ StartWithoutLog(i)) \/ StartRefused
  BY <1>1, <1>3 DEF StartSchedule, StartWithoutLog, StartRefused, Granted
<1>4. CASE PrepareRecording
  <2>1. PICK o \in PreviousClosed : \E e \in EnableOutcomes(o.flags) : stream' = e.flags
    BY <1>4 DEF PrepareRecording
  <2>2. PICK e \in EnableOutcomes(o.flags) : stream' = e.flags
    BY <2>1
  <2>3. stream'.scan = o.flags.scan /\ stream'.started = o.flags.started
    BY <1>2, <2>2, EnableOpensNothing, EnableStartsNothing
  <2> QED
    BY <1>1, <1>2, <1>4, <2>3 DEF PrepareRecording, At, Granted, RecorderFed
<1>5. CASE PrepareWithoutRecording
  <2>1. PICK o \in PreviousClosed : stream' = o.flags
    BY <1>5 DEF PrepareWithoutRecording
  <2> QED
    BY <1>1, <1>2, <1>5, <2>1 DEF PrepareWithoutRecording, At, Granted, RecorderFed
<1>6. CASE StartRecording
  <2>1. PICK o \in StartOutcomes(stream) : Succeeds(o) /\ stream' = o.flags
    BY <1>6 DEF StartRecording
  <2>2. ~stream.started /\ (stream'.scan => stream.prepared)
    BY <1>1, <2>1, StartNeedsStopped, StartNeedsPrepared
  <2>3. active /\ active' /\ recorderBusy'
    BY <1>1, <1>6 DEF StartRecording, At
  <2>4. stream'.started
    BY <1>1, <2>1, StartStarts
  <2> QED
    BY <2>2, <2>3, <2>4 DEF Granted, RecorderFed
<1>7. CASE StopFires
  <2>1. active
    BY <1>7 DEF StopFires, ExecutorInvariant, StopEventOwned
  <2>2. PICK o \in StopOutcomes(stream) : stream' = o.flags
    BY <1>7 DEF StopFires, Possible
  <2>3. Nested(stream') /\ (stream'.started => stream.started)
    BY <1>1, <2>2, StopStops
  <2>4. stream'.scan => stream.prepared
    BY <1>1, <2>2, StopOpensNothing DEF Nested
  <2> QED
    BY <1>7, <2>1, <2>3, <2>4 DEF StopFires, Granted, RecorderFed
<1>8. CASE RecorderDrains
  BY <1>8 DEF RecorderDrains, Granted
<1> QED
  BY <1>3, <1>4, <1>5, <1>6, <1>7, <1>8

\* The ways out of a failure, the stop and the end of a schedule.
LEMMA CleaningGranted ==
    ASSUME ExecutorInvariant,
           \/ StopRequested \/ StartTimeRefused \/ GiveUp \/ CompleteSchedule \/ StopRefused
           \/ CheckFails \/ CommandFails \/ PreparationFails \/ StartFails \/ StopFailed \/ CloseFails
    PROVE  Granted
<1>1. /\ stream \in Flags /\ Nested(stream)
      /\ pc = "in" => active
  BY DEF ExecutorInvariant, TypeOK, StreamNested
<1>2. CASE StopRequested \/ StartTimeRefused \/ GiveUp \/ CompleteSchedule \/ StopRefused
  BY <1>1, <1>2, EndGranted
     DEF StopRequested, StartTimeRefused, GiveUp, CompleteSchedule, StopRefused, At
<1>3. CASE CheckFails \/ CommandFails \/ StopFailed \/ CloseFails
  <2>1. stream.scan => stream.prepared
    BY <1>1 DEF Nested
  <2> QED
    BY <1>1, <1>3, <2>1, AbandonGranted DEF CheckFails, CommandFails, StopFailed, CloseFails, At
<1>4. CASE PreparationFails
  <2>1. PICK f \in FailedPreparations : CleanScan(f, telescope, lastScanID)
    BY <1>4 DEF PreparationFails
  <2>2. f \in Flags /\ Nested(f)
    BY <1>1, FailedPreparationChain
  <2>3. (f.started => stream.started) /\ (f.scan => stream.prepared)
    BY <1>1, FailedPreparationShort
  <2> QED
    BY <1>1, <1>4, <2>1, <2>2, <2>3, AbandonGranted DEF PreparationFails, At
<1>5. CASE StartFails
  <2>1. PICK o \in StartOutcomes(stream) : ~Succeeds(o) /\ CleanScan(o.flags, telescope, lastScanID)
    BY <1>5 DEF StartFails
  <2>2. o.flags \in Flags /\ Nested(o.flags)
    BY <1>1, StartKeepsChain
  <2>3. (o.flags.started => stream.started) /\ (o.flags.scan => stream.prepared)
    BY <1>1, <2>1, StartNeedsStopped, StartNeedsPrepared
  <2> QED
    BY <1>1, <1>5, <2>1, <2>2, <2>3, AbandonGranted DEF StartFails, At
<1> QED
  BY <1>2, <1>3, <1>4, <1>5

\* The executor does with the stream, the telescope and the recorder only what the core
\* expects of a schedule (ScheduleCalls, ScheduleEnds, StartSchedule of CoreRecording),
\* also where several calls fail one after the other: what is proved there of clients
\* and a schedule holds of this executor.
THEOREM CoreStepsOnly == Spec => [][Core!Next]_(Core!vars)
<1>1. ASSUME ExecutorInvariant, [Next]_vars
      PROVE  Granted
  BY <1>1, QuietGranted, CallsGranted, CleaningGranted DEF Next, RunLoop, Operator
<1>2. ExecutorInvariant /\ ExecutorInvariant' /\ [Next]_vars => [Core!Next]_(Core!vars)
  BY <1>1, GrantedSteps
<1> QED
  BY <1>2, InvariantHolds, PTL DEF Spec
================================================================================
