------------------------------- MODULE CoreProofs -------------------------------
(***************************************************************************)
(* The safety of the recording operations for any number of clients, every *)
(* set of commands and every set of faults.                                *)
(***************************************************************************)
EXTENDS CoreRecording, StreamOpsProofs, SequenceTheorems

\* The part of the type invariant about the clients.
JobsTyped ==
    /\ at \in [Clients -> Places]
    /\ job \in [Clients -> Seq(Operations)]
    /\ \A c \in Clients : (at[c] = "idle") <=> (job[c] = <<>>)

\* The ways an operation goes on or ends disturb the client itself only.
LEMMA Moves ==
    ASSUME TypeOK, NEW c \in Clients, at[c] # "idle",
           \/ \E place \in Places \ {"idle"} : Goes(c, place)
           \/ Returns(c)
           \/ Raises(c)
    PROVE  JobsTyped' /\ \A d \in Clients \ {c} : at'[d] = at[d]
<1>1. job[c] \in Seq(Operations) /\ job[c] # <<>>
  BY DEF TypeOK
<1>2. ASSUME NEW place \in Places \ {"idle"}, Goes(c, place)
      PROVE  JobsTyped' /\ \A d \in Clients \ {c} : at'[d] = at[d]
  BY <1>1, <1>2 DEF Goes, TypeOK, JobsTyped
<1>3. CASE Returns(c)
  <2>1. Tail(job[c]) \in Seq(Operations) /\ (Tail(job[c]) = <<>> <=> ~(Len(job[c]) > 1))
    <3>1. Tail(job[c]) \in Seq(Operations) /\ Len(Tail(job[c])) = Len(job[c]) - 1 /\ Len(job[c]) \in Nat
      BY <1>1, HeadTailProperties, LenProperties
    <3>2. Tail(job[c]) = <<>> <=> Len(Tail(job[c])) = 0
      BY <3>1, EmptySeq
    <3>3. Len(job[c]) # 0
      BY <1>1, EmptySeq
    <3>4. \A m, n \in Nat : m = n - 1 /\ n # 0 => (m = 0 <=> ~(n > 1))
      OBVIOUS
    <3>5. Len(Tail(job[c])) \in Nat
      BY <3>1, LenProperties
    <3> QED
      BY <3>1, <3>2, <3>3, <3>4, <3>5, Zenon
  <2>2. "idle" \in Places /\ "ready" \in Places /\ "ready" # "idle"
    BY DEF Places
  <2> QED
    BY <1>3, <2>1, <2>2 DEF Returns, TypeOK, JobsTyped
<1>4. CASE Raises(c)
  <2>1. "idle" \in Places /\ <<>> \in Seq(Operations)
    BY DEF Places
  <2> QED
    BY <1>4, <2>1 DEF Raises, TypeOK, JobsTyped
<1> QED
  BY <1>2, <1>3, <1>4

\* What every step keeps typed.
SiteTyped ==
    /\ telescope \in BOOLEAN
    /\ abort \in BOOLEAN
    /\ recorderBusy \in BOOLEAN
    /\ schedule \in {"off", "closing", "active"}

\* A step that leaves the stream alone, and those in charge in charge.
LEMMA QuietStep ==
    ASSUME CoreInvariant, JobsTyped', SiteTyped',
           UNCHANGED <<stream, author>>,
           schedule = "active" => schedule' = "active",
           Faults \cap {"stop", "timer"} = {} =>
               \A d \in Clients : InCharge(d) => InCharge(d)'
    PROVE  CoreInvariant'
<1>1. TypeOK'
  BY DEF CoreInvariant, TypeOK, JobsTyped, SiteTyped
<1>2. SomebodyInCharge'
  BY DEF CoreInvariant, SomebodyInCharge
<1>3. StreamNested'
  BY DEF CoreInvariant, StreamNested
<1> QED
  BY <1>1, <1>2, <1>3 DEF CoreInvariant

\* A step that leaves the stream stopped.
LEMMA StoppedStep ==
    ASSUME CoreInvariant, JobsTyped', SiteTyped', UNCHANGED author,
           stream' \in Flags, Nested(stream'), ~stream'.started
    PROVE  CoreInvariant'
BY DEF CoreInvariant, TypeOK, JobsTyped, SiteTyped, SomebodyInCharge, StreamNested

\* A step that does not start the stream, and leaves those in charge in charge.
LEMMA NotStartedStep ==
    ASSUME CoreInvariant, JobsTyped', SiteTyped', UNCHANGED author,
           stream' \in Flags, Nested(stream'), stream'.started => stream.started,
           schedule = "active" => schedule' = "active",
           Faults \cap {"stop", "timer"} = {} =>
               \A d \in Clients : InCharge(d) => InCharge(d)'
    PROVE  CoreInvariant'
BY DEF CoreInvariant, TypeOK, JobsTyped, SiteTyped, SomebodyInCharge, StreamNested

LEMMA PlaceNames ==
    {"idle", "ready", "waiting", "closing", "checked", "started", "recording", "aborted",
     "draining", "delay"} \subseteq Places
BY DEF Places

\* A client that is not in charge moves.
LEMMA OthersInCharge ==
    ASSUME NEW c \in Clients, ~InCharge(c), \A d \in Clients \ {c} : at'[d] = at[d]
    PROVE  \A d \in Clients : InCharge(d) => InCharge(d)'
BY DEF InCharge

--------------------------------------------------------------------------------
(* The steps.                                                              *)

\* The waits, and the operations on the telescope.
LEMMA WaitsKeep ==
    ASSUME CoreInvariant, NEW c \in Clients,
           \/ Antenna(c) \/ BeginWait(c) \/ EndWait(c) \/ AbortWait(c)
           \/ BeginScan(c) \/ EndScan(c)
           \/ CheckRecording(c) \/ Drain(c) \/ EndDelay(c)
    PROVE  CoreInvariant'
<1>1. at[c] \in {"ready", "waiting", "closing", "delay", "draining"}
  BY DEF Antenna, BeginWait, EndWait, AbortWait, BeginScan, EndScan, CheckRecording, Drain, EndDelay,
         Doing
<1>2. at[c] # "idle" /\ ~InCharge(c)
  BY <1>1 DEF InCharge
<1>3. (\E place \in Places \ {"idle"} : Goes(c, place)) \/ Returns(c) \/ Raises(c)
  BY PlaceNames DEF Antenna, BeginWait, EndWait, AbortWait, BeginScan, EndScan, CheckRecording, Drain,
                    EndDelay, BeginsWait, CommandScan
<1>4. JobsTyped' /\ \A d \in Clients \ {c} : at'[d] = at[d]
  BY <1>2, <1>3, Moves DEF CoreInvariant
<1>5. SiteTyped' /\ UNCHANGED <<stream, author, schedule>>
  BY DEF Antenna, BeginWait, EndWait, AbortWait, BeginScan, EndScan, CheckRecording, Drain, EndDelay,
         BeginsWait, CommandScan, SeesAbort, SiteTyped, CoreInvariant, TypeOK
<1> QED
  BY <1>2, <1>4, <1>5, OthersInCharge, QuietStep

LEMMA InitRecordingKeeps ==
    ASSUME CoreInvariant, NEW c \in Clients, InitRecording(c)
    PROVE  CoreInvariant'
<1>1. at[c] # "idle" /\ ~InCharge(c)
  BY DEF InitRecording, Doing, InCharge
<1>2. Returns(c) \/ Raises(c)
  BY DEF InitRecording
<1>3. JobsTyped' /\ \A d \in Clients \ {c} : at'[d] = at[d]
  BY <1>1, <1>2, Moves DEF CoreInvariant
<1>4. SiteTyped' /\ UNCHANGED <<author, schedule>>
  BY DEF InitRecording, SiteTyped, CoreInvariant, TypeOK
<1>5. CASE UNCHANGED stream
  BY <1>1, <1>3, <1>4, <1>5, OthersInCharge, QuietStep
<1>6. ASSUME NEW o \in EnableOutcomes(NoStream), stream' = o.flags
      PROVE  CoreInvariant'
  <2>1. NoStream \in Flags /\ Nested(NoStream) /\ ~NoStream.started
    BY DEF NoStream, Flags, Nested
  <2>2. stream' \in Flags /\ Nested(stream') /\ ~stream'.started
    BY <1>6, <2>1, EnableStartsNothing
  <2> QED
    BY <1>3, <1>4, <2>2, StoppedStep
<1> QED
  BY <1>5, <1>6 DEF InitRecording, Possible

LEMMA RecordKeeps ==
    ASSUME CoreInvariant, NEW c \in Clients, Record(c)
    PROVE  CoreInvariant'
<1>1. at[c] # "idle" /\ ~InCharge(c)
  BY DEF Record, InCharge
<1>2. PICK o \in StartOutcomes(stream) :
          /\ stream' = o.flags
          /\ IF Succeeds(o)
             THEN Goes(c, "started") /\ author' = c /\ recorderBusy' = TRUE
             ELSE Raises(c) /\ UNCHANGED <<author, recorderBusy>>
  BY DEF Record
<1>3. stream' \in Flags /\ Nested(stream')
  BY <1>2, StartKeepsChain DEF CoreInvariant, TypeOK, StreamNested
<1>4. JobsTyped' /\ \A d \in Clients \ {c} : at'[d] = at[d]
  <2>1. (\E place \in Places \ {"idle"} : Goes(c, place)) \/ Raises(c)
    BY <1>2, PlaceNames
  <2> QED
    BY <1>1, <2>1, Moves DEF CoreInvariant
<1>5. SiteTyped' /\ UNCHANGED schedule
  BY <1>2 DEF Record, SiteTyped, CoreInvariant, TypeOK
<1>6. CASE Succeeds(o)
  <2>1. at'[c] = "started" /\ author' = c
    BY <1>2, <1>6 DEF Goes, CoreInvariant, TypeOK
  <2>2. SomebodyInCharge'
    BY <2>1 DEF SomebodyInCharge, InCharge
  <2> QED
    BY <1>3, <1>4, <1>5, <2>1, <2>2 DEF CoreInvariant, TypeOK, JobsTyped, SiteTyped, StreamNested
<1>7. CASE ~Succeeds(o)
  <2>1. stream'.started = stream.started
    BY <1>2, <1>7, StartNeedsStopped DEF CoreInvariant, TypeOK
  <2>2. UNCHANGED author
    BY <1>2, <1>7
  <2> QED
    BY <1>1, <1>3, <1>4, <1>5, <2>1, <2>2, OthersInCharge, NotStartedStep
<1> QED
  BY <1>6, <1>7

\* A client that records stays in charge until it stops the stream.
LEMMA AwaitEndKeeps ==
    ASSUME CoreInvariant, NEW c \in Clients, AwaitEnd(c) \/ AbortRecording(c)
    PROVE  CoreInvariant'
<1>1. at[c] # "idle"
  BY DEF AwaitEnd, AbortRecording
<1>2. (\E place \in Places \ {"idle"} : Goes(c, place)) \/ Raises(c)
  BY PlaceNames DEF AwaitEnd, AbortRecording, BeginsWait
<1>3. JobsTyped' /\ \A d \in Clients \ {c} : at'[d] = at[d]
  BY <1>1, <1>2, Moves DEF CoreInvariant
<1>4. SiteTyped' /\ UNCHANGED <<stream, author, schedule>>
  BY DEF AwaitEnd, AbortRecording, BeginsWait, SeesAbort, SiteTyped, CoreInvariant, TypeOK
<1>5. Faults \cap {"stop", "timer"} = {} => InCharge(c)'
  <2>1. ASSUME "timer" \notin Faults
        PROVE  Goes(c, "recording") \/ Goes(c, "aborted")
    BY <2>1 DEF AwaitEnd, AbortRecording, BeginsWait
  <2> QED
    BY <2>1 DEF Goes, InCharge, CoreInvariant, TypeOK
<1>6. Faults \cap {"stop", "timer"} = {} => \A d \in Clients : InCharge(d) => InCharge(d)'
  BY <1>3, <1>5 DEF InCharge
<1> QED
  BY <1>3, <1>4, <1>6, QuietStep

LEMMA StopRecordingKeeps ==
    ASSUME CoreInvariant, NEW c \in Clients, StopRecording(c)
    PROVE  CoreInvariant'
<1>1. at[c] # "idle"
  BY DEF StopRecording
<1>2. PICK o \in StopOutcomes(stream) :
          /\ "stop" \in Faults \/ Succeeds(o)
          /\ stream' = o.flags
          /\ IF Succeeds(o) /\ at[c] = "recording" THEN Goes(c, "draining") ELSE Raises(c)
  BY DEF StopRecording
<1>3. JobsTyped'
  <2>1. (\E place \in Places \ {"idle"} : Goes(c, place)) \/ Raises(c)
    BY <1>2, PlaceNames
  <2> QED
    BY <1>1, <2>1, Moves DEF CoreInvariant
<1>4. SiteTyped' /\ UNCHANGED <<author, schedule>>
  BY DEF StopRecording, SiteTyped, CoreInvariant, TypeOK
<1>5. /\ stream' \in Flags /\ Nested(stream')
      /\ stream'.started => stream.started
      /\ Succeeds(o) => ~stream'.started
  BY <1>2, StopStops DEF CoreInvariant, TypeOK, StreamNested
<1>6. CASE Succeeds(o)
  BY <1>3, <1>4, <1>5, <1>6, StoppedStep
<1>7. CASE "stop" \in Faults
  BY <1>3, <1>4, <1>5, <1>7, NotStartedStep
<1> QED
  BY <1>2, <1>6, <1>7

LEMMA TerminateScanKeeps ==
    ASSUME CoreInvariant, NEW c \in Clients, TerminateScan(c)
    PROVE  CoreInvariant'
<1>1. at[c] # "idle" /\ ~InCharge(c)
  BY DEF TerminateScan, Doing, InCharge
<1>2. Returns(c) \/ Raises(c)
  BY DEF TerminateScan
<1>3. JobsTyped' /\ \A d \in Clients \ {c} : at'[d] = at[d]
  BY <1>1, <1>2, Moves DEF CoreInvariant
<1>4. SiteTyped' /\ UNCHANGED <<author, schedule>>
  BY DEF TerminateScan, SiteTyped, CoreInvariant, TypeOK
<1>5. stream \in Flags /\ Nested(stream)
  BY DEF CoreInvariant, TypeOK, StreamNested
<1>6. CASE UNCHANGED stream
  BY <1>1, <1>3, <1>4, <1>6, OthersInCharge, QuietStep
<1>7. ASSUME NEW o \in StopScanOutcomes(stream), ~Succeeds(o), stream' = o.flags
      PROVE  CoreInvariant'
  BY <1>5, <1>6, <1>7, StopScanCloses
<1>8. ASSUME NEW o \in StopScanOutcomes(stream), NEW p \in DisableOutcomes(o.flags), stream' = p.flags
      PROVE  CoreInvariant'
  <2>1. stream' \in Flags /\ Nested(stream') /\ ~stream'.started
    BY <1>5, <1>8, StopScanCloses, DisableStopsAnyway
  <2> QED
    BY <1>3, <1>4, <2>1, StoppedStep
<1> QED
  BY <1>6, <1>7, <1>8 DEF TerminateScan, Possible

\* The schedule is in charge while it is active; its end stops the stream.
LEMMA ScheduleKeeps ==
    ASSUME CoreInvariant, StartSchedule \/ ScheduleStarts \/ ScheduleCalls \/ ScheduleEnds
    PROVE  CoreInvariant'
<1>1. JobsTyped' /\ UNCHANGED at
  BY DEF StartSchedule, ScheduleStarts, ScheduleCalls, ScheduleEnds, CoreInvariant, TypeOK, JobsTyped
<1>2. SiteTyped'
  BY DEF StartSchedule, ScheduleStarts, ScheduleCalls, ScheduleEnds, SeesAbort, CoreInvariant, TypeOK,
         SiteTyped
<1>3. stream \in Flags /\ Nested(stream)
  BY DEF CoreInvariant, TypeOK, StreamNested
<1>4. \A d \in Clients : InCharge(d) => InCharge(d)'
  BY <1>1 DEF InCharge
<1>5. CASE StartSchedule \/ ScheduleStarts
  <2>1. UNCHANGED <<stream, author>> /\ schedule # "active"
    BY <1>5 DEF StartSchedule, ScheduleStarts
  <2> QED
    BY <1>1, <1>2, <1>4, <2>1, QuietStep
<1>6. CASE ScheduleCalls
  <2>1. PICK o \in DisableOutcomes(stream) \cup EnableOutcomes(stream) \cup StartOutcomes(stream)
                   \cup StopOutcomes(stream) :
            /\ stream' = o.flags
            /\ IF o.flags.started /\ ~stream.started
               THEN author' = "schedule" /\ recorderBusy' = TRUE
               ELSE UNCHANGED <<author, recorderBusy>>
    BY <1>6 DEF ScheduleCalls
  <2>2. stream' \in Flags /\ Nested(stream')
    BY <1>3, <2>1, DisableStops, EnableStartsNothing, StartKeepsChain, StopStops
  <2>3. schedule = "active" /\ schedule' = "active"
    BY <1>6 DEF ScheduleCalls
  <2>4. CASE stream'.started /\ ~stream.started
    <3>1. author' = "schedule"
      BY <2>1, <2>4
    <3>2. SomebodyInCharge'
      BY <2>3, <3>1 DEF SomebodyInCharge
    <3> QED
      BY <1>1, <1>2, <2>2, <3>1, <3>2 DEF CoreInvariant, TypeOK, JobsTyped, SiteTyped, StreamNested
  <2>5. CASE stream'.started => stream.started
    <3>1. UNCHANGED author
      BY <2>1, <2>5
    <3> QED
      BY <1>1, <1>2, <1>4, <2>2, <2>3, <2>5, <3>1, NotStartedStep
  <2> QED
    BY <2>4, <2>5
<1>7. CASE ScheduleEnds
  <2>1. PICK o \in DisableOutcomes(stream) : stream' = o.flags
    BY <1>7 DEF ScheduleEnds
  <2>2. stream' \in Flags /\ Nested(stream') /\ ~stream'.started
    BY <1>3, <2>1, DisableStops
  <2>3. UNCHANGED author
    BY <1>7 DEF ScheduleEnds
  <2> QED
    BY <1>1, <1>2, <2>2, <2>3, StoppedStep
<1> QED
  BY <1>5, <1>6, <1>7

\* The commands of the clients, the abort and the recorder.
LEMMA OthersKeep ==
    ASSUME CoreInvariant,
           (\E c \in Clients, task \in Tasks : Submit(c, task)) \/ Abort \/ RecorderDrains
    PROVE  CoreInvariant'
<1>1. CASE Abort \/ RecorderDrains
  <2>1. JobsTyped' /\ SiteTyped' /\ UNCHANGED <<stream, author, schedule, at>>
    BY <1>1 DEF Abort, RecorderDrains, CoreInvariant, TypeOK, JobsTyped, SiteTyped
  <2> QED
    BY <2>1, QuietStep DEF InCharge
<1>2. ASSUME NEW c \in Clients, NEW task \in Tasks, Submit(c, task)
      PROVE  CoreInvariant'
  <2>1. task \in Seq(Operations) /\ task # <<>>
    BY <1>2, CoreAssumption DEF Submit
  <2>2. JobsTyped' /\ \A d \in Clients \ {c} : at'[d] = at[d]
    BY <1>2, <2>1, PlaceNames DEF Submit, CoreInvariant, TypeOK, JobsTyped
  <2>3. SiteTyped' /\ UNCHANGED <<stream, author, schedule>> /\ ~InCharge(c)
    BY <1>2 DEF Submit, CoreInvariant, TypeOK, SiteTyped, InCharge
  <2> QED
    BY <2>2, <2>3, OthersInCharge, QuietStep
<1> QED
  BY <1>1, <1>2

--------------------------------------------------------------------------------

\* The invariant of the core holds in every reachable state.
THEOREM CoreInvariantHolds == Spec => []CoreInvariant
<1>1. Init => CoreInvariant
  <2> SUFFICES ASSUME Init
               PROVE  CoreInvariant
    OBVIOUS
  <2>1. stream \in Flags /\ Nested(stream) /\ ~stream.started
    BY DEF Init, NoStream, Flags, Nested
  <2>2. /\ at \in [Clients -> Places]
        /\ job \in [Clients -> Seq(Operations)]
        /\ \A c \in Clients : (at[c] = "idle") <=> (job[c] = <<>>)
    <3>1. <<>> \in Seq(Operations)
      OBVIOUS
    <3> QED
      BY <3>1, PlaceNames DEF Init
  <2>3. TypeOK
    BY <2>1, <2>2 DEF Init, TypeOK
  <2> QED
    BY <2>1, <2>3 DEF CoreInvariant, SomebodyInCharge, StreamNested
<1>2. CoreInvariant /\ [Next]_vars => CoreInvariant'
  <2> SUFFICES ASSUME CoreInvariant, [Next]_vars
               PROVE  CoreInvariant'
    OBVIOUS
  <2>1. ASSUME NEW c \in Clients, Advance(c)
        PROVE  CoreInvariant'
    BY <2>1, WaitsKeep, InitRecordingKeeps, RecordKeeps, AwaitEndKeeps, StopRecordingKeeps,
       TerminateScanKeeps DEF Advance
  <2>2. CASE StartSchedule \/ ScheduleStarts \/ ScheduleCalls \/ ScheduleEnds
    BY <2>2, ScheduleKeeps
  <2>3. CASE (\E c \in Clients, task \in Tasks : Submit(c, task)) \/ Abort \/ RecorderDrains
    BY <2>3, OthersKeep
  <2>4. CASE UNCHANGED vars
    BY <2>4 DEF vars, CoreInvariant, TypeOK, SomebodyInCharge, StreamNested, InCharge
  <2> QED
    BY <2>1, <2>2, <2>3, <2>4 DEF Next
<1> QED
  BY <1>1, <1>2, PTL DEF Spec

\* The clients, their jobs and the flags of the stream stay in their domains (the core
\* and its recording operations), for any number of clients.
THEOREM CoreTypeCorrect == Spec => []TypeOK
BY CoreInvariantHolds, PTL DEF CoreInvariant

\* Every started stream has somebody in charge of stopping it (_startRecording,
\* cleanSchedule), for any number of clients.
THEOREM InChargeAlways == Spec => []SomebodyInCharge
BY CoreInvariantHolds, PTL DEF CoreInvariant

\* The stream flags stay a chain under any interleaving of clients and schedule
\* (_initRecording, _startRecording, _terminateScan, the executor).
THEOREM CoreStreamChain == Spec => []StreamNested
BY CoreInvariantHolds, PTL DEF CoreInvariant

\* A recording under way is never taken over (startDataTansfer).
THEOREM NoTakeover == Spec => OneAtATime
<1>1. CoreInvariant /\ [Next]_vars => [stream.started /\ stream'.started => author' = author]_vars
  <2> SUFFICES ASSUME CoreInvariant, Next, stream.started, stream'.started
               PROVE  author' = author
    OBVIOUS
  <2>1. ASSUME NEW c \in Clients, Record(c)
        PROVE  author' = author
    BY <2>1, StartNeedsStopped DEF Record, CoreInvariant, TypeOK
  <2>2. CASE ScheduleCalls
    BY <2>2 DEF ScheduleCalls
  <2> QED
    BY <2>1, <2>2 DEF Next, Advance, Antenna, BeginWait, EndWait, AbortWait, BeginScan, EndScan,
       InitRecording, CheckRecording, AwaitEnd, AbortRecording, StopRecording, Drain, EndDelay,
       TerminateScan, Submit, Abort, StartSchedule, ScheduleStarts, ScheduleEnds, RecorderDrains
<1> QED
  BY <1>1, CoreInvariantHolds, PTL DEF Spec, OneAtATime
================================================================================
