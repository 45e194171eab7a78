------------------------------ MODULE AntennaBoss ------------------------------
(***************************************************************************)
(* The antenna boss (CBossCore): the operations that load a scan, the      *)
(* offsets, the thread that loads the points of the trajectory into the    *)
(* mount (CWorkingThread), the one that looks at the encoders              *)
(* (CWatchingThread) and the callback of the mount (CCallback).            *)
(*                                                                         *)
(* The operations and the working thread hold the mutex of CBossCore; the  *)
(* watching thread and the callback do not.  The working thread may wait   *)
(* for the mutex while an operation suspends and resumes it: a run of its  *)
(* that has begun is not stopped.                                          *)
(***************************************************************************)
EXTENDS SRTMount

CONSTANTS
    Targets,        \* what can be observed
    UserOffsets,    \* offsets that setOffsets is called with
    ScanOffsets,    \* offsets that a scan brings
    NoTarget, NoOffset,
    MaxCommands,    \* operations of the clients
    MaxFaults,      \* operations of the generators and of the mount that fail
    MaxSamples      \* samples of the watching thread

Frames == {"horizontal", "equatorial"}

ASSUME AntennaBounds ==
    /\ MaxCommands \in Nat /\ MaxFaults \in Nat /\ MaxSamples \in Nat
    /\ UserOffsets \cup ScanOffsets \subseteq [frame : Frames, arc : Nat]
    /\ NoTarget \notin Targets /\ NoOffset \notin ScanOffsets

VARIABLES
    boss,      \* CBossCore, but for the offsets
    offset,    \* m_userOffset, m_scanOffset, and their composition
    gens,      \* the primary generators: what each was configured with
    worker,    \* CWorkingThread
    watch,     \* CWatchingThread
    past,      \* history, see Past
    count      \* see MaxCommands, MaxFaults and MaxSamples

vars == <<mount, boss, offset, gens, worker, watch, past, count>>

Kinds   == {"sidereal", "otf"}
Offsets == [frame : Frames, arc : Nat]
Aims    == [kind : Kinds, target : Targets, offset : Offsets]

Zero(frame) == [frame |-> frame, arc |-> 0]
NoTrack == [kind |-> "none", target |-> NoTarget]

\* accepted:  the last startScan succeeded, and its scan is loaded still
\* doubt:     an operation that failed has changed the offsets of the generator
\* skipped:   a new table was begun while the subsystem was disabled
\* fresh:     a second may not have passed yet since the last startScan
Past == [accepted : BOOLEAN, doubt : BOOLEAN, skipped : BOOLEAN, fresh : BOOLEAN]

TypeOK ==
    /\ MountType(Aims) /\ Len(mount.table) <= MaxPoints
    /\ boss \in [gen : Kinds \cup {"none"},
                 last : [kind : Kinds \cup {"none"}, target : Targets \cup {NoTarget}],
                 newTracking : BOOLEAN, epoch : BOOLEAN, tracking : BOOLEAN,
                 enabled : BOOLEAN, preparing : BOOLEAN]
    /\ offset \in [user : Offsets, scan : Offsets, total : Offsets]
    /\ gens \in [Kinds -> [target : Targets \cup {NoTarget}, offset : Offsets]]
    /\ worker \in [suspended : BOOLEAN, waiting : BOOLEAN]
    /\ watch \in [pc : {"idle", "check"}, recent : BOOLEAN]
    /\ past \in Past
    /\ count \in [commands : 0 .. MaxCommands, faults : 0 .. MaxFaults,
                  samples : 0 .. MaxSamples]

\* CBossCore::initialize, CBossCore::execute
Init ==
    /\ MountInit
    /\ boss = [gen |-> "none", last |-> NoTrack, newTracking |-> TRUE, epoch |-> FALSE,
               tracking |-> FALSE, enabled |-> TRUE, preparing |-> FALSE]
    /\ offset = [user |-> Zero("horizontal"), scan |-> Zero("horizontal"),
                 total |-> Zero("horizontal")]
    /\ gens = [k \in Kinds |-> [target |-> NoTarget, offset |-> Zero("horizontal")]]
    /\ worker = [suspended |-> TRUE, waiting |-> FALSE]
    /\ watch = [pc |-> "idle", recent |-> FALSE]
    /\ past = [accepted |-> FALSE, doubt |-> FALSE, skipped |-> FALSE, fresh |-> FALSE]
    /\ count = [commands |-> 0, faults |-> 0, samples |-> 0]

--------------------------------------------------------------------------------
(* Offsets, and the trajectory.                                            *)

\* CBossCore::addOffsets: in different frames the offset of the scan prevails.
AddOffsets(user, scan) ==
    [frame |-> scan.frame, arc |-> IF user.frame = scan.frame THEN user.arc + scan.arc ELSE scan.arc]

Offset(user, scan) == [user |-> user, scan |-> scan, total |-> AddOffsets(user, scan)]
NoOffsets == Offset(Zero("horizontal"), Zero("horizontal"))

IsLoaded == boss.gen # "none"

\* The trajectory a generator computes.
Aim(kind, gen) == [kind |-> kind, target |-> gen.target, offset |-> gen.offset]

\* Where loadTrackingPoint, called with the point and with restart, may leave
\* the mount.  A disabled subsystem commands nothing, and does not tell.
LoadPoint(m, aim, clear) ==
    IF ~boss.enabled
    THEN {[mount |-> m, ok |-> TRUE, skipped |-> past.skipped \/ clear, faults |-> 0]}
    ELSE LET Kept(after, fault) ==
                 [mount |-> after, ok |-> FALSE, skipped |-> past.skipped, faults |-> fault]
         IN  IF ~Tracks(m) THEN {Kept(Refused(m), 0)}
             ELSE {[mount |-> Loaded(m, aim, clear), ok |-> TRUE,
                    skipped |-> past.skipped /\ ~clear, faults |-> 0],
                   Kept(m, 1), Kept(Refused(m), 1), Kept(Refused(Loaded(m, aim, clear)), 1)}

--------------------------------------------------------------------------------
(* Scans.  A request says what the client gave to startScan: the primary   *)
(* track, its secondary flag, the secondary track, the offsets to apply.   *)

Requests ==
    {r \in [type : Kinds \cup {"none"}, target : Targets \cup {NoTarget},
            secondary : BOOLEAN, second : Targets \cup {NoTarget},
            offset : ScanOffsets \cup {NoOffset}] :
        /\ (r.target = NoTarget) <=> (r.secondary \/ r.type = "none")
        /\ ~r.secondary => r.second = NoTarget}

Track(kind, target) == [kind |-> kind, target |-> target]

\* The secondary track: the one given, else the last one commanded.
SecondTrack(r) == IF r.second # NoTarget THEN Track("sidereal", r.second) ELSE boss.last

Supported(r) ==
    /\ r.type = "none" => r.secondary
    /\ r.secondary => r.type # "sidereal" /\ SecondTrack(r) # NoTrack

\* The track that is loaded: an OTF on a secondary track is centred on it.
FirstTrack(r) ==
    IF ~r.secondary THEN Track(r.type, r.target)
    ELSE IF r.type = "otf" THEN Track("otf", SecondTrack(r).target)
    ELSE SecondTrack(r)

\* Mutant: an OTF on a secondary track leaves the last track as it was.
LastTrackKept(r) == IF r.type = "otf" /\ r.secondary THEN boss.last ELSE FirstTrack(r)

\* What a later scan finds as the last track commanded.
LastTrack(r) == IF r.secondary THEN SecondTrack(r) ELSE FirstTrack(r)

\* Mutant: without offsets of the scan their frame is the one they have by default.
ScanOffsetDefault(r) == IF r.offset = NoOffset THEN Zero("horizontal") ELSE r.offset

ScanOffset(r) == IF r.offset = NoOffset THEN Zero(offset.user.frame) ELSE r.offset

\* The offsets the generator is given.
GenOffset(r) ==
    IF r.offset = NoOffset THEN offset.user ELSE AddOffsets(offset.user, r.offset)

\* prepareOTFSecondary uses a primary generator for the secondary track.
Secondary(r, g) ==
    IF r.type = "otf" /\ r.secondary
    THEN [g EXCEPT ![SecondTrack(r).kind] =
             [target |-> SecondTrack(r).target, offset |-> offset.user]]
    ELSE g

Prepared(r) ==
    [Secondary(r, gens) EXCEPT ![FirstTrack(r).kind] =
        [target |-> FirstTrack(r).target, offset |-> GenOffset(r)]]

--------------------------------------------------------------------------------
(* The operations.                                                         *)

Free == ~boss.preparing

Commands == Free /\ count.commands < MaxCommands /\ count' = [count EXCEPT !.commands = @ + 1]

\* An operation that counts and that may fail.
CommandFails ==
    /\ Free /\ count.commands < MaxCommands /\ count.faults < MaxFaults
    /\ count' = [count EXCEPT !.commands = @ + 1, !.faults = @ + 1]

\* A fault that was met where it was looked for.
Meets(faults) == count.faults + faults <= MaxFaults

Suspend == worker' = [worker EXCEPT !.suspended = TRUE]

Unloaded == [past EXCEPT !.accepted = FALSE, !.doubt = FALSE]

\* CBossCore::startScan: the old scan is unloaded,
BeginScan ==
    /\ Commands
    /\ Suspend
    /\ boss' = [boss EXCEPT !.preparing = TRUE, !.gen = "none"]
    /\ offset' = Offset(offset.user, Zero(offset.user.frame))
    /\ past' = Unloaded
    /\ UNCHANGED <<mount, gens, watch>>

\* ... the new one is not supported, or a generator refuses it: nothing is
\* loaded, and the working thread stays suspended,
RefuseScan ==
    /\ boss.preparing
    /\ \/ (\E r \in Requests : ~Supported(r)) /\ UNCHANGED count
       \/ count.faults < MaxFaults /\ count' = [count EXCEPT !.faults = @ + 1]
    /\ boss' = [boss EXCEPT !.preparing = FALSE]
    /\ UNCHANGED <<mount, offset, gens, worker, watch, past>>

\* ... or it is loaded (prepareScan).
LoadScan(r) ==
    /\ boss.preparing /\ Supported(r)
    /\ gens' = Prepared(r)
    /\ offset' = Offset(offset.user, ScanOffset(r))

Scanning(r) == [boss EXCEPT !.preparing = FALSE, !.gen = FirstTrack(r).kind,
                            !.last = LastTrack(r)]

\* The mount does not take the section: the operation fails with the scan
\* loaded and the working thread suspended.
SectionFails(r) ==
    /\ LoadScan(r)
    /\ boss.enabled /\ count.faults < MaxFaults
    /\ count' = [count EXCEPT !.faults = @ + 1]
    /\ boss' = Scanning(r)
    /\ UNCHANGED <<mount, worker, watch, past>>

\* Mutant: the working thread is not resumed.
StartScanOnly(r) ==
    /\ LoadScan(r)
    /\ boss' = [Scanning(r) EXCEPT !.epoch = TRUE, !.newTracking = TRUE]
    /\ watch' = [watch EXCEPT !.recent = (watch.pc = "check") \/ @]
    /\ past' = [past EXCEPT !.accepted = TRUE, !.fresh = TRUE]
    /\ UNCHANGED <<mount, worker, count>>

\* The table of the mount is to begin again, the watching thread is to
\* consider the antenna not on source for a second.
StartScan(r) ==
    /\ LoadScan(r)
    /\ boss' = [Scanning(r) EXCEPT !.epoch = TRUE, !.newTracking = TRUE]
    /\ worker' = [worker EXCEPT !.suspended = FALSE]
    /\ watch' = [watch EXCEPT !.recent = (watch.pc = "check") \/ @]
    /\ past' = [past EXCEPT !.accepted = TRUE, !.fresh = TRUE]
    /\ UNCHANGED <<mount, count>>

\* CBossCore::setOffsets: the generator is told, a new table is begun
\* (quickTracking); the offsets are kept if that succeeds.
SetOffsets(o) ==
    /\ Free /\ count.commands < MaxCommands
    /\ IF ~IsLoaded
       THEN /\ offset' = Offset(o, Zero(o.frame))
            /\ count' = [count EXCEPT !.commands = @ + 1]
            /\ UNCHANGED <<mount, gens, past>>
       ELSE /\ gens' = [gens EXCEPT ![boss.gen].offset = o]
            /\ \E p \in LoadPoint(mount, Aim(boss.gen, gens'[boss.gen]), TRUE) :
                  /\ Meets(p.faults)
                  /\ mount' = p.mount
                  /\ count' = [count EXCEPT !.commands = @ + 1, !.faults = @ + p.faults]
                  /\ past' = [past EXCEPT !.doubt = ~p.ok, !.skipped = p.skipped]
                  /\ offset' = IF p.ok THEN Offset(o, Zero(o.frame)) ELSE offset
    /\ UNCHANGED <<boss, worker, watch>>

\* CBossCore::stop; the mount may fail to stop.
Stop ==
    /\ Suspend
    /\ boss' = [boss EXCEPT !.gen = "none", !.last = NoTrack]
    /\ offset' = NoOffsets
    /\ past' = Unloaded
    /\ \/ Commands /\ mount' = IF boss.enabled THEN StopMount(mount) ELSE mount
       \/ CommandFails /\ boss.enabled /\ UNCHANGED mount
    /\ UNCHANGED <<gens, watch>>

\* CBossCore::stow
Stow ==
    /\ Commands
    /\ mount' = IF boss.enabled THEN StowMount(mount) ELSE mount
    /\ Suspend
    /\ boss' = [boss EXCEPT !.gen = "none", !.last = NoTrack]
    /\ offset' = NoOffsets
    /\ past' = Unloaded
    /\ UNCHANGED <<gens, watch>>

\* ... when the mount cannot be called, the scan goes on.
StowFails ==
    /\ CommandFails /\ boss.enabled
    /\ mount' \in {mount, StowMount(mount)}
    /\ UNCHANGED <<boss, offset, gens, worker, watch, past>>

\* CBossCore::setup; CCallback::done changes the mode once the pins are out.
Setup ==
    /\ Commands
    /\ Suspend
    /\ boss' = [boss EXCEPT !.gen = "none", !.last = NoTrack]
    /\ mount' = IF boss.enabled THEN UnstowMount(mount, ProgramMode) ELSE mount
    /\ offset' = NoOffsets
    /\ past' = Unloaded
    /\ UNCHANGED <<gens, watch>>

\* ... when it fails half-way, the offsets and the last track are kept.
SetupFails ==
    /\ CommandFails
    /\ Suspend
    /\ boss' = [boss EXCEPT !.gen = "none"]
    /\ past' = Unloaded
    /\ UNCHANGED <<mount, offset, gens, watch>>

\* CBossCore::enable, CBossCore::disable
Enable ==
    /\ Commands
    /\ boss' = [boss EXCEPT !.enabled = ~@]
    /\ UNCHANGED <<mount, offset, gens, worker, watch, past>>

\* CCallback::done of an unstow that setup asked for: the mount is put in
\* program track, with no lock and whatever was commanded since.
SetProgramTrack ==
    /\ mount.done > 0
    /\ mount' = LET m == [mount EXCEPT !.done = @ - 1]
                IN  IF boss.enabled THEN ProgramMode(m) ELSE m
    /\ UNCHANGED <<boss, offset, gens, worker, watch, past, count>>

--------------------------------------------------------------------------------
(* CWorkingThread::runLoop.                                                *)

\* The mutex is asked for.
WorkerWakes ==
    /\ ~worker.suspended /\ ~worker.waiting
    /\ worker' = [worker EXCEPT !.waiting = TRUE]
    /\ UNCHANGED <<mount, boss, offset, gens, watch, past, count>>

\* Mutant: the points that the mount has are not counted.
RoomAlways == TRUE

\* Whether the table takes another point: a new one does.
Room == boss.newTracking \/ Len(mount.table) < MaxPoints

\* No generator is loaded, or there is no room: nothing is sent.
WorkerRests ==
    /\ worker.waiting /\ Free
    /\ ~IsLoaded \/ ~Room
    /\ worker' = [worker EXCEPT !.waiting = FALSE]
    /\ boss' = [boss EXCEPT !.newTracking = @ \/ ~IsLoaded]
    /\ UNCHANGED <<mount, offset, gens, watch, past, count>>

\* Mutant: the flag of a new scan is not looked at, so its points go on the table
\* of the scan before, and so does a point after one that failed.
WorkerLoadsOn ==
    /\ worker.waiting /\ Free
    /\ IsLoaded /\ Room
    /\ \E p \in LoadPoint(mount, Aim(boss.gen, gens[boss.gen]), FALSE) :
          /\ Meets(p.faults)
          /\ mount' = p.mount
          /\ boss' = [boss EXCEPT !.newTracking = ~p.ok]
          /\ past' = [past EXCEPT !.skipped = p.skipped]
          /\ count' = [count EXCEPT !.faults = @ + p.faults]
    /\ worker' = [worker EXCEPT !.waiting = FALSE]
    /\ UNCHANGED <<offset, gens, watch>>

\* A point of the trajectory is loaded; after a failure the next begins a new
\* table.
WorkerLoads ==
    /\ worker.waiting /\ Free
    /\ IsLoaded /\ Room
    /\ \E p \in LoadPoint(mount, Aim(boss.gen, gens[boss.gen]), boss.newTracking) :
          /\ Meets(p.faults)
          /\ mount' = p.mount
          /\ boss' = [boss EXCEPT !.newTracking = ~p.ok]
          /\ past' = [past EXCEPT !.skipped = p.skipped]
          /\ count' = [count EXCEPT !.faults = @ + p.faults]
    /\ worker' = [worker EXCEPT !.waiting = FALSE]
    /\ UNCHANGED <<offset, gens, watch>>

--------------------------------------------------------------------------------
(* CWatchingThread::runLoop, CBossCore::updateAttributes.                  *)

\* The encoders are read, within a second of the last startScan or later.
WatchSamples ==
    /\ watch.pc = "idle" /\ count.samples < MaxSamples
    /\ \E fresh \in {past.fresh, FALSE} :
          /\ watch' = [pc |-> "check", recent |-> fresh]
          /\ past' = [past EXCEPT !.fresh = fresh]
    /\ boss' = [boss EXCEPT !.tracking = FALSE]
    /\ count' = [count EXCEPT !.samples = @ + 1]
    /\ UNCHANGED <<mount, offset, gens, worker>>

\* The antenna is where the generator says.
OnSource == /\ IsLoaded /\ Len(mount.table) > 0
            /\ mount.table[1] = Aim(boss.gen, gens[boss.gen])

\* The epoch of the scan is forgotten by the sample that is too early.
WatchChecks ==
    /\ watch.pc = "check"
    /\ watch' = [watch EXCEPT !.pc = "idle"]
    /\ boss' = IF ~IsLoaded THEN boss
               ELSE IF boss.epoch /\ watch.recent THEN [boss EXCEPT !.epoch = FALSE]
               ELSE [boss EXCEPT !.tracking = OnSource]
    /\ UNCHANGED <<mount, offset, gens, worker, past, count>>

--------------------------------------------------------------------------------
Mount == MountNext /\ UNCHANGED <<boss, offset, gens, worker, watch, past, count>>

Scan == RefuseScan \/ \E r \in Requests : SectionFails(r) \/ StartScan(r)

Worker == WorkerWakes \/ WorkerRests \/ WorkerLoads

Next ==
    \/ BeginScan \/ Scan \/ (\E o \in UserOffsets : SetOffsets(o))
    \/ Stop \/ Stow \/ StowFails \/ Setup \/ SetupFails \/ Enable
    \/ SetProgramTrack \/ Worker \/ WatchSamples \/ WatchChecks \/ Mount

Spec == Init /\ [][Next]_vars

\* The thread runs, the control unit goes on through its table, the actions of
\* the mount go on to their end, its calls arrive.  The operations do not have
\* to come.
FairSpec ==
    /\ Spec
    /\ WF_vars(Scan) /\ WF_vars(Worker)
    /\ WF_vars(NextPoint /\ UNCHANGED <<boss, offset, gens, worker, watch, past, count>>)
    /\ WF_vars(UnstowAction /\ UNCHANGED <<boss, offset, gens, worker, watch, past, count>>)
    /\ WF_vars(StowAction /\ UNCHANGED <<boss, offset, gens, worker, watch, past, count>>)

--------------------------------------------------------------------------------
(* Properties.                                                             *)

\* The offsets the boss reports are those the generator in use computes the
\* trajectory with, through scans, user offsets and their combinations, as long
\* as no operation on them has failed.
OffsetsAgree ==
    Free /\ IsLoaded /\ ~past.doubt => gens[boss.gen].offset = offset.total

\* What goOff and an OTF on the last track will use as the last track is what
\* the antenna is sent to.
LastCommanded ==
    Free /\ IsLoaded => /\ boss.last # NoTrack
                        /\ gens[boss.gen].target = boss.last.target

\* Once the working thread has begun the table of the scan, the mount has no
\* point of another scan, nor of the same with other offsets.
TableOfScan ==
    /\ past.accepted /\ ~past.doubt /\ ~past.skipped
    /\ ~boss.newTracking /\ ~mount.restart
    => \A i \in DOMAIN mount.table : mount.table[i] = Aim(boss.gen, gens[boss.gen])

\* The antenna gets to the scan that was accepted, and to the offsets that were
\* given since, unless the subsystem is disabled, the mount leaves program
\* track, or an operation replaces the scan.
Following == past.accepted /\ boss.enabled /\ Tracks(mount)

ScanFollowed == Following ~> (OnSource \/ ~Following)

\* The mount does not refuse commands for ever because of a stow or an unstow.
LineFree == mount.busy ~> ~mount.busy

\* "This force to consider the tracking flag false for at least one second
\* after the command of a new scan" (BossCore.cpp:1125): the flag is raised by
\* no sample of that second.  It is: no run checks this (see the findings).
TrackingForcedFalse == boss.tracking => ~watch.recent
================================================================================
