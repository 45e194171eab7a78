------------------------------ MODULE AntennaProofs ------------------------------
(***************************************************************************)
(* Proofs about the antenna boss: the types, that the offsets it reports   *)
(* are those of the trajectory, and that the last track is what the        *)
(* antenna is sent to.  They hold together: a generator is in use only     *)
(* outside of startScan, and then it has a target, that of the last track. *)
(* Last, that the table of the control unit has points of the scan only.   *)
(***************************************************************************)
EXTENDS AntennaBoss, SequenceTheorems, TLAPS

Generators == [target : Targets \cup {NoTarget}, offset : Offsets]
GivenTracks == [kind : Kinds, target : Targets]

BossTyped ==
    /\ boss \in [gen : Kinds \cup {"none"},
                 last : [kind : Kinds \cup {"none"}, target : Targets \cup {NoTarget}],
                 newTracking : BOOLEAN, epoch : BOOLEAN, tracking : BOOLEAN,
                 enabled : BOOLEAN, preparing : BOOLEAN]
    /\ offset \in [user : Offsets, scan : Offsets, total : Offsets]
    /\ gens \in [Kinds -> Generators]

MountTyped == MountType(Aims) /\ Len(mount.table) <= MaxPoints

RestTyped ==
    /\ worker \in [suspended : BOOLEAN, waiting : BOOLEAN]
    /\ watch \in [pc : {"idle", "check"}, recent : BOOLEAN]
    /\ past \in Past
    /\ count \in [commands : 0 .. MaxCommands, faults : 0 .. MaxFaults,
                  samples : 0 .. MaxSamples]

LastTyped == boss.last = NoTrack \/ boss.last \in GivenTracks

Preparing == boss.preparing => boss.gen = "none"

\* The generator in use has the target of the last track, and the offsets of the boss.
Commanded ==
    IsLoaded => /\ boss.last \in GivenTracks
                /\ gens[boss.gen].target = boss.last.target
                /\ ~past.doubt => gens[boss.gen].offset = offset.total

BossInvariant == BossTyped /\ LastTyped /\ Preparing /\ Commanded

AntennaInvariant == BossInvariant /\ MountTyped /\ RestTyped

LEMMA InvariantIsType ==
    AntennaInvariant <=> TypeOK /\ LastTyped /\ Preparing /\ Commanded
BY DEF AntennaInvariant, BossInvariant, TypeOK, BossTyped, MountTyped, RestTyped, Generators

--------------------------------------------------------------------------------
(* The mount.                                                              *)

Mounts == [mode : {"stop", "program", "stow", "unstow"},
           pins : {"in", "moving", "out"}, busy : BOOLEAN,
           unstowing : Nat, stowing : Nat, done : Nat,
           table : Seq(Aims), restart : BOOLEAN]

Holds(m) == m \in Mounts /\ Len(m.table) <= MaxPoints

LEMMA MountHolds == MountTyped <=> Holds(mount)
BY DEF MountTyped, MountType, Mounts, Holds

\* A mount with another mode and counts, its line taken or free.
Taken(m, mode, unstowing, stowing, done) ==
    [m EXCEPT !.mode = mode, !.busy = TRUE, !.unstowing = unstowing, !.stowing = stowing,
              !.done = done]
Freed(m, mode, unstowing, stowing, done) ==
    [m EXCEPT !.mode = mode, !.busy = FALSE, !.unstowing = unstowing, !.stowing = stowing,
              !.done = done]

\* Only the table is bounded.
LEMMA CountsHold ==
    ASSUME NEW m, Holds(m), NEW mode \in {"stop", "program", "stow", "unstow"},
           NEW unstowing \in Nat, NEW stowing \in Nat, NEW done \in Nat
    PROVE  /\ Holds(Taken(m, mode, unstowing, stowing, done))
           /\ Holds(Freed(m, mode, unstowing, stowing, done))
BY DEF Holds, Mounts, Taken, Freed

LEMMA OperationsHold ==
    ASSUME NEW m, Holds(m)
    PROVE  /\ Holds(StopMount(m)) /\ Holds(StowMount(m)) /\ Holds(ProgramMode(m))
           /\ Holds(UnstowMount(m, ProgramMode)) /\ Holds(Refused(m))
<1>1. m \in Mounts
  BY DEF Holds
<1>2. Holds(StopMount(m))
  BY DEF Holds, Mounts, StopMount
<1>3. Holds(StowMount(m))
  <2>1. m.stowing + 1 \in Nat /\ m.unstowing \in Nat /\ m.done \in Nat
    BY <1>1 DEF Mounts
  <2>2. [m EXCEPT !.mode = "stow", !.busy = TRUE, !.stowing = @ + 1]
           = Taken(m, "stow", m.unstowing, m.stowing + 1, m.done)
    BY <1>1 DEF Mounts, Taken
  <2>3. StowMount(m) = m \/ StowMount(m) = Taken(m, "stow", m.unstowing, m.stowing + 1, m.done)
    BY <2>2 DEF StowMount
  <2>4. Holds(Taken(m, "stow", m.unstowing, m.stowing + 1, m.done))
    BY <2>1, CountsHold
  <2> QED
    BY <2>3, <2>4
<1>4. Holds(ProgramMode(m))
  BY DEF Holds, Mounts, ProgramMode
<1>5. Holds(UnstowMount(m, ProgramMode))
  <2>1. m.stowing \in Nat /\ m.unstowing + 1 \in Nat /\ m.done \in Nat
    BY <1>1 DEF Mounts
  <2>2. [m EXCEPT !.mode = "unstow", !.busy = TRUE, !.unstowing = @ + 1]
           = Taken(m, "unstow", m.unstowing + 1, m.stowing, m.done)
    BY <1>1 DEF Mounts, Taken
  <2>3. \/ UnstowMount(m, ProgramMode) \in {m, ProgramMode(m)}
        \/ UnstowMount(m, ProgramMode) = Taken(m, "unstow", m.unstowing + 1, m.stowing, m.done)
    BY <2>2 DEF UnstowMount
  <2>4. Holds(Taken(m, "unstow", m.unstowing + 1, m.stowing, m.done))
    BY <2>1, CountsHold
  <2> QED
    BY <1>4, <2>3, <2>4
<1>6. Holds(Refused(m))
  BY DEF Holds, Mounts, Refused
<1> QED
  BY <1>2, <1>3, <1>4, <1>5, <1>6

\* A point fits: it begins a table, or there was room.
LEMMA LoadedHolds ==
    ASSUME NEW m, Holds(m), NEW aim \in Aims, NEW clear \in BOOLEAN,
           clear \/ Len(m.table) < MaxPoints
    PROVE  Holds(Loaded(m, aim, clear))
<1>1. m \in Mounts /\ m.table \in Seq(Aims) /\ Len(m.table) \in Nat
  BY LenProperties DEF Holds, Mounts
<1>2. <<aim>> \in Seq(Aims) /\ Len(<<aim>>) = 1 /\ 1 <= MaxPoints
  BY TableHolds
<1>3. Append(m.table, aim) \in Seq(Aims) /\ Len(Append(m.table, aim)) = Len(m.table) + 1
  BY <1>1, AppendProperties
<1>4. \A t \in Seq(Aims) : [m EXCEPT !.table = t, !.restart = FALSE] \in Mounts
                           /\ [m EXCEPT !.table = t, !.restart = FALSE].table = t
  BY <1>1 DEF Mounts
<1>5. CASE clear \/ m.restart
  BY <1>2, <1>4, <1>5 DEF Loaded, Holds
<1>6. CASE ~(clear \/ m.restart)
  <2>1. Loaded(m, aim, clear) = [m EXCEPT !.table = Append(m.table, aim), !.restart = FALSE]
    BY <1>1, <1>6 DEF Loaded, Mounts
  <2>2. Len(m.table) + 1 <= MaxPoints
    BY <1>1, <1>6, TableHolds
  <2> QED
    BY <1>3, <1>4, <2>1, <2>2 DEF Holds
<1> QED
  BY <1>5, <1>6

LEMMA LoadPointHolds ==
    ASSUME NEW m, Holds(m), NEW aim \in Aims, NEW clear \in BOOLEAN,
           clear \/ Len(m.table) < MaxPoints, past.skipped \in BOOLEAN,
           NEW p \in LoadPoint(m, aim, clear)
    PROVE  Holds(p.mount) /\ p.ok \in BOOLEAN /\ p.skipped \in BOOLEAN /\ p.faults \in {0, 1}
<1>1. Holds(Loaded(m, aim, clear)) /\ Holds(Refused(m)) /\ Holds(Refused(Loaded(m, aim, clear)))
  BY LoadedHolds, OperationsHold
<1>2. (past.skipped \/ clear) \in BOOLEAN /\ (past.skipped /\ ~clear) \in BOOLEAN
  OBVIOUS
<1>3. \E q \in {m, Loaded(m, aim, clear), Refused(m), Refused(Loaded(m, aim, clear))},
         ok \in BOOLEAN, s \in BOOLEAN, f \in {0, 1} :
            p = [mount |-> q, ok |-> ok, skipped |-> s, faults |-> f]
  BY <1>2 DEF LoadPoint
<1> QED
  BY <1>1, <1>3

\* What goes on in the mount by itself.
LEMMA MountNextHolds ==
    ASSUME MountTyped, MountNext
    PROVE  MountTyped'
<1>1. Holds(mount) /\ mount \in Mounts /\ mount.table \in Seq(Aims) /\ Len(mount.table) \in Nat
  BY MountHolds, LenProperties DEF Holds, Mounts
<1>2. CASE MovePins
  BY <1>1, <1>2 DEF MovePins, MountTyped, MountType, Holds, Mounts
<1>3. CASE NextPoint
  <2>1. mount.table # <<>>
    BY <1>1, <1>3, EmptySeq DEF NextPoint
  <2>2. Tail(mount.table) \in Seq(Aims) /\ Len(Tail(mount.table)) = Len(mount.table) - 1
    BY <1>1, <2>1, HeadTailProperties
  <2>3. mount' \in Mounts /\ mount'.table = Tail(mount.table)
    BY <1>1, <1>3, <2>2 DEF NextPoint, Mounts
  <2>4. Len(mount'.table) <= MaxPoints
    BY <1>1, <2>2, <2>3, TableHolds DEF Holds
  <2> QED
    BY <2>3, <2>4 DEF MountTyped, MountType, Mounts
<1>4. CASE UnstowAction
  <2>1. /\ mount.unstowing - 1 \in Nat /\ mount.stowing \in Nat
        /\ mount.done \in Nat /\ mount.done + 1 \in Nat
    BY <1>1, <1>4 DEF UnstowAction, Mounts
  <2>2. PICK d \in {mount.done, mount.done + 1} :
            mount' = Freed(mount, mount.mode, mount.unstowing - 1, mount.stowing, d)
    BY <1>1, <1>4 DEF UnstowAction, Mounts, Freed
  <2>3. mount.mode \in {"stop", "program", "stow", "unstow"} /\ d \in Nat
    BY <1>1, <2>1, <2>2 DEF Mounts
  <2>4. Holds(Freed(mount, mount.mode, mount.unstowing - 1, mount.stowing, d))
    BY <1>1, <2>1, <2>3, CountsHold
  <2> QED
    BY <2>2, <2>4 DEF MountTyped, MountType, Mounts, Holds
<1>5. CASE StowAction
  <2>1. mount.stowing - 1 \in Nat /\ mount.unstowing \in Nat /\ mount.done \in Nat
    BY <1>1, <1>5 DEF StowAction, Mounts
  <2>2. CASE mount.pins = "in"
    <3>1. mount' = Freed(mount, "stop", mount.unstowing, mount.stowing - 1, mount.done)
      BY <1>1, <1>5, <2>2 DEF StowAction, Mounts, Freed
    <3>2. Holds(Freed(mount, "stop", mount.unstowing, mount.stowing - 1, mount.done))
      BY <1>1, <2>1, CountsHold
    <3> QED
      BY <3>1, <3>2 DEF MountTyped, MountType, Mounts, Holds
  <2>3. CASE mount.pins # "in"
    <3>1. mount' = Freed(mount, mount.mode, mount.unstowing, mount.stowing - 1, mount.done)
      BY <1>1, <1>5, <2>3 DEF StowAction, Mounts, Freed
    <3>2. mount.mode \in {"stop", "program", "stow", "unstow"}
      BY <1>1 DEF Mounts
    <3>3. Holds(Freed(mount, mount.mode, mount.unstowing, mount.stowing - 1, mount.done))
      BY <1>1, <2>1, <3>2, CountsHold
    <3> QED
      BY <3>1, <3>3 DEF MountTyped, MountType, Mounts, Holds
  <2> QED
    BY <2>2, <2>3
<1> QED
  BY <1>2, <1>3, <1>4, <1>5 DEF MountNext

--------------------------------------------------------------------------------
(* The boss.                                                               *)

CountTyped == count \in [commands : 0 .. MaxCommands, faults : 0 .. MaxFaults, samples : 0 .. MaxSamples]

LEMMA CommandCounts ==
    ASSUME RestTyped, Commands \/ CommandFails
    PROVE  CountTyped'
<1>1. /\ count.commands \in 0 .. MaxCommands /\ count.faults \in 0 .. MaxFaults
      /\ count.samples \in 0 .. MaxSamples
  BY DEF RestTyped
<1>2. count.commands + 1 \in 0 .. MaxCommands
  BY <1>1, AntennaBounds DEF Commands, CommandFails
<1>3. CASE Commands
  BY <1>1, <1>2, <1>3 DEF Commands, RestTyped, CountTyped
<1>4. CASE CommandFails
  <2>1. count.faults + 1 \in 0 .. MaxFaults
    BY <1>1, <1>4, AntennaBounds DEF CommandFails
  <2> QED
    BY <1>1, <1>2, <1>4, <2>1 DEF CommandFails, RestTyped, CountTyped
<1> QED
  BY <1>3, <1>4

LEMMA FaultCounts ==
    ASSUME RestTyped, count.faults < MaxFaults, count' = [count EXCEPT !.faults = @ + 1]
    PROVE  CountTyped'
<1>1. count.faults \in 0 .. MaxFaults
  BY DEF RestTyped
<1>2. count.faults + 1 \in 0 .. MaxFaults
  BY <1>1, AntennaBounds
<1> QED
  BY <1>2 DEF RestTyped, CountTyped

\* A point of the trajectory that may have failed.
LEMMA PointCounts ==
    ASSUME RestTyped, NEW n \in {0, 1}, Meets(n), count.commands < MaxCommands,
           count' = [count EXCEPT !.commands = @ + 1, !.faults = @ + n]
    PROVE  CountTyped'
<1>1. count.faults + n \in 0 .. MaxFaults
  BY AntennaBounds DEF RestTyped, Meets
<1>2. count.commands + 1 \in 0 .. MaxCommands
  BY AntennaBounds DEF RestTyped
<1> QED
  BY <1>1, <1>2 DEF RestTyped, CountTyped

LEMMA WorkerCounts ==
    ASSUME RestTyped, NEW n \in {0, 1}, Meets(n), count' = [count EXCEPT !.faults = @ + n]
    PROVE  CountTyped'
<1>1. count.faults + n \in 0 .. MaxFaults
  BY AntennaBounds DEF RestTyped, Meets
<1> QED
  BY <1>1 DEF RestTyped, CountTyped

\* Without a generator in use there is nothing to agree.
LEMMA UnloadedHolds ==
    ASSUME BossTyped', LastTyped', boss'.gen = "none"
    PROVE  BossInvariant'
BY DEF BossInvariant, Preparing, Commanded, IsLoaded

\* A step that touches neither the track nor the offsets.
LEMMA SameScanHolds ==
    ASSUME BossInvariant, BossTyped', UNCHANGED <<offset, gens>>,
           boss'.gen = boss.gen, boss'.last = boss.last, boss'.preparing = boss.preparing,
           past'.doubt = past.doubt
    PROVE  BossInvariant'
BY DEF BossInvariant, LastTyped, Preparing, Commanded, IsLoaded

LEMMA OffsetsTyped ==
    ASSUME NEW user \in Offsets, NEW scan \in Offsets
    PROVE  /\ AddOffsets(user, scan) \in Offsets
           /\ Offset(user, scan) \in [user : Offsets, scan : Offsets, total : Offsets]
           /\ Offset(user, scan).total = AddOffsets(user, scan)
           /\ Zero(user.frame) \in Offsets
           /\ AddOffsets(user, Zero(user.frame)) = user
           /\ NoOffsets \in [user : Offsets, scan : Offsets, total : Offsets]
<1>1. /\ user.frame \in Frames /\ user.arc \in Nat /\ scan.frame \in Frames /\ scan.arc \in Nat
      /\ user.arc + scan.arc \in Nat
  BY DEF Offsets
<1>2. Zero(user.frame) \in Offsets /\ Zero("horizontal") \in Offsets
  BY <1>1 DEF Offsets, Zero, Frames
<1>3. ASSUME NEW a \in Offsets, NEW b \in Offsets
      PROVE  AddOffsets(a, b) \in Offsets
  <2>1. a.arc + b.arc \in Nat /\ b.frame \in Frames /\ b.arc \in Nat
    BY DEF Offsets
  <2> QED
    BY <2>1 DEF Offsets, AddOffsets
<1>4. ASSUME NEW a \in Offsets, NEW b \in Offsets
      PROVE  /\ Offset(a, b) \in [user : Offsets, scan : Offsets, total : Offsets]
             /\ Offset(a, b).total = AddOffsets(a, b)
  BY <1>3 DEF Offset
<1>5. AddOffsets(user, Zero(user.frame)) = user
  <2>1. user.arc + 0 = user.arc
    BY <1>1
  <2>2. AddOffsets(user, Zero(user.frame)) = [frame |-> user.frame, arc |-> user.arc]
    BY <2>1 DEF AddOffsets, Zero
  <2>3. user = [frame |-> user.frame, arc |-> user.arc]
    BY DEF Offsets
  <2> QED
    BY <2>2, <2>3
<1> QED
  BY <1>2, <1>3, <1>4, <1>5 DEF NoOffsets

LEMMA NoTrackTyped ==
    /\ NoTrack \in [kind : Kinds \cup {"none"}, target : Targets \cup {NoTarget}]
    /\ NoTrack \notin GivenTracks
BY AntennaBounds DEF NoTrack, GivenTracks, Kinds

--------------------------------------------------------------------------------
(* Scans.                                                                  *)

\* A request that is supported names two tracks of the same target.
LEMMA RequestTyped ==
    ASSUME BossTyped, LastTyped, NEW r \in Requests, Supported(r)
    PROVE  /\ FirstTrack(r) \in GivenTracks /\ LastTrack(r) \in GivenTracks
           /\ FirstTrack(r).target = LastTrack(r).target
           /\ r.type = "otf" /\ r.secondary => SecondTrack(r) \in GivenTracks
           /\ r.offset \in Offsets \cup {NoOffset}
<1>1. /\ r.type \in Kinds \cup {"none"} /\ r.target \in Targets \cup {NoTarget}
      /\ r.secondary \in BOOLEAN /\ r.second \in Targets \cup {NoTarget}
      /\ r.offset \in ScanOffsets \cup {NoOffset}
      /\ (r.target = NoTarget) <=> (r.secondary \/ r.type = "none")
  BY DEF Requests
<1>2. r.offset \in Offsets \cup {NoOffset}
  BY <1>1, AntennaBounds DEF Offsets
<1>3. ASSUME NEW kind \in Kinds, NEW target \in Targets
      PROVE  Track(kind, target) \in GivenTracks /\ Track(kind, target).target = target
  BY DEF Track, GivenTracks
<1>4. CASE r.secondary
  <2>1. SecondTrack(r) \in GivenTracks
    <3>1. CASE r.second # NoTarget
      BY <1>1, <1>3, <3>1 DEF SecondTrack, Kinds
    <3>2. CASE r.second = NoTarget
      BY <1>4, <3>2 DEF SecondTrack, Supported, LastTyped
    <3> QED
      BY <3>1, <3>2
  <2>2. SecondTrack(r).target \in Targets
    BY <2>1 DEF GivenTracks
  <2>3. FirstTrack(r) \in GivenTracks /\ FirstTrack(r).target = SecondTrack(r).target
    <3>1. CASE r.type = "otf"
      BY <1>3, <1>4, <2>2, <3>1 DEF FirstTrack, Kinds
    <3>2. CASE r.type # "otf"
      BY <1>4, <2>1, <3>2 DEF FirstTrack
    <3> QED
      BY <3>1, <3>2
  <2>4. LastTrack(r) = SecondTrack(r)
    BY <1>4 DEF LastTrack
  <2> QED
    BY <1>2, <2>1, <2>3, <2>4
<1>5. CASE ~r.secondary
  <2>1. r.type \in Kinds /\ r.target \in Targets
    BY <1>1, <1>5 DEF Supported
  <2>2. FirstTrack(r) = Track(r.type, r.target) /\ LastTrack(r) = FirstTrack(r)
    BY <1>5 DEF FirstTrack, LastTrack
  <2>3. FirstTrack(r) \in GivenTracks
    BY <1>3, <2>1, <2>2
  <2> QED
    BY <1>2, <1>5, <2>2, <2>3
<1> QED
  BY <1>4, <1>5

\* What the generators are given.
LEMMA PreparedTyped ==
    ASSUME BossTyped, LastTyped, NEW r \in Requests, Supported(r)
    PROVE  /\ Prepared(r) \in [Kinds -> Generators]
           /\ Prepared(r)[FirstTrack(r).kind].target = FirstTrack(r).target
           /\ Prepared(r)[FirstTrack(r).kind].offset = GenOffset(r)
<1>1. gens \in [Kinds -> Generators] /\ offset.user \in Offsets
  BY DEF BossTyped
<1>2. /\ FirstTrack(r).kind \in Kinds /\ FirstTrack(r).target \in Targets
      /\ r.type = "otf" /\ r.secondary =>
            SecondTrack(r).kind \in Kinds /\ SecondTrack(r).target \in Targets
      /\ r.offset \in Offsets \cup {NoOffset}
  BY RequestTyped DEF GivenTracks
<1>3. GenOffset(r) \in Offsets
  BY <1>1, <1>2, OffsetsTyped DEF GenOffset
<1>4. \A k \in Kinds, t \in Targets, o \in Offsets, g \in [Kinds -> Generators] :
          [g EXCEPT ![k] = [target |-> t, offset |-> o]] \in [Kinds -> Generators]
  BY DEF Generators
<1>5. Secondary(r, gens) \in [Kinds -> Generators]
  BY <1>1, <1>2, <1>4 DEF Secondary
<1>6. Prepared(r) \in [Kinds -> Generators]
  BY <1>2, <1>3, <1>4, <1>5 DEF Prepared
<1>7. Prepared(r)[FirstTrack(r).kind] = [target |-> FirstTrack(r).target, offset |-> GenOffset(r)]
  BY <1>2, <1>5 DEF Prepared
<1> QED
  BY <1>6, <1>7

\* The scan is loaded with the offsets it brings: those the boss then reports.
LEMMA LoadScanHolds ==
    ASSUME BossInvariant, NEW r \in Requests, LoadScan(r),
           NEW new \in BOOLEAN, NEW epoch \in BOOLEAN,
           boss' = [Scanning(r) EXCEPT !.newTracking = new, !.epoch = epoch]
    PROVE  BossInvariant'
<1>1. /\ BossTyped /\ LastTyped /\ Supported(r)
      /\ gens' = Prepared(r) /\ offset' = Offset(offset.user, ScanOffset(r))
  BY DEF BossInvariant, LoadScan
<1>2. /\ FirstTrack(r) \in GivenTracks /\ LastTrack(r) \in GivenTracks
      /\ FirstTrack(r).target = LastTrack(r).target
      /\ r.offset \in Offsets \cup {NoOffset}
  BY <1>1, RequestTyped
<1>3. FirstTrack(r).kind \in Kinds
  BY <1>2 DEF GivenTracks
<1>4. LastTrack(r) \in [kind : Kinds \cup {"none"}, target : Targets \cup {NoTarget}]
  BY <1>2 DEF GivenTracks
<1>5. offset.user \in Offsets /\ offset.user.frame \in Frames
  BY <1>1 DEF BossTyped, Offsets
<1>6. ScanOffset(r) \in Offsets
  BY <1>2, <1>5, OffsetsTyped DEF ScanOffset
<1>7. AddOffsets(offset.user, ScanOffset(r)) = GenOffset(r)
  BY <1>5, OffsetsTyped DEF ScanOffset, GenOffset
<1>8. /\ offset' \in [user : Offsets, scan : Offsets, total : Offsets]
      /\ offset'.total = GenOffset(r)
  BY <1>1, <1>5, <1>6, <1>7, OffsetsTyped
<1>9. /\ boss' \in [gen : Kinds \cup {"none"},
                    last : [kind : Kinds \cup {"none"}, target : Targets \cup {NoTarget}],
                    newTracking : BOOLEAN, epoch : BOOLEAN, tracking : BOOLEAN,
                    enabled : BOOLEAN, preparing : BOOLEAN]
      /\ boss'.gen = FirstTrack(r).kind /\ boss'.last = LastTrack(r) /\ ~boss'.preparing
  BY <1>1, <1>3, <1>4 DEF BossTyped, Scanning
<1>10. BossTyped'
  BY <1>1, <1>8, <1>9, PreparedTyped DEF BossTyped
<1>11. Commanded'
  BY <1>1, <1>2, <1>8, <1>9, PreparedTyped DEF Commanded, IsLoaded
<1> QED
  BY <1>2, <1>9, <1>10, <1>11 DEF BossInvariant, LastTyped, Preparing

--------------------------------------------------------------------------------
(* The steps.                                                              *)

LEMMA RestHolds ==
    ASSUME CountTyped', worker' \in [suspended : BOOLEAN, waiting : BOOLEAN],
           watch' \in [pc : {"idle", "check"}, recent : BOOLEAN], past' \in Past
    PROVE  RestTyped'
BY DEF RestTyped, CountTyped

LEMMA RestParts ==
    ASSUME RestTyped
    PROVE  /\ worker \in [suspended : BOOLEAN, waiting : BOOLEAN]
           /\ [worker EXCEPT !.suspended = TRUE] \in [suspended : BOOLEAN, waiting : BOOLEAN]
           /\ watch \in [pc : {"idle", "check"}, recent : BOOLEAN]
           /\ past \in Past /\ Unloaded \in Past /\ Unloaded.doubt = FALSE /\ CountTyped
BY DEF RestTyped, Past, Unloaded, CountTyped

LEMMA SameMount ==
    ASSUME MountTyped, UNCHANGED mount
    PROVE  MountTyped'
BY DEF MountTyped, MountType

LEMMA HeldMount ==
    ASSUME Holds(mount')
    PROVE  MountTyped'
BY DEF MountTyped, MountType, Holds, Mounts

LEMMA BeginScanKeeps ==
    ASSUME AntennaInvariant, BeginScan
    PROVE  AntennaInvariant'
<1>1. BossTyped /\ LastTyped /\ RestTyped /\ MountTyped
  BY DEF AntennaInvariant, BossInvariant
<1>2. RestTyped'
  BY <1>1, CommandCounts, RestHolds, RestParts DEF BeginScan, Suspend
<1>3. offset.user \in Offsets
  BY <1>1 DEF BossTyped
<1>4. BossTyped' /\ boss'.gen = "none" /\ boss'.last = boss.last
  BY <1>1, <1>3, OffsetsTyped DEF BeginScan, BossTyped
<1> QED
  BY <1>1, <1>2, <1>4, SameMount, UnloadedHolds DEF AntennaInvariant, BeginScan, LastTyped

LEMMA ScanKeeps ==
    ASSUME AntennaInvariant, Scan
    PROVE  AntennaInvariant'
<1>1. BossInvariant /\ BossTyped /\ LastTyped /\ Preparing /\ RestTyped /\ MountTyped
  BY DEF AntennaInvariant, BossInvariant
<1>2. MountTyped'
  BY <1>1, SameMount DEF Scan, RefuseScan, SectionFails, StartScan
<1>3. CASE RefuseScan
  <2>1. RestTyped'
    BY <1>1, <1>3, FaultCounts, RestHolds, RestParts DEF RefuseScan, CountTyped
  <2>2. BossTyped' /\ boss'.gen = "none" /\ boss'.last = boss.last
    BY <1>1, <1>3 DEF RefuseScan, BossTyped, Preparing
  <2> QED
    BY <1>1, <1>2, <2>1, <2>2, UnloadedHolds DEF AntennaInvariant, LastTyped
<1>4. ASSUME NEW r \in Requests, SectionFails(r)
      PROVE  AntennaInvariant'
  <2>1. RestTyped'
    BY <1>1, <1>4, FaultCounts, RestHolds, RestParts DEF SectionFails
  <2>2. boss.newTracking \in BOOLEAN /\ boss.epoch \in BOOLEAN
    BY <1>1 DEF BossTyped
  <2>3. Scanning(r) = [Scanning(r) EXCEPT !.newTracking = boss.newTracking, !.epoch = boss.epoch]
    BY <1>1 DEF Scanning, BossTyped
  <2>4. BossInvariant'
    BY <1>1, <1>4, <2>2, <2>3, LoadScanHolds DEF SectionFails
  <2> QED
    BY <1>2, <2>1, <2>4 DEF AntennaInvariant
<1>5. ASSUME NEW r \in Requests, StartScan(r)
      PROVE  AntennaInvariant'
  <2>1. /\ watch' \in [pc : {"idle", "check"}, recent : BOOLEAN]
        /\ worker' \in [suspended : BOOLEAN, waiting : BOOLEAN]
        /\ past' \in Past
    BY <1>1, <1>5 DEF StartScan, RestTyped, Past
  <2>2. RestTyped'
    BY <1>1, <1>5, <2>1, RestHolds, RestParts DEF StartScan, CountTyped
  <2>3. BossInvariant'
    <3>1. boss' = [Scanning(r) EXCEPT !.newTracking = TRUE, !.epoch = TRUE]
      BY <1>1, <1>5 DEF StartScan, Scanning, BossTyped
    <3> QED
      BY <1>1, <1>5, <3>1, LoadScanHolds DEF StartScan
  <2> QED
    BY <1>2, <2>2, <2>3 DEF AntennaInvariant
<1> QED
  BY <1>3, <1>4, <1>5 DEF Scan

\* What the generator in use computes.
LEMMA AimTyped ==
    ASSUME BossInvariant, IsLoaded, NEW o \in Offsets
    PROVE  /\ boss.gen \in Kinds
           /\ Aim(boss.gen, gens[boss.gen]) \in Aims
           /\ [gens EXCEPT ![boss.gen].offset = o] \in [Kinds -> Generators]
           /\ [gens EXCEPT ![boss.gen].offset = o][boss.gen].offset = o
           /\ [gens EXCEPT ![boss.gen].offset = o][boss.gen].target = gens[boss.gen].target
           /\ Aim(boss.gen, [gens EXCEPT ![boss.gen].offset = o][boss.gen]) \in Aims
<1>1. boss.gen \in Kinds /\ gens \in [Kinds -> Generators]
  BY DEF BossInvariant, BossTyped, IsLoaded
<1>2. gens[boss.gen] \in Generators /\ gens[boss.gen].target \in Targets
  BY <1>1 DEF BossInvariant, Commanded, GivenTracks
<1>3. \A g \in Generators : g.target \in Targets => Aim(boss.gen, g) \in Aims
  BY <1>1 DEF Aim, Aims, Generators
<1>4. /\ [gens EXCEPT ![boss.gen].offset = o] \in [Kinds -> Generators]
      /\ [gens EXCEPT ![boss.gen].offset = o][boss.gen].offset = o
      /\ [gens EXCEPT ![boss.gen].offset = o][boss.gen].target = gens[boss.gen].target
  BY <1>1, <1>2 DEF Generators
<1> QED
  BY <1>1, <1>2, <1>3, <1>4

LEMMA SetOffsetsKeeps ==
    ASSUME AntennaInvariant, NEW o \in UserOffsets, SetOffsets(o)
    PROVE  AntennaInvariant'
<1>1. BossInvariant /\ BossTyped /\ LastTyped /\ RestTyped /\ MountTyped /\ UNCHANGED <<boss, worker, watch>>
  BY DEF AntennaInvariant, BossInvariant, SetOffsets
<1>2. o \in Offsets /\ Zero(o.frame) \in Offsets /\ AddOffsets(o, Zero(o.frame)) = o
      /\ Offset(o, Zero(o.frame)) \in [user : Offsets, scan : Offsets, total : Offsets]
      /\ Offset(o, Zero(o.frame)).total = o
  <2>1. o \in Offsets
    BY AntennaBounds DEF Offsets
  <2>2. Zero(o.frame) \in Offsets
    BY <2>1, OffsetsTyped
  <2> QED
    BY <2>1, <2>2, OffsetsTyped
<1>3. CASE ~IsLoaded
  <2>1. offset' = Offset(o, Zero(o.frame)) /\ UNCHANGED <<mount, gens, past>>
        /\ count' = [count EXCEPT !.commands = @ + 1]
    BY <1>3 DEF SetOffsets
  <2>2. CountTyped'
    BY <1>1, <2>1, CommandCounts DEF SetOffsets, Commands
  <2>3. RestTyped'
    BY <1>1, <2>1, <2>2, RestHolds, RestParts
  <2>4. BossTyped' /\ LastTyped'
    BY <1>1, <1>2, <2>1 DEF BossTyped, LastTyped
  <2> QED
    BY <1>1, <1>3, <2>1, <2>3, <2>4, SameMount, UnloadedHolds
       DEF AntennaInvariant, IsLoaded
<1>4. CASE IsLoaded
  <2> DEFINE aim == Aim(boss.gen, gens'[boss.gen])
  <2>1. gens' = [gens EXCEPT ![boss.gen].offset = o]
    BY <1>4 DEF SetOffsets
  <2>2. PICK p \in LoadPoint(mount, aim, TRUE) :
            /\ Meets(p.faults)
            /\ mount' = p.mount
            /\ count' = [count EXCEPT !.commands = @ + 1, !.faults = @ + p.faults]
            /\ past' = [past EXCEPT !.doubt = ~p.ok, !.skipped = p.skipped]
            /\ offset' = IF p.ok THEN Offset(o, Zero(o.frame)) ELSE offset
    BY <1>4 DEF SetOffsets
  <2>3. aim \in Aims
    BY <1>1, <1>2, <1>4, <2>1, AimTyped
  <2>4. Holds(p.mount) /\ p.ok \in BOOLEAN /\ p.skipped \in BOOLEAN /\ p.faults \in {0, 1}
    <3>1. past.skipped \in BOOLEAN
      BY <1>1 DEF RestTyped, Past
    <3> HIDE DEF aim
    <3> QED
      BY <1>1, <2>2, <2>3, <3>1, MountHolds, LoadPointHolds
  <2>5. past' \in Past /\ past'.doubt = ~p.ok
    BY <1>1, <2>2, <2>4 DEF RestTyped, Past
  <2>6. RestTyped'
    <3>1. count.commands < MaxCommands
      BY DEF SetOffsets
    <3>2. CountTyped'
      BY <1>1, <2>2, <2>4, <3>1, PointCounts
    <3> QED
      BY <1>1, <2>5, <3>2, RestHolds, RestParts
  <2>7. gens' \in [Kinds -> Generators] /\ gens'[boss.gen].offset = o
        /\ gens'[boss.gen].target = gens[boss.gen].target
    BY <1>1, <1>2, <1>4, <2>1, AimTyped
  <2>8. BossTyped'
    BY <1>1, <1>2, <2>2, <2>7 DEF BossTyped
  <2>9. Commanded'
    BY <1>1, <1>2, <2>2, <2>5, <2>7 DEF BossInvariant, Commanded, IsLoaded
  <2>10. BossInvariant'
    BY <1>1, <2>8, <2>9 DEF BossInvariant, LastTyped, Preparing
  <2> QED
    BY <2>2, <2>4, <2>6, <2>10, HeldMount DEF AntennaInvariant
<1> QED
  BY <1>3, <1>4

\* Operations that unload the scan, the last track and the offsets.
LEMMA ResetHolds ==
    ASSUME BossTyped, boss' = [boss EXCEPT !.gen = "none", !.last = NoTrack],
           offset' = NoOffsets, UNCHANGED gens
    PROVE  BossInvariant'
<1>1. offset.user \in Offsets
  BY DEF BossTyped
<1>2. NoOffsets \in [user : Offsets, scan : Offsets, total : Offsets]
  BY <1>1, OffsetsTyped
<1>3. BossTyped' /\ boss'.gen = "none" /\ boss'.last = NoTrack
  BY <1>2, NoTrackTyped DEF BossTyped
<1> QED
  BY <1>3, UnloadedHolds DEF LastTyped

LEMMA StopKeeps ==
    ASSUME AntennaInvariant, Stop \/ Stow \/ Setup
    PROVE  AntennaInvariant'
<1>1. BossTyped /\ RestTyped /\ MountTyped /\ Holds(mount)
  BY MountHolds DEF AntennaInvariant, BossInvariant
<1>2. BossInvariant'
  BY <1>1, ResetHolds DEF Stop, Stow, Setup
<1>3. RestTyped'
  <2>1. CountTyped'
    BY <1>1, CommandCounts DEF Stop, Stow, Setup
  <2> QED
    BY <1>1, <2>1, RestHolds, RestParts DEF Stop, Stow, Setup, Suspend
<1>4. mount' \in {mount, StopMount(mount), StowMount(mount), UnstowMount(mount, ProgramMode)}
  BY DEF Stop, Stow, Setup
<1>5. Holds(mount')
  BY <1>1, <1>4, OperationsHold
<1> QED
  BY <1>2, <1>3, <1>5, HeldMount DEF AntennaInvariant

LEMMA StowFailsKeeps ==
    ASSUME AntennaInvariant, StowFails
    PROVE  AntennaInvariant'
<1>1. BossInvariant /\ BossTyped /\ RestTyped /\ Holds(mount)
  BY MountHolds DEF AntennaInvariant, BossInvariant
<1>2. BossInvariant'
  BY <1>1, SameScanHolds DEF StowFails, BossTyped
<1>3. RestTyped'
  BY <1>1, CommandCounts, RestHolds, RestParts DEF StowFails
<1>4. Holds(mount')
  BY <1>1, OperationsHold DEF StowFails
<1> QED
  BY <1>2, <1>3, <1>4, HeldMount DEF AntennaInvariant

LEMMA SetupFailsKeeps ==
    ASSUME AntennaInvariant, SetupFails
    PROVE  AntennaInvariant'
<1>1. BossTyped /\ LastTyped /\ RestTyped /\ MountTyped
  BY DEF AntennaInvariant, BossInvariant
<1>2. BossTyped' /\ LastTyped' /\ boss'.gen = "none"
  BY <1>1 DEF SetupFails, BossTyped, LastTyped
<1>3. RestTyped'
  BY <1>1, CommandCounts, RestHolds, RestParts DEF SetupFails, Suspend
<1> QED
  BY <1>1, <1>2, <1>3, SameMount, UnloadedHolds DEF AntennaInvariant, SetupFails

LEMMA EnableKeeps ==
    ASSUME AntennaInvariant, Enable
    PROVE  AntennaInvariant'
<1>1. BossInvariant /\ BossTyped /\ RestTyped /\ MountTyped
  BY DEF AntennaInvariant, BossInvariant
<1>2. BossTyped' /\ boss'.gen = boss.gen /\ boss'.last = boss.last
      /\ boss'.preparing = boss.preparing
  BY <1>1 DEF Enable, BossTyped
<1>3. RestTyped'
  BY <1>1, CommandCounts, RestHolds, RestParts DEF Enable
<1> QED
  BY <1>1, <1>2, <1>3, SameMount, SameScanHolds DEF AntennaInvariant, Enable

\* The callback of the mount, and the mount by itself.
LEMMA MountKeeps ==
    ASSUME AntennaInvariant, SetProgramTrack \/ Mount
    PROVE  AntennaInvariant'
<1>1. BossInvariant /\ BossTyped /\ RestTyped /\ MountTyped /\ Holds(mount)
      /\ UNCHANGED <<boss, offset, gens, worker, watch, past, count>>
  BY MountHolds DEF AntennaInvariant, BossInvariant, SetProgramTrack, Mount
<1>2. BossInvariant'
  BY <1>1, SameScanHolds DEF BossTyped
<1>3. RestTyped'
  BY <1>1 DEF RestTyped
<1>4. CASE SetProgramTrack
  <2> DEFINE m == [mount EXCEPT !.done = @ - 1]
  <2>1. mount.done - 1 \in Nat
    BY <1>1, <1>4 DEF SetProgramTrack, Holds, Mounts
  <2>2. Holds(m)
    BY <1>1, <2>1 DEF Holds, Mounts
  <2>3. mount' \in {m, ProgramMode(m)}
    BY <1>4 DEF SetProgramTrack
  <2>4. Holds(mount')
    <3> HIDE DEF m
    <3> QED
      BY <2>2, <2>3, OperationsHold
  <2> QED
    BY <1>2, <1>3, <2>4, HeldMount DEF AntennaInvariant
<1>5. CASE Mount
  BY <1>1, <1>2, <1>3, <1>5, MountNextHolds DEF AntennaInvariant, Mount
<1> QED
  BY <1>4, <1>5

LEMMA WorkerKeeps ==
    ASSUME AntennaInvariant, Worker
    PROVE  AntennaInvariant'
<1>1. BossInvariant /\ BossTyped /\ RestTyped /\ MountTyped /\ Holds(mount)
      /\ UNCHANGED <<offset, gens, watch>>
  BY MountHolds
     DEF AntennaInvariant, BossInvariant, Worker, WorkerWakes, WorkerRests, WorkerLoads
<1>2. worker' \in [suspended : BOOLEAN, waiting : BOOLEAN]
  BY <1>1 DEF RestTyped, Worker, WorkerWakes, WorkerRests, WorkerLoads
<1>3. CASE WorkerWakes \/ WorkerRests
  <2>1. UNCHANGED <<mount, past, count>>
    BY <1>3 DEF WorkerWakes, WorkerRests
  <2>2. RestTyped'
    BY <1>1, <1>2, <2>1, RestHolds, RestParts DEF CountTyped
  <2>3. BossTyped' /\ boss'.gen = boss.gen /\ boss'.last = boss.last
        /\ boss'.preparing = boss.preparing
    BY <1>1, <1>3 DEF WorkerWakes, WorkerRests, BossTyped, IsLoaded
  <2> QED
    BY <1>1, <2>1, <2>2, <2>3, SameMount, SameScanHolds DEF AntennaInvariant
<1>4. CASE WorkerLoads
  <2> DEFINE aim == Aim(boss.gen, gens[boss.gen])
  <2>1. PICK p \in LoadPoint(mount, aim, boss.newTracking) :
            /\ Meets(p.faults)
            /\ mount' = p.mount
            /\ boss' = [boss EXCEPT !.newTracking = ~p.ok]
            /\ past' = [past EXCEPT !.skipped = p.skipped]
            /\ count' = [count EXCEPT !.faults = @ + p.faults]
    BY <1>4 DEF WorkerLoads
  <2>2. aim \in Aims
    <3>1. offset.user \in Offsets
      BY <1>1 DEF BossTyped
    <3> QED
      BY <1>1, <1>4, <3>1, AimTyped DEF WorkerLoads
  <2>3. Holds(p.mount) /\ p.ok \in BOOLEAN /\ p.skipped \in BOOLEAN /\ p.faults \in {0, 1}
    <3>1. past.skipped \in BOOLEAN /\ boss.newTracking \in BOOLEAN
      BY <1>1 DEF RestTyped, Past, BossTyped
    <3>2. boss.newTracking \/ Len(mount.table) < MaxPoints
      BY <1>4 DEF WorkerLoads, Room
    <3> HIDE DEF aim
    <3> QED
      BY <1>1, <2>1, <2>2, <3>1, <3>2, LoadPointHolds
  <2>4. past' \in Past /\ past'.doubt = past.doubt
    BY <1>1, <2>1, <2>3 DEF RestTyped, Past
  <2>5. RestTyped'
    <3>1. CountTyped'
      BY <1>1, <2>1, <2>3, WorkerCounts
    <3> QED
      BY <1>1, <1>2, <2>4, <3>1, RestHolds, RestParts
  <2>6. BossTyped' /\ boss'.gen = boss.gen /\ boss'.last = boss.last
        /\ boss'.preparing = boss.preparing
    BY <1>1, <2>1 DEF BossTyped
  <2> QED
    BY <1>1, <2>1, <2>3, <2>4, <2>5, <2>6, HeldMount, SameScanHolds DEF AntennaInvariant
<1> QED
  BY <1>3, <1>4 DEF Worker

LEMMA WatchKeeps ==
    ASSUME AntennaInvariant, WatchSamples \/ WatchChecks
    PROVE  AntennaInvariant'
<1>1. BossInvariant /\ BossTyped /\ RestTyped /\ MountTyped
      /\ UNCHANGED <<mount, offset, gens, worker>>
  BY DEF AntennaInvariant, BossInvariant, WatchSamples, WatchChecks
<1>2. BossTyped' /\ boss'.gen = boss.gen /\ boss'.last = boss.last
      /\ boss'.preparing = boss.preparing
  <2>1. OnSource \in BOOLEAN
    BY DEF OnSource
  <2>2. \A tracking \in BOOLEAN :
            /\ [boss EXCEPT !.tracking = tracking]
                  \in [gen : Kinds \cup {"none"},
                       last : [kind : Kinds \cup {"none"}, target : Targets \cup {NoTarget}],
                       newTracking : BOOLEAN, epoch : BOOLEAN, tracking : BOOLEAN,
                       enabled : BOOLEAN, preparing : BOOLEAN]
            /\ [boss EXCEPT !.tracking = tracking].gen = boss.gen
            /\ [boss EXCEPT !.tracking = tracking].last = boss.last
            /\ [boss EXCEPT !.tracking = tracking].preparing = boss.preparing
    BY <1>1 DEF BossTyped
  <2>3. CASE WatchSamples
    BY <1>1, <2>2, <2>3 DEF WatchSamples, BossTyped
  <2>4. CASE WatchChecks
    <3>1. \/ boss' = boss
          \/ boss' = [boss EXCEPT !.epoch = FALSE]
          \/ boss' = [boss EXCEPT !.tracking = OnSource]
      BY <2>4 DEF WatchChecks
    <3>2. CASE boss' = boss
      BY <1>1, <3>2 DEF BossTyped
    <3>3. CASE boss' = [boss EXCEPT !.epoch = FALSE]
      BY <1>1, <3>3 DEF BossTyped
    <3>4. CASE boss' = [boss EXCEPT !.tracking = OnSource]
      BY <1>1, <2>1, <2>2, <3>4 DEF BossTyped
    <3> QED
      BY <3>1, <3>2, <3>3, <3>4
  <2> QED
    BY <2>3, <2>4
<1>3. watch' \in [pc : {"idle", "check"}, recent : BOOLEAN] /\ past' \in Past
      /\ past'.doubt = past.doubt
  <2>1. CASE WatchSamples
    <3>1. PICK fresh \in {past.fresh, FALSE} :
              watch' = [pc |-> "check", recent |-> fresh] /\ past' = [past EXCEPT !.fresh = fresh]
      BY <2>1 DEF WatchSamples
    <3>2. fresh \in BOOLEAN
      BY <1>1 DEF RestTyped, Past
    <3> QED
      BY <1>1, <3>1, <3>2 DEF RestTyped, Past
  <2>2. CASE WatchChecks
    BY <1>1, <2>2 DEF WatchChecks, RestTyped, Past
  <2> QED
    BY <2>1, <2>2
<1>4. CountTyped'
  <2>1. CASE WatchSamples
    <3>1. count.samples + 1 \in 0 .. MaxSamples
      BY <1>1, <2>1, AntennaBounds DEF WatchSamples, RestTyped
    <3> QED
      BY <1>1, <2>1, <3>1 DEF WatchSamples, RestTyped, CountTyped
  <2>2. CASE WatchChecks
    BY <1>1, <2>2 DEF WatchChecks, RestTyped, CountTyped
  <2> QED
    BY <2>1, <2>2
<1>5. RestTyped'
  BY <1>1, <1>3, <1>4, RestHolds, RestParts
<1> QED
  BY <1>1, <1>2, <1>3, <1>5, SameMount, SameScanHolds DEF AntennaInvariant

--------------------------------------------------------------------------------
LEMMA AntennaStarts == Init => AntennaInvariant
<1> SUFFICES ASSUME Init
             PROVE  AntennaInvariant
  OBVIOUS
<1>1. Zero("horizontal") \in Offsets
  BY DEF Zero, Offsets, Frames
<1>2. BossTyped /\ boss.gen = "none" /\ boss.last = NoTrack /\ ~boss.preparing
  BY <1>1, NoTrackTyped DEF Init, BossTyped, Generators
<1>3. BossInvariant
  BY <1>2 DEF BossInvariant, LastTyped, Preparing, Commanded, IsLoaded
<1>4. MountTyped
  <2>1. <<>> \in Seq(Aims) /\ Len(<<>>) = 0 /\ 0 <= MaxPoints
    BY TableHolds
  <2> QED
    BY <2>1 DEF Init, MountInit, MountTyped, MountType
<1>5. RestTyped
  <2>1. 0 \in 0 .. MaxCommands /\ 0 \in 0 .. MaxFaults /\ 0 \in 0 .. MaxSamples
    BY AntennaBounds
  <2> QED
    BY <2>1 DEF Init, RestTyped, Past
<1> QED
  BY <1>3, <1>4, <1>5 DEF AntennaInvariant

LEMMA AntennaInvariantHolds == Spec => []AntennaInvariant
<1>1. AntennaInvariant /\ [Next]_vars => AntennaInvariant'
  <2> SUFFICES ASSUME AntennaInvariant, [Next]_vars
               PROVE  AntennaInvariant'
    OBVIOUS
  <2>1. CASE UNCHANGED vars
    BY <2>1 DEF vars, AntennaInvariant, BossInvariant, BossTyped, LastTyped, Preparing,
                Commanded, IsLoaded, MountTyped, MountType, RestTyped
  <2>2. CASE Next
    BY <2>2, BeginScanKeeps, ScanKeeps, SetOffsetsKeeps, StopKeeps, StowFailsKeeps,
       SetupFailsKeeps, EnableKeeps, MountKeeps, WorkerKeeps, WatchKeeps DEF Next
  <2> QED
    BY <2>1, <2>2
<1> QED
  BY <1>1, AntennaStarts, PTL DEF Spec

\* The boss, the generators and the mount stay in their domains, and the table of the
\* control unit never takes more points than it has room for, whatever the numbers of
\* targets, offsets, commands and faults.
THEOREM AntennaTypeCorrect == Spec => []TypeOK
<1>1. AntennaInvariant => TypeOK
  BY InvariantIsType
<1> QED
  BY <1>1, AntennaInvariantHolds, PTL

\* The offsets the boss reports are those the trajectory is computed with, through
\* scans, user offsets and their combinations (startScan, setOffsets, addOffsets).
THEOREM OffsetsAgreeAlways == Spec => []OffsetsAgree
<1>1. AntennaInvariant => OffsetsAgree
  BY DEF AntennaInvariant, BossInvariant, Commanded, OffsetsAgree
<1> QED
  BY <1>1, AntennaInvariantHolds, PTL

\* The last track commanded, which goOff and a later scan without a target use, is what
\* the antenna is sent to (startScan, prepareScan, stop, stow, setup).
THEOREM LastCommandedAlways == Spec => []LastCommanded
<1>1. AntennaInvariant => LastCommanded
  <2> SUFFICES ASSUME AntennaInvariant, IsLoaded
               PROVE  boss.last # NoTrack /\ gens[boss.gen].target = boss.last.target
    BY DEF LastCommanded
  <2> QED
    BY NoTrackTyped DEF AntennaInvariant, BossInvariant, Commanded
<1> QED
  BY <1>1, AntennaInvariantHolds, PTL

--------------------------------------------------------------------------------
(* The table of the control unit.                                          *)

\* A scan that was accepted is loaded, and its table holds its points only.
TableInvariant == (past.accepted => IsLoaded) /\ TableOfScan

\* A step that does not touch the table, the trajectory, or what is known of them.
LEMMA SameTable ==
    ASSUME TableInvariant,
           mount'.table = mount.table, mount'.restart = mount.restart,
           boss'.gen = boss.gen, gens' = gens,
           boss.newTracking => boss'.newTracking,
           past'.accepted = past.accepted, past'.doubt = past.doubt, past'.skipped = past.skipped
    PROVE  TableInvariant'
BY DEF TableInvariant, TableOfScan, IsLoaded, Aim

\* Stops, stows and changes of mode leave the table alone.
LEMMA OperationsKeepTable ==
    ASSUME NEW m, Holds(m)
    PROVE  /\ StowMount(m).table = m.table /\ StowMount(m).restart = m.restart
           /\ ProgramMode(m).table = m.table /\ ProgramMode(m).restart = m.restart
BY DEF Holds, Mounts, StowMount, ProgramMode

\* A point that is accepted begins the table or follows the points of it.
LEMMA LoadedTable ==
    ASSUME NEW m, Holds(m), NEW aim \in Aims, NEW clear \in BOOLEAN,
           clear \/ m.restart \/ (\A i \in DOMAIN m.table : m.table[i] = aim)
    PROVE  \A i \in DOMAIN Loaded(m, aim, clear).table : Loaded(m, aim, clear).table[i] = aim
<1>1. m \in Mounts /\ m.table \in Seq(Aims) /\ Len(m.table) \in Nat
  BY LenProperties DEF Holds, Mounts
<1>2. CASE clear \/ m.restart
  <2>1. Loaded(m, aim, clear).table = <<aim>>
    BY <1>1, <1>2 DEF Loaded, Mounts
  <2> QED
    BY <2>1
<1>3. CASE ~(clear \/ m.restart)
  <2>1. Loaded(m, aim, clear).table = Append(m.table, aim)
    BY <1>1, <1>3 DEF Loaded, Mounts
  <2>2. \A i \in DOMAIN m.table : m.table[i] = aim
    BY <1>3
  <2>3. DOMAIN m.table = 1 .. Len(m.table)
    BY <1>1, LenProperties
  <2>4. \A i \in 1 .. Len(m.table) + 1 : Append(m.table, aim)[i] = aim
    BY <1>1, <2>2, <2>3, AppendProperties
  <2>5. Append(m.table, aim) \in Seq(Aims) /\ Len(Append(m.table, aim)) = Len(m.table) + 1
    BY <1>1, AppendProperties
  <2>6. DOMAIN Append(m.table, aim) = 1 .. Len(m.table) + 1
    BY <2>5, LenProperties
  <2> QED
    BY <2>1, <2>4, <2>6
<1> QED
  BY <1>2, <1>3

\* The outcomes of loadTrackingPoint.
LEMMA LoadPointTable ==
    ASSUME NEW m, Holds(m), NEW aim, NEW clear \in BOOLEAN, past.skipped \in BOOLEAN,
           NEW p \in LoadPoint(m, aim, clear)
    PROVE  \/ ~p.ok
           \/ p.mount = m /\ p.skipped = (past.skipped \/ clear)
           \/ p.mount = Loaded(m, aim, clear) /\ p.skipped = (past.skipped /\ ~clear)
BY DEF LoadPoint

LEMMA UnloadedTable ==
    ASSUME past' = Unloaded, past \in Past
    PROVE  TableInvariant'
BY DEF Unloaded, Past, TableInvariant, TableOfScan

LEMMA ScanTable ==
    ASSUME AntennaInvariant, TableInvariant, Scan
    PROVE  TableInvariant'
<1>1. BossTyped /\ Preparing /\ past \in Past
  BY DEF AntennaInvariant, BossInvariant, RestTyped
<1>2. boss.preparing => ~past.accepted
  BY <1>1 DEF Preparing, TableInvariant, IsLoaded
<1>3. CASE RefuseScan
  BY <1>2, <1>3 DEF RefuseScan, TableInvariant, TableOfScan
<1>4. ASSUME NEW r \in Requests, SectionFails(r)
      PROVE  TableInvariant'
  BY <1>2, <1>4 DEF SectionFails, LoadScan, TableInvariant, TableOfScan
<1>5. ASSUME NEW r \in Requests, StartScan(r)
      PROVE  TableInvariant'
  <2>1. boss'.newTracking /\ boss'.gen = FirstTrack(r).kind
    BY <1>1, <1>5 DEF StartScan, Scanning, BossTyped
  <2>2. FirstTrack(r).kind # "none"
    <3>1. FirstTrack(r) \in GivenTracks
      BY <1>1, <1>5, RequestTyped DEF StartScan, LoadScan, AntennaInvariant, BossInvariant
    <3> QED
      BY <3>1 DEF GivenTracks, Kinds
  <2> QED
    BY <2>1, <2>2 DEF TableInvariant, TableOfScan, IsLoaded
<1> QED
  BY <1>3, <1>4, <1>5 DEF Scan

LEMMA SetOffsetsTable ==
    ASSUME AntennaInvariant, TableInvariant, NEW o \in UserOffsets, SetOffsets(o)
    PROVE  TableInvariant'
<1>1. BossInvariant /\ Holds(mount) /\ past \in Past /\ boss' = boss
  BY MountHolds DEF AntennaInvariant, RestTyped, SetOffsets
<1>2. CASE ~IsLoaded
  BY <1>1, <1>2, SameTable DEF SetOffsets
<1>3. CASE IsLoaded
  <2> DEFINE aim == Aim(boss.gen, gens'[boss.gen])
  <2>1. gens' = [gens EXCEPT ![boss.gen].offset = o]
    BY <1>3 DEF SetOffsets
  <2>2. PICK p \in LoadPoint(mount, aim, TRUE) :
            /\ mount' = p.mount
            /\ past' = [past EXCEPT !.doubt = ~p.ok, !.skipped = p.skipped]
    BY <1>3 DEF SetOffsets
  <2>3. o \in Offsets
    BY AntennaBounds DEF Offsets
  <2>4. aim \in Aims
    BY <1>1, <1>3, <2>1, <2>3, AimTyped
  <2>5. past'.doubt = ~p.ok /\ past'.skipped = p.skipped
    BY <1>1, <2>2 DEF Past
  <2>6. past'.accepted => IsLoaded'
    BY <1>1, <1>3 DEF IsLoaded
  <2>7. ASSUME p.mount = Loaded(mount, aim, TRUE)
        PROVE  \A i \in DOMAIN mount'.table : mount'.table[i] = aim
    <3> HIDE DEF aim
    <3> QED
      BY <1>1, <2>2, <2>4, <2>7, LoadedTable
  <2>8. \/ ~p.ok
        \/ p.skipped
        \/ p.mount = Loaded(mount, aim, TRUE)
    <3>1. past.skipped \in BOOLEAN
      BY <1>1 DEF Past
    <3> HIDE DEF aim
    <3> QED
      BY <1>1, <2>2, <3>1, LoadPointTable
  <2>9. TableOfScan'
    BY <1>1, <2>5, <2>7, <2>8 DEF TableOfScan
  <2> QED
    BY <2>6, <2>9 DEF TableInvariant
<1> QED
  BY <1>2, <1>3

LEMMA WorkerTable ==
    ASSUME AntennaInvariant, TableInvariant, Worker
    PROVE  TableInvariant'
<1>1. BossInvariant /\ BossTyped /\ Holds(mount) /\ past \in Past
  BY MountHolds DEF AntennaInvariant, BossInvariant, RestTyped
<1>2. CASE WorkerWakes \/ WorkerRests
  BY <1>1, <1>2, SameTable DEF WorkerWakes, WorkerRests, BossTyped
<1>3. CASE WorkerLoads
  <2> DEFINE aim == Aim(boss.gen, gens[boss.gen])
  <2>1. PICK p \in LoadPoint(mount, aim, boss.newTracking) :
            /\ mount' = p.mount
            /\ boss' = [boss EXCEPT !.newTracking = ~p.ok]
            /\ past' = [past EXCEPT !.skipped = p.skipped]
    BY <1>3 DEF WorkerLoads
  <2>2. aim \in Aims
    <3>1. offset.user \in Offsets
      BY <1>1 DEF BossTyped
    <3> QED
      BY <1>1, <1>3, <3>1, AimTyped DEF WorkerLoads
  <2>3. /\ boss'.gen = boss.gen /\ boss'.newTracking = ~p.ok /\ gens' = gens
        /\ past'.accepted = past.accepted /\ past'.doubt = past.doubt
        /\ past'.skipped = p.skipped
    BY <1>1, <1>3, <2>1 DEF WorkerLoads, BossTyped, Past
  <2>4. boss.newTracking \in BOOLEAN /\ past.skipped \in BOOLEAN
    BY <1>1 DEF BossTyped, Past
  <2>5. \/ ~p.ok
        \/ p.mount = mount /\ p.skipped = (past.skipped \/ boss.newTracking)
        \/ p.mount = Loaded(mount, aim, boss.newTracking)
           /\ p.skipped = (past.skipped /\ ~boss.newTracking)
    <3> HIDE DEF aim
    <3> QED
      BY <1>1, <2>1, <2>4, LoadPointTable
  <2>6. ASSUME past'.accepted, ~past'.doubt, ~past'.skipped, ~boss'.newTracking, ~mount'.restart
        PROVE  \A i \in DOMAIN mount'.table : mount'.table[i] = aim
    <3>1. CASE p.mount = mount /\ p.skipped = (past.skipped \/ boss.newTracking)
      BY <2>1, <2>3, <2>4, <2>6, <3>1 DEF TableInvariant, TableOfScan
    <3>2. CASE p.mount = Loaded(mount, aim, boss.newTracking)
               /\ p.skipped = (past.skipped /\ ~boss.newTracking)
      <4>1. \/ boss.newTracking \/ mount.restart
            \/ \A i \in DOMAIN mount.table : mount.table[i] = aim
        BY <2>3, <2>4, <2>6, <3>2 DEF TableInvariant, TableOfScan
      <4> HIDE DEF aim
      <4> QED
        BY <1>1, <2>1, <2>2, <2>4, <3>2, <4>1, LoadedTable
    <3>3. p.ok
      BY <2>3, <2>6
    <3> QED
      BY <2>5, <3>1, <3>2, <3>3
  <2>7. aim' = aim
    BY <2>3 DEF Aim
  <2> QED
    BY <2>3, <2>6, <2>7 DEF TableInvariant, TableOfScan, IsLoaded
<1> QED
  BY <1>2, <1>3 DEF Worker

\* The mount by itself: the control unit drops the points it has done.
LEMMA MountTable ==
    ASSUME AntennaInvariant, TableInvariant, SetProgramTrack \/ Mount
    PROVE  TableInvariant'
<1>1. Holds(mount) /\ mount \in Mounts /\ UNCHANGED <<boss, offset, gens, past>>
  BY MountHolds DEF AntennaInvariant, SetProgramTrack, Mount, Holds
<1>2. CASE SetProgramTrack
  <2> DEFINE m == [mount EXCEPT !.done = @ - 1]
  <2>1. mount.done - 1 \in Nat
    BY <1>1, <1>2 DEF SetProgramTrack, Mounts
  <2>2. Holds(m) /\ m.table = mount.table /\ m.restart = mount.restart
    BY <1>1, <2>1 DEF Holds, Mounts
  <2>3. mount' \in {m, ProgramMode(m)}
    BY <1>2 DEF SetProgramTrack
  <2>4. mount'.table = mount.table /\ mount'.restart = mount.restart
    <3> HIDE DEF m
    <3> QED
      BY <2>2, <2>3, OperationsKeepTable
  <2> QED
    BY <1>1, <2>4, SameTable
<1>3. CASE Mount /\ (MovePins \/ UnstowAction \/ StowAction)
  <2>1. mount'.table = mount.table /\ mount'.restart = mount.restart
    BY <1>1, <1>3 DEF MovePins, UnstowAction, StowAction, Mounts
  <2> QED
    BY <1>1, <2>1, SameTable
<1>4. CASE Mount /\ NextPoint
  <2>1. mount.table \in Seq(Aims) /\ mount.table # <<>>
    BY <1>1, <1>4, EmptySeq DEF NextPoint, Mounts
  <2>2. mount'.table = Tail(mount.table) /\ mount'.restart = mount.restart
    BY <1>1, <1>4 DEF NextPoint, Mounts
  <2>3. ASSUME NEW aim, \A i \in DOMAIN mount.table : mount.table[i] = aim
        PROVE  \A i \in DOMAIN Tail(mount.table) : Tail(mount.table)[i] = aim
    BY <2>1, <2>3, HeadTailProperties
  <2> DEFINE aim == Aim(boss.gen, gens[boss.gen])
  <2>4. aim' = aim
    BY <1>1 DEF Aim
  <2>5. (\A i \in DOMAIN mount.table : mount.table[i] = aim)
           => (\A i \in DOMAIN mount'.table : mount'.table[i] = aim)
    <3> HIDE DEF aim
    <3> QED
      BY <2>2, <2>3
  <2>6. TableOfScan'
    BY <1>1, <2>2, <2>4, <2>5 DEF TableInvariant, TableOfScan
  <2> QED
    BY <1>1, <2>6 DEF TableInvariant, IsLoaded
<1> QED
  BY <1>2, <1>3, <1>4 DEF Mount, MountNext

LEMMA OthersTable ==
    ASSUME AntennaInvariant, TableInvariant,
           \/ BeginScan \/ Stop \/ Stow \/ StowFails \/ Setup \/ SetupFails \/ Enable
           \/ WatchSamples \/ WatchChecks
    PROVE  TableInvariant'
<1>1. BossTyped /\ Holds(mount) /\ past \in Past
  BY MountHolds DEF AntennaInvariant, BossInvariant, RestTyped
<1>2. CASE BeginScan \/ Stop \/ Stow \/ Setup \/ SetupFails
  BY <1>1, <1>2, UnloadedTable DEF BeginScan, Stop, Stow, Setup, SetupFails
<1>3. CASE StowFails
  <2>1. mount'.table = mount.table /\ mount'.restart = mount.restart
    BY <1>1, <1>3, OperationsKeepTable DEF StowFails
  <2> QED
    BY <1>3, <2>1, SameTable DEF StowFails
<1>4. CASE Enable
  BY <1>1, <1>4, SameTable DEF Enable, BossTyped
<1>5. CASE WatchSamples
  <2>1. boss'.gen = boss.gen /\ boss'.newTracking = boss.newTracking /\ UNCHANGED <<mount, gens>>
    BY <1>1, <1>5 DEF WatchSamples, BossTyped
  <2>2. /\ past'.accepted = past.accepted /\ past'.doubt = past.doubt
        /\ past'.skipped = past.skipped
    BY <1>1, <1>5 DEF WatchSamples, Past
  <2> QED
    BY <2>1, <2>2, SameTable
<1>6. CASE WatchChecks
  <2>1. \/ boss' = boss
        \/ boss' = [boss EXCEPT !.epoch = FALSE]
        \/ boss' = [boss EXCEPT !.tracking = OnSource]
    BY <1>6 DEF WatchChecks
  <2>2. boss'.gen = boss.gen /\ boss'.newTracking = boss.newTracking
    BY <1>1, <2>1 DEF BossTyped
  <2> QED
    BY <1>6, <2>2, SameTable DEF WatchChecks
<1> QED
  BY <1>2, <1>3, <1>4, <1>5, <1>6

LEMMA TableInvariantHolds == Spec => []TableInvariant
<1>1. Init => TableInvariant
  BY DEF Init, TableInvariant, TableOfScan
<1>2. ASSUME AntennaInvariant, TableInvariant, [Next]_vars
      PROVE  TableInvariant'
  <2>1. CASE UNCHANGED vars
    BY <1>2, <2>1, SameTable DEF vars
  <2>2. CASE Next
    BY <1>2, <2>2, ScanTable, SetOffsetsTable, WorkerTable, MountTable, OthersTable DEF Next
  <2> QED
    BY <1>2, <2>1, <2>2
<1> QED
  BY <1>1, <1>2, AntennaInvariantHolds, PTL DEF Spec

\* Once the table of an accepted scan was begun, the control unit follows points of
\* that scan, with the offsets the boss reports, and of no other (loadTrackingPoint,
\* quickTracking, programTrack).
THEOREM TableOfScanAlways == Spec => []TableOfScan
<1>1. TableInvariant => TableOfScan
  BY DEF TableInvariant
<1> QED
  BY <1>1, TableInvariantHolds, PTL
================================================================================
