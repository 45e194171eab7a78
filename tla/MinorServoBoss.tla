----------------------------- MODULE MinorServoBoss -----------------------------
(***************************************************************************)
(* The boss of the minor servos of the SRT (MinorServoBossImpl): setup and *)
(* park with their threads, the elevation tracking, the active surface     *)
(* configuration and the scans of one axis.  There is no lock around the   *)
(* operations: they look at the flags of MSBossConfiguration, which other  *)
(* operations and the threads change at the same time.  Two mutexes are    *)
(* only tried, in the switches of the tracking and in init: an operation   *)
(* that finds one taken raises.                                            *)
(*                                                                         *)
(* Any client may command an operation at any time; each is at a place in  *)
(* its operation, and the others step in between.  Scans are commanded by  *)
(* the scheduler, which serialises startScan and closeScan.  Positions,    *)
(* times and the states of the single servos are left out: a thread that   *)
(* moves the servos gets there, or gives up.                               *)
(***************************************************************************)
EXTENDS Naturals

CONSTANTS
    Clients,    \* those who command operations
    Faults,     \* what may go wrong: "switch", "init", "restart", "servo", "length"
    MaxCalls    \* bound on the operations commanded by the clients

AllFaults == {"switch", "init", "restart", "servo", "length"}

ASSUME ServoBounds == Faults \subseteq AllFaults /\ MaxCalls \in Nat

\* A code that ends in P is a configuration of the primary focus: it moves the PFP.
Configurations == {"gregorian", "primary"}

\* setElevationTracking with ON and OFF, setup of a configuration, park, setASConfiguration.
Operations == {"on", "off", "park", "surface"} \cup Configurations

\* look:    the flag of the tracking is set; are we configured, and what is the flag?
\* start, stop: inside turnTrackingOn, after its checks; before turnTrackingOff
\* check:   setup looks whether others are under way
\* init:    before MSBossConfiguration::init; clear, load: inside it, under its mutex
\* wait:    setup waits for the encoders
\* raise:   park is about to raise its flag
\* restore: setASConfiguration is about to turn the tracking on again
Places == {"look", "start", "stop", "check", "init", "clear", "load", "wait", "raise", "restore"}

VARIABLES
    flags,      \* m_isConfigured, m_isStarting, m_isParking, m_isElevationTrackingEn,
                \* m_isScanLocked, m_isScanning, m_isScanActive
    base,       \* m_baseSetup
    call,       \* for each client its operation, its place in it, and wasTrackingEn
    setup,      \* what the setup thread does
    park,       \* the park thread moves the servos
    scan,       \* the operation under way, what the scan thread does, wasElevationTrackingEn
    tracking,   \* the tracking thread runs
    calls,
    past        \* what the properties have to know of the history

vars == <<flags, base, call, setup, park, scan, tracking, calls, past>>

Idle == [op |-> "none", at |-> "none", was |-> FALSE]

\* crossed: two operations that touch the tracking were under way together, or one in a
\*          scan, since the last that began alone
\* doubted: the tracking may differ from its flag: the last operation on it raised, was
\*          crossed, or found no configuration and changed the flag only
\* joined:  somebody may have switched the tracking on since the scan began
\* stuck:   a thread could not be restarted
TypeOK ==
    /\ flags \in [configured : BOOLEAN, starting : BOOLEAN, parking : BOOLEAN,
                  enabled : BOOLEAN, locked : BOOLEAN, scanning : BOOLEAN, active : BOOLEAN]
    /\ base \in Configurations
    /\ call \in [Clients -> {Idle} \cup [op : Operations, at : Places, was : BOOLEAN]]
    /\ setup \in {"none", "moving", "last", "start"}
    /\ park \in BOOLEAN
    /\ scan \in [call : {"none", "starting", "stopping", "beginning", "closing", "restoring"},
                 was : BOOLEAN, thread : {"none", "waiting", "feeding"}]
    /\ tracking \in BOOLEAN
    /\ calls \in 0 .. MaxCalls
    /\ past \in [doubted : BOOLEAN, crossed : BOOLEAN, joined : BOOLEAN, stuck : BOOLEAN]

Init ==
    /\ flags = [configured |-> FALSE, starting |-> FALSE, parking |-> FALSE, enabled |-> FALSE,
                locked |-> FALSE, scanning |-> FALSE, active |-> FALSE]
    /\ base = "gregorian"
    /\ call = [c \in Clients |-> Idle]
    /\ setup = "none"
    /\ park = FALSE
    /\ scan = [call |-> "none", was |-> FALSE, thread |-> "none"]
    /\ tracking = FALSE
    /\ calls = 0
    /\ past = [doubted |-> FALSE, crossed |-> FALSE, joined |-> FALSE, stuck |-> FALSE]

--------------------------------------------------------------------------------
(* The switches of the tracking: whether the thread runs afterwards, and   *)
(* whether the operation raised.                                           *)

Outcome(runs, raised) == [runs |-> runs, raised |-> raised]
Faulty(fault, outcomes) == IF fault \in Faults THEN outcomes ELSE {}

\* What turnTrackingOn checks first.
Allowed == ~flags.starting /\ ~flags.parking /\ flags.configured

\* Busy, or the new thread cannot be created; the old one is gone by then.
TurnTrackingOn ==
    {Outcome(TRUE, FALSE)} \cup Faulty("switch", {Outcome(tracking, TRUE), Outcome(FALSE, TRUE)})

\* Busy; or stopped whatever the configuration, and then the SRP goes to its position.
TurnTrackingOff ==
    {Outcome(FALSE, FALSE)}
        \cup Faulty("switch", {Outcome(tracking, TRUE)}
                                \cup IF flags.configured THEN {Outcome(FALSE, TRUE)} ELSE {})

InScan == flags.locked \/ flags.active

\* Somebody touches the tracking: an operation, or the end of a setup.
UnderWay == (\E c \in Clients : call[c].op # "none") \/ setup \in {"last", "start"}

\* Another one begins.
Crosses(with) == [past EXCEPT !.crossed = with, !.doubted = @ \/ with]
Doubts(raised) == [past EXCEPT !.doubted = @ \/ raised]

\* An operation that switches the tracking without an error settles the matter, if
\* nothing crossed it.
Settles == [past EXCEPT !.doubted = @ /\ past.crossed]

--------------------------------------------------------------------------------
(* The operations of the clients.                                          *)

Begins(c, op, at, was) ==
    /\ call[c] = Idle /\ call' = [call EXCEPT ![c] = [op |-> op, at |-> at, was |-> was]]
    /\ calls < MaxCalls /\ calls' = calls + 1
    /\ past' = [Crosses(UnderWay \/ InScan) EXCEPT !.joined = @ \/ (InScan /\ op \notin {"off", "park"})]
    /\ UNCHANGED <<base, setup, park, scan, tracking>>

\* setElevationTrackingImpl sets the flag first.
SetElevationTracking(c, on) ==
    /\ Begins(c, IF on THEN "on" ELSE "off", "look", FALSE)
    /\ flags' = [flags EXCEPT !.enabled = on]

\* The tracking is adjusted before anything is checked: enabled if it was not, or
\* turned off, with the flag left, for the primary focus.
Setup(c, config) ==
    IF config = "gregorian"
    THEN /\ flags' = [flags EXCEPT !.enabled = TRUE]
         /\ Begins(c, config, IF flags.enabled THEN "check" ELSE "look", FALSE)
    ELSE /\ UNCHANGED flags
         /\ Begins(c, config, IF flags.enabled THEN "stop" ELSE "check", FALSE)

Park(c) ==
    /\ ~flags.starting /\ ~flags.parking
    /\ flags' = [flags EXCEPT !.enabled = FALSE]
    /\ Begins(c, "park", IF flags.enabled THEN "look" ELSE "raise", FALSE)

\* If there is no configuration only a flag changes that is not modelled.  Whether the
\* tracking is to be restored is read here, before the offsets are cleared.
SetASConfiguration(c) ==
    /\ ~flags.starting /\ ~flags.parking /\ flags.configured
    /\ UNCHANGED flags
    /\ Begins(c, "surface", "stop", flags.enabled)

Goes(c, at) == call' = [call EXCEPT ![c].at = at]
Returns(c) == call' = [call EXCEPT ![c] = Idle]

\* After a switch of the tracking; park ignores what it raises.
SwitchDone(c) ==
    CASE call[c].op = "park"                                   -> Goes(c, "raise")
      [] call[c].op \in Configurations                         -> Goes(c, "check")
      [] call[c].op = "surface" /\ call[c].at = "stop"         -> Goes(c, "init")
      [] OTHER                                                 -> Returns(c)
SwitchRaises(c) == IF call[c].op = "park" THEN Goes(c, "raise") ELSE Returns(c)

\* setElevationTrackingImpl: without a configuration nothing but the flag; else the
\* flag is read again.
Look(c) ==
    /\ call[c].at = "look"
    /\ IF ~flags.configured
       THEN SwitchDone(c) /\ past' = Doubts(~flags.enabled /\ tracking)
       ELSE IF flags.enabled /\ ~Allowed
            THEN SwitchRaises(c) /\ past' = Doubts(TRUE)
            ELSE Goes(c, IF flags.enabled THEN "start" ELSE "stop") /\ UNCHANGED past
    /\ UNCHANGED <<flags, base, setup, park, scan, tracking, calls>>

\* Only setElevationTracking settles anything; setASConfiguration restores the tracking
\* without its flag if the configuration is one of the primary focus, for which init
\* has disabled it.
Switched(c, o) ==
    /\ tracking' = o.runs
    /\ IF o.raised THEN SwitchRaises(c) ELSE SwitchDone(c)
    /\ past' = IF call[c].op \in {"on", "off"} /\ ~o.raised THEN Settles
               ELSE Doubts(o.raised \/ (call[c].op = "surface" /\ call[c].at = "start" /\ base = "primary"))
    /\ UNCHANGED <<flags, base, setup, park, scan, calls>>

TurnOn(c) == call[c].at = "start" /\ \E o \in TurnTrackingOn : Switched(c, o)
TurnOff(c) == call[c].at = "stop" /\ \E o \in TurnTrackingOff : Switched(c, o)

--------------------------------------------------------------------------------
(* setup and setASConfiguration                                            *)

\* setup looks only now whether it may.
Check(c) ==
    /\ call[c].at = "check"
    /\ IF flags.starting \/ flags.parking
       THEN Returns(c) /\ past' = Doubts(TRUE)
       ELSE Goes(c, "init") /\ UNCHANGED past
    /\ UNCHANGED <<flags, base, setup, park, scan, tracking, calls>>

\* MSBossConfiguration::init tries its mutex; setASConfiguration gives it the
\* configuration there is.
InitBegins(c) ==
    /\ call[c].at = "init"
    /\ IF \E d \in Clients : call[d].at \in {"clear", "load"}
       THEN Returns(c) /\ past' = Doubts(TRUE) /\ UNCHANGED <<flags, base>>
       ELSE /\ Goes(c, "clear")
            /\ flags' = [flags EXCEPT !.starting = TRUE]
            /\ base' = IF call[c].op = "surface" THEN base ELSE call[c].op
            /\ UNCHANGED past
    /\ UNCHANGED <<setup, park, scan, tracking, calls>>

\* Moving the PFP disables the tracking.
InitClears(c) ==
    /\ call[c].at = "clear" /\ Goes(c, "load")
    /\ flags' = [flags EXCEPT !.configured = FALSE, !.enabled = @ /\ base # "primary"]
    /\ UNCHANGED <<base, setup, park, scan, tracking, calls, past>>

\* No such configuration in the CDB, or one of its servos is missing.
InitFails(c) ==
    /\ "init" \in Faults
    /\ call[c].at \in {"clear", "load"} /\ Returns(c)
    /\ flags' = [flags EXCEPT !.starting = FALSE, !.configured = FALSE]
    /\ past' = Doubts(call[c].op = "surface")
    /\ UNCHANGED <<base, setup, park, scan, tracking, calls>>

\* A setup goes on; setASConfiguration keeps the setup there was, and restores the
\* tracking from what it read.
InitEnds(c) ==
    /\ call[c].at = "load"
    /\ IF call[c].op # "surface"
       THEN Goes(c, "wait") /\ UNCHANGED flags
       ELSE /\ flags' = [flags EXCEPT !.starting = FALSE, !.configured = TRUE]
            /\ IF call[c].was THEN Goes(c, "restore") ELSE Returns(c)
    /\ UNCHANGED <<base, setup, park, scan, tracking, calls, past>>

Restore(c) ==
    /\ call[c].at = "restore"
    /\ IF Allowed THEN Goes(c, "start") /\ UNCHANGED past
                   ELSE Returns(c) /\ past' = Doubts(TRUE)
    /\ UNCHANGED <<flags, base, setup, park, scan, tracking, calls>>

\* Five seconds later the thread is started, or started again: that waits for the end
\* of the run before.
StartSetup(c) ==
    /\ call[c].at = "wait" /\ Returns(c)
    /\ \/ setup # "start" /\ setup' = "moving" /\ UNCHANGED past
       \/ "restart" \in Faults /\ UNCHANGED setup /\ past' = [past EXCEPT !.stuck = TRUE]
    /\ UNCHANGED <<flags, base, park, scan, tracking, calls>>

--------------------------------------------------------------------------------
(* The setup thread                                                        *)

SetupDone ==
    /\ setup = "moving" /\ setup' = "last"
    /\ flags' = [flags EXCEPT !.starting = FALSE, !.configured = TRUE]
    /\ past' = Crosses(UnderWay \/ InScan)
    /\ UNCHANGED <<base, call, park, scan, tracking, calls>>

\* Mutant: the flag stays up.
SetupFailsOnly ==
    /\ "servo" \in Faults
    /\ setup = "moving" /\ setup' = "none"
    /\ flags' = [flags EXCEPT !.configured = FALSE]
    /\ UNCHANGED <<base, call, park, scan, tracking, calls, past>>

\* A servo in failure, disabled, in emergency stop or too slow.
SetupFails ==
    /\ "servo" \in Faults
    /\ setup = "moving" /\ setup' = "none"
    /\ flags' = [flags EXCEPT !.starting = FALSE, !.configured = FALSE]
    /\ UNCHANGED <<base, call, park, scan, tracking, calls, past>>

\* The encoders not in use are powered off, which takes seconds; then, if the tracking
\* is enabled, turnTrackingOn is called, and its errors are ignored.  Meanwhile the
\* boss is ready, for a scan too.
SetupTracks ==
    /\ setup = "last"
    /\ setup' = IF flags.enabled /\ Allowed THEN "start" ELSE "none"
    /\ past' = Doubts(flags.enabled /\ ~Allowed)
    /\ UNCHANGED <<flags, base, call, park, scan, tracking, calls>>

SetupEnds ==
    /\ setup = "start" /\ setup' = "none"
    /\ \E o \in TurnTrackingOn :
           tracking' = o.runs /\ past' = IF o.raised THEN Doubts(TRUE) ELSE Settles
    /\ UNCHANGED <<flags, base, call, park, scan, calls>>

--------------------------------------------------------------------------------
(* The park thread                                                         *)

StartPark(c) ==
    /\ call[c].at = "raise" /\ Returns(c)
    /\ flags' = [flags EXCEPT !.parking = TRUE]
    /\ \/ park' = TRUE /\ UNCHANGED past
       \/ "restart" \in Faults /\ UNCHANGED park /\ past' = [past EXCEPT !.stuck = TRUE]
    /\ UNCHANGED <<base, setup, scan, tracking, calls>>

\* The first servo that is ready is sent to its position.
ParkMoves ==
    /\ park /\ flags.configured /\ flags' = [flags EXCEPT !.configured = FALSE]
    /\ UNCHANGED <<base, call, setup, park, scan, tracking, calls, past>>

\* A target of the wrong length: the flag falls, and the thread goes on.
ParkMismatch ==
    /\ "length" \in Faults
    /\ park /\ flags.parking /\ flags' = [flags EXCEPT !.parking = FALSE]
    /\ UNCHANGED <<base, call, setup, park, scan, tracking, calls, past>>

\* Done, or too slow; the servos that are ready are disabled.
ParkEnds ==
    /\ park /\ park' = FALSE
    /\ flags' \in {[flags EXCEPT !.parking = FALSE, !.configured = c] : c \in {flags.configured, FALSE}}
    /\ UNCHANGED <<base, call, setup, scan, tracking, calls, past>>

--------------------------------------------------------------------------------
(* Scans                                                                   *)

StartScan ==
    /\ scan.call = "none" /\ flags.configured /\ ~flags.locked
    /\ scan' = [scan EXCEPT !.call = "starting"]
    /\ flags' = [flags EXCEPT !.locked = TRUE, !.scanning = FALSE]
    /\ past' = [Crosses(UnderWay) EXCEPT !.joined = UnderWay \/ setup = "moving"]
    /\ UNCHANGED <<base, call, setup, park, tracking, calls>>

\* The axis, the times or the elevation are wrong.
ScanRefused ==
    /\ scan.call = "starting" /\ scan' = [scan EXCEPT !.call = "none"]
    /\ flags' = [flags EXCEPT !.locked = FALSE]
    /\ UNCHANGED <<base, call, setup, park, tracking, calls, past>>

\* Whether the tracking was enabled is read before it is turned off.
ScanReads ==
    /\ scan.call = "starting" /\ scan' = [scan EXCEPT !.call = "stopping", !.was = flags.enabled]
    /\ UNCHANGED <<flags, base, call, setup, park, tracking, calls, past>>

ScanStops ==
    /\ scan.call = "stopping"
    /\ Outcome(FALSE, FALSE) \in TurnTrackingOff /\ tracking' = FALSE
    /\ scan' = [scan EXCEPT !.call = "beginning"]
    /\ UNCHANGED <<flags, base, call, setup, park, calls, past>>

ScanBegins ==
    /\ scan.call = "beginning" /\ scan' = [scan EXCEPT !.call = "none", !.thread = "waiting"]
    /\ flags' = [flags EXCEPT !.active = TRUE]
    /\ UNCHANGED <<base, call, setup, park, tracking, calls, past>>

\* The tracking cannot be turned off, or was, and nobody turns it on again.
ScanFails ==
    /\ scan.call \in {"starting", "stopping", "beginning"}
    /\ \E o \in IF scan.call = "stopping" /\ "switch" \in Faults THEN TurnTrackingOff
                                                       ELSE {Outcome(tracking, TRUE)} :
           o.raised /\ tracking' = o.runs
    /\ past' = Doubts(tracking' # tracking \/ (scan.call = "beginning" /\ scan.was))
    /\ scan' = [scan EXCEPT !.call = "none"]
    /\ flags' = [flags EXCEPT !.locked = FALSE, !.active = FALSE, !.scanning = FALSE]
    /\ UNCHANGED <<base, call, setup, park, calls>>

\* ScanThread::run, half a second before the start.
ScanFeeds ==
    /\ scan.thread = "waiting" /\ scan' = [scan EXCEPT !.thread = "feeding"]
    /\ flags' = [flags EXCEPT !.scanning = TRUE]
    /\ UNCHANGED <<base, call, setup, park, tracking, calls, past>>

ScanEnds ==
    /\ scan.thread # "none" /\ scan' = [scan EXCEPT !.thread = "none"]
    /\ flags' = [flags EXCEPT !.scanning = FALSE]
    /\ UNCHANGED <<base, call, setup, park, tracking, calls, past>>

\* Mutant: the scan thread is not terminated.
CloseScanOnly ==
    /\ scan.call = "none"
    /\ flags' = [flags EXCEPT !.locked = FALSE, !.scanning = FALSE]
    /\ scan' = IF flags.active THEN [scan EXCEPT !.call = "closing"] ELSE scan
    /\ past' = Crosses(UnderWay)
    /\ UNCHANGED <<base, call, setup, park, tracking, calls>>

\* Without an active scan nothing is done but lower the flags.
CloseScan ==
    /\ scan.call = "none"
    /\ flags' = [flags EXCEPT !.locked = FALSE, !.scanning = FALSE]
    /\ scan' = IF flags.active THEN [scan EXCEPT !.call = "closing", !.thread = "none"] ELSE scan
    /\ past' = IF flags.active THEN Crosses(UnderWay) ELSE past
    /\ UNCHANGED <<base, call, setup, park, tracking, calls>>

\* No reference to the servo, or its queue cannot be cleaned: the scan stays active,
\* its thread may have been terminated.
CloseScanFails ==
    /\ "servo" \in Faults
    /\ scan.call = "none" /\ flags.active
    /\ scan' \in {scan, [scan EXCEPT !.thread = "none"]}
    /\ UNCHANGED <<flags, base, call, setup, park, tracking, calls, past>>

\* Mutant: the servo goes to the centre of the scan anyway.
ScanClosesOnly ==
    /\ scan.call = "closing" /\ scan' = [scan EXCEPT !.call = "none"]
    /\ flags' = [flags EXCEPT !.active = FALSE]
    /\ UNCHANGED <<base, call, setup, park, tracking, calls, past>>

\* The tracking goes on as before the scan, or the servo goes to the centre, if it
\* is ready; what raises leaves the scan active.
ScanCloses ==
    /\ scan.call = "closing"
    /\ \/ /\ scan.was /\ Allowed
          /\ scan' = [scan EXCEPT !.call = "restoring"] /\ UNCHANGED <<flags, past>>
       \/ /\ ~scan.was
          /\ scan' = [scan EXCEPT !.call = "none"] /\ flags' = [flags EXCEPT !.active = FALSE]
          /\ UNCHANGED past
       \/ /\ IF scan.was THEN ~Allowed ELSE "servo" \in Faults
          /\ scan' = [scan EXCEPT !.call = "none"] /\ UNCHANGED flags
          /\ past' = Doubts(TRUE)
    /\ UNCHANGED <<base, call, setup, park, tracking, calls>>

ScanRestores ==
    /\ scan.call = "restoring" /\ scan' = [scan EXCEPT !.call = "none"]
    /\ \E o \in TurnTrackingOn :
           /\ tracking' = o.runs
           /\ flags' = [flags EXCEPT !.active = o.raised]
           /\ past' = Doubts(o.raised)
    /\ UNCHANGED <<base, call, setup, park, calls>>

--------------------------------------------------------------------------------
Command(c) ==
    \/ \E on \in BOOLEAN : SetElevationTracking(c, on)
    \/ \E config \in Configurations : Setup(c, config)
    \/ Park(c) \/ SetASConfiguration(c)

Proceed(c) ==
    \/ Look(c) \/ TurnOn(c) \/ TurnOff(c) \/ Check(c)
    \/ InitBegins(c) \/ InitClears(c) \/ InitFails(c) \/ InitEnds(c) \/ Restore(c)
    \/ StartSetup(c) \/ StartPark(c)

Threads ==
    \/ SetupDone \/ SetupFails \/ SetupTracks \/ SetupEnds
    \/ ParkMoves \/ ParkMismatch \/ ParkEnds \/ ScanFeeds \/ ScanEnds

Scheduler ==
    \/ StartScan \/ ScanRefused \/ ScanReads \/ ScanStops \/ ScanBegins \/ ScanFails
    \/ CloseScan \/ CloseScanFails \/ ScanCloses \/ ScanRestores

Next == (\E c \in Clients : Command(c) \/ Proceed(c)) \/ Threads \/ Scheduler

\* An operation never waits but for the sleep of a setup, and every thread counts its
\* rounds and gives up.
Fairness ==
    /\ \A c \in Clients : WF_vars(Proceed(c))
    /\ WF_vars(SetupDone \/ SetupFails \/ SetupTracks \/ SetupEnds)
    /\ WF_vars(ParkEnds)

Spec == Init /\ [][Next]_vars /\ Fairness

--------------------------------------------------------------------------------
\* Nothing is going on.
AtRest ==
    /\ flags.configured /\ ~flags.starting /\ ~flags.parking /\ ~InScan
    /\ ~UnderWay /\ setup = "none" /\ ~park /\ scan.call = "none"

\* "Is the minor servo position following the antenna elevation?": when nothing is
\* going on, the tracking thread runs exactly if the tracking is enabled, after
\* setups, parks, switches and scans in any order, unless one that touches it raised,
\* crossed another, or came in the middle of a scan, and none since has settled it.
TrackingTruth == AtRest => (tracking <=> flags.enabled) \/ past.doubted

\* The scan thread has the servo for itself: the tracking thread, which is stopped
\* at the start of a scan, is started again only after the scan was stopped, unless
\* somebody asks for it during the scan, or an operation or a setup that was under way
\* when the scan was commanded does it.
ScanAlone == scan.thread # "none" /\ tracking => past.joined

\* A setup and a park end, and others are accepted again.
FlagsFall ==
    /\ flags.starting ~> (~flags.starting \/ past.stuck)
    /\ flags.parking ~> (~flags.parking \/ past.stuck)
================================================================================
