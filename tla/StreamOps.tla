------------------------------- MODULE StreamOps -------------------------------
(***************************************************************************)
(* The data transfer primitives of the scheduler core (Core_Basic.i): the  *)
(* four flags the core keeps about the stream between the backend and the  *)
(* data recorder, and, for every primitive, the set of its outcomes.       *)
(*                                                                         *)
(* Each primitive is a chain of remote calls.  A remote call may raise, in *)
(* which case the rest of the chain is skipped and the flags keep what the *)
(* chain had done up to there.  An outcome is the record                   *)
(*    flags  the flags after the primitive,                                *)
(*    failed the remote call that raised, or Nothing.                      *)
(* "load" stands for loadDefaultBackend / loadDefaultDataReceiver.         *)
(***************************************************************************)

\* m_streamConnected, m_streamPrepared, m_dataTransferInitialized (the scan
\* is open on the recorder), m_streamStarted.
Flags == [connected : BOOLEAN, prepared : BOOLEAN, scan : BOOLEAN, started : BOOLEAN]

NoStream == [connected |-> FALSE, prepared |-> FALSE, scan |-> FALSE, started |-> FALSE]

Nothing == "nothing"

\* The calls a primitive can be interrupted at.
RemoteCalls == {"load", "connect", "sendHeader", "sendStop", "stopScan", "reset",
                "terminate", "disconnect", "closeReceiver", "startScan", "startSubScan", "sendData",
                "setup", "unstarted"}

Outcome(f, call) == [flags |-> f, failed |-> call]
Succeeds(o) == o.failed = Nothing

\* The outcome o, if it is possible.
When(possible, o) == IF possible THEN {o} ELSE {}

Outcomes == [flags : Flags, failed : RemoteCalls \cup {Nothing}]

\* Mutant: the flags are cleared after the calls.
DisableLate(f) == {Outcome(NoStream, Nothing)} \cup When(f.started, Outcome(f, "sendStop"))

\* Mutant: the receiver is closed first.
DisableBackwards(f) ==
    {Outcome(NoStream, Nothing)}
    \cup When(f.started, Outcome([f EXCEPT !.started = FALSE, !.connected = FALSE], "sendStop"))

\* CCore::disableDataTransfer: every flag is cleared BEFORE its remote call,
\* so a call that raises leaves its own flag down and the later ones up.
DisableOutcomes(f) ==
    LET stopped    == [f EXCEPT !.started = FALSE]
        closed     == [stopped EXCEPT !.scan = FALSE]
        terminated == [closed EXCEPT !.prepared = FALSE]
    IN  {Outcome(NoStream, Nothing)}
        \cup When(f.started, Outcome(stopped, "sendStop"))
        \cup When(f.scan, Outcome(closed, "stopScan"))
        \cup When(f.started, Outcome(closed, "reset"))
        \cup When(f.prepared, Outcome(terminated, "terminate"))
        \cup When(f.connected, Outcome(NoStream, "disconnect"))
        \cup When(f.connected, Outcome(NoStream, "closeReceiver"))

\* CCore::enableDataTransfer: connect and send the header, each one only if
\* the flag says it is still to be done, and raise the flag AFTER the call.
EnableOutcomes(f) ==
    LET wired == [f EXCEPT !.connected = TRUE]
    IN  {Outcome([wired EXCEPT !.prepared = TRUE], Nothing), Outcome(f, "load")}
        \cup When(~f.connected, Outcome(f, "connect"))
        \cup When(~f.prepared, Outcome(wired, "sendHeader"))

\* CCore::setupDataTransfer: open the scan on the recorder if it is not open
\* yet, open the subscan.
SetupOutcomes(f) ==
    LET opened == [f EXCEPT !.scan = TRUE]
    IN  IF ~f.prepared
        THEN {Outcome(f, "setup")}
        ELSE {Outcome(opened, Nothing), Outcome(opened, "startSubScan")}
             \cup When(~f.scan, Outcome(f, "startScan"))

\* Mutant: a stream that is started can be started again.
TransferAgain(f) ==
    IF f.prepared
    THEN {Outcome([f EXCEPT !.started = TRUE], Nothing), Outcome(f, "sendData")}
    ELSE {Outcome(f, "unstarted")}

\* CCore::startDataTansfer: the flag is raised after sendData returned.
TransferOutcomes(f) ==
    IF f.prepared /\ ~f.started
    THEN {Outcome([f EXCEPT !.started = TRUE], Nothing), Outcome(f, "sendData")}
    ELSE {Outcome(f, "unstarted")}

\* CCore::startRecording
StartOutcomes(f) ==
    {Outcome(f, "load")}
    \cup {o \in SetupOutcomes(f) : ~Succeeds(o)}
    \cup UNION {TransferOutcomes(o.flags) : o \in {s \in SetupOutcomes(f) : Succeeds(s)}}

\* CCore::stopDataTransfer: the flag is cleared only after sendStop returned.
StopOutcomes(f) ==
    {Outcome([f EXCEPT !.started = FALSE], Nothing), Outcome(f, "load")}
    \cup When(f.started, Outcome(f, "sendStop"))

\* CCore::stopScan, used by _terminateScan.
StopScanOutcomes(f) ==
    {Outcome([f EXCEPT !.scan = FALSE], Nothing)}
    \cup When(f.scan, Outcome(f, "stopScan"))

--------------------------------------------------------------------------------

\* The flags form a chain: a started stream has a scan open, an open scan has
\* a prepared stream, a prepared stream is connected.
Nested(f) ==
    /\ f.started  => f.scan
    /\ f.scan     => f.prepared
    /\ f.prepared => f.connected
================================================================================
