--------------------------- MODULE TotalPowerBackend ---------------------------
(***************************************************************************)
(* The component of the total power backend: the command line to the       *)
(* hardware (CCommandLine), the operations of a transfer job               *)
(* (TotalPowerImpl), the thread that sends the dumps (CSenderThread) and   *)
(* the one that checks the clock (CControlThread).                         *)
(*                                                                         *)
(* CCommandLine is a secure area: whoever works with it holds its mutex,   *)
(* so that the exchange of a command and its answer is one step, except    *)
(* where the holder waits (resumeDataAcquisition).  The flags of the       *)
(* sender thread are not protected.  When the connection comes back, the   *)
(* callback of the socket does not take the mutex either.                  *)
(***************************************************************************)
EXTENDS Naturals, FiniteSets

CONSTANTS
    Callers,     \* threads that execute the operations of the component
    MaxFaults    \* commands that are not acknowledged, and connections that fail

ASSUME BackendBounds == MaxFaults \in Nat

VARIABLES
    line,     \* CCommandLine: the connection and the status bits
    board,    \* the hardware: what it does, its data connections
    sender,   \* the flags of CSenderThread, and where its loop is
    at,       \* where each caller is in its operation
    open,     \* history: the receiver got a dump after the last stop
    doubt,    \* history: the hardware may have done what it was not asked for (see Exchange)
    faults    \* see MaxFaults

vars == <<line, board, sender, at, open, doubt, faults>>

Connections == {"none", "open", "closed"}

TypeOK ==
    /\ line \in [status : {"connected", "connecting", "lost"}, timedout : BOOLEAN,
                 reiniting : BOOLEAN, busy : BOOLEAN, suspend : BOOLEAN]
    /\ board \in [state : {"idle", "suspended", "sampling"},
                  pending : Connections, data : Connections]
    /\ board.state = "idle" => "open" \notin {board.pending, board.data}
    /\ sender \in [pc : {"top", "check", "emit"}, go : BOOLEAN, stop : BOOLEAN,
                   sending : BOOLEAN]
    /\ at \in [Callers -> {"idle", "latency", "resuming", "suspending", "waiting"}]
    /\ open \in BOOLEAN /\ doubt \in BOOLEAN
    /\ faults \in 0 .. MaxFaults

\* CCommandLine::Init succeeded, CSenderThread::CSenderThread
Init ==
    /\ line = [status |-> "connected", timedout |-> FALSE, reiniting |-> FALSE,
               busy |-> FALSE, suspend |-> FALSE]
    /\ board = [state |-> "idle", pending |-> "none", data |-> "none"]
    /\ sender = [pc |-> "top", go |-> FALSE, stop |-> FALSE, sending |-> FALSE]
    /\ at = [c \in Callers |-> "idle"]
    /\ open = FALSE /\ doubt = FALSE /\ faults = 0

--------------------------------------------------------------------------------
(* The hardware.  It connects to the data port when it starts.             *)

\* Mutant: the hardware keeps its data connections when it is stopped.
HangOn(connection) == connection

Hang(connection) == IF connection = "open" THEN "closed" ELSE connection

Started(b)   == IF b.state = "idle" THEN [b EXCEPT !.state = "suspended", !.pending = "open"] ELSE b
Resumed(b)   == IF b.state = "suspended" THEN [b EXCEPT !.state = "sampling"] ELSE b
Suspended(b) == IF b.state = "sampling" THEN [b EXCEPT !.state = "suspended"] ELSE b
Stopped(b)   == [state |-> "idle", pending |-> Hang(b.pending), data |-> Hang(b.data)]

--------------------------------------------------------------------------------
(* The command line.  An outcome is what a command leaves: the line, the   *)
(* board, doubt, the faults met, and whether the command succeeded.        *)

Present == [line |-> line, board |-> board, doubt |-> doubt, faults |-> faults, ok |-> TRUE]

Outcome(o) == line' = o.line /\ board' = o.board /\ doubt' = o.doubt /\ faults' = o.faults

Fault(o) == [o EXCEPT !.faults = @ + 1, !.ok = FALSE]

\* sendBuffer and receiveBuffer.  The command is acknowledged; or refused; or
\* the answer is late or the connection breaks, and nobody knows whether the
\* hardware has executed it.
Exchange(o, done) ==
    {[o EXCEPT !.board = done]}
    \cup IF o.faults = MaxFaults THEN {}
         ELSE {Fault(o)}
              \cup {Fault([o EXCEPT !.board = b, !.doubt = @ \/ done # o.board,
                                    !.line.timedout = TRUE]) : b \in {o.board, done}}
              \cup {Fault([o EXCEPT !.board = b, !.doubt = @ \/ done # o.board,
                                    !.line.status = "lost"]) : b \in {o.board, done}}

\* An acknowledged stop leaves no doubt about the hardware.
Sure(o) == [o EXCEPT !.doubt = ~o.ok]

\* stopDataAcquisitionForced after a reconnection: a failure is ignored, and
\* the component is not busy any more.
Reconnected(o) ==
    {[Sure(s) EXCEPT !.line.busy = FALSE, !.line.reiniting = TRUE, !.ok = TRUE] :
        s \in Exchange([o EXCEPT !.line.status = "connected"], Stopped(o.board))}

\* An answer that was late is waited for once more.
LateAnswer(o) ==
    IF o.line.timedout
    THEN {[o EXCEPT !.line.timedout = FALSE], [o EXCEPT !.line.status = "lost"]}
    ELSE {o}

\* The connection is there, or is being made, or can be made again.
Connect(o) ==
    IF o.line.status = "connected" THEN {o}
    ELSE IF o.line.status = "connecting" THEN {[o EXCEPT !.ok = FALSE]}
    ELSE LET closed == [o EXCEPT !.line.timedout = FALSE]
         IN  Reconnected(closed)
             \cup {[closed EXCEPT !.line.status = "connecting", !.ok = FALSE],
                   [closed EXCEPT !.ok = FALSE]}

CheckConnection(o) == UNION {Connect(a) : a \in LateAnswer(o)}

\* A command to the board, once the connection is there.
Command(o, Effect(_)) ==
    UNION {IF c.ok THEN Exchange(c, Effect(c.board)) ELSE {c} : c \in CheckConnection(o)}

\* setTime, checkTime, getSample, ...: nothing changes in the board.
Query(o) == LET Same(b) == b IN Command(o, Same)

\* startDataAcquisition
Start(o) ==
    IF o.line.busy THEN {[o EXCEPT !.ok = FALSE]}
    ELSE {IF s.ok THEN [s EXCEPT !.line.busy = TRUE, !.line.suspend = TRUE] ELSE s :
             s \in Command(o, Started)}

--------------------------------------------------------------------------------
(* The operations of the component.                                        *)

\* Mutant: sendStop does not release the mutex before it waits.
FreeOfStops == \A c \in Callers : at[c] \notin {"latency", "suspending", "waiting"}

\* Nobody holds the mutex of the command line.
Free == \A c \in Callers : at[c] # "latency"

Goes(c, place) == at' = [at EXCEPT ![c] = place]

\* TotalPowerImpl::sendHeader: the clock is set, the zero is measured (both
\* refuse a busy board), the job is started.
SendHeader(c) ==
    /\ at[c] = "idle" /\ Free
    /\ ~line.busy
    /\ \E t \in Query(Present) :
          \E z \in IF t.ok THEN Query(t) ELSE {t} :
             \E s \in IF z.ok THEN Start(z) ELSE {z} : Outcome(s)
    /\ UNCHANGED <<sender, at, open>>

\* Mutant: the bits are not cleared when the job is stopped.
TerminateOnly(c) ==
    /\ at[c] = "idle" /\ Free
    /\ line.busy
    /\ \E s \in Command(Present, Stopped) : Outcome(IF s.ok THEN Sure(s) ELSE s)
    /\ UNCHANGED <<sender, at, open>>

\* TotalPowerImpl::terminate, CCommandLine::stopDataAcquisition
Terminate(c) ==
    /\ at[c] = "idle" /\ Free
    /\ line.busy
    /\ \E s \in Command(Present, Stopped) :
          Outcome(IF s.ok
                  THEN [Sure(s) EXCEPT !.line.busy = FALSE, !.line.suspend = FALSE]
                  ELSE s)
    /\ UNCHANGED <<sender, at, open>>

\* TotalPowerImpl::sendData: resumeDataAcquisition waits for the latency of
\* the hardware, with the mutex,
BeginSendData(c) ==
    /\ at[c] = "idle" /\ Free
    /\ line.busy /\ line.suspend
    /\ Goes(c, "latency")
    /\ UNCHANGED <<line, board, sender, open, doubt, faults>>

\* ... and commands it; then the mutex is released,
ResumeAcquisition(c) ==
    /\ at[c] = "latency"
    /\ \E s \in Command(Present, Resumed) :
          /\ Outcome(IF s.ok THEN [s EXCEPT !.line.suspend = FALSE] ELSE s)
          /\ Goes(c, IF s.ok THEN "resuming" ELSE "idle")
    /\ UNCHANGED <<sender, open>>

\* ... and the sender thread is told: m_go is raised, whatever m_stop is.
ResumeTransfer(c) ==
    /\ at[c] = "resuming"
    /\ Goes(c, "idle")
    /\ sender' = [sender EXCEPT !.go = TRUE]
    /\ UNCHANGED <<line, board, open, doubt, faults>>

\* TotalPowerImpl::sendStop: suspendDataAcquisition, then the mutex is released
\* "just to make sure to avoid deadlock",
BeginSendStop(c) ==
    /\ at[c] = "idle" /\ Free
    /\ line.busy /\ ~line.suspend
    /\ \E s \in Command(Present, Suspended) :
          /\ Outcome(IF s.ok THEN [s EXCEPT !.line.suspend = TRUE] ELSE s)
          /\ Goes(c, IF s.ok THEN "suspending" ELSE "idle")
    /\ UNCHANGED <<sender, open>>

\* ... CSenderThread::suspendTransfer raises the flag
SuspendTransfer(c) ==
    /\ at[c] = "suspending"
    /\ Goes(c, "waiting")
    /\ sender' = [sender EXCEPT !.stop = TRUE]
    /\ UNCHANGED <<line, board, open, doubt, faults>>

\* ... and looks at it until it is down.
SendStopReturns(c) ==
    /\ at[c] = "waiting" /\ ~sender.stop
    /\ Goes(c, "idle")
    /\ UNCHANGED <<line, board, sender, open, doubt, faults>>

\* CControlThread::runLoop, and the reads and settings of the properties.
CheckTime ==
    /\ Free
    /\ \E q \in Query(Present) : Outcome(q)
    /\ UNCHANGED <<sender, at, open>>

\* CCommandLine::onConnect: the connection that was being made is there, or
\* failed.  Called by the socket, without the mutex.
OnConnect ==
    /\ line.status = "connecting"
    /\ \/ \E r \in Reconnected(Present) : Outcome(r)
       \/ /\ faults < MaxFaults
          /\ line' = [line EXCEPT !.status = "lost"]
          /\ faults' = faults + 1
          /\ UNCHANGED <<board, doubt>>
    /\ UNCHANGED <<sender, at, open>>

--------------------------------------------------------------------------------
(* CSenderThread::runLoop.                                                 *)

SenderAt(place) == sender.pc = place

\* The component was connected again: the data connection is closed and the
\* loop starts from the beginning.
Reinit ==
    /\ SenderAt("top") /\ Free
    /\ line.reiniting
    /\ line' = [line EXCEPT !.reiniting = FALSE]
    /\ board' = [board EXCEPT !.data = "none"]
    /\ sender' = [sender EXCEPT !.stop = TRUE]
    /\ UNCHANGED <<at, open, doubt, faults>>

\* The loop has been through the data connection, which left the flags so.
Checks(flags) == sender' = [flags EXCEPT !.pc = "check"]

\* The hardware is waited for.
Accept ==
    /\ SenderAt("top") /\ Free /\ ~line.reiniting
    /\ board.data = "none"
    /\ board' = [board EXCEPT !.data = board.pending, !.pending = "none"]
    /\ Checks(sender)
    /\ UNCHANGED <<line, at, open, doubt, faults>>

\* processData, computeSample: the samples make a dump, or not yet.
Receive ==
    /\ SenderAt("top") /\ Free /\ ~line.reiniting
    /\ board.data # "none"
    /\ \/ sender.go /\ open' = TRUE /\ Checks([sender EXCEPT !.sending = TRUE])
       \/ UNCHANGED open /\ Checks(sender)
    /\ UNCHANGED <<line, board, at, doubt, faults>>

\* The hardware has closed the data connection.
HangUp ==
    /\ SenderAt("top") /\ Free /\ ~line.reiniting
    /\ board.data = "closed"
    /\ board' = [board EXCEPT !.data = "none"]
    /\ Checks([sender EXCEPT !.stop = TRUE])
    /\ UNCHANGED <<line, at, open, doubt, faults>>

\* Mutant: m_go is left as it is.
HandleStopOnly ==
    /\ SenderAt("check")
    /\ sender' = IF sender.stop
                 THEN [sender EXCEPT !.pc = "emit", !.stop = FALSE]
                 ELSE [sender EXCEPT !.pc = "top"]
    /\ UNCHANGED <<line, board, at, open, doubt, faults>>

\* m_go and m_stop go down; a caller of sendStop is free from here,
HandleStop ==
    /\ SenderAt("check")
    /\ sender' = IF sender.stop
                 THEN [sender EXCEPT !.pc = "emit", !.go = FALSE, !.stop = FALSE]
                 ELSE [sender EXCEPT !.pc = "top"]
    /\ UNCHANGED <<line, board, at, open, doubt, faults>>

\* ... before the stop is sent, if there was a dump.
StopSend ==
    /\ SenderAt("emit")
    /\ open' = (open /\ ~sender.sending)
    /\ sender' = [sender EXCEPT !.pc = "top", !.sending = FALSE]
    /\ UNCHANGED <<line, board, at, doubt, faults>>

Sender == Reinit \/ Accept \/ Receive \/ HangUp \/ HandleStop \/ StopSend

Operation(c) ==
    \/ SendHeader(c) \/ Terminate(c)
    \/ BeginSendData(c) \/ ResumeAcquisition(c) \/ ResumeTransfer(c)
    \/ BeginSendStop(c) \/ SuspendTransfer(c) \/ SendStopReturns(c)

Next == Sender \/ (\E c \in Callers : Operation(c)) \/ CheckTime \/ OnConnect

Spec == Init /\ [][Next]_vars

\* An operation that has begun goes on.  The sender thread gets the mutex over
\* and over: its holder waits for a time.  A caller of sendStop, which looks ten
\* times a second, meets m_stop down if it is down over and over.
FairSpec ==
    /\ Spec
    /\ SF_vars(Sender)
    /\ \A c \in Callers :
          /\ WF_vars(ResumeAcquisition(c) \/ ResumeTransfer(c) \/ SuspendTransfer(c))
          /\ SF_vars(SendStopReturns(c))

--------------------------------------------------------------------------------
(* Properties.                                                             *)

\* The component is what GenericBackend.idl asks of it.  The stop that is
\* still to be sent after m_stop went down counts as sent: no dump can come
\* before it.
Stream == INSTANCE BackendStream WITH
    go <- sender.go,
    open <- open /\ ~SenderAt("emit"),
    asked <- {c \in Callers : at[c] = "waiting" /\ sender.stop}

DumpStream == Stream!FairSpec

\* The status bits say what the hardware does, through refusals, reconnections
\* and late answers, as long as no command was left in doubt.
StatusAgrees ==
    ~doubt =>
        /\ line.busy <=> (board.state # "idle")
        /\ line.busy => (line.suspend <=> (board.state = "suspended"))

\* sendStop returns: the sender thread, which answers it, does not wait for
\* the mutex of the caller.
SendStopEnds == \A c \in Callers : at[c] = "waiting" ~> at[c] = "idle"
================================================================================
