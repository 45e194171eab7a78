---------------------------- MODULE DewarPositioner ----------------------------
(***************************************************************************)
(* The dewar positioner (DewarPositionerImpl, positioner.Positioner): the  *)
(* commands of its clients, the thread that follows a scan or goes to a    *)
(* position (_updatePosition), and the rewinding, automatic or commanded.  *)
(*                                                                         *)
(* Some commands hold Positioner.generalLock from their first check to     *)
(* their end, some for a part of their work, and some never: what they     *)
(* share is one Control object, which setup and park replace by a new one. *)
(***************************************************************************)
EXTENDS Naturals, FiniteSets

CONSTANTS
    Clients,    \* who calls the component
    Threads,    \* the threads that may be alive together
    Offsets,    \* the offsets that setOffset is called with
    NoOne,
    MaxCalls    \* commands of the clients

ASSUME PositionerBounds ==
    /\ MaxCalls \in Nat /\ Offsets \subseteq Nat
    /\ NoOne \notin Clients \cup Threads /\ Clients \cap Threads = {}

VARIABLES
    control,    \* Positioner.control
    setUp,      \* Positioner.is_setup, CDBConf._isConfigured
    derotator,  \* the last position the derotator was given
    thread,     \* the threads, and Positioner.t
    call,       \* the command each client is in
    lock,       \* the holders of generalLock and of rewindingLock
    past,       \* history, see Past
    calls       \* see MaxCalls

vars == <<control, setUp, derotator, thread, call, lock, past, calls>>

\* static: scanInfo.iStaticPos, to which the parallactic angle and the rewinding
\* offset, left out here, are added; offset: what was added for the user.
Places == {"zero", "setup", "park", "user", "scan"}
Positions == [static : Places, offset : Nat]
Position(static, offset) == [static |-> static, offset |-> offset]

Modes == {"none", "AUTO", "MANUAL"}
Movers == {"goto", "follow"}     \* PosGenerator.goto, and the two endless generators
Operations == {"setup", "park", "setPosition", "startUpdating", "stopUpdating",
               "setOffset", "setConfiguration", "defaults", "rewind"}

\* late:    a thread had not begun, or had not ended, when it was waited for no more
\* crossed: an operation began while another, that it does not exclude, was going on
\* died:    the last thread that was started ended without being told to
\* fault:   the derotator, or the source, has failed
\* asked:   an offset was set, and no position commanded since
\* deaf:    it was set while a thread was going to a position, or ending
Past == [late : BOOLEAN, crossed : BOOLEAN, died : BOOLEAN, fault : BOOLEAN,
         asked : BOOLEAN, deaf : BOOLEAN]

TypeOK ==
    /\ control \in [updating : BOOLEAN, stop : BOOLEAN, mustUpdate : BOOLEAN,
                    required : BOOLEAN, rewinding : BOOLEAN, mode : Modes,
                    static : Places, offset : Offsets \cup {0}]
    /\ setUp \in [device : BOOLEAN, configured : BOOLEAN]
    /\ derotator \in Positions
    /\ thread \in [t : Threads \cup {NoOne},
                   pc : [Threads -> {"none", "born", "ready", "loop", "manual",
                                     "lock", "poll", "end"}],
                   mover : [Threads -> Movers]]
    /\ call \in [Clients -> [op : Operations, mover : Movers,
                             pc : {"idle", "acquire", "join", "go", "started", "parked",
                                   "lock", "poll"}]]
    /\ lock \in [general : Clients \cup {NoOne}, rewinding : Clients \cup Threads \cup {NoOne}]
    /\ past \in Past
    /\ calls \in 0 .. MaxCalls

\* A client between two commands.
Idle == [op |-> "stopUpdating", mover |-> "goto", pc |-> "idle"]

\* Control.__init__
NewControl ==
    [updating |-> FALSE, stop |-> FALSE, mustUpdate |-> FALSE, required |-> FALSE,
     rewinding |-> FALSE, mode |-> "none", static |-> "zero", offset |-> 0]

Init ==
    /\ control = NewControl
    /\ setUp = [device |-> FALSE, configured |-> FALSE]
    /\ derotator = Position("zero", 0)
    /\ thread = [t |-> NoOne, pc |-> [w \in Threads |-> "none"],
                 mover |-> [w \in Threads |-> "goto"]]
    /\ call = [c \in Clients |-> Idle]
    /\ lock = [general |-> NoOne, rewinding |-> NoOne]
    /\ past = [late |-> FALSE, crossed |-> FALSE, died |-> FALSE, fault |-> FALSE,
               asked |-> FALSE, deaf |-> FALSE]
    /\ calls = 0

--------------------------------------------------------------------------------
(* The control object.                                                     *)

\* Mutant: the failure rule of getStatus is left armed.
StoppedControlOnly(k) ==
    [k EXCEPT !.updating = FALSE, !.stop = FALSE, !.required = FALSE, !.rewinding = FALSE]

\* Control.stopUpdating
StoppedControl(k) ==
    [k EXCEPT !.updating = FALSE, !.stop = FALSE, !.mustUpdate = FALSE,
              !.required = FALSE, !.rewinding = FALSE]

\* Control.clearScanInfo, which setConfiguration calls.
ClearedScanInfo(k) ==
    [k EXCEPT !.static = "zero", !.offset = 0]

\* What _updatePosition hands to _setPosition, and the offset added there.
Target == Position(control.static, control.offset)

--------------------------------------------------------------------------------
(* The thread: _updatePosition.                                            *)

At(w, pc) == thread.pc[w] = pc
Goes(w, pc) == thread' = [thread EXCEPT !.pc[w] = pc]

\* A position was refused, or could not be computed, by what is outside.
Failed(h) == [h EXCEPT !.fault = TRUE, !.asked = FALSE]

\* goto yields one position, the other generators go on.
NextPosition(w) == IF thread.mover[w] = "goto" THEN "end" ELSE "loop"

Begin(w) ==
    /\ At(w, "born") /\ Goes(w, "ready")
    /\ control' = [control EXCEPT !.required = FALSE, !.rewinding = FALSE,
                                  !.updating = TRUE]
    /\ UNCHANGED <<setUp, derotator, call, lock, past, calls>>

CheckReady(w) ==
    /\ At(w, "ready")
    /\ \/ Goes(w, "loop") /\ past' = past
       \/ Goes(w, "end") /\ past' = Failed(past)
    /\ UNCHANGED <<control, setUp, derotator, call, lock, calls>>

\* The stop flag is looked at before every position.
LeaveLoop(w) ==
    /\ At(w, "loop")
    /\ \/ control.stop /\ past' = past
       \/ thread.mover[w] = "follow" /\ past' = Failed(past)
    /\ Goes(w, "end")
    /\ UNCHANGED <<control, setUp, derotator, call, lock, calls>>

SetPosition(w) ==
    /\ At(w, "loop") /\ ~control.stop
    /\ \/ /\ derotator' = Target
          /\ Goes(w, NextPosition(w)) /\ past' = [past EXCEPT !.asked = FALSE]
       \/ /\ derotator' = derotator
          /\ Goes(w, "end") /\ past' = Failed(past)
    /\ UNCHANGED <<control, setUp, call, lock, calls>>

\* The target is out of range: the mode says what to do.  A rewinding that is
\* refused ends the thread.
OutOfRange(w) ==
    /\ At(w, "loop") /\ ~control.stop
    /\ control' = [control EXCEPT !.required = TRUE]
    /\ \/ control.mode = "AUTO" /\ setUp.device /\ ~control.rewinding
             /\ Goes(w, "lock") /\ past' = past
       \/ control.mode = "AUTO" /\ (~setUp.device \/ control.rewinding)
             /\ Goes(w, "end") /\ past' = Failed(past)
       \/ control.mode = "MANUAL" /\ Goes(w, "manual") /\ past' = past
       \/ control.mode = "none" /\ Goes(w, NextPosition(w)) /\ past' = Failed(past)
    /\ UNCHANGED <<setUp, derotator, call, lock, calls>>

\* Mutant: the wait for the user does not look at the stop flag.
ManualWaitOn(w) ==
    /\ At(w, "manual") /\ ~control.required
    /\ Goes(w, NextPosition(w))
    /\ UNCHANGED <<control, setUp, derotator, call, lock, past, calls>>

ManualWait(w) ==
    /\ At(w, "manual") /\ (~control.required \/ control.stop)
    /\ Goes(w, NextPosition(w))
    /\ UNCHANGED <<control, setUp, derotator, call, lock, past, calls>>

\* Mutant: the thread ends and leaves the flags as they are.
EndOnly(w) ==
    /\ At(w, "end") /\ Goes(w, "none")
    /\ UNCHANGED <<control, setUp, derotator, call, lock, past, calls>>

End(w) ==
    /\ At(w, "end")
    /\ thread' = [thread EXCEPT !.pc[w] = "none", !.mover[w] = "goto"]
    /\ control' = StoppedControl(control)
    /\ past' = [past EXCEPT !.died = @ \/ ~control.stop]
    /\ UNCHANGED <<setUp, derotator, call, lock, calls>>

--------------------------------------------------------------------------------
(* Rewinding: rewind, by the thread or by a client.                        *)

\* The actor a, who is at pc, goes on: a client returns, a thread takes the
\* next position or ends.
Resumes(a, pc, next, h) ==
    IF a \in Threads
    THEN At(a, pc) /\ Goes(a, next) /\ UNCHANGED call /\ past' = h
    ELSE /\ call[a].op = "rewind" /\ call[a].pc = pc
         /\ call' = [call EXCEPT ![a] = IF next = "poll" THEN [@ EXCEPT !.pc = "poll"] ELSE Idle]
         /\ UNCHANGED thread /\ past' = h

After(a) == IF a \in Threads THEN NextPosition(a) ELSE "idle"

\* The parameters may be wrong, the derotator may refuse: then a rewinding is
\* required still.  The target that is rewound has the offset in it already.
TakeRewinding(a) ==
    /\ lock.rewinding = NoOne
    /\ \/ /\ Resumes(a, "lock", "poll", [past EXCEPT !.asked = FALSE])
          /\ lock' = [lock EXCEPT !.rewinding = a]
          /\ control' = [control EXCEPT !.rewinding = TRUE]
          /\ derotator' = Position(control.static, control.offset + control.offset)
       \/ /\ Resumes(a, "lock", "end", Failed(past))
          /\ control' = [control EXCEPT !.rewinding = FALSE, !.required = TRUE]
          /\ UNCHANGED <<lock, derotator>>
    /\ UNCHANGED <<setUp, calls>>

\* Until the derotator tracks or a stop is asked, RewindingTimeout at most.
EndRewinding(a) ==
    /\ lock.rewinding = a
    /\ lock' = [lock EXCEPT !.rewinding = NoOne]
    /\ \/ /\ Resumes(a, "poll", After(a), past)
          /\ control' = [control EXCEPT !.rewinding = FALSE, !.required = FALSE]
       \/ /\ Resumes(a, "poll", "end", Failed(past))
          /\ control' = [control EXCEPT !.rewinding = FALSE, !.required = TRUE]
    /\ UNCHANGED <<setUp, derotator, calls>>

--------------------------------------------------------------------------------
(* The clients: starting and stopping the thread.                          *)

In(c, op, pc) == call[c].op = op /\ call[c].pc = pc
Moves(c, pc) == call' = [call EXCEPT ![c].pc = pc]
Returns(c) == call' = [call EXCEPT ![c] = Idle]

Holds(c) == lock.general = c
Freed(c) == IF Holds(c) THEN [lock EXCEPT !.general = NoOne] ELSE lock

\* stopUpdating: the flag is set, then the thread is waited for.
AsksToStop(c) == control' = [control EXCEPT !.stop = TRUE] /\ Moves(c, "join")

\* The thread has ended, or two seconds have passed.  Only a thread that is in a
\* call of the derotator, or waits for another rewinding, takes that long; and
\* one that waits for the user while somebody has lowered the flag again.
Latest == {w \in Threads : w = thread.t}
Joined == \A w \in Latest : At(w, "none")
GivenUp ==
    \E w \in Latest : /\ thread.pc[w] \notin {"none", "end"}
                      /\ At(w, "manual") => ~control.stop

\* _start: the thread runs the mover.
Starts(c, mover) ==
    \E w \in Threads :
        /\ At(w, "none")
        /\ thread' = [thread EXCEPT !.t = w, !.pc[w] = "born", !.mover[w] = mover]
        /\ Moves(c, "started")

\* Positioner._setDefault
SetDefault ==
    /\ control' = NewControl
    /\ setUp' = [device |-> FALSE, configured |-> FALSE]
    /\ thread' = [thread EXCEPT !.t = NoOne]

\* Two operations that hold the general lock throughout exclude each other; a
\* rewinding and the choice of its mode disturb nobody.
Locked == {"startUpdating", "setPosition"}
Crosses(c, op) ==
    \E d \in Clients \ {c} :
        call[d].pc # "idle" /\ call[d].op # "rewind" /\ ~{op, call[d].op} \subseteq Locked

\* A new command withdraws an offset not yet applied.
Called(c, op) ==
    /\ call[c].pc = "idle" /\ calls < MaxCalls /\ calls' = calls + 1
    /\ UNCHANGED derotator
    /\ past' = [past EXCEPT !.crossed = @ \/ (op # "rewind" /\ Crosses(c, op)),
                         !.asked = @ /\ op = "rewind"]

Enters(c, op, mover, pc) == call' = [call EXCEPT ![c] = [op |-> op, mover |-> mover, pc |-> pc]]

StopUpdating(c) ==
    /\ Called(c, "stopUpdating") /\ Enters(c, "stopUpdating", "goto", "join")
    /\ control' = [control EXCEPT !.stop = TRUE]
    /\ UNCHANGED <<setUp, thread, lock>>

\* DewarPositionerImpl.setup configures before the positioner is set up.
Setup(c) ==
    /\ Called(c, "setup") /\ Enters(c, "setup", "goto", "acquire")
    /\ setUp' = [setUp EXCEPT !.configured = TRUE]
    /\ UNCHANGED <<control, thread, lock>>

CallSetPosition(c) ==
    /\ Called(c, "setPosition") /\ Enters(c, "setPosition", "goto", "acquire")
    /\ setUp.device /\ setUp.configured /\ ~control.updating
    /\ UNCHANGED <<control, setUp, thread, lock>>

StartUpdating(c) ==
    \E mover \in Movers :
        /\ Called(c, "startUpdating") /\ Enters(c, "startUpdating", mover, "acquire")
        /\ UNCHANGED <<control, setUp, thread, lock>>

\* Only a positioner that is not updating is parked under the lock.
Park(c) ==
    /\ Called(c, "park")
    /\ \/ /\ setUp.device /\ control.updating
          /\ Enters(c, "park", "goto", "join")
          /\ control' = [control EXCEPT !.offset = 0, !.stop = TRUE]
          /\ UNCHANGED <<setUp, thread>>
       \/ /\ setUp.device /\ ~control.updating
          /\ Enters(c, "park", "goto", "acquire")
          /\ control' = [control EXCEPT !.offset = 0]
          /\ UNCHANGED <<setUp, thread>>
       \/ ~setUp.device /\ SetDefault /\ UNCHANGED call
    /\ UNCHANGED lock

\* Mutant: the offset is added to the one there is.
NewOffsetRelative(o) == control.offset + o

\* Positioner._setOffset: the offset is absolute.
NewOffset(o) == o

\* While the positioner is updating the offset is left to the thread, which may
\* have commanded its last position.
SetOffset(c) ==
    \E o \in Offsets :
        /\ call[c].pc = "idle" /\ calls < MaxCalls /\ calls' = calls + 1
        /\ setUp.device
        /\ past' = [past EXCEPT !.crossed = @ \/ Crosses(c, "setOffset"), !.asked = TRUE,
                        !.deaf = control.updating /\ \E w \in Latest :
                                     thread.mover[w] = "goto" \/ At(w, "end")]
        /\ \/ /\ control.updating /\ UNCHANGED call
              /\ control' = [control EXCEPT !.offset = NewOffset(o)]
           \/ /\ ~control.updating /\ Enters(c, "setOffset", "goto", "join")
              /\ control' = [control EXCEPT !.offset = NewOffset(o), !.stop = TRUE]
        /\ UNCHANGED <<setUp, derotator, thread, lock>>

SetConfiguration(c) ==
    /\ Called(c, "setConfiguration")
    /\ \/ /\ control.updating /\ Enters(c, "setConfiguration", "goto", "join")
          /\ control' = [control EXCEPT !.stop = TRUE] /\ UNCHANGED setUp
       \/ /\ ~control.updating /\ UNCHANGED call
          /\ control' = ClearedScanInfo(control)
          /\ setUp' = [setUp EXCEPT !.configured = TRUE]
    /\ UNCHANGED <<thread, lock>>

SetRewindingMode(c) ==
    /\ Called(c, "rewind")
    /\ \E m \in {"AUTO", "MANUAL"} : control' = [control EXCEPT !.mode = m]
    /\ UNCHANGED <<setUp, thread, call, lock>>

Rewind(c) ==
    /\ Called(c, "rewind") /\ Enters(c, "rewind", "goto", "lock")
    /\ setUp.device /\ control.required /\ ~control.rewinding
    /\ UNCHANGED <<control, setUp, thread, lock>>

--------------------------------------------------------------------------------
(* The clients: what follows the call.                                     *)

\* Mutant: a new scan begins beside the one that is going on.
AcquireOnly(c) ==
    /\ call[c].pc = "acquire" /\ lock.general = NoOne
    /\ lock' = [lock EXCEPT !.general = c]
    /\ IF call[c].op = "setPosition" THEN AsksToStop(c) ELSE Moves(c, "go") /\ UNCHANGED control
    /\ UNCHANGED <<setUp, derotator, thread, past, calls>>

\* setup and startUpdating stop a positioner that is updating, goTo any.
Acquire(c) ==
    /\ call[c].pc = "acquire" /\ lock.general = NoOne
    /\ lock' = [lock EXCEPT !.general = c]
    /\ IF call[c].op = "setPosition" \/ (call[c].op # "park" /\ control.updating)
       THEN AsksToStop(c)
       ELSE Moves(c, "go") /\ UNCHANGED control
    /\ UNCHANGED <<setUp, derotator, thread, past, calls>>

\* startUpdating has nothing to do, or is refused: what it checks first.
Refuse(c) ==
    /\ In(c, "startUpdating", "acquire") /\ lock.general = NoOne
    /\ Returns(c)
    /\ UNCHANGED <<control, setUp, derotator, thread, lock, past, calls>>

Join(c) ==
    /\ call[c].pc = "join"
    /\ \/ Joined /\ UNCHANGED past
       \/ GivenUp /\ past' = [past EXCEPT !.late = TRUE]
    /\ control' = StoppedControl(control)
    /\ IF call[c].op = "stopUpdating" THEN Returns(c) ELSE Moves(c, "go")
    /\ UNCHANGED <<setUp, derotator, thread, lock, calls>>

\* An operation fails: its exception frees the lock.
Fail(c) ==
    /\ call[c].pc = "go" /\ call[c].op \in {"setup", "startUpdating", "setOffset"}
    /\ call[c].op = "startUpdating" => setUp.device
    /\ Returns(c) /\ lock' = Freed(c) /\ past' = Failed(past)
    /\ control' = IF call[c].op = "setup" THEN NewControl ELSE control
    /\ UNCHANGED <<setUp, derotator, thread, calls>>

\* The places that an operation writes into scanInfo before it starts a thread.
Destination ==
    [setPosition |-> "user", startUpdating |-> "scan", park |-> "park"]

\* _start refuses: somebody has parked the positioner meanwhile.  A park that is
\* refused so leaves the defaults as the other one has set them.
FindParked(c) ==
    /\ In(c, "setOffset", "go") \/ (call[c].op \in DOMAIN Destination /\ call[c].pc = "go" /\ Holds(c))
    /\ ~setUp.device
    /\ control' = IF call[c].op = "setOffset" THEN control
                  ELSE [control EXCEPT !.static = Destination[call[c].op]]
    /\ Returns(c) /\ lock' = Freed(c)
    /\ UNCHANGED <<setUp, derotator, thread, past, calls>>

Started(h) == [h EXCEPT !.died = FALSE]

GoSetup(c) ==
    /\ In(c, "setup", "go")
    /\ control' = [NewControl EXCEPT !.static = "setup"]
    /\ setUp' = [setUp EXCEPT !.device = TRUE]
    /\ Starts(c, "goto") /\ past' = Started(past)
    /\ UNCHANGED <<derotator, lock, calls>>

\* goTo, and the second half of park.
GoTo(c) ==
    /\ In(c, "setPosition", "go") \/ (In(c, "park", "go") /\ Holds(c))
    /\ setUp.device
    /\ control' = [control EXCEPT !.static = Destination[call[c].op]]
    /\ Starts(c, "goto") /\ past' = Started(past)
    /\ UNCHANGED <<setUp, derotator, lock, calls>>

GoUpdate(c) ==
    /\ In(c, "startUpdating", "go") /\ setUp.device
    /\ control' = [control EXCEPT !.static = Destination.startUpdating]
    /\ Starts(c, call[c].mover) /\ past' = Started(past)
    /\ UNCHANGED <<setUp, derotator, lock, calls>>

\* Mutant: the offset is kept for the next scan, and the derotator is not moved.
GoOffsetOnly(c) ==
    /\ In(c, "setOffset", "go") /\ Returns(c)
    /\ UNCHANGED <<control, setUp, derotator, thread, lock, past, calls>>

\* setOffset goes to iStaticPos: the position it has read is not looked at.
GoOffset(c) ==
    /\ In(c, "setOffset", "go") /\ setUp.device
    /\ Starts(c, "goto") /\ past' = Started(past)
    /\ UNCHANGED <<control, setUp, derotator, lock, calls>>

\* setConfiguration, and its call at the end of setup, which then chooses the
\* mode that the CDB names.  It stops again whoever is updating, and gives up
\* after two seconds.
GoConfigure(c) ==
    /\ call[c].op \in {"setConfiguration", "defaults"} /\ call[c].pc = "go"
    /\ IF control.updating
       THEN (AsksToStop(c) \/ (Returns(c) /\ UNCHANGED control)) /\ UNCHANGED setUp
       ELSE /\ Returns(c)
            /\ \E m \in IF call[c].op = "defaults" THEN {"AUTO", "MANUAL"} ELSE {control.mode} :
                   control' = [ClearedScanInfo(control) EXCEPT !.mode = m]
            /\ setUp' = [setUp EXCEPT !.configured = TRUE]
    /\ UNCHANGED <<derotator, thread, lock, past, calls>>

\* park: a positioner that was updating, or half a second after the start.
FinishPark(c) ==
    /\ In(c, "park", "parked") \/ (In(c, "park", "go") /\ ~Holds(c))
    /\ SetDefault /\ Returns(c)
    /\ past' = [past EXCEPT !.late = @ \/ ~Joined]
    /\ UNCHANGED <<derotator, lock, calls>>

\* A tenth of a second after the start the thread should have begun.  Only now
\* is startUpdating's mustUpdate set.
AfterStart(c) ==
    /\ call[c].pc = "started"
    /\ past' = [past EXCEPT !.late = @ \/ (\E w \in Latest : At(w, "born"))]
    /\ lock' = Freed(c)
    /\ CASE call[c].op = "setup" -> call' = [call EXCEPT ![c].op = "defaults",
                                                         ![c].pc = IF control.updating THEN "join" ELSE "go"]
         [] call[c].op = "park"  -> Moves(c, "parked")
         [] OTHER                -> Returns(c)
    /\ control' = [control EXCEPT !.mustUpdate = @ \/ call[c].op = "startUpdating",
                                  !.stop = @ \/ (call[c].op = "setup" /\ control.updating)]
    /\ UNCHANGED <<setUp, derotator, thread, calls>>

--------------------------------------------------------------------------------
ThreadStep(w) ==
    \/ Begin(w) \/ CheckReady(w) \/ LeaveLoop(w) \/ SetPosition(w) \/ OutOfRange(w)
    \/ ManualWait(w) \/ End(w)

ClientStep(c) ==
    \/ Acquire(c) \/ Refuse(c) \/ Join(c) \/ Fail(c) \/ FindParked(c)
    \/ GoSetup(c) \/ GoTo(c) \/ GoUpdate(c) \/ GoOffset(c) \/ GoConfigure(c)
    \/ FinishPark(c) \/ AfterStart(c)

Request(c) ==
    \/ StopUpdating(c) \/ Setup(c) \/ CallSetPosition(c) \/ StartUpdating(c) \/ Park(c)
    \/ SetOffset(c) \/ SetConfiguration(c) \/ SetRewindingMode(c) \/ Rewind(c)

Next ==
    \/ \E w \in Threads : ThreadStep(w)
    \/ \E c \in Clients : ClientStep(c) \/ Request(c)
    \/ \E a \in Threads \cup Clients : TakeRewinding(a) \/ EndRewinding(a)

Spec == Init /\ [][Next]_vars

\* The threads run, the calls of the derotator return, generalLock, of which
\* there are few takers, is got, and so is rewindingLock at last, though a scan
\* may take it again and again.
Fairness ==
    /\ \A w \in Threads : WF_vars(ThreadStep(w) \/ TakeRewinding(w) \/ EndRewinding(w))
    /\ \A c \in Clients : WF_vars(ClientStep(c) \/ EndRewinding(c)) /\ SF_vars(TakeRewinding(c))

FairSpec == Spec /\ Fairness

--------------------------------------------------------------------------------
Alive == {w \in Threads : ~At(w, "none")}
Orderly == ~past.late /\ ~past.crossed

\* The derotator is moved by one thread at most: whoever starts one has seen the
\* end of the former, as long as nobody enters an operation that the lock does
\* not exclude, and no call of the derotator takes seconds.
OneMover == Orderly => Cardinality(Alive) <= 1

\* isUpdating, by which every operation decides whether there is something to
\* stop, is raised and lowered with the thread.
UpdatingTruth ==
    Orderly => (control.updating <=> (\E w \in Alive : ~At(w, "born")))

\* getStatus reports a failure for a scan that has to go on and does not: only
\* of a thread that ended by itself, never of one that was stopped.
FailureJustified ==
    (Orderly /\ lock.general = NoOne /\ setUp.device
        /\ control.mustUpdate /\ ~control.updating) => past.died

\* An offset that setOffset accepts is commanded, by the scan or by a thread of
\* its own; not if the thread is going to a position or ends, see SetOffset, nor
\* while a rewinding is waited for.
OffsetApplied ==
    past.asked ~> (~past.asked \/ past.deaf \/ ~Orderly \/ control.required)

\* Every operation returns: the thread that is stopped leaves the wait for the
\* user, and neither lock is held for ever.  (All of Threads alive: no room for
\* one more in this model.)
CallsReturn == \A c \in Clients : call[c].pc # "idle" ~> (call[c].pc = "idle" \/ Alive = Threads)
================================================================================
