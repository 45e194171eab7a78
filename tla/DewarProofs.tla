------------------------------ MODULE DewarProofs ------------------------------
(***************************************************************************)
(* Proofs about the dewar positioner, for any number of clients, threads   *)
(* and calls: the types; that one thread moves the derotator; that         *)
(* isUpdating and the failure of getStatus tell the truth.                 *)
(*                                                                         *)
(* The argument: of the clients in the part of an operation that a thread  *)
(* depends on, there is one (OneInside), because the operations that meet  *)
(* hold the general lock there; so a thread is started by somebody who has *)
(* seen the former end, nobody asks it to stop meanwhile, and it has begun *)
(* when its starter goes on.                                               *)
(***************************************************************************)
EXTENDS DewarPositioner, FiniteSetTheorems, TLAPS

\* A client in an operation that may start or stop a thread.
Busy(c) == call[c].pc # "idle" /\ call[c].op # "rewind"
Inside(c) == call[c].pc \in {"join", "go", "started", "parked"}
Starting(c) == call[c].pc = "go" /\ call[c].op \notin {"setConfiguration", "defaults"}

\* What nobody crossed: only operations under the general lock meet.
Apart ==
    \A c, d \in Clients :
        c # d /\ Busy(c) /\ Busy(d) => call[c].op \in Locked /\ call[d].op \in Locked
Holding ==
    \A c \in Clients :
        (Inside(c) /\ call[c].op \in Locked \cup {"setup"}) \/ In(c, "park", "started")
            => Holds(c)

\* The thread and those who start it.
OnlyLatest == Alive \subseteq {thread.t}
StartsAlone == \A c \in Clients : Starting(c) \/ In(c, "park", "acquire") => Alive = {}
BornWatched == \A w \in Threads : At(w, "born") => \E c \in Clients : call[c].pc = "started"
ParkedStill == ~setUp.device => Alive = {}
Told == control.updating <=> (\E w \in Alive : ~At(w, "born"))

\* The flags by which a failure is reported.
Begun ==
    \A c \in Clients : In(c, "startUpdating", "started") => Alive # {} \/ past.died
OffsetDue ==
    \A c \in Clients :
        In(c, "setOffset", "go") \/ In(c, "setOffset", "started") => ~control.mustUpdate
ScanDue ==
    control.mustUpdate /\ ~control.updating /\ setUp.device => past.died \/ Alive # {}

InOrder ==
    /\ Apart /\ Holding
    /\ OnlyLatest /\ StartsAlone /\ BornWatched /\ ParkedStill /\ Told
    /\ Begun /\ OffsetDue /\ ScanDue

\* In any order: who asks a thread to stop waits for it, and a rewinding is
\* nothing else; and only some operations ask for the lock.
StopAwaited == control.stop => \E c \in Clients : call[c].pc = "join"
KnownPlaces ==
    \A c \in Clients :
        /\ call[c].op = "rewind" => call[c].pc \in {"idle", "lock", "poll"}
        /\ call[c].pc \in {"lock", "poll"} => call[c].op = "rewind"
        /\ call[c].pc = "started" => call[c].op \in Locked \cup {"setup", "park", "setOffset"}
        /\ call[c].pc = "acquire" => call[c].op \in {"setup", "park", "setPosition", "startUpdating"}

Placed == TypeOK /\ StopAwaited /\ KnownPlaces

PositionerInvariant == Placed /\ (Orderly => InOrder)

--------------------------------------------------------------------------------
(* The types.                                                              *)

ThreadPlaces == {"none", "born", "ready", "loop", "manual", "lock", "poll", "end"}
CallPlaces == {"idle", "acquire", "join", "go", "started", "parked", "lock", "poll"}

Controls == [updating : BOOLEAN, stop : BOOLEAN, mustUpdate : BOOLEAN, required : BOOLEAN,
             rewinding : BOOLEAN, mode : Modes, static : Places, offset : Offsets \cup {0}]
Devices == [device : BOOLEAN, configured : BOOLEAN]
Crews == [t : Threads \cup {NoOne}, pc : [Threads -> ThreadPlaces], mover : [Threads -> Movers]]
Calls == [Clients -> [op : Operations, mover : Movers, pc : CallPlaces]]
Locks == [general : Clients \cup {NoOne}, rewinding : Clients \cup Threads \cup {NoOne}]

LEMMA TypeOKIs ==
    TypeOK <=> /\ control \in Controls /\ setUp \in Devices /\ derotator \in Positions
               /\ thread \in Crews /\ call \in Calls /\ lock \in Locks
               /\ past \in Past /\ calls \in 0 .. MaxCalls
BY DEF TypeOK, Controls, Devices, Crews, Calls, Locks, ThreadPlaces, CallPlaces

LEMMA OffsetTyped ==
    ASSUME NEW o \in Offsets \cup {0}
    PROVE  o \in Nat
<1>1. CASE o \in Offsets
  BY <1>1, PositionerBounds
<1>2. CASE o \in {0}
  BY <1>2
<1> QED
  BY <1>1, <1>2

LEMMA ControlsTyped ==
    ASSUME NEW k \in Controls
    PROVE  /\ NewControl \in Controls
           /\ StoppedControl(k) \in Controls
           /\ ClearedScanInfo(k) \in Controls
           /\ \A p \in Places : /\ [k EXCEPT !.static = p] \in Controls
                                 /\ [NewControl EXCEPT !.static = p] \in Controls
           /\ \A o \in Offsets \cup {0} : [k EXCEPT !.offset = o] \in Controls
           /\ \A m \in Modes : [k EXCEPT !.mode = m] \in Controls
           /\ \A w \in BOOLEAN : /\ [k EXCEPT !.stop = w] \in Controls
                                  /\ [k EXCEPT !.required = w] \in Controls
                                  /\ [k EXCEPT !.rewinding = w] \in Controls
                                  /\ [k EXCEPT !.mustUpdate = w] \in Controls
           /\ \A v \in BOOLEAN, w \in BOOLEAN :
                  /\ [k EXCEPT !.rewinding = v, !.required = w] \in Controls
                  /\ [k EXCEPT !.mustUpdate = v, !.stop = w] \in Controls
           /\ \A o \in Offsets \cup {0}, w \in BOOLEAN :
                  [k EXCEPT !.offset = o, !.stop = w] \in Controls
           /\ [k EXCEPT !.required = FALSE, !.rewinding = FALSE, !.updating = TRUE] \in Controls
<1>1. NewControl \in Controls
  BY DEF NewControl, Controls, Modes, Places
<1>2. \A p \in Places : /\ [k EXCEPT !.static = p] \in Controls
                         /\ [NewControl EXCEPT !.static = p] \in Controls
  BY <1>1 DEF Controls
<1>3. StoppedControl(k) \in Controls /\ ClearedScanInfo(k) \in Controls
  BY DEF StoppedControl, ClearedScanInfo, Controls, Places
<1>4. /\ \A o \in Offsets \cup {0} : [k EXCEPT !.offset = o] \in Controls
      /\ \A m \in Modes : [k EXCEPT !.mode = m] \in Controls
      /\ \A o \in Offsets \cup {0}, w \in BOOLEAN :
             [k EXCEPT !.offset = o, !.stop = w] \in Controls
  BY DEF Controls
<1>5. \A w \in BOOLEAN : /\ [k EXCEPT !.stop = w] \in Controls
                          /\ [k EXCEPT !.required = w] \in Controls
                          /\ [k EXCEPT !.rewinding = w] \in Controls
                          /\ [k EXCEPT !.mustUpdate = w] \in Controls
  BY DEF Controls
<1>6. \A v \in BOOLEAN, w \in BOOLEAN :
          /\ [k EXCEPT !.rewinding = v, !.required = w] \in Controls
          /\ [k EXCEPT !.mustUpdate = v, !.stop = w] \in Controls
  BY DEF Controls
<1>7. [k EXCEPT !.required = FALSE, !.rewinding = FALSE, !.updating = TRUE] \in Controls
  BY DEF Controls
<1> QED
  BY <1>1, <1>2, <1>3, <1>4, <1>5, <1>6, <1>7

LEMMA HistoryTyped ==
    ASSUME NEW h \in Past
    PROVE  /\ Failed(h) \in Past /\ Started(h) \in Past
           /\ \A v \in BOOLEAN : /\ [h EXCEPT !.asked = v] \in Past
                                  /\ [h EXCEPT !.late = v] \in Past
                                  /\ [h EXCEPT !.died = v] \in Past
           /\ \A v \in BOOLEAN, w \in BOOLEAN : [h EXCEPT !.crossed = v, !.asked = w] \in Past
           /\ \A u \in BOOLEAN, v \in BOOLEAN, w \in BOOLEAN :
                  [h EXCEPT !.crossed = u, !.asked = v, !.deaf = w] \in Past
<1>1. Failed(h) \in Past /\ Started(h) \in Past
  BY DEF Failed, Started, Past
<1>2. \A v \in BOOLEAN : /\ [h EXCEPT !.asked = v] \in Past
                          /\ [h EXCEPT !.late = v] \in Past
                          /\ [h EXCEPT !.died = v] \in Past
  BY DEF Past
<1>3. \A v \in BOOLEAN, w \in BOOLEAN : [h EXCEPT !.crossed = v, !.asked = w] \in Past
  BY DEF Past
<1>4. \A u \in BOOLEAN, v \in BOOLEAN, w \in BOOLEAN :
          [h EXCEPT !.crossed = u, !.asked = v, !.deaf = w] \in Past
  BY DEF Past
<1> QED
  BY <1>1, <1>2, <1>3, <1>4

LEMMA CrewTyped ==
    ASSUME NEW r \in Crews, NEW w \in Threads
    PROVE  /\ \A p \in ThreadPlaces : [r EXCEPT !.pc[w] = p] \in Crews
           /\ [r EXCEPT !.pc[w] = "none", !.mover[w] = "goto"] \in Crews
           /\ \A m \in Movers : [r EXCEPT !.t = w, !.pc[w] = "born", !.mover[w] = m] \in Crews
           /\ [r EXCEPT !.t = NoOne] \in Crews
BY DEF Crews, ThreadPlaces, Movers

LEMMA CallTyped ==
    ASSUME NEW q \in Calls, NEW c \in Clients
    PROVE  /\ \A p \in CallPlaces : [q EXCEPT ![c].pc = p] \in Calls
           /\ [q EXCEPT ![c] = Idle] \in Calls
           /\ \A p \in CallPlaces : [q EXCEPT ![c].op = "defaults", ![c].pc = p] \in Calls
           /\ \A o \in Operations, m \in Movers, p \in CallPlaces :
                  [q EXCEPT ![c] = [op |-> o, mover |-> m, pc |-> p]] \in Calls
<1>1. \A p \in CallPlaces : [q EXCEPT ![c].pc = p] \in Calls
  BY DEF Calls
<1>2. \A o \in Operations, m \in Movers, p \in CallPlaces :
          [q EXCEPT ![c] = [op |-> o, mover |-> m, pc |-> p]] \in Calls
  BY DEF Calls
<1>3. [q EXCEPT ![c] = Idle] \in Calls
  BY <1>2 DEF Idle, Operations, Movers, CallPlaces
<1>4. \A p \in CallPlaces : [q EXCEPT ![c].op = "defaults", ![c].pc = p] \in Calls
  BY DEF Calls, Operations
<1> QED
  BY <1>1, <1>2, <1>3, <1>4

LEMMA LockTyped ==
    ASSUME NEW r \in Locks
    PROVE  /\ \A c \in Clients \cup {NoOne} : [r EXCEPT !.general = c] \in Locks
           /\ \A a \in Clients \cup Threads \cup {NoOne} : [r EXCEPT !.rewinding = a] \in Locks
BY DEF Locks

LEMMA ThreadStepTyped ==
    ASSUME TypeOK, NEW w \in Threads, ThreadStep(w)
    PROVE  TypeOK'
<1>1. /\ control \in Controls /\ setUp \in Devices /\ derotator \in Positions
      /\ thread \in Crews /\ call \in Calls /\ lock \in Locks
      /\ past \in Past /\ calls \in 0 .. MaxCalls
  BY TypeOKIs
<1>2. UNCHANGED <<setUp, call, lock, calls>>
  BY DEF ThreadStep, Begin, CheckReady, LeaveLoop, SetPosition, OutOfRange, ManualWait, End
<1>3. thread' \in Crews
  <2>1. NextPosition(w) \in ThreadPlaces
    BY DEF NextPosition, ThreadPlaces
  <2>2. \/ \E p \in ThreadPlaces : thread' = [thread EXCEPT !.pc[w] = p]
        \/ thread' = [thread EXCEPT !.pc[w] = "none", !.mover[w] = "goto"]
    BY <2>1 DEF ThreadStep, Begin, CheckReady, LeaveLoop, SetPosition, OutOfRange, ManualWait,
                End, Goes, ThreadPlaces
  <2>3. CASE \E p \in ThreadPlaces : thread' = [thread EXCEPT !.pc[w] = p]
    <3>1. PICK p \in ThreadPlaces : thread' = [thread EXCEPT !.pc[w] = p]
      BY <2>3
    <3>2. [thread EXCEPT !.pc[w] = p] \in Crews
      BY <1>1, CrewTyped
    <3> QED
      BY <3>1, <3>2
  <2>4. CASE thread' = [thread EXCEPT !.pc[w] = "none", !.mover[w] = "goto"]
    BY <1>1, <2>4, CrewTyped
  <2> QED
    BY <2>2, <2>3, <2>4
<1>4. past' \in Past
  <2>1. \E v \in BOOLEAN :
            past' \in {past, Failed(past), [past EXCEPT !.asked = v], [past EXCEPT !.died = v]}
    <3>1. (past.died \/ (~control.stop)) \in BOOLEAN
      OBVIOUS
    <3>2. End(w) => past' = [past EXCEPT !.died = past.died \/ (~control.stop)]
      BY DEF End
    <3> QED
      BY <3>1, <3>2 DEF ThreadStep, Begin, CheckReady, LeaveLoop, SetPosition, OutOfRange, ManualWait
  <2> QED
    BY <1>1, <2>1, HistoryTyped
<1>5. control' \in Controls
  <2>1. \/ control' \in {control, StoppedControl(control), [control EXCEPT !.required = TRUE]}
        \/ control' = [control EXCEPT !.required = FALSE, !.rewinding = FALSE, !.updating = TRUE]
    BY DEF ThreadStep, Begin, CheckReady, LeaveLoop, SetPosition, OutOfRange, ManualWait, End
  <2> QED
    BY <1>1, <2>1, ControlsTyped
<1>6. derotator' \in Positions
  <2>1. control.static \in Places /\ control.offset \in Nat
    <3>1. control.static \in Places /\ control.offset \in Offsets \cup {0}
      BY <1>1 DEF Controls
    <3>2. control.offset \in Nat
      BY <3>1, OffsetTyped
    <3> QED
      BY <3>1, <3>2
  <2>2. Target \in Positions
    BY <2>1 DEF Target, Position, Positions
  <2> QED
    BY <1>1, <2>2 DEF ThreadStep, Begin, CheckReady, LeaveLoop, SetPosition, OutOfRange, ManualWait, End
<1>7. /\ control' \in Controls /\ setUp' \in Devices /\ derotator' \in Positions
      /\ thread' \in Crews /\ call' \in Calls /\ lock' \in Locks
      /\ past' \in Past /\ calls' \in 0 .. MaxCalls
  BY <1>1, <1>2, <1>3, <1>4, <1>5, <1>6
<1> QED
  BY <1>7 DEF TypeOK, Controls, Devices, Crews, Calls, Locks, ThreadPlaces, CallPlaces

\* What every part of the state becomes is one of its kind.
LEMMA TypeKept ==
    ASSUME control' \in Controls, setUp' \in Devices, derotator' \in Positions,
           thread' \in Crews, call' \in Calls, lock' \in Locks,
           past' \in Past, calls' \in 0 .. MaxCalls
    PROVE  TypeOK'
BY DEF TypeOK, Controls, Devices, Crews, Calls, Locks, ThreadPlaces, CallPlaces

LEMMA ResumesTyped ==
    ASSUME TypeOK, NEW a \in Threads \cup Clients, NEW pc, NEW next, NEW h,
           Resumes(a, pc, next, h), next \in {"poll", "end", "loop", "idle"},
           a \in Threads => next # "idle"
    PROVE  thread' \in Crews /\ call' \in Calls /\ past' = h
<1>1. thread \in Crews /\ call \in Calls
  BY TypeOKIs
<1>2. CASE a \in Threads
  <2>1. thread' = [thread EXCEPT !.pc[a] = next] /\ call' = call /\ past' = h
    BY <1>2 DEF Resumes, Goes
  <2>2. next \in ThreadPlaces
    BY <1>2 DEF ThreadPlaces
  <2>3. [thread EXCEPT !.pc[a] = next] \in Crews
    BY <1>1, <1>2, <2>2, CrewTyped
  <2> QED
    BY <1>1, <2>1, <2>3
<1>3. CASE a \notin Threads
  <2>1. /\ thread' = thread /\ past' = h
        /\ call' \in {[call EXCEPT ![a].pc = "poll"], [call EXCEPT ![a] = Idle]}
    BY <1>3 DEF Resumes
  <2>2. a \in Clients
    BY <1>3
  <2>3. "poll" \in CallPlaces
    BY DEF CallPlaces
  <2>4. /\ [call EXCEPT ![a].pc = "poll"] \in Calls
        /\ [call EXCEPT ![a] = Idle] \in Calls
    BY <1>1, <2>2, <2>3, CallTyped
  <2> QED
    BY <1>1, <2>1, <2>4
<1> QED
  BY <1>2, <1>3

LEMMA RewindingTyped ==
    ASSUME TypeOK, NEW a \in Threads \cup Clients, TakeRewinding(a) \/ EndRewinding(a)
    PROVE  TypeOK'
<1>1. /\ control \in Controls /\ setUp \in Devices /\ derotator \in Positions
      /\ lock \in Locks /\ past \in Past /\ calls \in 0 .. MaxCalls
  BY TypeOKIs
<1>2. UNCHANGED <<setUp, calls>>
  BY DEF TakeRewinding, EndRewinding
<1>3. PICK next \in {"poll", "end", "loop", "idle"}, h \in {past, Failed(past), [past EXCEPT !.asked = FALSE]} :
          /\ a \in Threads => next # "idle"
          /\ \E pc \in {"lock", "poll"} : Resumes(a, pc, next, h)
  <2>1. After(a) \in {"end", "loop", "idle"} /\ (a \in Threads => After(a) # "idle")
    BY DEF After, NextPosition
  <2> QED
    BY <2>1 DEF TakeRewinding, EndRewinding
<1>4. thread' \in Crews /\ call' \in Calls /\ past' = h
  <2>1. PICK pc \in {"lock", "poll"} : Resumes(a, pc, next, h)
    BY <1>3
  <2> QED
    BY <1>3, <2>1, ResumesTyped
<1>5. past' \in Past
  <2>1. [past EXCEPT !.asked = FALSE] \in Past
    BY <1>1 DEF Past
  <2> QED
    BY <1>1, <1>3, <1>4, <2>1, HistoryTyped
<1>6. control' \in Controls
  <2>1. control' \in {[control EXCEPT !.rewinding = TRUE],
                      [control EXCEPT !.rewinding = FALSE, !.required = TRUE],
                      [control EXCEPT !.rewinding = FALSE, !.required = FALSE]}
    BY DEF TakeRewinding, EndRewinding
  <2>2. \A w \in BOOLEAN : [control EXCEPT !.rewinding = w] \in Controls
    BY <1>1, ControlsTyped
  <2>3. \A v \in BOOLEAN, w \in BOOLEAN : [control EXCEPT !.rewinding = v, !.required = w] \in Controls
    BY <1>1, ControlsTyped
  <2> QED
    BY <2>1, <2>2, <2>3
<1>7. lock' \in Locks
  <2>1. lock' \in {lock, [lock EXCEPT !.rewinding = a], [lock EXCEPT !.rewinding = NoOne]}
    BY DEF TakeRewinding, EndRewinding
  <2> QED
    BY <1>1, <2>1, LockTyped
<1>8. derotator' \in Positions
  <2>1. control.static \in Places /\ control.offset \in Offsets \cup {0}
    BY <1>1 DEF Controls
  <2>2. control.offset \in Nat
    BY <2>1, OffsetTyped
  <2>3. Position(control.static, control.offset + control.offset) \in Positions
    BY <2>1, <2>2 DEF Position, Positions
  <2> QED
    BY <1>1, <2>3 DEF TakeRewinding, EndRewinding
<1> QED
  BY <1>1, <1>2, <1>4, <1>5, <1>6, <1>7, <1>8, TypeKept

LEMMA RequestTyped ==
    ASSUME TypeOK, NEW c \in Clients, Request(c)
    PROVE  TypeOK'
<1>1. /\ control \in Controls /\ setUp \in Devices /\ derotator \in Positions
      /\ thread \in Crews /\ call \in Calls /\ lock \in Locks
      /\ past \in Past /\ calls \in 0 .. MaxCalls
  BY TypeOKIs
<1>2. UNCHANGED <<derotator, lock>>
  BY DEF Request, StopUpdating, Setup, CallSetPosition, StartUpdating, Park, SetOffset,
         SetConfiguration, SetRewindingMode, Rewind, Called
<1>3. calls' \in 0 .. MaxCalls
  <2>1. calls < MaxCalls /\ calls' = calls + 1
    BY DEF Request, StopUpdating, Setup, CallSetPosition, StartUpdating, Park, SetOffset,
           SetConfiguration, SetRewindingMode, Rewind, Called
  <2> QED
    BY <1>1, <2>1, PositionerBounds
<1>4. past' \in Past
  <2>1. CASE SetOffset(c)
    <3>1. PICK v \in BOOLEAN, d \in BOOLEAN : past' = [past EXCEPT !.crossed = v, !.asked = TRUE, !.deaf = d]
      <4>1. (past.crossed \/ Crosses(c, "setOffset")) \in BOOLEAN
        OBVIOUS
      <4> QED
        BY <2>1, <4>1 DEF SetOffset
    <3>2. \A u \in BOOLEAN : [past EXCEPT !.crossed = v, !.asked = u, !.deaf = d] \in Past
      BY <1>1, <3>1, HistoryTyped
    <3> QED
      BY <3>1, <3>2
  <2>2. CASE \E op \in Operations : Called(c, op)
    <3>1. PICK op \in Operations : Called(c, op)
      BY <2>2
    <3>2. PICK v \in BOOLEAN, w \in BOOLEAN : past' = [past EXCEPT !.crossed = v, !.asked = w]
      <4>1. /\ (past.crossed \/ (op # "rewind" /\ Crosses(c, op))) \in BOOLEAN
            /\ (past.asked /\ op = "rewind") \in BOOLEAN
        OBVIOUS
      <4> QED
        BY <3>1, <4>1 DEF Called
    <3> QED
      BY <1>1, <3>2, HistoryTyped
  <2> QED
    BY <2>1, <2>2 DEF Request, StopUpdating, Setup, CallSetPosition, StartUpdating, Park,
           SetConfiguration, SetRewindingMode, Rewind, Operations
<1>5. call' \in Calls
  <2>1. \/ call' = call
        \/ \E op \in Operations, m \in Movers, p \in CallPlaces : Enters(c, op, m, p)
    BY DEF Request, StopUpdating, Setup, CallSetPosition, StartUpdating, Park, SetOffset,
           SetConfiguration, SetRewindingMode, Rewind, SetDefault, Operations, Movers, CallPlaces
  <2>2. CASE \E op \in Operations, m \in Movers, p \in CallPlaces : Enters(c, op, m, p)
    <3>1. PICK op \in Operations, m \in Movers, p \in CallPlaces : Enters(c, op, m, p)
      BY <2>2
    <3> QED
      BY <1>1, <3>1, CallTyped DEF Enters
  <2> QED
    BY <1>1, <2>1, <2>2
<1>6. thread' \in Crews /\ setUp' \in Devices
  <2>1. thread' = thread \/ thread' = [thread EXCEPT !.t = NoOne]
    BY DEF Request, StopUpdating, Setup, CallSetPosition, StartUpdating, Park, SetOffset,
           SetConfiguration, SetRewindingMode, Rewind, SetDefault
  <2>2. \/ setUp' = setUp \/ setUp' = [device |-> FALSE, configured |-> FALSE]
        \/ setUp' = [setUp EXCEPT !.configured = TRUE]
    BY DEF Request, StopUpdating, Setup, CallSetPosition, StartUpdating, Park, SetOffset,
           SetConfiguration, SetRewindingMode, Rewind, SetDefault
  <2>3. [thread EXCEPT !.t = NoOne] \in Crews
    BY <1>1 DEF Crews
  <2>4. \A w \in BOOLEAN : [setUp EXCEPT !.configured = w] \in Devices
    BY <1>1 DEF Devices
  <2>5. [device |-> FALSE, configured |-> FALSE] \in Devices
    BY DEF Devices
  <2> QED
    BY <1>1, <2>1, <2>2, <2>3, <2>4, <2>5
<1>7. control' \in Controls
  <2>1. \/ control' \in {control, ClearedScanInfo(control), NewControl, [control EXCEPT !.stop = TRUE],
                         [control EXCEPT !.offset = 0]}
        \/ \E m \in Modes : control' = [control EXCEPT !.mode = m]
        \/ \E o \in Offsets \cup {0} : control' = [control EXCEPT !.offset = o, !.stop = TRUE]
        \/ \E o \in Offsets : control' = [control EXCEPT !.offset = o]
    BY DEF Request, StopUpdating, Setup, CallSetPosition, StartUpdating, Park, SetOffset,
           SetConfiguration, SetRewindingMode, Rewind, SetDefault, Modes, NewOffset
  <2>2. \A o \in Offsets \cup {0}, w \in BOOLEAN : [control EXCEPT !.offset = o, !.stop = w] \in Controls
    BY <1>1, ControlsTyped
  <2>3. \A w \in BOOLEAN : [control EXCEPT !.stop = w] \in Controls
    BY <1>1, ControlsTyped
  <2>4. \A o \in Offsets \cup {0} : [control EXCEPT !.offset = o] \in Controls
    BY <1>1, ControlsTyped
  <2>5. \A m \in Modes : [control EXCEPT !.mode = m] \in Controls
    BY <1>1, ControlsTyped
  <2>6. ClearedScanInfo(control) \in Controls /\ NewControl \in Controls
    BY <1>1, ControlsTyped
  <2> QED
    BY <1>1, <2>1, <2>2, <2>3, <2>4, <2>5, <2>6
<1> QED
  BY <1>1, <1>2, <1>3, <1>4, <1>5, <1>6, <1>7, TypeKept

\* Who is about to move the derotator to a place writes down the place.
LEMMA PlaceWritten ==
    ASSUME NEW c \in Clients, FindParked(c) \/ GoTo(c) \/ GoUpdate(c)
    PROVE  control' = control \/ \E p \in Places : control' = [control EXCEPT !.static = p]
<1>1. \A o \in DOMAIN Destination : Destination[o] \in Places
  BY DEF Destination, Places
<1>2. \/ control' = control
      \/ \E o \in DOMAIN Destination : control' = [control EXCEPT !.static = Destination[o]]
  <2>1. CASE FindParked(c)
    BY <2>1 DEF FindParked, In
  <2>2. CASE GoTo(c)
    <3>1. call[c].op \in DOMAIN Destination
      BY <2>2 DEF GoTo, In, Destination
    <3> QED
      BY <2>2, <3>1 DEF GoTo
  <2>3. CASE GoUpdate(c)
    <3>1. "startUpdating" \in DOMAIN Destination
      BY DEF Destination
    <3> QED
      BY <2>3, <3>1 DEF GoUpdate
  <2> QED
    BY <2>1, <2>2, <2>3
<1> QED
  BY <1>1, <1>2

LEMMA ClientStepTyped ==
    ASSUME TypeOK, NEW c \in Clients, ClientStep(c)
    PROVE  TypeOK'
<1>1. /\ control \in Controls /\ setUp \in Devices /\ derotator \in Positions
      /\ thread \in Crews /\ call \in Calls /\ lock \in Locks
      /\ past \in Past /\ calls \in 0 .. MaxCalls
  BY TypeOKIs
<1>2. UNCHANGED <<derotator, calls>>
  BY DEF ClientStep, Acquire, Refuse, Join, Fail, FindParked, GoSetup, GoTo, GoUpdate,
           GoOffset, GoConfigure, FinishPark, AfterStart
<1>3. lock' \in Locks
  <2>1. lock' \in {lock, [lock EXCEPT !.general = c], [lock EXCEPT !.general = NoOne]}
    BY DEF ClientStep, Acquire, Refuse, Join, Fail, FindParked, GoSetup, GoTo, GoUpdate,
           GoOffset, GoConfigure, FinishPark, AfterStart, Freed
  <2> QED
    BY <1>1, <2>1, LockTyped
<1>4. past' \in Past
  <2>1. \/ past' \in {past, Failed(past), Started(past)}
        \/ \E w \in BOOLEAN : past' = [past EXCEPT !.late = w]
    <3>1. (past.late \/ (~Joined)) \in BOOLEAN
      OBVIOUS
    <3>2. (past.late \/ (\E w \in Latest : At(w, "born"))) \in BOOLEAN
      OBVIOUS
    <3> QED
      BY <3>1, <3>2 DEF ClientStep, Acquire, Refuse, Join, Fail, FindParked, GoSetup, GoTo, GoUpdate,
           GoOffset, GoConfigure, FinishPark, AfterStart
  <2> QED
    BY <1>1, <2>1, HistoryTyped
<1>5. call' \in Calls
  <2>1. \/ call' = call
        \/ call' = [call EXCEPT ![c] = Idle]
        \/ \E p \in CallPlaces : call' = [call EXCEPT ![c].pc = p]
        \/ \E p \in CallPlaces : call' = [call EXCEPT ![c].op = "defaults", ![c].pc = p]
    BY DEF ClientStep, Acquire, Refuse, Join, Fail, FindParked, GoSetup, GoTo, GoUpdate,
           GoOffset, GoConfigure, FinishPark, AfterStart,
           AsksToStop, Moves, Returns, Starts, CallPlaces
  <2>2. \A p \in CallPlaces : [call EXCEPT ![c].pc = p] \in Calls
    BY <1>1, CallTyped
  <2>3. \A p \in CallPlaces : [call EXCEPT ![c].op = "defaults", ![c].pc = p] \in Calls
    BY <1>1, CallTyped
  <2>4. [call EXCEPT ![c] = Idle] \in Calls
    BY <1>1, CallTyped
  <2> QED
    BY <1>1, <2>1, <2>2, <2>3, <2>4
<1>6. thread' \in Crews
  <2>1. \/ thread' = thread \/ thread' = [thread EXCEPT !.t = NoOne]
        \/ \E w \in Threads, m \in Movers :
               thread' = [thread EXCEPT !.t = w, !.pc[w] = "born", !.mover[w] = m]
    <3>1. call[c].mover \in Movers
      BY <1>1 DEF Calls
    <3> QED
      BY <3>1 DEF ClientStep, Acquire, Refuse, Join, Fail, FindParked, GoSetup, GoTo, GoUpdate,
           GoOffset, GoConfigure, FinishPark, AfterStart, Starts, SetDefault, Movers
  <2>2. CASE \E w \in Threads, m \in Movers :
               thread' = [thread EXCEPT !.t = w, !.pc[w] = "born", !.mover[w] = m]
    <3>1. PICK w \in Threads, m \in Movers :
               thread' = [thread EXCEPT !.t = w, !.pc[w] = "born", !.mover[w] = m]
      BY <2>2
    <3>2. [thread EXCEPT !.t = w, !.pc[w] = "born", !.mover[w] = m] \in Crews
      BY <1>1, CrewTyped
    <3> QED
      BY <3>1, <3>2
  <2>3. [thread EXCEPT !.t = NoOne] \in Crews
    BY <1>1 DEF Crews
  <2> QED
    BY <1>1, <2>1, <2>2, <2>3
<1>7. setUp' \in Devices
  <2>1. \/ setUp' = setUp \/ setUp' = [device |-> FALSE, configured |-> FALSE]
        \/ setUp' = [setUp EXCEPT !.device = TRUE]
        \/ setUp' = [setUp EXCEPT !.configured = TRUE]
    BY DEF ClientStep, Acquire, Refuse, Join, Fail, FindParked, GoSetup, GoTo, GoUpdate,
           GoOffset, GoConfigure, FinishPark, AfterStart, SetDefault
  <2>2. \A w \in BOOLEAN : /\ [setUp EXCEPT !.configured = w] \in Devices
                            /\ [setUp EXCEPT !.device = w] \in Devices
    BY <1>1 DEF Devices
  <2>3. [device |-> FALSE, configured |-> FALSE] \in Devices
    BY DEF Devices
  <2> QED
    BY <1>1, <2>1, <2>2, <2>3
<1>8. control' \in Controls
  <2>1. CASE GoConfigure(c)
    <3>1. \/ control' \in {control, [control EXCEPT !.stop = TRUE]}
          \/ \E m \in Modes : control' = [ClearedScanInfo(control) EXCEPT !.mode = m]
      <4>1. control.mode \in Modes
        BY <1>1 DEF Controls
      <4> QED
        BY <2>1, <4>1 DEF GoConfigure, AsksToStop, Modes
    <3>2. \A m \in Modes : [ClearedScanInfo(control) EXCEPT !.mode = m] \in Controls
      <4>1. ClearedScanInfo(control) \in Controls
        BY <1>1, ControlsTyped
      <4> QED
        BY <4>1, ControlsTyped
    <3>3. \A w \in BOOLEAN : [control EXCEPT !.stop = w] \in Controls
      BY <1>1, ControlsTyped
    <3> QED
      BY <1>1, <3>1, <3>2, <3>3
  <2>2. CASE AfterStart(c)
    <3>1. /\ (control.mustUpdate \/ call[c].op = "startUpdating") \in BOOLEAN
          /\ (control.stop \/ (call[c].op = "setup" /\ control.updating)) \in BOOLEAN
      OBVIOUS
    <3>2. PICK v \in BOOLEAN, w \in BOOLEAN : control' = [control EXCEPT !.mustUpdate = v, !.stop = w]
      BY <2>2, <3>1 DEF AfterStart
    <3>3. [control EXCEPT !.mustUpdate = v, !.stop = w] \in Controls
      BY <1>1, ControlsTyped
    <3> QED
      BY <3>2, <3>3
  <2>3. CASE ~GoConfigure(c) /\ ~AfterStart(c)
    <3>1. \/ control' \in {control, [control EXCEPT !.stop = TRUE], StoppedControl(control), NewControl}
          \/ \E p \in Places : control' \in {[control EXCEPT !.static = p], [NewControl EXCEPT !.static = p]}
      <4>1. CASE FindParked(c) \/ GoTo(c) \/ GoUpdate(c)
        BY <4>1, PlaceWritten
      <4>2. CASE ~(FindParked(c) \/ GoTo(c) \/ GoUpdate(c))
        BY <2>3, <4>2 DEF ClientStep, Acquire, Refuse, Join, Fail, GoSetup,
                  GoOffset, FinishPark, AsksToStop, SetDefault, Places
      <4> QED
        BY <4>1, <4>2
    <3>2. \A p \in Places : /\ [control EXCEPT !.static = p] \in Controls
                             /\ [NewControl EXCEPT !.static = p] \in Controls
      BY <1>1, ControlsTyped
    <3>3. \A w \in BOOLEAN : [control EXCEPT !.stop = w] \in Controls
      BY <1>1, ControlsTyped
    <3>4. StoppedControl(control) \in Controls /\ NewControl \in Controls
      BY <1>1, ControlsTyped
    <3> QED
      BY <1>1, <3>1, <3>2, <3>3, <3>4
  <2> QED
    BY <2>1, <2>2, <2>3
<1> QED
  BY <1>1, <1>2, <1>3, <1>4, <1>5, <1>6, <1>7, <1>8, TypeKept

LEMMA InitTyped == Init => TypeOK
<1> SUFFICES ASSUME Init PROVE TypeOK
  OBVIOUS
<1>1. control \in Controls
  BY DEF Init, NewControl, Controls, Modes, Places
<1>2. setUp \in Devices /\ derotator \in Positions /\ past \in Past
  BY DEF Init, Devices, Position, Positions, Places, Past
<1>3. thread \in Crews
  BY DEF Init, Crews, ThreadPlaces, Movers
<1>4. call \in Calls
  BY DEF Init, Idle, Calls, Operations, Movers, CallPlaces
<1>5. lock \in Locks /\ calls \in 0 .. MaxCalls
  BY PositionerBounds DEF Init, Locks
<1> QED
  BY <1>1, <1>2, <1>3, <1>4, <1>5, TypeOKIs

LEMMA NextTyped == TypeOK /\ [Next]_vars => TypeOK'
<1> SUFFICES ASSUME TypeOK, [Next]_vars PROVE TypeOK'
  OBVIOUS
<1>1. CASE UNCHANGED vars
  BY <1>1 DEF vars, TypeOK
<1>2. CASE Next
  BY <1>2, ThreadStepTyped, ClientStepTyped, RequestTyped, RewindingTyped DEF Next
<1> QED
  BY <1>1, <1>2

\* Every part of the state keeps its type, whatever the order of the steps.
THEOREM DewarTypeCorrect == Spec => []TypeOK
<1>1. Init => TypeOK
  BY InitTyped
<1>2. TypeOK /\ [Next]_vars => TypeOK'
  BY NextTyped
<1> QED
  BY <1>1, <1>2, PTL DEF Spec

--------------------------------------------------------------------------------
(* Where the clients are.                                                  *)

\* What becomes of the three flags that the properties speak of.
Flags(k) == <<k.updating, k.stop, k.mustUpdate>>

LEMMA FlagsLowered ==
    /\ ~NewControl.updating /\ ~NewControl.stop /\ ~NewControl.mustUpdate
    /\ \A p : LET k == [NewControl EXCEPT !.static = p]
              IN  ~k.updating /\ ~k.stop /\ ~k.mustUpdate
    /\ \A k : k \in Controls =>
           ~StoppedControl(k).updating /\ ~StoppedControl(k).stop /\ ~StoppedControl(k).mustUpdate
<1>1. ~NewControl.updating /\ ~NewControl.stop /\ ~NewControl.mustUpdate
  BY DEF NewControl
<1>2. \A p : LET k == [NewControl EXCEPT !.static = p]
            IN  ~k.updating /\ ~k.stop /\ ~k.mustUpdate
  BY DEF NewControl
<1>3. \A k : k \in Controls =>
           ~StoppedControl(k).updating /\ ~StoppedControl(k).stop /\ ~StoppedControl(k).mustUpdate
  BY DEF StoppedControl, Controls
<1> QED
  BY <1>1, <1>2, <1>3

LEMMA FlagsKept ==
    ASSUME NEW k \in Controls
    PROVE  /\ Flags(ClearedScanInfo(k)) = Flags(k)
           /\ \A m : /\ Flags([k EXCEPT !.mode = m]) = Flags(k)
                     /\ Flags([ClearedScanInfo(k) EXCEPT !.mode = m]) = Flags(k)
           /\ \A p : Flags([k EXCEPT !.static = p]) = Flags(k)
           /\ \A o : Flags([k EXCEPT !.offset = o]) = Flags(k)
           /\ \A w \in BOOLEAN : Flags([k EXCEPT !.required = w]) = Flags(k)
           /\ \A w \in BOOLEAN : Flags([k EXCEPT !.rewinding = w]) = Flags(k)
           /\ \A v \in BOOLEAN, w \in BOOLEAN :
                  Flags([k EXCEPT !.rewinding = v, !.required = w]) = Flags(k)
BY DEF Flags, ClearedScanInfo, Controls

LEMMA ThreadStepPlaced ==
    ASSUME Placed, NEW w \in Threads, ThreadStep(w)
    PROVE  StopAwaited' /\ KnownPlaces'
<1>1. UNCHANGED call
  BY DEF ThreadStep, Begin, CheckReady, LeaveLoop, SetPosition, OutOfRange, ManualWait, End
<1>2. control'.stop => control.stop
  BY DEF ThreadStep, Begin, CheckReady, LeaveLoop, SetPosition, OutOfRange, ManualWait, End,
         StoppedControl, Placed, TypeOK
<1> QED
  BY <1>1, <1>2 DEF Placed, StopAwaited, KnownPlaces

LEMMA RewindingPlaced ==
    ASSUME Placed, NEW a \in Threads \cup Clients, TakeRewinding(a) \/ EndRewinding(a)
    PROVE  StopAwaited' /\ KnownPlaces'
<1>1. control'.stop = control.stop
  BY DEF TakeRewinding, EndRewinding, Placed, TypeOK
<1>2. \/ call' = call
      \/ /\ a \in Clients /\ call[a].op = "rewind" /\ call[a].pc \in {"lock", "poll"}
         /\ call' \in {[call EXCEPT ![a].pc = "poll"], [call EXCEPT ![a] = Idle]}
  BY DEF TakeRewinding, EndRewinding, Resumes
<1> QED
  BY <1>1, <1>2 DEF Placed, TypeOK, StopAwaited, KnownPlaces, Idle

LEMMA RequestPlaced ==
    ASSUME Placed, NEW c \in Clients, Request(c)
    PROVE  StopAwaited' /\ KnownPlaces'
<1>1. call \in Calls /\ control \in Controls
  BY TypeOKIs DEF Placed
<1>2. call[c].pc = "idle"
  BY DEF Request, StopUpdating, Setup, CallSetPosition, StartUpdating, Park, SetOffset,
         SetConfiguration, SetRewindingMode, Rewind, Called
<1>3. \/ call' = call
      \/ \E op \in Operations, m \in Movers :
            \/ Enters(c, op, m, "join") /\ op # "rewind"
            \/ Enters(c, op, m, "acquire") /\ op \in {"setup", "park", "setPosition", "startUpdating"}
            \/ Enters(c, "rewind", m, "lock")
  BY DEF Request, StopUpdating, Setup, CallSetPosition, StartUpdating, Park, SetOffset,
         SetConfiguration, SetRewindingMode, Rewind, SetDefault, Operations, Movers
<1>4. control'.stop => control.stop \/ call'[c].pc = "join"
  <2>1. CASE UNCHANGED control
    BY <2>1
  <2>2. CASE control' = [control EXCEPT !.offset = 0] \/ control' = NewControl
             \/ control' = ClearedScanInfo(control) \/ (\E m \in Modes : control' = [control EXCEPT !.mode = m])
             \/ (\E o \in Offsets : control' = [control EXCEPT !.offset = NewOffset(o)])
    <3>1. CASE control' = NewControl
      BY <3>1, FlagsLowered
    <3>2. CASE control' # NewControl
      <4>1. Flags(control') = Flags(control)
        <5>1. CASE control' \in {[control EXCEPT !.offset = 0], ClearedScanInfo(control)}
          <6>1. Flags([control EXCEPT !.offset = 0]) = Flags(control)
            BY <1>1, FlagsKept
          <6>2. Flags(ClearedScanInfo(control)) = Flags(control)
            BY <1>1, FlagsKept
          <6> QED
            BY <5>1, <6>1, <6>2
        <5>2. CASE \E m \in Modes : control' = [control EXCEPT !.mode = m]
          <6>1. PICK m \in Modes : control' = [control EXCEPT !.mode = m]
            BY <5>2
          <6>2. Flags([control EXCEPT !.mode = m]) = Flags(control)
            BY <1>1, FlagsKept
          <6> QED
            BY <6>1, <6>2
        <5>3. CASE \E o \in Offsets : control' = [control EXCEPT !.offset = NewOffset(o)]
          <6>1. PICK o \in Offsets : control' = [control EXCEPT !.offset = NewOffset(o)]
            BY <5>3
          <6>2. Flags([control EXCEPT !.offset = NewOffset(o)]) = Flags(control)
            BY <1>1, FlagsKept
          <6> QED
            BY <6>1, <6>2
        <5> QED
          BY <2>2, <3>2, <5>1, <5>2, <5>3
      <4> QED
        BY <4>1 DEF Flags
    <3> QED
      BY <3>1, <3>2
  <2>3. CASE \E op \in Operations, m \in Movers : Enters(c, op, m, "join")
    BY <1>1, <2>3 DEF Enters, Calls
  <2> QED
    BY <2>1, <2>2, <2>3 DEF Request, StopUpdating, Setup, CallSetPosition, StartUpdating, Park, SetOffset,
         SetConfiguration, SetRewindingMode, Rewind, SetDefault, Operations, Movers, Modes
<1>5. KnownPlaces'
  <2>1. CASE call' = call
    BY <2>1 DEF Placed, KnownPlaces
  <2>2. CASE call' # call
    <3>1. PICK op \in Operations, m \in Movers :
            \/ Enters(c, op, m, "join") /\ op # "rewind"
            \/ Enters(c, op, m, "acquire") /\ op \in {"setup", "park", "setPosition", "startUpdating"}
            \/ Enters(c, "rewind", m, "lock")
      BY <1>3, <2>2
    <3> QED
      BY <1>1, <3>1 DEF Placed, KnownPlaces, Enters, Calls
  <2> QED
    BY <2>1, <2>2
<1>6. \A d \in Clients : call[d].pc = "join" => call'[d].pc = "join"
  BY <1>1, <1>2, <1>3 DEF Enters, Calls
<1> QED
  BY <1>4, <1>5, <1>6 DEF Placed, StopAwaited

LEMMA ClientStepPlaced ==
    ASSUME Placed, NEW c \in Clients, ClientStep(c)
    PROVE  StopAwaited' /\ KnownPlaces'
<1>1. call \in Calls /\ control \in Controls
  BY TypeOKIs DEF Placed
<1>2. call[c].pc \in {"acquire", "join", "go", "started", "parked"} /\ call[c].op # "rewind"
  BY DEF ClientStep, Acquire, Refuse, Join, Fail, FindParked, GoSetup, GoTo, GoUpdate,
         GoOffset, GoConfigure, FinishPark, AfterStart, In, Placed, KnownPlaces
<1>3. \/ call' = [call EXCEPT ![c] = Idle]
      \/ \E p \in {"join", "go", "parked"} :
            call' \in {[call EXCEPT ![c].pc = p], [call EXCEPT ![c].op = "defaults", ![c].pc = p]}
      \/ /\ call' = [call EXCEPT ![c].pc = "started"]
         /\ call[c].op \in Locked \cup {"setup", "park", "setOffset"}
  BY <1>2 DEF ClientStep, Acquire, Refuse, Join, Fail, FindParked, GoSetup, GoTo, GoUpdate,
         GoOffset, GoConfigure, FinishPark, AfterStart, AsksToStop, Moves, Returns, Starts,
         In, Locked
<1>4. KnownPlaces'
  <2>1. CASE call' = [call EXCEPT ![c] = Idle]
    BY <1>1, <2>1 DEF Placed, KnownPlaces, Calls, Idle
  <2>2. CASE \E p \in {"join", "go", "parked"} :
            call' \in {[call EXCEPT ![c].pc = p], [call EXCEPT ![c].op = "defaults", ![c].pc = p]}
    <3>1. PICK p \in {"join", "go", "parked"} :
            call' \in {[call EXCEPT ![c].pc = p], [call EXCEPT ![c].op = "defaults", ![c].pc = p]}
      BY <2>2
    <3> QED
      BY <1>1, <1>2, <3>1 DEF Placed, KnownPlaces, Calls
  <2>3. CASE /\ call' = [call EXCEPT ![c].pc = "started"]
             /\ call[c].op \in Locked \cup {"setup", "park", "setOffset"}
    BY <1>1, <1>2, <2>3 DEF Placed, KnownPlaces, Calls
  <2> QED
    BY <1>3, <2>1, <2>2, <2>3
<1>5. \A d \in Clients \ {c} : call'[d] = call[d]
  BY <1>1, <1>3 DEF Calls
<1>6. control'.stop => call'[c].pc = "join" \/ (control.stop /\ call[c].pc # "join")
  <2>1. CASE Join(c)
    BY <1>1, <2>1 DEF Join, StoppedControl, Controls
  <2>2. CASE AfterStart(c)
    BY <1>1, <2>2 DEF AfterStart, Controls, Calls
  <2>3. CASE AsksToStop(c)
    BY <1>1, <2>3 DEF AsksToStop, Moves, Calls
  <2>4. CASE ~Join(c) /\ ~AfterStart(c) /\ ~AsksToStop(c)
    <3>1. call[c].pc # "join"
      BY <2>4 DEF ClientStep, Acquire, Refuse, Fail, FindParked, GoSetup, GoTo, GoUpdate,
           GoOffset, GoConfigure, FinishPark, In
    <3>2. \/ control' \in {control, NewControl, [NewControl EXCEPT !.static = "setup"]}
          \/ \E p \in Places : control' = [control EXCEPT !.static = p]
          \/ \E m \in Modes : control' = [ClearedScanInfo(control) EXCEPT !.mode = m]
      <4>1. control.mode \in Modes
        BY <1>1 DEF Controls
      <4>2. CASE FindParked(c) \/ GoTo(c) \/ GoUpdate(c)
        BY <4>2, PlaceWritten
      <4>3. CASE ~(FindParked(c) \/ GoTo(c) \/ GoUpdate(c))
        BY <2>4, <4>1, <4>3 DEF ClientStep, Acquire, Refuse, Fail, GoSetup,
             GoOffset, GoConfigure, FinishPark, SetDefault, Places, Modes
      <4> QED
        BY <4>2, <4>3
    <3>3. control'.stop => control.stop
      <4>1. CASE control' \in {NewControl, [NewControl EXCEPT !.static = "setup"]}
        BY <4>1, FlagsLowered
      <4>2. CASE control' \notin {NewControl, [NewControl EXCEPT !.static = "setup"]}
        <5>1. Flags(control') = Flags(control)
          <6>1. CASE control' = control
            BY <6>1
          <6>2. CASE \E p \in Places : control' = [control EXCEPT !.static = p]
            <7>1. PICK p \in Places : control' = [control EXCEPT !.static = p]
              BY <6>2
            <7>2. Flags([control EXCEPT !.static = p]) = Flags(control)
              BY <1>1, FlagsKept
            <7> QED
              BY <7>1, <7>2
          <6>3. CASE \E m \in Modes : control' = [ClearedScanInfo(control) EXCEPT !.mode = m]
            <7>1. PICK m \in Modes : control' = [ClearedScanInfo(control) EXCEPT !.mode = m]
              BY <6>3
            <7>2. Flags([ClearedScanInfo(control) EXCEPT !.mode = m]) = Flags(control)
              BY <1>1, FlagsKept
            <7> QED
              BY <7>1, <7>2
          <6> QED
            BY <3>2, <4>2, <6>1, <6>2, <6>3
        <5> QED
          BY <5>1 DEF Flags
      <4> QED
        BY <4>1, <4>2
    <3> QED
      BY <3>1, <3>3
  <2> QED
    BY <2>1, <2>2, <2>3, <2>4
<1> QED
  BY <1>4, <1>5, <1>6 DEF Placed, StopAwaited

--------------------------------------------------------------------------------
(* As long as all is in order.                                             *)

Fit == Placed /\ InOrder

\* One client at most is in the part of an operation that the thread depends on.
LEMMA OneInside ==
    ASSUME Fit, NEW c \in Clients, NEW d \in Clients, Inside(c), Inside(d)
    PROVE  c = d
<1> SUFFICES ASSUME c # d PROVE FALSE
  OBVIOUS
<1>1. Busy(c) /\ Busy(d)
  BY DEF Fit, Placed, KnownPlaces, Busy, Inside
<1>2. call[c].op \in Locked /\ call[d].op \in Locked
  BY <1>1 DEF Fit, InOrder, Apart
<1> QED
  BY <1>2 DEF Fit, InOrder, Holding, Holds

\* Whoever enters beside others has found them under the lock.
LEMMA NobodyElse ==
    ASSUME Fit, NEW c \in Clients, Busy(c), call[c].op \notin Locked,
           NEW d \in Clients, Busy(d)
    PROVE  c = d
BY DEF Fit, InOrder, Apart

\* With nobody who watches a new thread, isUpdating tells of every thread.
LEMMA NobodyAlive ==
    ASSUME Fit, ~control.updating, \A c \in Clients : call[c].pc # "started"
    PROVE  Alive = {}
BY DEF Fit, InOrder, Told, BornWatched, Alive, At

\* Only the latest thread is alive: when it was waited for, none is.
LEMMA JoinedAlone ==
    ASSUME Fit, Joined
    PROVE  Alive = {}
BY DEF Fit, InOrder, OnlyLatest, Joined, Latest, Alive, At

LEMMA NoThreadNoUpdate ==
    ASSUME Fit, Alive = {}
    PROVE  ~control.updating
BY DEF Fit, InOrder, Told

\* Nothing that matters has changed: the threads and the flags are the same, and
\* so are the clients but for those who rewind.
LEMMA SameKeeps ==
    ASSUME Fit,
           Alive' = Alive, thread'.t = thread.t,
           \A w \in Threads : At(w, "born")' <=> At(w, "born"),
           control'.updating = control.updating, control'.mustUpdate = control.mustUpdate,
           setUp'.device = setUp.device, lock'.general = lock.general, past'.died = past.died,
           \A c \in Clients :
               \/ call'[c] = call[c]
               \/ /\ call[c].pc \in {"idle", "lock", "poll"}
                  /\ call'[c].pc = "idle" \/ (call'[c].op = "rewind" /\ call'[c].pc \in {"lock", "poll"})
    PROVE  InOrder'
<1>1. \A c \in Clients : Busy(c)' => Busy(c) /\ call'[c] = call[c]
  BY DEF Busy, Fit, Placed, KnownPlaces
<1>2. \A c \in Clients : call'[c].pc \in {"acquire", "join", "go", "started", "parked"} => call'[c] = call[c]
  OBVIOUS
<1>3. \A c \in Clients : call[c].pc \in {"acquire", "join", "go", "started", "parked"} => call'[c] = call[c]
  OBVIOUS
<1>4. Apart'
  BY <1>1 DEF Fit, InOrder, Apart
<1>5. Holding'
  BY <1>2 DEF Fit, InOrder, Holding, Inside, In, Holds
<1>6. OnlyLatest' /\ ParkedStill'
  BY DEF Fit, InOrder, OnlyLatest, ParkedStill
<1>7. StartsAlone'
  BY <1>2 DEF Fit, InOrder, StartsAlone, Starting, In
<1>8. BornWatched'
  BY <1>3 DEF Fit, InOrder, BornWatched
<1>9. Told'
  <2>1. \A w \in Alive : w \in Threads
    BY DEF Alive
  <2> QED
    BY <2>1 DEF Fit, InOrder, Told
<1>10. Begun' /\ OffsetDue'
  BY <1>2 DEF Fit, InOrder, Begun, OffsetDue, In
<1>11. ScanDue'
  BY DEF Fit, InOrder, ScanDue
<1> QED
  BY <1>4, <1>5, <1>6, <1>7, <1>8, <1>9, <1>10, <1>11 DEF InOrder

\* A thread between its begin and its end.
LEMMA GoesOn ==
    ASSUME Fit, NEW w \in Threads, thread.pc[w] \notin {"none", "born"},
           NEW p \in ThreadPlaces \ {"none", "born"}, Goes(w, p)
    PROVE  /\ Alive' = Alive /\ thread'.t = thread.t
           /\ \A v \in Threads : At(v, "born")' <=> At(v, "born")
<1>1. thread \in Crews
  BY TypeOKIs DEF Fit, Placed
<1>2. /\ thread'.t = thread.t
      /\ \A v \in Threads : thread'.pc[v] = IF v = w THEN p ELSE thread.pc[v]
  BY <1>1 DEF Crews, Goes
<1> QED
  BY <1>2 DEF Alive, At

\* A client enters an operation and nobody is crossed.
LEMMA EnterKeeps ==
    ASSUME Fit, NEW c \in Clients, NEW op \in Operations, NEW m, NEW pc \in {"acquire", "join"},
           Enters(c, op, m, pc), call[c].pc = "idle",
           ~Crosses(c, op), op # "rewind",
           pc = "join" => op \notin Locked \cup {"setup"},
           op = "park" /\ pc = "acquire" => ~control.updating,
           thread' = thread, lock' = lock, setUp'.device = setUp.device, past'.died = past.died,
           control'.updating = control.updating, control'.mustUpdate = control.mustUpdate
    PROVE  InOrder'
<1>1. call \in Calls
  BY TypeOKIs DEF Fit, Placed
<1>2. /\ call'[c].op = op /\ call'[c].pc = pc
      /\ \A d \in Clients \ {c} : call'[d] = call[d]
  BY <1>1 DEF Enters, Calls
<1>3. \A d \in Clients \ {c} : Busy(d) => op \in Locked /\ call[d].op \in Locked
  BY DEF Crosses, Busy
<1>4. Alive' = Alive /\ \A w \in Threads : At(w, "born")' <=> At(w, "born")
  BY DEF Alive, At
<1>5. Apart'
  BY <1>2, <1>3 DEF Fit, InOrder, Apart, Busy
<1>6. Holding'
  BY <1>2 DEF Fit, InOrder, Holding, Inside, In, Holds
<1>7. OnlyLatest' /\ ParkedStill'
  BY <1>4 DEF Fit, InOrder, OnlyLatest, ParkedStill
<1>8. StartsAlone'
  <2>1. In(c, "park", "acquire")' => Alive = {}
    <3> SUFFICES ASSUME In(c, "park", "acquire")' PROVE Alive = {}
      OBVIOUS
    <3>1. op = "park" /\ pc = "acquire"
      BY <1>2 DEF In
    <3>2. \A d \in Clients : call[d].pc # "started"
      BY <1>3, <3>1 DEF Locked, Busy, Fit, Placed, KnownPlaces
    <3> QED
      BY <3>1, <3>2, NobodyAlive
  <2>2. ~Starting(c)'
    BY <1>2 DEF Starting
  <2> QED
    BY <1>2, <1>4, <2>1, <2>2 DEF Fit, InOrder, StartsAlone, Starting, In
<1>9. BornWatched'
  BY <1>2, <1>4 DEF Fit, InOrder, BornWatched
<1>10. Told'
  BY <1>4 DEF Fit, InOrder, Told, Alive, At
<1>11. Begun' /\ OffsetDue'
  BY <1>2, <1>4 DEF Fit, InOrder, Begun, OffsetDue, In
<1>12. ScanDue'
  BY <1>4 DEF Fit, InOrder, ScanDue
<1> QED
  BY <1>5, <1>6, <1>7, <1>8, <1>9, <1>10, <1>11, <1>12 DEF InOrder

\* A client returns before it has started a thread, or after it has seen it begin.
LEMMA ReturnKeeps ==
    ASSUME Fit, NEW c \in Clients, Returns(c),
           call[c].pc = "started" => \A w \in Threads : ~At(w, "born"),
           lock' \in {lock, Freed(c)}, thread' = thread,
           setUp'.device = setUp.device, past'.died = past.died,
           control'.updating = control.updating \/ (Alive = {} /\ ~control'.updating),
           control'.mustUpdate => control.mustUpdate
    PROVE  InOrder'
<1>1. call \in Calls /\ lock \in Locks
  BY TypeOKIs DEF Fit, Placed
<1>2. /\ call'[c].pc = "idle"
      /\ \A d \in Clients \ {c} : call'[d] = call[d]
  BY <1>1 DEF Returns, Calls, Idle
<1>3. Alive' = Alive /\ \A w \in Threads : At(w, "born")' <=> At(w, "born")
  BY DEF Alive, At
<1>4. control'.updating <=> control.updating
  BY NoThreadNoUpdate
<1>5. Apart'
  BY <1>2 DEF Fit, InOrder, Apart, Busy
<1>6. Holding'
  <2>1. \A d \in Clients \ {c} : lock.general = d => lock'.general = d
    BY <1>1 DEF Freed, Holds, Locks
  <2> QED
    BY <1>2, <2>1 DEF Fit, InOrder, Holding, Inside, In, Holds
<1>7. OnlyLatest' /\ ParkedStill'
  BY <1>3 DEF Fit, InOrder, OnlyLatest, ParkedStill
<1>8. StartsAlone'
  BY <1>2, <1>3 DEF Fit, InOrder, StartsAlone, Starting, In
<1>9. BornWatched'
  BY <1>2, <1>3 DEF Fit, InOrder, BornWatched
<1>10. Told'
  BY <1>3, <1>4 DEF Fit, InOrder, Told, Alive, At
<1>11. Begun' /\ OffsetDue'
  BY <1>2, <1>3 DEF Fit, InOrder, Begun, OffsetDue, In
<1>12. ScanDue'
  BY <1>3, <1>4 DEF Fit, InOrder, ScanDue
<1> QED
  BY <1>5, <1>6, <1>7, <1>8, <1>9, <1>10, <1>11, <1>12 DEF InOrder

--------------------------------------------------------------------------------
(* The steps of the threads.                                               *)

LEMMA BeginFits ==
    ASSUME Fit, NEW w \in Threads, Begin(w)
    PROVE  InOrder'
<1>1. control \in Controls /\ thread \in Crews
  BY TypeOKIs DEF Fit, Placed
<1>2. control'.updating /\ control'.mustUpdate = control.mustUpdate
  BY <1>1 DEF Begin, Controls
<1>3. /\ thread'.t = thread.t
      /\ \A v \in Threads : thread'.pc[v] = IF v = w THEN "ready" ELSE thread.pc[v]
  BY <1>1 DEF Begin, Goes, Crews
<1>4. At(w, "born") /\ UNCHANGED <<setUp, call, lock, past>>
  BY DEF Begin
<1>5. Alive' = Alive /\ w \in Alive
  BY <1>3, <1>4 DEF Alive, At
<1>6. Apart' /\ Holding'
  BY <1>4 DEF Fit, InOrder, Apart, Holding, Busy, Inside, In, Holds
<1>7. OnlyLatest' /\ ParkedStill' /\ StartsAlone'
  BY <1>3, <1>4, <1>5 DEF Fit, InOrder, OnlyLatest, ParkedStill, StartsAlone, Starting, In
<1>8. BornWatched'
  BY <1>3, <1>4 DEF Fit, InOrder, BornWatched, At
<1>9. Told'
  BY <1>2, <1>3, <1>5 DEF Told, At
<1>10. Begun' /\ OffsetDue' /\ ScanDue'
  BY <1>2, <1>4, <1>5 DEF Fit, InOrder, Begun, OffsetDue, ScanDue, In
<1> QED
  BY <1>6, <1>7, <1>8, <1>9, <1>10 DEF InOrder

\* A thread that ends when nobody has asked it to has died.
LEMMA EndFits ==
    ASSUME Fit, NEW w \in Threads, End(w)
    PROVE  InOrder'
<1>1. control \in Controls /\ thread \in Crews /\ past \in Past
  BY TypeOKIs DEF Fit, Placed
<1>2. ~control'.updating /\ ~control'.mustUpdate
  BY <1>1, FlagsLowered DEF End
<1>3. /\ thread'.t = thread.t
      /\ \A v \in Threads : thread'.pc[v] = IF v = w THEN "none" ELSE thread.pc[v]
  BY <1>1 DEF End, Crews
<1>4. At(w, "end") /\ UNCHANGED <<setUp, call, lock>>
  BY DEF End
<1>5. Alive' = {}
  <2>1. w \in Alive
    BY <1>4 DEF Alive, At
  <2>2. \A v \in Alive : v = w
    BY <2>1 DEF Fit, InOrder, OnlyLatest
  <2> QED
    BY <1>3, <2>2 DEF Alive, At
<1>6. Apart' /\ Holding'
  BY <1>4 DEF Fit, InOrder, Apart, Holding, Busy, Inside, In, Holds
<1>7. OnlyLatest' /\ ParkedStill' /\ StartsAlone' /\ Told'
  BY <1>2, <1>5 DEF OnlyLatest, ParkedStill, StartsAlone, Told
<1>8. BornWatched'
  BY <1>5 DEF BornWatched, Alive, At
<1>9. Begun'
  <2> SUFFICES ASSUME NEW c \in Clients, In(c, "startUpdating", "started")
               PROVE  past'.died
    BY <1>4 DEF Begun, In
  <2>1. ~control.stop
    <3> SUFFICES ASSUME control.stop PROVE FALSE
      OBVIOUS
    <3>1. PICK d \in Clients : call[d].pc = "join"
      BY DEF Fit, Placed, StopAwaited
    <3>2. c = d
      BY <3>1, OneInside DEF Inside, In
    <3> QED
      BY <3>1, <3>2 DEF In
  <2>2. past'.died = (past.died \/ (~control.stop))
    BY <1>1 DEF End, Past
  <2> QED
    BY <2>1, <2>2
<1>10. OffsetDue' /\ ScanDue'
  BY <1>2 DEF OffsetDue, ScanDue
<1> QED
  BY <1>6, <1>7, <1>8, <1>9, <1>10 DEF InOrder

LEMMA ThreadStepFits ==
    ASSUME Fit, NEW w \in Threads, ThreadStep(w)
    PROVE  InOrder'
<1>1. CASE Begin(w) \/ End(w)
  BY <1>1, BeginFits, EndFits
<1>2. CASE ~Begin(w) /\ ~End(w)
  <2>1. control \in Controls /\ past \in Past
    BY TypeOKIs DEF Fit, Placed
  <2>2. UNCHANGED <<setUp, call, lock>>
    BY <1>2 DEF ThreadStep, CheckReady, LeaveLoop, SetPosition, OutOfRange, ManualWait
  <2>3. control'.updating = control.updating /\ control'.mustUpdate = control.mustUpdate
    <3>1. control' \in {control, [control EXCEPT !.required = TRUE]}
      BY <1>2 DEF ThreadStep, CheckReady, LeaveLoop, SetPosition, OutOfRange, ManualWait
    <3> QED
      BY <2>1, <3>1 DEF Controls
  <2>4. past'.died = past.died
    <3>1. past' \in {past, Failed(past), [past EXCEPT !.asked = FALSE]}
      BY <1>2 DEF ThreadStep, CheckReady, LeaveLoop, SetPosition, OutOfRange, ManualWait
    <3> QED
      BY <2>1, <3>1 DEF Past, Failed
  <2>5. thread.pc[w] \notin {"none", "born"}
    BY <1>2 DEF ThreadStep, CheckReady, LeaveLoop, SetPosition, OutOfRange, ManualWait, At
  <2>6. PICK p \in ThreadPlaces \ {"none", "born"} : Goes(w, p)
    BY <1>2 DEF ThreadStep, CheckReady, LeaveLoop, SetPosition, OutOfRange, ManualWait,
                NextPosition, ThreadPlaces
  <2>7. /\ Alive' = Alive /\ thread'.t = thread.t
        /\ \A v \in Threads : At(v, "born")' <=> At(v, "born")
    BY <2>5, <2>6, GoesOn
  <2> QED
    BY <2>2, <2>3, <2>4, <2>7, SameKeeps
<1> QED
  BY <1>1, <1>2

LEMMA RewindingFits ==
    ASSUME Fit, NEW a \in Threads \cup Clients, TakeRewinding(a) \/ EndRewinding(a)
    PROVE  InOrder'
<1>1. control \in Controls /\ past \in Past /\ lock \in Locks /\ call \in Calls
  BY TypeOKIs DEF Fit, Placed
<1>2. setUp' = setUp /\ lock'.general = lock.general
  BY <1>1 DEF TakeRewinding, EndRewinding, Locks
<1>3. control'.updating = control.updating /\ control'.mustUpdate = control.mustUpdate
  BY <1>1 DEF TakeRewinding, EndRewinding, Controls
<1>4. past'.died = past.died
  <2>1. past' \in {past, Failed(past), [past EXCEPT !.asked = FALSE]}
    BY DEF TakeRewinding, EndRewinding, Resumes
  <2> QED
    BY <1>1, <2>1 DEF Past, Failed
<1>5. CASE a \in Threads
  <2>1. thread.pc[a] \notin {"none", "born"} /\ call' = call
    BY <1>5 DEF TakeRewinding, EndRewinding, Resumes, At
  <2>2. PICK p \in ThreadPlaces \ {"none", "born"} : Goes(a, p)
    BY <1>5 DEF TakeRewinding, EndRewinding, Resumes, After, NextPosition, ThreadPlaces
  <2>3. /\ Alive' = Alive /\ thread'.t = thread.t
        /\ \A v \in Threads : At(v, "born")' <=> At(v, "born")
    BY <1>5, <2>1, <2>2, GoesOn
  <2> QED
    BY <1>2, <1>3, <1>4, <2>1, <2>3, SameKeeps
<1>6. CASE a \notin Threads
  <2>1. /\ thread' = thread /\ call[a].op = "rewind" /\ call[a].pc \in {"lock", "poll"}
        /\ call' \in {[call EXCEPT ![a].pc = "poll"], [call EXCEPT ![a] = Idle]}
    BY <1>6 DEF TakeRewinding, EndRewinding, Resumes
  <2>2. /\ call'[a].pc = "idle" \/ (call'[a].op = "rewind" /\ call'[a].pc \in {"lock", "poll"})
        /\ \A c \in Clients \ {a} : call'[c] = call[c]
    BY <1>1, <1>6, <2>1 DEF Calls, Idle
  <2>3. Alive' = Alive /\ \A v \in Threads : At(v, "born")' <=> At(v, "born")
    BY <2>1 DEF Alive, At
  <2> QED
    BY <1>2, <1>3, <1>4, <2>1, <2>2, <2>3, SameKeeps
<1> QED
  BY <1>5, <1>6

--------------------------------------------------------------------------------
(* The requests.  Nobody is crossed if all is in order afterwards.         *)

LEMMA CalledFits ==
    ASSUME Fit, Orderly', NEW c \in Clients, NEW op, Called(c, op)
    PROVE  /\ call[c].pc = "idle" /\ past'.died = past.died
           /\ op # "rewind" => ~Crosses(c, op)
<1>1. past \in Past
  BY TypeOKIs DEF Fit, Placed
<1>2. /\ past'.died = past.died
      /\ past'.crossed = (past.crossed \/ (op # "rewind" /\ Crosses(c, op)))
  BY <1>1 DEF Called, Past
<1> QED
  BY <1>2 DEF Called, Orderly

\* setDefault, when no thread is alive.
LEMMA DefaultKeeps ==
    ASSUME Fit, Alive = {}, SetDefault, lock' = lock, past'.died = past.died,
           call' = call \/ \E c \in Clients : Returns(c)
    PROVE  InOrder'
<1>1. call \in Calls /\ thread \in Crews
  BY TypeOKIs DEF Fit, Placed
<1>2. \A d \in Clients : call'[d] = call[d] \/ call'[d].pc = "idle"
  BY <1>1 DEF Returns, Calls, Idle
<1>3. /\ ~control'.updating /\ ~control'.mustUpdate
  BY FlagsLowered DEF SetDefault
<1>4. Alive' = {} /\ \A w \in Threads : ~At(w, "born")'
  <2>1. thread'.pc = thread.pc
    BY <1>1 DEF SetDefault, Crews
  <2> QED
    BY <2>1 DEF Alive, At
<1>5. Begun'
  BY <1>2 DEF Fit, InOrder, Begun, In
<1>6. Apart'
  BY <1>2 DEF Fit, InOrder, Apart, Busy
<1>7. Holding'
  BY <1>2 DEF Fit, InOrder, Holding, Inside, In, Holds
<1>8. OnlyLatest' /\ ParkedStill' /\ StartsAlone' /\ BornWatched' /\ Told' /\ OffsetDue' /\ ScanDue'
  BY <1>3, <1>4 DEF OnlyLatest, ParkedStill, StartsAlone, BornWatched, Told, OffsetDue, ScanDue
<1> QED
  BY <1>5, <1>6, <1>7, <1>8 DEF InOrder

LEMMA RequestFits ==
    ASSUME Fit, Orderly', NEW c \in Clients, Request(c)
    PROVE  InOrder'
<1>1. control \in Controls /\ past \in Past /\ setUp \in Devices /\ call \in Calls
  BY TypeOKIs DEF Fit, Placed
<1>2. thread' = thread =>
          Alive' = Alive /\ \A v \in Threads : At(v, "born")' <=> At(v, "born")
  BY DEF Alive, At
<1>3. CASE StopUpdating(c)
  <2>1. control'.updating = control.updating /\ control'.mustUpdate = control.mustUpdate
    BY <1>1, <1>3 DEF StopUpdating, Controls
  <2>2. Called(c, "stopUpdating") /\ Enters(c, "stopUpdating", "goto", "join")
        /\ UNCHANGED <<setUp, thread, lock>>
    BY <1>3 DEF StopUpdating
  <2>3. call[c].pc = "idle" /\ past'.died = past.died /\ ~Crosses(c, "stopUpdating")
    BY <2>2, CalledFits
  <2> QED
    BY <2>1, <2>2, <2>3, EnterKeeps DEF Operations, Locked
<1>4. CASE Setup(c)
  <2>1. setUp'.device = setUp.device
    BY <1>1, <1>4 DEF Setup, Devices
  <2>2. Called(c, "setup") /\ Enters(c, "setup", "goto", "acquire")
        /\ UNCHANGED <<control, thread, lock>>
    BY <1>4 DEF Setup
  <2>3. call[c].pc = "idle" /\ past'.died = past.died /\ ~Crosses(c, "setup")
    BY <2>2, CalledFits
  <2> QED
    BY <2>1, <2>2, <2>3, EnterKeeps DEF Operations
<1>5. CASE CallSetPosition(c)
  <2>1. Called(c, "setPosition") /\ Enters(c, "setPosition", "goto", "acquire")
        /\ UNCHANGED <<control, setUp, thread, lock>>
    BY <1>5 DEF CallSetPosition
  <2>2. call[c].pc = "idle" /\ past'.died = past.died /\ ~Crosses(c, "setPosition")
    BY <2>1, CalledFits
  <2> QED
    BY <2>1, <2>2, EnterKeeps DEF Operations
<1>6. CASE StartUpdating(c)
  <2>1. PICK mover \in Movers :
            /\ Called(c, "startUpdating") /\ Enters(c, "startUpdating", mover, "acquire")
            /\ UNCHANGED <<control, setUp, thread, lock>>
    BY <1>6 DEF StartUpdating
  <2>2. call[c].pc = "idle" /\ past'.died = past.died /\ ~Crosses(c, "startUpdating")
    BY <2>1, CalledFits
  <2> QED
    BY <2>1, <2>2, EnterKeeps DEF Operations
<1>7. CASE Park(c)
  <2>1. Called(c, "park") /\ lock' = lock
    BY <1>7 DEF Park
  <2>2. call[c].pc = "idle" /\ past'.died = past.died /\ ~Crosses(c, "park")
    BY <2>1, CalledFits
  <2>3. CASE ~setUp.device
    <3>1. SetDefault /\ call' = call
      BY <1>7, <2>3 DEF Park
    <3>2. Alive = {}
      BY <2>3 DEF Fit, InOrder, ParkedStill
    <3> QED
      BY <2>1, <2>2, <3>1, <3>2, DefaultKeeps
  <2>4. CASE setUp.device /\ control.updating
    <3>1. control' = [control EXCEPT !.offset = 0, !.stop = TRUE]
          /\ Enters(c, "park", "goto", "join") /\ UNCHANGED <<setUp, thread>>
      BY <1>7, <2>4 DEF Park
    <3>2. control'.updating = control.updating /\ control'.mustUpdate = control.mustUpdate
      BY <1>1, <3>1 DEF Controls
    <3> QED
      BY <2>1, <2>2, <3>1, <3>2, EnterKeeps DEF Operations, Locked
  <2>5. CASE setUp.device /\ ~control.updating
    <3>1. control' = [control EXCEPT !.offset = 0]
          /\ Enters(c, "park", "goto", "acquire") /\ UNCHANGED <<setUp, thread>>
      BY <1>7, <2>5 DEF Park
    <3>2. control'.updating = control.updating /\ control'.mustUpdate = control.mustUpdate
      BY <1>1, <3>1 DEF Controls
    <3> QED
      BY <2>1, <2>2, <2>5, <3>1, <3>2, EnterKeeps DEF Operations
  <2> QED
    BY <2>3, <2>4, <2>5
<1>8. CASE SetOffset(c)
  <2>1. /\ call[c].pc = "idle" /\ UNCHANGED <<setUp, thread, lock>>
        /\ past'.died = past.died /\ past'.crossed = (past.crossed \/ Crosses(c, "setOffset"))
    BY <1>1, <1>8 DEF SetOffset, Past
  <2>2. ~Crosses(c, "setOffset")
    BY <2>1 DEF Orderly
  <2>3. PICK o \in Offsets :
            \/ call' = call /\ control' = [control EXCEPT !.offset = NewOffset(o)]
            \/ /\ Enters(c, "setOffset", "goto", "join")
               /\ control' = [control EXCEPT !.offset = NewOffset(o), !.stop = TRUE]
    BY <1>8 DEF SetOffset
  <2>4. control'.updating = control.updating /\ control'.mustUpdate = control.mustUpdate
    BY <1>1, <2>3 DEF Controls
  <2>5. CASE call' = call
    BY <1>2, <2>1, <2>4, <2>5, SameKeeps
  <2>6. CASE Enters(c, "setOffset", "goto", "join")
    BY <2>1, <2>2, <2>4, <2>6, EnterKeeps DEF Operations, Locked
  <2> QED
    BY <2>3, <2>5, <2>6
<1>9. CASE SetConfiguration(c)
  <2>1. Called(c, "setConfiguration") /\ UNCHANGED <<thread, lock>>
    BY <1>9 DEF SetConfiguration
  <2>2. call[c].pc = "idle" /\ past'.died = past.died /\ ~Crosses(c, "setConfiguration")
    BY <2>1, CalledFits
  <2>3. CASE control.updating
    <3>1. /\ control' = [control EXCEPT !.stop = TRUE] /\ setUp' = setUp
          /\ Enters(c, "setConfiguration", "goto", "join")
      BY <1>9, <2>3 DEF SetConfiguration
    <3>2. control'.updating = control.updating /\ control'.mustUpdate = control.mustUpdate
      BY <1>1, <3>1 DEF Controls
    <3> QED
      BY <2>1, <2>2, <3>1, <3>2, EnterKeeps DEF Operations, Locked
  <2>4. CASE ~control.updating
    <3>1. /\ control' = ClearedScanInfo(control) /\ call' = call
          /\ setUp' = [setUp EXCEPT !.configured = TRUE]
      BY <1>9, <2>4 DEF SetConfiguration
    <3>2. control'.updating = control.updating /\ control'.mustUpdate = control.mustUpdate
      BY <1>1, <3>1, FlagsKept DEF Flags
    <3>3. setUp'.device = setUp.device
      BY <1>1, <3>1 DEF Devices
    <3> QED
      BY <1>2, <2>1, <2>2, <3>1, <3>2, <3>3, SameKeeps
  <2> QED
    BY <2>3, <2>4
<1>10. CASE SetRewindingMode(c)
  <2>1. Called(c, "rewind") /\ UNCHANGED <<setUp, thread, call, lock>>
    BY <1>10 DEF SetRewindingMode
  <2>2. past'.died = past.died
    BY <2>1, CalledFits
  <2>3. control'.updating = control.updating /\ control'.mustUpdate = control.mustUpdate
    BY <1>1, <1>10 DEF SetRewindingMode, Controls
  <2> QED
    BY <1>2, <2>1, <2>2, <2>3, SameKeeps
<1>11. CASE Rewind(c)
  <2>1. /\ Called(c, "rewind") /\ Enters(c, "rewind", "goto", "lock")
        /\ UNCHANGED <<control, setUp, thread, lock>>
    BY <1>11 DEF Rewind
  <2>2. past'.died = past.died /\ call[c].pc = "idle"
    BY <2>1, CalledFits
  <2>3. /\ call'[c].op = "rewind" /\ call'[c].pc = "lock"
        /\ \A d \in Clients \ {c} : call'[d] = call[d]
    BY <1>1, <2>1 DEF Enters, Calls
  <2> QED
    BY <1>2, <2>1, <2>2, <2>3, SameKeeps
<1> QED
  BY <1>3, <1>4, <1>5, <1>6, <1>7, <1>8, <1>9, <1>10, <1>11 DEF Request

--------------------------------------------------------------------------------
(* The clients go on.                                                      *)

\* The lock is got: with nothing to stop there is no thread.
LEMMA AcquireFits ==
    ASSUME Fit, NEW c \in Clients, Acquire(c)
    PROVE  InOrder'
<1>1. control \in Controls /\ call \in Calls /\ lock \in Locks
  BY TypeOKIs DEF Fit, Placed
<1>2. /\ call[c].pc = "acquire" /\ lock.general = NoOne
      /\ call[c].op \in {"setup", "park", "setPosition", "startUpdating"}
      /\ UNCHANGED <<setUp, thread, past>>
  BY DEF Acquire, Fit, Placed, KnownPlaces
<1>3. lock'.general = c
  BY <1>1 DEF Acquire, Locks
<1>4. PICK p \in {"join", "go"} :
          call' = [call EXCEPT ![c].pc = p]
          /\ (p = "go" => call[c].op = "park" \/ ~control.updating)
  BY DEF Acquire, AsksToStop, Moves
<1>5. /\ call'[c].pc = p /\ call'[c].op = call[c].op
      /\ \A d \in Clients \ {c} : call'[d] = call[d]
  BY <1>1, <1>4 DEF Calls
<1>6. control'.updating = control.updating /\ control'.mustUpdate = control.mustUpdate
  <2>1. control' \in {control, [control EXCEPT !.stop = TRUE]}
    BY DEF Acquire, AsksToStop
  <2> QED
    BY <1>1, <2>1 DEF Controls
<1>7. Alive' = Alive /\ \A w \in Threads : At(w, "born")' <=> At(w, "born")
  BY <1>2 DEF Alive, At
<1>8. Apart'
  BY <1>2, <1>5 DEF Fit, InOrder, Apart, Busy
<1>9. \A d \in Clients \ {c} : ~Holds(d)
  BY <1>2, PositionerBounds DEF Holds
<1>10. Holding'
  BY <1>3, <1>5, <1>9 DEF Fit, InOrder, Holding, Inside, In, Holds
<1>11. OnlyLatest' /\ ParkedStill'
  BY <1>2, <1>7 DEF Fit, InOrder, OnlyLatest, ParkedStill
<1>12. p = "go" => Alive = {}
  <2>1. CASE call[c].op = "park"
    BY <1>2, <2>1 DEF Fit, InOrder, StartsAlone, In
  <2>2. CASE call[c].op # "park" /\ p = "go"
    <3>1. \A d \in Clients : call[d].pc # "started"
      <4> SUFFICES ASSUME NEW d \in Clients, call[d].pc = "started" PROVE FALSE
        OBVIOUS
      <4>1. c # d /\ Busy(c) /\ Busy(d)
        BY <1>2 DEF Busy, Fit, Placed, KnownPlaces
      <4>2. call[d].op \in Locked
        BY <4>1 DEF Fit, InOrder, Apart
      <4> QED
        BY <1>9, <4>1, <4>2 DEF Fit, InOrder, Holding, Inside
    <3> QED
      BY <1>4, <2>2, <3>1, NobodyAlive
  <2> QED
    BY <2>1, <2>2
<1>13. StartsAlone'
  BY <1>4, <1>5, <1>7, <1>12 DEF Fit, InOrder, StartsAlone, Starting, In
<1>14. BornWatched'
  BY <1>2, <1>5, <1>7 DEF Fit, InOrder, BornWatched
<1>15. Told'
  BY <1>6, <1>7 DEF Fit, InOrder, Told, Alive, At
<1>16. Begun' /\ OffsetDue'
  BY <1>2, <1>5, <1>6, <1>7 DEF Fit, InOrder, Begun, OffsetDue, In
<1>17. ScanDue'
  BY <1>2, <1>6, <1>7 DEF Fit, InOrder, ScanDue
<1> QED
  BY <1>8, <1>10, <1>11, <1>13, <1>14, <1>15, <1>16, <1>17 DEF InOrder

\* A client waits, or has waited, for the thread and goes on.
LEMMA MoveKeeps ==
    ASSUME Fit, NEW c \in Clients, NEW p \in {"join", "go", "parked"},
           NEW op \in {call[c].op, "defaults"}, call'[c].pc = p, call'[c].op = op,
           \A d \in Clients \ {c} : call'[d] = call[d],
           Inside(c), op = call[c].op \/ call[c].op = "setup",
           call[c].pc = "started" => \A w \in Threads : ~At(w, "born"),
           lock' = lock \/ (lock' = Freed(c) /\ op \notin Locked \cup {"setup"}),
           p = "go" /\ op \notin {"setConfiguration", "defaults"} => Alive = {} /\ ~control'.mustUpdate,
           UNCHANGED <<thread, setUp>>, past'.died = past.died,
           control'.updating = control.updating \/ (Alive = {} /\ ~control'.updating),
           control'.mustUpdate => control.mustUpdate
    PROVE  InOrder'
<1>1. lock \in Locks
  BY TypeOKIs DEF Fit, Placed
<1>2. /\ call'[c].pc = p /\ call'[c].op = op
      /\ \A d \in Clients \ {c} : call'[d] = call[d]
  OBVIOUS
<1>3. Alive' = Alive /\ \A w \in Threads : At(w, "born")' <=> At(w, "born")
  BY DEF Alive, At
<1>4. control'.updating <=> control.updating
  BY NoThreadNoUpdate
<1>5. Apart'
  <2>1. Busy(c)
    BY DEF Fit, Placed, KnownPlaces, Busy, Inside
  <2>2. CASE op = call[c].op
    BY <1>2, <2>1, <2>2 DEF Fit, InOrder, Apart, Busy
  <2>3. CASE op # call[c].op
    <3>1. \A d \in Clients \ {c} : ~Busy(d)
      BY <2>1, <2>3, NobodyElse DEF Locked
    <3> QED
      BY <1>2, <3>1 DEF Apart, Busy
  <2> QED
    BY <2>2, <2>3
<1>6. Holding'
  <2>1. \A d \in Clients \ {c} : Holds(d) => Holds(d)'
    BY <1>1 DEF Freed, Holds, Locks
  <2>2. op \in Locked \cup {"setup"} => Holds(c)'
    BY DEF Fit, InOrder, Holding, Inside, Holds, Locked
  <2> QED
    BY <1>2, <2>1, <2>2 DEF Fit, InOrder, Holding, Inside, In
<1>7. OnlyLatest' /\ ParkedStill'
  BY <1>3 DEF Fit, InOrder, OnlyLatest, ParkedStill
<1>8. StartsAlone'
  BY <1>2, <1>3 DEF Fit, InOrder, StartsAlone, Starting, In
<1>9. BornWatched'
  BY <1>2, <1>3 DEF Fit, InOrder, BornWatched
<1>10. Told'
  BY <1>3, <1>4 DEF Fit, InOrder, Told, Alive, At
<1>11. Begun' /\ OffsetDue'
  BY <1>2, <1>3 DEF Fit, InOrder, Begun, OffsetDue, In
<1>12. ScanDue'
  BY <1>3, <1>4 DEF Fit, InOrder, ScanDue
<1> QED
  BY <1>5, <1>6, <1>7, <1>8, <1>9, <1>10, <1>11, <1>12 DEF InOrder

\* A thread is started where there was none.
LEMMA StartKeeps ==
    ASSUME Fit, NEW c \in Clients, Starting(c), call[c].op # "rewind", NEW mover, Starts(c, mover),
           lock' = lock, setUp'.device, call[c].op = "park" => Holds(c),
           control'.updating = control.updating \/ ~control'.updating,
           control'.mustUpdate => control.mustUpdate
    PROVE  InOrder'
<1>1. call \in Calls /\ thread \in Crews
  BY TypeOKIs DEF Fit, Placed
<1>2. PICK w \in Threads :
          /\ thread' = [thread EXCEPT !.t = w, !.pc[w] = "born", !.mover[w] = mover]
          /\ call' = [call EXCEPT ![c].pc = "started"]
  BY DEF Starts, Moves
<1>3. /\ call[c].pc = "go" /\ Inside(c) /\ Busy(c)
      /\ call'[c].pc = "started" /\ call'[c].op = call[c].op
      /\ \A d \in Clients \ {c} : call'[d] = call[d]
  BY <1>1, <1>2 DEF Calls, Starting, Inside, Busy
<1>4. Alive = {}
  BY DEF Fit, InOrder, StartsAlone
<1>5. /\ thread'.t = w
      /\ \A v \in Threads : thread'.pc[v] = IF v = w THEN "born" ELSE thread.pc[v]
  BY <1>1, <1>2 DEF Crews
<1>6. Alive' = {w} /\ At(w, "born")'
  BY <1>4, <1>5 DEF Alive, At
<1>7. ~control'.updating
  BY <1>4, NoThreadNoUpdate
<1>8. \A d \in Clients \ {c} : ~Inside(d)
  BY <1>3, OneInside
<1>9. \A d \in Clients \ {c} : ~In(d, "park", "acquire")
  <2> SUFFICES ASSUME NEW d \in Clients \ {c}, In(d, "park", "acquire") PROVE FALSE
    OBVIOUS
  <2>1. Busy(d)
    BY DEF Busy, In
  <2>2. call[d].op \in Locked
    BY <1>3, <2>1 DEF Fit, InOrder, Apart
  <2> QED
    BY <2>2 DEF Locked, In
<1>10. Apart'
  BY <1>3 DEF Fit, InOrder, Apart, Busy
<1>11. Holding'
  BY <1>3 DEF Fit, InOrder, Holding, Inside, In, Holds
<1>12. OnlyLatest' /\ ParkedStill' /\ Told'
  BY <1>5, <1>6, <1>7 DEF OnlyLatest, ParkedStill, Told
<1>13. StartsAlone'
  BY <1>3, <1>8, <1>9 DEF StartsAlone, Starting, In, Inside
<1>14. BornWatched'
  BY <1>3 DEF BornWatched
<1>15. Begun' /\ ScanDue'
  BY <1>6 DEF Begun, ScanDue
<1>16. OffsetDue'
  BY <1>3, <1>8 DEF Fit, InOrder, OffsetDue, In, Inside
<1> QED
  BY <1>10, <1>11, <1>12, <1>13, <1>14, <1>15, <1>16 DEF InOrder

LEMMA JoinFits ==
    ASSUME Fit, Orderly', NEW c \in Clients, Join(c)
    PROVE  InOrder'
<1>1. control \in Controls /\ call \in Calls /\ past \in Past
  BY TypeOKIs DEF Fit, Placed
<1>2. Joined /\ past' = past
  <2>1. CASE past' = [past EXCEPT !.late = TRUE]
    BY <1>1, <2>1 DEF Orderly, Past
  <2> QED
    BY <2>1 DEF Join
<1>3. Alive = {}
  BY <1>2, JoinedAlone
<1>4. ~control'.updating /\ ~control'.mustUpdate
  BY <1>1, FlagsLowered DEF Join
<1>5. call[c].pc = "join" /\ UNCHANGED <<setUp, thread, lock>>
  BY DEF Join
<1>6. CASE Returns(c)
  BY <1>2, <1>3, <1>4, <1>5, <1>6, ReturnKeeps
<1>7. CASE Moves(c, "go")
  <2>1. /\ call'[c].pc = "go" /\ call'[c].op = call[c].op
        /\ \A d \in Clients \ {c} : call'[d] = call[d]
    BY <1>1, <1>7 DEF Moves, Calls
  <2> QED
    BY <1>2, <1>3, <1>4, <1>5, <2>1, MoveKeeps DEF Inside
<1> QED
  BY <1>6, <1>7 DEF Join

\* The operations that end before they have started a thread.
LEMMA RefusalFits ==
    ASSUME Fit, NEW c \in Clients, Refuse(c) \/ Fail(c) \/ FindParked(c)
    PROVE  InOrder'
<1>1. control \in Controls /\ past \in Past
  BY TypeOKIs DEF Fit, Placed
<1>2. /\ call[c].pc \in {"acquire", "go"} /\ Returns(c) /\ lock' \in {lock, Freed(c)}
      /\ UNCHANGED <<setUp, thread>>
  BY DEF Refuse, Fail, FindParked, In
<1>3. past'.died = past.died
  <2>1. past' \in {past, Failed(past)}
    BY DEF Refuse, Fail, FindParked
  <2> QED
    BY <1>1, <2>1 DEF Failed, Past
<1>4. CASE control' = control
  BY <1>2, <1>3, <1>4, ReturnKeeps
<1>5. CASE control' = NewControl /\ Fail(c) /\ call[c].op = "setup"
  <2>1. ~control'.updating /\ ~control'.mustUpdate
    BY <1>5, FlagsLowered
  <2>2. Alive = {}
    BY <1>5 DEF Fail, Fit, InOrder, StartsAlone, Starting
  <2> QED
    BY <1>2, <1>3, <2>1, <2>2, ReturnKeeps
<1>6. CASE FindParked(c)
  <2>1. control' = control \/ \E p \in Places : control' = [control EXCEPT !.static = p]
    BY <1>6, PlaceWritten
  <2>2. control'.updating = control.updating /\ control'.mustUpdate = control.mustUpdate
    BY <1>1, <2>1 DEF Controls
  <2> QED
    BY <1>2, <1>3, <2>2, ReturnKeeps
<1> QED
  BY <1>4, <1>5, <1>6 DEF Refuse, Fail

LEMMA GoFits ==
    ASSUME Fit, NEW c \in Clients,
           GoSetup(c) \/ GoTo(c) \/ GoUpdate(c) \/ GoOffset(c)
    PROVE  InOrder'
<1>1. control \in Controls /\ setUp \in Devices
  BY TypeOKIs DEF Fit, Placed
<1>2. PICK mover \in {"goto", call[c].mover} : Starts(c, mover)
  BY DEF GoSetup, GoTo, GoUpdate, GoOffset
<1>3. Starting(c) /\ call[c].op # "rewind" /\ lock' = lock /\ (call[c].op = "park" => Holds(c))
  BY DEF GoSetup, GoTo, GoUpdate, GoOffset, Starting, In
<1>4. setUp'.device
  <2>1. CASE GoSetup(c)
    BY <1>1, <2>1 DEF GoSetup, Devices
  <2>2. CASE ~GoSetup(c)
    BY <2>2 DEF GoTo, GoUpdate, GoOffset
  <2> QED
    BY <2>1, <2>2
<1>5. /\ control'.updating = control.updating \/ ~control'.updating
      /\ control'.mustUpdate => control.mustUpdate
  <2>1. CASE GoSetup(c)
    BY <2>1, FlagsLowered DEF GoSetup
  <2>2. CASE ~GoSetup(c)
    <3>1. control' = control \/ \E p \in Places : control' = [control EXCEPT !.static = p]
      BY <2>2, PlaceWritten DEF GoOffset
    <3>2. control'.updating = control.updating /\ control'.mustUpdate = control.mustUpdate
      BY <1>1, <3>1 DEF Controls
    <3> QED
      BY <3>2
  <2> QED
    BY <2>1, <2>2
<1> QED
  BY <1>2, <1>3, <1>4, <1>5, StartKeeps

LEMMA GoConfigureFits ==
    ASSUME Fit, NEW c \in Clients, GoConfigure(c)
    PROVE  InOrder'
<1>1. control \in Controls /\ setUp \in Devices /\ call \in Calls
  BY TypeOKIs DEF Fit, Placed
<1>2. /\ call[c].pc = "go" /\ call[c].op \in {"setConfiguration", "defaults"}
      /\ UNCHANGED <<thread, lock, past>>
  BY DEF GoConfigure
<1>3. control'.updating = control.updating /\ control'.mustUpdate = control.mustUpdate
  <2>1. \/ control' \in {control, [control EXCEPT !.stop = TRUE]}
        \/ \E m \in Modes : control' = [ClearedScanInfo(control) EXCEPT !.mode = m]
    <3>1. control.mode \in Modes
      BY <1>1 DEF Controls
    <3> QED
      BY <3>1 DEF GoConfigure, AsksToStop, Modes
  <2>2. CASE control' \in {control, [control EXCEPT !.stop = TRUE]}
    BY <1>1, <2>2 DEF Controls
  <2>3. CASE \E m \in Modes : control' = [ClearedScanInfo(control) EXCEPT !.mode = m]
    <3>1. PICK m \in Modes : control' = [ClearedScanInfo(control) EXCEPT !.mode = m]
      BY <2>3
    <3>2. Flags([ClearedScanInfo(control) EXCEPT !.mode = m]) = Flags(control)
      BY <1>1, FlagsKept
    <3> QED
      BY <3>1, <3>2 DEF Flags
  <2> QED
    BY <2>1, <2>2, <2>3
<1>4. CASE Returns(c)
  <2>1. setUp'.device = setUp.device
    BY <1>1 DEF GoConfigure, Devices
  <2> QED
    BY <1>2, <1>3, <1>4, <2>1, ReturnKeeps
<1>5. CASE AsksToStop(c) /\ setUp' = setUp
  <2>1. /\ call'[c].pc = "join" /\ call'[c].op = call[c].op
        /\ \A d \in Clients \ {c} : call'[d] = call[d]
    BY <1>1, <1>5 DEF AsksToStop, Moves, Calls
  <2> QED
    BY <1>2, <1>3, <1>5, <2>1, MoveKeeps DEF Inside
<1> QED
  BY <1>4, <1>5 DEF GoConfigure

LEMMA FinishParkFits ==
    ASSUME Fit, Orderly', NEW c \in Clients, FinishPark(c)
    PROVE  InOrder'
<1>1. past \in Past
  BY TypeOKIs DEF Fit, Placed
<1>2. past'.late = (past.late \/ (~Joined)) /\ past'.died = past.died
  BY <1>1 DEF FinishPark, Past
<1>3. Alive = {}
  BY <1>2, JoinedAlone DEF Orderly
<1> QED
  BY <1>2, <1>3, DefaultKeeps DEF FinishPark

\* The thread has begun: whoever started it has seen that, or has lost a thread
\* that ended at once.
LEMMA AfterStartFits ==
    ASSUME Fit, Orderly', NEW c \in Clients, AfterStart(c)
    PROVE  InOrder'
<1>1. control \in Controls /\ past \in Past /\ call \in Calls
  BY TypeOKIs DEF Fit, Placed
<1>2. \A w \in Threads : ~At(w, "born")
  <2>1. past'.late = (past.late \/ (\E w \in Latest : At(w, "born")))
    BY <1>1 DEF AfterStart, Past
  <2>2. \A w \in Threads : At(w, "born") => w \in Latest
    BY DEF Fit, InOrder, OnlyLatest, Latest, Alive, At
  <2> QED
    BY <2>1, <2>2 DEF Orderly
<1>3. /\ call[c].pc = "started" /\ lock' = Freed(c) /\ UNCHANGED <<setUp, thread>>
      /\ past'.died = past.died
  BY <1>1 DEF AfterStart, Past
<1>4. /\ control'.updating = control.updating
      /\ control'.mustUpdate = (control.mustUpdate \/ call[c].op = "startUpdating")
  BY <1>1 DEF AfterStart, Controls
<1>5. CASE call[c].op \notin {"setup", "park", "startUpdating"}
  BY <1>2, <1>3, <1>4, <1>5, ReturnKeeps DEF AfterStart
<1>6. CASE call[c].op = "startUpdating"
  <2>1. Alive # {} \/ past.died
    BY <1>3, <1>6 DEF Fit, InOrder, Begun, In
  <2> DEFINE Returned == [call EXCEPT ![c] = Idle]
  <2>2. call' = Returned
    BY <1>6 DEF AfterStart, Returns
  <2>3. /\ call'[c].pc = "idle"
        /\ \A d \in Clients \ {c} : call'[d] = call[d]
    BY <1>1, <2>2 DEF Calls, Idle
  <2>4. \A d \in Clients \ {c} : ~Inside(d)
    BY <1>3, OneInside DEF Inside
  <2>5. Alive' = Alive /\ \A w \in Threads : At(w, "born")' <=> At(w, "born")
    BY <1>3 DEF Alive, At
  <2>6. Apart'
    BY <2>3 DEF Fit, InOrder, Apart, Busy
  <2>7. Holding' /\ Begun' /\ OffsetDue'
    BY <2>3, <2>4 DEF Holding, Begun, OffsetDue, Inside, In
  <2>8. OnlyLatest' /\ ParkedStill'
    BY <1>3, <2>5 DEF Fit, InOrder, OnlyLatest, ParkedStill
  <2>9. StartsAlone'
    BY <2>3, <2>5 DEF Fit, InOrder, StartsAlone, Starting, In
  <2>10. BornWatched'
    BY <1>2, <2>5 DEF BornWatched
  <2>11. Told'
    BY <1>4, <2>5 DEF Fit, InOrder, Told, Alive, At
  <2>12. ScanDue'
    BY <1>3, <2>1, <2>5 DEF ScanDue
  <2> QED
    BY <2>6, <2>7, <2>8, <2>9, <2>10, <2>11, <2>12 DEF InOrder
<1>7. CASE call[c].op = "park"
  <2>1. /\ call'[c].pc = "parked" /\ call'[c].op = "park"
        /\ \A d \in Clients \ {c} : call'[d] = call[d]
    BY <1>1, <1>7 DEF AfterStart, Moves, Calls
  <2> QED
    BY <1>2, <1>3, <1>4, <1>7, <2>1, MoveKeeps DEF Inside, Locked
<1>8. CASE call[c].op = "setup"
  <2>1. PICK p \in {"join", "go"} :
            /\ call'[c].pc = p /\ call'[c].op = "defaults"
            /\ \A d \in Clients \ {c} : call'[d] = call[d]
    BY <1>1, <1>8 DEF AfterStart, Calls
  <2> QED
    BY <1>2, <1>3, <1>4, <1>8, <2>1, MoveKeeps DEF Inside, Locked
<1> QED
  BY <1>5, <1>6, <1>7, <1>8

LEMMA ClientStepFits ==
    ASSUME Fit, Orderly', NEW c \in Clients, ClientStep(c)
    PROVE  InOrder'
BY AcquireFits, JoinFits, RefusalFits, GoFits, GoConfigureFits, FinishParkFits, AfterStartFits
   DEF ClientStep

--------------------------------------------------------------------------------
(* Together.                                                               *)

\* Disorder, once it has come, stays.
LEMMA OrderlyBefore == TypeOK /\ Next /\ Orderly' => Orderly
<1> SUFFICES ASSUME TypeOK, Next PROVE past.late \/ past.crossed => past'.late \/ past'.crossed
  BY DEF Orderly
<1>1. past \in Past
  BY TypeOKIs
<1>2. ASSUME NEW w \in Threads, ThreadStep(w)
      PROVE  past'.late = past.late /\ past'.crossed = past.crossed
  BY <1>1, <1>2 DEF Past, ThreadStep, Begin, CheckReady, LeaveLoop, SetPosition, OutOfRange,
                    ManualWait, End, Failed
<1>3. ASSUME NEW a \in Threads \cup Clients, TakeRewinding(a) \/ EndRewinding(a)
      PROVE  past'.late = past.late /\ past'.crossed = past.crossed
  BY <1>1, <1>3 DEF Past, TakeRewinding, EndRewinding, Resumes, Failed
<1>4. ASSUME NEW c \in Clients, Request(c)
      PROVE  past'.late = past.late /\ (past.crossed => past'.crossed)
  BY <1>1, <1>4 DEF Past, Request, StopUpdating, Setup, CallSetPosition, StartUpdating, Park,
                    SetOffset, SetConfiguration, SetRewindingMode, Rewind, Called
<1>5. ASSUME NEW c \in Clients, ClientStep(c)
      PROVE  (past.late => past'.late) /\ past'.crossed = past.crossed
  BY <1>1, <1>5 DEF Past, ClientStep, Acquire, Refuse, Join, Fail, FindParked, GoSetup, GoTo,
                    GoUpdate, GoOffset, GoConfigure, FinishPark, AfterStart, Failed, Started
<1> QED
  BY <1>2, <1>3, <1>4, <1>5 DEF Next

LEMMA InitHolds == Init => PositionerInvariant
<1> SUFFICES ASSUME Init PROVE PositionerInvariant
  OBVIOUS
<1>1. TypeOK
  BY InitTyped
<1>2. Alive = {}
  BY DEF Init, Alive, At
<1>3. \A c \in Clients : call[c].pc = "idle" /\ call[c].op = "stopUpdating"
  BY DEF Init, Idle
<1>4. ~control.updating /\ ~control.stop /\ ~control.mustUpdate
  BY FlagsLowered DEF Init
<1>5. StopAwaited /\ KnownPlaces
  BY <1>3, <1>4 DEF StopAwaited, KnownPlaces
<1>6. Apart /\ Holding /\ StartsAlone /\ Begun /\ OffsetDue
  BY <1>2, <1>3 DEF Apart, Holding, StartsAlone, Begun, OffsetDue, Busy, Inside, Starting, In
<1>7. OnlyLatest /\ ParkedStill /\ Told /\ ScanDue
  BY <1>2, <1>4 DEF OnlyLatest, ParkedStill, Told, ScanDue
<1>8. BornWatched
  BY DEF Init, BornWatched, At
<1> QED
  BY <1>1, <1>5, <1>6, <1>7, <1>8 DEF PositionerInvariant, Placed, InOrder

LEMMA NextKeeps == PositionerInvariant /\ [Next]_vars => PositionerInvariant'
<1> SUFFICES ASSUME PositionerInvariant, [Next]_vars PROVE PositionerInvariant'
  OBVIOUS
<1>1. Placed
  BY DEF PositionerInvariant
<1>2. CASE UNCHANGED vars
  <2>1. Placed'
    BY <1>1, <1>2 DEF vars, Placed, TypeOK, StopAwaited, KnownPlaces
  <2>2. InOrder => InOrder'
    BY <1>2 DEF vars, InOrder, Apart, Holding, OnlyLatest, StartsAlone, BornWatched, ParkedStill,
                Told, Begun, OffsetDue, ScanDue, Busy, Inside, Starting, In, Holds, Alive, At
  <2> QED
    BY <1>2, <2>1, <2>2 DEF vars, PositionerInvariant, Orderly
<1>3. CASE Next
  <2>1. Placed'
    <3>1. TypeOK'
      BY <1>1, <1>3, NextTyped DEF Placed
    <3>2. StopAwaited' /\ KnownPlaces'
      BY <1>1, <1>3, ThreadStepPlaced, RewindingPlaced, RequestPlaced, ClientStepPlaced DEF Next
    <3> QED
      BY <3>1, <3>2 DEF Placed
  <2>2. ASSUME Orderly' PROVE InOrder'
    <3>1. Fit
      BY <1>1, <1>3, <2>2, OrderlyBefore DEF PositionerInvariant, Fit, Placed
    <3> QED
      BY <1>3, <2>2, <3>1, ThreadStepFits, RewindingFits, RequestFits, ClientStepFits DEF Next
  <2> QED
    BY <2>1, <2>2 DEF PositionerInvariant
<1> QED
  BY <1>2, <1>3

LEMMA PositionerInvariantHolds == Spec => []PositionerInvariant
<1> QED
  BY InitHolds, NextKeeps, PTL DEF Spec

\* At most one thread moves the derotator, with any number of clients, as long as
\* nobody enters an operation that the general lock does not exclude and no call
\* of the derotator outlasts the wait of stopUpdating.
THEOREM OneMoverAlways == Spec => []OneMover
<1>1. PositionerInvariant => OneMover
  <2> SUFFICES ASSUME PositionerInvariant, Orderly PROVE Cardinality(Alive) <= 1
    BY DEF OneMover
  <2>1. OnlyLatest
    BY DEF PositionerInvariant, InOrder
  <2>2. CASE Alive = {}
    BY <2>2, FS_EmptySet
  <2>3. CASE Alive # {}
    <3>1. Alive = {thread.t}
      BY <2>1, <2>3 DEF OnlyLatest
    <3>2. Cardinality({thread.t}) = 1
      BY FS_Singleton
    <3> QED
      BY <3>1, <3>2
  <2> QED
    BY <2>2, <2>3
<1> QED
  BY <1>1, PositionerInvariantHolds, PTL

\* isUpdating is true while a thread is at work and only then, so that whoever
\* decides by it whether there is something to stop decides right.
THEOREM UpdatingTruthAlways == Spec => []UpdatingTruth
<1>1. PositionerInvariant => UpdatingTruth
  BY DEF PositionerInvariant, InOrder, Told, UpdatingTruth
<1> QED
  BY <1>1, PositionerInvariantHolds, PTL

\* getStatus reports a failure only of a scan whose thread ended by itself.
THEOREM FailureJustifiedAlways == Spec => []FailureJustified
<1>1. PositionerInvariant => FailureJustified
  <2> SUFFICES ASSUME PositionerInvariant, Orderly, lock.general = NoOne, setUp.device,
                      control.mustUpdate, ~control.updating
               PROVE  past.died
    BY DEF FailureJustified
  <2>1. Fit
    BY DEF PositionerInvariant, Fit
  <2>2. \A c \in Clients : call[c].pc # "started"
    <3> SUFFICES ASSUME NEW c \in Clients, call[c].pc = "started" PROVE FALSE
      OBVIOUS
    <3>1. ~Holds(c)
      BY PositionerBounds DEF Holds
    <3>2. call[c].op \notin Locked \cup {"setup", "park", "setOffset"}
      BY <2>1, <3>1 DEF Fit, InOrder, Holding, OffsetDue, Inside, In
    <3> QED
      BY <2>1, <3>2 DEF Fit, Placed, KnownPlaces
  <2> QED
    BY <2>1, <2>2, NobodyAlive DEF Fit, InOrder, ScanDue
<1> QED
  BY <1>1, PositionerInvariantHolds, PTL
================================================================================
