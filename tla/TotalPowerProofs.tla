---------------------------- MODULE TotalPowerProofs ----------------------------
(***************************************************************************)
(* Proofs about the total power backend: the types, and that the status    *)
(* bits of the command line say what the hardware does.  The second is     *)
(* proved of the outcomes of a command: whatever an exchange, a late       *)
(* answer or a reconnection does to them, they agree or are in doubt.      *)
(* Last, that the steps of the backend are steps of BackendStream.         *)
(***************************************************************************)
EXTENDS TotalPowerBackend, TLAPS

Lines == [status : {"connected", "connecting", "lost"}, timedout : BOOLEAN,
          reiniting : BOOLEAN, busy : BOOLEAN, suspend : BOOLEAN]

Boards == [state : {"idle", "suspended", "sampling"}, pending : Connections, data : Connections]

\* Boards the hardware can be in: without a job it has no data connection.
Quiet(b) == b.state = "idle" => b.pending # "open" /\ b.data # "open"

Outcomes == [line : Lines, board : Boards, doubt : BOOLEAN, faults : 0 .. MaxFaults, ok : BOOLEAN]

\* StatusAgrees, of an outcome.
Agrees(o) ==
    ~o.doubt =>
        /\ o.line.busy <=> (o.board.state # "idle")
        /\ o.line.busy => (o.line.suspend <=> (o.board.state = "suspended"))

Sound(o) == o \in Outcomes /\ Quiet(o.board) /\ Agrees(o)

BackendInvariant == TypeOK /\ StatusAgrees

--------------------------------------------------------------------------------
(* The hardware.                                                           *)

LEMMA EffectsTyped ==
    ASSUME NEW b \in Boards, Quiet(b)
    PROVE  /\ Started(b) \in Boards /\ Quiet(Started(b))
           /\ Resumed(b) \in Boards /\ Quiet(Resumed(b))
           /\ Suspended(b) \in Boards /\ Quiet(Suspended(b))
           /\ Stopped(b) \in Boards /\ Quiet(Stopped(b)) /\ Stopped(b).state = "idle"
<1>1. Started(b) \in Boards /\ Quiet(Started(b))
  BY DEF Boards, Quiet, Started, Connections
<1>2. Resumed(b) \in Boards /\ Quiet(Resumed(b))
  BY DEF Boards, Quiet, Resumed
<1>3. Suspended(b) \in Boards /\ Quiet(Suspended(b))
  BY DEF Boards, Quiet, Suspended
<1>4. Stopped(b) \in Boards /\ Quiet(Stopped(b)) /\ Stopped(b).state = "idle"
  BY DEF Boards, Quiet, Stopped, Hang, Connections
<1> QED
  BY <1>1, <1>2, <1>3, <1>4

\* What the commands make of a board that is at work, and of one that is not.
LEMMA EffectsOnState ==
    ASSUME NEW b \in Boards
    PROVE  /\ b.state = "idle" => Started(b).state = "suspended"
           /\ b.state = "idle" => Resumed(b).state = "idle" /\ Suspended(b).state = "idle"
           /\ b.state # "idle" => Resumed(b).state = "sampling"
           /\ b.state # "idle" => Suspended(b).state = "suspended"
BY DEF Boards, Started, Resumed, Suspended

--------------------------------------------------------------------------------
(* The command line.                                                       *)

\* A command is executed, or fails and leaves nothing wrong without a doubt.
LEMMA ExchangeSound ==
    ASSUME NEW o, Sound(o), o.ok, NEW done \in Boards, Quiet(done), NEW s \in Exchange(o, done)
    PROVE  \/ s = [o EXCEPT !.board = done]
           \/ ~s.ok /\ Sound(s) /\ s.line.busy = o.line.busy
<1>1. o \in Outcomes /\ Quiet(o.board) /\ Agrees(o)
  BY DEF Sound
<1>2. CASE s = [o EXCEPT !.board = done]
  BY <1>2
<1>3. CASE o.faults # MaxFaults /\ s = Fault(o)
  <2>1. o.faults + 1 \in 0 .. MaxFaults
    BY <1>1, <1>3, BackendBounds DEF Outcomes
  <2>2. s \in Outcomes /\ s.line = o.line /\ s.board = o.board /\ s.doubt = o.doubt /\ ~s.ok
    BY <1>1, <1>3, <2>1 DEF Outcomes, Fault
  <2> QED
    BY <1>1, <2>2 DEF Sound, Agrees
<1>4. ASSUME o.faults # MaxFaults, NEW b \in {o.board, done},
             \/ s = Fault([o EXCEPT !.board = b, !.doubt = @ \/ done # o.board,
                                    !.line.timedout = TRUE])
             \/ s = Fault([o EXCEPT !.board = b, !.doubt = @ \/ done # o.board,
                                    !.line.status = "lost"])
      PROVE  ~s.ok /\ Sound(s) /\ s.line.busy = o.line.busy
  <2>1. o.faults + 1 \in 0 .. MaxFaults
    BY <1>1, <1>4, BackendBounds DEF Outcomes
  <2>2. /\ [o.line EXCEPT !.timedout = TRUE] \in Lines
        /\ [o.line EXCEPT !.status = "lost"] \in Lines
    BY <1>1 DEF Outcomes, Lines
  <2>3. PICK l \in {[o.line EXCEPT !.timedout = TRUE], [o.line EXCEPT !.status = "lost"]} :
            s = [line |-> l, board |-> b, doubt |-> (o.doubt \/ done # o.board),
                 faults |-> o.faults + 1, ok |-> FALSE]
    BY <1>1, <1>4 DEF Outcomes, Fault
  <2>4. l \in Lines /\ l.busy = o.line.busy /\ l.suspend = o.line.suspend
    BY <1>1, <2>2, <2>3 DEF Outcomes, Lines
  <2>5. b \in Boards /\ Quiet(b)
    BY <1>1, <1>4 DEF Outcomes
  <2>6. s \in Outcomes /\ ~s.ok
    <3>1. (o.doubt \/ done # o.board) \in BOOLEAN
      BY <1>1 DEF Outcomes
    <3> QED
      BY <2>1, <2>3, <2>4, <2>5, <3>1 DEF Outcomes
  <2>7. s.line = l /\ s.board = b /\ s.doubt = (o.doubt \/ done # o.board)
    BY <2>3
  <2> QED
    BY <1>1, <1>4, <2>4, <2>5, <2>6, <2>7 DEF Sound, Agrees
<1> QED
  BY <1>2, <1>3, <1>4 DEF Exchange

\* After a reconnection the job is gone, or in doubt.
LEMMA ReconnectedSound ==
    ASSUME NEW o, Sound(o), o.ok, NEW r \in Reconnected(o)
    PROVE  Sound(r) /\ r.ok /\ ~r.line.busy
<1> DEFINE again == [o EXCEPT !.line.status = "connected"]
<1>1. o \in Outcomes /\ Quiet(o.board) /\ Agrees(o)
  BY DEF Sound
<1>2. Sound(again) /\ again.ok /\ again.board = o.board /\ again.line \in Lines
  <2>1. [o.line EXCEPT !.status = "connected"] \in Lines
    BY <1>1 DEF Outcomes, Lines
  <2> QED
    BY <1>1, <2>1 DEF Sound, Outcomes, Agrees, Lines
<1>3. PICK s \in Exchange(again, Stopped(o.board)) :
          r = [Sure(s) EXCEPT !.line.busy = FALSE, !.line.reiniting = TRUE, !.ok = TRUE]
  BY DEF Reconnected
<1>4. Stopped(o.board) \in Boards /\ Quiet(Stopped(o.board)) /\ Stopped(o.board).state = "idle"
  BY <1>1, EffectsTyped DEF Outcomes
<1>5. s \in Outcomes /\ Quiet(s.board) /\ (s.ok => s.board.state = "idle")
  <2>1. \/ s = [again EXCEPT !.board = Stopped(o.board)]
        \/ ~s.ok /\ Sound(s)
    <3> HIDE DEF again
    <3> QED
      BY <1>2, <1>3, <1>4, ExchangeSound
  <2>2. [again EXCEPT !.board = Stopped(o.board)] \in Outcomes
    <3> HIDE DEF again
    <3> QED
      BY <1>2, <1>4 DEF Sound, Outcomes
  <2>3. [again EXCEPT !.board = Stopped(o.board)].board = Stopped(o.board)
    <3> HIDE DEF again
    <3> QED
      BY <1>2 DEF Sound, Outcomes
  <2> QED
    BY <1>4, <2>1, <2>2, <2>3 DEF Sound
<1>6. [s.line EXCEPT !.busy = FALSE, !.reiniting = TRUE] \in Lines
  BY <1>5 DEF Outcomes, Lines
<1>7. r = [line |-> [s.line EXCEPT !.busy = FALSE, !.reiniting = TRUE], board |-> s.board,
           doubt |-> ~s.ok, faults |-> s.faults, ok |-> TRUE]
  BY <1>3, <1>5 DEF Outcomes, Sure
<1>8. r \in Outcomes /\ r.ok /\ ~r.line.busy /\ r.board = s.board /\ r.doubt = ~s.ok
  BY <1>5, <1>6, <1>7 DEF Outcomes, Lines
<1> QED
  BY <1>5, <1>8 DEF Sound, Agrees

\* The status of the connection is not part of what has to agree.
LEMMA LineSound ==
    ASSUME NEW p, Sound(p), NEW l \in Lines, NEW ok \in BOOLEAN,
           l.busy = p.line.busy, l.suspend = p.line.suspend
    PROVE  /\ Sound([p EXCEPT !.line = l, !.ok = ok])
           /\ [p EXCEPT !.line = l, !.ok = ok].line = l
           /\ [p EXCEPT !.line = l, !.ok = ok].ok = ok
<1> DEFINE q == [p EXCEPT !.line = l, !.ok = ok]
<1>1. p \in Outcomes
  BY DEF Sound
<1>2. q \in Outcomes /\ q.line = l /\ q.board = p.board /\ q.doubt = p.doubt /\ q.ok = ok
  BY <1>1 DEF Outcomes
<1> QED
  BY <1>1, <1>2 DEF Sound, Agrees

\* The connection and a late answer do not touch the job, but by a reconnection.
LEMMA ConnectionSound ==
    ASSUME NEW o, Sound(o), o.ok, NEW c \in CheckConnection(o)
    PROVE  Sound(c) /\ (c.line.busy => o.line.busy)
<1>1. ASSUME NEW a \in LateAnswer(o)
      PROVE  Sound(a) /\ a.ok /\ a.line.busy = o.line.busy
  <2>1. o \in Outcomes /\ o.line \in Lines
    BY DEF Sound, Outcomes
  <2>2. /\ [o.line EXCEPT !.timedout = FALSE] \in Lines
        /\ [o.line EXCEPT !.status = "lost"] \in Lines
    BY <2>1 DEF Lines
  <2>3. CASE a = o
    BY <2>3
  <2>4. CASE \E l \in {[o.line EXCEPT !.timedout = FALSE], [o.line EXCEPT !.status = "lost"]} :
                 a = [o EXCEPT !.line = l, !.ok = TRUE]
    <3>1. PICK l \in {[o.line EXCEPT !.timedout = FALSE], [o.line EXCEPT !.status = "lost"]} :
              a = [o EXCEPT !.line = l, !.ok = TRUE]
      BY <2>4
    <3>2. l \in Lines /\ l.busy = o.line.busy /\ l.suspend = o.line.suspend
      BY <2>1, <2>2, <3>1 DEF Lines
    <3> QED
      BY <3>1, <3>2, LineSound
  <2>5. \/ a = o
        \/ \E l \in {[o.line EXCEPT !.timedout = FALSE], [o.line EXCEPT !.status = "lost"]} :
               a = [o EXCEPT !.line = l, !.ok = TRUE]
    BY <2>1 DEF LateAnswer, Outcomes
  <2> QED
    BY <2>3, <2>4, <2>5
<1>2. PICK a \in LateAnswer(o) : c \in Connect(a)
  BY DEF CheckConnection
<1>3. Sound(a) /\ a.ok /\ a.line.busy = o.line.busy /\ a \in Outcomes /\ a.line \in Lines
  BY <1>1, <1>2 DEF Sound, Outcomes
<1> DEFINE closed == [a EXCEPT !.line.timedout = FALSE]
<1>4. Sound(closed) /\ closed.ok
  <2>1. [a.line EXCEPT !.timedout = FALSE] \in Lines
    BY <1>3 DEF Lines
  <2>2. closed = [a EXCEPT !.line = [a.line EXCEPT !.timedout = FALSE], !.ok = TRUE]
    BY <1>3 DEF Outcomes
  <2>3. /\ [a.line EXCEPT !.timedout = FALSE].busy = a.line.busy
        /\ [a.line EXCEPT !.timedout = FALSE].suspend = a.line.suspend
    BY <1>3 DEF Lines
  <2> QED
    BY <1>3, <2>1, <2>2, <2>3, LineSound
<1>5. CASE c \in Reconnected(closed)
  BY <1>4, <1>5, ReconnectedSound
<1>6. CASE c \notin Reconnected(closed)
  <2>1. \E l \in {a.line, [a.line EXCEPT !.timedout = FALSE],
                  [a.line EXCEPT !.timedout = FALSE, !.status = "connecting"]} :
            \/ c = [a EXCEPT !.line = l, !.ok = TRUE]
            \/ c = [a EXCEPT !.line = l, !.ok = FALSE]
    BY <1>2, <1>3, <1>6 DEF Connect, Outcomes
  <2>2. \A l \in {a.line, [a.line EXCEPT !.timedout = FALSE],
                  [a.line EXCEPT !.timedout = FALSE, !.status = "connecting"]} :
            l \in Lines /\ l.busy = a.line.busy /\ l.suspend = a.line.suspend
    BY <1>3 DEF Lines
  <2>3. PICK l \in Lines :
            /\ l.busy = a.line.busy /\ l.suspend = a.line.suspend
            /\ \/ c = [a EXCEPT !.line = l, !.ok = TRUE]
               \/ c = [a EXCEPT !.line = l, !.ok = FALSE]
    BY <2>1, <2>2
  <2>4. CASE c = [a EXCEPT !.line = l, !.ok = TRUE]
    <3>1. Sound(c) /\ c.line = l
      BY <1>3, <2>3, <2>4, LineSound
    <3> QED
      BY <1>3, <2>3, <3>1
  <2>5. CASE c = [a EXCEPT !.line = l, !.ok = FALSE]
    <3>1. Sound(c) /\ c.line = l
      BY <1>3, <2>3, <2>5, LineSound
    <3> QED
      BY <1>3, <2>3, <3>1
  <2> QED
    BY <2>3, <2>4, <2>5
<1> QED
  BY <1>5, <1>6

\* A command that failed leaves a sound outcome, and no job that was not there.
Failed(o, s) == ~s.ok /\ Sound(s) /\ (s.line.busy => o.line.busy)

LEMMA OneCommand ==
    ASSUME NEW o, Sound(o), o.ok, NEW c \in CheckConnection(o),
           NEW b \in Boards, Quiet(b), NEW s \in (IF c.ok THEN Exchange(c, b) ELSE {c})
    PROVE  (c.ok /\ Sound(c) /\ (c.line.busy => o.line.busy) /\ s = [c EXCEPT !.board = b] /\ s.ok)
              \/ Failed(o, s)
<1>1. Sound(c) /\ (c.line.busy => o.line.busy)
  BY ConnectionSound
<1>2. CASE ~c.ok
  BY <1>1, <1>2 DEF Failed
<1>3. CASE c.ok
  <2>1. \/ s = [c EXCEPT !.board = b]
        \/ ~s.ok /\ Sound(s) /\ s.line.busy = c.line.busy
    BY <1>1, <1>3, ExchangeSound
  <2>2. [c EXCEPT !.board = b].ok = c.ok
    BY <1>1 DEF Sound, Outcomes
  <2> QED
    BY <1>1, <1>3, <2>1, <2>2 DEF Failed
<1> QED
  BY <1>2, <1>3

\* A query leaves everything as sound as it was.
LEMMA QuerySound ==
    ASSUME NEW o, Sound(o), o.ok, NEW s \in Query(o)
    PROVE  Sound(s) /\ (s.line.busy => o.line.busy)
<1>1. PICK c \in CheckConnection(o) : s \in (IF c.ok THEN Exchange(c, c.board) ELSE {c})
  BY DEF Query, Command
<1>2. Sound(c) /\ c.board \in Boards /\ Quiet(c.board)
  BY ConnectionSound DEF Sound, Outcomes
<1>3. (s = [c EXCEPT !.board = c.board] /\ (c.line.busy => o.line.busy)) \/ Failed(o, s)
  BY <1>1, <1>2, OneCommand
<1>4. [c EXCEPT !.board = c.board] = c
  BY <1>2 DEF Sound, Outcomes
<1> QED
  BY <1>2, <1>3, <1>4 DEF Failed

\* The start of a job, with the bits it sets.
LEMMA StartSound ==
    ASSUME NEW o, Sound(o), o.ok, NEW s \in Start(o)
    PROVE  Sound(s)
<1>1. o \in Outcomes
  BY DEF Sound
<1>2. CASE o.line.busy
  <2>1. s = [o EXCEPT !.ok = FALSE]
    BY <1>2 DEF Start
  <2> QED
    BY <1>1, <2>1 DEF Sound, Outcomes, Agrees
<1>3. CASE ~o.line.busy
  <2>1. \E c \in CheckConnection(o) : \E t \in (IF c.ok THEN Exchange(c, Started(c.board)) ELSE {c}) :
            s = IF t.ok THEN [t EXCEPT !.line.busy = TRUE, !.line.suspend = TRUE] ELSE t
    <3>1. s \in {IF t.ok THEN [t EXCEPT !.line.busy = TRUE, !.line.suspend = TRUE] ELSE t :
                     t \in Command(o, Started)}
      BY <1>3 DEF Start
    <3>2. PICK t \in Command(o, Started) :
              s = IF t.ok THEN [t EXCEPT !.line.busy = TRUE, !.line.suspend = TRUE] ELSE t
      BY <3>1
    <3>3. \E c \in CheckConnection(o) : t \in (IF c.ok THEN Exchange(c, Started(c.board)) ELSE {c})
      BY <3>2 DEF Command
    <3> QED
      BY <3>2, <3>3
  <2>2. PICK c \in CheckConnection(o) : \E t \in (IF c.ok THEN Exchange(c, Started(c.board)) ELSE {c}) :
            s = IF t.ok THEN [t EXCEPT !.line.busy = TRUE, !.line.suspend = TRUE] ELSE t
    BY <2>1
  <2>3. PICK t \in (IF c.ok THEN Exchange(c, Started(c.board)) ELSE {c}) :
            s = IF t.ok THEN [t EXCEPT !.line.busy = TRUE, !.line.suspend = TRUE] ELSE t
    BY <2>2
  <2>4. Sound(c) /\ c.board \in Boards /\ Quiet(c.board) /\ c \in Outcomes /\ ~c.line.busy
    BY <1>3, ConnectionSound DEF Sound, Outcomes
  <2>5. Started(c.board) \in Boards /\ Quiet(Started(c.board))
    BY <2>4, EffectsTyped
  <2>6. (t = [c EXCEPT !.board = Started(c.board)] /\ t.ok) \/ Failed(o, t)
    BY <2>3, <2>4, <2>5, OneCommand
  <2>7. CASE Failed(o, t)
    BY <2>3, <2>7 DEF Failed
  <2>8. CASE t = [c EXCEPT !.board = Started(c.board)] /\ t.ok
    <3>1. [c.line EXCEPT !.busy = TRUE, !.suspend = TRUE] \in Lines
      BY <2>4 DEF Outcomes, Lines
    <3>2. s = [c EXCEPT !.board = Started(c.board),
                        !.line = [c.line EXCEPT !.busy = TRUE, !.suspend = TRUE]]
      BY <2>3, <2>4, <2>8 DEF Outcomes
    <3>3. s \in Outcomes /\ s.board = Started(c.board) /\ s.doubt = c.doubt
          /\ s.line.busy /\ s.line.suspend
      BY <2>4, <2>5, <3>1, <3>2 DEF Outcomes, Lines
    <3>4. ~c.doubt => Started(c.board).state = "suspended"
      BY <2>4, EffectsOnState DEF Sound, Agrees
    <3> QED
      BY <2>5, <3>3, <3>4 DEF Sound, Agrees
  <2> QED
    BY <2>6, <2>7, <2>8
<1> QED
  BY <1>2, <1>3

--------------------------------------------------------------------------------
(* The operations.  What is not in an outcome is typed on its own.         *)

CallersTyped ==
    /\ sender \in [pc : {"top", "check", "emit"}, go : BOOLEAN, stop : BOOLEAN, sending : BOOLEAN]
    /\ at \in [Callers -> {"idle", "latency", "resuming", "suspending", "waiting"}]
    /\ open \in BOOLEAN

LEMMA PresentSound ==
    ASSUME BackendInvariant
    PROVE  Sound(Present) /\ Present.ok /\ Present.line = line /\ CallersTyped
<1>1. TypeOK /\ StatusAgrees
  BY DEF BackendInvariant
<1>2. Present \in Outcomes /\ Present.ok /\ Present.line = line /\ Present.board = board
      /\ Present.doubt = doubt
  BY <1>1 DEF TypeOK, Present, Outcomes, Lines, Boards
<1>3. Quiet(board)
  BY <1>1 DEF TypeOK, Quiet
<1>4. CallersTyped
  BY <1>1 DEF TypeOK, CallersTyped
<1> QED
  BY <1>1, <1>2, <1>3, <1>4 DEF Sound, StatusAgrees, Agrees

LEMMA OutcomeKeeps ==
    ASSUME NEW o, Sound(o), Outcome(o), CallersTyped'
    PROVE  BackendInvariant'
<1>1. /\ o.line \in Lines /\ o.board \in Boards /\ o.doubt \in BOOLEAN
      /\ o.faults \in 0 .. MaxFaults /\ Quiet(o.board) /\ Agrees(o)
  BY DEF Sound, Outcomes
<1>2. line' = o.line /\ board' = o.board /\ doubt' = o.doubt /\ faults' = o.faults
  BY DEF Outcome
<1>3. board'.state = "idle" => "open" \notin {board'.pending, board'.data}
  BY <1>1, <1>2 DEF Quiet
<1>4. TypeOK'
  BY <1>1, <1>2, <1>3 DEF TypeOK, CallersTyped, Lines, Boards
<1>5. StatusAgrees'
  BY <1>1, <1>2 DEF Agrees, StatusAgrees
<1> QED
  BY <1>4, <1>5 DEF BackendInvariant

LEMMA GoesTyped ==
    ASSUME CallersTyped, NEW c \in Callers,
           NEW place \in {"idle", "latency", "resuming", "suspending", "waiting"}, Goes(c, place)
    PROVE  at' \in [Callers -> {"idle", "latency", "resuming", "suspending", "waiting"}]
BY DEF CallersTyped, Goes

LEMMA SendHeaderKeeps ==
    ASSUME BackendInvariant, NEW c \in Callers, SendHeader(c)
    PROVE  BackendInvariant'
<1>1. CallersTyped'
  BY PresentSound DEF SendHeader, CallersTyped
<1>2. PICK t \in Query(Present) :
        \E z \in IF t.ok THEN Query(t) ELSE {t} :
           \E s \in IF z.ok THEN Start(z) ELSE {z} : Outcome(s)
  BY DEF SendHeader
<1>3. PICK z \in IF t.ok THEN Query(t) ELSE {t} :
        \E s \in IF z.ok THEN Start(z) ELSE {z} : Outcome(s)
  BY <1>2
<1>4. PICK s \in IF z.ok THEN Start(z) ELSE {z} : Outcome(s)
  BY <1>3
<1>5. Sound(t)
  BY <1>2, PresentSound, QuerySound
<1>6. Sound(z)
  BY <1>3, <1>5, QuerySound
<1>7. Sound(s)
  BY <1>4, <1>6, StartSound
<1> QED
  BY <1>1, <1>4, <1>7, OutcomeKeeps

LEMMA TerminateKeeps ==
    ASSUME BackendInvariant, NEW c \in Callers, Terminate(c)
    PROVE  BackendInvariant'
<1>1. CallersTyped'
  BY PresentSound DEF Terminate, CallersTyped
<1>2. PICK s \in Command(Present, Stopped) :
          Outcome(IF s.ok THEN [Sure(s) EXCEPT !.line.busy = FALSE, !.line.suspend = FALSE]
                  ELSE s)
  BY DEF Terminate
<1>3. PICK p \in CheckConnection(Present) :
          s \in (IF p.ok THEN Exchange(p, Stopped(p.board)) ELSE {p})
  BY <1>2 DEF Command
<1>4. Sound(p) /\ p \in Outcomes /\ p.board \in Boards /\ Quiet(p.board)
  BY <1>3, PresentSound, ConnectionSound DEF Sound, Outcomes
<1>5. Stopped(p.board) \in Boards /\ Quiet(Stopped(p.board)) /\ Stopped(p.board).state = "idle"
  BY <1>4, EffectsTyped
<1>6. (s = [p EXCEPT !.board = Stopped(p.board)] /\ s.ok) \/ Failed(Present, s)
  BY <1>3, <1>4, <1>5, PresentSound, OneCommand
<1>7. CASE Failed(Present, s)
  BY <1>1, <1>2, <1>7, OutcomeKeeps DEF Failed
<1>8. CASE s = [p EXCEPT !.board = Stopped(p.board)] /\ s.ok
  <2> DEFINE e == [Sure(s) EXCEPT !.line.busy = FALSE, !.line.suspend = FALSE]
  <2>1. [p.line EXCEPT !.busy = FALSE, !.suspend = FALSE] \in Lines
    BY <1>4 DEF Outcomes, Lines
  <2>2. e = [p EXCEPT !.board = Stopped(p.board), !.doubt = FALSE,
                      !.line = [p.line EXCEPT !.busy = FALSE, !.suspend = FALSE]]
    BY <1>4, <1>8 DEF Outcomes, Sure
  <2>3. e \in Outcomes /\ e.board = Stopped(p.board) /\ ~e.line.busy
    BY <1>4, <1>5, <2>1, <2>2 DEF Outcomes, Lines
  <2>4. Sound(e)
    BY <1>5, <2>3 DEF Sound, Agrees
  <2>5. Outcome(e)
    BY <1>2, <1>8
  <2> QED
    BY <1>1, <2>4, <2>5, OutcomeKeeps
<1> QED
  BY <1>6, <1>7, <1>8

\* A command that resumes or suspends, with the bit it sets.
LEMMA TurnSound ==
    ASSUME NEW p, Sound(p), NEW b \in Boards, Quiet(b), NEW suspend \in BOOLEAN,
           p.board.state = "idle" => b.state = "idle",
           p.board.state # "idle" => b.state = IF suspend THEN "suspended" ELSE "sampling",
           NEW s, s = [p EXCEPT !.board = b],
           NEW e, e = [s EXCEPT !.line.suspend = suspend]
    PROVE  Sound(e)
<1>1. p \in Outcomes
  BY DEF Sound
<1>2. [p.line EXCEPT !.suspend = suspend] \in Lines
  BY <1>1 DEF Outcomes, Lines
<1>3. e = [p EXCEPT !.board = b, !.line = [p.line EXCEPT !.suspend = suspend]]
  BY <1>1 DEF Outcomes
<1>4. e \in Outcomes /\ e.board = b /\ e.line.busy = p.line.busy /\ e.line.suspend = suspend
      /\ e.doubt = p.doubt
  BY <1>1, <1>2, <1>3 DEF Outcomes, Lines
<1> QED
  BY <1>4 DEF Sound, Agrees

LEMMA ResumeAcquisitionKeeps ==
    ASSUME BackendInvariant, NEW c \in Callers, ResumeAcquisition(c)
    PROVE  BackendInvariant'
<1>1. PICK s \in Command(Present, Resumed) :
          /\ Outcome(IF s.ok THEN [s EXCEPT !.line.suspend = FALSE] ELSE s)
          /\ Goes(c, IF s.ok THEN "resuming" ELSE "idle")
  BY DEF ResumeAcquisition
<1>2. CallersTyped'
  <2>1. sender' = sender /\ open' = open
    BY DEF ResumeAcquisition
  <2>2. Goes(c, "resuming") \/ Goes(c, "idle")
    BY <1>1
  <2>3. at' \in [Callers -> {"idle", "latency", "resuming", "suspending", "waiting"}]
    BY <2>2, PresentSound, GoesTyped
  <2> QED
    BY <2>1, <2>3, PresentSound DEF CallersTyped
<1>3. PICK p \in CheckConnection(Present) :
          s \in (IF p.ok THEN Exchange(p, Resumed(p.board)) ELSE {p})
  BY <1>1 DEF Command
<1>4. Sound(p) /\ p.board \in Boards /\ Quiet(p.board)
  BY <1>3, PresentSound, ConnectionSound DEF Sound, Outcomes
<1>5. /\ Resumed(p.board) \in Boards /\ Quiet(Resumed(p.board))
      /\ p.board.state = "idle" => Resumed(p.board).state = "idle"
      /\ p.board.state # "idle" => Resumed(p.board).state = "sampling"
  BY <1>4, EffectsTyped, EffectsOnState
<1>6. (s = [p EXCEPT !.board = Resumed(p.board)] /\ s.ok) \/ Failed(Present, s)
  BY <1>3, <1>4, <1>5, PresentSound, OneCommand
<1>7. CASE Failed(Present, s)
  BY <1>1, <1>2, <1>7, OutcomeKeeps DEF Failed
<1>8. CASE s = [p EXCEPT !.board = Resumed(p.board)] /\ s.ok
  <2>1. Sound([s EXCEPT !.line.suspend = FALSE])
    BY <1>4, <1>5, <1>8, TurnSound
  <2>2. Outcome([s EXCEPT !.line.suspend = FALSE])
    BY <1>1, <1>8
  <2> QED
    BY <1>2, <2>1, <2>2, OutcomeKeeps
<1> QED
  BY <1>6, <1>7, <1>8

LEMMA BeginSendStopKeeps ==
    ASSUME BackendInvariant, NEW c \in Callers, BeginSendStop(c)
    PROVE  BackendInvariant'
<1>1. PICK s \in Command(Present, Suspended) :
          /\ Outcome(IF s.ok THEN [s EXCEPT !.line.suspend = TRUE] ELSE s)
          /\ Goes(c, IF s.ok THEN "suspending" ELSE "idle")
  BY DEF BeginSendStop
<1>2. CallersTyped'
  <2>1. sender' = sender /\ open' = open
    BY DEF BeginSendStop
  <2>2. Goes(c, "suspending") \/ Goes(c, "idle")
    BY <1>1
  <2>3. at' \in [Callers -> {"idle", "latency", "resuming", "suspending", "waiting"}]
    BY <2>2, PresentSound, GoesTyped
  <2> QED
    BY <2>1, <2>3, PresentSound DEF CallersTyped
<1>3. PICK p \in CheckConnection(Present) :
          s \in (IF p.ok THEN Exchange(p, Suspended(p.board)) ELSE {p})
  BY <1>1 DEF Command
<1>4. Sound(p) /\ p.board \in Boards /\ Quiet(p.board)
  BY <1>3, PresentSound, ConnectionSound DEF Sound, Outcomes
<1>5. /\ Suspended(p.board) \in Boards /\ Quiet(Suspended(p.board))
      /\ p.board.state = "idle" => Suspended(p.board).state = "idle"
      /\ p.board.state # "idle" => Suspended(p.board).state = "suspended"
  BY <1>4, EffectsTyped, EffectsOnState
<1>6. (s = [p EXCEPT !.board = Suspended(p.board)] /\ s.ok) \/ Failed(Present, s)
  BY <1>3, <1>4, <1>5, PresentSound, OneCommand
<1>7. CASE Failed(Present, s)
  BY <1>1, <1>2, <1>7, OutcomeKeeps DEF Failed
<1>8. CASE s = [p EXCEPT !.board = Suspended(p.board)] /\ s.ok
  <2>1. Sound([s EXCEPT !.line.suspend = TRUE])
    BY <1>4, <1>5, <1>8, TurnSound
  <2>2. Outcome([s EXCEPT !.line.suspend = TRUE])
    BY <1>1, <1>8
  <2> QED
    BY <1>2, <2>1, <2>2, OutcomeKeeps
<1> QED
  BY <1>6, <1>7, <1>8

\* The steps of an operation that do not talk to the hardware.
LEMMA CallerKeeps ==
    ASSUME BackendInvariant, NEW c \in Callers,
           BeginSendData(c) \/ ResumeTransfer(c) \/ SuspendTransfer(c) \/ SendStopReturns(c)
    PROVE  BackendInvariant'
<1>1. TypeOK /\ StatusAgrees /\ UNCHANGED <<line, board, open, doubt, faults>>
  BY DEF BackendInvariant, BeginSendData, ResumeTransfer, SuspendTransfer, SendStopReturns
<1>2. at' \in [Callers -> {"idle", "latency", "resuming", "suspending", "waiting"}]
  BY PresentSound, GoesTyped
     DEF BeginSendData, ResumeTransfer, SuspendTransfer, SendStopReturns
<1>3. sender' \in [pc : {"top", "check", "emit"}, go : BOOLEAN, stop : BOOLEAN, sending : BOOLEAN]
  BY <1>1 DEF TypeOK, BeginSendData, ResumeTransfer, SuspendTransfer, SendStopReturns
<1>4. TypeOK'
  BY <1>1, <1>2, <1>3 DEF TypeOK
<1>5. StatusAgrees'
  BY <1>1 DEF StatusAgrees
<1> QED
  BY <1>4, <1>5 DEF BackendInvariant

LEMMA CheckTimeKeeps ==
    ASSUME BackendInvariant, CheckTime
    PROVE  BackendInvariant'
<1>1. PICK q \in Query(Present) : Outcome(q)
  BY DEF CheckTime
<1>2. CallersTyped'
  BY PresentSound DEF CheckTime, CallersTyped
<1> QED
  BY <1>1, <1>2, PresentSound, QuerySound, OutcomeKeeps

LEMMA OnConnectKeeps ==
    ASSUME BackendInvariant, OnConnect
    PROVE  BackendInvariant'
<1>1. CallersTyped'
  BY PresentSound DEF OnConnect, CallersTyped
<1>2. CASE \E r \in Reconnected(Present) : Outcome(r)
  BY <1>1, <1>2, PresentSound, ReconnectedSound, OutcomeKeeps
<1>3. CASE /\ faults < MaxFaults
           /\ line' = [line EXCEPT !.status = "lost"]
           /\ faults' = faults + 1
           /\ UNCHANGED <<board, doubt>>
  <2>1. TypeOK /\ StatusAgrees
    BY DEF BackendInvariant
  <2>2. faults' \in 0 .. MaxFaults
    BY <1>3, <2>1, BackendBounds DEF TypeOK
  <2>3. line' \in Lines /\ line'.busy = line.busy /\ line'.suspend = line.suspend
    BY <1>3, <2>1 DEF TypeOK, Lines
  <2>4. TypeOK'
    BY <1>1, <1>3, <2>1, <2>2, <2>3 DEF TypeOK, CallersTyped, Lines
  <2>5. StatusAgrees'
    BY <1>3, <2>1, <2>3 DEF StatusAgrees
  <2> QED
    BY <2>4, <2>5 DEF BackendInvariant
<1> QED
  BY <1>2, <1>3 DEF OnConnect

--------------------------------------------------------------------------------
\* The sender thread takes the data connection, and leaves the job alone.
LEMMA SenderKeeps ==
    ASSUME BackendInvariant, Sender
    PROVE  BackendInvariant'
<1>1. TypeOK /\ StatusAgrees /\ UNCHANGED <<at, doubt, faults>>
  BY DEF BackendInvariant, Sender, Reinit, Accept, Receive, HangUp, HandleStop, StopSend
<1>2. line' \in Lines /\ line'.busy = line.busy /\ line'.suspend = line.suspend
  <2>1. line \in Lines
    BY <1>1 DEF TypeOK, Lines
  <2>2. CASE Reinit
    <3>1. line' = [line EXCEPT !.reiniting = FALSE]
      BY <2>2 DEF Reinit
    <3> QED
      BY <2>1, <3>1 DEF Lines
  <2>3. CASE UNCHANGED line
    BY <2>1, <2>3
  <2> QED
    BY <2>2, <2>3 DEF Sender, Accept, Receive, HangUp, HandleStop, StopSend
<1>3. board' \in Boards /\ board'.state = board.state
      /\ (board.state = "idle" => "open" \notin {board'.pending, board'.data})
  BY <1>1 DEF TypeOK, Boards, Connections, Sender, Reinit, Accept, Receive, HangUp, HandleStop, StopSend
<1>4. sender' \in [pc : {"top", "check", "emit"}, go : BOOLEAN, stop : BOOLEAN, sending : BOOLEAN]
  <2> DEFINE Flags == [pc : {"top", "check", "emit"}, go : BOOLEAN, stop : BOOLEAN,
                       sending : BOOLEAN]
  <2>1. sender \in Flags
    BY <1>1 DEF TypeOK
  <2>2. CASE Reinit
    BY <2>1, <2>2 DEF Reinit
  <2>3. CASE Accept
    BY <2>1, <2>3 DEF Accept, Checks
  <2>4. CASE Receive
    BY <2>1, <2>4 DEF Receive, Checks
  <2>5. CASE HangUp
    BY <2>1, <2>5 DEF HangUp, Checks
  <2>6. CASE HandleStop
    BY <2>1, <2>6 DEF HandleStop
  <2>7. CASE StopSend
    BY <2>1, <2>7 DEF StopSend
  <2> QED
    BY <2>2, <2>3, <2>4, <2>5, <2>6, <2>7 DEF Sender
<1>5. open' \in BOOLEAN
  BY <1>1 DEF TypeOK, Sender, Reinit, Accept, Receive, HangUp, HandleStop, StopSend
<1>6. TypeOK'
  BY <1>1, <1>2, <1>3, <1>4, <1>5 DEF TypeOK, Lines, Boards
<1>7. StatusAgrees'
  BY <1>1, <1>2, <1>3 DEF StatusAgrees
<1> QED
  BY <1>6, <1>7 DEF BackendInvariant

LEMMA BackendInvariantHolds == Spec => []BackendInvariant
<1>1. Init => BackendInvariant
  <2> SUFFICES ASSUME Init
               PROVE  BackendInvariant
    OBVIOUS
  <2>1. line \in Lines /\ board \in Boards /\ board.pending = "none" /\ board.data = "none"
    BY DEF Init, Lines, Boards, Connections
  <2>2. open \in BOOLEAN /\ doubt \in BOOLEAN
    BY Zenon DEF Init
  <2>3. faults \in 0 .. MaxFaults
    BY BackendBounds DEF Init
  <2>4. /\ sender \in [pc : {"top", "check", "emit"}, go : BOOLEAN, stop : BOOLEAN, sending : BOOLEAN]
        /\ at \in [Callers -> {"idle", "latency", "resuming", "suspending", "waiting"}]
    BY DEF Init
  <2>5. TypeOK
    BY <2>1, <2>2, <2>3, <2>4 DEF TypeOK, Lines, Boards
  <2>6. StatusAgrees
    BY DEF Init, StatusAgrees
  <2> QED
    BY <2>5, <2>6 DEF BackendInvariant
<1>2. BackendInvariant /\ [Next]_vars => BackendInvariant'
  <2> SUFFICES ASSUME BackendInvariant, [Next]_vars
               PROVE  BackendInvariant'
    OBVIOUS
  <2>1. ASSUME NEW c \in Callers, Operation(c)
        PROVE  BackendInvariant'
    BY <2>1, SendHeaderKeeps, TerminateKeeps, ResumeAcquisitionKeeps, BeginSendStopKeeps,
       CallerKeeps DEF Operation
  <2>2. CASE UNCHANGED vars
    BY <2>2 DEF vars, BackendInvariant, TypeOK, StatusAgrees
  <2> QED
    BY <2>1, <2>2, SenderKeeps, CheckTimeKeeps, OnConnectKeeps DEF Next
<1> QED
  BY <1>1, <1>2, PTL DEF Spec

\* The line, the hardware and the sender thread stay in their domains, for any number
\* of callers and of faults; an idle hardware has no data connection.
THEOREM BackendTypeCorrect == Spec => []TypeOK
BY BackendInvariantHolds, PTL DEF BackendInvariant

\* The busy and suspend bits of the command line say what the hardware does, after any
\* sequence of commands refused, answered late or cut off by a reconnection, unless a
\* command was left in doubt.
THEOREM StatusAgreesAlways == Spec => []StatusAgrees
BY BackendInvariantHolds, PTL DEF BackendInvariant

--------------------------------------------------------------------------------
(* The stream of the dumps.                                                *)

\* What was sent to the receiver is known to the sender thread, which will end it.
DumpsKnown == open => sender.sending

LEMMA DumpsKnownKept ==
    ASSUME BackendInvariant, DumpsKnown, [Next]_vars
    PROVE  DumpsKnown'
<1>1. sender \in [pc : {"top", "check", "emit"}, go : BOOLEAN, stop : BOOLEAN, sending : BOOLEAN]
  BY DEF BackendInvariant, TypeOK
<1>2. CASE Sender
  BY <1>1, <1>2
     DEF Sender, Reinit, Accept, Receive, HangUp, HandleStop, StopSend, Checks, DumpsKnown
<1>3. CASE UNCHANGED <<sender, open>>
  BY <1>3 DEF DumpsKnown
<1>4. ASSUME NEW c \in Callers, ResumeTransfer(c) \/ SuspendTransfer(c)
      PROVE  DumpsKnown'
  BY <1>1, <1>4 DEF ResumeTransfer, SuspendTransfer, DumpsKnown
<1> QED
  BY <1>2, <1>3, <1>4
     DEF Next, Operation, SendHeader, Terminate, BeginSendData, ResumeAcquisition,
         BeginSendStop, SendStopReturns, CheckTime, OnConnect, vars

\* The callers that wait in sendStop for m_stop to go down, and what is not stopped yet.
Waiting == {c \in Callers : at[c] = "waiting" /\ sender.stop}
Flowing == open /\ ~SenderAt("emit")

\* A step of the stream, or none, in the words of the backend.
StreamStep ==
    \/ sender.go' = TRUE /\ Flowing' = Flowing /\ Waiting' = Waiting
    \/ sender.go /\ Flowing' = TRUE /\ sender.go' = sender.go /\ Waiting' = Waiting
    \/ /\ \E callers \in SUBSET Callers : Waiting' = Waiting \cup callers
       /\ sender.go' = sender.go /\ Flowing' = Flowing
    \/ sender.go' = FALSE /\ Flowing' = FALSE /\ Waiting' = {}
    \/ sender.go' = sender.go /\ Flowing' = Flowing /\ Waiting' = Waiting

LEMMA StreamSteps ==
    ASSUME StreamStep
    PROVE  [Stream!Next]_(Stream!stream)
BY DEF StreamStep, Flowing, Waiting, Stream!Next, Stream!Resume, Stream!SendDump, Stream!Ask,
       Stream!Suspend, Stream!stream

\* Raising m_stop only adds callers to those who wait for it to go down.
LEMMA StopRaised ==
    ASSUME sender'.stop, sender'.go = sender.go, Flowing' = Flowing,
           \A c \in Callers : at[c] = "waiting" => at'[c] = "waiting"
    PROVE  StreamStep
<1> DEFINE now == {c \in Callers : at'[c] = "waiting"}
<1>1. Waiting' = Waiting \cup now /\ now \in SUBSET Callers
  BY DEF Waiting
<1>2. \E callers \in SUBSET Callers : Waiting' = Waiting \cup callers
  BY <1>1
<1> QED
  BY <1>2 DEF StreamStep

\* The loop of the sender thread: the stop is answered where m_go and m_stop go down,
\* and what is sent after that ends what was answered.
LEMMA SenderStreams ==
    ASSUME BackendInvariant, DumpsKnown, Sender
    PROVE  StreamStep
<1>1. sender \in [pc : {"top", "check", "emit"}, go : BOOLEAN, stop : BOOLEAN, sending : BOOLEAN]
  BY DEF BackendInvariant, TypeOK
<1>2. CASE Reinit
  <2>1. /\ sender'.stop /\ sender'.go = sender.go /\ sender'.pc = sender.pc
        /\ UNCHANGED <<at, open>>
    BY <1>1, <1>2 DEF Reinit
  <2> QED
    BY <2>1, StopRaised DEF Flowing, SenderAt
<1>3. CASE HangUp
  <2>1. /\ sender'.stop /\ sender'.go = sender.go /\ UNCHANGED <<at, open>>
        /\ sender.pc = "top" /\ sender'.pc = "check"
    BY <1>1, <1>3 DEF HangUp, Checks, SenderAt
  <2> QED
    BY <2>1, StopRaised DEF Flowing, SenderAt
<1>4. CASE Accept
  BY <1>1, <1>4 DEF Accept, Checks, SenderAt, StreamStep, Flowing, Waiting
<1>5. CASE Receive
  <2>1. /\ sender'.go = sender.go /\ sender'.stop = sender.stop /\ UNCHANGED at
        /\ sender.pc = "top" /\ sender'.pc = "check"
        /\ open' = open \/ (sender.go /\ open')
    BY <1>1, <1>5 DEF Receive, Checks, SenderAt
  <2> QED
    BY <2>1 DEF StreamStep, Flowing, Waiting, SenderAt
<1>6. CASE HandleStop /\ sender.stop
  <2>1. ~sender'.go /\ ~sender'.stop /\ sender'.pc = "emit"
    BY <1>1, <1>6 DEF HandleStop
  <2> QED
    BY <2>1 DEF StreamStep, Flowing, Waiting, SenderAt
<1>7. CASE HandleStop /\ ~sender.stop
  <2>1. /\ sender'.go = sender.go /\ sender'.stop = sender.stop /\ UNCHANGED <<at, open>>
        /\ sender.pc = "check" /\ sender'.pc = "top"
    BY <1>1, <1>7 DEF HandleStop, SenderAt
  <2> QED
    BY <2>1 DEF StreamStep, Flowing, Waiting, SenderAt
<1>8. CASE StopSend
  <2>1. /\ sender'.go = sender.go /\ sender'.stop = sender.stop /\ UNCHANGED at
        /\ sender.pc = "emit" /\ ~open'
    BY <1>1, <1>8 DEF StopSend, SenderAt, DumpsKnown
  <2> QED
    BY <2>1 DEF StreamStep, Flowing, Waiting, SenderAt
<1> QED
  BY <1>2, <1>3, <1>4, <1>5, <1>6, <1>7, <1>8 DEF Sender

\* An operation goes somewhere else than to the wait of sendStop.
LEMMA CallerStreams ==
    ASSUME BackendInvariant, NEW c \in Callers, Operation(c)
    PROVE  StreamStep
<1>1. /\ sender \in [pc : {"top", "check", "emit"}, go : BOOLEAN, stop : BOOLEAN,
                     sending : BOOLEAN]
      /\ at \in [Callers -> {"idle", "latency", "resuming", "suspending", "waiting"}]
  BY DEF BackendInvariant, TypeOK
<1>2. ASSUME NEW place, place # "waiting", Goes(c, place), at[c] # "waiting" \/ ~sender.stop,
             sender'.stop = sender.stop
      PROVE  Waiting' = Waiting
  BY <1>1, <1>2 DEF Goes, Waiting
<1>3. CASE SendHeader(c) \/ Terminate(c)
  <2>1. UNCHANGED <<sender, at, open>>
    BY <1>3 DEF SendHeader, Terminate
  <2> QED
    BY <2>1 DEF StreamStep, Flowing, Waiting, SenderAt
<1>4. CASE BeginSendData(c) \/ ResumeAcquisition(c) \/ BeginSendStop(c) \/ SendStopReturns(c)
  <2>1. UNCHANGED <<sender, open>>
    BY <1>4 DEF BeginSendData, ResumeAcquisition, BeginSendStop, SendStopReturns
  <2>2. /\ \E place \in {"idle", "latency", "resuming", "suspending"} : Goes(c, place)
        /\ at[c] # "waiting" \/ ~sender.stop
    BY <1>4 DEF BeginSendData, ResumeAcquisition, BeginSendStop, SendStopReturns
  <2>3. Waiting' = Waiting
    BY <1>2, <2>1, <2>2
  <2> QED
    BY <2>1, <2>3 DEF StreamStep, Flowing, SenderAt
<1>5. CASE ResumeTransfer(c)
  <2>1. /\ Goes(c, "idle") /\ at[c] # "waiting" /\ UNCHANGED open
        /\ sender'.go = TRUE /\ sender'.stop = sender.stop /\ sender'.pc = sender.pc
    BY <1>1, <1>5 DEF ResumeTransfer
  <2>2. Waiting' = Waiting
    BY <1>2, <2>1
  <2> QED
    BY <2>1, <2>2 DEF StreamStep, Flowing, SenderAt
<1>6. CASE SuspendTransfer(c)
  <2>1. /\ sender'.stop /\ sender'.go = sender.go /\ sender'.pc = sender.pc /\ UNCHANGED open
        /\ \A d \in Callers : at[d] = "waiting" => at'[d] = "waiting"
    BY <1>1, <1>6 DEF SuspendTransfer, Goes
  <2> QED
    BY <2>1, StopRaised DEF Flowing, SenderAt
<1> QED
  BY <1>3, <1>4, <1>5, <1>6 DEF Operation

\* Dumps go to the receiver only after sendData, and who asks in sendStop that they cease
\* is answered by a stop that ends what the receiver got, whoever else calls, and however
\* the hardware and the connection behave: every step of the backend is a step of the
\* stream that GenericBackend.idl promises, or none.
THEOREM StreamImplemented == Spec => Stream!Spec
<1>1. Init => Stream!Init /\ DumpsKnown
  BY DEF Init, Stream!Init, DumpsKnown
<1>2. ASSUME BackendInvariant, DumpsKnown, [Next]_vars
      PROVE  StreamStep
  <2>1. CASE CheckTime \/ OnConnect \/ UNCHANGED vars
    BY <2>1 DEF CheckTime, OnConnect, vars, StreamStep, Flowing, Waiting, SenderAt
  <2> QED
    BY <1>2, <2>1, SenderStreams, CallerStreams DEF Next
<1>3. ASSUME BackendInvariant, DumpsKnown, [Next]_vars
      PROVE  DumpsKnown' /\ [Stream!Next]_(Stream!stream)
  BY <1>2, <1>3, DumpsKnownKept, StreamSteps
<1> QED
  BY <1>1, <1>3, BackendInvariantHolds, PTL DEF Spec, Stream!Spec
================================================================================
