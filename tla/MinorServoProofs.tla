----------------------------- MODULE MinorServoProofs -----------------------------
(***************************************************************************)
(* Proofs about the boss of the minor servos: the types, that a scan has   *)
(* its servo for itself, and that the tracking is what its flag says.  The *)
(* second needs to be known of every state: a scan thread exists only      *)
(* between the operations of the scheduler, under both flags of the scan;  *)
(* and if nobody has joined the scan, no setup is on its way, and who is   *)
(* under way will only turn the tracking off.  The third is true at rest   *)
(* only; TruthInvariant says what holds at each place of an operation that *)
(* nothing has crossed, and what an operation may rely on when it settles  *)
(* a doubt.                                                                *)
(***************************************************************************)
EXTENDS MinorServoBoss, TLAPS

\* The flags of the scan cover it, and a scan thread exists only between the operations.
ScanFlagged ==
    /\ scan.call \in {"starting", "stopping", "beginning"} => flags.locked
    /\ scan.call \in {"closing", "restoring"} => flags.active
    /\ scan.thread # "none" => scan.call = "none" /\ flags.locked /\ flags.active

\* From startScan to the end of the scan thread.
ScanCommanded == scan.call \in {"starting", "stopping", "beginning"} \/ scan.thread # "none"

\* If nobody has joined a scan no setup is on its way, and who is under way is about to
\* turn the tracking off.
Harmless(c) ==
    call[c].op # "none" =>
        /\ call[c].op \in {"off", "park"} /\ call[c].at \in {"look", "stop", "raise"}
        /\ call[c].at = "look" => ~flags.enabled

ScanUnjoined ==
    ScanCommanded /\ ~past.joined =>
        /\ setup = "none"
        /\ \A c \in Clients : Harmless(c)
        /\ scan.call = "beginning" \/ scan.thread # "none" => ~tracking

\* Only a setup and setASConfiguration come to a configuration.
Configures(c) ==
    call[c].at \in {"check", "init", "clear", "load", "wait"} =>
        call[c].op \in Configurations \cup {"surface"}

ServoInvariant == TypeOK /\ ScanFlagged /\ ScanUnjoined /\ \A c \in Clients : Configures(c)

--------------------------------------------------------------------------------
Outcomes == [runs : BOOLEAN, raised : BOOLEAN]

LEMMA OutcomeTyped ==
    ASSUME NEW runs \in BOOLEAN, NEW raised \in BOOLEAN
    PROVE  /\ Outcome(runs, raised) \in Outcomes
           /\ Outcome(runs, raised).runs = runs
           /\ Outcome(runs, raised).raised = raised
BY DEF Outcome, Outcomes

\* What the switches of the tracking answer; turned off, it does not run if it did not.
LEMMA SwitchAnswers ==
    ASSUME tracking \in BOOLEAN
    PROVE  /\ TurnTrackingOn \subseteq Outcomes
           /\ \A o \in TurnTrackingOn : ~o.raised => o.runs
           /\ TurnTrackingOff \subseteq Outcomes
           /\ \A o \in TurnTrackingOff : (o.runs => tracking) /\ (~o.raised => ~o.runs)
<1>1. TurnTrackingOn \subseteq {Outcome(TRUE, FALSE), Outcome(tracking, TRUE), Outcome(FALSE, TRUE)}
  BY DEF TurnTrackingOn, Faulty
<1>2. TurnTrackingOff \subseteq {Outcome(FALSE, FALSE), Outcome(tracking, TRUE), Outcome(FALSE, TRUE)}
  BY DEF TurnTrackingOff, Faulty
<1> QED
  BY <1>1, <1>2, OutcomeTyped

Flags == [configured : BOOLEAN, starting : BOOLEAN, parking : BOOLEAN,
          enabled : BOOLEAN, locked : BOOLEAN, scanning : BOOLEAN, active : BOOLEAN]
Histories == [doubted : BOOLEAN, crossed : BOOLEAN, joined : BOOLEAN, stuck : BOOLEAN]
Calls == [op : Operations, at : Places, was : BOOLEAN]

LEMMA StateTyped ==
    ASSUME TypeOK
    PROVE  /\ flags \in Flags /\ past \in Histories /\ tracking \in BOOLEAN
           /\ call \in [Clients -> {Idle} \cup Calls]
           /\ InScan \in BOOLEAN /\ UnderWay \in BOOLEAN /\ Allowed \in BOOLEAN
BY DEF TypeOK, Flags, Histories, Calls, InScan, UnderWay, Allowed

\* A client is at a place exactly while it is in an operation.
LEMMA CallTyped ==
    ASSUME TypeOK, NEW c \in Clients
    PROVE  /\ call[c].op \in Operations \cup {"none"} /\ call[c].was \in BOOLEAN
           /\ call[c].op = "none" => call[c] = Idle
           /\ call[c].at # "none" => call[c].op # "none" /\ call[c] \in Calls
<1>1. call[c] \in {Idle} \cup Calls
  BY StateTyped
<1>2. CASE call[c] = Idle
  BY <1>2 DEF Idle
<1>3. CASE call[c] \in Calls
  <2>1. "none" \notin Operations
    BY DEF Operations, Configurations
  <2>2. call[c].op \in Operations /\ call[c].was \in BOOLEAN
    BY <1>3 DEF Calls
  <2> QED
    BY <1>3, <2>1, <2>2
<1> QED
  BY <1>1, <1>2, <1>3

LEMMA GoesTyped ==
    ASSUME TypeOK, NEW c \in Clients, call[c].at # "none", NEW at \in Places, Goes(c, at)
    PROVE  /\ call' \in [Clients -> {Idle} \cup Calls]
           /\ call'[c].op = call[c].op /\ call'[c].was = call[c].was /\ call'[c].at = at
           /\ \A d \in Clients : d # c => call'[d] = call[d]
<1>1. call[c] \in Calls /\ call \in [Clients -> {Idle} \cup Calls]
  BY CallTyped, StateTyped
<1>2. [call[c] EXCEPT !.at = at] \in Calls
  BY <1>1 DEF Calls
<1>3. call' = [call EXCEPT ![c] = [call[c] EXCEPT !.at = at]]
  BY DEF Goes
<1>4. call'[c] = [call[c] EXCEPT !.at = at]
  BY <1>1, <1>3
<1> QED
  BY <1>1, <1>2, <1>3, <1>4 DEF Calls

LEMMA ReturnsTyped ==
    ASSUME TypeOK, NEW c \in Clients, Returns(c)
    PROVE  /\ call' \in [Clients -> {Idle} \cup Calls]
           /\ call'[c] = Idle /\ call'[c].op = "none"
           /\ \A d \in Clients : d # c => call'[d] = call[d]
BY StateTyped DEF Returns, Idle

\* What the histories become.
LEMMA DoubtsTyped ==
    ASSUME TypeOK, NEW b \in BOOLEAN
    PROVE  /\ Doubts(b) \in Histories
           /\ Doubts(b).doubted = (past.doubted \/ b) /\ Doubts(b).crossed = past.crossed
           /\ Doubts(b).joined = past.joined
BY StateTyped DEF Doubts, Histories

LEMMA CrossesTyped ==
    ASSUME TypeOK, NEW b \in BOOLEAN
    PROVE  /\ Crosses(b) \in Histories
           /\ Crosses(b).doubted = (past.doubted \/ b) /\ Crosses(b).crossed = b
           /\ Crosses(b).joined = past.joined
BY StateTyped DEF Crosses, Histories

LEMMA SettlesTyped ==
    ASSUME TypeOK
    PROVE  /\ Settles \in Histories
           /\ Settles.doubted = (past.doubted /\ past.crossed) /\ Settles.crossed = past.crossed
           /\ Settles.joined = past.joined
BY StateTyped DEF Settles, Histories

--------------------------------------------------------------------------------
(* The operations of the clients.                                          *)

\* What is common to the beginnings.
LEMMA BeginsTyped ==
    ASSUME TypeOK, NEW c \in Clients, NEW op \in Operations, NEW at \in Places,
           NEW was \in BOOLEAN, Begins(c, op, at, was)
    PROVE  /\ call' \in [Clients -> {Idle} \cup Calls] /\ call[c].op = "none"
           /\ call'[c].op = op /\ call'[c].at = at /\ call'[c].was = was
           /\ \A d \in Clients : d # c => call'[d] = call[d]
           /\ calls' \in 0 .. MaxCalls
           /\ past' \in Histories
           /\ past'.crossed = (UnderWay \/ InScan)
           /\ past'.doubted = (past.doubted \/ UnderWay \/ InScan)
           /\ past'.joined = (past.joined \/ (InScan /\ op \notin {"off", "park"}))
           /\ UNCHANGED <<base, setup, park, scan, tracking>>
<1>1. /\ call[c] = Idle /\ call' = [call EXCEPT ![c] = [op |-> op, at |-> at, was |-> was]]
      /\ UNCHANGED <<base, setup, park, scan, tracking>>
      /\ calls < MaxCalls /\ calls' = calls + 1
  BY DEF Begins
<1>2. [op |-> op, at |-> at, was |-> was] \in Calls
  BY DEF Calls
<1>3. /\ call' \in [Clients -> {Idle} \cup Calls]
      /\ call'[c] = [op |-> op, at |-> at, was |-> was]
      /\ \A d \in Clients : d # c => call'[d] = call[d]
  BY <1>1, <1>2, StateTyped
<1>4. calls' \in 0 .. MaxCalls
  BY <1>1, ServoBounds DEF TypeOK
<1>5. /\ past' \in Histories
      /\ past'.crossed = (UnderWay \/ InScan)
      /\ past'.doubted = (past.doubted \/ UnderWay \/ InScan)
      /\ past'.joined = (past.joined \/ (InScan /\ op \notin {"off", "park"}))
  <2> DEFINE h == Crosses(UnderWay \/ InScan)
  <2>1. (UnderWay \/ InScan) \in BOOLEAN
    OBVIOUS
  <2>2. /\ h \in Histories /\ h.doubted = (past.doubted \/ (UnderWay \/ InScan))
        /\ h.crossed = (UnderWay \/ InScan) /\ h.joined = past.joined
    BY <2>1, CrossesTyped
  <2>3. past' = [h EXCEPT !.joined = @ \/ (InScan /\ op \notin {"off", "park"})]
    BY DEF Begins
  <2> HIDE DEF h
  <2> QED
    BY <2>2, <2>3 DEF Histories
<1> QED
  BY <1>1, <1>3, <1>4, <1>5 DEF Idle

\* Each beginning changes one flag at most.
Enables(op) == op \in {"on", "gregorian"}

LEMMA CommandBegins ==
    ASSUME TypeOK, NEW c \in Clients, Command(c)
    PROVE  \E op \in Operations, at \in Places, was \in BOOLEAN, e \in BOOLEAN :
               /\ Begins(c, op, at, was)
               /\ flags' = [flags EXCEPT !.enabled = e]
               /\ op \in {"on", "gregorian"} => e
               /\ op \in {"off", "park"} => ~e /\ at \in {"look", "raise"}
               /\ op \in {"primary", "surface"} => e = flags.enabled
               /\ op \in {"on", "off"} => at = "look"
               /\ op = "gregorian" => at = IF flags.enabled THEN "check" ELSE "look"
               /\ op = "primary" => at = IF flags.enabled THEN "stop" ELSE "check"
               /\ op = "park" => at = IF flags.enabled THEN "look" ELSE "raise"
               /\ op = "surface" => at = "stop" /\ was = flags.enabled
<1>1. flags \in Flags
  BY StateTyped
<1>2. flags = [flags EXCEPT !.enabled = flags.enabled]
  BY <1>1 DEF Flags
<1>3. {"look", "check", "stop", "raise"} \subseteq Places
  BY DEF Places
<1>4. {"on", "off", "park", "surface", "gregorian", "primary"} \subseteq Operations
  BY DEF Operations, Configurations
<1>5. flags.enabled \in BOOLEAN
  BY <1>1 DEF Flags
<1>6. CASE \E on \in BOOLEAN : SetElevationTracking(c, on)
  <2>1. PICK on \in BOOLEAN : SetElevationTracking(c, on)
    BY <1>6
  <2>2. CASE on
    BY <1>3, <1>4, <2>1, <2>2 DEF SetElevationTracking
  <2>3. CASE ~on
    BY <1>3, <1>4, <2>1, <2>3 DEF SetElevationTracking
  <2> QED
    BY <2>2, <2>3
<1>7. CASE Setup(c, "gregorian")
  BY <1>3, <1>4, <1>7 DEF Setup
<1>8. CASE Setup(c, "primary")
  <2>1. Begins(c, "primary", IF flags.enabled THEN "stop" ELSE "check", FALSE)
        /\ flags' = [flags EXCEPT !.enabled = flags.enabled]
    BY <1>2, <1>8 DEF Setup
  <2> QED
    BY <1>3, <1>4, <1>5, <2>1
<1>9. CASE Park(c)
  BY <1>3, <1>4, <1>9 DEF Park
<1>10. CASE SetASConfiguration(c)
  <2>1. Begins(c, "surface", "stop", flags.enabled)
        /\ flags' = [flags EXCEPT !.enabled = flags.enabled]
    BY <1>2, <1>10 DEF SetASConfiguration
  <2> QED
    BY <1>3, <1>4, <1>5, <2>1
<1> QED
  BY <1>6, <1>7, <1>8, <1>9, <1>10 DEF Command, Configurations

LEMMA CommandKeeps ==
    ASSUME ServoInvariant, NEW c \in Clients, Command(c)
    PROVE  ServoInvariant'
<1>1. TypeOK /\ flags \in Flags
  BY StateTyped DEF ServoInvariant
<1>2. PICK op \in Operations, at \in Places, was \in BOOLEAN, e \in BOOLEAN :
          /\ Begins(c, op, at, was)
          /\ flags' = [flags EXCEPT !.enabled = e]
          /\ op \in {"off", "park"} => ~e /\ at \in {"look", "raise"}
          /\ at = "check" => op \in Configurations
          /\ at \notin {"init", "clear", "load", "wait"}
  BY <1>1, CommandBegins DEF Operations, Configurations
<1>3. /\ call' \in [Clients -> {Idle} \cup Calls]
      /\ call'[c].op = op /\ call'[c].at = at
      /\ \A d \in Clients : d # c => call'[d] = call[d]
      /\ calls' \in 0 .. MaxCalls
      /\ past' \in Histories
      /\ past'.joined = (past.joined \/ (InScan /\ op \notin {"off", "park"}))
      /\ UNCHANGED <<base, setup, park, scan, tracking>>
  BY <1>1, <1>2, BeginsTyped
<1>4. /\ flags' \in Flags /\ flags'.enabled = e
      /\ flags'.locked = flags.locked /\ flags'.active = flags.active
  BY <1>1, <1>2 DEF Flags
<1>5. TypeOK'
  BY <1>1, <1>3, <1>4 DEF TypeOK, Flags, Histories, Calls
<1>6. ScanFlagged'
  BY <1>3, <1>4 DEF ServoInvariant, ScanFlagged
<1>7. ASSUME ScanCommanded', ~past'.joined
      PROVE  setup' = "none" /\ (\A d \in Clients : Harmless(d)')
             /\ (scan'.call = "beginning" \/ scan'.thread # "none" => ~tracking')
  <2>1. ScanCommanded /\ InScan
    BY <1>3, <1>7 DEF ServoInvariant, ScanFlagged, ScanCommanded, InScan
  <2>2. ~past.joined /\ op \in {"off", "park"}
    BY <1>3, <1>7, <2>1
  <2>3. ~e /\ at \in {"look", "raise"}
    BY <1>2, <2>2
  <2>4. \A d \in Clients : Harmless(d)'
    BY <1>3, <1>4, <2>1, <2>2, <2>3 DEF Harmless, ServoInvariant, ScanUnjoined
  <2> QED
    BY <1>3, <2>1, <2>2, <2>4 DEF ServoInvariant, ScanUnjoined
<1>8. ScanUnjoined'
  BY <1>7 DEF ScanUnjoined
<1>9. \A d \in Clients : Configures(d)'
  BY <1>2, <1>3 DEF ServoInvariant, Configures, Configurations
<1> QED
  BY <1>5, <1>6, <1>8, <1>9 DEF ServoInvariant

\* What a client does to itself at its next step.
Moves(c) ==
    /\ call' \in [Clients -> {Idle} \cup Calls]
    /\ \A d \in Clients : d # c => call'[d] = call[d]
    /\ call'[c] = Idle \/ (call'[c].op = call[c].op /\ call'[c].was = call[c].was)

LEMMA GoesMoves ==
    ASSUME TypeOK, NEW c \in Clients, call[c].at # "none", NEW at \in Places, Goes(c, at)
    PROVE  Moves(c) /\ call'[c].op = call[c].op /\ call'[c].at = at
BY GoesTyped DEF Moves

LEMMA ReturnsMoves ==
    ASSUME TypeOK, NEW c \in Clients, Returns(c)
    PROVE  Moves(c) /\ call'[c] = Idle
BY ReturnsTyped DEF Moves

\* Where an operation goes after a switch of the tracking.
LEMMA SwitchDoneMoves ==
    ASSUME TypeOK, NEW c \in Clients, call[c].at # "none", SwitchDone(c)
    PROVE  /\ Moves(c)
           /\ call[c].op = "park" => call'[c].op = "park" /\ call'[c].at = "raise"
           /\ call[c].op \in Configurations => call'[c].op = call[c].op /\ call'[c].at = "check"
           /\ call[c].op = "surface" /\ call[c].at = "stop" =>
                  call'[c].op = "surface" /\ call'[c].at = "init"
           /\ call[c].op \in {"on", "off"} => call'[c] = Idle
           /\ call[c].op = "surface" /\ call[c].at # "stop" => call'[c] = Idle
<1>1. {"raise", "check", "init"} \subseteq Places
  BY DEF Places
<1>2. CASE call[c].op = "park"
  <2>1. Goes(c, "raise")
    BY <1>2 DEF SwitchDone, Configurations
  <2> QED
    BY <1>1, <1>2, <2>1, GoesMoves DEF Configurations
<1>3. CASE call[c].op \in Configurations
  <2>1. Goes(c, "check")
    BY <1>3 DEF SwitchDone, Configurations
  <2> QED
    BY <1>1, <1>3, <2>1, GoesMoves DEF Configurations
<1>4. CASE call[c].op = "surface" /\ call[c].at = "stop"
  <2>1. Goes(c, "init")
    BY <1>4 DEF SwitchDone, Configurations
  <2> QED
    BY <1>1, <1>4, <2>1, GoesMoves DEF Configurations
<1>5. CASE call[c].op # "park" /\ call[c].op \notin Configurations
           /\ ~(call[c].op = "surface" /\ call[c].at = "stop")
  <2>1. Returns(c)
    BY <1>5 DEF SwitchDone
  <2> QED
    BY <1>5, <2>1, ReturnsMoves
<1> QED
  BY <1>2, <1>3, <1>4, <1>5

LEMMA SwitchRaisesMoves ==
    ASSUME TypeOK, NEW c \in Clients, call[c].at # "none", SwitchRaises(c)
    PROVE  /\ Moves(c)
           /\ call[c].op = "park" => call'[c].op = "park" /\ call'[c].at = "raise"
           /\ call[c].op # "park" => call'[c] = Idle
<1>1. "raise" \in Places
  BY DEF Places
<1>2. CASE call[c].op = "park"
  BY <1>1, <1>2, GoesMoves DEF SwitchRaises
<1>3. CASE call[c].op # "park"
  BY <1>3, ReturnsMoves DEF SwitchRaises
<1> QED
  BY <1>2, <1>3

\* What the steps of an operation have in common: they leave the others, the scan and
\* what is known of the crossings alone.
Steps(c) ==
    /\ TypeOK' /\ Moves(c) /\ call[c].op # "none"
    /\ flags'.locked = flags.locked /\ flags'.active = flags.active
    /\ past'.crossed = past.crossed /\ past'.joined = past.joined
    /\ scan' = scan

LEMMA LookSteps ==
    ASSUME TypeOK, NEW c \in Clients, Look(c)
    PROVE  /\ Steps(c) /\ call[c].at = "look"
           /\ flags' = flags /\ base' = base /\ setup' = setup /\ tracking' = tracking
           /\ \/ ~flags.configured /\ SwitchDone(c) /\ past'.doubted = (past.doubted \/ (~flags.enabled /\ tracking))
              \/ flags.enabled /\ SwitchRaises(c) /\ past'.doubted
              \/ flags.enabled /\ call'[c].op = call[c].op /\ call'[c].at = "start" /\ past' = past
              \/ ~flags.enabled /\ call'[c].op = call[c].op /\ call'[c].at = "stop" /\ past' = past
<1>1. /\ call[c].at = "look" /\ flags' = flags /\ base' = base /\ setup' = setup /\ park' = park
      /\ scan' = scan /\ tracking' = tracking /\ calls' = calls
  BY DEF Look
<1>2. call[c].op # "none"
  BY <1>1, CallTyped
<1>3. flags \in Flags /\ past \in Histories /\ tracking \in BOOLEAN
  BY StateTyped
<1>4. CASE ~flags.configured
  <2>1. SwitchDone(c) /\ past' = Doubts(~flags.enabled /\ tracking)
    BY <1>4 DEF Look
  <2>2. Moves(c)
    BY <1>1, <2>1, SwitchDoneMoves
  <2>3. (~flags.enabled /\ tracking) \in BOOLEAN
    OBVIOUS
  <2>4. past' \in Histories /\ past'.doubted = (past.doubted \/ (~flags.enabled /\ tracking))
        /\ past'.crossed = past.crossed /\ past'.joined = past.joined
    BY <2>1, <2>3, DoubtsTyped
  <2>5. TypeOK'
    BY <1>1, <2>2, <2>4 DEF TypeOK, Moves, Histories, Calls
  <2> QED
    BY <1>1, <1>2, <1>4, <2>1, <2>2, <2>4, <2>5 DEF Steps
<1>5. CASE flags.configured /\ flags.enabled /\ ~Allowed
  <2>1. SwitchRaises(c) /\ past' = Doubts(TRUE)
    BY <1>5 DEF Look
  <2>2. Moves(c)
    BY <1>1, <2>1, SwitchRaisesMoves
  <2>3. past' \in Histories /\ past'.doubted
        /\ past'.crossed = past.crossed /\ past'.joined = past.joined
    BY <2>1, DoubtsTyped
  <2>4. TypeOK'
    BY <1>1, <2>2, <2>3 DEF TypeOK, Moves, Histories, Calls
  <2> QED
    BY <1>1, <1>2, <1>5, <2>1, <2>2, <2>3, <2>4 DEF Steps
<1>6. CASE flags.configured /\ ~(flags.enabled /\ ~Allowed)
  <2>1. Goes(c, IF flags.enabled THEN "start" ELSE "stop") /\ past' = past
    BY <1>6 DEF Look
  <2>2. {"start", "stop"} \subseteq Places
    BY DEF Places
  <2>3. Moves(c) /\ call'[c].op = call[c].op
        /\ call'[c].at = IF flags.enabled THEN "start" ELSE "stop"
    BY <1>1, <2>1, <2>2, GoesMoves
  <2>4. TypeOK'
    BY <1>1, <2>1, <2>3 DEF TypeOK, Moves, Calls
  <2> QED
    BY <1>1, <1>2, <2>1, <2>3, <2>4 DEF Steps
<1> QED
  BY <1>4, <1>5, <1>6

\* A switch of the tracking, on or off.
LEMMA SwitchedSteps ==
    ASSUME TypeOK, NEW c \in Clients, call[c].at # "none", NEW o \in Outcomes, Switched(c, o)
    PROVE  /\ Steps(c)
           /\ flags' = flags /\ base' = base /\ setup' = setup /\ tracking' = o.runs
           /\ o.raised => SwitchRaises(c) /\ past'.doubted
           /\ ~o.raised =>
                  /\ SwitchDone(c)
                  /\ call[c].op \in {"on", "off"} => past'.doubted = (past.doubted /\ past.crossed)
                  /\ call[c].op \notin {"on", "off"} =>
                         past'.doubted = (past.doubted \/ (call[c].op = "surface" /\ call[c].at = "start" /\ base = "primary"))
<1>1. /\ flags' = flags /\ base' = base /\ setup' = setup /\ park' = park
      /\ scan' = scan /\ tracking' = o.runs /\ calls' = calls
      /\ IF o.raised THEN SwitchRaises(c) ELSE SwitchDone(c)
  BY DEF Switched
<1>2. call[c].op # "none"
  BY CallTyped
<1>3. Moves(c)
  BY <1>1, SwitchDoneMoves, SwitchRaisesMoves
<1>4. o.raised \in BOOLEAN /\ o.runs \in BOOLEAN
  BY DEF Outcomes
<1>5. /\ past' \in Histories /\ past'.crossed = past.crossed /\ past'.joined = past.joined
      /\ o.raised => past'.doubted
      /\ ~o.raised =>
             /\ call[c].op \in {"on", "off"} => past'.doubted = (past.doubted /\ past.crossed)
             /\ call[c].op \notin {"on", "off"} =>
                    past'.doubted = (past.doubted \/ (call[c].op = "surface" /\ call[c].at = "start" /\ base = "primary"))
  <2>1. CASE call[c].op \in {"on", "off"} /\ ~o.raised
    <3>1. past' = Settles
      BY <2>1 DEF Switched
    <3> QED
      BY <2>1, <3>1, SettlesTyped
  <2>2. CASE ~(call[c].op \in {"on", "off"} /\ ~o.raised)
    <3> DEFINE b == o.raised \/ (call[c].op = "surface" /\ call[c].at = "start" /\ base = "primary")
    <3>1. past' = Doubts(b) /\ b \in BOOLEAN
      BY <1>4, <2>2 DEF Switched
    <3> HIDE DEF b
    <3>2. past' \in Histories /\ past'.doubted = (past.doubted \/ b)
          /\ past'.crossed = past.crossed /\ past'.joined = past.joined
      BY <3>1, DoubtsTyped
    <3> QED
      BY <2>2, <3>2 DEF b
  <2> QED
    BY <2>1, <2>2
<1>6. TypeOK'
  BY <1>1, <1>3, <1>4, <1>5 DEF TypeOK, Moves, Histories, Calls
<1> QED
  BY <1>1, <1>2, <1>3, <1>5, <1>6 DEF Steps

LEMMA CheckSteps ==
    ASSUME TypeOK, NEW c \in Clients, Check(c)
    PROVE  /\ Steps(c) /\ call[c].at = "check"
           /\ flags' = flags /\ base' = base /\ setup' = setup /\ tracking' = tracking
           /\ \/ call'[c] = Idle /\ past'.doubted
              \/ call'[c].op = call[c].op /\ call'[c].at = "init" /\ past' = past
<1>1. /\ call[c].at = "check" /\ flags' = flags /\ base' = base /\ setup' = setup /\ park' = park
      /\ scan' = scan /\ tracking' = tracking /\ calls' = calls
      /\ (Returns(c) /\ past' = Doubts(TRUE)) \/ (Goes(c, "init") /\ past' = past)
  BY DEF Check
<1>2. call[c].op # "none" /\ "init" \in Places
  BY <1>1, CallTyped DEF Places
<1>3. CASE Returns(c) /\ past' = Doubts(TRUE)
  <2>1. Moves(c) /\ call'[c] = Idle
    BY <1>3, ReturnsMoves
  <2>2. past' \in Histories /\ past'.doubted
        /\ past'.crossed = past.crossed /\ past'.joined = past.joined
    BY <1>3, DoubtsTyped
  <2>3. TypeOK'
    BY <1>1, <2>1, <2>2 DEF TypeOK, Moves, Histories, Calls
  <2> QED
    BY <1>1, <1>2, <2>1, <2>2, <2>3 DEF Steps
<1>4. CASE Goes(c, "init") /\ past' = past
  <2>1. Moves(c) /\ call'[c].op = call[c].op /\ call'[c].at = "init"
    BY <1>1, <1>2, <1>4, GoesMoves
  <2>2. TypeOK'
    BY <1>1, <1>4, <2>1 DEF TypeOK, Moves, Calls
  <2> QED
    BY <1>1, <1>2, <1>4, <2>1, <2>2 DEF Steps
<1> QED
  BY <1>1, <1>3, <1>4

LEMMA InitBeginsSteps ==
    ASSUME TypeOK, NEW c \in Clients, Configures(c), InitBegins(c)
    PROVE  /\ Steps(c) /\ call[c].at = "init"
           /\ flags'.enabled = flags.enabled /\ flags'.configured = flags.configured
           /\ setup' = setup /\ tracking' = tracking
           /\ \/ call'[c] = Idle /\ past'.doubted
              \/ /\ call'[c].op = call[c].op /\ call'[c].at = "clear" /\ past' = past
                 /\ base' = IF call[c].op = "surface" THEN base ELSE call[c].op
<1>1. /\ call[c].at = "init" /\ setup' = setup /\ park' = park
      /\ scan' = scan /\ tracking' = tracking /\ calls' = calls
  BY DEF InitBegins
<1>2. call[c].op # "none" /\ "clear" \in Places /\ flags \in Flags
  BY <1>1, CallTyped, StateTyped DEF Places
<1>3. CASE Returns(c) /\ past' = Doubts(TRUE) /\ flags' = flags /\ base' = base
  <2>1. Moves(c) /\ call'[c] = Idle /\ flags' = flags /\ base' = base
    BY <1>3, ReturnsMoves
  <2>2. past' \in Histories /\ past'.doubted
        /\ past'.crossed = past.crossed /\ past'.joined = past.joined
    BY <1>3, DoubtsTyped
  <2>3. TypeOK'
    BY <1>1, <2>1, <2>2 DEF TypeOK, Moves, Histories, Calls
  <2> QED
    BY <1>1, <1>2, <1>3, <2>1, <2>2, <2>3 DEF Steps
<1>4. CASE Goes(c, "clear") /\ flags' = [flags EXCEPT !.starting = TRUE] /\ past' = past
           /\ base' = IF call[c].op = "surface" THEN base ELSE call[c].op
  <2>1. Moves(c) /\ call'[c].op = call[c].op /\ call'[c].at = "clear"
    BY <1>1, <1>2, <1>4, GoesMoves
  <2>2. /\ flags' \in Flags /\ flags'.enabled = flags.enabled
        /\ flags'.configured = flags.configured
        /\ flags'.locked = flags.locked /\ flags'.active = flags.active
    BY <1>2, <1>4 DEF Flags
  <2>3. base' \in Configurations
    BY <1>1, <1>4 DEF Configures, TypeOK
  <2>4. TypeOK'
    BY <1>1, <1>4, <2>1, <2>2, <2>3 DEF TypeOK, Moves, Flags, Calls
  <2> QED
    BY <1>1, <1>2, <1>4, <2>1, <2>2, <2>4 DEF Steps
<1> QED
  BY <1>3, <1>4 DEF InitBegins

LEMMA InitClearsSteps ==
    ASSUME TypeOK, NEW c \in Clients, InitClears(c)
    PROVE  /\ Steps(c) /\ call[c].at = "clear"
           /\ flags'.enabled = (flags.enabled /\ base # "primary") /\ ~flags'.configured
           /\ base' = base /\ setup' = setup /\ tracking' = tracking /\ past' = past
           /\ call'[c].op = call[c].op /\ call'[c].was = call[c].was /\ call'[c].at = "load"
<1>1. /\ call[c].at = "clear" /\ base' = base /\ setup' = setup /\ park' = park
      /\ scan' = scan /\ tracking' = tracking /\ calls' = calls /\ past' = past /\ Goes(c, "load")
      /\ flags' = [flags EXCEPT !.configured = FALSE, !.enabled = @ /\ base # "primary"]
  BY DEF InitClears
<1>2. call[c].op # "none" /\ "load" \in Places /\ flags \in Flags
  BY <1>1, CallTyped, StateTyped DEF Places
<1>3. /\ Moves(c) /\ call'[c].op = call[c].op /\ call'[c].at = "load"
      /\ call'[c].was = call[c].was
  BY <1>1, <1>2, GoesMoves, GoesTyped
<1>4. /\ flags' \in Flags /\ flags'.enabled = (flags.enabled /\ base # "primary")
      /\ ~flags'.configured
      /\ flags'.locked = flags.locked /\ flags'.active = flags.active
  BY <1>1, <1>2 DEF Flags
<1>5. TypeOK'
  BY <1>1, <1>3, <1>4 DEF TypeOK, Moves, Flags, Calls
<1> QED
  BY <1>1, <1>2, <1>3, <1>4, <1>5 DEF Steps

LEMMA InitFailsSteps ==
    ASSUME TypeOK, NEW c \in Clients, InitFails(c)
    PROVE  /\ Steps(c) /\ call[c].at \in {"clear", "load"} /\ call'[c] = Idle
           /\ flags'.enabled = flags.enabled /\ ~flags'.configured
           /\ base' = base /\ setup' = setup /\ tracking' = tracking
           /\ past'.doubted = (past.doubted \/ call[c].op = "surface")
<1>1. /\ call[c].at \in {"clear", "load"} /\ base' = base /\ setup' = setup /\ park' = park
      /\ scan' = scan /\ tracking' = tracking /\ calls' = calls /\ Returns(c)
      /\ past' = Doubts(call[c].op = "surface")
      /\ flags' = [flags EXCEPT !.starting = FALSE, !.configured = FALSE]
  BY DEF InitFails
<1>2. call[c].op # "none" /\ flags \in Flags /\ (call[c].op = "surface") \in BOOLEAN
  BY <1>1, CallTyped, StateTyped
<1>3. Moves(c) /\ call'[c] = Idle
  BY <1>1, ReturnsMoves
<1>4. /\ flags' \in Flags /\ flags'.enabled = flags.enabled /\ ~flags'.configured
      /\ flags'.locked = flags.locked /\ flags'.active = flags.active
  BY <1>1, <1>2 DEF Flags
<1>5. /\ past' \in Histories /\ past'.doubted = (past.doubted \/ call[c].op = "surface")
      /\ past'.crossed = past.crossed /\ past'.joined = past.joined
  BY <1>1, <1>2, DoubtsTyped
<1>6. TypeOK'
  BY <1>1, <1>3, <1>4, <1>5 DEF TypeOK, Moves, Flags, Histories, Calls
<1> QED
  BY <1>1, <1>2, <1>3, <1>4, <1>5, <1>6 DEF Steps

LEMMA InitEndsSteps ==
    ASSUME TypeOK, NEW c \in Clients, InitEnds(c)
    PROVE  /\ Steps(c) /\ call[c].at = "load"
           /\ flags'.enabled = flags.enabled
           /\ base' = base /\ setup' = setup /\ tracking' = tracking /\ past' = past
           /\ call[c].op # "surface" =>
                  call'[c].op = call[c].op /\ call'[c].at = "wait" /\ flags' = flags
           /\ call[c].op = "surface" /\ call[c].was =>
                  call'[c].op = "surface" /\ call'[c].at = "restore" /\ call'[c].was
           /\ call[c].op = "surface" /\ ~call[c].was => call'[c] = Idle
<1>1. /\ call[c].at = "load" /\ base' = base /\ setup' = setup /\ park' = park
      /\ scan' = scan /\ tracking' = tracking /\ calls' = calls /\ past' = past
  BY DEF InitEnds
<1>2. call[c].op # "none" /\ {"wait", "restore"} \subseteq Places /\ flags \in Flags
  BY <1>1, CallTyped, StateTyped DEF Places
<1>3. CASE call[c].op # "surface"
  <2>1. Goes(c, "wait") /\ flags' = flags
    BY <1>3 DEF InitEnds
  <2>2. Moves(c) /\ call'[c].op = call[c].op /\ call'[c].at = "wait"
    BY <1>1, <1>2, <2>1, GoesMoves
  <2>3. TypeOK'
    BY <1>1, <2>1, <2>2 DEF TypeOK, Moves, Calls
  <2> QED
    BY <1>1, <1>2, <1>3, <2>1, <2>2, <2>3 DEF Steps
<1>4. CASE call[c].op = "surface"
  <2>1. /\ flags' = [flags EXCEPT !.starting = FALSE, !.configured = TRUE]
        /\ IF call[c].was THEN Goes(c, "restore") ELSE Returns(c)
    BY <1>4 DEF InitEnds
  <2>2. /\ flags' \in Flags /\ flags'.enabled = flags.enabled
        /\ flags'.locked = flags.locked /\ flags'.active = flags.active
    BY <1>2, <2>1 DEF Flags
  <2>3. CASE call[c].was
    <3>1. /\ Moves(c) /\ call'[c].op = call[c].op /\ call'[c].at = "restore"
          /\ call'[c].was = call[c].was
      BY <1>1, <1>2, <2>1, <2>3, GoesMoves, GoesTyped
    <3>2. TypeOK'
      BY <1>1, <2>2, <3>1 DEF TypeOK, Moves, Flags, Calls
    <3> QED
      BY <1>1, <1>2, <1>4, <2>2, <2>3, <3>1, <3>2 DEF Steps
  <2>4. CASE ~call[c].was
    <3>1. Moves(c) /\ call'[c] = Idle
      BY <2>1, <2>4, ReturnsMoves
    <3>2. TypeOK'
      BY <1>1, <2>2, <3>1 DEF TypeOK, Moves, Flags, Calls
    <3> QED
      BY <1>1, <1>2, <1>4, <2>2, <2>4, <3>1, <3>2 DEF Steps
  <2> QED
    BY <2>3, <2>4
<1> QED
  BY <1>3, <1>4

LEMMA RestoreSteps ==
    ASSUME TypeOK, NEW c \in Clients, Restore(c)
    PROVE  /\ Steps(c) /\ call[c].at = "restore"
           /\ flags' = flags /\ base' = base /\ setup' = setup /\ tracking' = tracking
           /\ \/ call'[c] = Idle /\ past'.doubted
              \/ /\ call'[c].op = call[c].op /\ call'[c].was = call[c].was
                 /\ call'[c].at = "start" /\ past' = past
<1>1. /\ call[c].at = "restore" /\ flags' = flags /\ base' = base /\ setup' = setup /\ park' = park
      /\ scan' = scan /\ tracking' = tracking /\ calls' = calls
      /\ (Returns(c) /\ past' = Doubts(TRUE)) \/ (Goes(c, "start") /\ past' = past)
  BY DEF Restore
<1>2. call[c].op # "none" /\ "start" \in Places
  BY <1>1, CallTyped DEF Places
<1>3. CASE Returns(c) /\ past' = Doubts(TRUE)
  <2>1. Moves(c) /\ call'[c] = Idle
    BY <1>3, ReturnsMoves
  <2>2. past' \in Histories /\ past'.doubted
        /\ past'.crossed = past.crossed /\ past'.joined = past.joined
    BY <1>3, DoubtsTyped
  <2>3. TypeOK'
    BY <1>1, <2>1, <2>2 DEF TypeOK, Moves, Histories, Calls
  <2> QED
    BY <1>1, <1>2, <2>1, <2>2, <2>3 DEF Steps
<1>4. CASE Goes(c, "start") /\ past' = past
  <2>1. /\ Moves(c) /\ call'[c].op = call[c].op /\ call'[c].was = call[c].was
        /\ call'[c].at = "start"
    BY <1>1, <1>2, <1>4, GoesMoves, GoesTyped
  <2>2. TypeOK'
    BY <1>1, <1>4, <2>1 DEF TypeOK, Moves, Calls
  <2> QED
    BY <1>1, <1>2, <1>4, <2>1, <2>2 DEF Steps
<1> QED
  BY <1>1, <1>3, <1>4

LEMMA StartSetupSteps ==
    ASSUME TypeOK, NEW c \in Clients, StartSetup(c)
    PROVE  /\ Steps(c) /\ call[c].at = "wait" /\ call'[c] = Idle
           /\ flags' = flags /\ base' = base /\ tracking' = tracking
           /\ setup' = setup \/ (setup # "start" /\ setup' = "moving")
           /\ past'.doubted = past.doubted
<1>1. /\ call[c].at = "wait" /\ flags' = flags /\ base' = base /\ park' = park
      /\ scan' = scan /\ tracking' = tracking /\ calls' = calls /\ Returns(c)
      /\ setup' = setup \/ (setup # "start" /\ setup' = "moving")
      /\ past' = past \/ past' = [past EXCEPT !.stuck = TRUE]
  BY DEF StartSetup
<1>2. call[c].op # "none" /\ past \in Histories
  BY <1>1, CallTyped, StateTyped
<1>3. Moves(c) /\ call'[c] = Idle
  BY <1>1, ReturnsMoves
<1>4. /\ past' \in Histories /\ past'.doubted = past.doubted
      /\ past'.crossed = past.crossed /\ past'.joined = past.joined
  BY <1>1, <1>2 DEF Histories
<1>5. TypeOK'
  BY <1>1, <1>3, <1>4 DEF TypeOK, Moves, Histories, Calls
<1> QED
  BY <1>1, <1>2, <1>3, <1>4, <1>5 DEF Steps

LEMMA StartParkSteps ==
    ASSUME TypeOK, NEW c \in Clients, StartPark(c)
    PROVE  /\ Steps(c) /\ call[c].at = "raise" /\ call'[c] = Idle
           /\ flags'.enabled = flags.enabled /\ flags'.configured = flags.configured
           /\ base' = base /\ setup' = setup /\ tracking' = tracking
           /\ past'.doubted = past.doubted
<1>1. /\ call[c].at = "raise" /\ base' = base /\ setup' = setup
      /\ scan' = scan /\ tracking' = tracking /\ calls' = calls /\ Returns(c)
      /\ flags' = [flags EXCEPT !.parking = TRUE]
      /\ park' = TRUE \/ park' = park
      /\ past' = past \/ past' = [past EXCEPT !.stuck = TRUE]
  BY DEF StartPark
<1>2. call[c].op # "none" /\ past \in Histories /\ flags \in Flags
  BY <1>1, CallTyped, StateTyped
<1>3. Moves(c) /\ call'[c] = Idle
  BY <1>1, ReturnsMoves
<1>4. /\ past' \in Histories /\ past'.doubted = past.doubted
      /\ past'.crossed = past.crossed /\ past'.joined = past.joined
  BY <1>1, <1>2 DEF Histories
<1>5. /\ flags' \in Flags /\ flags'.enabled = flags.enabled
      /\ flags'.configured = flags.configured
      /\ flags'.locked = flags.locked /\ flags'.active = flags.active
  BY <1>1, <1>2 DEF Flags
<1>6. TypeOK'
  BY <1>1, <1>3, <1>4, <1>5 DEF TypeOK, Moves, Flags, Histories, Calls
<1> QED
  BY <1>1, <1>2, <1>3, <1>4, <1>5, <1>6 DEF Steps

\* The two kinds of switches.
LEMMA TurnsSteps ==
    ASSUME TypeOK, NEW c \in Clients, TurnOn(c) \/ TurnOff(c)
    PROVE  \E o \in Outcomes :
               /\ Switched(c, o) /\ call[c].at \in {"start", "stop"}
               /\ call[c].at = "start" => (~o.raised => o.runs)
               /\ call[c].at = "stop" => (o.runs => tracking) /\ (~o.raised => ~o.runs)
<1>1. tracking \in BOOLEAN
  BY StateTyped
<1>2. CASE TurnOn(c)
  BY <1>1, <1>2, SwitchAnswers DEF TurnOn
<1>3. CASE TurnOff(c)
  BY <1>1, <1>3, SwitchAnswers DEF TurnOff
<1> QED
  BY <1>2, <1>3

LEMMA ProceedSteps ==
    ASSUME TypeOK, NEW c \in Clients, Configures(c), Proceed(c)
    PROVE  Steps(c)
<1>1. CASE TurnOn(c) \/ TurnOff(c)
  <2>1. PICK o \in Outcomes : Switched(c, o) /\ call[c].at \in {"start", "stop"}
    BY <1>1, TurnsSteps
  <2> QED
    BY <2>1, SwitchedSteps
<1> QED
  BY <1>1, LookSteps, CheckSteps, InitBeginsSteps, InitClearsSteps, InitFailsSteps, InitEndsSteps,
     RestoreSteps, StartSetupSteps, StartParkSteps DEF Proceed

LEMMA SwitchesConfigure ==
    ASSUME TypeOK, NEW c \in Clients, call[c].at # "none", SwitchDone(c) \/ SwitchRaises(c)
    PROVE  Configures(c)'
<1>1. CASE call'[c] = Idle \/ call'[c].at = "raise"
  BY <1>1 DEF Configures, Idle
<1>2. CASE SwitchDone(c) /\ call[c].op \in Configurations \cup {"surface"}
  <2>1. call'[c] = Idle \/ call'[c].op = call[c].op
    BY <1>2, SwitchDoneMoves DEF Moves
  <2> QED
    BY <1>2, <2>1 DEF Configures, Idle
<1>3. CASE SwitchDone(c) /\ call[c].op \in {"on", "off", "park"}
  BY <1>1, <1>3, SwitchDoneMoves
<1>4. CASE SwitchRaises(c)
  BY <1>1, <1>4, SwitchRaisesMoves
<1>5. call[c].op \in Operations
  BY CallTyped
<1> QED
  BY <1>2, <1>3, <1>4, <1>5 DEF Operations

\* What an operation may do while it is known to have joined nothing: a park and a
\* switch off go on, and nothing else is there.
LEMMA StepsKeep ==
    ASSUME ServoInvariant, NEW c \in Clients, Steps(c), Configures(c)',
           ScanCommanded /\ ~past.joined =>
               /\ setup' = setup /\ Harmless(c)'
               /\ flags'.enabled => flags.enabled
               /\ tracking' => tracking
    PROVE  ServoInvariant'
<1>1. \A d \in Clients : d # c => call'[d] = call[d]
  BY DEF Steps, Moves
<1>2. ScanFlagged'
  BY DEF ServoInvariant, ScanFlagged, Steps
<1>3. \A d \in Clients : Configures(d)'
  BY <1>1 DEF ServoInvariant, Configures
<1>4. ASSUME ScanCommanded', ~past'.joined
      PROVE  setup' = "none" /\ (\A d \in Clients : Harmless(d)')
             /\ (scan'.call = "beginning" \/ scan'.thread # "none" => ~tracking')
  <2>1. ScanCommanded /\ ~past.joined
    BY <1>4 DEF Steps, ScanCommanded
  <2>2. ASSUME NEW d \in Clients, d # c PROVE Harmless(d)'
    BY <1>1, <2>1, <2>2 DEF ServoInvariant, ScanUnjoined, Harmless
  <2> QED
    BY <2>1, <2>2 DEF ServoInvariant, ScanUnjoined, Steps
<1>5. ScanUnjoined'
  BY <1>4 DEF ScanUnjoined
<1> QED
  BY <1>2, <1>3, <1>5 DEF ServoInvariant, Steps

LEMMA ProceedKeeps ==
    ASSUME ServoInvariant, NEW c \in Clients, Proceed(c)
    PROVE  ServoInvariant'
<1>1. TypeOK /\ Configures(c)
  BY DEF ServoInvariant
<1>2. ScanCommanded /\ ~past.joined => setup = "none" /\ Harmless(c)
  BY DEF ServoInvariant, ScanUnjoined
<1>3. call[c].op \in Operations \cup {"none"}
  BY <1>1, CallTyped
<1>4. CASE Look(c)
  <2>1. /\ Steps(c) /\ call[c].at = "look"
        /\ flags' = flags /\ base' = base /\ setup' = setup /\ tracking' = tracking
        /\ \/ SwitchDone(c)
           \/ flags.enabled /\ SwitchRaises(c)
           \/ flags.enabled /\ call'[c].op = call[c].op /\ call'[c].at = "start"
           \/ ~flags.enabled /\ call'[c].op = call[c].op /\ call'[c].at = "stop"
    BY <1>1, <1>4, LookSteps
  <2>2. Configures(c)'
    BY <1>1, <2>1, SwitchesConfigure DEF Configures
  <2>3. ASSUME Harmless(c) PROVE Harmless(c)'
    BY <1>1, <2>1, <2>3, SwitchDoneMoves DEF Harmless, Idle, Steps
  <2> QED
    BY <1>2, <2>1, <2>2, <2>3, StepsKeep
<1>5. CASE TurnOn(c) \/ TurnOff(c)
  <2>1. PICK o \in Outcomes : /\ Switched(c, o) /\ call[c].at \in {"start", "stop"}
                              /\ call[c].at = "stop" => (o.runs => tracking)
    BY <1>1, <1>5, TurnsSteps
  <2>2. /\ Steps(c) /\ flags' = flags /\ setup' = setup /\ tracking' = o.runs
        /\ SwitchDone(c) \/ SwitchRaises(c)
    BY <1>1, <2>1, SwitchedSteps
  <2>3. Configures(c)'
    BY <1>1, <2>1, <2>2, SwitchesConfigure DEF Configures
  <2>4. ASSUME Harmless(c) PROVE Harmless(c)' /\ (tracking' => tracking)
    <3>1. call[c].op \in {"off", "park"} /\ call[c].at = "stop"
      BY <2>1, <2>2, <2>4 DEF Harmless, Steps
    <3> QED
      BY <1>1, <2>1, <2>2, <3>1, SwitchDoneMoves, SwitchRaisesMoves DEF Harmless, Idle
  <2> QED
    BY <1>2, <2>2, <2>3, <2>4, StepsKeep
<1>6. CASE Check(c)
  <2>1. /\ Steps(c) /\ call[c].at = "check"
        /\ call'[c] = Idle \/ (call'[c].op = call[c].op /\ call'[c].at = "init")
    BY <1>1, <1>6, CheckSteps
  <2>2. Configures(c)' /\ ~Harmless(c)
    BY <1>1, <2>1 DEF Configures, Idle, Harmless, Steps
  <2> QED
    BY <1>2, <2>1, <2>2, StepsKeep
<1>7. CASE InitBegins(c)
  <2>1. /\ Steps(c) /\ call[c].at = "init"
        /\ call'[c] = Idle \/ (call'[c].op = call[c].op /\ call'[c].at = "clear")
    BY <1>1, <1>7, InitBeginsSteps
  <2>2. Configures(c)' /\ ~Harmless(c)
    BY <1>1, <2>1 DEF Configures, Idle, Harmless, Steps
  <2> QED
    BY <1>2, <2>1, <2>2, StepsKeep
<1>8. CASE InitClears(c)
  <2>1. /\ Steps(c) /\ call[c].at = "clear" /\ call'[c].op = call[c].op
    BY <1>1, <1>8, InitClearsSteps
  <2>2. Configures(c)' /\ ~Harmless(c)
    BY <1>1, <2>1 DEF Configures, Harmless, Steps
  <2> QED
    BY <1>2, <2>1, <2>2, StepsKeep
<1>9. CASE InitFails(c)
  <2>1. /\ Steps(c) /\ call[c].at \in {"clear", "load"} /\ call'[c] = Idle
    BY <1>1, <1>9, InitFailsSteps
  <2>2. Configures(c)' /\ ~Harmless(c)
    BY <2>1 DEF Configures, Idle, Harmless, Steps
  <2> QED
    BY <1>2, <2>1, <2>2, StepsKeep
<1>10. CASE InitEnds(c)
  <2>1. /\ Steps(c) /\ call[c].at = "load"
        /\ call'[c] = Idle \/ call'[c].op = call[c].op
    BY <1>1, <1>10, InitEndsSteps DEF Steps, Moves
  <2>2. Configures(c)' /\ ~Harmless(c)
    BY <1>1, <2>1 DEF Configures, Idle, Harmless, Steps
  <2> QED
    BY <1>2, <2>1, <2>2, StepsKeep
<1>11. CASE Restore(c)
  <2>1. /\ Steps(c) /\ call[c].at = "restore"
        /\ call'[c] = Idle \/ call'[c].at = "start"
    BY <1>1, <1>11, RestoreSteps
  <2>2. Configures(c)' /\ ~Harmless(c)
    BY <2>1 DEF Configures, Idle, Harmless, Steps
  <2> QED
    BY <1>2, <2>1, <2>2, StepsKeep
<1>12. CASE StartSetup(c)
  <2>1. Steps(c) /\ call[c].at = "wait" /\ call'[c] = Idle
    BY <1>1, <1>12, StartSetupSteps
  <2>2. Configures(c)' /\ ~Harmless(c)
    BY <2>1 DEF Configures, Idle, Harmless, Steps
  <2> QED
    BY <1>2, <2>1, <2>2, StepsKeep
<1>13. CASE StartPark(c)
  <2>1. /\ Steps(c) /\ call'[c] = Idle /\ flags'.enabled = flags.enabled
        /\ setup' = setup /\ tracking' = tracking
    BY <1>1, <1>13, StartParkSteps
  <2>2. Configures(c)' /\ Harmless(c)'
    BY <2>1 DEF Configures, Idle, Harmless
  <2> QED
    BY <2>1, <2>2, StepsKeep
<1> QED
  BY <1>4, <1>5, <1>6, <1>7, <1>8, <1>9, <1>10, <1>11, <1>12, <1>13 DEF Proceed

--------------------------------------------------------------------------------
(* The threads and the scheduler.                                          *)

\* These change nothing but flags, the thread they belong to, and what is known of the
\* tracking; the clients stay where they are.
LEMMA SetupDoneKeeps ==
    ASSUME ServoInvariant, SetupDone
    PROVE  ServoInvariant'
<1>1. TypeOK /\ flags \in Flags /\ (UnderWay \/ InScan) \in BOOLEAN
  BY StateTyped DEF ServoInvariant
<1>2. /\ setup = "moving" /\ setup' = "last"
      /\ flags' = [flags EXCEPT !.starting = FALSE, !.configured = TRUE]
      /\ past' = Crosses(UnderWay \/ InScan)
      /\ base' = base /\ call' = call /\ park' = park /\ scan' = scan
      /\ tracking' = tracking /\ calls' = calls
  BY DEF SetupDone
<1>3. past' \in Histories /\ past'.joined = past.joined
  BY <1>1, <1>2, CrossesTyped
<1>4. flags' \in Flags /\ flags'.locked = flags.locked /\ flags'.active = flags.active
  BY <1>1, <1>2 DEF Flags
<1>5. TypeOK'
  BY <1>1, <1>2, <1>3, <1>4 DEF TypeOK, Flags, Histories
<1> QED
  BY <1>2, <1>3, <1>4, <1>5 DEF ServoInvariant, ScanFlagged, ScanUnjoined, ScanCommanded, Configures

\* For the steps that leave the scan and the clients alone.
LEMMA ThreadKeeps ==
    ASSUME ServoInvariant, TypeOK', scan' = scan, call' = call,
           flags'.locked = flags.locked, flags'.active = flags.active,
           flags'.enabled = flags.enabled, past'.joined = past.joined,
           setup = "none" => setup' = "none" /\ tracking' = tracking
    PROVE  ServoInvariant'
BY DEF ServoInvariant, ScanFlagged, ScanUnjoined, ScanCommanded, Configures, Harmless

LEMMA ThreadsKeep ==
    ASSUME ServoInvariant, Threads
    PROVE  ServoInvariant'
<1>1. TypeOK /\ flags \in Flags /\ past \in Histories /\ tracking \in BOOLEAN
  BY StateTyped DEF ServoInvariant
<1>2. CASE SetupFails
  <2>1. /\ flags' = [flags EXCEPT !.starting = FALSE, !.configured = FALSE]
        /\ setup = "moving" /\ setup' = "none" /\ base' = base /\ call' = call /\ park' = park
        /\ scan' = scan /\ tracking' = tracking /\ calls' = calls /\ past' = past
    BY <1>2 DEF SetupFails
  <2>2. /\ flags' \in Flags /\ flags'.locked = flags.locked /\ flags'.active = flags.active
        /\ flags'.enabled = flags.enabled
    BY <1>1, <2>1 DEF Flags
  <2>3. TypeOK'
    BY <1>1, <2>1, <2>2 DEF TypeOK, Flags
  <2> QED
    BY <2>1, <2>2, <2>3, ThreadKeeps
<1>3. CASE SetupTracks
  <2>1. /\ setup = "last" /\ setup' \in {"start", "none"}
        /\ past' = Doubts(flags.enabled /\ ~Allowed)
        /\ flags' = flags /\ base' = base /\ call' = call /\ park' = park
        /\ scan' = scan /\ tracking' = tracking /\ calls' = calls
    BY <1>3 DEF SetupTracks
  <2>2. (flags.enabled /\ ~Allowed) \in BOOLEAN
    OBVIOUS
  <2>3. past' \in Histories /\ past'.joined = past.joined
    BY <1>1, <2>1, <2>2, DoubtsTyped
  <2>4. TypeOK'
    BY <1>1, <2>1, <2>3 DEF TypeOK, Histories
  <2> QED
    BY <2>1, <2>3, <2>4, ThreadKeeps
<1>4. CASE SetupEnds
  <2>1. PICK o \in TurnTrackingOn :
            tracking' = o.runs /\ past' = IF o.raised THEN Doubts(TRUE) ELSE Settles
    BY <1>4 DEF SetupEnds
  <2>2. /\ setup = "start" /\ setup' = "none"
        /\ flags' = flags /\ base' = base /\ call' = call /\ park' = park
        /\ scan' = scan /\ calls' = calls
    BY <1>4 DEF SetupEnds
  <2>3. tracking' \in BOOLEAN
    BY <1>1, <2>1, SwitchAnswers DEF Outcomes
  <2>4. past' \in Histories /\ past'.joined = past.joined
    BY <1>1, <2>1, DoubtsTyped, SettlesTyped
  <2>5. TypeOK'
    BY <1>1, <2>2, <2>3, <2>4 DEF TypeOK, Histories
  <2> QED
    BY <2>2, <2>4, <2>5, ThreadKeeps
<1>5. CASE ParkMoves \/ ParkMismatch \/ ParkEnds
  <2>1. PICK conf \in BOOLEAN, park1 \in BOOLEAN :
            flags' = [flags EXCEPT !.parking = park1, !.configured = conf]
    <3>1. CASE ParkMoves
      <4>1. flags' = [flags EXCEPT !.parking = flags.parking, !.configured = FALSE]
        BY <1>1, <3>1 DEF ParkMoves, Flags
      <4> QED
        BY <1>1, <4>1 DEF Flags
    <3>2. CASE ParkMismatch
      <4>1. flags' = [flags EXCEPT !.parking = FALSE, !.configured = flags.configured]
        BY <1>1, <3>2 DEF ParkMismatch, Flags
      <4> QED
        BY <1>1, <4>1 DEF Flags
    <3>3. CASE ParkEnds
      BY <1>1, <3>3 DEF ParkEnds, Flags
    <3> QED
      BY <1>5, <3>1, <3>2, <3>3
  <2>2. /\ base' = base /\ call' = call /\ setup' = setup /\ park' \in BOOLEAN
        /\ scan' = scan /\ tracking' = tracking /\ calls' = calls /\ past' = past
    BY <1>1, <1>5 DEF ParkMoves, ParkMismatch, ParkEnds, TypeOK
  <2>3. /\ flags' \in Flags /\ flags'.locked = flags.locked /\ flags'.active = flags.active
        /\ flags'.enabled = flags.enabled
    BY <1>1, <2>1 DEF Flags
  <2>4. TypeOK'
    BY <1>1, <2>2, <2>3 DEF TypeOK, Flags
  <2> QED
    BY <2>2, <2>3, <2>4, ThreadKeeps
<1>6. CASE ScanFeeds \/ ScanEnds
  <2>1. PICK f \in BOOLEAN : flags' = [flags EXCEPT !.scanning = f]
    BY <1>6 DEF ScanFeeds, ScanEnds
  <2>2. PICK t \in {"none", "feeding"} : scan' = [scan EXCEPT !.thread = t] /\ scan.thread # "none"
    BY <1>6 DEF ScanFeeds, ScanEnds
  <2>3. /\ base' = base /\ call' = call /\ setup' = setup /\ park' = park
        /\ tracking' = tracking /\ calls' = calls /\ past' = past
    BY <1>6 DEF ScanFeeds, ScanEnds
  <2>4. /\ flags' \in Flags /\ flags'.locked = flags.locked /\ flags'.active = flags.active
        /\ flags'.enabled = flags.enabled
    BY <1>1, <2>1 DEF Flags
  <2>5. TypeOK' /\ scan'.call = scan.call /\ scan'.thread = t
    BY <1>1, <2>2, <2>3, <2>4 DEF TypeOK, Flags
  <2> QED
    BY <2>2, <2>3, <2>4, <2>5 DEF ServoInvariant, ScanFlagged, ScanUnjoined, ScanCommanded, Configures, Harmless
<1> QED
  BY <1>2, <1>3, <1>4, <1>5, <1>6, SetupDoneKeeps DEF Threads

\* The steps of the scheduler leave the clients and the setup alone, and the flags they
\* go by.
Schedules ==
    /\ TypeOK' /\ call' = call /\ setup' = setup
    /\ flags'.enabled = flags.enabled /\ flags'.configured = flags.configured

Scannings == [call : {"none", "starting", "stopping", "beginning", "closing", "restoring"},
              was : BOOLEAN, thread : {"none", "waiting", "feeding"}]

LEMMA SchedulesTyped ==
    ASSUME TypeOK, call' = call, setup' = setup, base' = base, park' = park, calls' = calls,
           tracking' \in BOOLEAN, scan' \in Scannings, past' \in Histories,
           NEW l \in BOOLEAN, NEW a \in BOOLEAN, NEW s \in BOOLEAN,
           flags' = [flags EXCEPT !.locked = l, !.active = a, !.scanning = s]
    PROVE  Schedules /\ flags'.locked = l /\ flags'.active = a
<1>1. flags \in Flags
  BY StateTyped
<1>2. /\ flags' \in Flags /\ flags'.locked = l /\ flags'.active = a
      /\ flags'.enabled = flags.enabled /\ flags'.configured = flags.configured
  BY <1>1 DEF Flags
<1>3. TypeOK'
  BY <1>2 DEF TypeOK, Flags, Scannings, Histories
<1> QED
  BY <1>2, <1>3 DEF Schedules

LEMMA ScanTyped ==
    ASSUME TypeOK
    PROVE  /\ scan \in Scannings /\ scan.was \in BOOLEAN
           /\ flags.locked \in BOOLEAN /\ flags.active \in BOOLEAN /\ flags.scanning \in BOOLEAN
           /\ flags.enabled \in BOOLEAN /\ flags.configured \in BOOLEAN
           /\ past \in Histories /\ past.doubted \in BOOLEAN /\ tracking \in BOOLEAN
           /\ flags = [flags EXCEPT !.locked = flags.locked, !.active = flags.active,
                                    !.scanning = flags.scanning]
<1>1. flags \in Flags /\ past \in Histories
  BY StateTyped
<1> QED
  BY <1>1 DEF TypeOK, Scannings, Flags, Histories

LEMMA StartScanSteps ==
    ASSUME TypeOK, StartScan
    PROVE  /\ Schedules /\ scan.call = "none" /\ scan' = [scan EXCEPT !.call = "starting"]
           /\ scan'.call = "starting" /\ scan'.was = scan.was /\ scan'.thread = scan.thread
           /\ ~flags.locked /\ flags'.locked /\ flags'.active = flags.active
           /\ tracking' = tracking
           /\ past'.crossed = UnderWay /\ past'.doubted = (past.doubted \/ UnderWay)
           /\ past'.joined = (UnderWay \/ setup = "moving")
<1>1. /\ scan.call = "none" /\ ~flags.locked
      /\ scan' = [scan EXCEPT !.call = "starting"]
      /\ flags' = [flags EXCEPT !.locked = TRUE, !.scanning = FALSE]
      /\ past' = [Crosses(UnderWay) EXCEPT !.joined = UnderWay \/ setup = "moving"]
      /\ base' = base /\ call' = call /\ setup' = setup /\ park' = park
      /\ tracking' = tracking /\ calls' = calls
  BY DEF StartScan
<1>2. UnderWay \in BOOLEAN /\ (setup = "moving") \in BOOLEAN
  BY StateTyped
<1>3. Crosses(UnderWay) \in Histories /\ Crosses(UnderWay).crossed = UnderWay
      /\ Crosses(UnderWay).doubted = (past.doubted \/ UnderWay)
  BY <1>2, CrossesTyped
<1>4. /\ past' \in Histories /\ past'.crossed = UnderWay
      /\ past'.doubted = (past.doubted \/ UnderWay)
      /\ past'.joined = (UnderWay \/ setup = "moving")
  BY <1>1, <1>2, <1>3 DEF Histories
<1>5. /\ scan' \in Scannings /\ scan'.call = "starting" /\ scan'.was = scan.was
      /\ scan'.thread = scan.thread
  BY <1>1, ScanTyped DEF Scannings
<1>6. flags' = [flags EXCEPT !.locked = TRUE, !.active = flags.active, !.scanning = FALSE]
  BY <1>1, StateTyped DEF Flags
<1>7. Schedules /\ flags'.locked /\ flags'.active = flags.active
  BY <1>1, <1>4, <1>5, <1>6, ScanTyped, SchedulesTyped
<1> QED
  BY <1>1, <1>4, <1>5, <1>7

LEMMA ScanRefusedSteps ==
    ASSUME TypeOK, ScanRefused
    PROVE  /\ Schedules /\ scan.call = "starting"
           /\ scan'.call = "none" /\ scan'.was = scan.was /\ scan'.thread = scan.thread
           /\ ~flags'.locked /\ flags'.active = flags.active
           /\ tracking' = tracking /\ past' = past
<1>1. /\ scan.call = "starting" /\ scan' = [scan EXCEPT !.call = "none"]
      /\ flags' = [flags EXCEPT !.locked = FALSE]
      /\ base' = base /\ call' = call /\ setup' = setup /\ park' = park
      /\ tracking' = tracking /\ calls' = calls /\ past' = past
  BY DEF ScanRefused
<1>2. /\ scan' \in Scannings /\ scan'.call = "none" /\ scan'.was = scan.was
      /\ scan'.thread = scan.thread
  BY <1>1, ScanTyped DEF Scannings
<1>3. flags' = [flags EXCEPT !.locked = FALSE, !.active = flags.active, !.scanning = flags.scanning]
  BY <1>1, StateTyped DEF Flags
<1>4. Schedules /\ ~flags'.locked /\ flags'.active = flags.active
  BY <1>1, <1>2, <1>3, ScanTyped, SchedulesTyped
<1> QED
  BY <1>1, <1>2, <1>4

LEMMA ScanReadsSteps ==
    ASSUME TypeOK, ScanReads
    PROVE  /\ Schedules /\ scan.call = "starting" /\ flags' = flags
           /\ scan'.call = "stopping" /\ scan'.was = flags.enabled /\ scan'.thread = scan.thread
           /\ tracking' = tracking /\ past' = past
<1>1. /\ scan.call = "starting" /\ scan' = [scan EXCEPT !.call = "stopping", !.was = flags.enabled]
      /\ flags' = flags /\ base' = base /\ call' = call /\ setup' = setup /\ park' = park
      /\ tracking' = tracking /\ calls' = calls /\ past' = past
  BY DEF ScanReads
<1>2. /\ scan' \in Scannings /\ scan'.call = "stopping" /\ scan'.was = flags.enabled
      /\ scan'.thread = scan.thread
  BY <1>1, ScanTyped DEF Scannings
<1>3. Schedules
  BY <1>1, <1>2, ScanTyped, SchedulesTyped
<1> QED
  BY <1>1, <1>2, <1>3

LEMMA ScanStopsSteps ==
    ASSUME TypeOK, ScanStops
    PROVE  /\ Schedules /\ scan.call = "stopping" /\ flags' = flags
           /\ scan'.call = "beginning" /\ scan'.was = scan.was /\ scan'.thread = scan.thread
           /\ tracking' = FALSE /\ past' = past
<1>1. /\ scan.call = "stopping" /\ scan' = [scan EXCEPT !.call = "beginning"]
      /\ flags' = flags /\ base' = base /\ call' = call /\ setup' = setup /\ park' = park
      /\ tracking' = FALSE /\ calls' = calls /\ past' = past
  BY DEF ScanStops
<1>2. /\ scan' \in Scannings /\ scan'.call = "beginning" /\ scan'.was = scan.was
      /\ scan'.thread = scan.thread
  BY <1>1, ScanTyped DEF Scannings
<1>3. Schedules
  BY <1>1, <1>2, ScanTyped, SchedulesTyped
<1> QED
  BY <1>1, <1>2, <1>3

LEMMA ScanBeginsSteps ==
    ASSUME TypeOK, ScanBegins
    PROVE  /\ Schedules /\ scan.call = "beginning"
           /\ scan'.call = "none" /\ scan'.was = scan.was /\ scan'.thread = "waiting"
           /\ flags'.locked = flags.locked /\ flags'.active
           /\ tracking' = tracking /\ past' = past
<1>1. /\ scan.call = "beginning" /\ scan' = [scan EXCEPT !.call = "none", !.thread = "waiting"]
      /\ flags' = [flags EXCEPT !.active = TRUE]
      /\ base' = base /\ call' = call /\ setup' = setup /\ park' = park
      /\ tracking' = tracking /\ calls' = calls /\ past' = past
  BY DEF ScanBegins
<1>2. /\ scan' \in Scannings /\ scan'.call = "none" /\ scan'.was = scan.was
      /\ scan'.thread = "waiting"
  BY <1>1, ScanTyped DEF Scannings
<1>3. flags' = [flags EXCEPT !.locked = flags.locked, !.active = TRUE, !.scanning = flags.scanning]
  BY <1>1, StateTyped DEF Flags
<1>4. Schedules /\ flags'.locked = flags.locked /\ flags'.active
  BY <1>1, <1>2, <1>3, ScanTyped, SchedulesTyped
<1> QED
  BY <1>1, <1>2, <1>4

LEMMA ScanFailsSteps ==
    ASSUME TypeOK, ScanFails
    PROVE  /\ Schedules /\ scan.call \in {"starting", "stopping", "beginning"}
           /\ scan'.call = "none" /\ scan'.was = scan.was /\ scan'.thread = scan.thread
           /\ ~flags'.locked /\ ~flags'.active
           /\ past'.crossed = past.crossed /\ past'.joined = past.joined
           /\ past'.doubted = (past.doubted \/ tracking' # tracking \/ (scan.call = "beginning" /\ scan.was))
<1>1. /\ scan.call \in {"starting", "stopping", "beginning"}
      /\ scan' = [scan EXCEPT !.call = "none"]
      /\ flags' = [flags EXCEPT !.locked = FALSE, !.active = FALSE, !.scanning = FALSE]
      /\ base' = base /\ call' = call /\ setup' = setup /\ park' = park /\ calls' = calls
      /\ past' = Doubts(tracking' # tracking \/ (scan.call = "beginning" /\ scan.was))
  BY DEF ScanFails
<1>2. /\ scan' \in Scannings /\ scan'.call = "none" /\ scan'.was = scan.was
      /\ scan'.thread = scan.thread
  BY <1>1, ScanTyped DEF Scannings
<1>3. tracking' \in BOOLEAN
  <2>1. TurnTrackingOff \subseteq Outcomes /\ Outcome(tracking, TRUE) \in Outcomes
    BY ScanTyped, SwitchAnswers, OutcomeTyped
  <2>2. PICK o \in Outcomes : tracking' = o.runs
    BY <2>1 DEF ScanFails
  <2> QED
    BY <2>2 DEF Outcomes
<1>4. (tracking' # tracking \/ (scan.call = "beginning" /\ scan.was)) \in BOOLEAN
  OBVIOUS
<1>5. /\ past' \in Histories /\ past'.crossed = past.crossed /\ past'.joined = past.joined
      /\ past'.doubted = (past.doubted \/ (tracking' # tracking \/ (scan.call = "beginning" /\ scan.was)))
  BY <1>1, <1>4, DoubtsTyped
<1>6. Schedules /\ ~flags'.locked /\ ~flags'.active
  BY <1>1, <1>2, <1>3, <1>5, SchedulesTyped
<1> QED
  BY <1>1, <1>2, <1>5, <1>6

LEMMA CloseScanSteps ==
    ASSUME TypeOK, CloseScan
    PROVE  /\ Schedules /\ scan.call = "none" /\ tracking' = tracking
           /\ ~flags'.locked /\ flags'.active = flags.active /\ past'.joined = past.joined
           /\ ~flags.active => scan' = scan /\ past' = past
           /\ flags.active =>
                  /\ scan'.call = "closing" /\ scan'.was = scan.was /\ scan'.thread = "none"
                  /\ past'.crossed = UnderWay /\ past'.doubted = (past.doubted \/ UnderWay)
<1>1. /\ scan.call = "none"
      /\ flags' = [flags EXCEPT !.locked = FALSE, !.scanning = FALSE]
      /\ scan' = IF flags.active THEN [scan EXCEPT !.call = "closing", !.thread = "none"] ELSE scan
      /\ past' = IF flags.active THEN Crosses(UnderWay) ELSE past
      /\ base' = base /\ call' = call /\ setup' = setup /\ park' = park
      /\ tracking' = tracking /\ calls' = calls
  BY DEF CloseScan
<1>2. /\ scan' \in Scannings
      /\ ~flags.active => scan' = scan
      /\ flags.active => scan'.call = "closing" /\ scan'.was = scan.was /\ scan'.thread = "none"
  BY <1>1, ScanTyped DEF Scannings
<1>3. UnderWay \in BOOLEAN
  BY StateTyped
<1>4. /\ past' \in Histories /\ past'.joined = past.joined
      /\ ~flags.active => past' = past
      /\ flags.active => past'.crossed = UnderWay /\ past'.doubted = (past.doubted \/ UnderWay)
  BY <1>1, <1>3, ScanTyped, CrossesTyped
<1>5. flags' = [flags EXCEPT !.locked = FALSE, !.active = flags.active, !.scanning = FALSE]
  BY <1>1, StateTyped DEF Flags
<1>6. Schedules /\ ~flags'.locked /\ flags'.active = flags.active
  BY <1>1, <1>2, <1>4, <1>5, ScanTyped, SchedulesTyped
<1> QED
  BY <1>1, <1>2, <1>4, <1>6

LEMMA CloseScanFailsSteps ==
    ASSUME TypeOK, CloseScanFails
    PROVE  /\ Schedules /\ scan.call = "none" /\ flags.active /\ flags' = flags
           /\ tracking' = tracking /\ past' = past
           /\ scan'.call = "none" /\ scan'.was = scan.was /\ scan'.thread \in {"none", scan.thread}
<1>1. /\ scan.call = "none" /\ flags.active
      /\ scan' = scan \/ scan' = [scan EXCEPT !.thread = "none"]
      /\ flags' = flags /\ base' = base /\ call' = call /\ setup' = setup /\ park' = park
      /\ tracking' = tracking /\ calls' = calls /\ past' = past
  BY DEF CloseScanFails
<1>2. /\ scan' \in Scannings /\ scan'.call = "none" /\ scan'.was = scan.was
      /\ scan'.thread \in {"none", scan.thread}
  BY <1>1, ScanTyped DEF Scannings
<1>3. Schedules
  BY <1>1, <1>2, ScanTyped, SchedulesTyped
<1> QED
  BY <1>1, <1>2, <1>3

LEMMA ScanClosesSteps ==
    ASSUME TypeOK, ScanCloses
    PROVE  /\ Schedules /\ scan.call = "closing" /\ tracking' = tracking
           /\ scan'.was = scan.was /\ scan'.thread = scan.thread
           /\ flags'.locked = flags.locked
           /\ past'.crossed = past.crossed /\ past'.joined = past.joined
           /\ \/ scan.was /\ scan'.call = "restoring" /\ flags' = flags /\ past' = past
              \/ ~scan.was /\ scan'.call = "none" /\ ~flags'.active /\ past' = past
              \/ scan'.call = "none" /\ flags' = flags /\ past'.doubted
<1>1. /\ scan.call = "closing"
      /\ base' = base /\ call' = call /\ setup' = setup /\ park' = park
      /\ tracking' = tracking /\ calls' = calls
  BY DEF ScanCloses
<1>2. CASE scan.was /\ scan' = [scan EXCEPT !.call = "restoring"] /\ flags' = flags /\ past' = past
  <2>1. /\ scan' \in Scannings /\ scan'.call = "restoring" /\ scan'.was = scan.was
        /\ scan'.thread = scan.thread
    BY <1>2, ScanTyped DEF Scannings
  <2>2. Schedules
    BY <1>1, <1>2, <2>1, ScanTyped, SchedulesTyped
  <2> QED
    BY <1>1, <1>2, <2>1, <2>2
<1>3. CASE /\ ~scan.was /\ scan' = [scan EXCEPT !.call = "none"]
           /\ flags' = [flags EXCEPT !.active = FALSE] /\ past' = past
  <2>1. /\ scan' \in Scannings /\ scan'.call = "none" /\ scan'.was = scan.was
        /\ scan'.thread = scan.thread
    BY <1>3, ScanTyped DEF Scannings
  <2>2. flags' = [flags EXCEPT !.locked = flags.locked, !.active = FALSE, !.scanning = flags.scanning]
    BY <1>3, StateTyped DEF Flags
  <2>3. past' = past /\ ~scan.was
    BY <1>3
  <2>4. Schedules /\ flags'.locked = flags.locked /\ ~flags'.active
    BY <1>1, <2>1, <2>2, <2>3, ScanTyped, SchedulesTyped
  <2> QED
    BY <1>1, <2>1, <2>3, <2>4
<1>4. CASE scan' = [scan EXCEPT !.call = "none"] /\ flags' = flags /\ past' = Doubts(TRUE)
  <2>1. /\ scan' \in Scannings /\ scan'.call = "none" /\ scan'.was = scan.was
        /\ scan'.thread = scan.thread
    BY <1>4, ScanTyped DEF Scannings
  <2>2. /\ past' \in Histories /\ past'.doubted
        /\ past'.crossed = past.crossed /\ past'.joined = past.joined
    BY <1>4, DoubtsTyped
  <2>3. flags' = flags
    BY <1>4
  <2>4. Schedules
    BY <1>1, <2>1, <2>2, <2>3, ScanTyped, SchedulesTyped
  <2> QED
    BY <1>1, <2>1, <2>2, <2>3, <2>4
<1> QED
  BY <1>2, <1>3, <1>4 DEF ScanCloses

LEMMA ScanRestoresSteps ==
    ASSUME TypeOK, ScanRestores
    PROVE  /\ Schedules /\ scan.call = "restoring"
           /\ scan'.call = "none" /\ scan'.was = scan.was /\ scan'.thread = scan.thread
           /\ flags'.locked = flags.locked
           /\ past'.crossed = past.crossed /\ past'.joined = past.joined
           /\ past'.doubted \/ (tracking' /\ ~flags'.active /\ past'.doubted = past.doubted)
<1>1. PICK o \in TurnTrackingOn : /\ tracking' = o.runs
                                  /\ flags' = [flags EXCEPT !.active = o.raised]
                                  /\ past' = Doubts(o.raised)
  BY DEF ScanRestores
<1>2. /\ scan.call = "restoring" /\ scan' = [scan EXCEPT !.call = "none"]
      /\ base' = base /\ call' = call /\ setup' = setup /\ park' = park /\ calls' = calls
  BY DEF ScanRestores
<1>3. o.runs \in BOOLEAN /\ o.raised \in BOOLEAN /\ (~o.raised => o.runs)
  BY ScanTyped, SwitchAnswers DEF Outcomes
<1>4. /\ scan' \in Scannings /\ scan'.call = "none" /\ scan'.was = scan.was
      /\ scan'.thread = scan.thread
  BY <1>2, ScanTyped DEF Scannings
<1>5. /\ past' \in Histories /\ past'.doubted = (past.doubted \/ o.raised)
      /\ past'.crossed = past.crossed /\ past'.joined = past.joined
  BY <1>1, <1>3, DoubtsTyped
<1>6. flags' = [flags EXCEPT !.locked = flags.locked, !.active = o.raised, !.scanning = flags.scanning]
  BY <1>1, StateTyped DEF Flags
<1>7. Schedules /\ flags'.locked = flags.locked /\ flags'.active = o.raised
  BY <1>1, <1>2, <1>3, <1>4, <1>5, <1>6, ScanTyped, SchedulesTyped
<1> QED
  BY <1>1, <1>2, <1>3, <1>4, <1>5, <1>7, ScanTyped

LEMMA SchedulerKeeps ==
    ASSUME ServoInvariant, Scheduler
    PROVE  ServoInvariant'
<1>1. TypeOK
  BY DEF ServoInvariant
<1>2. CASE StartScan
  <2>1. /\ Schedules /\ scan.call = "none" /\ scan'.call = "starting" /\ scan'.thread = scan.thread
        /\ ~flags.locked /\ flags'.locked /\ past'.joined = (UnderWay \/ setup = "moving")
    BY <1>1, <1>2, StartScanSteps
  <2>2. scan.thread = "none"
    BY <2>1 DEF ServoInvariant, ScanFlagged
  <2>3. ASSUME ~past'.joined PROVE setup' = "none" /\ \A c \in Clients : Harmless(c)'
    BY <1>1, <2>1, <2>3 DEF UnderWay, Schedules, Harmless, TypeOK
  <2> QED
    BY <2>1, <2>2, <2>3 DEF ServoInvariant, ScanFlagged, ScanUnjoined, Schedules, Configures
<1>3. CASE \/ ScanRefused \/ ScanReads \/ ScanStops \/ ScanBegins \/ ScanFails \/ CloseScan
           \/ CloseScanFails \/ ScanCloses \/ ScanRestores
  <2>1. Schedules /\ past'.joined = past.joined
    BY <1>1, <1>3, ScanRefusedSteps, ScanReadsSteps, ScanStopsSteps, ScanBeginsSteps, ScanFailsSteps,
       CloseScanSteps, CloseScanFailsSteps, ScanClosesSteps, ScanRestoresSteps
  <2>2. ScanCommanded' => ScanCommanded
    BY <1>1, <1>3, ScanRefusedSteps, ScanReadsSteps, ScanStopsSteps, ScanBeginsSteps, ScanFailsSteps,
       CloseScanSteps, CloseScanFailsSteps, ScanClosesSteps, ScanRestoresSteps
       DEF ScanCommanded
  <2>3. ScanFlagged'
    BY <1>1, <1>3, ScanRefusedSteps, ScanReadsSteps, ScanStopsSteps, ScanBeginsSteps, ScanFailsSteps,
       CloseScanSteps, CloseScanFailsSteps, ScanClosesSteps, ScanRestoresSteps
       DEF ServoInvariant, ScanFlagged
  <2>4. ASSUME scan'.call = "beginning" \/ scan'.thread # "none"
        PROVE  ~tracking' \/ ((scan.call = "beginning" \/ scan.thread # "none") /\ tracking' = tracking)
    BY <1>1, <1>3, <2>4, ScanRefusedSteps, ScanReadsSteps, ScanStopsSteps, ScanBeginsSteps, ScanFailsSteps,
       CloseScanSteps, CloseScanFailsSteps, ScanClosesSteps, ScanRestoresSteps
       DEF ServoInvariant, ScanFlagged
  <2> QED
    BY <2>1, <2>2, <2>3, <2>4 DEF ServoInvariant, ScanUnjoined, Schedules, Configures, Harmless
<1> QED
  BY <1>2, <1>3 DEF Scheduler

--------------------------------------------------------------------------------
LEMMA ServoStarts == Init => ServoInvariant
<1> SUFFICES ASSUME Init PROVE ServoInvariant
  OBVIOUS
<1>1. TypeOK
  <2>1. calls \in 0 .. MaxCalls
    BY ServoBounds DEF Init
  <2>2. flags \in Flags /\ past \in Histories /\ scan \in Scannings
    BY DEF Init, Flags, Histories, Scannings
  <2>3. base \in Configurations /\ call \in [Clients -> {Idle} \cup Calls]
    BY DEF Init, Configurations
  <2> QED
    BY <2>1, <2>2, <2>3 DEF Init, TypeOK, Flags, Histories, Scannings, Calls
<1> QED
  BY <1>1 DEF Init, ServoInvariant, ScanFlagged, ScanUnjoined, ScanCommanded, Configures, Idle

LEMMA ServoStepKeeps ==
    ASSUME ServoInvariant, [Next]_vars
    PROVE  ServoInvariant'
<1>1. CASE UNCHANGED vars
  BY <1>1 DEF vars, ServoInvariant, TypeOK, ScanFlagged, ScanUnjoined, ScanCommanded, Configures, Harmless
<1>2. CASE Next
  BY <1>2, CommandKeeps, ProceedKeeps, ThreadsKeep, SchedulerKeeps DEF Next
<1> QED
  BY <1>1, <1>2

LEMMA ServoInvariantHolds == Spec => []ServoInvariant
BY ServoStarts, ServoStepKeeps, PTL DEF Spec

\* The flags, the threads, the scan and the place of every client in its operation are
\* what TypeOK says, for any number of clients and whatever goes wrong.
THEOREM ServoTypeCorrect == Spec => []TypeOK
<1>1. ServoInvariant => TypeOK
  BY DEF ServoInvariant
<1> QED
  BY <1>1, ServoInvariantHolds, PTL

\* A scan has its servo for itself: while the scan thread runs the tracking thread does
\* not, unless somebody asked for the tracking during the scan, or an operation or a
\* setup was under way when the scan was commanded.
THEOREM ScanAloneAlways == Spec => []ScanAlone
<1>1. ServoInvariant => ScanAlone
  BY DEF ServoInvariant, ScanUnjoined, ScanCommanded, ScanAlone
<1> QED
  BY <1>1, ServoInvariantHolds, PTL

--------------------------------------------------------------------------------
(* The tracking is what its flag says.                                     *)

TailUnderWay == setup \in {"last", "start"}

\* The flag is what a switch of the tracking was asked for.
Asked(c) ==
    /\ call[c].op = "on" => flags.enabled /\ call[c].at \in {"look", "start"}
    /\ call[c].op = "off" => ~flags.enabled /\ call[c].at \in {"look", "stop"}

\* One at a time, and none in a scan.
Uncrossed ==
    /\ \A c, d \in Clients : call[c].op # "none" /\ call[d].op # "none" => c = d
    /\ \A c \in Clients : call[c].op # "none" => ~TailUnderWay /\ Asked(c)
    /\ setup = "start" => flags.enabled
    /\ UnderWay => ~InScan

\* Without a configuration the flag may be set and the thread not run.
Agreed ==
    /\ ~flags.enabled => ~tracking
    /\ flags.configured => (tracking <=> flags.enabled)

\* What is known at each place of an operation that nothing has crossed.
GregorianTrue(c) ==
    call[c].op = "gregorian" =>
        /\ call[c].at \in {"look", "start", "check", "init", "clear", "load", "wait"}
        /\ call[c].at \in {"look", "start"} => flags.enabled
        /\ call[c].at \notin {"look", "start"} => Agreed
        /\ call[c].at = "clear" => base = "gregorian"

PrimaryTrue(c) ==
    call[c].op = "primary" =>
        /\ call[c].at \in {"stop", "check", "init", "clear", "load", "wait"}
        /\ call[c].at # "stop" => ~tracking
        /\ call[c].at = "clear" => base = "primary"
        /\ call[c].at \in {"load", "wait"} => ~flags.enabled

ParkTrue(c) ==
    call[c].op = "park" =>
        /\ call[c].at \in {"look", "stop", "raise"}
        /\ ~flags.enabled
        /\ call[c].at = "raise" => ~tracking

SurfaceTrue(c) ==
    call[c].op = "surface" =>
        /\ call[c].at \in {"stop", "init", "clear", "load", "restore", "start"}
        /\ call[c].at \in {"stop", "init", "clear"} => (call[c].was <=> flags.enabled)
        /\ call[c].at \in {"load", "restore", "start"} =>
               (flags.enabled <=> call[c].was /\ base # "primary")
        /\ call[c].at \in {"restore", "start"} => call[c].was
        /\ call[c].at # "stop" => ~tracking

ClientTrue(c) == GregorianTrue(c) /\ PrimaryTrue(c) /\ ParkTrue(c) /\ SurfaceTrue(c)

\* From the stop of the tracking to the end of the scan.
ScanTrue ==
    /\ scan.call \in {"stopping", "beginning"} \/ flags.active => (scan.was <=> flags.enabled)
    /\ scan.call = "beginning" \/ flags.active => ~tracking
    /\ flags.active => scan.call \in {"closing", "restoring"} \/ (scan.call = "none" /\ flags.locked)
    /\ scan.call = "restoring" => scan.was

Truth ==
    /\ \A c \in Clients : ClientTrue(c)
    /\ TailUnderWay => (~flags.enabled => ~tracking)
    /\ ~UnderWay /\ ~flags.active /\ scan.call # "beginning" => Agreed
    /\ ScanTrue

TruthInvariant ==
    /\ past.crossed => past.doubted
    /\ past.crossed \/ Uncrossed
    /\ past.doubted \/ Truth

\* An operation that nothing has crossed is alone.
LEMMA Alone ==
    ASSUME TypeOK, Uncrossed, NEW c \in Clients, call[c].op # "none"
    PROVE  /\ \A d \in Clients : d # c => call[d].op = "none"
           /\ setup \notin {"last", "start"} /\ ~flags.locked /\ ~flags.active /\ UnderWay
BY DEF Uncrossed, UnderWay, TailUnderWay, InScan

\* What is left to show of its steps.
LEMMA StepTrue ==
    ASSUME ServoInvariant, Uncrossed, NEW c \in Clients, Steps(c),
           setup' \notin {"last", "start"}, Asked(c)'
    PROVE  /\ Uncrossed'
           /\ ClientTrue(c)' /\ (call'[c].op = "none" => Agreed') => Truth'
<1>1. /\ \A d \in Clients : d # c => call[d].op = "none"
      /\ ~flags.locked /\ ~flags.active
  BY Alone DEF ServoInvariant, Steps
<1>2. \A d \in Clients : d # c => call'[d].op = "none"
  BY <1>1 DEF Steps, Moves
<1>3. ~InScan' /\ ~flags'.active /\ scan' = scan
  BY <1>1 DEF InScan, Steps
<1>4. scan.call \notin {"starting", "stopping", "beginning", "closing", "restoring"}
  BY <1>1 DEF ServoInvariant, ScanFlagged
<1>5. ~TailUnderWay'
  BY DEF TailUnderWay
<1>6. Uncrossed'
  BY <1>2, <1>3, <1>5 DEF Uncrossed, TailUnderWay
<1>7. ASSUME ClientTrue(c)', call'[c].op = "none" => Agreed' PROVE Truth'
  <2>1. \A d \in Clients : ClientTrue(d)'
    BY <1>2, <1>7 DEF ClientTrue, GregorianTrue, PrimaryTrue, ParkTrue, SurfaceTrue
  <2>2. ScanTrue'
    BY <1>3, <1>4 DEF ScanTrue
  <2>3. call'[c].op # "none" => UnderWay'
    BY DEF UnderWay
  <2> QED
    BY <1>5, <1>7, <2>1, <2>2, <2>3 DEF Truth
<1> QED
  BY <1>6, <1>7

\* An operation that has returned, and one on the way to its next place.
LEMMA ReturnedTrue ==
    ASSUME NEW c \in Clients, call'[c] = Idle
    PROVE  ClientTrue(c)' /\ Asked(c)' /\ call'[c].op = "none"
BY DEF Idle, ClientTrue, GregorianTrue, PrimaryTrue, ParkTrue, SurfaceTrue, Asked

--------------------------------------------------------------------------------
LEMMA CommandTrue ==
    ASSUME ServoInvariant, TruthInvariant, NEW c \in Clients, Command(c)
    PROVE  TruthInvariant'
<1>1. TypeOK /\ flags \in Flags /\ past \in Histories
  BY StateTyped DEF ServoInvariant
<1>2. PICK op \in Operations, at \in Places, was \in BOOLEAN, e \in BOOLEAN :
               /\ Begins(c, op, at, was)
               /\ flags' = [flags EXCEPT !.enabled = e]
               /\ op \in {"on", "gregorian"} => e
               /\ op \in {"off", "park"} => ~e /\ at \in {"look", "raise"}
               /\ op \in {"primary", "surface"} => e = flags.enabled
               /\ op \in {"on", "off"} => at = "look"
               /\ op = "gregorian" => at = IF flags.enabled THEN "check" ELSE "look"
               /\ op = "primary" => at = IF flags.enabled THEN "stop" ELSE "check"
               /\ op = "park" => at = IF flags.enabled THEN "look" ELSE "raise"
               /\ op = "surface" => at = "stop" /\ was = flags.enabled
  BY <1>1, CommandBegins
<1>3. /\ call'[c].op = op /\ call'[c].at = at /\ call'[c].was = was
      /\ \A d \in Clients : d # c => call'[d] = call[d]
      /\ past'.crossed = (UnderWay \/ InScan)
      /\ past'.doubted = (past.doubted \/ UnderWay \/ InScan)
      /\ base' = base /\ setup' = setup /\ scan' = scan /\ tracking' = tracking
  BY <1>1, <1>2, BeginsTyped
<1>4. /\ flags'.enabled = e /\ flags'.configured = flags.configured
      /\ flags'.locked = flags.locked /\ flags'.active = flags.active
  BY <1>1, <1>2 DEF Flags
<1>5. CASE UnderWay \/ InScan
  BY <1>3, <1>5 DEF TruthInvariant
<1>6. CASE ~UnderWay /\ ~InScan
  <2>1. /\ \A d \in Clients : call[d].op = "none"
        /\ ~TailUnderWay /\ ~flags.locked /\ ~flags.active
    BY <1>6 DEF UnderWay, InScan, TailUnderWay
  <2>2. /\ \A d \in Clients : d # c => call'[d].op = "none"
        /\ ~TailUnderWay' /\ ~InScan' /\ ~flags'.active
    BY <1>3, <1>4, <2>1 DEF InScan, TailUnderWay
  <2>3. op \in {"on", "off", "park", "surface", "gregorian", "primary"}
    BY DEF Operations, Configurations
  <2>4. Asked(c)'
    BY <1>2, <1>3, <1>4 DEF Asked
  <2>5. Uncrossed'
    BY <2>2, <2>4 DEF Uncrossed, TailUnderWay
  <2>6. scan.call \notin {"starting", "stopping", "beginning", "closing", "restoring"}
    BY <2>1 DEF ServoInvariant, ScanFlagged
  <2>7. ASSUME ~past.doubted PROVE Truth'
    <3>1. Agreed
      BY <1>6, <2>1, <2>6, <2>7 DEF TruthInvariant, Truth
    <3>2. GregorianTrue(c)'
      BY <1>2, <1>3, <1>4, <3>1 DEF GregorianTrue, Agreed
    <3>3. PrimaryTrue(c)'
      BY <1>2, <1>3, <1>4, <3>1 DEF PrimaryTrue, Agreed
    <3>4. ParkTrue(c)'
      BY <1>2, <1>3, <1>4, <3>1 DEF ParkTrue, Agreed
    <3>5. SurfaceTrue(c)'
      BY <1>2, <1>3, <1>4 DEF SurfaceTrue
    <3>6. \A d \in Clients : ClientTrue(d)'
      BY <2>2, <3>2, <3>3, <3>4, <3>5 DEF ClientTrue, GregorianTrue, PrimaryTrue, ParkTrue, SurfaceTrue
    <3>7. ScanTrue'
      BY <1>3, <2>2, <2>6 DEF ScanTrue
    <3>8. UnderWay'
      BY <1>3, <2>3 DEF UnderWay
    <3> QED
      BY <2>2, <3>6, <3>7, <3>8 DEF Truth
  <2> QED
    BY <1>3, <1>6, <2>5, <2>7 DEF TruthInvariant
<1> QED
  BY <1>5, <1>6

--------------------------------------------------------------------------------
(* The steps of an operation that nothing has crossed.                     *)

LEMMA LookTrue ==
    ASSUME ServoInvariant, Uncrossed, NEW c \in Clients, Look(c), past.doubted \/ Truth
    PROVE  Uncrossed' /\ (past'.doubted \/ Truth')
<1>1. TypeOK
  BY DEF ServoInvariant
<1>2. /\ Steps(c) /\ call[c].at = "look"
      /\ flags' = flags /\ base' = base /\ setup' = setup /\ tracking' = tracking
      /\ \/ ~flags.configured /\ SwitchDone(c) /\ past'.doubted = (past.doubted \/ (~flags.enabled /\ tracking))
         \/ flags.enabled /\ SwitchRaises(c) /\ past'.doubted
         \/ flags.enabled /\ call'[c].op = call[c].op /\ call'[c].at = "start" /\ past' = past
         \/ ~flags.enabled /\ call'[c].op = call[c].op /\ call'[c].at = "stop" /\ past' = past
  BY <1>1, LookSteps
<1>3. call[c].op # "none" /\ setup' \notin {"last", "start"}
  BY <1>1, <1>2, Alone DEF Steps
<1>4. call[c].op \in {"on", "off", "park", "surface", "gregorian", "primary"}
  BY <1>1, <1>3, CallTyped DEF Operations, Configurations
<1>5. ASSUME SwitchDone(c) PROVE call[c].op \in {"on", "off"} => call'[c] = Idle
  BY <1>1, <1>2, <1>5, SwitchDoneMoves
<1>6. ASSUME SwitchRaises(c) PROVE call[c].op \in {"on", "off"} => call'[c] = Idle
  BY <1>1, <1>2, <1>6, SwitchRaisesMoves
<1>7. call'[c] = Idle \/ call'[c].op = call[c].op
  BY <1>2 DEF Steps, Moves
<1>8. Asked(c)'
  BY <1>2, <1>3, <1>5, <1>6, <1>7, ReturnedTrue DEF Asked, Uncrossed
<1>9. Uncrossed' /\ (ClientTrue(c)' /\ (call'[c].op = "none" => Agreed') => Truth')
  BY <1>2, <1>3, <1>8, StepTrue
<1>10. ASSUME ~past'.doubted PROVE Truth'
  <2>1. ~past.doubted
    BY <1>2, <1>10
  <2>2. ClientTrue(c)
    BY <2>1 DEF Truth
  <2>3. call[c].op \in {"on", "off", "park", "gregorian"}
    BY <1>2, <1>4, <2>2 DEF ClientTrue, PrimaryTrue, SurfaceTrue
  <2>4. CASE ~flags.configured /\ SwitchDone(c) /\ ~(~flags.enabled /\ tracking)
    <3>1. Agreed'
      BY <1>2, <2>4 DEF Agreed
    <3>2. CASE call[c].op \in {"on", "off"}
      BY <1>5, <1>9, <2>4, <3>1, <3>2, ReturnedTrue
    <3>3. CASE call[c].op = "gregorian"
      <4>1. call'[c].op = "gregorian" /\ call'[c].at = "check"
        BY <1>1, <1>2, <2>4, <3>3, SwitchDoneMoves DEF Configurations
      <4>2. ClientTrue(c)'
        BY <3>1, <4>1 DEF ClientTrue, GregorianTrue, PrimaryTrue, ParkTrue, SurfaceTrue
      <4> QED
        BY <1>9, <4>1, <4>2
    <3>4. CASE call[c].op = "park"
      <4>1. call'[c].op = "park" /\ call'[c].at = "raise"
        BY <1>1, <1>2, <2>4, <3>4, SwitchDoneMoves
      <4>2. ClientTrue(c)'
        BY <1>2, <2>2, <2>4, <3>4, <4>1 DEF ClientTrue, GregorianTrue, PrimaryTrue, ParkTrue, SurfaceTrue
      <4> QED
        BY <1>9, <4>1, <4>2
    <3> QED
      BY <2>3, <3>2, <3>3, <3>4
  <2>5. CASE flags.enabled /\ call'[c].op = call[c].op /\ call'[c].at = "start"
    <3>1. call[c].op \in {"on", "gregorian"}
      BY <1>2, <1>3, <2>2, <2>3, <2>5 DEF ClientTrue, ParkTrue, Uncrossed, Asked
    <3>2. ClientTrue(c)'
      BY <1>2, <2>5, <3>1 DEF ClientTrue, GregorianTrue, PrimaryTrue, ParkTrue, SurfaceTrue
    <3> QED
      BY <1>3, <1>9, <2>5, <3>2
  <2>6. CASE ~flags.enabled /\ call'[c].op = call[c].op /\ call'[c].at = "stop"
    <3>1. call[c].op \in {"off", "park"}
      BY <1>2, <1>3, <2>2, <2>3, <2>6 DEF ClientTrue, GregorianTrue, Uncrossed, Asked
    <3>2. ClientTrue(c)'
      BY <1>2, <2>6, <3>1 DEF ClientTrue, GregorianTrue, PrimaryTrue, ParkTrue, SurfaceTrue
    <3> QED
      BY <1>3, <1>9, <2>6, <3>2
  <2> QED
    BY <1>2, <1>10, <2>4, <2>5, <2>6
<1> QED
  BY <1>9, <1>10

\* The switch of setElevationTracking settles the matter; the others go on.
LEMMA TurnsTrue ==
    ASSUME ServoInvariant, Uncrossed, ~past.crossed, NEW c \in Clients, TurnOn(c) \/ TurnOff(c),
           past.doubted \/ Truth
    PROVE  Uncrossed' /\ (past'.doubted \/ Truth')
<1>1. TypeOK
  BY DEF ServoInvariant
<1>2. PICK o \in Outcomes :
               /\ Switched(c, o) /\ call[c].at \in {"start", "stop"}
               /\ call[c].at = "start" => (~o.raised => o.runs)
               /\ call[c].at = "stop" => (o.runs => tracking) /\ (~o.raised => ~o.runs)
  BY <1>1, TurnsSteps
<1>3. /\ Steps(c)
      /\ flags' = flags /\ base' = base /\ setup' = setup /\ tracking' = o.runs
      /\ o.raised => SwitchRaises(c) /\ past'.doubted
      /\ ~o.raised =>
             /\ SwitchDone(c)
             /\ call[c].op \in {"on", "off"} => past'.doubted = (past.doubted /\ past.crossed)
             /\ call[c].op \notin {"on", "off"} =>
                    past'.doubted = (past.doubted \/ (call[c].op = "surface" /\ call[c].at = "start" /\ base = "primary"))
  BY <1>1, <1>2, SwitchedSteps
<1>4. call[c].op # "none" /\ setup' \notin {"last", "start"}
  BY <1>1, <1>3, Alone DEF Steps
<1>5. call[c].op \in {"on", "off", "park", "surface", "gregorian", "primary"}
  BY <1>1, <1>4, CallTyped DEF Operations, Configurations
<1>6. call[c].op \in {"on", "off"} => call'[c] = Idle
  BY <1>1, <1>2, <1>3, SwitchDoneMoves, SwitchRaisesMoves DEF Outcomes
<1>7. Asked(c)'
  <2>1. call'[c] = Idle \/ call'[c].op = call[c].op
    BY <1>3 DEF Steps, Moves
  <2> QED
    BY <1>6, <2>1, ReturnedTrue DEF Asked
<1>8. Uncrossed' /\ (ClientTrue(c)' /\ (call'[c].op = "none" => Agreed') => Truth')
  BY <1>3, <1>4, <1>7, StepTrue
<1>9. ASSUME ~past'.doubted PROVE Truth'
  <2>1. ~o.raised /\ SwitchDone(c)
    BY <1>3, <1>9 DEF Outcomes
  <2>2. CASE call[c].op \in {"on", "off"}
    <3>1. Agreed'
      BY <1>2, <1>3, <1>4, <2>1, <2>2 DEF Uncrossed, Asked, Agreed
    <3> QED
      BY <1>6, <1>8, <2>2, <3>1, ReturnedTrue
  <2>3. CASE call[c].op \notin {"on", "off"}
    <3>1. ~past.doubted /\ ~(call[c].op = "surface" /\ call[c].at = "start" /\ base = "primary")
      BY <1>3, <1>9, <2>1, <2>3
    <3>2. ClientTrue(c)
      BY <3>1 DEF Truth
    <3>3. CASE call[c].op = "park"
      <4>1. call'[c].op = "park" /\ call'[c].at = "raise"
        BY <1>1, <1>2, <2>1, <3>3, SwitchDoneMoves
      <4>2. ~flags.enabled /\ call[c].at = "stop"
        BY <1>2, <3>2, <3>3 DEF ClientTrue, ParkTrue
      <4>3. ClientTrue(c)'
        BY <1>2, <1>3, <2>1, <4>1, <4>2 DEF ClientTrue, GregorianTrue, PrimaryTrue, ParkTrue, SurfaceTrue
      <4> QED
        BY <1>8, <4>1, <4>3
    <3>4. CASE call[c].op = "gregorian"
      <4>1. call'[c].op = "gregorian" /\ call'[c].at = "check"
        BY <1>1, <1>2, <2>1, <3>4, SwitchDoneMoves DEF Configurations
      <4>2. flags.enabled /\ call[c].at = "start"
        BY <1>2, <3>2, <3>4 DEF ClientTrue, GregorianTrue
      <4>3. ClientTrue(c)'
        BY <1>2, <1>3, <2>1, <4>1, <4>2
           DEF ClientTrue, GregorianTrue, PrimaryTrue, ParkTrue, SurfaceTrue, Agreed
      <4> QED
        BY <1>8, <4>1, <4>3
    <3>5. CASE call[c].op = "primary"
      <4>1. call'[c].op = "primary" /\ call'[c].at = "check"
        BY <1>1, <1>2, <2>1, <3>5, SwitchDoneMoves DEF Configurations
      <4>2. call[c].at = "stop"
        BY <1>2, <3>2, <3>5 DEF ClientTrue, PrimaryTrue
      <4>3. ClientTrue(c)'
        BY <1>2, <1>3, <2>1, <4>1, <4>2 DEF ClientTrue, GregorianTrue, PrimaryTrue, ParkTrue, SurfaceTrue
      <4> QED
        BY <1>8, <4>1, <4>3
    <3>6. CASE call[c].op = "surface" /\ call[c].at = "stop"
      <4>1. call'[c].op = "surface" /\ call'[c].at = "init"
        BY <1>1, <1>2, <2>1, <3>6, SwitchDoneMoves
      <4>2. call'[c].was = call[c].was
        BY <1>3, <4>1 DEF Steps, Moves, Idle
      <4>3. ClientTrue(c)'
        BY <1>2, <1>3, <2>1, <3>2, <3>6, <4>1, <4>2
           DEF ClientTrue, GregorianTrue, PrimaryTrue, ParkTrue, SurfaceTrue
      <4> QED
        BY <1>8, <4>1, <4>3
    <3>7. CASE call[c].op = "surface" /\ call[c].at = "start"
      <4>1. call'[c] = Idle
        BY <1>1, <1>2, <2>1, <3>7, SwitchDoneMoves
      <4>2. flags.enabled
        BY <3>1, <3>2, <3>7 DEF ClientTrue, SurfaceTrue
      <4>3. Agreed'
        BY <1>2, <1>3, <2>1, <3>7, <4>2 DEF Agreed
      <4> QED
        BY <1>8, <4>1, <4>3, ReturnedTrue
    <3> QED
      BY <1>2, <1>5, <2>3, <3>3, <3>4, <3>5, <3>6, <3>7
  <2> QED
    BY <2>2, <2>3
<1> QED
  BY <1>8, <1>9

LEMMA CheckTrue ==
    ASSUME ServoInvariant, Uncrossed, NEW c \in Clients, Check(c), past.doubted \/ Truth
    PROVE  Uncrossed' /\ (past'.doubted \/ Truth')
<1>1. TypeOK
  BY DEF ServoInvariant
<1>2. /\ Steps(c) /\ call[c].at = "check"
      /\ flags' = flags /\ base' = base /\ setup' = setup /\ tracking' = tracking
      /\ \/ call'[c] = Idle /\ past'.doubted
         \/ call'[c].op = call[c].op /\ call'[c].at = "init" /\ past' = past
  BY <1>1, CheckSteps
<1>3. call[c].op \in Configurations \cup {"surface"} /\ setup' \notin {"last", "start"}
  BY <1>1, <1>2, Alone DEF Steps, ServoInvariant, Configures
<1>4. Asked(c)'
  BY <1>2, <1>3, ReturnedTrue DEF Asked, Configurations
<1>5. Uncrossed' /\ (ClientTrue(c)' /\ (call'[c].op = "none" => Agreed') => Truth')
  BY <1>2, <1>3, <1>4, StepTrue
<1>6. ASSUME ~past'.doubted PROVE Truth'
  <2>1. /\ ClientTrue(c) /\ call'[c].op = call[c].op /\ call'[c].at = "init" /\ call[c].op # "surface"
    BY <1>2, <1>6 DEF Truth, ClientTrue, SurfaceTrue
  <2>2. GregorianTrue(c)' /\ PrimaryTrue(c)' /\ ParkTrue(c)' /\ SurfaceTrue(c)'
    BY <1>2, <1>3, <2>1
       DEF ClientTrue, GregorianTrue, PrimaryTrue, ParkTrue, SurfaceTrue, Agreed, Configurations
  <2> QED
    BY <1>2, <1>5, <2>1, <2>2 DEF ClientTrue, Steps
<1> QED
  BY <1>5, <1>6

LEMMA InitBeginsTrue ==
    ASSUME ServoInvariant, Uncrossed, NEW c \in Clients, InitBegins(c), past.doubted \/ Truth
    PROVE  Uncrossed' /\ (past'.doubted \/ Truth')
<1>1. TypeOK /\ Configures(c)
  BY DEF ServoInvariant
<1>2. /\ Steps(c) /\ call[c].at = "init"
      /\ flags'.enabled = flags.enabled /\ flags'.configured = flags.configured
      /\ setup' = setup /\ tracking' = tracking
      /\ \/ call'[c] = Idle /\ past'.doubted
         \/ /\ call'[c].op = call[c].op /\ call'[c].at = "clear" /\ past' = past
            /\ base' = IF call[c].op = "surface" THEN base ELSE call[c].op
  BY <1>1, InitBeginsSteps
<1>3. call[c].op \in Configurations \cup {"surface"} /\ setup' \notin {"last", "start"}
  BY <1>1, <1>2, Alone DEF Steps, Configures
<1>4. Asked(c)'
  BY <1>2, <1>3, ReturnedTrue DEF Asked, Configurations
<1>5. Uncrossed' /\ (ClientTrue(c)' /\ (call'[c].op = "none" => Agreed') => Truth')
  BY <1>2, <1>3, <1>4, StepTrue
<1>6. ASSUME ~past'.doubted PROVE Truth'
  <2>1. /\ ClientTrue(c) /\ call'[c].op = call[c].op /\ call'[c].at = "clear"
        /\ base' = IF call[c].op = "surface" THEN base ELSE call[c].op
        /\ call[c].op # "none"
    BY <1>2, <1>6 DEF Truth, Steps
  <2>2. call'[c].was = call[c].was
    BY <1>2, <2>1 DEF Steps, Moves, Idle
  <2>3. GregorianTrue(c)'
    BY <1>2, <2>1 DEF ClientTrue, GregorianTrue, Agreed
  <2>4. PrimaryTrue(c)'
    BY <1>2, <2>1 DEF ClientTrue, PrimaryTrue
  <2>5. SurfaceTrue(c)'
    BY <1>2, <2>1, <2>2 DEF ClientTrue, SurfaceTrue
  <2>6. ParkTrue(c)'
    BY <1>3, <2>1 DEF ParkTrue, Configurations
  <2> QED
    BY <1>5, <2>1, <2>3, <2>4, <2>5, <2>6 DEF ClientTrue
<1> QED
  BY <1>5, <1>6

LEMMA InitClearsTrue ==
    ASSUME ServoInvariant, Uncrossed, NEW c \in Clients, InitClears(c), past.doubted \/ Truth
    PROVE  Uncrossed' /\ (past'.doubted \/ Truth')
<1>1. TypeOK /\ Configures(c)
  BY DEF ServoInvariant
<1>2. /\ Steps(c) /\ call[c].at = "clear"
      /\ flags'.enabled = (flags.enabled /\ base # "primary") /\ ~flags'.configured
      /\ base' = base /\ setup' = setup /\ tracking' = tracking /\ past' = past
      /\ call'[c].op = call[c].op /\ call'[c].was = call[c].was /\ call'[c].at = "load"
  BY <1>1, InitClearsSteps
<1>3. call[c].op \in Configurations \cup {"surface"} /\ setup' \notin {"last", "start"}
  BY <1>1, <1>2, Alone DEF Steps, Configures
<1>4. Asked(c)'
  BY <1>2, <1>3 DEF Asked, Configurations
<1>5. Uncrossed' /\ (ClientTrue(c)' /\ (call'[c].op = "none" => Agreed') => Truth')
  BY <1>2, <1>3, <1>4, StepTrue
<1>6. ASSUME ~past'.doubted PROVE Truth'
  <2>1. ClientTrue(c) /\ call'[c].op # "none"
    BY <1>2, <1>6 DEF Truth, Steps
  <2>2. GregorianTrue(c)'
    BY <1>2, <2>1 DEF ClientTrue, GregorianTrue, Agreed
  <2>3. PrimaryTrue(c)'
    BY <1>2, <2>1 DEF ClientTrue, PrimaryTrue
  <2>4. SurfaceTrue(c)'
    BY <1>2, <2>1 DEF ClientTrue, SurfaceTrue
  <2>5. ParkTrue(c)'
    BY <1>2, <1>3 DEF ParkTrue, Configurations
  <2> QED
    BY <1>5, <2>1, <2>2, <2>3, <2>4, <2>5 DEF ClientTrue
<1> QED
  BY <1>5, <1>6

LEMMA InitFailsTrue ==
    ASSUME ServoInvariant, Uncrossed, NEW c \in Clients, InitFails(c), past.doubted \/ Truth
    PROVE  Uncrossed' /\ (past'.doubted \/ Truth')
<1>1. TypeOK /\ Configures(c)
  BY DEF ServoInvariant
<1>2. /\ Steps(c) /\ call[c].at \in {"clear", "load"} /\ call'[c] = Idle
      /\ flags'.enabled = flags.enabled /\ ~flags'.configured
      /\ base' = base /\ setup' = setup /\ tracking' = tracking
      /\ past'.doubted = (past.doubted \/ call[c].op = "surface")
  BY <1>1, InitFailsSteps
<1>3. call[c].op \in Configurations \cup {"surface"} /\ setup' \notin {"last", "start"}
  BY <1>1, <1>2, Alone DEF Steps, Configures
<1>4. Uncrossed' /\ (ClientTrue(c)' /\ (call'[c].op = "none" => Agreed') => Truth')
  BY <1>2, <1>3, StepTrue, ReturnedTrue
<1>5. ASSUME ~past'.doubted PROVE Agreed'
  <2>1. ClientTrue(c) /\ call[c].op \in {"gregorian", "primary"}
    BY <1>2, <1>3, <1>5 DEF Truth, Configurations
  <2> QED
    BY <1>2, <2>1 DEF ClientTrue, GregorianTrue, PrimaryTrue, Agreed
<1> QED
  BY <1>2, <1>4, <1>5, ReturnedTrue

LEMMA InitEndsTrue ==
    ASSUME ServoInvariant, Uncrossed, NEW c \in Clients, InitEnds(c), past.doubted \/ Truth
    PROVE  Uncrossed' /\ (past'.doubted \/ Truth')
<1>1. TypeOK /\ Configures(c)
  BY DEF ServoInvariant
<1>2. /\ Steps(c) /\ call[c].at = "load"
      /\ flags'.enabled = flags.enabled
      /\ base' = base /\ setup' = setup /\ tracking' = tracking /\ past' = past
      /\ call[c].op # "surface" =>
             call'[c].op = call[c].op /\ call'[c].at = "wait" /\ flags' = flags
      /\ call[c].op = "surface" /\ call[c].was =>
             call'[c].op = "surface" /\ call'[c].at = "restore" /\ call'[c].was
      /\ call[c].op = "surface" /\ ~call[c].was => call'[c] = Idle
  BY <1>1, InitEndsSteps
<1>3. call[c].op \in Configurations \cup {"surface"} /\ setup' \notin {"last", "start"}
  BY <1>1, <1>2, Alone DEF Steps, Configures
<1>4. call'[c] = Idle \/ call'[c].op = call[c].op
  BY <1>2 DEF Steps, Moves
<1>5. Asked(c)'
  BY <1>3, <1>4, ReturnedTrue DEF Asked, Configurations
<1>6. Uncrossed' /\ (ClientTrue(c)' /\ (call'[c].op = "none" => Agreed') => Truth')
  BY <1>2, <1>3, <1>5, StepTrue
<1>7. ASSUME ~past'.doubted PROVE Truth'
  <2>1. ClientTrue(c) /\ call[c].op \in {"gregorian", "primary", "surface"}
    BY <1>2, <1>3, <1>7 DEF Truth, Configurations
  <2>2. CASE call[c].op = "gregorian"
    <3>1. ClientTrue(c)' /\ call'[c].op # "none"
      BY <1>2, <2>1, <2>2 DEF ClientTrue, GregorianTrue, PrimaryTrue, ParkTrue, SurfaceTrue, Agreed
    <3> QED
      BY <1>6, <3>1
  <2>3. CASE call[c].op = "primary"
    <3>1. ClientTrue(c)' /\ call'[c].op # "none"
      BY <1>2, <2>1, <2>3 DEF ClientTrue, GregorianTrue, PrimaryTrue, ParkTrue, SurfaceTrue
    <3> QED
      BY <1>6, <3>1
  <2>4. CASE call[c].op = "surface" /\ call[c].was
    <3>1. ClientTrue(c)' /\ call'[c].op # "none"
      BY <1>2, <2>1, <2>4 DEF ClientTrue, GregorianTrue, PrimaryTrue, ParkTrue, SurfaceTrue
    <3> QED
      BY <1>6, <3>1
  <2>5. CASE call[c].op = "surface" /\ ~call[c].was
    <3>1. call'[c] = Idle /\ Agreed'
      BY <1>2, <2>1, <2>5 DEF ClientTrue, SurfaceTrue, Agreed
    <3> QED
      BY <1>6, <3>1, ReturnedTrue
  <2> QED
    BY <2>1, <2>2, <2>3, <2>4, <2>5
<1> QED
  BY <1>6, <1>7

LEMMA RestoreTrue ==
    ASSUME ServoInvariant, Uncrossed, NEW c \in Clients, Restore(c), past.doubted \/ Truth
    PROVE  Uncrossed' /\ (past'.doubted \/ Truth')
<1>1. TypeOK
  BY DEF ServoInvariant
<1>2. /\ Steps(c) /\ call[c].at = "restore"
      /\ flags' = flags /\ base' = base /\ setup' = setup /\ tracking' = tracking
      /\ \/ call'[c] = Idle /\ past'.doubted
         \/ /\ call'[c].op = call[c].op /\ call'[c].was = call[c].was
            /\ call'[c].at = "start" /\ past' = past
  BY <1>1, RestoreSteps
<1>3. call[c].op # "none" /\ setup' \notin {"last", "start"} /\ Asked(c)
  BY <1>1, <1>2, Alone DEF Steps, Uncrossed
<1>4. Asked(c)'
  BY <1>2, <1>3, ReturnedTrue DEF Asked
<1>5. Uncrossed' /\ (ClientTrue(c)' /\ (call'[c].op = "none" => Agreed') => Truth')
  BY <1>2, <1>3, <1>4, StepTrue
<1>6. ASSUME ~past'.doubted PROVE Truth'
  <2>1. ClientTrue(c) /\ call'[c].op # "none"
    BY <1>2, <1>3, <1>6 DEF Truth
  <2>2. ClientTrue(c)'
    BY <1>2, <1>6, <2>1 DEF ClientTrue, GregorianTrue, PrimaryTrue, ParkTrue, SurfaceTrue
  <2> QED
    BY <1>5, <2>1, <2>2
<1> QED
  BY <1>5, <1>6

LEMMA StartSetupTrue ==
    ASSUME ServoInvariant, Uncrossed, NEW c \in Clients, StartSetup(c), past.doubted \/ Truth
    PROVE  Uncrossed' /\ (past'.doubted \/ Truth')
<1>1. TypeOK /\ Configures(c)
  BY DEF ServoInvariant
<1>2. /\ Steps(c) /\ call[c].at = "wait" /\ call'[c] = Idle
      /\ flags' = flags /\ base' = base /\ tracking' = tracking
      /\ setup' = setup \/ (setup # "start" /\ setup' = "moving")
      /\ past'.doubted = past.doubted
  BY <1>1, StartSetupSteps
<1>3. call[c].op \in Configurations \cup {"surface"} /\ setup' \notin {"last", "start"}
  BY <1>1, <1>2, Alone DEF Steps, Configures
<1>4. Uncrossed' /\ (ClientTrue(c)' /\ (call'[c].op = "none" => Agreed') => Truth')
  BY <1>2, <1>3, StepTrue, ReturnedTrue
<1>5. ASSUME ~past'.doubted PROVE Agreed'
  <2>1. ClientTrue(c) /\ call[c].op \in {"gregorian", "primary", "surface"}
    BY <1>2, <1>3, <1>5 DEF Truth, Configurations
  <2> QED
    BY <1>2, <2>1 DEF ClientTrue, GregorianTrue, PrimaryTrue, SurfaceTrue, Agreed
<1> QED
  BY <1>2, <1>4, <1>5, ReturnedTrue

LEMMA StartParkTrue ==
    ASSUME ServoInvariant, Uncrossed, NEW c \in Clients, StartPark(c), past.doubted \/ Truth
    PROVE  Uncrossed' /\ (past'.doubted \/ Truth')
<1>1. TypeOK
  BY DEF ServoInvariant
<1>2. /\ Steps(c) /\ call[c].at = "raise" /\ call'[c] = Idle
      /\ flags'.enabled = flags.enabled /\ flags'.configured = flags.configured
      /\ base' = base /\ setup' = setup /\ tracking' = tracking
      /\ past'.doubted = past.doubted
  BY <1>1, StartParkSteps
<1>3. call[c].op # "none" /\ setup' \notin {"last", "start"} /\ Asked(c)
  BY <1>1, <1>2, Alone DEF Steps, Uncrossed
<1>4. call[c].op \in {"park", "surface", "gregorian", "primary"}
  <2>1. call[c].op \in {"on", "off", "park", "surface", "gregorian", "primary"}
    BY <1>1, <1>3, CallTyped DEF Operations, Configurations
  <2> QED
    BY <1>2, <1>3, <2>1 DEF Asked
<1>5. Uncrossed' /\ (ClientTrue(c)' /\ (call'[c].op = "none" => Agreed') => Truth')
  BY <1>2, <1>3, StepTrue, ReturnedTrue
<1>6. ASSUME ~past'.doubted PROVE Agreed'
  <2>1. ClientTrue(c)
    BY <1>2, <1>6 DEF Truth
  <2> QED
    BY <1>2, <1>4, <2>1 DEF ClientTrue, GregorianTrue, PrimaryTrue, ParkTrue, SurfaceTrue, Agreed
<1> QED
  BY <1>2, <1>5, <1>6, ReturnedTrue

\* What was crossed stays in doubt until the next operation begins alone.
LEMMA CrossedStays ==
    ASSUME ServoInvariant, past.crossed, past.doubted, NEW c \in Clients, Proceed(c)
    PROVE  past'.crossed /\ past'.doubted
<1>1. TypeOK /\ Configures(c)
  BY DEF ServoInvariant
<1>2. CASE Look(c)
  BY <1>1, <1>2, LookSteps DEF Steps
<1>3. CASE TurnOn(c) \/ TurnOff(c)
  <2>1. PICK o \in Outcomes : Switched(c, o) /\ call[c].at \in {"start", "stop"}
    BY <1>1, <1>3, TurnsSteps
  <2>2. o.raised \in BOOLEAN
    BY DEF Outcomes
  <2> QED
    BY <1>1, <2>1, <2>2, SwitchedSteps DEF Steps
<1>4. CASE Check(c)
  BY <1>1, <1>4, CheckSteps DEF Steps
<1>5. CASE InitBegins(c)
  BY <1>1, <1>5, InitBeginsSteps DEF Steps
<1>6. CASE InitClears(c)
  BY <1>1, <1>6, InitClearsSteps DEF Steps
<1>7. CASE InitFails(c)
  BY <1>1, <1>7, InitFailsSteps DEF Steps
<1>8. CASE InitEnds(c)
  BY <1>1, <1>8, InitEndsSteps DEF Steps
<1>9. CASE Restore(c)
  BY <1>1, <1>9, RestoreSteps DEF Steps
<1>10. CASE StartSetup(c)
  BY <1>1, <1>10, StartSetupSteps DEF Steps
<1>11. CASE StartPark(c)
  BY <1>1, <1>11, StartParkSteps DEF Steps
<1> QED
  BY <1>2, <1>3, <1>4, <1>5, <1>6, <1>7, <1>8, <1>9, <1>10, <1>11 DEF Proceed

LEMMA ProceedTrue ==
    ASSUME ServoInvariant, TruthInvariant, NEW c \in Clients, Proceed(c)
    PROVE  TruthInvariant'
<1>1. CASE past.crossed
  BY <1>1, CrossedStays DEF TruthInvariant
<1>2. CASE ~past.crossed
  <2>1. Uncrossed /\ (past.doubted \/ Truth)
    BY <1>2 DEF TruthInvariant
  <2>2. Uncrossed' /\ (past'.doubted \/ Truth')
    BY <1>2, <2>1, LookTrue, TurnsTrue, CheckTrue, InitBeginsTrue, InitClearsTrue, InitFailsTrue,
       InitEndsTrue, RestoreTrue, StartSetupTrue, StartParkTrue DEF Proceed
  <2>3. past'.crossed = past.crossed
    <3>1. TypeOK /\ Configures(c)
      BY DEF ServoInvariant
    <3>2. Steps(c)
      BY <3>1, ProceedSteps
    <3> QED
      BY <3>2 DEF Steps
  <2> QED
    BY <1>2, <2>2, <2>3 DEF TruthInvariant
<1> QED
  BY <1>1, <1>2

--------------------------------------------------------------------------------
(* The threads and the scheduler.                                          *)

\* Losing the configuration, or the end of a setup that moved, disturbs nothing.
LEMMA WeakerTrue ==
    ASSUME TruthInvariant, call' = call, base' = base, tracking' = tracking, past' = past,
           setup' = setup \/ (setup = "moving" /\ setup' = "none"),
           scan'.call = scan.call, scan'.was = scan.was,
           flags'.enabled = flags.enabled, flags'.configured => flags.configured,
           flags'.locked = flags.locked, flags'.active = flags.active
    PROVE  TruthInvariant'
<1>1. UnderWay' = UnderWay /\ InScan' = InScan /\ TailUnderWay' = TailUnderWay
  BY DEF UnderWay, InScan, TailUnderWay
<1>2. Uncrossed => Uncrossed'
  BY <1>1 DEF Uncrossed, Asked
<1>3. Agreed => Agreed'
  BY DEF Agreed
<1>4. ASSUME Truth PROVE Truth'
  <2>1. \A c \in Clients : ClientTrue(c)'
    BY <1>3, <1>4 DEF Truth, ClientTrue, GregorianTrue, PrimaryTrue, ParkTrue, SurfaceTrue
  <2>2. ScanTrue'
    BY <1>4 DEF Truth, ScanTrue
  <2> QED
    BY <1>1, <1>3, <1>4, <2>1, <2>2 DEF Truth
<1> QED
  BY <1>2, <1>4 DEF TruthInvariant

\* Nothing is known but that nobody is under way, or that a setup ends alone.
LEMMA QuietTrue ==
    ASSUME TypeOK, \A c \in Clients : call'[c].op = "none", ScanTrue',
           TailUnderWay' => (~flags'.enabled => ~tracking'),
           ~TailUnderWay' /\ ~flags'.active /\ scan'.call # "beginning" => Agreed'
    PROVE  Truth'
<1>1. \A c \in Clients : ClientTrue(c)'
  BY DEF ClientTrue, GregorianTrue, PrimaryTrue, ParkTrue, SurfaceTrue
<1>2. UnderWay' <=> TailUnderWay'
  BY DEF UnderWay, TailUnderWay
<1> QED
  BY <1>1, <1>2 DEF Truth

LEMMA SetupDoneTrue ==
    ASSUME ServoInvariant, TruthInvariant, SetupDone
    PROVE  TruthInvariant'
<1>1. TypeOK /\ flags \in Flags /\ (UnderWay \/ InScan) \in BOOLEAN
  BY StateTyped DEF ServoInvariant
<1>2. /\ setup = "moving" /\ setup' = "last"
      /\ flags' = [flags EXCEPT !.starting = FALSE, !.configured = TRUE]
      /\ past' = Crosses(UnderWay \/ InScan)
      /\ call' = call /\ scan' = scan /\ tracking' = tracking
  BY DEF SetupDone
<1>3. past'.crossed = (UnderWay \/ InScan) /\ past'.doubted = (past.doubted \/ UnderWay \/ InScan)
  BY <1>1, <1>2, CrossesTyped
<1>4. /\ flags'.enabled = flags.enabled
      /\ flags'.locked = flags.locked /\ flags'.active = flags.active
  BY <1>1, <1>2 DEF Flags
<1>5. CASE UnderWay \/ InScan
  BY <1>3, <1>5 DEF TruthInvariant
<1>6. CASE ~UnderWay /\ ~InScan
  <2>1. (\A c \in Clients : call'[c].op = "none") /\ ~InScan' /\ ~flags.active /\ ~flags.locked
    BY <1>2, <1>4, <1>6 DEF UnderWay, InScan
  <2>2. scan.call \notin {"starting", "stopping", "beginning", "closing", "restoring"}
    BY <2>1 DEF ServoInvariant, ScanFlagged
  <2>3. Uncrossed'
    BY <1>2, <2>1 DEF Uncrossed
  <2>4. ASSUME ~past.doubted PROVE Truth'
    <3>1. Agreed
      BY <1>6, <2>1, <2>2, <2>4 DEF TruthInvariant, Truth
    <3>2. ScanTrue'
      BY <1>2, <1>4, <2>1, <2>2 DEF ScanTrue
    <3>3. TailUnderWay' /\ (~flags'.enabled => ~tracking')
      BY <1>2, <1>4, <3>1 DEF TailUnderWay, Agreed
    <3> QED
      BY <1>1, <2>1, <3>2, <3>3, QuietTrue
  <2> QED
    BY <1>3, <1>6, <2>3, <2>4 DEF TruthInvariant
<1> QED
  BY <1>5, <1>6

\* While the end of a setup is under way and nothing has crossed it, it is alone.
LEMMA TailAlone ==
    ASSUME ServoInvariant, Uncrossed, setup \in {"last", "start"}
    PROVE  /\ \A c \in Clients : call[c].op = "none"
           /\ ~flags.locked /\ ~flags.active
           /\ scan.call \notin {"starting", "stopping", "beginning", "closing", "restoring"}
BY DEF ServoInvariant, ScanFlagged, Uncrossed, TailUnderWay, UnderWay, InScan

LEMMA SetupTracksTrue ==
    ASSUME ServoInvariant, TruthInvariant, SetupTracks
    PROVE  TruthInvariant'
<1>1. TypeOK /\ (flags.enabled /\ ~Allowed) \in BOOLEAN
  BY DEF ServoInvariant
<1>2. /\ setup = "last" /\ setup' = IF flags.enabled /\ Allowed THEN "start" ELSE "none"
      /\ past' = Doubts(flags.enabled /\ ~Allowed)
      /\ flags' = flags /\ call' = call /\ scan' = scan /\ tracking' = tracking
  BY DEF SetupTracks
<1>3. /\ past'.crossed = past.crossed
      /\ past'.doubted = (past.doubted \/ (flags.enabled /\ ~Allowed))
  BY <1>1, <1>2, DoubtsTyped
<1>4. CASE past.crossed
  BY <1>3, <1>4 DEF TruthInvariant
<1>5. CASE ~past.crossed
  <2>1. Uncrossed
    BY <1>5 DEF TruthInvariant
  <2>2. /\ \A c \in Clients : call[c].op = "none"
        /\ ~flags.locked /\ ~flags.active
        /\ scan.call \notin {"starting", "stopping", "beginning", "closing", "restoring"}
    BY <1>2, <2>1, TailAlone
  <2>3. Uncrossed'
    BY <1>2, <2>2 DEF Uncrossed, InScan
  <2>4. ASSUME ~past'.doubted PROVE Truth'
    <3>1. (~flags.enabled => ~tracking) /\ (flags.enabled => Allowed)
      BY <1>2, <1>3, <2>4 DEF TruthInvariant, Truth, TailUnderWay
    <3>2. ScanTrue'
      BY <1>2, <2>2 DEF ScanTrue
    <3>3. ~TailUnderWay' => Agreed'
      BY <1>2, <3>1 DEF TailUnderWay, Agreed
    <3> QED
      BY <1>1, <1>2, <2>2, <3>1, <3>2, <3>3, QuietTrue
  <2> QED
    BY <1>3, <1>5, <2>3, <2>4 DEF TruthInvariant
<1> QED
  BY <1>4, <1>5

LEMMA SetupEndsTrue ==
    ASSUME ServoInvariant, TruthInvariant, SetupEnds
    PROVE  TruthInvariant'
<1>1. TypeOK /\ tracking \in BOOLEAN
  BY StateTyped DEF ServoInvariant
<1>2. /\ setup = "start" /\ setup' = "none"
      /\ flags' = flags /\ call' = call /\ scan' = scan
  BY DEF SetupEnds
<1>3. PICK o \in TurnTrackingOn :
          tracking' = o.runs /\ past' = IF o.raised THEN Doubts(TRUE) ELSE Settles
  BY DEF SetupEnds
<1>4. ~o.raised => tracking'
  BY <1>1, <1>3, SwitchAnswers
<1>5. CASE o.raised
  <2>1. past'.crossed = past.crossed /\ past'.doubted
    BY <1>1, <1>3, <1>5, DoubtsTyped
  <2>2. Uncrossed => Uncrossed'
    BY <1>2, TailAlone DEF Uncrossed, InScan
  <2> QED
    BY <2>1, <2>2 DEF TruthInvariant
<1>6. CASE ~o.raised
  <2>1. past'.crossed = past.crossed /\ past'.doubted = (past.doubted /\ past.crossed)
    BY <1>1, <1>3, <1>6, SettlesTyped
  <2>2. ASSUME ~past.crossed PROVE Uncrossed' /\ Truth'
    <3>1. Uncrossed /\ flags.enabled
      BY <1>2, <2>2 DEF TruthInvariant, Uncrossed
    <3>2. /\ \A c \in Clients : call[c].op = "none"
          /\ ~flags.locked /\ ~flags.active
          /\ scan.call \notin {"starting", "stopping", "beginning", "closing", "restoring"}
      BY <1>2, <3>1, TailAlone
    <3>3. Uncrossed'
      BY <1>2, <3>2 DEF Uncrossed, InScan
    <3>4. ScanTrue'
      BY <1>2, <3>2 DEF ScanTrue
    <3>5. ~TailUnderWay' /\ Agreed'
      BY <1>2, <1>4, <1>6, <3>1 DEF TailUnderWay, Agreed
    <3> QED
      BY <1>1, <1>2, <3>2, <3>3, <3>4, <3>5, QuietTrue
  <2> QED
    BY <2>1, <2>2 DEF TruthInvariant
<1> QED
  BY <1>5, <1>6

LEMMA ThreadsTrue ==
    ASSUME ServoInvariant, TruthInvariant, Threads
    PROVE  TruthInvariant'
<1>1. TypeOK /\ flags \in Flags /\ scan \in Scannings
  BY StateTyped, ScanTyped DEF ServoInvariant
<1>2. CASE SetupFails \/ ParkMoves \/ ParkMismatch \/ ParkEnds \/ ScanFeeds \/ ScanEnds
  <2>1. /\ call' = call /\ base' = base /\ tracking' = tracking /\ past' = past
        /\ setup' = setup \/ (setup = "moving" /\ setup' = "none")
    BY <1>2 DEF SetupFails, ParkMoves, ParkMismatch, ParkEnds, ScanFeeds, ScanEnds
  <2>2. scan'.call = scan.call /\ scan'.was = scan.was
    BY <1>1, <1>2 DEF SetupFails, ParkMoves, ParkMismatch, ParkEnds, ScanFeeds, ScanEnds, Scannings
  <2>3. /\ flags'.enabled = flags.enabled /\ (flags'.configured => flags.configured)
        /\ flags'.locked = flags.locked /\ flags'.active = flags.active
    BY <1>1, <1>2 DEF SetupFails, ParkMoves, ParkMismatch, ParkEnds, ScanFeeds, ScanEnds, Flags
  <2> QED
    BY <2>1, <2>2, <2>3, WeakerTrue
<1> QED
  BY <1>2, SetupDoneTrue, SetupTracksTrue, SetupEndsTrue DEF Threads

\* The steps of a scan that nothing has crossed: nobody else is under way.
LEMMA ScheduledTrue ==
    ASSUME ServoInvariant, Uncrossed, InScan, Schedules
    PROVE  /\ ~UnderWay /\ ~TailUnderWay
           /\ Uncrossed'
           /\ ScanTrue' /\ (~flags'.active /\ scan'.call # "beginning" => Agreed') => Truth'
<1>1. TypeOK /\ ~UnderWay
  BY DEF ServoInvariant, Uncrossed
<1>2. (\A c \in Clients : call[c].op = "none") /\ ~TailUnderWay
  BY <1>1 DEF UnderWay, TailUnderWay
<1>3. (\A c \in Clients : call'[c].op = "none") /\ ~TailUnderWay'
  BY <1>2 DEF Schedules, TailUnderWay
<1>4. ~UnderWay'
  BY <1>3 DEF UnderWay, TailUnderWay
<1>5. Uncrossed'
  BY <1>3, <1>4 DEF Uncrossed, TailUnderWay
<1> QED
  BY <1>1, <1>2, <1>3, <1>5, QuietTrue

LEMMA StartScanTrue ==
    ASSUME ServoInvariant, TruthInvariant, StartScan
    PROVE  TruthInvariant'
<1>1. TypeOK
  BY DEF ServoInvariant
<1>2. /\ Schedules /\ scan.call = "none" /\ scan'.call = "starting"
      /\ ~flags.locked /\ flags'.locked /\ flags'.active = flags.active
      /\ tracking' = tracking
      /\ past'.crossed = UnderWay /\ past'.doubted = (past.doubted \/ UnderWay)
  BY <1>1, StartScanSteps
<1>3. CASE UnderWay
  BY <1>2, <1>3 DEF TruthInvariant
<1>4. CASE ~UnderWay
  <2>1. (\A c \in Clients : call'[c].op = "none") /\ ~TailUnderWay'
    BY <1>2, <1>4 DEF UnderWay, TailUnderWay, Schedules
  <2>2. ~UnderWay'
    BY <2>1 DEF UnderWay, TailUnderWay
  <2>3. Uncrossed'
    BY <2>1, <2>2 DEF Uncrossed, TailUnderWay
  <2>4. ASSUME ~past.doubted PROVE Truth'
    <3>1. ~flags.active /\ Agreed
      BY <1>2, <1>4, <2>4 DEF TruthInvariant, Truth, ScanTrue
    <3>2. ScanTrue' /\ Agreed'
      BY <1>2, <3>1 DEF ScanTrue, Agreed, Schedules
    <3> QED
      BY <1>1, <2>1, <3>2, QuietTrue
  <2> QED
    BY <1>2, <1>4, <2>3, <2>4 DEF TruthInvariant
<1> QED
  BY <1>3, <1>4

\* The steps of startScan after its flag is up.
LEMMA StartingTrue ==
    ASSUME ServoInvariant, TruthInvariant,
           ScanRefused \/ ScanReads \/ ScanStops \/ ScanBegins \/ ScanFails
    PROVE  TruthInvariant'
<1>1. TypeOK
  BY DEF ServoInvariant
<1>2. /\ Schedules /\ InScan /\ past'.crossed = past.crossed /\ (past.doubted => past'.doubted)
      /\ scan.call \in {"starting", "stopping", "beginning"}
  BY <1>1, ScanRefusedSteps, ScanReadsSteps, ScanStopsSteps, ScanBeginsSteps, ScanFailsSteps
     DEF ServoInvariant, ScanFlagged, InScan
<1>3. CASE past.crossed
  BY <1>2, <1>3 DEF TruthInvariant
<1>4. CASE ~past.crossed
  <2>1. Uncrossed
    BY <1>4 DEF TruthInvariant
  <2>2. /\ Uncrossed' /\ ~UnderWay
        /\ ScanTrue' /\ (~flags'.active /\ scan'.call # "beginning" => Agreed') => Truth'
    BY <1>2, <2>1, ScheduledTrue
  <2>3. ASSUME ~past'.doubted PROVE Truth'
    <3>1. ~past.doubted /\ ScanTrue /\ ~flags.active /\ (scan.call # "beginning" => Agreed)
      BY <1>2, <2>2, <2>3 DEF TruthInvariant, Truth, ScanTrue
    <3>2. CASE ScanRefused
      BY <1>1, <2>2, <3>1, <3>2, ScanRefusedSteps DEF ScanTrue, Agreed, Schedules
    <3>3. CASE ScanReads
      BY <1>1, <2>2, <3>1, <3>3, ScanReadsSteps DEF ScanTrue, Agreed, Schedules
    <3>4. CASE ScanStops
      BY <1>1, <2>2, <3>1, <3>4, ScanStopsSteps DEF ScanTrue, Schedules
    <3>5. CASE ScanBegins
      <4>1. scan'.call = "none" /\ flags'.locked /\ flags'.active /\ ~tracking' /\ Schedules
            /\ (scan'.was <=> flags.enabled)
        BY <1>1, <3>1, <3>5, ScanBeginsSteps DEF ScanTrue, ServoInvariant, ScanFlagged
      <4> QED
        BY <2>2, <4>1 DEF ScanTrue, Schedules
    <3>6. CASE ScanFails
      <4>1. /\ scan'.call = "none" /\ ~flags'.active /\ Schedules
            /\ tracking' = tracking /\ ~(scan.call = "beginning" /\ scan.was)
        BY <1>1, <2>3, <3>6, ScanFailsSteps
      <4>2. Agreed'
        BY <3>1, <4>1 DEF ScanTrue, Agreed, Schedules
      <4> QED
        BY <2>2, <4>1, <4>2 DEF ScanTrue
    <3> QED
      BY <3>2, <3>3, <3>4, <3>5, <3>6
  <2> QED
    BY <1>2, <1>4, <2>2, <2>3 DEF TruthInvariant
<1> QED
  BY <1>3, <1>4

LEMMA CloseScanTrue ==
    ASSUME ServoInvariant, TruthInvariant, CloseScan
    PROVE  TruthInvariant'
<1>1. TypeOK
  BY DEF ServoInvariant
<1>2. /\ Schedules /\ scan.call = "none" /\ tracking' = tracking /\ base' = base
      /\ ~flags'.locked /\ flags'.active = flags.active
      /\ ~flags.active => scan' = scan /\ past' = past
      /\ flags.active =>
             /\ scan'.call = "closing" /\ scan'.was = scan.was
             /\ past'.crossed = UnderWay /\ past'.doubted = (past.doubted \/ UnderWay)
  BY <1>1, CloseScanSteps DEF CloseScan
<1>3. CASE flags.active /\ UnderWay
  BY <1>2, <1>3 DEF TruthInvariant
<1>4. CASE flags.active /\ ~UnderWay
  <2>1. (\A c \in Clients : call'[c].op = "none") /\ ~TailUnderWay'
    BY <1>2, <1>4 DEF UnderWay, TailUnderWay, Schedules
  <2>2. ~UnderWay'
    BY <2>1 DEF UnderWay, TailUnderWay
  <2>3. Uncrossed'
    BY <2>1, <2>2 DEF Uncrossed, TailUnderWay
  <2>4. ASSUME ~past.doubted PROVE Truth'
    <3>1. ScanTrue'
      BY <1>2, <1>4, <2>4 DEF TruthInvariant, Truth, ScanTrue, Schedules
    <3> QED
      BY <1>1, <1>2, <1>4, <2>1, <3>1, QuietTrue
  <2> QED
    BY <1>2, <1>4, <2>3, <2>4 DEF TruthInvariant
<1>5. CASE ~flags.active
  <2>1. /\ call' = call /\ setup' = setup /\ scan' = scan /\ past' = past /\ ~flags'.active
        /\ flags'.enabled = flags.enabled /\ flags'.configured = flags.configured
    BY <1>2, <1>5 DEF Schedules
  <2>2. UnderWay' = UnderWay /\ TailUnderWay' = TailUnderWay /\ ~InScan' /\ Agreed' = Agreed
    BY <1>2, <2>1 DEF UnderWay, TailUnderWay, InScan, Agreed
  <2>3. Uncrossed => Uncrossed'
    BY <2>1, <2>2 DEF Uncrossed, Asked
  <2>4. ASSUME Truth PROVE Truth'
    <3>1. \A c \in Clients : ClientTrue(c)'
      BY <1>2, <2>1, <2>2, <2>4 DEF Truth, ClientTrue, GregorianTrue, PrimaryTrue, ParkTrue, SurfaceTrue
    <3>2. ScanTrue'
      BY <1>2, <2>1 DEF ScanTrue
    <3> QED
      BY <1>2, <1>5, <2>1, <2>2, <2>4, <3>1, <3>2 DEF Truth
  <2> QED
    BY <2>1, <2>3, <2>4 DEF TruthInvariant
<1> QED
  BY <1>3, <1>4, <1>5

\* The rest of closeScan, and a closeScan that raises.
LEMMA ClosingTrue ==
    ASSUME ServoInvariant, TruthInvariant, CloseScanFails \/ ScanCloses \/ ScanRestores
    PROVE  TruthInvariant'
<1>1. TypeOK
  BY DEF ServoInvariant
<1>2. /\ Schedules /\ past'.crossed = past.crossed /\ (past.doubted => past'.doubted)
      /\ InScan /\ flags.active /\ scan'.was = scan.was
  BY <1>1, CloseScanFailsSteps, ScanClosesSteps, ScanRestoresSteps
     DEF ServoInvariant, ScanFlagged, InScan
<1>3. CASE past.crossed
  BY <1>2, <1>3 DEF TruthInvariant
<1>4. CASE ~past.crossed
  <2>1. Uncrossed
    BY <1>4 DEF TruthInvariant
  <2>2. /\ Uncrossed' /\ ~UnderWay
        /\ ScanTrue' /\ (~flags'.active /\ scan'.call # "beginning" => Agreed') => Truth'
    BY <1>2, <2>1, ScheduledTrue
  <2>3. ASSUME ~past'.doubted PROVE Truth'
    <3>1. ScanTrue
      BY <1>2, <2>3 DEF TruthInvariant, Truth
    <3>2. (scan.was <=> flags.enabled) /\ ~tracking
      BY <1>2, <3>1 DEF ScanTrue
    <3>3. CASE CloseScanFails
      BY <1>1, <2>2, <3>1, <3>3, CloseScanFailsSteps DEF ScanTrue, Schedules
    <3>4. CASE ScanCloses
      <4>1. \/ scan.was /\ scan'.call = "restoring" /\ flags' = flags
            \/ ~scan.was /\ scan'.call = "none" /\ ~flags'.active
        BY <1>1, <2>3, <3>4, ScanClosesSteps
      <4>2. tracking' = tracking
        BY <1>1, <3>4, ScanClosesSteps
      <4>3. CASE scan.was /\ scan'.call = "restoring" /\ flags' = flags
        BY <1>2, <2>2, <3>2, <4>2, <4>3 DEF ScanTrue
      <4>4. CASE ~scan.was /\ scan'.call = "none" /\ ~flags'.active
        <5>1. Agreed'
          BY <1>2, <3>2, <4>2, <4>4 DEF Agreed, Schedules
        <5> QED
          BY <2>2, <4>4, <5>1 DEF ScanTrue
      <4> QED
        BY <4>1, <4>3, <4>4
    <3>5. CASE ScanRestores
      <4>1. scan.call = "restoring" /\ scan'.call = "none" /\ tracking' /\ ~flags'.active
        BY <1>1, <2>3, <3>5, ScanRestoresSteps
      <4>2. Agreed'
        BY <1>2, <3>1, <3>2, <4>1 DEF ScanTrue, Agreed, Schedules
      <4> QED
        BY <2>2, <4>1, <4>2 DEF ScanTrue
    <3> QED
      BY <3>3, <3>4, <3>5
  <2> QED
    BY <1>2, <1>4, <2>2, <2>3 DEF TruthInvariant
<1> QED
  BY <1>3, <1>4

--------------------------------------------------------------------------------
LEMMA TruthStarts == Init => TruthInvariant
<1> SUFFICES ASSUME Init PROVE TruthInvariant
  OBVIOUS
<1>1. \A c \in Clients : call[c].op = "none"
  BY DEF Init, Idle
<1>2. Uncrossed
  BY <1>1 DEF Init, Uncrossed, TailUnderWay, UnderWay
<1>3. \A c \in Clients : ClientTrue(c)
  BY <1>1 DEF ClientTrue, GregorianTrue, PrimaryTrue, ParkTrue, SurfaceTrue
<1>4. Truth
  BY <1>3 DEF Init, Truth, TailUnderWay, Agreed, ScanTrue
<1> QED
  BY <1>2, <1>4 DEF Init, TruthInvariant

LEMMA TruthStepKeeps ==
    ASSUME ServoInvariant, TruthInvariant, [Next]_vars
    PROVE  TruthInvariant'
<1>1. CASE UNCHANGED vars
  <2>1. /\ flags' = flags /\ base' = base /\ call' = call /\ setup' = setup /\ scan' = scan
        /\ tracking' = tracking /\ past' = past
    BY <1>1 DEF vars
  <2> QED
    BY <2>1, WeakerTrue
<1>2. CASE Next
  BY <1>2, CommandTrue, ProceedTrue, ThreadsTrue, StartScanTrue, StartingTrue, CloseScanTrue, ClosingTrue
     DEF Next, Scheduler
<1> QED
  BY <1>1, <1>2

\* When nothing is going on, the tracking thread runs exactly if the tracking is enabled,
\* for any number of clients; unless an operation or the end of a setup that touches the
\* tracking raised, crossed another on its way, or came in the middle of a scan, and none
\* since, begun alone, has settled it.
THEOREM TrackingTruthAlways == Spec => []TrackingTruth
<1>1. ServoInvariant /\ TruthInvariant => TrackingTruth
  BY DEF TruthInvariant, Truth, Agreed, AtRest, InScan, TrackingTruth
<1>2. Spec => []TruthInvariant
  BY TruthStarts, TruthStepKeeps, ServoInvariantHolds, PTL DEF Spec
<1> QED
  BY <1>1, <1>2, ServoInvariantHolds, PTL

================================================================================
