----------------------------- MODULE StreamOpsProofs -----------------------------
(***************************************************************************)
(* What the primitives of the data transfer do to the stream flags.        *)
(***************************************************************************)
EXTENDS StreamOps, TLAPS

\* Disabling stops the stream, even when a remote call raises, and leaves a
\* chain of flags, even when the scan was closed under a started stream
\* (CCore::disableDataTransfer, after CCore::stopScan).
LEMMA DisableStopsAnyway ==
    ASSUME NEW f \in Flags, f.scan => f.prepared, f.prepared => f.connected,
           NEW o \in DisableOutcomes(f)
    PROVE  o.flags \in Flags /\ Nested(o.flags) /\ ~o.flags.started
<1> DEFINE stopped    == [f EXCEPT !.started = FALSE]
           closed     == [stopped EXCEPT !.scan = FALSE]
           terminated == [closed EXCEPT !.prepared = FALSE]
<1>1. o.flags \in {NoStream, stopped, closed, terminated}
  BY DEF DisableOutcomes, When, Outcome
<1>2. NoStream \in Flags /\ Nested(NoStream) /\ ~NoStream.started
  BY DEF Flags, Nested, NoStream
<1>3. stopped \in Flags /\ Nested(stopped) /\ ~stopped.started
  BY DEF Flags, Nested
<1>4. closed \in Flags /\ Nested(closed) /\ ~closed.started
  BY DEF Flags, Nested
<1>5. terminated \in Flags /\ Nested(terminated) /\ ~terminated.started
  BY DEF Flags, Nested
<1> QED
  BY <1>1, <1>2, <1>3, <1>4, <1>5

\* The same for a chain.
LEMMA DisableStops ==
    ASSUME NEW f \in Flags, Nested(f), NEW o \in DisableOutcomes(f)
    PROVE  o.flags \in Flags /\ Nested(o.flags) /\ ~o.flags.started
BY DisableStopsAnyway DEF Nested

\* Closing the scan changes nothing, or breaks the chain at its end only
\* (CCore::stopScan).
LEMMA StopScanCloses ==
    ASSUME NEW f \in Flags, Nested(f), NEW o \in StopScanOutcomes(f)
    PROVE  /\ o.flags \in Flags
           /\ o.flags.scan => o.flags.prepared
           /\ o.flags.prepared => o.flags.connected
           /\ ~Succeeds(o) => o.flags = f
<1> DEFINE closed == [f EXCEPT !.scan = FALSE]
<1>1. closed \in Flags /\ ~closed.scan /\ closed.prepared = f.prepared /\ closed.connected = f.connected
  BY DEF Flags
<1>2. CASE o = Outcome(closed, Nothing)
  BY <1>1, <1>2 DEF Outcome, Nested, Succeeds
<1>3. CASE o = Outcome(f, "stopScan")
  BY <1>3 DEF Outcome, Nested, Succeeds
<1> QED
  BY <1>2, <1>3 DEF StopScanOutcomes, When

\* Enabling starts nothing (CCore::enableDataTransfer).
LEMMA EnableStartsNothing ==
    ASSUME NEW f \in Flags, Nested(f), NEW o \in EnableOutcomes(f)
    PROVE  o.flags \in Flags /\ Nested(o.flags) /\ o.flags.started = f.started
<1> DEFINE wired    == [f EXCEPT !.connected = TRUE]
           prepared == [wired EXCEPT !.prepared = TRUE]
<1>1. o.flags \in {f, wired, prepared}
  BY DEF EnableOutcomes, When, Outcome
<1>2. wired \in Flags /\ Nested(wired) /\ wired.started = f.started
  BY DEF Flags, Nested
<1>3. prepared \in Flags /\ Nested(prepared) /\ prepared.started = f.started
  BY DEF Flags, Nested
<1> QED
  BY <1>1, <1>2, <1>3

\* A subscan is opened on the recorder of a prepared stream only
\* (CCore::setupDataTransfer).
LEMMA SetupKeepsChain ==
    ASSUME NEW f \in Flags, Nested(f), NEW o \in SetupOutcomes(f)
    PROVE  o.flags \in Flags /\ Nested(o.flags) /\ (Succeeds(o) => o.flags.prepared /\ o.flags.scan)
<1> DEFINE opened == [f EXCEPT !.scan = TRUE]
<1>1. CASE ~f.prepared
  BY <1>1 DEF SetupOutcomes, Outcome, Succeeds, Nothing
<1>2. CASE f.prepared
  <2>1. opened \in Flags /\ Nested(opened) /\ opened.prepared /\ opened.scan
    BY <1>2 DEF Flags, Nested
  <2>2. \E call \in RemoteCalls \cup {Nothing} :
          o = Outcome(opened, call) \/ (o = Outcome(f, call) /\ call = "startScan")
    BY <1>2 DEF SetupOutcomes, When, RemoteCalls
  <2>3. ASSUME NEW call, o = Outcome(opened, call)
        PROVE  o.flags \in Flags /\ Nested(o.flags) /\ (Succeeds(o) => o.flags.prepared /\ o.flags.scan)
    <3>1. o.flags = opened
      BY <2>3 DEF Outcome
    <3> QED
      BY <2>1, <3>1
  <2>4. CASE o = Outcome(f, "startScan")
    <3>1. o.flags = f /\ o.failed = "startScan"
      BY <2>4 DEF Outcome
    <3>2. ~Succeeds(o)
      BY <3>1 DEF Succeeds, Nothing
    <3> QED
      BY <3>1, <3>2
  <2> QED
    BY <2>2, <2>3, <2>4
<1> QED
  BY <1>1, <1>2

\* A transfer starts on an open scan of a prepared stream only
\* (CCore::startRecording).
LEMMA StartKeepsChain ==
    ASSUME NEW f \in Flags, Nested(f), NEW o \in StartOutcomes(f)
    PROVE  o.flags \in Flags /\ Nested(o.flags)
<1>1. CASE o = Outcome(f, "load")
  BY <1>1 DEF Outcome
<1>2. CASE o \in SetupOutcomes(f)
  BY <1>2, SetupKeepsChain
<1>3. ASSUME NEW s \in SetupOutcomes(f), Succeeds(s), o \in TransferOutcomes(s.flags)
      PROVE  o.flags \in Flags /\ Nested(o.flags)
  <2>1. s.flags \in Flags /\ Nested(s.flags) /\ s.flags.prepared /\ s.flags.scan
    BY <1>3, SetupKeepsChain
  <2>2. o.flags \in {s.flags, [s.flags EXCEPT !.started = TRUE]}
    BY <1>3 DEF TransferOutcomes, Outcome
  <2>3. [s.flags EXCEPT !.started = TRUE] \in Flags /\ Nested([s.flags EXCEPT !.started = TRUE])
    BY <2>1 DEF Flags, Nested
  <2> QED
    BY <2>1, <2>2, <2>3
<1> QED
  BY <1>1, <1>2, <1>3 DEF StartOutcomes

\* A started stream cannot be started again: a transfer starts only if it was
\* stopped, and a start that fails starts nothing (CCore::startDataTansfer).
LEMMA StartNeedsStopped ==
    ASSUME NEW f \in Flags, NEW o \in StartOutcomes(f)
    PROVE  /\ Succeeds(o) => ~f.started
           /\ ~Succeeds(o) => o.flags.started = f.started
<1>1. ASSUME NEW s \in SetupOutcomes(f)
      PROVE  s.flags.started = f.started
  <2> DEFINE opened == [f EXCEPT !.scan = TRUE]
  <2>1. opened.started = f.started
    BY DEF Flags
  <2>2. s.flags \in {f, opened}
    BY <1>1 DEF SetupOutcomes, When, Outcome
  <2> QED
    BY <2>1, <2>2
<1>2. CASE o = Outcome(f, "load")
  BY <1>2 DEF Outcome, Succeeds, Nothing
<1>3. CASE o \in SetupOutcomes(f) /\ ~Succeeds(o)
  BY <1>1, <1>3
<1>4. ASSUME NEW s \in SetupOutcomes(f), o \in TransferOutcomes(s.flags)
      PROVE  /\ Succeeds(o) => ~f.started
             /\ ~Succeeds(o) => o.flags.started = f.started
  BY <1>1, <1>4 DEF TransferOutcomes, Outcome, Succeeds, Nothing
<1> QED
  BY <1>2, <1>3, <1>4 DEF StartOutcomes

\* A start that succeeds starts the stream (CCore::startRecording).
LEMMA StartStarts ==
    ASSUME NEW f \in Flags, Nested(f), NEW o \in StartOutcomes(f), Succeeds(o)
    PROVE  o.flags.started
<1>1. ASSUME NEW s \in SetupOutcomes(f), o \in TransferOutcomes(s.flags)
      PROVE  o.flags.started
  <2>1. o = Outcome([s.flags EXCEPT !.started = TRUE], Nothing)
    BY <1>1 DEF TransferOutcomes, Outcome, Succeeds, Nothing
  <2>2. s.flags \in Flags
    BY SetupKeepsChain
  <2> QED
    BY <2>1, <2>2 DEF Outcome, Flags
<1> QED
  BY <1>1 DEF StartOutcomes, Outcome, Succeeds, Nothing

\* A stop opens no scan (CCore::stopDataTransfer).
LEMMA StopOpensNothing ==
    ASSUME NEW f \in Flags, NEW o \in StopOutcomes(f)
    PROVE  o.flags.scan = f.scan
<1> DEFINE stopped == [f EXCEPT !.started = FALSE]
<1>1. o.flags \in {f, stopped}
  BY DEF StopOutcomes, When, Outcome
<1>2. stopped.scan = f.scan
  BY DEF Flags
<1> QED
  BY <1>1, <1>2

\* A stop that succeeds stops the stream (CCore::stopDataTransfer).
LEMMA StopStops ==
    ASSUME NEW f \in Flags, Nested(f), NEW o \in StopOutcomes(f)
    PROVE  /\ o.flags \in Flags /\ Nested(o.flags)
           /\ o.flags.started => f.started
           /\ Succeeds(o) => ~o.flags.started
<1> DEFINE stopped == [f EXCEPT !.started = FALSE]
<1>1. stopped \in Flags /\ Nested(stopped) /\ ~stopped.started
  BY DEF Flags, Nested
<1>2. CASE o = Outcome(stopped, Nothing)
  BY <1>1, <1>2 DEF Outcome
<1>3. ASSUME NEW call \in {"load", "sendStop"}, o = Outcome(f, call)
      PROVE  o.flags = f /\ ~Succeeds(o)
  BY <1>3 DEF Outcome, Succeeds, Nothing
<1> QED
  BY <1>1, <1>2, <1>3 DEF StopOutcomes, When

--------------------------------------------------------------------------------
(* Which chain of flags leads to which by one primitive: what several of   *)
(* them do in a row, a single one can do.                                  *)

\* The chain g is shorter than f, or empty.
Below(g, f) ==
    /\ g \in Flags /\ Nested(g)
    /\ ~g.started
    /\ g.scan => f.started
    /\ g.prepared => f.scan
    /\ g.connected => f.prepared

\* What disabling leaves is a shorter chain (CCore::disableDataTransfer),
LEMMA DisableShortens ==
    ASSUME NEW f \in Flags, Nested(f), NEW o \in DisableOutcomes(f)
    PROVE  Below(o.flags, f)
<1> DEFINE stopped    == [f EXCEPT !.started = FALSE]
           closed     == [stopped EXCEPT !.scan = FALSE]
           terminated == [closed EXCEPT !.prepared = FALSE]
<1>1. o.flags \in Flags /\ Nested(o.flags) /\ ~o.flags.started
  BY DisableStops
<1>2. \/ o.flags = NoStream
      \/ o.flags = stopped /\ f.started
      \/ o.flags = closed /\ (f.scan \/ f.started)
      \/ o.flags = terminated /\ f.prepared
  <2>1. \/ \E call : o = Outcome(NoStream, call)
        \/ o = Outcome(stopped, "sendStop") /\ f.started
        \/ o = Outcome(closed, "stopScan") /\ f.scan
        \/ o = Outcome(closed, "reset") /\ f.started
        \/ o = Outcome(terminated, "terminate") /\ f.prepared
    BY DEF DisableOutcomes, When
  <2> HIDE DEF stopped, closed, terminated
  <2> QED
    BY <2>1 DEF Outcome
<1>3. ~NoStream.connected /\ ~NoStream.prepared /\ ~NoStream.scan
  BY DEF NoStream
<1>4. ~closed.scan /\ ~terminated.scan /\ ~terminated.prepared
  BY DEF Flags
<1> QED
  BY <1>1, <1>2, <1>3, <1>4 DEF Below, Nested

\* ... and every shorter chain is what a call that raises can leave.
LEMMA DisableReaches ==
    ASSUME NEW f \in Flags, Nested(f), NEW g, Below(g, f)
    PROVE  \E o \in DisableOutcomes(f) : o.flags = g
<1> DEFINE stopped    == [f EXCEPT !.started = FALSE]
           closed     == [stopped EXCEPT !.scan = FALSE]
           terminated == [closed EXCEPT !.prepared = FALSE]
<1>1. g \in Flags /\ Nested(g) /\ ~g.started
  BY DEF Below
<1>2. CASE ~g.connected
  <2>1. g = NoStream
    BY <1>1, <1>2 DEF Flags, NoStream, Nested
  <2>2. Outcome(NoStream, Nothing) \in DisableOutcomes(f)
    BY DEF DisableOutcomes
  <2> QED
    BY <2>1, <2>2 DEF Outcome
<1>3. CASE g.connected /\ ~g.prepared
  <2>1. g = terminated /\ f.prepared
    BY <1>1, <1>3 DEF Below, Flags, Nested
  <2>2. Outcome(terminated, "terminate") \in DisableOutcomes(f)
    BY <2>1 DEF DisableOutcomes, When
  <2> QED
    BY <2>1, <2>2 DEF Outcome
<1>4. CASE g.prepared /\ ~g.scan
  <2>1. g = closed /\ f.scan
    BY <1>1, <1>4 DEF Below, Flags, Nested
  <2>2. Outcome(closed, "stopScan") \in DisableOutcomes(f)
    BY <2>1 DEF DisableOutcomes, When
  <2> QED
    BY <2>1, <2>2 DEF Outcome
<1>5. CASE g.scan
  <2>1. g = stopped /\ f.started
    BY <1>1, <1>5 DEF Below, Flags, Nested
  <2>2. Outcome(stopped, "sendStop") \in DisableOutcomes(f)
    BY <2>1 DEF DisableOutcomes, When
  <2> QED
    BY <2>1, <2>2 DEF Outcome
<1> QED
  BY <1>1, <1>2, <1>3, <1>4, <1>5 DEF Flags, Nested

\* Enabling opens no scan (CCore::enableDataTransfer).
LEMMA EnableOpensNothing ==
    ASSUME NEW f \in Flags, NEW o \in EnableOutcomes(f)
    PROVE  o.flags.scan = f.scan
<1> DEFINE wired    == [f EXCEPT !.connected = TRUE]
           prepared == [wired EXCEPT !.prepared = TRUE]
<1>1. o.flags \in {f, wired, prepared}
  BY DEF EnableOutcomes, When, Outcome
<1>2. wired.scan = f.scan /\ prepared.scan = f.scan
  BY DEF Flags
<1> QED
  BY <1>1, <1>2

\* A scan is opened on a prepared stream only (CCore::startRecording).
LEMMA StartNeedsPrepared ==
    ASSUME NEW f \in Flags, Nested(f), NEW o \in StartOutcomes(f)
    PROVE  o.flags.scan => f.prepared
<1>1. ASSUME NEW s \in SetupOutcomes(f)
      PROVE  s.flags = f \/ f.prepared
  BY <1>1 DEF SetupOutcomes, Outcome
<1>2. ASSUME NEW s \in SetupOutcomes(f), NEW t \in TransferOutcomes(s.flags)
      PROVE  t.flags.scan => f.prepared
  <2>1. s.flags \in Flags /\ Nested(s.flags)
    BY SetupKeepsChain
  <2>2. t.flags \in {s.flags, [s.flags EXCEPT !.started = TRUE]}
    BY DEF TransferOutcomes, Outcome
  <2>3. [s.flags EXCEPT !.started = TRUE].scan = s.flags.scan
    BY <2>1 DEF Flags
  <2> QED
    BY <1>1, <2>1, <2>2, <2>3 DEF Nested
<1>3. CASE o = Outcome(f, "load")
  BY <1>3 DEF Outcome, Nested
<1> QED
  BY <1>1, <1>2, <1>3 DEF StartOutcomes, Nested

\* The outcomes of any primitive that a schedule calls.
AnyOutcomes(f) == DisableOutcomes(f) \cup EnableOutcomes(f) \cup StartOutcomes(f) \cup StopOutcomes(f)

\* One primitive leads to every chain, but to an open scan only from a prepared stream.
LEMMA CallReaches ==
    ASSUME NEW f \in Flags, Nested(f), NEW g \in Flags, Nested(g), g.scan => f.prepared
    PROVE  \E o \in AnyOutcomes(f) : o.flags = g
<1> DEFINE wired    == [f EXCEPT !.connected = TRUE]
           ready    == [wired EXCEPT !.prepared = TRUE]
           opened   == [f EXCEPT !.scan = TRUE]
           started  == [opened EXCEPT !.started = TRUE]
<1>1. CASE g = f
  <2>1. Outcome(f, "load") \in EnableOutcomes(f)
    BY DEF EnableOutcomes
  <2> QED
    BY <1>1, <2>1 DEF AnyOutcomes, Outcome
<1>2. CASE Below(g, f)
  BY <1>2, DisableReaches DEF AnyOutcomes
<1>3. CASE g.connected /\ ~g.prepared /\ ~f.connected
  <2>1. g = wired /\ ~f.prepared
    BY <1>3 DEF Flags, Nested
  <2>2. Outcome(wired, "sendHeader") \in EnableOutcomes(f)
    BY <2>1 DEF EnableOutcomes, When
  <2> HIDE DEF wired
  <2> QED
    BY <2>1, <2>2 DEF AnyOutcomes, Outcome
<1>4. CASE g.prepared /\ ~g.scan /\ ~f.scan
  <2>1. g = ready
    BY <1>4 DEF Flags, Nested
  <2>2. Outcome(ready, Nothing) \in EnableOutcomes(f)
    BY DEF EnableOutcomes
  <2> HIDE DEF ready
  <2> QED
    BY <2>1, <2>2 DEF AnyOutcomes, Outcome
<1>5. CASE g.scan /\ ~g.started /\ ~f.scan
  <2>1. g = opened /\ f.prepared
    BY <1>5 DEF Flags, Nested
  <2>2. Outcome(opened, "startSubScan") \in SetupOutcomes(f)
    BY <2>1 DEF SetupOutcomes
  <2>3. Outcome(opened, "startSubScan") \in StartOutcomes(f)
    BY <2>2 DEF StartOutcomes, Succeeds, Outcome, Nothing
  <2> HIDE DEF opened
  <2> QED
    BY <2>1, <2>3 DEF AnyOutcomes, Outcome
<1>6. CASE g.started /\ ~f.started
  <2>1. g = started /\ f.prepared
    BY <1>6 DEF Flags, Nested
  <2>2. Outcome(opened, Nothing) \in SetupOutcomes(f) /\ Succeeds(Outcome(opened, Nothing))
    BY <2>1 DEF SetupOutcomes, Succeeds, Outcome
  <2>3. opened.prepared /\ ~opened.started
    BY <1>6, <2>1 DEF Flags
  <2>4. Outcome(started, Nothing) \in TransferOutcomes(Outcome(opened, Nothing).flags)
    BY <2>3 DEF TransferOutcomes, Outcome
  <2>5. Outcome(started, Nothing) \in StartOutcomes(f)
    <3> DEFINE first == Outcome(opened, Nothing)
               last  == Outcome(started, Nothing)
    <3> HIDE DEF first, last
    <3> QED
      BY <2>2, <2>4 DEF StartOutcomes, first, last
  <2> QED
    BY <2>1, <2>5 DEF AnyOutcomes, Outcome
<1> QED
  BY <1>1, <1>2, <1>3, <1>4, <1>5, <1>6 DEF Below, Flags, Nested
================================================================================
