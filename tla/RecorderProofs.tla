------------------------------ MODULE RecorderProofs ------------------------------
(***************************************************************************)
(* Proofs about the FITS recorder.                                         *)
(*                                                                         *)
(* What an orderly scan promises can be lost at any step of four parties,  *)
(* so the inductive invariant says where each of them is at every step of  *)
(* the core: AtRest between the subscans, Waiting from the first dump to   *)
(* the file, Recording while the file is open, Closing and Closed after    *)
(* it.  One more fact is needed of every scan, orderly or not: the header  *)
(* of the present scan is the last one on the flow, or has been received.  *)
(***************************************************************************)
EXTENDS DataRecorder, TLAPS

--------------------------------------------------------------------------------
(* The inductive invariant.                                                *)

HeadersOnly == \A i \in 1 .. Len(flow) : flow[i].kind = "header"
NoHeaders   == \A i \in 1 .. Len(flow) : flow[i].kind # "header"
NoStop      == \A i \in 1 .. Len(flow) : flow[i].kind # "stop"
OwnPlace    == [scan |-> core.scan, sub |-> core.sub]

\* In any scan.
HeaderComes ==
    /\ coll.headers = core.scan \/ \E j \in 1 .. Len(flow) : flow[j] = Header(core.scan)
    /\ \A i \in 1 .. Len(flow) : flow[i].kind = "header" =>
           flow[i].scan = core.scan \/ \E j \in i + 1 .. Len(flow) : flow[j] = Header(core.scan)

Always ==
    /\ source.go <=> At("recording")
    /\ source.sending => source.go
    /\ core.pc # "idle" => core.scan > 0
    /\ coll.scanHeader => coll.name.scan > 0
    /\ EngineAt("opening") => ~FileOpened /\ coll.name.scan > 0
    /\ ~FileOpened => written = <<>>
    /\ HeaderComes

\* In an orderly scan: the setup that was commanded is there.
SetUp ==
    /\ ~coll.reset
    /\ coll.scanHeader <=> core.pc \in {"opened", "ready", "recording", "stopping", "scan"}
    /\ coll.scanHeader =>
           /\ ~coll.writeSummary /\ engine.summary \in {0, core.scan}
           /\ coll.name.scan = core.scan
    /\ core.pc \in {"ready", "recording", "stopping"} => coll.name.sub = core.sub

AtRest ==
    /\ ~coll.running /\ ~coll.start /\ ~coll.stop /\ dumps = <<>>
    /\ engine.pc \in {"idle", "flags"} /\ ~FileOpened

\* Dumps may come, and the file is not open yet.
Waiting ==
    /\ ~coll.running /\ ~coll.stop /\ coll.subScanHeader
    /\ engine.pc \in {"idle", "flags", "opening"} /\ ~FileOpened
    /\ dumps # <<>> \/ EngineAt("opening") => coll.start
    /\ coll.start => sent > 0 /\ NoHeaders

\* The file is open.
Recording ==
    /\ coll.running /\ ~coll.start /\ ~coll.subScanHeader
    /\ engine.pc \in {"idle", "flags", "headers", "draining"}
    /\ EngineAt("draining") => coll.stop
    /\ engine.file = OwnPlace /\ engine.summary = core.scan
    /\ sent > 0 /\ NoHeaders

\* The stop is on its way, behind all the dumps, or it has come.
StopComes ==
    IF coll.stop
    THEN flow = <<>>
    ELSE /\ flow # <<>>
         /\ \A i \in 1 .. Len(flow) : flow[i].kind = "stop" <=> i = Len(flow)

\* The file was closed, and the flags tell it or not yet.
Closing ==
    /\ coll.running /\ coll.stop /\ ~coll.start /\ EngineAt("closing") /\ ~FileOpened
    /\ dumps = <<>>
Closed == (Closing \/ AtRest) /\ ~coll.subScanHeader /\ flow = <<>> /\ Finished

\* Where the recorder is at each step of the core.
InPhase ==
    /\ core.pc \notin {"stopped", "resetting"}
    /\ core.pc \notin {"recording", "stopping"} =>
           AtRest /\ HeadersOnly /\ (coll.subScanHeader <=> At("ready"))
    /\ At("ready") => sent = 0 /\ dropped = {}
    /\ At("recording") =>
           /\ Waiting \/ (Recording /\ ~coll.stop)
           /\ NoStop /\ (sent > 0 => source.sending) /\ dropped \subseteq Sent
           /\ Carries(UnderWay, Kept)
    /\ At("stopping") =>
           \/ Recording /\ StopComes /\ dropped \subseteq Sent /\ Carries(UnderWay, Kept)
           \/ Closed
    /\ At("scan") => Finished

\* The headers were sent before anything else.
HeadersFirst ==
    \A i, j \in 1 .. Len(flow) : i < j /\ flow[j].kind = "header" => flow[i].kind = "header"

Orderly == SetUp /\ HeadersFirst /\ InPhase

RecorderInvariant == TypeOK /\ Always /\ (orderly => Orderly)

--------------------------------------------------------------------------------
(* Messages, and sequences of them.                                        *)

LEMMA MessageKinds ==
    ASSUME NEW m \in Messages
    PROVE  /\ m.kind \in {"header", "dump", "stop"}
           /\ m.kind = "header" => m.scan \in Scans /\ m = Header(m.scan)
           /\ m.kind = "dump" => m \in Dumps /\ m.sub \in SubScans /\ m.n \in 1 .. MaxDumps
                                 /\ m = Dump(m.sub, m.n)
BY DEF Messages, Dumps, Header, Dump, Stop

LEMMA DumpsAreMessages ==
    /\ Dumps \subseteq Messages
    /\ \A dump \in Dumps : dump.kind = "dump"
BY DEF Messages, Dumps, Dump

LEMMA KindOfMessages ==
    /\ \A scan : Header(scan).kind = "header" /\ Header(scan).scan = scan
    /\ \A sub, n : Dump(sub, n).kind = "dump" /\ Dump(sub, n).n = n /\ Dump(sub, n).sub = sub
    /\ Stop.kind = "stop"
BY DEF Header, Dump, Stop

\* The first of one sequence becomes the last of the one before.
LEMMA MoveHead ==
    ASSUME NEW S, NEW a \in Seq(S), NEW b \in Seq(S), b # <<>>
    PROVE  Append(a, Head(b)) \o Tail(b) = a \o b
<1>1. Len(b) \in Nat /\ Len(b) > 0 /\ Head(b) \in S /\ Tail(b) \in Seq(S)
  OBVIOUS
<1>2. Append(a, Head(b)) \o Tail(b) \in Seq(S) /\ a \o b \in Seq(S)
  BY <1>1
<1>3. Len(Append(a, Head(b)) \o Tail(b)) = Len(a \o b)
  BY <1>1
<1>4. \A i \in 1 .. Len(a \o b) : (Append(a, Head(b)) \o Tail(b))[i] = (a \o b)[i]
  BY <1>1
<1> QED
  BY <1>2, <1>3, <1>4

LEMMA DumpIn ==
    ASSUME NEW s, NEW m
    PROVE  m \in DumpsIn(s) <=> IsDump(m) /\ \E i \in 1 .. Len(s) : s[i] = m
BY DEF DumpsIn

\* What a sequence carries when a message is put at its end,
LEMMA CarriesAppend ==
    ASSUME NEW s \in Seq(Messages), NEW some, Carries(s, some), NEW m \in Messages
    PROVE  /\ ~IsDump(m) => Carries(Append(s, m), some)
           /\ IsDump(m) /\ (\A dump \in some : dump.n < m.n)
                  => Carries(Append(s, m), some \cup {m})
<1> DEFINE t == Append(s, m)
<1>1. /\ Len(t) = Len(s) + 1 /\ Len(s) \in Nat
      /\ \A i \in 1 .. Len(s) : t[i] = s[i]
      /\ t[Len(s) + 1] = m
  OBVIOUS
<1>2. DumpsIn(s) = some /\ InOrder(s)
  BY DEF Carries
<1>3. ASSUME ~IsDump(m)
      PROVE  DumpsIn(t) = some /\ InOrder(t)
  <2> HIDE DEF t
  <2> QED
    BY <1>1, <1>2, <1>3 DEF DumpsIn, InOrder
<1>4. ASSUME IsDump(m), \A dump \in some : dump.n < m.n
      PROVE  DumpsIn(t) = some \cup {m} /\ InOrder(t)
  <2> HIDE DEF t
  <2>1. DumpsIn(t) = some \cup {m}
    BY <1>1, <1>2, <1>4 DEF DumpsIn
  <2>2. \A i \in 1 .. Len(s) : IsDump(t[i]) => t[i].n < m.n
    BY <1>1, <1>2, <1>4 DEF DumpsIn
  <2>3. InOrder(t)
    BY <1>1, <1>2, <2>2 DEF InOrder
  <2> QED
    BY <2>1, <2>3
<1> QED
  BY <1>3, <1>4 DEF Carries

\* ... and when one is taken out.
LEMMA CarriesDrop ==
    ASSUME NEW a \in Seq(Messages), NEW b \in Seq(Messages), b # <<>>,
           NEW some, Carries(a \o b, some)
    PROVE  /\ ~IsDump(Head(b)) => Carries(a \o Tail(b), some)
           /\ IsDump(Head(b)) => Head(b) \in some /\ Carries(a \o Tail(b), some \ {Head(b)})
<1> DEFINE s == a \o b
           t == a \o Tail(b)
           p == Len(a)
<1>1. /\ p \in Nat /\ Len(b) \in Nat /\ Len(b) > 0
      /\ Len(s) = p + Len(b) /\ Len(t) = p + Len(b) - 1
  OBVIOUS
<1>2. /\ \A i \in 1 .. p : t[i] = s[i]
      /\ \A i \in p + 1 .. Len(t) : t[i] = s[i + 1]
      /\ s[p + 1] = Head(b)
      /\ \A i \in 1 .. Len(s) : s[i] \in Messages
  OBVIOUS
<1>3. DumpsIn(s) = some /\ InOrder(s)
  BY DEF Carries
<1> HIDE DEF s, t, p
<1>4. \A i \in 1 .. Len(t) : \E j \in 1 .. Len(s) : t[i] = s[j] /\ j # p + 1
  BY <1>1, <1>2
<1>5. \A j \in 1 .. Len(s) : j # p + 1 => \E i \in 1 .. Len(t) : t[i] = s[j]
  <2> SUFFICES ASSUME NEW j \in 1 .. Len(s), j # p + 1
               PROVE  \E i \in 1 .. Len(t) : t[i] = s[j]
    OBVIOUS
  <2>1. CASE j <= p
    BY <1>1, <1>2, <2>1
  <2>2. CASE j > p + 1
    <3>1. j - 1 \in p + 1 .. Len(t) /\ t[j - 1] = s[j]
      BY <1>1, <1>2, <2>2
    <3> QED
      BY <1>1, <3>1
  <2> QED
    BY <1>1, <2>1, <2>2
<1>6. InOrder(t)
  <2> DEFINE Old(i) == IF i <= p THEN i ELSE i + 1
  <2>1. \A i \in 1 .. Len(t) : Old(i) \in 1 .. Len(s) /\ t[i] = s[Old(i)]
    BY <1>1, <1>2
  <2>2. \A i, j \in 1 .. Len(t) : i < j => Old(i) < Old(j)
    BY <1>1
  <2> HIDE DEF Old
  <2> QED
    BY <1>3, <2>1, <2>2 DEF InOrder
<1>7. ASSUME ~IsDump(Head(b))
      PROVE  DumpsIn(t) = some
  <2>1. ASSUME NEW m, m \in DumpsIn(t)
        PROVE  m \in DumpsIn(s)
    <3>1. IsDump(m) /\ \E i \in 1 .. Len(t) : t[i] = m
      BY <2>1, DumpIn
    <3> QED
      BY <1>4, <3>1, DumpIn
  <2>2. ASSUME NEW m, m \in DumpsIn(s)
        PROVE  m \in DumpsIn(t)
    <3>1. PICK j \in 1 .. Len(s) : s[j] = m /\ IsDump(m)
      BY <2>2, DumpIn
    <3> QED
      BY <1>2, <1>5, <1>7, <3>1, DumpIn
  <2> QED
    BY <1>3, <2>1, <2>2
<1>8. ASSUME IsDump(Head(b))
      PROVE  Head(b) \in some /\ DumpsIn(t) = some \ {Head(b)}
  <2>1. p + 1 \in 1 .. Len(s) /\ Head(b) \in some
    BY <1>1, <1>2, <1>3, <1>8 DEF DumpsIn
  <2>2. \A j \in 1 .. Len(s) : IsDump(s[j]) /\ j # p + 1 => s[j] # Head(b)
    <3> SUFFICES ASSUME NEW j \in 1 .. Len(s), IsDump(s[j]), j # p + 1
                 PROVE  s[j].n # Head(b).n
      OBVIOUS
    <3>1. s[j].n < s[p + 1].n \/ s[p + 1].n < s[j].n
      BY <1>1, <1>2, <1>3, <1>8, <2>1 DEF InOrder
    <3>2. s[j].n \in Nat /\ s[p + 1].n \in Nat
      BY <1>2, <1>8, <2>1, MessageKinds DEF IsDump
    <3> QED
      BY <1>2, <3>1, <3>2
  <2>3. ASSUME NEW m, m \in DumpsIn(t)
        PROVE  m \in DumpsIn(s) /\ m # Head(b)
    <3>1. PICK i \in 1 .. Len(t) : t[i] = m /\ IsDump(m)
      BY <2>3, DumpIn
    <3>2. PICK j \in 1 .. Len(s) : s[j] = m /\ j # p + 1
      BY <1>4, <3>1
    <3> QED
      BY <2>2, <3>1, <3>2, DumpIn
  <2>4. ASSUME NEW m, m \in DumpsIn(s), m # Head(b)
        PROVE  m \in DumpsIn(t)
    <3>1. PICK j \in 1 .. Len(s) : s[j] = m /\ IsDump(m)
      BY <2>4, DumpIn
    <3>2. j # p + 1
      BY <1>2, <2>4, <3>1
    <3> QED
      BY <1>5, <3>1, <3>2, DumpIn
  <2> QED
    BY <1>3, <2>1, <2>3, <2>4
<1> QED
  BY <1>6, <1>7, <1>8 DEF Carries, t

--------------------------------------------------------------------------------
(* Types.                                                                  *)

LEMMA MessagesMade ==
    /\ \A scan \in Scans : Header(scan) \in Messages
    /\ \A sub \in SubScans, n \in 1 .. MaxDumps : Dump(sub, n) \in Dumps /\ Dump(sub, n) \in Messages
    /\ Stop \in Messages
BY DEF Messages, Dumps

Engines == [pc : {"idle", "flags", "opening", "headers", "draining", "closing"},
            file : File, summary : Scans]
Cores == [pc : {"idle", "prepared", "opened", "ready", "recording", "stopping", "scan",
                "stopped", "resetting"},
          sub : SubScans, scan : Scans]

\* The scheduler core.
LEMMA CoreTyped ==
    ASSUME TypeOK, Core
    PROVE  TypeOK'
<1> USE RecorderBounds
<1>1. /\ coll \in Collection /\ core \in Cores /\ flow \in Seq(Messages)
      /\ core.scan \in 0 .. MaxScans /\ core.sub \in 0 .. MaxSubScans
  BY DEF TypeOK, Cores, Scans, SubScans
<1>2. ScanStopped => coll' \in Collection
  BY <1>1 DEF ScanStopped, Collection
<1>3. ASSUME NEW place \in {"idle", "prepared", "opened", "ready", "recording", "stopping", "scan",
                            "stopped", "resetting"},
             Goes(place)
      PROVE  core' \in Cores
  BY <1>1, <1>3 DEF Goes, Cores
<1>4. Suspend => source' \in [go : BOOLEAN, sending : BOOLEAN] /\ flow' \in Seq(Messages)
  BY <1>1, MessagesMade DEF Suspend
<1>5. CASE SendHeader
  <2>1. core.scan + 1 \in Scans
    BY <1>1, <1>5 DEF SendHeader, Scans
  <2>2. flow' \in Seq(Messages)
    BY <1>1, <1>5, <2>1, MessagesMade DEF SendHeader
  <2>3. core' \in Cores
    BY <1>1, <1>5, <2>1 DEF SendHeader, Cores
  <2> QED
    BY <1>5, <2>2, <2>3 DEF SendHeader, TypeOK, Cores, recorder, history
<1>6. CASE StartScan
  <2>1. coll' \in Collection /\ core' \in Cores
    BY <1>1, <1>3, <1>6 DEF StartScan, Collection, File, Cores
  <2>2. orderly' \in BOOLEAN
    BY <1>1, <1>6 DEF StartScan, Quiet, Collection
  <2> QED
    BY <1>6, <2>1, <2>2 DEF StartScan, TypeOK, Cores, history
<1>7. CASE StartSubScan
  <2>1. core.sub + 1 \in SubScans
    BY <1>1, <1>7 DEF StartSubScan, SubScans
  <2>2. coll' \in Collection /\ core' \in Cores
    BY <1>1, <1>7, <2>1 DEF StartSubScan, Collection, File, Cores
  <2>3. sent' \in 0 .. MaxDumps /\ dropped' \subseteq Dumps
    BY <1>7 DEF StartSubScan
  <2> QED
    BY <1>7, <2>2, <2>3 DEF StartSubScan, TypeOK, Cores
<1>8. CASE SendData
  <2>1. core' \in Cores
    BY <1>3, <1>8 DEF SendData
  <2> QED
    BY <1>8, <2>1 DEF SendData, TypeOK, Cores, recorder, history
<1>9. CASE SendStop \/ AbortRecording
  <2>1. core' \in Cores
    BY <1>3, <1>9 DEF SendStop, AbortRecording
  <2>2. orderly' \in BOOLEAN
    BY <1>1, <1>9 DEF SendStop, AbortRecording, Collection, TypeOK
  <2> QED
    BY <1>4, <1>9, <2>1, <2>2 DEF SendStop, AbortRecording, TypeOK, Cores, recorder, history
<1>10. CASE RecordingCompleted
  <2>1. core' \in Cores
    BY <1>3, <1>10 DEF RecordingCompleted
  <2> QED
    BY <1>10, <2>1 DEF RecordingCompleted, TypeOK, Cores, recorder, history
<1>11. CASE StopScan \/ AbortScan \/ Abort
  <2>1. core' \in Cores
    BY <1>3, <1>11 DEF StopScan, AbortScan, Abort
  <2>2. coll' \in Collection
    BY <1>1, <1>2, <1>11 DEF StopScan, AbortScan, Abort
  <2> QED
    BY <1>11, <2>1, <2>2 DEF StopScan, AbortScan, Abort, TypeOK, Cores, history
<1>12. CASE Reset
  <2>1. core' \in Cores
    BY <1>3, <1>12 DEF Reset
  <2>2. coll' \in Collection
    BY <1>1, <1>12 DEF Reset, Collection
  <2>3. dumps' \in Seq(Dumps) /\ Len(dumps') <= CacheSize
    BY <1>12 DEF Reset
  <2> QED
    BY <1>12, <2>1, <2>2, <2>3 DEF Reset, TypeOK, Cores, history
<1> QED
  BY <1>5, <1>6, <1>7, <1>8, <1>9, <1>10, <1>11, <1>12 DEF Core

\* The backend and the flow.
LEMMA FlowTyped ==
    ASSUME TypeOK, SendDump \/ Deliver
    PROVE  TypeOK'
<1> USE RecorderBounds
<1>1. /\ coll \in Collection /\ core \in Cores /\ flow \in Seq(Messages)
      /\ core.sub \in SubScans /\ dumps \in Seq(Dumps)
  BY DEF TypeOK, Cores
<1>2. CASE SendDump
  <2>1. sent + 1 \in 1 .. MaxDumps /\ sent' = sent + 1
    BY <1>2 DEF SendDump, TypeOK
  <2>2. flow' \in Seq(Messages)
    BY <1>1, <1>2, <2>1, MessagesMade DEF SendDump
  <2>3. source' \in [go : BOOLEAN, sending : BOOLEAN]
    BY <1>2 DEF SendDump, TypeOK
  <2> QED
    BY <1>2, <2>1, <2>2, <2>3 DEF SendDump, TypeOK, recorder
<1>3. ASSUME flow # <<>>
      PROVE  Head(flow) \in Messages /\ Tail(flow) \in Seq(Messages)
  BY <1>1, <1>3
<1>4. CASE ReceiveHeader
  <2>1. Head(flow).scan \in Scans
    BY <1>3, <1>4, MessageKinds DEF ReceiveHeader
  <2>2. coll' \in Collection
    BY <1>1, <1>4, <2>1 DEF ReceiveHeader, Collection
  <2> QED
    BY <1>3, <1>4, <2>2 DEF ReceiveHeader, TypeOK, history
<1>5. CASE ReceiveDump
  <2>1. Head(flow) \in Dumps
    BY <1>3, <1>5, MessageKinds DEF ReceiveDump, IsDump
  <2>2. coll' \in Collection
    BY <1>1, <1>5 DEF ReceiveDump, Collection
  <2>3. dumps' \in Seq(Dumps) /\ Len(dumps') <= CacheSize /\ dropped' \subseteq Dumps
    <3>1. CASE Len(dumps) < CacheSize
      <4>1. dumps' = Append(dumps, Head(flow)) /\ dropped' = dropped
        BY <1>5, <3>1 DEF ReceiveDump
      <4>2. CacheSize \in Nat /\ Len(dumps) \in Nat
        BY <1>1
      <4>3. dumps' \in Seq(Dumps) /\ Len(dumps') = Len(dumps) + 1
        BY <1>1, <2>1, <4>1
      <4> QED
        BY <3>1, <4>1, <4>2, <4>3 DEF TypeOK
    <3>2. CASE ~(Len(dumps) < CacheSize)
      BY <1>1, <1>5, <2>1, <3>2 DEF ReceiveDump, TypeOK
    <3> QED
      BY <3>1, <3>2
  <2> QED
    BY <1>3, <1>5, <2>2, <2>3 DEF ReceiveDump, TypeOK
<1>6. CASE ReceiveStop
  <2>1. coll' \in Collection
    BY <1>1, <1>6 DEF ReceiveStop, Collection
  <2> QED
    BY <1>3, <1>6, <2>1 DEF ReceiveStop, TypeOK, history
<1> QED
  BY <1>2, <1>4, <1>5, <1>6 DEF Deliver

\* The engine thread.
LEMMA EngineTyped ==
    ASSUME TypeOK, Engine
    PROVE  TypeOK'
<1> USE RecorderBounds
<1>1. /\ coll \in Collection /\ engine \in Engines
      /\ dumps \in Seq(Dumps) /\ written \in Seq(Dumps)
      /\ NoFile \in File /\ 0 \in Scans
  BY DEF TypeOK, Engines, File, NoFile, Scans, SubScans
<1>2. ASSUME NEW place \in {"idle", "flags", "opening", "headers", "draining", "closing"}, Runs(place)
      PROVE  engine' \in Engines
  BY <1>1, <1>2 DEF Runs, Engines
<1>3. CASE FinalizeSummary
  <2>1. coll' \in Collection /\ engine' \in Engines
    BY <1>1, <1>3 DEF FinalizeSummary, Collection, Engines
  <2> QED
    BY <1>3, <2>1 DEF FinalizeSummary, TypeOK, Engines, history
<1>4. CASE AnswerReset
  <2>1. coll' \in Collection /\ engine' \in Engines
    BY <1>1, <1>4 DEF AnswerReset, Collection, Engines
  <2>2. written' \in Seq(Dumps)
    BY <1>4 DEF AnswerReset
  <2> QED
    BY <1>4, <2>1, <2>2 DEF AnswerReset, TypeOK, Engines, history
<1>5. CASE BeginOpening \/ BeginStop \/ NothingToDo \/ WriteHeaders
  <2>1. engine' \in Engines
    BY <1>2, <1>5 DEF BeginOpening, BeginStop, NothingToDo, WriteHeaders
  <2> QED
    BY <1>5, <2>1 DEF BeginOpening, BeginStop, NothingToDo, WriteHeaders, TypeOK, Engines, history
<1>6. CASE SaveDumps \/ Drain
  <2>1. engine' \in Engines
    BY <1>1, <1>2, <1>6 DEF SaveDumps, Drain
  <2>2. ProcessData
    BY <1>6 DEF SaveDumps, Drain
  <2>3. dumps' \in Seq(Dumps) /\ Len(dumps') <= CacheSize /\ written' \in Seq(Dumps)
    <3>1. Head(dumps) \in Dumps /\ Tail(dumps) \in Seq(Dumps) /\ Len(Tail(dumps)) = Len(dumps) - 1
      BY <1>1, <2>2 DEF ProcessData
    <3> QED
      BY <1>1, <2>2, <3>1 DEF ProcessData, TypeOK
  <2> QED
    BY <2>1, <2>2, <2>3 DEF ProcessData, TypeOK, Engines, history
<1>7. CASE CreateFile
  <2>1. coll' \in Collection
    BY <1>1, <1>7 DEF CreateFile, Collection
  <2>2. engine' \in Engines
    <3> DEFINE summary == IF engine.summary = 0 THEN coll.name.scan ELSE engine.summary
    <3>1. summary \in Scans /\ coll.name \in File
      BY <1>1 DEF Engines, Collection, File
    <3>2. \/ engine' = [pc |-> "headers", file |-> coll.name, summary |-> summary]
          \/ engine' = [engine EXCEPT !.pc = "idle", !.summary = summary]
      BY <1>7 DEF CreateFile
    <3> HIDE DEF summary
    <3>3. CASE engine' = [pc |-> "headers", file |-> coll.name, summary |-> summary]
      BY <3>1, <3>3 DEF Engines
    <3>4. CASE engine' = [engine EXCEPT !.pc = "idle", !.summary = summary]
      BY <1>1, <3>1, <3>4 DEF Engines
    <3> QED
      BY <3>2, <3>3, <3>4
  <2>3. failures' \in 0 .. MaxFailures
    BY <1>7 DEF CreateFile, TypeOK
  <2> QED
    BY <1>7, <2>1, <2>2, <2>3 DEF CreateFile, TypeOK, Engines, history
<1>8. CASE CloseFile
  <2>1. engine' \in Engines
    BY <1>1, <1>8 DEF CloseFile, Engines
  <2>2. finished' \in [file : File, dumps : Seq(Dumps)] /\ written' \in Seq(Dumps)
    BY <1>1, <1>8 DEF CloseFile, TypeOK, Engines
  <2> QED
    BY <1>8, <2>1, <2>2 DEF CloseFile, TypeOK, Engines, history
<1>9. CASE HaltStopStage
  <2>1. coll' \in Collection /\ engine' \in Engines
    BY <1>1, <1>2, <1>9 DEF HaltStopStage, Collection
  <2> QED
    BY <1>9, <2>1 DEF HaltStopStage, TypeOK, Engines, history
<1> QED
  BY <1>3, <1>4, <1>5, <1>6, <1>7, <1>8, <1>9 DEF Engine

--------------------------------------------------------------------------------
(* What holds in any scan.                                                 *)

LEMMA FlowTail ==
    ASSUME TypeOK, flow # <<>>, flow' = Tail(flow)
    PROVE  /\ Len(flow) \in Nat /\ Len(flow') = Len(flow) - 1 /\ Head(flow) = flow[1]
           /\ Len(flow) >= 1
           /\ \A i \in 1 .. Len(flow') : flow'[i] = flow[i + 1]
BY DEF TypeOK

LEMMA FlowAppend ==
    ASSUME TypeOK, NEW m, flow' = Append(flow, m)
    PROVE  /\ Len(flow) \in Nat /\ Len(flow') = Len(flow) + 1 /\ flow'[Len(flow) + 1] = m
           /\ \A i \in 1 .. Len(flow) : flow'[i] = flow[i]
BY DEF TypeOK

LEMMA HeaderStays ==
    ASSUME HeaderComes, UNCHANGED <<flow, core.scan, coll.headers>>
    PROVE  HeaderComes'
BY DEF HeaderComes

\* The header of the next scan is the last on the flow.
LEMMA HeaderSent ==
    ASSUME TypeOK, flow' = Append(flow, Header(core'.scan))
    PROVE  HeaderComes'
<1>1. Len(flow) + 1 \in 1 .. Len(flow') /\ flow'[Len(flow) + 1] = Header(core'.scan)
  BY FlowAppend
<1>2. \A i \in 1 .. Len(flow') : i = Len(flow) + 1 \/ Len(flow) + 1 \in i + 1 .. Len(flow')
  BY FlowAppend
<1> QED
  BY <1>1, <1>2, KindOfMessages DEF HeaderComes

\* Nothing but SendHeader puts a header after it,
LEMMA HeaderFollowed ==
    ASSUME TypeOK, HeaderComes, UNCHANGED <<core.scan, coll.headers>>,
           NEW m, m.kind # "header", flow' = Append(flow, m)
    PROVE  HeaderComes'
<1>1. coll'.headers = core'.scan \/ \E j \in 1 .. Len(flow') : flow'[j] = Header(core'.scan)
  BY FlowAppend DEF HeaderComes
<1>2. ASSUME NEW i \in 1 .. Len(flow'), flow'[i].kind = "header"
      PROVE  flow'[i].scan = core'.scan \/ \E j \in i + 1 .. Len(flow') : flow'[j] = Header(core'.scan)
  <2>1. i \in 1 .. Len(flow) /\ flow'[i] = flow[i]
    BY <1>2, FlowAppend
  <2> QED
    BY <1>2, <2>1, FlowAppend DEF HeaderComes
<1> QED
  BY <1>1, <1>2 DEF HeaderComes

\* ... and it leaves the flow only by being received.
LEMMA HeaderDelivered ==
    ASSUME TypeOK, HeaderComes, UNCHANGED core.scan, flow # <<>>, flow' = Tail(flow),
           coll'.headers = IF Head(flow).kind = "header" THEN Head(flow).scan ELSE coll.headers
    PROVE  HeaderComes'
<1>1. coll'.headers = core'.scan \/ \E j \in 1 .. Len(flow') : flow'[j] = Header(core'.scan)
  <2>1. CASE \E j \in 2 .. Len(flow) : flow[j] = Header(core.scan)
    <3>1. PICK j \in 2 .. Len(flow) : flow[j] = Header(core.scan)
      BY <2>1
    <3>2. j - 1 \in 1 .. Len(flow') /\ flow'[j - 1] = flow[j]
      BY FlowTail
    <3> QED
      BY <3>1, <3>2
  <2>2. CASE ~\E j \in 2 .. Len(flow) : flow[j] = Header(core.scan)
    <3>1. Head(flow).kind = "header" => Head(flow).scan = core.scan
      BY <2>2, FlowTail DEF HeaderComes
    <3>2. coll.headers = core.scan \/ Head(flow) = Header(core.scan)
      BY <2>2, FlowTail DEF HeaderComes
    <3> QED
      BY <3>1, <3>2, KindOfMessages
  <2> QED
    BY <2>1, <2>2
<1>2. ASSUME NEW i \in 1 .. Len(flow'), flow'[i].kind = "header"
      PROVE  flow'[i].scan = core'.scan \/ \E j \in i + 1 .. Len(flow') : flow'[j] = Header(core'.scan)
  <2>1. i + 1 \in 1 .. Len(flow) /\ flow'[i] = flow[i + 1]
    BY FlowTail
  <2>2. CASE flow[i + 1].scan = core.scan
    BY <2>1, <2>2
  <2>3. CASE \E j \in (i + 1) + 1 .. Len(flow) : flow[j] = Header(core.scan)
    <3>1. PICK j \in (i + 1) + 1 .. Len(flow) : flow[j] = Header(core.scan)
      BY <2>3
    <3>2. j - 1 \in i + 1 .. Len(flow') /\ flow'[j - 1] = flow[j]
      BY FlowTail
    <3> QED
      BY <3>1, <3>2
  <2> QED
    BY <1>2, <2>1, <2>2, <2>3 DEF HeaderComes
<1> QED
  BY <1>1, <1>2 DEF HeaderComes

\* What the core and the engine leave alone when they go on.
LEMMA GoesOn ==
    ASSUME TypeOK, NEW place, Goes(place)
    PROVE  core'.pc = place /\ core'.scan = core.scan /\ core'.sub = core.sub
BY DEF TypeOK, Goes

LEMMA RunsOn ==
    ASSUME TypeOK, NEW place, Runs(place)
    PROVE  engine'.pc = place /\ engine'.file = engine.file /\ engine'.summary = engine.summary
BY DEF TypeOK, Runs

\* The file was created, or not: what changes of the engine and of the flags.
LEMMA FileCreated ==
    ASSUME TypeOK, CreateFile
    PROVE  /\ engine'.summary = IF engine.summary = 0 THEN coll.name.scan ELSE engine.summary
           /\ \/ /\ engine'.pc = "headers" /\ engine'.file = coll.name
                 /\ coll'.running /\ ~coll'.start /\ ~coll'.subScanHeader
                 /\ UNCHANGED <<coll.stop, coll.reset, coll.scanHeader, coll.writeSummary,
                                coll.name, coll.headers>>
              \/ engine'.pc = "idle" /\ engine'.file = engine.file /\ UNCHANGED coll
<1> DEFINE summary == IF engine.summary = 0 THEN coll.name.scan ELSE engine.summary
<1>1. \/ /\ engine' = [pc |-> "headers", file |-> coll.name, summary |-> summary]
         /\ coll' = [coll EXCEPT !.running = TRUE, !.start = FALSE, !.subScanHeader = FALSE]
      \/ /\ engine' = [engine EXCEPT !.pc = "idle", !.summary = summary]
         /\ UNCHANGED coll
  BY DEF CreateFile
<1>2. coll \in Collection /\ engine \in Engines
  BY DEF TypeOK, Engines
<1> HIDE DEF summary
<1>3. CASE /\ engine' = [pc |-> "headers", file |-> coll.name, summary |-> summary]
           /\ coll' = [coll EXCEPT !.running = TRUE, !.start = FALSE, !.subScanHeader = FALSE]
  BY <1>2, <1>3 DEF Collection, summary
<1>4. CASE /\ engine' = [engine EXCEPT !.pc = "idle", !.summary = summary]
           /\ UNCHANGED coll
  BY <1>2, <1>4 DEF Engines, summary
<1> QED
  BY <1>1, <1>3, <1>4

\* What stopScan does to the flags.
LEMMA ScanStoppedFlags ==
    ASSUME TypeOK, ScanStopped
    PROVE  /\ ~coll'.scanHeader /\ coll'.writeSummary
           /\ UNCHANGED <<coll.running, coll.start, coll.stop, coll.reset, coll.subScanHeader,
                          coll.name, coll.headers>>
BY DEF TypeOK, ScanStopped, Collection

LEMMA CoreAlways ==
    ASSUME TypeOK, Always, Core
    PROVE  Always'
<1>1. coll \in Collection /\ engine \in Engines /\ core \in Cores /\ core.scan \in Nat
      /\ source \in [go : BOOLEAN, sending : BOOLEAN]
  BY RecorderBounds DEF TypeOK, Engines, Cores, Scans
<1>2. UNCHANGED <<engine, written>>
  BY DEF Core, SendHeader, StartScan, StartSubScan, SendData, SendStop, RecordingCompleted,
         StopScan, Abort, AbortRecording, AbortScan, Reset, recorder
<1>3. HeaderComes'
  <2>1. CASE SendHeader
    <3>1. core'.scan = core.scan + 1
      BY <1>1, <2>1 DEF SendHeader, Cores
    <3> QED
      BY <2>1, <3>1, HeaderSent DEF SendHeader
  <2>2. CASE SendStop \/ AbortRecording
    <3>1. UNCHANGED <<core.scan, coll>> /\ Suspend
      BY <1>1, <2>2 DEF SendStop, AbortRecording, Goes, Cores, recorder
    <3>2. Stop.kind # "header"
      BY KindOfMessages
    <3>3. CASE source.sending
      BY <3>1, <3>2, <3>3, HeaderFollowed DEF Suspend, Always
    <3>4. CASE ~source.sending
      BY <3>1, <3>4, HeaderStays DEF Suspend, Always
    <3> QED
      BY <3>3, <3>4
  <2>3. CASE ~SendHeader /\ ~SendStop /\ ~AbortRecording
    <3>1. UNCHANGED <<flow, core.scan, coll.headers>>
      <4>1. CASE StartScan
        BY <1>1, <4>1, GoesOn DEF StartScan, Collection
      <4>2. CASE StartSubScan
        BY <1>1, <4>2 DEF StartSubScan, Collection, Cores
      <4>3. CASE SendData \/ RecordingCompleted
        BY <4>3, GoesOn DEF SendData, RecordingCompleted, recorder
      <4>4. CASE StopScan \/ Abort \/ AbortScan
        BY <4>4, GoesOn, ScanStoppedFlags DEF StopScan, Abort, AbortScan
      <4>5. CASE Reset
        BY <1>1, <4>5, GoesOn DEF Reset, Collection
      <4> QED
        BY <2>3, <4>1, <4>2, <4>3, <4>4, <4>5 DEF Core
    <3> QED
      BY <3>1, HeaderStays DEF Always
  <2> QED
    BY <2>1, <2>2, <2>3
<1>4. /\ source'.go <=> core'.pc = "recording"
      /\ source'.sending => source'.go
      /\ core'.pc # "idle" => core'.scan > 0
  <2>1. CASE SendHeader \/ StartSubScan
    <3>1. /\ core.pc # "recording" /\ core'.pc \in {"prepared", "ready"} /\ core'.scan > 0
          /\ UNCHANGED source
      <4>1. CASE SendHeader
        BY <1>1, <4>1 DEF SendHeader, At, Cores
      <4>2. CASE StartSubScan
        BY <1>1, <4>2 DEF StartSubScan, Cores, Always
      <4> QED
        BY <2>1, <4>1, <4>2
    <3> QED
      BY <1>1, <3>1 DEF At, Always
  <2>2. CASE StartScan \/ RecordingCompleted \/ StopScan \/ Abort \/ AbortScan \/ Reset
    BY <1>1, <2>2, GoesOn DEF StartScan, RecordingCompleted, StopScan, Abort, AbortScan, Reset, At, Always
  <2>3. CASE SendData
    BY <1>1, <2>3, GoesOn DEF SendData, At, Always
  <2>4. CASE SendStop \/ AbortRecording
    BY <1>1, <2>4, GoesOn DEF SendStop, AbortRecording, Suspend, At, Always
  <2> QED
    BY <2>1, <2>2, <2>3, <2>4 DEF Core
<1>5. /\ coll'.scanHeader => coll'.name.scan > 0
      /\ coll.name.scan > 0 => coll'.name.scan > 0
  <2>1. CASE StartScan
    BY <1>1, <2>1 DEF StartScan, At, Always, Collection, File
  <2>2. CASE StartSubScan
    BY <1>1, <2>2 DEF StartSubScan, Always, Collection, File
  <2>3. CASE StopScan \/ Abort \/ AbortScan
    BY <2>3, ScanStoppedFlags DEF StopScan, Abort, AbortScan, Always
  <2>4. CASE Reset
    BY <1>1, <2>4 DEF Reset, Always, Collection
  <2>5. CASE SendHeader \/ SendData \/ SendStop \/ RecordingCompleted \/ AbortRecording
    BY <2>5 DEF SendHeader, SendData, SendStop, RecordingCompleted, AbortRecording, recorder, Always
  <2> QED
    BY <2>1, <2>2, <2>3, <2>4, <2>5 DEF Core
<1> QED
  BY <1>2, <1>3, <1>4, <1>5 DEF Always, At, EngineAt, FileOpened

LEMMA FlowAlways ==
    ASSUME TypeOK, Always, SendDump \/ Deliver
    PROVE  Always'
<1>1. coll \in Collection /\ source \in [go : BOOLEAN, sending : BOOLEAN]
  BY DEF TypeOK
<1>2. UNCHANGED <<engine, written, core>> /\ coll'.scanHeader = coll.scanHeader /\ coll'.name = coll.name
  BY <1>1 DEF SendDump, Deliver, ReceiveHeader, ReceiveDump, ReceiveStop, recorder, Collection
<1>3. HeaderComes'
  <2>1. CASE SendDump
    <3>1. Dump(core.sub, sent + 1).kind # "header"
      BY KindOfMessages
    <3> QED
      BY <1>2, <2>1, <3>1, HeaderFollowed DEF SendDump, Always, recorder
  <2>2. CASE Deliver
    <3>1. coll'.headers = IF Head(flow).kind = "header" THEN Head(flow).scan ELSE coll.headers
      BY <1>1, <2>2 DEF Deliver, ReceiveHeader, ReceiveDump, ReceiveStop, Collection, IsDump
    <3> QED
      BY <1>2, <2>2, <3>1, HeaderDelivered DEF Deliver, ReceiveHeader, ReceiveDump, ReceiveStop, Always
  <2> QED
    BY <2>1, <2>2
<1>4. source'.go = source.go /\ (source'.sending => source'.go)
  BY <1>1 DEF SendDump, Deliver, ReceiveHeader, ReceiveDump, ReceiveStop, Always
<1> QED
  BY <1>2, <1>3, <1>4 DEF Always, At, EngineAt, FileOpened

LEMMA EngineAlways ==
    ASSUME TypeOK, Always, Engine
    PROVE  Always'
<1>1. coll \in Collection /\ engine \in Engines
  BY DEF TypeOK, Engines
<1>2. UNCHANGED <<core, source, flow>> /\ coll'.scanHeader = coll.scanHeader
      /\ coll'.name = coll.name /\ coll'.headers = coll.headers
  BY <1>1 DEF Engine, FinalizeSummary, AnswerReset, BeginOpening, BeginStop, SaveDumps, NothingToDo,
         CreateFile, WriteHeaders, Drain, CloseFile, HaltStopStage, ProcessData, Collection
<1>3. HeaderComes'
  BY <1>2, HeaderStays DEF Always
<1>4. engine'.pc = "opening" => engine'.file = NoFile /\ coll.name.scan > 0
  <2>1. CASE BeginOpening
    BY <2>1, RunsOn DEF BeginOpening, StartAsked, Always, FileOpened
  <2>2. CASE BeginStop \/ SaveDumps \/ NothingToDo \/ WriteHeaders \/ HaltStopStage
    BY <2>2, RunsOn DEF BeginStop, SaveDumps, NothingToDo, WriteHeaders, HaltStopStage
  <2>3. CASE FinalizeSummary \/ AnswerReset \/ CreateFile \/ CloseFile
    <3>1. CASE FinalizeSummary
      BY <1>1, <3>1 DEF FinalizeSummary, Engines
    <3>2. CASE AnswerReset
      BY <1>1, <3>2 DEF AnswerReset, Engines
    <3>3. CASE CreateFile
      BY <3>3, FileCreated
    <3>4. CASE CloseFile
      BY <1>1, <3>4 DEF CloseFile, Engines
    <3> QED
      BY <2>3, <3>1, <3>2, <3>3, <3>4
  <2>4. CASE Drain
    BY <2>4 DEF Drain, EngineAt, Always, FileOpened
  <2> QED
    BY <2>1, <2>2, <2>3, <2>4 DEF Engine
<1>5. engine'.file = NoFile => written' = <<>>
  <2>1. CASE CreateFile
    <3>1. coll.name # NoFile /\ written = <<>> /\ UNCHANGED written
      BY <1>1, <2>1 DEF CreateFile, Always, EngineAt, NoFile, Collection, File
    <3> QED
      BY <3>1
  <2>2. CASE CloseFile \/ AnswerReset
    BY <1>1, <2>2 DEF CloseFile, AnswerReset, Always, Engines
  <2>3. CASE SaveDumps \/ Drain
    BY <1>1, <2>3 DEF SaveDumps, Drain, Runs, Engines, FileOpened
  <2>4. CASE FinalizeSummary \/ BeginOpening \/ BeginStop \/ NothingToDo \/ WriteHeaders \/ HaltStopStage
    BY <1>1, <2>4 DEF FinalizeSummary, BeginOpening, BeginStop, NothingToDo, WriteHeaders, HaltStopStage,
       Runs, Engines, FileOpened, Always
  <2> QED
    BY <2>1, <2>2, <2>3, <2>4 DEF Engine
<1> QED
  BY <1>2, <1>3, <1>4, <1>5 DEF Always, At, EngineAt, FileOpened

--------------------------------------------------------------------------------
(* What holds in an orderly scan.                                          *)

LEMMA DumpSequences ==
    ASSUME NEW s \in Seq(Dumps)
    PROVE  s \in Seq(Messages)
BY DumpsAreMessages

LEMMA UnderWayTyped ==
    ASSUME TypeOK
    PROVE  /\ written \o dumps \in Seq(Messages) /\ flow \in Seq(Messages)
           /\ UnderWay \in Seq(Messages)
<1>1. written \in Seq(Messages) /\ dumps \in Seq(Messages) /\ flow \in Seq(Messages)
  BY DumpSequences DEF TypeOK
<1> QED
  BY <1>1 DEF UnderWay

LEMMA NothingCarried ==
    ASSUME NEW s, \A i \in 1 .. Len(s) : ~IsDump(s[i])
    PROVE  Carries(s, {})
BY DEF Carries, InOrder, DumpsIn

\* At rest there is nothing but the flow.
LEMMA AtRestCarries ==
    ASSUME TypeOK, Always, AtRest, HeadersOnly
    PROVE  Carries(UnderWay, {})
<1>1. UnderWay = flow
  <2>1. written = <<>> /\ dumps = <<>>
    BY DEF Always, AtRest
  <2> QED
    BY <2>1 DEF UnderWay, TypeOK
<1> QED
  BY <1>1, NothingCarried DEF HeadersOnly, IsDump

\* The steps of the core.
LEMMA SendHeaderOrderly ==
    ASSUME TypeOK, Orderly, SendHeader
    PROVE  Orderly'
<1>1. core'.pc = "prepared" /\ core.pc = "idle" /\ UNCHANGED <<recorder, source, history>>
  BY DEF SendHeader, TypeOK, At
<1>2. AtRest' /\ ~coll'.subScanHeader /\ HeadersOnly
  BY <1>1 DEF Orderly, InPhase, AtRest, recorder, EngineAt, FileOpened, At
<1>3. HeadersOnly' /\ HeadersFirst'
  <2>1. flow' = Append(flow, Header(core.scan + 1))
    BY DEF SendHeader
  <2>2. \A i \in 1 .. Len(flow') : flow'[i].kind = "header"
    BY <1>2, <2>1, FlowAppend, KindOfMessages DEF HeadersOnly
  <2> QED
    BY <2>2 DEF HeadersOnly, HeadersFirst
<1>4. SetUp'
  BY <1>1 DEF Orderly, SetUp, recorder
<1> QED
  BY <1>1, <1>2, <1>3, <1>4 DEF Orderly, InPhase, At

LEMMA StartScanOrderly ==
    ASSUME TypeOK, StartScan, orderly'
    PROVE  Orderly'
<1>1. Quiet /\ UNCHANGED <<dumps, engine, flow>>
  BY DEF StartScan
<1>2. /\ core'.pc = "opened" /\ core'.scan = core.scan
      /\ coll'.scanHeader /\ coll'.name.scan = core.scan
      /\ UNCHANGED <<coll.running, coll.start, coll.stop, coll.reset, coll.subScanHeader,
                     coll.writeSummary>>
  BY GoesOn DEF StartScan, TypeOK, Collection, File
<1>3. AtRest' /\ HeadersOnly' /\ HeadersFirst'
  BY <1>1, <1>2 DEF Quiet, AtRest, HeadersOnly, HeadersFirst, FileOpened
<1>4. SetUp'
  BY <1>1, <1>2 DEF Quiet, SetUp
<1> QED
  BY <1>1, <1>2, <1>3, <1>4 DEF Orderly, InPhase, At, Quiet

LEMMA StartSubScanOrderly ==
    ASSUME TypeOK, Orderly, StartSubScan
    PROVE  Orderly'
<1>1. /\ core.pc \in {"opened", "scan"} /\ core'.pc = "ready"
      /\ core'.scan = core.scan /\ core'.sub = core.sub + 1
      /\ UNCHANGED <<dumps, engine, flow>> /\ sent' = 0 /\ dropped' = {}
  BY DEF StartSubScan, TypeOK
<1>2. /\ coll'.subScanHeader
      /\ coll'.name.scan = coll.name.scan /\ coll'.name.sub = core.sub + 1
      /\ UNCHANGED <<coll.running, coll.start, coll.stop, coll.reset, coll.scanHeader,
                     coll.writeSummary>>
  BY DEF StartSubScan, TypeOK, Collection, File
<1>3. AtRest' /\ HeadersOnly' /\ HeadersFirst'
  BY <1>1, <1>2 DEF Orderly, InPhase, AtRest, HeadersOnly, HeadersFirst, FileOpened
<1>4. SetUp'
  BY <1>1, <1>2 DEF Orderly, SetUp
<1> QED
  BY <1>1, <1>2, <1>3, <1>4 DEF Orderly, InPhase, At

LEMMA SendDataOrderly ==
    ASSUME TypeOK, Always, Orderly, SendData
    PROVE  Orderly'
<1>1. /\ core.pc = "ready" /\ core'.pc = "recording" /\ core'.scan = core.scan /\ core'.sub = core.sub
      /\ UNCHANGED <<recorder, flow, history>>
  BY GoesOn DEF SendData, At
<1>2. AtRest /\ HeadersOnly /\ coll.subScanHeader /\ sent = 0 /\ dropped = {}
  BY <1>1 DEF Orderly, InPhase, At
<1>3. Waiting' /\ NoStop'
  BY <1>1, <1>2 DEF AtRest, Waiting, HeadersOnly, NoStop, recorder, EngineAt, FileOpened
<1>4. Kept' = {} /\ dropped' = {} /\ sent' = 0
  BY <1>1, <1>2 DEF Kept, Sent, history
<1>5. Carries(UnderWay, Kept)'
  BY <1>1, <1>2, <1>4, AtRestCarries DEF UnderWay, recorder
<1>6. SetUp' /\ HeadersFirst'
  BY <1>1 DEF Orderly, SetUp, HeadersFirst, recorder
<1> QED
  BY <1>1, <1>3, <1>4, <1>5, <1>6 DEF Orderly, InPhase, At

\* A stop in time follows all the dumps.
LEMMA SendStopOrderly ==
    ASSUME TypeOK, Orderly, SendStop, coll.running
    PROVE  Orderly'
<1>1. /\ core.pc = "recording" /\ core'.pc = "stopping" /\ core'.scan = core.scan /\ core'.sub = core.sub
      /\ UNCHANGED <<recorder, history>>
  BY GoesOn DEF SendStop, At
<1>2. /\ Recording /\ ~coll.stop /\ NoStop /\ source.sending /\ dropped \subseteq Sent
      /\ Carries(UnderWay, Kept)
  BY <1>1 DEF Orderly, InPhase, At, Waiting, Recording
<1>3. flow' = Append(flow, Stop)
  BY <1>2 DEF SendStop, Suspend
<1>4. Recording' /\ HeadersFirst'
  <2>1. NoHeaders'
    BY <1>2, <1>3, FlowAppend, KindOfMessages DEF Recording, NoHeaders
  <2> QED
    BY <1>1, <1>2, <2>1 DEF Recording, HeadersFirst, NoHeaders, OwnPlace, recorder, history, EngineAt
<1>5. StopComes'
  <2>1. \A i \in 1 .. Len(flow') : flow'[i].kind = "stop" <=> i = Len(flow')
    BY <1>2, <1>3, FlowAppend, KindOfMessages DEF NoStop
  <2>2. flow' # <<>>
    BY <1>3 DEF TypeOK
  <2> QED
    BY <1>1, <1>2, <2>1, <2>2 DEF StopComes, recorder
<1>6. Carries(UnderWay, Kept)' /\ (dropped \subseteq Sent)'
  <2>1. UnderWay' = Append(UnderWay, Stop)
    BY <1>1, <1>3, UnderWayTyped, MessagesMade DEF UnderWay, recorder
  <2>2. Carries(Append(UnderWay, Stop), Kept)
    BY <1>2, UnderWayTyped, MessagesMade, KindOfMessages, CarriesAppend DEF IsDump
  <2>3. Kept' = Kept /\ Sent' = Sent /\ dropped' = dropped
    BY <1>1 DEF Kept, Sent, history
  <2> QED
    BY <1>2, <2>1, <2>2, <2>3
<1>7. SetUp'
  BY <1>1 DEF Orderly, SetUp, recorder
<1> QED
  BY <1>1, <1>4, <1>5, <1>6, <1>7 DEF Orderly, InPhase, At

LEMMA RecordingCompletedOrderly ==
    ASSUME TypeOK, Orderly, RecordingCompleted
    PROVE  Orderly'
<1>1. /\ core.pc = "stopping" /\ core'.pc = "scan" /\ core'.scan = core.scan /\ core'.sub = core.sub
      /\ UNCHANGED <<recorder, flow, history>> /\ ~coll.running
  BY GoesOn DEF RecordingCompleted, At
<1>2. AtRest /\ ~coll.subScanHeader /\ flow = <<>> /\ Finished
  BY <1>1 DEF Orderly, InPhase, At, Recording, Closed, Closing
<1>3. AtRest' /\ HeadersOnly' /\ ~coll'.subScanHeader
  BY <1>1, <1>2 DEF AtRest, HeadersOnly, recorder, EngineAt, FileOpened
<1>4. Finished'
  BY <1>1, <1>2 DEF Finished, Kept, Sent, recorder, history
<1>5. SetUp' /\ HeadersFirst'
  BY <1>1 DEF Orderly, SetUp, HeadersFirst, recorder
<1> QED
  BY <1>1, <1>3, <1>4, <1>5 DEF Orderly, InPhase, At

LEMMA StopScanOrderly ==
    ASSUME TypeOK, Orderly, StopScan
    PROVE  Orderly'
<1>1. /\ core.pc = "scan" /\ core'.pc = "idle"
      /\ UNCHANGED <<dumps, engine, flow>> /\ ScanStopped
  BY GoesOn DEF StopScan, At
<1>2. AtRest /\ ~coll.subScanHeader /\ HeadersOnly
  BY <1>1 DEF Orderly, InPhase, At
<1>3. AtRest' /\ HeadersOnly' /\ ~coll'.subScanHeader
  BY <1>1, <1>2, ScanStoppedFlags DEF AtRest, HeadersOnly, EngineAt, FileOpened
<1>4. SetUp' /\ HeadersFirst'
  BY <1>1, ScanStoppedFlags DEF Orderly, SetUp, HeadersFirst
<1> QED
  BY <1>1, <1>3, <1>4 DEF Orderly, InPhase, At

LEMMA CoreOrderly ==
    ASSUME TypeOK, Always, orderly => Orderly, Core, orderly'
    PROVE  Orderly'
<1>1. CASE SendHeader
  BY <1>1, SendHeaderOrderly DEF SendHeader
<1>2. CASE StartScan
  BY <1>2, StartScanOrderly
<1>3. CASE StartSubScan
  BY <1>3, StartSubScanOrderly DEF StartSubScan
<1>4. CASE SendData
  BY <1>4, SendDataOrderly DEF SendData
<1>5. CASE SendStop
  BY <1>5, SendStopOrderly DEF SendStop
<1>6. CASE RecordingCompleted
  BY <1>6, RecordingCompletedOrderly DEF RecordingCompleted
<1>7. CASE StopScan
  BY <1>7, StopScanOrderly DEF StopScan
<1>8. CASE Abort \/ AbortRecording
  BY <1>8 DEF Abort, AbortRecording
<1>9. CASE AbortScan \/ Reset
  BY <1>9 DEF AbortScan, Reset, At, Orderly, InPhase
<1> QED
  BY <1>1, <1>2, <1>3, <1>4, <1>5, <1>6, <1>7, <1>8, <1>9 DEF Core

\* The backend and the flow.
LEMMA SendDumpOrderly ==
    ASSUME TypeOK, Always, Orderly, SendDump
    PROVE  Orderly'
<1> DEFINE dump == Dump(core.sub, sent + 1)
<1>1. /\ core.pc = "recording" /\ UNCHANGED <<recorder, core, dropped>>
      /\ sent' = sent + 1 /\ sent \in Nat /\ flow' = Append(flow, dump)
  BY DEF SendDump, Always, At, TypeOK
<1>2. source'.sending
  BY DEF SendDump, TypeOK
<1>3. /\ Waiting \/ (Recording /\ ~coll.stop)
      /\ NoStop /\ dropped \subseteq Sent /\ Carries(UnderWay, Kept)
  BY <1>1 DEF Orderly, InPhase, At
<1>4. dump.kind = "dump" /\ dump.n = sent + 1 /\ dump \in Messages
  <2>1. sent + 1 \in 1 .. MaxDumps /\ core.sub \in SubScans
    BY RecorderBounds DEF SendDump, TypeOK
  <2> QED
    BY <2>1, KindOfMessages, MessagesMade
<1>5. (NoHeaders => NoHeaders') /\ NoStop' /\ HeadersFirst'
  <2>1. (NoHeaders => NoHeaders') /\ NoStop'
    BY <1>1, <1>3, <1>4, FlowAppend DEF NoHeaders, NoStop
  <2>2. HeadersFirst
    BY DEF Orderly
  <2>3. HeadersFirst'
    BY <1>1, <1>4, <2>2, FlowAppend DEF HeadersFirst
  <2> QED
    BY <2>1, <2>3
<1>6. Waiting' \/ (Recording /\ ~coll.stop)'
  BY <1>1, <1>3, <1>5 DEF Waiting, Recording, recorder, EngineAt, FileOpened, OwnPlace
<1>7. /\ \A one \in Sent : one.n < dump.n
      /\ Sent' = Sent \cup {dump}
      /\ dump \notin dropped
  <2>1. \A one \in Sent : one.n < dump.n
    BY <1>1, <1>4, KindOfMessages DEF Sent
  <2>2. Sent' = Sent \cup {dump}
    <3>1. 1 .. sent + 1 = (1 .. sent) \cup {sent + 1}
      BY <1>1
    <3> QED
      BY <1>1, <3>1 DEF Sent
  <2>3. dump \notin Sent
    BY <1>1, <1>4, <2>1
  <2> QED
    BY <1>3, <2>1, <2>2, <2>3
<1>8. Carries(UnderWay, Kept)' /\ (dropped \subseteq Sent)'
  <2>1. UnderWay' = Append(UnderWay, dump)
    BY <1>1, <1>4, UnderWayTyped DEF UnderWay, recorder
  <2>2. Kept' = Kept \cup {dump}
    BY <1>1, <1>7 DEF Kept
  <2>3. Carries(Append(UnderWay, dump), Kept \cup {dump})
    BY <1>3, <1>4, <1>7, UnderWayTyped, CarriesAppend DEF IsDump, Kept
  <2> QED
    BY <1>1, <1>3, <1>7, <2>1, <2>2, <2>3
<1>9. SetUp'
  BY <1>1 DEF Orderly, SetUp, recorder
<1> QED
  BY <1>1, <1>2, <1>5, <1>6, <1>8, <1>9 DEF Orderly, InPhase, At

LEMMA HeadersFirstTail ==
    ASSUME TypeOK, HeadersFirst, flow # <<>>, flow' = Tail(flow)
    PROVE  /\ HeadersFirst'
           /\ Head(flow).kind # "header" => NoHeaders /\ NoHeaders'
           /\ NoStop => NoStop'
           /\ HeadersOnly => HeadersOnly'
<1>1. HeadersFirst'
  BY FlowTail DEF HeadersFirst
<1>2. Head(flow).kind # "header" => NoHeaders
  BY FlowTail DEF HeadersFirst, NoHeaders
<1>3. /\ NoHeaders => NoHeaders'
      /\ NoStop => NoStop'
      /\ HeadersOnly => HeadersOnly'
  BY FlowTail DEF NoHeaders, NoStop, HeadersOnly
<1> QED
  BY <1>1, <1>2, <1>3

LEMMA ReceiveHeaderOrderly ==
    ASSUME TypeOK, Orderly, ReceiveHeader
    PROVE  Orderly'
<1>1. /\ flow # <<>> /\ flow' = Tail(flow) /\ Head(flow).kind = "header"
      /\ UNCHANGED <<dumps, engine, written, finished, core, source, history>>
  BY DEF ReceiveHeader
<1>2. UNCHANGED <<coll.running, coll.start, coll.stop, coll.reset, coll.scanHeader, coll.subScanHeader,
                  coll.writeSummary, coll.name>>
  BY DEF ReceiveHeader, TypeOK, Collection
<1>3. HeadersFirst' /\ (NoStop => NoStop') /\ (HeadersOnly => HeadersOnly')
  BY <1>1, HeadersFirstTail DEF Orderly
<1>4. ~NoHeaders
  BY <1>1, FlowTail DEF NoHeaders
<1>5. core.pc # "stopping"
  BY <1>1, <1>4 DEF Orderly, InPhase, At, Recording, Closed
<1>6. AtRest => AtRest'
  BY <1>1, <1>2 DEF AtRest, FileOpened
<1>7. CASE core.pc = "recording"
  <2>1. Waiting /\ NoStop /\ Carries(UnderWay, Kept) /\ dropped \subseteq Sent
    BY <1>4, <1>7 DEF Orderly, InPhase, At, Recording
  <2>2. Waiting'
    BY <1>1, <1>2, <1>4, <2>1 DEF Waiting, EngineAt, FileOpened
  <2>3. Carries(UnderWay', Kept)
    BY <1>1, <2>1, UnderWayTyped, CarriesDrop DEF UnderWay, IsDump
  <2>4. Kept' = Kept /\ Sent' = Sent /\ dropped' = dropped
    BY <1>1 DEF Kept, Sent, history
  <2>5. (sent' > 0 => source'.sending)
    BY <1>1, <1>7 DEF Orderly, InPhase, At, history
  <2>6. SetUp'
    BY <1>1, <1>2 DEF Orderly, SetUp
  <2> QED
    BY <1>1, <1>3, <1>7, <2>1, <2>2, <2>3, <2>4, <2>5, <2>6 DEF Orderly, InPhase, At
<1>8. CASE core.pc # "recording"
  <2>1. AtRest' /\ HeadersOnly' /\ (coll'.subScanHeader <=> core'.pc = "ready")
    BY <1>1, <1>2, <1>3, <1>5, <1>6, <1>8 DEF Orderly, InPhase, At
  <2>2. core.pc = "scan" => Finished'
    BY <1>1 DEF Orderly, InPhase, At, Finished, Kept, Sent, history
  <2>3. core.pc = "ready" => sent' = 0 /\ dropped' = {}
    BY <1>1 DEF Orderly, InPhase, At, history
  <2>4. SetUp' /\ core.pc \notin {"stopped", "resetting"}
    BY <1>1, <1>2 DEF Orderly, SetUp, InPhase
  <2> QED
    BY <1>1, <1>3, <1>5, <1>8, <2>1, <2>2, <2>3, <2>4 DEF Orderly, InPhase, At
<1> QED
  BY <1>7, <1>8

LEMMA ReceiveDumpOrderly ==
    ASSUME TypeOK, Orderly, ReceiveDump
    PROVE  Orderly'
<1> DEFINE dump == Head(flow)
<1>1. /\ flow # <<>> /\ flow' = Tail(flow) /\ dump.kind = "dump" /\ dump \in Messages
      /\ UNCHANGED <<engine, written, finished, core, source, sent>>
  BY UnderWayTyped DEF ReceiveDump, IsDump
<1>2. /\ coll'.start = (coll.start \/ (~coll.running /\ ~coll.stop))
      /\ UNCHANGED <<coll.running, coll.stop, coll.reset, coll.scanHeader, coll.subScanHeader,
                     coll.writeSummary, coll.name>>
  BY DEF ReceiveDump, TypeOK, Collection
<1>3. HeadersFirst' /\ NoHeaders' /\ (NoStop => NoStop')
  BY <1>1, HeadersFirstTail DEF Orderly
<1>4. ~HeadersOnly
  BY <1>1, FlowTail DEF HeadersOnly
<1>5. /\ core.pc \in {"recording", "stopping"}
      /\ core.pc = "stopping" => Recording /\ StopComes /\ ~coll.stop
      /\ Carries(UnderWay, Kept) /\ dropped \subseteq Sent
  BY <1>1, <1>4 DEF Orderly, InPhase, At, Closed, StopComes
<1>6. dump \in Kept /\ Carries((written \o dumps) \o Tail(flow), Kept \ {dump})
  BY <1>1, <1>5, UnderWayTyped, CarriesDrop DEF UnderWay, IsDump
<1>7. sent > 0
  BY <1>6 DEF Kept, Sent, TypeOK
<1>8. Carries(UnderWay, Kept)' /\ (dropped \subseteq Sent)'
  <2>1. Sent' = Sent
    BY <1>1 DEF Sent
  <2>2. CASE dumps' = Append(dumps, dump) /\ UNCHANGED dropped
    <3>1. written \o dumps' = Append(written \o dumps, dump)
      <4>1. written \in Seq(Messages) /\ dumps \in Seq(Messages)
        BY DumpSequences DEF TypeOK
      <4> QED
        BY <1>1, <2>2, <4>1
    <3>2. UnderWay' = UnderWay
      BY <1>1, <3>1, UnderWayTyped, MoveHead DEF UnderWay
    <3> QED
      BY <1>5, <2>1, <2>2, <3>2 DEF Kept
  <2>3. CASE dropped' = dropped \cup {dump} /\ UNCHANGED dumps
    <3>1. Kept' = Kept \ {dump}
      BY <2>1, <2>3 DEF Kept
    <3> QED
      BY <1>1, <1>5, <1>6, <2>1, <2>3, <3>1 DEF UnderWay, Kept
  <2> QED
    BY <2>2, <2>3 DEF ReceiveDump
<1>9. SetUp'
  BY <1>1, <1>2 DEF Orderly, SetUp
<1>10. Recording => Recording'
  BY <1>1, <1>2, <1>3 DEF Recording, OwnPlace, EngineAt
<1>11. CASE core.pc = "recording"
  <2>1. /\ Waiting \/ (Recording /\ ~coll.stop)
        /\ NoStop /\ (sent > 0 => source.sending)
    BY <1>11 DEF Orderly, InPhase, At
  <2>2. Waiting => Waiting'
    BY <1>1, <1>2, <1>3, <1>7 DEF Waiting, EngineAt, FileOpened
  <2> QED
    BY <1>1, <1>2, <1>3, <1>8, <1>9, <1>10, <1>11, <2>1, <2>2 DEF Orderly, InPhase, At
<1>12. CASE core.pc = "stopping"
  <2>1. StopComes'
    <3>1. \A i \in 1 .. Len(flow) : flow[i].kind = "stop" <=> i = Len(flow)
      BY <1>5, <1>12 DEF StopComes
    <3>2. flow[1].kind = "dump" /\ Len(flow) \in Nat /\ Len(flow) >= 1
      BY <1>1, FlowTail
    <3>3. Len(flow) # 1
      BY <3>1, <3>2
    <3>4. Len(flow') = Len(flow) - 1 /\ \A i \in 1 .. Len(flow') : flow'[i] = flow[i + 1]
      BY <1>1, FlowTail
    <3>5. flow' # <<>>
      BY <1>1, <3>2, <3>3, <3>4
    <3>6. \A i \in 1 .. Len(flow') : flow'[i].kind = "stop" <=> i = Len(flow')
      BY <3>1, <3>2, <3>4
    <3> QED
      BY <1>2, <1>5, <1>12, <3>5, <3>6 DEF StopComes
  <2> QED
    BY <1>1, <1>3, <1>5, <1>8, <1>9, <1>10, <1>12, <2>1 DEF Orderly, InPhase, At
<1> QED
  BY <1>5, <1>11, <1>12

LEMMA ReceiveStopOrderly ==
    ASSUME TypeOK, Orderly, ReceiveStop
    PROVE  Orderly'
<1>1. /\ flow # <<>> /\ flow' = Tail(flow) /\ Head(flow).kind = "stop"
      /\ UNCHANGED <<dumps, engine, written, finished, core, source, history>>
  BY DEF ReceiveStop
<1>2. /\ coll'.stop = (coll.stop \/ coll.running)
      /\ UNCHANGED <<coll.running, coll.start, coll.reset, coll.scanHeader, coll.subScanHeader,
                     coll.writeSummary, coll.name>>
  BY DEF ReceiveStop, TypeOK, Collection
<1>3. HeadersFirst' /\ NoHeaders'
  BY <1>1, HeadersFirstTail DEF Orderly
<1>4. ~HeadersOnly /\ ~NoStop
  BY <1>1, FlowTail DEF HeadersOnly, NoStop
<1>5. /\ core.pc = "stopping" /\ Recording /\ StopComes /\ ~coll.stop
      /\ Carries(UnderWay, Kept) /\ dropped \subseteq Sent
  BY <1>1, <1>4 DEF Orderly, InPhase, At, Closed, StopComes
<1>6. flow' = <<>>
  <2>1. Len(flow) = 1
    <3>1. \A i \in 1 .. Len(flow) : flow[i].kind = "stop" <=> i = Len(flow)
      BY <1>5 DEF StopComes
    <3>2. flow[1].kind = "stop" /\ 1 \in 1 .. Len(flow)
      BY <1>1, FlowTail
    <3> QED
      BY <3>1, <3>2
  <2> QED
    BY <1>1, <2>1, UnderWayTyped
<1>7. Recording' /\ StopComes'
  BY <1>1, <1>2, <1>3, <1>5, <1>6 DEF Recording, StopComes, OwnPlace, EngineAt, history
<1>8. Carries(UnderWay', Kept)
  BY <1>1, <1>5, UnderWayTyped, CarriesDrop DEF UnderWay, IsDump
<1>9. Kept' = Kept /\ Sent' = Sent /\ dropped' = dropped
  BY <1>1 DEF Kept, Sent, history
<1>10. SetUp'
  BY <1>1, <1>2 DEF Orderly, SetUp
<1> QED
  BY <1>1, <1>3, <1>5, <1>7, <1>8, <1>9, <1>10 DEF Orderly, InPhase, At

\* The engine.  Most of its steps only go on to the next place.
LEMMA RunsOnOrderly ==
    ASSUME Orderly, UNCHANGED <<coll, dumps, written, finished, flow, core, source, history>>,
           UNCHANGED <<engine.file, engine.summary>>,
           AtRest => AtRest', Waiting => Waiting', Recording => Recording', Closing => Closing'
    PROVE  Orderly'
<1>1. /\ Kept' = Kept /\ Sent' = Sent /\ UnderWay' = UnderWay /\ (Finished => Finished')
      /\ (StopComes => StopComes') /\ (NoStop => NoStop') /\ (HeadersOnly => HeadersOnly')
  BY DEF Kept, Sent, UnderWay, Finished, StopComes, NoStop, HeadersOnly, history
<1>2. Closed => Closed'
  BY <1>1 DEF Closed
<1>3. SetUp' /\ HeadersFirst'
  BY DEF Orderly, SetUp, HeadersFirst
<1>4. (Carries(UnderWay, Kept) => Carries(UnderWay, Kept)')
  BY <1>1
<1>5. InPhase'
  BY <1>1, <1>2, <1>4 DEF Orderly, InPhase, At, history
<1> QED
  BY <1>3, <1>5 DEF Orderly

LEMMA FinalizeSummaryOrderly ==
    ASSUME TypeOK, Orderly, FinalizeSummary
    PROVE  Orderly'
<1>1. /\ engine'.pc = "flags" /\ engine'.file = engine.file /\ coll.writeSummary
      /\ UNCHANGED <<coll.running, coll.start, coll.stop, coll.reset, coll.scanHeader,
                     coll.subScanHeader, coll.name>>
      /\ UNCHANGED <<dumps, flow, core, history>>
  BY DEF FinalizeSummary, SummaryDue, TypeOK, Collection
<1>2. core.pc \notin {"opened", "ready", "recording", "stopping", "scan", "stopped", "resetting"}
  BY <1>1 DEF Orderly, SetUp, InPhase
<1>3. AtRest /\ HeadersOnly /\ ~coll.subScanHeader
  BY <1>2 DEF Orderly, InPhase, At
<1>4. AtRest' /\ HeadersOnly' /\ ~coll'.subScanHeader
  BY <1>1, <1>3 DEF AtRest, HeadersOnly, FileOpened
<1>5. SetUp' /\ HeadersFirst'
  BY <1>1, <1>2 DEF Orderly, SetUp, HeadersFirst
<1> QED
  BY <1>1, <1>2, <1>4, <1>5 DEF Orderly, InPhase, At

LEMMA BeginOpeningOrderly ==
    ASSUME TypeOK, Orderly, BeginOpening
    PROVE  Orderly'
<1>1. /\ coll.start
      /\ engine'.pc = (IF FileOpened THEN "idle" ELSE "opening")
      /\ UNCHANGED <<engine.file, engine.summary>>
      /\ UNCHANGED <<coll, dumps, written, finished, flow, core, source, history>>
  BY RunsOn DEF BeginOpening, StartAsked
<1>2. ~AtRest /\ ~Recording /\ ~Closing
  BY <1>1 DEF AtRest, Recording, Closing
<1>3. Waiting => Waiting'
  BY <1>1 DEF Waiting, EngineAt, FileOpened, NoHeaders, history
<1> QED
  BY <1>1, <1>2, <1>3, RunsOnOrderly

LEMMA BeginStopOrderly ==
    ASSUME TypeOK, Orderly, BeginStop
    PROVE  Orderly'
<1>1. /\ coll.stop /\ engine.pc \in {"idle", "flags"} /\ engine'.pc = "draining"
      /\ UNCHANGED <<engine.file, engine.summary>>
      /\ UNCHANGED <<coll, dumps, written, finished, flow, core, source, history>>
  BY RunsOn DEF BeginStop, Branches, EngineAt
<1>2. ~AtRest /\ ~Waiting /\ ~Closing
  BY <1>1 DEF AtRest, Waiting, Closing, EngineAt
<1>3. Recording => Recording'
  BY <1>1 DEF Recording, EngineAt, OwnPlace, NoHeaders, history
<1> QED
  BY <1>1, <1>2, <1>3, RunsOnOrderly

LEMMA IdleOrderly ==
    ASSUME TypeOK, Orderly, NothingToDo \/ WriteHeaders
    PROVE  Orderly'
<1>1. /\ engine.pc \in {"flags", "headers"} /\ engine'.pc = "idle"
      /\ UNCHANGED <<engine.file, engine.summary>>
      /\ UNCHANGED <<coll, dumps, written, finished, flow, core, source, history>>
  BY RunsOn DEF NothingToDo, WriteHeaders, EngineAt
<1>2. AtRest => AtRest'
  BY <1>1 DEF AtRest, FileOpened
<1>3. Waiting => Waiting'
  BY <1>1 DEF Waiting, EngineAt, FileOpened, NoHeaders, history
<1>4. Recording => Recording'
  BY <1>1 DEF Recording, EngineAt, OwnPlace, NoHeaders, history
<1>5. ~Closing
  BY <1>1 DEF Closing, EngineAt
<1> QED
  BY <1>1, <1>2, <1>3, <1>4, <1>5, RunsOnOrderly

\* A dump goes from the cache into the file: what is under way is the same.
LEMMA ProcessDataOrderly ==
    ASSUME TypeOK, Orderly, SaveDumps \/ Drain
    PROVE  Orderly'
<1>1. /\ dumps # <<>> /\ dumps' = Tail(dumps) /\ written' = Append(written, Head(dumps))
      /\ UNCHANGED <<coll, finished, flow, core, source, history>>
  BY DEF SaveDumps, Drain, ProcessData
<1>2. /\ FileOpened /\ engine.pc \in {"idle", "flags", "draining"}
      /\ engine'.pc = "idle" \/ engine'.pc = engine.pc
      /\ UNCHANGED <<engine.file, engine.summary>>
  BY RunsOn DEF SaveDumps, Drain, Branches, EngineAt
<1>3. ~AtRest /\ ~Waiting /\ ~Closing
  BY <1>1, <1>2 DEF AtRest, Waiting, Closing
<1>4. /\ core.pc \in {"recording", "stopping"} /\ Recording
      /\ core.pc = "recording" => ~coll.stop
      /\ Carries(UnderWay, Kept) /\ dropped \subseteq Sent
      /\ core.pc = "stopping" => StopComes
      /\ core.pc = "recording" => NoStop /\ (sent > 0 => source.sending)
  BY <1>3 DEF Orderly, InPhase, At, Closed
<1>5. Recording'
  BY <1>1, <1>2, <1>4 DEF Recording, EngineAt, OwnPlace, NoHeaders, history
<1>6. UnderWay' = UnderWay
  <2>1. written' \o dumps' = written \o dumps
    BY <1>1, MoveHead DEF TypeOK
  <2> QED
    BY <1>1, <2>1 DEF UnderWay
<1>7. Kept' = Kept /\ Sent' = Sent /\ dropped' = dropped
  BY <1>1 DEF Kept, Sent, history
<1>8. Carries(UnderWay, Kept)' /\ (dropped \subseteq Sent)'
  BY <1>4, <1>6, <1>7
<1>9. SetUp' /\ HeadersFirst'
  BY <1>1, <1>2 DEF Orderly, SetUp, HeadersFirst
<1>10. (core.pc = "stopping" => StopComes') /\ (NoStop => NoStop')
  BY <1>1, <1>4 DEF StopComes, NoStop
<1> QED
  BY <1>1, <1>4, <1>5, <1>8, <1>9, <1>10 DEF Orderly, InPhase, At, history

LEMMA CreateFileOrderly ==
    ASSUME TypeOK, Always, Orderly, CreateFile
    PROVE  Orderly'
<1>1. engine.pc = "opening" /\ UNCHANGED <<dumps, written, finished, flow, core, source, history>>
  BY DEF CreateFile, EngineAt
<1>2. ~AtRest /\ ~Recording /\ ~Closing
  BY <1>1 DEF AtRest, Recording, Closing, EngineAt
<1>3. /\ core.pc = "recording" /\ Waiting /\ NoStop /\ (sent > 0 => source.sending)
      /\ dropped \subseteq Sent /\ Carries(UnderWay, Kept) /\ coll.start
  BY <1>1, <1>2 DEF Orderly, InPhase, At, Waiting, Closed, EngineAt
<1>4. /\ coll.scanHeader /\ ~coll.writeSummary
      /\ coll.name.scan = core.scan /\ coll.name.sub = core.sub /\ engine.summary \in {0, core.scan}
  BY <1>3 DEF Orderly, SetUp
<1>5. engine'.summary = core.scan
  BY <1>4, FileCreated
<1>6. /\ Waiting' \/ (Recording /\ ~coll.stop)'
      /\ ~coll'.reset /\ coll'.scanHeader /\ ~coll'.writeSummary /\ coll'.name = coll.name
  <2>1. CASE UNCHANGED coll /\ engine'.pc = "idle" /\ engine'.file = engine.file
    BY <1>1, <1>3, <1>4, <2>1 DEF Waiting, EngineAt, FileOpened, NoHeaders, history, Orderly, SetUp
  <2>2. CASE /\ engine'.pc = "headers" /\ engine'.file = coll.name
             /\ coll'.running /\ ~coll'.start /\ ~coll'.subScanHeader
             /\ UNCHANGED <<coll.stop, coll.reset, coll.scanHeader, coll.writeSummary,
                            coll.name, coll.headers>>
    <3>1. coll.name = OwnPlace
      BY <1>4 DEF TypeOK, Collection, File, OwnPlace
    <3>2. NoHeaders' /\ sent' > 0 /\ OwnPlace' = OwnPlace
      BY <1>1, <1>3 DEF Waiting, NoHeaders, history, OwnPlace
    <3> QED
      BY <1>1, <1>3, <1>4, <1>5, <2>2, <3>1, <3>2 DEF Recording, Waiting, EngineAt, Orderly, SetUp
  <2> QED
    BY <2>1, <2>2, FileCreated
<1>7. SetUp' /\ HeadersFirst' /\ NoStop'
  BY <1>1, <1>3, <1>4, <1>5, <1>6 DEF Orderly, SetUp, HeadersFirst, NoStop
<1>8. Carries(UnderWay, Kept)' /\ (dropped \subseteq Sent)'
  BY <1>1, <1>3 DEF UnderWay, Kept, Sent, history
<1> QED
  BY <1>1, <1>3, <1>6, <1>7, <1>8 DEF Orderly, InPhase, At, history

\* When the cache is empty after the stop, all is in the file.
LEMMA CloseFileOrderly ==
    ASSUME TypeOK, Always, Orderly, CloseFile
    PROVE  Orderly'
<1>1. engine.pc = "draining" /\ UNCHANGED <<coll, dumps, flow, core, source, history>>
  BY DEF CloseFile, EngineAt
<1>2. ~AtRest /\ ~Waiting /\ ~Closing
  BY <1>1 DEF AtRest, Waiting, Closing, EngineAt
<1>3. /\ core.pc = "stopping" /\ Recording /\ coll.stop /\ flow = <<>>
      /\ Carries(UnderWay, Kept)
  BY <1>1, <1>2 DEF Orderly, InPhase, At, Closed, Recording, EngineAt, StopComes
<1>4. engine.file # NoFile
  <2>1. core.scan > 0
    BY <1>3 DEF Always
  <2> QED
    BY <1>3, <2>1 DEF Recording, OwnPlace, NoFile
<1>5. dumps = <<>> /\ finished' = [file |-> engine.file, dumps |-> written]
  BY <1>4 DEF CloseFile, FileOpened
<1>6. engine'.pc = "closing" /\ engine'.file = NoFile /\ engine'.summary = engine.summary
  BY DEF CloseFile, TypeOK
<1>7. UnderWay = written
  BY <1>3, <1>5 DEF UnderWay, TypeOK
<1>8. Closed'
  <2>1. Closing'
    BY <1>1, <1>3, <1>5, <1>6 DEF Closing, Recording, EngineAt, FileOpened
  <2>2. Finished'
    BY <1>1, <1>3, <1>5, <1>7 DEF Finished, Kept, Sent, Recording, OwnPlace, history
  <2> QED
    BY <1>1, <1>3, <2>1, <2>2 DEF Closed, Recording
<1>9. SetUp' /\ HeadersFirst'
  BY <1>1, <1>6 DEF Orderly, SetUp, HeadersFirst
<1> QED
  BY <1>1, <1>3, <1>8, <1>9 DEF Orderly, InPhase, At

LEMMA HaltStopStageOrderly ==
    ASSUME TypeOK, Orderly, HaltStopStage
    PROVE  Orderly'
<1>1. /\ engine.pc = "closing" /\ engine'.pc = "idle" /\ UNCHANGED <<engine.file, engine.summary>>
      /\ ~coll'.running /\ ~coll'.stop
      /\ UNCHANGED <<coll.start, coll.reset, coll.scanHeader, coll.subScanHeader, coll.writeSummary,
                     coll.name>>
      /\ UNCHANGED <<dumps, finished, flow, core, history>>
  BY RunsOn DEF HaltStopStage, EngineAt, TypeOK, Collection
<1>2. ~AtRest /\ ~Waiting /\ ~Recording
  BY <1>1 DEF AtRest, Waiting, Recording
<1>3. core.pc = "stopping" /\ Closing /\ Closed
  BY <1>2 DEF Orderly, InPhase, At, Closed
<1>4. Closed'
  BY <1>1, <1>3 DEF Closed, Closing, AtRest, Finished, Kept, Sent, FileOpened, history
<1>5. SetUp' /\ HeadersFirst'
  BY <1>1 DEF Orderly, SetUp, HeadersFirst
<1> QED
  BY <1>1, <1>3, <1>4, <1>5 DEF Orderly, InPhase, At

LEMMA EngineOrderly ==
    ASSUME TypeOK, Always, Orderly, Engine
    PROVE  Orderly'
<1>1. CASE AnswerReset
  BY <1>1 DEF AnswerReset, Orderly, SetUp
<1> QED
  BY <1>1, FinalizeSummaryOrderly, BeginOpeningOrderly, BeginStopOrderly, ProcessDataOrderly,
     IdleOrderly, CreateFileOrderly, CloseFileOrderly, HaltStopStageOrderly DEF Engine

--------------------------------------------------------------------------------
LEMMA RecorderStepKeeps == RecorderInvariant /\ [Next]_vars => RecorderInvariant'
<1> SUFFICES ASSUME RecorderInvariant, [Next]_vars
             PROVE  RecorderInvariant'
  OBVIOUS
<1>1. TypeOK /\ Always /\ (orderly => Orderly)
  BY DEF RecorderInvariant
<1>2. CASE Core
  BY <1>1, <1>2, CoreTyped, CoreAlways, CoreOrderly DEF RecorderInvariant
<1>3. CASE SendDump \/ Deliver
  <2>1. TypeOK' /\ Always'
    BY <1>1, <1>3, FlowTyped, FlowAlways
  <2>2. UNCHANGED orderly
    BY <1>3 DEF SendDump, Deliver, ReceiveHeader, ReceiveDump, ReceiveStop
  <2>3. orderly => Orderly'
    BY <1>1, <1>3, SendDumpOrderly, ReceiveHeaderOrderly, ReceiveDumpOrderly, ReceiveStopOrderly DEF Deliver
  <2> QED
    BY <2>1, <2>2, <2>3 DEF RecorderInvariant
<1>4. CASE Engine
  <2>1. TypeOK' /\ Always'
    BY <1>1, <1>4, EngineTyped, EngineAlways
  <2>2. UNCHANGED orderly
    BY <1>4 DEF Engine, FinalizeSummary, AnswerReset, BeginOpening, BeginStop, SaveDumps, NothingToDo,
         CreateFile, WriteHeaders, Drain, CloseFile, HaltStopStage, ProcessData
  <2> QED
    BY <1>1, <1>4, <2>1, <2>2, EngineOrderly DEF RecorderInvariant
<1>5. CASE UNCHANGED vars
  <2>1. TypeOK'
    BY <1>1, <1>5 DEF TypeOK, vars, recorder, history
  <2>2. Always'
    BY <1>1, <1>5 DEF Always, HeaderComes, At, EngineAt, FileOpened, vars, recorder
  <2>3. UNCHANGED <<coll, dumps, written, finished, flow, core, source, history>> /\ UNCHANGED engine
        /\ UNCHANGED orderly
    BY <1>5 DEF vars, recorder
  <2>4. (AtRest => AtRest') /\ (Waiting => Waiting') /\ (Recording => Recording') /\ (Closing => Closing')
    BY <2>3 DEF AtRest, Waiting, Recording, Closing, EngineAt, FileOpened, NoHeaders, OwnPlace, history
  <2> QED
    BY <1>1, <2>1, <2>2, <2>3, <2>4, RunsOnOrderly DEF RecorderInvariant
<1> QED
  BY <1>2, <1>3, <1>4, <1>5 DEF Next

LEMMA RecorderInit == Init => RecorderInvariant
<1> SUFFICES ASSUME Init
             PROVE  RecorderInvariant
  OBVIOUS
<1>1. 0 \in Scans /\ 0 \in SubScans /\ NoFile \in File /\ 0 \in 0 .. MaxFailures /\ 0 \in 0 .. MaxDumps
  BY RecorderBounds DEF Scans, SubScans, NoFile, File
<1>2. TypeOK
  <2>1. coll \in Collection /\ engine \in Engines /\ core \in Cores
    BY <1>1 DEF Init, Collection, Engines, Cores
  <2>2. /\ dumps \in Seq(Dumps) /\ Len(dumps) <= CacheSize /\ flow \in Seq(Messages)
        /\ written \in Seq(Dumps) /\ finished \in [file : File, dumps : Seq(Dumps)]
    BY <1>1, RecorderBounds DEF Init
  <2>3. source \in [go : BOOLEAN, sending : BOOLEAN]
    BY DEF Init
  <2>4. orderly \in BOOLEAN
    BY DEF Init
  <2> QED
    BY <1>1, <2>1, <2>2, <2>3, <2>4 DEF Init, TypeOK, Engines, Cores
<1>3. Always
  BY DEF Init, Always, HeaderComes, At, EngineAt, FileOpened
<1>4. Orderly
  <2>1. core.pc = "idle" /\ flow = <<>> /\ ~coll.scanHeader /\ ~coll.reset /\ ~coll.subScanHeader
    BY DEF Init
  <2>2. AtRest
    BY DEF Init, AtRest, FileOpened
  <2> QED
    BY <2>1, <2>2 DEF Orderly, SetUp, HeadersFirst, HeadersOnly, InPhase, At
<1> QED
  BY <1>2, <1>3, <1>4 DEF RecorderInvariant

LEMMA RecorderInvariantHolds == Spec => []RecorderInvariant
BY RecorderInit, RecorderStepKeeps, PTL DEF Spec

\* The flags of CDataCollection, the cache and the place of the engine stay in their
\* domains, and the cache within its size, whatever the bounds.
THEOREM RecorderTypeCorrect == Spec => []TypeOK
BY RecorderInvariantHolds, PTL DEF RecorderInvariant

\* In an orderly scan the file the engine has open is that of the subscan the core
\* commanded, with the headers of its scan, and no dump of another subscan is under way.
THEOREM OwnFileAlways == Spec => []OwnFile
<1>1. RecorderInvariant => OwnFile
  <2> SUFFICES ASSUME RecorderInvariant, orderly
               PROVE  OwnFile
    BY DEF OwnFile
  <2>1. TypeOK /\ Always /\ Orderly
    BY DEF RecorderInvariant
  <2>2. ASSUME FileOpened
        PROVE  engine.file = OwnPlace /\ coll.headers = core.scan
    <3>1. Recording
      BY <2>1, <2>2 DEF Orderly, InPhase, At, AtRest, Waiting, Closed, Closing
    <3>2. coll.headers = core.scan
      BY <2>1, <3>1, KindOfMessages DEF Recording, NoHeaders, Always, HeaderComes
    <3> QED
      BY <3>1, <3>2 DEF Recording
  <2>3. ASSUME core.pc \notin {"recording", "stopping"}
        PROVE  DumpsIn(UnderWay) = {}
    BY <2>1, <2>3, AtRestCarries DEF Orderly, InPhase, At, Carries
  <2> QED
    BY <2>2, <2>3 DEF OwnFile, OwnPlace
<1> QED
  BY <1>1, RecorderInvariantHolds, PTL

\* In an orderly scan every dump the backend sent is in the file, in the cache or on the
\* flow, in the order it was sent, but for those that saveDump had no room for; and when
\* the core is told that the recording is over they are all in the finished file.
THEOREM NothingLostAlways == Spec => []NothingLost
<1>1. RecorderInvariant => NothingLost
  <2> SUFFICES ASSUME RecorderInvariant, orderly
               PROVE  NothingLost
    BY DEF NothingLost
  <2>1. TypeOK /\ Always /\ Orderly
    BY DEF RecorderInvariant
  <2>2. ASSUME core.pc = "ready"
        PROVE  Carries(UnderWay, Kept)
    <3>1. Kept = {}
      BY <2>1, <2>2 DEF Orderly, InPhase, At, Kept, Sent
    <3>2. Carries(UnderWay, {})
      BY <2>1, <2>2, AtRestCarries DEF Orderly, InPhase
    <3> QED
      BY <3>1, <3>2
  <2>3. /\ core.pc = "recording" => Carries(UnderWay, Kept)
        /\ core.pc = "stopping" => Carries(UnderWay, Kept) \/ Finished
        /\ core.pc = "scan" => Finished
    BY <2>1 DEF Orderly, InPhase, At, Closed
  <2> QED
    BY <2>2, <2>3 DEF NothingLost
<1> QED
  BY <1>1, RecorderInvariantHolds, PTL

\* In an orderly scan setSubScanSetup finds the setup of the scan there and that of the
\* last subscan gone: it never refuses the next one.
THEOREM StartAcceptedAlways == Spec => []StartAccepted
<1>1. RecorderInvariant => StartAccepted
  BY DEF RecorderInvariant, StartAccepted, SubScanAccepted, Orderly, SetUp, InPhase, At
<1> QED
  BY <1>1, RecorderInvariantHolds, PTL

\* The summary that is open belongs to the scan of the open file, although the summary of
\* the scan before is finalized late, when the engine comes to it.
THEOREM OwnSummaryAlways == Spec => []OwnSummary
<1>1. RecorderInvariant => OwnSummary
  <2> SUFFICES ASSUME RecorderInvariant, orderly, FileOpened
               PROVE  engine.summary = engine.file.scan
    BY DEF OwnSummary
  <2>1. Recording
    BY DEF RecorderInvariant, Orderly, InPhase, At, AtRest, Waiting, Closed, Closing
  <2> QED
    BY <2>1 DEF Recording, OwnPlace
<1> QED
  BY <1>1, RecorderInvariantHolds, PTL

\* While the engine writes the headers of a file from m_sectionH, without the mutex, no
\* main header can arrive: the next one is sent only after the recording is over.
THEOREM HeadersStableAlways == Spec => HeadersStable
<1> DEFINE Stable == orderly /\ EngineAt("headers") /\ EngineAt("headers")' => coll'.headers = coll.headers
<1>1. RecorderInvariant /\ [Next]_vars => [Stable]_vars
  <2> SUFFICES ASSUME RecorderInvariant, Next, orderly, engine.pc = "headers", engine'.pc = "headers"
               PROVE  coll'.headers = coll.headers
    BY DEF EngineAt, vars
  <2>1. TypeOK /\ Orderly
    BY DEF RecorderInvariant
  <2>2. Recording
    BY <2>1 DEF Orderly, InPhase, At, AtRest, Waiting, Closed, Closing, EngineAt
  <2>3. ASSUME ReceiveHeader
        PROVE  FALSE
    <3>1. flow # <<>> /\ flow' = Tail(flow) /\ Head(flow).kind = "header"
      BY <2>3 DEF ReceiveHeader
    <3>2. 1 \in 1 .. Len(flow) /\ flow[1].kind = "header"
      BY <2>1, <3>1, FlowTail
    <3> QED
      BY <2>2, <3>2 DEF Recording, NoHeaders
  <2>4. ASSUME Engine
        PROVE  FALSE
    <3>1. WriteHeaders
      BY <2>4 DEF Engine, FinalizeSummary, AnswerReset, BeginOpening, BeginStop, SaveDumps, NothingToDo,
         CreateFile, Drain, CloseFile, HaltStopStage, Branches, EngineAt
    <3> QED
      BY <2>1, <3>1, RunsOn DEF WriteHeaders
  <2>5. CASE Core
    <3>1. CASE StartScan \/ StartSubScan \/ Reset
      BY <2>1, <3>1 DEF StartScan, StartSubScan, Reset, TypeOK, Collection
    <3>2. CASE StopScan \/ Abort \/ AbortScan
      BY <2>1, <3>2, ScanStoppedFlags DEF StopScan, Abort, AbortScan
    <3>3. CASE SendHeader \/ SendData \/ SendStop \/ RecordingCompleted \/ AbortRecording
      BY <3>3 DEF SendHeader, SendData, SendStop, RecordingCompleted, AbortRecording, recorder
    <3> QED
      BY <2>5, <3>1, <3>2, <3>3 DEF Core
  <2>6. CASE SendDump \/ ReceiveDump \/ ReceiveStop
    BY <2>1, <2>6 DEF SendDump, ReceiveDump, ReceiveStop, recorder, TypeOK, Collection
  <2> QED
    BY <2>3, <2>4, <2>5, <2>6 DEF Next, Deliver
<1> QED
  BY <1>1, RecorderInvariantHolds, PTL DEF Spec, HeadersStable
================================================================================
