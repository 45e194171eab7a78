----------------------------- MODULE SchedulerLocks -----------------------------
(***************************************************************************)
(* The locks of the scheduler and who takes them in which order: the       *)
(* mutexes of CScheduleExecutor and of CCore, the mutex of the timer as a  *)
(* resource (m_timerMutex) and the lock of the timer queue, which its      *)
(* thread holds while it runs a handler.  What the operations do under the *)
(* locks is in ScheduleExecutor and CoreRecording, where each operation is *)
(* one step; here each operation is the list of its steps.                 *)
(*                                                                         *)
(* The mutexes are recursive; a guard releases one level.                  *)
(***************************************************************************)
EXTENDS Sequences, FiniteSets, Functions

CONSTANTS Clients,      \* threads of the component that serve commands
          Executor,     \* the thread of the schedule executor
          Timer         \* the thread of the timer queue

Threads == Clients \cup {Executor, Timer}

Locks == {"executor", "core", "timer", "queue"}
Events == {"stop", "restart", "wake"}

VARIABLES
    held,       \* the locks of each thread, the last one taken at the end
    todo,       \* what it still does in its operation
    request,    \* the command each client serves
    pending,    \* the events in the timer
    active      \* CScheduleExecutor::isScheduleActive()

vars == <<held, todo, request, pending, active>>

--------------------------------------------------------------------------------
(* The operations, as lists of steps.                                      *)

Step(do, of) == <<[do |-> do, of |-> of]>>
Guarded(lock, body) == Step("take", lock) \o body \o Step("drop", lock)

\* A call of the core: its guard lives as long as the call.
Call == Guarded("core", <<>>)

\* addTimerEvent and cancelTimerEvent: the queue has a lock of its own.
InTimer(step) == Guarded("timer", Guarded("queue", step))
AddEvent(e) == InTimer(Step("add", e))
CancelEvents == InTimer(Step("cancel", "stop") \o Step("cancel", "restart"))

\* CCore::startRecording asks the executor for the project.
StartRecording == Guarded("core", Guarded("executor", <<>>))

\* closeScan(true): its guard is released, then it waits for the telescope.
CloseScan == {Call, Call \o AddEvent("wake")}

\* isScheduleActive(): the operation raises, and its guards are released.
Refused == Step("refuse", "schedule")

\* The report of the schedule is activated at the end: until then nobody knows.
StartSchedule ==
    {Guarded("executor", Refused \o close \o Call \o Call \o Step("activate", "schedule")) :
        close \in CloseScan}

\* stopSchedule and haltSchedule.
StopSchedule == {Guarded("executor", <<>>)}

\* _startRecording: the guard is released and acquired again.
RecordByHand ==
    {Guarded("core", Refused) \o Guarded("executor", <<>>)
        \o Guarded("core", StartRecording) \o AddEvent("wake") \o Call}

\* A subscan by hand keeps the mutex of the core while the former one is closed.
ScanByHand == {Guarded("core", Guarded("core", close) \o Call) : close \in CloseScan}

Operations == {"startSchedule", "stopSchedule", "startRecording", "scan"}
Paths(op) ==
    CASE op = "startSchedule"  -> StartSchedule
      [] op = "stopSchedule"   -> StopSchedule
      [] op = "startRecording" -> RecordByHand
      [] op = "scan"           -> ScanByHand

\* One run of runLoop keeps the mutex.  What it does at a stage is one of these;
\* the last two are cleanScan and cleanSchedule.
RunLoopPaths ==
    {Guarded("executor", body) :
        body \in {Call, StartRecording, AddEvent("stop"), AddEvent("restart"),
                  CancelEvents \o Call \o Call \o AddEvent("restart"),
                  CancelEvents \o Call \o Call \o Call \o Step("deactivate", "schedule")}}

\* stopRecordingEventHandler takes the mutex of the executor, the handlers that
\* resume the executor and wake up a client only set a flag.
Handler(e) == IF e = "stop" THEN Guarded("executor", Call) ELSE <<>>

--------------------------------------------------------------------------------
Steps == [do : {"take", "drop", "add", "cancel", "refuse", "activate", "deactivate"},
          of : Locks \cup Events \cup {"schedule"}]

TypeOK ==
    /\ held \in [Threads -> Seq(Locks)]
    /\ todo \in [Threads -> Seq(Steps)]
    /\ request \in [Clients -> Operations \cup {"none"}]
    /\ pending \subseteq Events
    /\ active \in BOOLEAN

Init ==
    /\ held = [t \in Threads |-> <<>>]
    /\ todo = [t \in Threads |-> <<>>]
    /\ request = [c \in Clients |-> "none"]
    /\ pending = {}
    /\ active = FALSE

Holders(lock) == {t \in Threads : lock \in Range(held[t])}

\* Whom the thread waits for.
WaitsFor(t) ==
    IF todo[t] # <<>> /\ Head(todo[t]).do = "take"
    THEN Holders(Head(todo[t]).of) \ {t}
    ELSE {}

Does(t, do) == todo[t] # <<>> /\ Head(todo[t]).do = do
Advance(t) == todo' = [todo EXCEPT ![t] = Tail(@)]

Take(t) ==
    /\ Does(t, "take") /\ WaitsFor(t) = {}
    /\ held' = [held EXCEPT ![t] = Append(@, Head(todo[t]).of)]
    /\ Advance(t) /\ UNCHANGED <<request, pending, active>>

Release(t) ==
    /\ Does(t, "drop")
    /\ held' = [held EXCEPT ![t] = SubSeq(@, 1, Len(@) - 1)]
    /\ Advance(t) /\ UNCHANGED <<request, pending, active>>

ChangeTimer(t) ==
    /\ \/ Does(t, "add") /\ pending' = pending \cup {Head(todo[t]).of}
       \/ Does(t, "cancel") /\ pending' = pending \ {Head(todo[t]).of}
    /\ Advance(t) /\ UNCHANGED <<held, request, active>>

CheckSchedule(t) ==
    /\ Does(t, "refuse")
    /\ IF active THEN todo' = [todo EXCEPT ![t] = <<>>] /\ held' = [held EXCEPT ![t] = <<>>]
       ELSE Advance(t) /\ UNCHANGED held
    /\ UNCHANGED <<request, pending, active>>

ChangeSchedule(t) ==
    /\ \/ Does(t, "activate") /\ active' = TRUE
       \/ Does(t, "deactivate") /\ active' = FALSE
    /\ Advance(t) /\ UNCHANGED <<held, request, pending>>

Serve(c) ==
    /\ todo[c] = <<>>
    /\ \E op \in Operations : \E path \in Paths(op) :
           request' = [request EXCEPT ![c] = op] /\ todo' = [todo EXCEPT ![c] = path]
    /\ UNCHANGED <<held, pending, active>>

\* The thread of the executor is suspended when there is no schedule.
RunLoop ==
    /\ todo[Executor] = <<>> /\ active
    /\ \E path \in RunLoopPaths : todo' = [todo EXCEPT ![Executor] = path]
    /\ UNCHANGED <<held, request, pending, active>>

\* The thread of the queue takes its lock, removes the event and, with the lock,
\* runs the handler.
Expire(e) ==
    /\ todo[Timer] = <<>> /\ e \in pending /\ Holders("queue") = {}
    /\ pending' = pending \ {e}
    /\ held' = [held EXCEPT ![Timer] = <<"queue">>]
    /\ todo' = [todo EXCEPT ![Timer] = Handler(e) \o Step("drop", "queue")]
    /\ UNCHANGED <<request, active>>

Next ==
    \/ \E t \in Threads : Take(t) \/ Release(t) \/ ChangeTimer(t)
                          \/ CheckSchedule(t) \/ ChangeSchedule(t)
    \/ \E c \in Clients : Serve(c)
    \/ RunLoop
    \/ \E e \in Events : Expire(e)

Spec == Init /\ [][Next]_vars

--------------------------------------------------------------------------------
\* Threads each of which waits for another one of them.
Knotted(S) == S # {} /\ \A t \in S : WaitsFor(t) \cap S # {}

\* A command of the operator that starts, stops or halts a schedule, each of
\* which "is thread safe" (Core_Operations.h), is never caught among threads that
\* wait for one another for ever.
OperatorServed ==
    \A S \in SUBSET Threads :
        Knotted(S) => \A c \in S \cap Clients : request[c] \notin {"startSchedule", "stopSchedule"}
================================================================================
