------------------------------ MODULE ScheduleList ------------------------------
(***************************************************************************)
(* The schedule as CSchedule keeps it in memory after a successful         *)
(* readAll(): the list of subscans, and the selection of the next one      *)
(* (Schedule.cpp).  The counter of a subscan is its position in the list.  *)
(***************************************************************************)
EXTENDS Integers, Sequences

CONSTANTS
    SubScans,   \* the sequence of subscan records
    Mode,       \* m_mode
    Reps,       \* m_repetitions, of interest in LST mode only
    InitProc    \* m_initProc

\* _SCHED_NULLTARGET: no procedure, no backend.
Null == "NULL"

\* How the parser reacts to a procedure name (SP_parser.i): a name it does not
\* know, an empty body, a body with an invalid command, a valid body, a body
\* that nests another procedure before its last command.
ProcKinds == {"unknown", "empty", "broken", "queued", "nested"}

\* scan: scanid; dur: duration; bck: backendProc; pre, post: procedure, sync:
\* its blocking flag; lst: the start sidereal time, in LST mode; otf: the antenna, or
\* a minor servo, is in motion during the subscan (on-the-fly).
SubScanRecords ==
    [scan : Nat \ {0}, dur : Int, bck : {Null, "b1", "b2"},
     pre : ProcKinds \cup {Null}, preSync : BOOLEAN,
     post : ProcKinds \cup {Null}, postSync : BOOLEAN, lst : Nat,
     otf : BOOLEAN]

\* What readAll() and checkConsistency() guarantee: at least one subscan, scan
\* identifiers that do not decrease, one backend for all the subscans of a
\* scan, sidereal times that do not decrease, repetitions different from zero.
ASSUME ScheduleAssumption ==
    /\ SubScans \in Seq(SubScanRecords)
    /\ SubScans # <<>>
    /\ Mode \in {"LST", "SEQ", "TIMETAGGED"}
    /\ Reps \in Int \ {0}
    /\ InitProc \in ProcKinds \cup {Null}

ASSUME ConsistencyAssumption ==
    \A i, j \in 1 .. Len(SubScans) : i < j =>
        /\ SubScans[i].scan <= SubScans[j].scan
        /\ SubScans[i].scan = SubScans[j].scan => SubScans[i].bck = SubScans[j].bck
        /\ Mode = "LST" => SubScans[i].lst <= SubScans[j].lst

Counters == 1 .. Len(SubScans)

--------------------------------------------------------------------------------
\* CSchedule::getSubScan_SEQ: the first subscan past the counter, or the first
\* of the list after a rewind.
NextSequential(counter) ==
    IF counter < Len(SubScans) THEN [counter |-> counter + 1, rewind |-> FALSE]
                               ELSE [counter |-> 1, rewind |-> TRUE]

\* Mutant: past the last start the list goes on instead of starting again.
NextUnwrapped(counter, lst) ==
    LET later == {i \in Counters : i > counter /\ SubScans[i].lst > lst}
    IN  IF later # {}
        THEN {[counter |-> i, rewind |-> FALSE] : i \in {k \in later : \A j \in later : k <= j}}
        ELSE {[counter |-> counter + 1, rewind |-> TRUE]}

\* CSchedule::getSubScan_LST: the first subscan past the counter that starts
\* after lst; failing that the first of the list, or the second one when the
\* first is the one that was selected last.
NextSidereal(counter, lst) ==
    LET later == {i \in Counters : i > counter /\ SubScans[i].lst > lst}
        first == {i \in later : \A j \in later : i <= j}
    IN  IF later # {}
        THEN {[counter |-> i, rewind |-> FALSE] : i \in first}
        ELSE {[counter |-> IF counter = 1 THEN 2 ELSE 1, rewind |-> TRUE]}

\* The sidereal times at which the selection can be made: before the first
\* start, at each of them.
SiderealTimes == {0} \cup {SubScans[i].lst : i \in Counters}

\* CScheduleExecutor::getNextScan, at any sidereal time.
Selections(counter) ==
    IF Mode = "LST" THEN UNION {NextSidereal(counter, lst) : lst \in SiderealTimes}
                    ELSE {NextSequential(counter)}

\* The recording kinds of ScheduleExecutor.cpp.
NormalRecording(s) == s.bck # Null /\ s.dur > 0
NoRecording(s)     == s.dur <= 0
DryRun(s)          == s.bck = Null /\ s.dur > 0
================================================================================
