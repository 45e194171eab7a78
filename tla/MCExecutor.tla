------------------------------- MODULE MCExecutor -------------------------------
(***************************************************************************)
(* Small schedules for the executor.                                       *)
(***************************************************************************)
EXTENDS ScheduleExecutor, TLC

SubScan(scan, dur, bck, lst) ==
    [scan |-> scan, dur |-> dur, bck |-> bck, pre |-> Null, preSync |-> FALSE,
     post |-> Null, postSync |-> FALSE, lst |-> lst, otf |-> FALSE]

Pre(kind, sync, s)  == [s EXCEPT !.pre = kind, !.preSync = sync]
Post(kind, sync, s) == [s EXCEPT !.post = kind, !.postSync = sync]
OnTheFly(s)         == [s EXCEPT !.otf = TRUE]

\* An on-the-fly recording after a blocking procedure, which may come too late for it,
\* and a dry run of another scan before a blocking procedure that is refused.
RecordThenDry == <<OnTheFly(Pre("queued", TRUE, SubScan(1, 1, "b1", 0))),
                   Post("broken", TRUE, SubScan(2, 1, Null, 0))>>

\* Two subscans of a scan, the second one of no duration, and another scan on
\* another backend.
Sidereal == <<SubScan(1, 1, "b1", 1),
              Post("queued", FALSE, SubScan(1, 0, "b1", 2)),
              Pre("empty", TRUE, SubScan(2, 1, "b2", 3))>>

\* A single recording.
Single == <<SubScan(1, 1, "b1", 0)>>

\* Two recordings, a procedure that is waited for before the first one and
\* one that is refused after it; the second one on-the-fly.
Waited == <<Pre("queued", TRUE, Post("broken", TRUE, SubScan(1, 1, "b1", 1))),
            OnTheFly(SubScan(2, 1, "b1", 2))>>

Endless == -1
Twice == 2

NoFaults == {}
SiderealFaults == {"refuse", "late", "telescope", "backend", "stop"}
SeqFaults == {"refuse", "late", "backend", "recorder", "stop"}

TimeSymmetry == Permutations(Times)
================================================================================
