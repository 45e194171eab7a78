---------------------------- MODULE RecordingSession ----------------------------
(***************************************************************************)
(* What the operator relies on when a schedule runs: subscans are recorded *)
(* one at a time, only while the schedule is running; a recording is over  *)
(* before the next one begins, the end of the schedule ends it, and every  *)
(* recording ends.                                                         *)
(***************************************************************************)
EXTENDS Naturals

CONSTANT Counters
VARIABLES running, recording      \* recording: a member of Counters, or 0

vars == <<running, recording>>

Init == ~running /\ recording = 0

Begin == ~running /\ running' /\ UNCHANGED recording

Record(i) ==
    /\ running
    /\ recording = 0
    /\ recording' = i
    /\ UNCHANGED running

Stop == recording # 0 /\ recording' = 0 /\ UNCHANGED running

End == running /\ ~running' /\ recording' = 0

Next == Begin \/ (\E i \in Counters : Record(i)) \/ Stop \/ End

Spec == Init /\ [][Next]_vars

FairSpec == Spec /\ WF_vars(recording # 0 /\ (Stop \/ End))
================================================================================
