----------------------------- MODULE BackendStream -----------------------------
(***************************************************************************)
(* What a backend promises about the dumps it sends to a data receiver     *)
(* (GenericBackend.idl): dumps flow only after sendData, and who asks to   *)
(* stop them (sendStop) is answered when they have ceased and the receiver *)
(* has been told, if there was anything to tell it about.                  *)
(***************************************************************************)
EXTENDS FiniteSets

CONSTANT Callers

VARIABLES
    go,     \* dumps may be sent
    open,   \* the receiver got a dump after the last stop
    asked   \* the callers of sendStop that wait for the dumps to cease

stream == <<go, open, asked>>

Init == go = FALSE /\ open = FALSE /\ asked = {}

Resume == go' = TRUE /\ UNCHANGED <<open, asked>>

SendDump == go /\ open' = TRUE /\ UNCHANGED <<go, asked>>

Ask == asked' \in {asked \cup callers : callers \in SUBSET Callers} /\ UNCHANGED <<go, open>>

\* The backend may also stop by itself, when it loses its hardware.
Suspend == go' = FALSE /\ open' = FALSE /\ asked' = {}

Next == Resume \/ SendDump \/ Ask \/ Suspend

Spec == Init /\ [][Next]_stream

FairSpec == Spec /\ WF_stream(asked # {} /\ Suspend)
================================================================================
