-------------------------------- MODULE SRTMount --------------------------------
(***************************************************************************)
(* The mount of the Sardinia Radio Telescope as the antenna boss uses it:  *)
(* the operations of CCommandSocket, and the actions of SRTMountImpl that  *)
(* follow a stow or an unstow until it is over.  An operation is a         *)
(* function from the state of the mount to the state it leaves: the callers*)
(* of the mount say when it is called.                                     *)
(***************************************************************************)
EXTENDS Naturals, Sequences

CONSTANT MaxPoints    \* points the program track table of the control unit takes

ASSUME TableHolds == MaxPoints \in Nat \ {0}

VARIABLE mount

\* mode, pins:  what the control unit does, and its stow pins
\* busy:        the control line is busy with a stow or an unstow (ACU_BSY)
\* unstowing, stowing:  actions that follow an unstow, a stow
\* done:        unstows that are over, of which the caller is not told yet
\* table:       the points the control unit follows; the first is where it points
\* restart:     the next point begins a new table (m_lastScanEpoch = 0)
MountType(Aims) ==
    mount \in [mode : {"stop", "program", "stow", "unstow"},
               pins : {"in", "moving", "out"}, busy : BOOLEAN,
               unstowing : Nat, stowing : Nat, done : Nat,
               table : Seq(Aims), restart : BOOLEAN]

\* The boss may come back to a mount it was using.
MountInit ==
    \E at \in {[mode |-> "stop", pins |-> "in"], [mode |-> "program", pins |-> "out"]} :
        mount = [mode |-> at.mode, pins |-> at.pins, busy |-> FALSE,
                 unstowing |-> 0, stowing |-> 0, done |-> 0,
                 table |-> <<>>, restart |-> TRUE]

--------------------------------------------------------------------------------
(* Operations.                                                             *)

\* CCommandSocket::stop: whatever is going on.
StopMount(m) == [m EXCEPT !.busy = FALSE, !.mode = "stop"]

\* SRTMountImpl::stow: a refusal is told to the callback alone.
StowMount(m) ==
    IF m.busy THEN m
    ELSE [m EXCEPT !.mode = "stow", !.busy = TRUE, !.stowing = @ + 1]

\* CCommandSocket::changeMode
ProgramMode(m) ==
    IF m.busy \/ m.pins = "in" THEN m ELSE [m EXCEPT !.mode = "program"]

\* SRTMountImpl::unstow: over at once if the pins are out, and the callback of
\* the caller (AfterUnstow) is called from here.
UnstowMount(m, AfterUnstow(_)) ==
    IF m.pins = "out" THEN AfterUnstow(m)
    ELSE IF m.busy THEN m
    ELSE [m EXCEPT !.mode = "unstow", !.busy = TRUE, !.unstowing = @ + 1]

Tracks(m) == ~m.busy /\ m.mode = "program"

\* CCommandSocket::programTrack, when the point is accepted
Loaded(m, aim, clear) ==
    [m EXCEPT !.table = IF clear \/ m.restart THEN <<aim>> ELSE Append(@, aim),
              !.restart = FALSE]

\* ... and when it is not, or not acknowledged: the tracking starts again from
\* nothing.
Refused(m) == [m EXCEPT !.restart = TRUE]

--------------------------------------------------------------------------------
(* What goes on in the mount.                                              *)

\* The pins move when the control unit stows and unstows.
MovePins ==
    \/ /\ mount.mode = "stow" /\ mount.pins # "in"
       /\ mount' = [mount EXCEPT !.pins = IF @ = "out" THEN "moving" ELSE "in"]
    \/ /\ mount.mode = "unstow" /\ mount.pins # "out"
       /\ mount' = [mount EXCEPT !.pins = IF @ = "in" THEN "moving" ELSE "out"]

\* The control unit goes on to the next point of its table.
NextPoint ==
    /\ mount.mode = "program" /\ Len(mount.table) > 1
    /\ mount' = [mount EXCEPT !.table = Tail(@)]

\* Mutant: the control line stays busy after a timeout.
UnstowActionOnly ==
    /\ mount.unstowing > 0
    /\ \/ mount.pins = "out"
          /\ mount' = [mount EXCEPT !.busy = FALSE, !.unstowing = @ - 1, !.done = @ + 1]
       \/ mount.pins # "out"
          /\ mount' = [mount EXCEPT !.unstowing = @ - 1]

\* SRTMountImpl::unstowAction, CCommandSocket::checkIsUnstowed: over when the
\* pins are out; else stopped when the line is not busy; else, at some time,
\* the timeout.  The caller is told of an error too, and does nothing.
UnstowAction ==
    /\ mount.unstowing > 0
    /\ \/ mount.pins = "out"
          /\ mount' = [mount EXCEPT !.busy = FALSE, !.unstowing = @ - 1, !.done = @ + 1]
       \/ mount.pins # "out"
          /\ mount' = [mount EXCEPT !.busy = FALSE, !.unstowing = @ - 1]

\* SRTMountImpl::stowAction, CCommandSocket::checkIsStowed: the axes are
\* deactivated at the end, if the line is not busy.
StowAction ==
    /\ mount.stowing > 0
    /\ \/ mount.pins = "in"
          /\ mount' = [mount EXCEPT !.busy = FALSE, !.stowing = @ - 1, !.mode = "stop"]
       \/ mount.pins # "in"
          /\ mount' = [mount EXCEPT !.busy = FALSE, !.stowing = @ - 1]

MountNext == MovePins \/ NextPoint \/ UnstowAction \/ StowAction
================================================================================
