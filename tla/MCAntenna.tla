------------------------------- MODULE MCAntenna -------------------------------
(***************************************************************************)
(* Instances of AntennaBoss.                                               *)
(***************************************************************************)
EXTENDS AntennaBoss

Horizontal(arc) == [frame |-> "horizontal", arc |-> arc]
Equatorial(arc) == [frame |-> "equatorial", arc |-> arc]

MCUserOffsets == {Equatorial(1)}
MCScanOffsets == {Equatorial(2)}
================================================================================
