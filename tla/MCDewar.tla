-------------------------------- MODULE MCDewar --------------------------------
(* The dewar positioner, for TLC: neither the clients nor the threads differ. *)
EXTENDS DewarPositioner, TLC

Symmetric == Permutations(Clients) \cup Permutations(Threads)
================================================================================
