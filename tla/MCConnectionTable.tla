------------------------- MODULE MCConnectionTable -------------------------
(* Instances of ConnectionTable for TLC.  Connections are interchangeable;   *)
(* the runs that check liveness do not use that.                             *)
EXTENDS ConnectionTable, TLC

Symmetry == Permutations(Conns)
=============================================================================
