-------------------------- MODULE MCSharedStartTime --------------------------
(* Instantiates SharedStartTime for TLC: model values for the key and the  *)
(* worker each controller has.                                             *)
EXTENDS SharedStartTime

CONSTANTS k1, w1

MCKeys == {k1}
MCWorkers == {w1}

=============================================================================
