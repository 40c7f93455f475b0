---------------------------- MODULE MCController ----------------------------
(* Instantiates Controller for TLC: model values for keys and workers.     *)
EXTENDS Controller

CONSTANTS k1, k2, w1, w2

MCKeys1 == {k1}
MCKeys2 == {k1, k2}
MCWorkers1 == {w1}
MCWorkers2 == {w1, w2}

=============================================================================
