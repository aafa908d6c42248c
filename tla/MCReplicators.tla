--------------------------- MODULE MCReplicators ---------------------------
(* Values of the constants of Replicators for TLC.                          *)
EXTENDS Replicators, TLC

CONSTANTS i1, i2, p1, p2, w1, w2, u1, u2, d1, d2

OneProcess  == [w \in Workers |-> p1]
TwoProcesses  == (w1 :> p1) @@ (w2 :> p2)
OneSource     == [i \in Items |-> d1]
TwoSources    == (i1 :> d1) @@ (i2 :> d2)
=============================================================================
