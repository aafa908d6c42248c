------------------------- MODULE MCChangeListeners -------------------------
(* Values of the constants of ChangeListeners for TLC.                      *)
EXTENDS ChangeListeners, TLC

CONSTANTS p1, p2, w1, w2, u1, u2

OneProcess   == [w \in Workers |-> p1]
TwoProcesses == (w1 :> p1) @@ (w2 :> p2)
=============================================================================
