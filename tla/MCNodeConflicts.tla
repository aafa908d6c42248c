-------------------------- MODULE MCNodeConflicts ---------------------------
(***************************************************************************)
(* Model values for NodeConflicts.                                         *)
(***************************************************************************)
EXTENDS NodeConflicts, TLC

CONSTANTS a, b, w1, w2

OnA   == (w1 :> a)
OnOne == (w1 :> a) @@ (w2 :> a)
OnTwo == (w1 :> a) @@ (w2 :> b)
=============================================================================
