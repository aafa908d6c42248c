------------------------- MODULE MCChangeProcessor -------------------------
(* Values of the constants of ChangeProcessor for TLC.                      *)
EXTENDS ChangeProcessor, TLC

CONSTANTS r1, r2, r3

OneDoesNotWait == (r1 :> "true") @@ (r2 :> "true") @@ (r3 :> "false")
=============================================================================
