----------------------------- MODULE MCDeletion -----------------------------
(***************************************************************************)
(* Model values for Deletion.                                              *)
(***************************************************************************)
EXTENDS Deletion

CONSTANTS w1, w2
=============================================================================
