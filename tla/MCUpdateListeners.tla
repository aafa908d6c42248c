------------------------- MODULE MCUpdateListeners -------------------------
(* UpdateListeners for TLC: the databases and the listeners are             *)
(* interchangeable as far as safety is concerned.                           *)
EXTENDS UpdateListeners, TLC

Symmetry == Permutations(DBs) \cup Permutations(Listeners)
=============================================================================
