----------------------------- MODULE UpdateFeed -----------------------------
(***************************************************************************)
(* The interface between the update listeners and the items they dirty,    *)
(* without batches, seqs, requests, locks or revisions.  Each listener has  *)
(* open the databases with an update that it has not finished with.  It may *)
(* finish with them only when their items are dirtied, a mark may go only   *)
(* while every listener has still to set it again, and a listener that      *)
(* starts again has open at least what some listener has.                   *)
(*                                                                         *)
(* UpdateListeners implements it with dirtying as one step, Replicators and *)
(* ChangeListeners with the protocol that dirtying is.                      *)
(***************************************************************************)
CONSTANTS DBs, Listeners

VARIABLES
  owed,  \* the databases with an update that an item is not dirtied for
  open   \* per listener, the databases with an update it has not finished with

vars == <<owed, open>>

Init == /\ owed = {}
        /\ open = [u \in Listeners |-> {}]

\* A database is updated, or the mark of an item is taken away as if it were: all
\* listeners have it open.  Its items may be, or stay, marked.
Update(d) == /\ owed' \in {owed, owed \cup {d}}
             /\ open' = [u \in Listeners |-> open[u] \cup {d}]

\* The items of some databases are dirtied, or need not be any more.
Dirty(S) == /\ owed' = owed \ S
            /\ UNCHANGED open

\* A listener finishes with some databases: their items are dirtied now or before.
Finish(u, S) == /\ S \subseteq open[u]
                /\ owed' = owed \ S
                /\ open' = [open EXCEPT ![u] = @ \ S]

\* Some listeners start again, at a seq that is not after all that v has open.
Restart(D, v, T) == /\ open[v] \subseteq T
                    /\ open' = [u \in Listeners |-> IF u \in D THEN T ELSE open[u]]
                    /\ UNCHANGED owed

Next == \/ \E d \in DBs : Update(d)
        \/ \E S \in SUBSET DBs : Dirty(S)
        \/ \E u \in Listeners, S \in SUBSET DBs : Finish(u, S)
        \/ \E D \in SUBSET Listeners, v \in Listeners, T \in SUBSET DBs : Restart(D, v, T)

Spec == Init /\ [][Next]_vars

\* What it is for: whichever listener is looked at, it will still come to every
\* update that items are not dirtied for.
OwedIsOpen == \A u \in Listeners : owed \subseteq open[u]
=============================================================================
