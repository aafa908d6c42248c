----------------------------- MODULE DirtyMarks -----------------------------
(***************************************************************************)
(* What the dirty flag promises, without locks, revisions or processes     *)
(* (DESIGN.md, "Replicating" and "Change Listening": an update dirties the *)
(* item, a dirty item is processed, a processed item is cleaned).          *)
(*                                                                         *)
(* An item is owed while it has changes that no processing has taken.  A   *)
(* change is first unheard: it is still on its way to every update         *)
(* listener.  Who reports a change as heard must have marked the item, and *)
(* a mark may be cleared only if the item is not owed, or if the change it *)
(* is owed for is still to be heard, and will bring another mark.          *)
(***************************************************************************)
CONSTANT Items

VARIABLES
  owed,    \* the items with changes that are not processed
  marked,  \* the items whose document asks for processing
  heard    \* the items none of whose changes is still on its way

vars == <<owed, marked, heard>>

Init == /\ marked \in SUBSET Items
        /\ owed \in SUBSET marked
        /\ heard \in SUBSET Items

Change(S) == /\ owed' = owed \cup S
             /\ heard' = heard \ S
             /\ UNCHANGED marked

Mark(S) == /\ marked' = marked \cup S
           /\ UNCHANGED <<owed, heard>>

Report(S) == /\ S \cap owed \subseteq marked
             /\ heard' = heard \cup S
             /\ UNCHANGED <<owed, marked>>

\* A listener starts again at an earlier seq: changes are on their way again.
Replay(S) == /\ heard' = heard \ S
             /\ UNCHANGED <<owed, marked>>

Serve(i) == /\ owed' = owed \ {i}
            /\ UNCHANGED <<marked, heard>>

Clear(i) == /\ i \notin owed \/ i \notin heard
            /\ marked' = marked \ {i}
            /\ UNCHANGED <<owed, heard>>

Next == \/ \E S \in SUBSET Items : Change(S) \/ Mark(S) \/ Report(S) \/ Replay(S)
        \/ \E i \in Items : Serve(i) \/ Clear(i)

Spec == Init /\ [][Next]_vars

\* What the discipline is for: an item that is owed a change somebody has
\* heard of is marked.
OwedIsMarked == owed \cap heard \subseteq marked
=============================================================================
