--------------------------- MODULE NodeConflicts ----------------------------
(***************************************************************************)
(* An item on a cluster (src/src/process.js, _resolveConflicts and what    *)
(* goes with it).  A request is answered by one node; the nodes copy their *)
(* revisions to each other later, so that a document may have conflicting  *)
(* revisions.  Process has the same engine on a database that is one node. *)
(*                                                                         *)
(* CouchDB is external.  A node has a tree of revisions.  A write names a  *)
(* revision and succeeds if it is a leaf of the node's tree.  Of the       *)
(* leaves that are not deleted every node chooses the same winner: the     *)
(* longest, and among those by the hash, which is arbitrary.  The deletion *)
(* of a leaf is no revision here, but a mark on the leaf.                  *)
(***************************************************************************)
EXTENDS Naturals, FiniteSets

CONSTANTS
  Nodes,      \* the nodes
  Workers,    \* the tasks of the processes that run the engine
  NodeOf,     \* the node that the process of a worker is connected to
  FeedNode,   \* the node that the update listener is connected to
  Hashes,     \* natural numbers: the hashes of revisions
  MaxChanges  \* bound: how many times the item is to be dirtied

ASSUME NodeConflictsAssumption ==
  /\ NodeOf \in [Workers -> Nodes] /\ FeedNode \in Nodes
  /\ Hashes \subseteq Nat /\ MaxChanges \in Nat

VARIABLES
  revs,    \* the revisions of the document
  known,   \* per node, the ids of the revisions it has
  gone,    \* per node, the ids of the revisions that it knows to be destroyed
  pc,      \* per worker, where it is
  item,    \* per worker, the document it has received
  changes, \* how many changes there were
  owed,    \* is there a change that no process has seen?
  pending, \* has the update listener an update it has not finished with?
  row      \* the id of the revision the update listener has read, or NoId

dbVars     == <<revs, known, gone>>
workerVars == <<pc, item>>
feedVars   == <<changes, owed, pending, row>>
vars == <<dbVars, workerVars, feedVars>>

NoId == <<0, 0>>
Root == [id |-> <<1, 0>>, parent |-> NoId, dirty |-> TRUE, locked |-> FALSE]
NoItem == [id |-> NoId, locked |-> FALSE, conflicts |-> {}]

\* The item is dirty, and every node knows it.
Init ==
  /\ revs = {Root}
  /\ known = [n \in Nodes |-> {Root.id}]
  /\ gone = [n \in Nodes |-> {}]
  /\ pc = [w \in Workers |-> "idle"]
  /\ item = [w \in Workers |-> NoItem]
  /\ changes = 0 /\ owed = TRUE /\ pending = FALSE /\ row = NoId

-----------------------------------------------------------------------------
(* The document, as a node sees it.                                        *)

Open(n) == {r \in revs : /\ r.id \in known[n] \ gone[n]
                         /\ \A s \in revs : s.id \in known[n] => s.parent # r.id}
Beats(r, s) == r.id[1] > s.id[1] \/ (r.id[1] = s.id[1] /\ r.id[2] >= s.id[2])
Winner(n) == CHOOSE r \in Open(n) : \A s \in Open(n) : Beats(r, s)

\* Requests are answered by nodes that have the document: one that has only got
\* its deletion so far is not asked.
Asked == {n \in Nodes : Open(n) # {}}

IsLeaf(n, id) == \E r \in Open(n) : r.id = id

\* A new revision on top of a leaf of node n.
Write(n, id, dirty, locked) ==
  \E h \in Hashes :
    LET new == <<id[1] + 1, h>>
    IN /\ \A r \in revs : r.id # new
       /\ revs' = revs \cup {[id |-> new, parent |-> id, dirty |-> dirty, locked |-> locked]}
       /\ known' = [known EXCEPT ![n] = @ \cup {new}]
       /\ UNCHANGED gone

\* The nodes copy what they have to each other.
Replicate(m, n) ==
  /\ ~(known[m] \subseteq known[n]) \/ ~(gone[m] \subseteq gone[n])
  /\ known' = [known EXCEPT ![n] = @ \cup known[m]]
  /\ gone' = [gone EXCEPT ![n] = @ \cup gone[m]]
  /\ UNCHANGED <<revs, workerVars, feedVars>>

-----------------------------------------------------------------------------
(* An update listener: dirtyIfCleanOrLocked for the item.                  *)

Change ==
  /\ changes < MaxChanges
  /\ changes' = changes + 1
  /\ owed' = TRUE /\ pending' = TRUE
  /\ UNCHANGED <<dbVars, workerVars, row>>

GetCleanOrLocked(n) ==
  /\ pending /\ row = NoId
  /\ IF Winner(n).dirty /\ ~Winner(n).locked
       THEN pending' = FALSE /\ UNCHANGED row
       ELSE row' = Winner(n).id /\ UNCHANGED pending
  /\ UNCHANGED <<dbVars, workerVars, changes, owed>>

\* The document is written as it was read, but dirty; or there is a conflict.
DirtyOrConflict(n) ==
  /\ row # NoId
  /\ row' = NoId
  /\ IF IsLeaf(n, row)
       THEN /\ \E r \in Open(n) : r.id = row /\ Write(n, row, TRUE, r.locked)
            /\ pending' = FALSE
       ELSE UNCHANGED <<dbVars, pending>>
  /\ UNCHANGED <<workerVars, changes, owed>>

-----------------------------------------------------------------------------
(* A worker.                                                               *)

Goto(w, label) == pc' = [pc EXCEPT ![w] = label]

\* The feed of dirty documents, of whichever node answers it, has a row.
Receive(w, n) ==
  /\ pc[w] = "idle"
  /\ Winner(n).dirty
  /\ LET losers == {r.id : r \in Open(n) \ {Winner(n)}}
     IN /\ losers # {} \/ ~Winner(n).locked
        /\ item' = [item EXCEPT ![w] = [id |-> Winner(n).id, locked |-> Winner(n).locked,
                                        conflicts |-> losers]]
        /\ Goto(w, IF losers = {} THEN "resolved" ELSE "conflicts")
  /\ UNCHANGED <<dbVars, feedVars>>

\* Mutant: the lock of the winner is left as it is.
UpsertUnlockNever(w, n) ==
  /\ pc[w] = "conflicts"
  /\ UNCHANGED dbVars
  /\ Goto(w, "clearing")
  /\ UNCHANGED <<item, feedVars>>

\* _upsertUnlockAndDirtyIfLocked
UpsertUnlockAndDirtyIfLocked(w, n) ==
  /\ pc[w] = "conflicts"
  /\ IF item[w].locked THEN Write(n, Winner(n).id, TRUE, FALSE) ELSE UNCHANGED dbVars
  /\ Goto(w, "clearing")
  /\ UNCHANGED <<item, feedVars>>

\* Mutant: the latest revision is destroyed instead of the conflict (getAndDestroy).
GetAndDestroyConflict(w, n) ==
  /\ pc[w] = "clearing" /\ item[w].conflicts # {}
  /\ \E id \in item[w].conflicts :
       /\ item' = [item EXCEPT ![w].conflicts = @ \ {id}]
       /\ gone' = [gone EXCEPT ![n] = @ \cup {Winner(n).id}]
  /\ UNCHANGED <<revs, known, pc, feedVars>>

\* _clearConflicts: each is destroyed, unless it is no leaf any more.  The code
\* waits for no other then; here the worker goes on when all are answered.
ClearConflict(w, n) ==
  /\ pc[w] = "clearing" /\ item[w].conflicts # {}
  /\ \E id \in item[w].conflicts :
       /\ item' = [item EXCEPT ![w].conflicts = @ \ {id}]
       /\ gone' = IF IsLeaf(n, id) THEN [gone EXCEPT ![n] = @ \cup {id}] ELSE gone
  /\ UNCHANGED <<revs, known, pc, feedVars>>

\* An item that was locked when it was received is left alone.
Cleared(w) ==
  /\ pc[w] = "clearing" /\ item[w].conflicts = {}
  /\ Goto(w, IF item[w].locked THEN "idle" ELSE "resolved")
  /\ UNCHANGED <<dbVars, item, feedVars>>

\* Mutant: the worker goes on with the revision it has received.
LockKeepRev(w, n) ==
  /\ pc[w] = "resolved"
  /\ IF IsLeaf(n, item[w].id)
       THEN Write(n, item[w].id, TRUE, TRUE) /\ Goto(w, "locked")
       ELSE Goto(w, "idle") /\ UNCHANGED dbVars
  /\ UNCHANGED <<item, feedVars>>

\* _lock, or a conflict.
Lock(w, n) ==
  /\ pc[w] = "resolved"
  /\ IF IsLeaf(n, item[w].id)
       THEN /\ Write(n, item[w].id, TRUE, TRUE)
            /\ \E r \in revs' \ revs : item' = [item EXCEPT ![w].id = r.id]
            /\ Goto(w, "locked")
       ELSE /\ Goto(w, "idle")
            /\ UNCHANGED <<dbVars, item>>
  /\ UNCHANGED feedVars

\* _process sees all changes.
Process(w) ==
  /\ pc[w] = "locked"
  /\ owed' = FALSE
  /\ Goto(w, "processed")
  /\ UNCHANGED <<dbVars, item, changes, pending, row>>

\* _unlockAndClean, or a conflict.
UnlockAndClean(w, n) ==
  /\ pc[w] = "processed"
  /\ IF IsLeaf(n, item[w].id)
       THEN Write(n, item[w].id, FALSE, FALSE) /\ Goto(w, "idle")
       ELSE Goto(w, "unlocking") /\ UNCHANGED dbVars
  /\ UNCHANGED <<item, feedVars>>

\* _upsertUnlock
UpsertUnlock(w, n) ==
  /\ pc[w] = "unlocking"
  /\ Write(n, Winner(n).id, Winner(n).dirty, FALSE)
  /\ Goto(w, "idle")
  /\ UNCHANGED <<item, feedVars>>

-----------------------------------------------------------------------------

WorkerStep(w) ==
  \/ \E n \in Asked \cap {NodeOf[w]} :
       \/ Receive(w, n) \/ UpsertUnlockAndDirtyIfLocked(w, n) \/ ClearConflict(w, n)
       \/ Lock(w, n) \/ UnlockAndClean(w, n) \/ UpsertUnlock(w, n)
  \/ Cleared(w) \/ Process(w)

ListenerStep == \E n \in Asked \cap {FeedNode} : GetCleanOrLocked(n) \/ DirtyOrConflict(n)

Next ==
  \/ Change \/ ListenerStep
  \/ \E w \in Workers : WorkerStep(w)
  \/ \E m, n \in Nodes : Replicate(m, n)

Spec == Init /\ [][Next]_vars

\* Every worker and the update listener go on, and the nodes replicate.
FairSpec ==
  /\ Spec
  /\ WF_vars(ListenerStep)
  /\ \A w \in Workers : WF_vars(WorkerStep(w))
  /\ \A m, n \in Nodes : WF_vars(Replicate(m, n))

-----------------------------------------------------------------------------
(* Properties.                                                             *)

Ids == Nat \X (Hashes \cup {0})

\* The type invariant; a worker that has the lock holds the revision that it has
\* locked.
TypeOK ==
  /\ \A r \in revs : r.id \in Ids /\ r.parent \in Ids /\ r.parent[1] + 1 = r.id[1]
  /\ \A n \in Nodes : known[n] \subseteq {r.id : r \in revs}
  /\ \A w \in Workers : /\ pc[w] \in {"idle", "conflicts", "clearing", "resolved", "locked",
                                      "processed", "unlocking"}
                        /\ item[w].id # NoId => \E r \in revs : r.id = item[w].id
                        /\ pc[w] \in {"locked", "processed"} =>
                             \E r \in revs : r.id = item[w].id /\ r.locked

\* Whatever conflicts are resolved, by whom and on which node, with whatever list of
\* losers the rev had when it was received, the document is not lost: the revision
\* that beats all that were ever written is destroyed nowhere, and a node that has
\* it takes it for the winner.
WinnerSurvives ==
  \E r \in revs :
    /\ \A s \in revs : Beats(r, s)
    /\ \A n \in Nodes : r.id \notin gone[n]
    /\ \A n \in Nodes : r.id \in known[n] => r \in Open(n) /\ Winner(n) = r

\* "as we only want one process to hold the lock at any given time" (_lock)
MutualExclusion ==
  Cardinality({w \in Workers : pc[w] \in {"locked", "processed"}}) <= 1

\* "This will then result in the replication being retried later"
\* (dirtyIfCleanOrLocked): a change of an item is processed in the end.
EventuallyProcessed == owed ~> ~owed

\* "an item can remain locked even after it has been processed"
\* (_upsertUnlockAndDirtyIfLocked) is what the code is to prevent: in the end no
\* item that is dirty is left, on any node, and none that is locked.
NothingStuck == <>[](\A n \in Nodes : Open(n) # {} /\ ~Winner(n).dirty /\ ~Winner(n).locked)
=============================================================================
