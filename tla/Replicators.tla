---------------------------- MODULE Replicators ----------------------------
(***************************************************************************)
(* The replicators (src/src/replicators.js): Process with _process = one   *)
(* one-shot replication of the item's source, and the operation by which   *)
(* the update listeners dirty the replicators of the databases that have   *)
(* changed, dirtyIfCleanOrLocked.                                          *)
(*                                                                         *)
(* The databases that are replicated are the environment: behind is the    *)
(* set of replicators whose source has changes that no replication has     *)
(* taken to the target.  What UpdateListeners does with batches and seqs   *)
(* is reduced here to sets of databases.                                   *)
(***************************************************************************)
EXTENDS Process

CONSTANTS
  DBs,        \* the databases, by name
  SourceOf,   \* the database a replicator replicates from (_toDBName)
  Delayed,    \* the replicators with dirty_after_milliseconds > 0
  MaxChanges  \* bound: how many times a database changes

ASSUME ReplicatorsAssumption ==
  /\ SourceOf \in [Items -> DBs]
  /\ Delayed \subseteq Items
  /\ MaxChanges \in Nat

VARIABLES
  behind,      \* the items with changes that are not replicated
  covers,      \* per worker, does its replication include every change?
  changes,     \* how many changes there have been
  updates,     \* per listener, the databases with an update it has not read
  batch,       \* per listener, the databases of the batch it handles
  names,       \* per listener, the dbNames of dirtyIfCleanOrLocked
  rows,        \* per listener, the replicators it has read and not written
  conflicted,  \* per listener, the conflictedDBNames
  stage        \* per listener, the request it makes next

listenerVars == <<updates, batch, names, rows, conflicted, stage>>
workVars     == <<behind, covers, changes>>
vars == <<processVars, behind, covers, changes, updates, batch, names, rows,
          conflicted, stage>>

ItemsOf(S) == {i \in Items : SourceOf[i] \in S}

\* The view clean_or_locked_replicators_by_db_name.
CleanOrLocked(d) == (d.dirty # "true" /\ d.dirty_at = "null") \/ IsLocked(d)

Init ==
  /\ ProcessInit
  /\ behind = Items
  /\ covers = [w \in Workers |-> FALSE]
  /\ changes = 0
  /\ updates = [u \in Listeners |-> {}]
  /\ batch = [u \in Listeners |-> {}]
  /\ names = [u \in Listeners |-> {}]
  /\ rows = [u \in Listeners |-> {}]
  /\ conflicted = [u \in Listeners |-> {}]
  /\ stage = [u \in Listeners |-> "idle"]

-----------------------------------------------------------------------------
(* The environment: a database changes, and every listener will hear of it. *)
(* A replication that is under way is not assumed to include the change.    *)

Change(db) ==
  /\ changes < MaxChanges
  /\ changes' = changes + 1
  /\ behind' = behind \cup ItemsOf({db})
  /\ covers' = [w \in Workers |-> covers[w] /\ item[w] \notin ItemsOf({db})]
  /\ updates' = [u \in Listeners |-> updates[u] \cup {db}]
  /\ UNCHANGED <<processVars, batch, names, rows, conflicted, stage>>

-----------------------------------------------------------------------------
(* _process: the replication takes every change made before it began.      *)

BeginReplication(w) ==
  /\ BeginProcess(w)
  /\ covers' = [covers EXCEPT ![w] = TRUE]
  /\ UNCHANGED <<behind, changes, listenerVars>>

ReplicationDone(w) ==
  /\ ProcessSucceeds(w)
  /\ behind' = IF covers[w] THEN behind \ {item[w]} ELSE behind
  /\ covers' = [covers EXCEPT ![w] = FALSE]
  /\ UNCHANGED <<changes, listenerVars>>

ReplicationFails(w) ==
  /\ ProcessThrows(w)
  /\ covers' = [covers EXCEPT ![w] = FALSE]
  /\ UNCHANGED <<behind, changes, listenerVars>>

UnlockAndCleanReplicator(w) ==
  /\ UnlockAndClean(w, FALSE)
  /\ UNCHANGED <<workVars, listenerVars>>

\* A step of Process touches nothing of this module, but a crash ends the
\* replications of the process.
Engine(Step) ==
  /\ Step
  /\ covers' = [w \in Workers |-> covers[w] /\ pc'[w] = "processing"]
  /\ UNCHANGED <<behind, changes, listenerVars>>

-----------------------------------------------------------------------------
(* dirtyIfCleanOrLocked(dbNames) of a listener: get, dirty in bulk, and     *)
(* again for the databases of the replicators that conflicted.              *)

HearUpdates(u) ==
  /\ stage[u] = "idle"
  /\ \E S \in SUBSET updates[u] :
       /\ S # {}
       /\ updates' = [updates EXCEPT ![u] = @ \ S]
       /\ batch' = [batch EXCEPT ![u] = S]
       /\ names' = [names EXCEPT ![u] = S]
  /\ stage' = [stage EXCEPT ![u] = "reading"]
  /\ UNCHANGED <<processVars, workVars, rows, conflicted>>

\* Mutant: only the clean replicators are read.
GetClean(u) ==
  /\ stage[u] = "reading"
  /\ LET found == {i \in ItemsOf(names[u]) : CleanOrLocked(docs[i]) /\ ~IsLocked(docs[i])}
     IN /\ rows' = [rows EXCEPT ![u] = found]
        /\ current' = [current EXCEPT ![u] = found]
  /\ conflicted' = [conflicted EXCEPT ![u] = {}]
  /\ stage' = [stage EXCEPT ![u] = "writing"]
  /\ UNCHANGED <<docs, feed, soiler, soiling, procVars, workerVars, faults,
                 workVars, updates, batch, names>>

GetCleanOrLocked(u) ==
  /\ stage[u] = "reading"
  /\ LET found == {i \in ItemsOf(names[u]) : CleanOrLocked(docs[i])}
     IN /\ rows' = [rows EXCEPT ![u] = found]
        /\ current' = [current EXCEPT ![u] = found]
  /\ conflicted' = [conflicted EXCEPT ![u] = {}]
  /\ stage' = [stage EXCEPT ![u] = "writing"]
  /\ UNCHANGED <<docs, feed, soiler, soiling, procVars, workerVars, faults,
                 workVars, updates, batch, names>>

\* _setDirtyAt for a delayed replicator, else _setDirty.
DirtiedDoc(i) ==
  IF i \in Delayed
    THEN SetDirtyAt(docs[i], "false", "later")
    ELSE SetDirtyAt(docs[i], "true", "null")

\* Mutant: conflicts of the bulk update are not collected.
DirtyIgnoringConflicts(u, i) ==
  /\ stage[u] = "writing"
  /\ i \in rows[u]
  /\ rows' = [rows EXCEPT ![u] = @ \ {i}]
  /\ IF i \in current[u] THEN Store(i, DirtiedDoc(i), {}) ELSE UNCHANGED dbVars
  /\ UNCHANGED <<soiling, procVars, workerVars, faults, workVars, updates,
                 batch, names, conflicted, stage>>

\* One document of the bulk update: each is accepted or conflicts by itself.
Dirty(u, i) ==
  /\ stage[u] = "writing"
  /\ i \in rows[u]
  /\ rows' = [rows EXCEPT ![u] = @ \ {i}]
  /\ \/ /\ i \in current[u]
        /\ Store(i, DirtiedDoc(i), {})
        /\ UNCHANGED conflicted
     \/ /\ i \notin current[u]
        /\ conflicted' = [conflicted EXCEPT ![u] = @ \cup {SourceOf[i]}]
        /\ UNCHANGED dbVars
  /\ UNCHANGED <<soiling, procVars, workerVars, faults, workVars, updates,
                 batch, names, stage>>

RetryConflicted(u) ==
  /\ stage[u] = "writing"
  /\ rows[u] = {}
  /\ conflicted[u] # {}
  /\ names' = [names EXCEPT ![u] = conflicted[u]]
  /\ conflicted' = [conflicted EXCEPT ![u] = {}]
  /\ stage' = [stage EXCEPT ![u] = "reading"]
  /\ UNCHANGED <<processVars, workVars, updates, batch, rows>>

\* Mutant: the batch is not reset.
DirtyDoneKeepBatch(u) ==
  /\ stage[u] = "writing"
  /\ rows[u] = {}
  /\ conflicted[u] = {}
  /\ names' = [names EXCEPT ![u] = {}]
  /\ stage' = [stage EXCEPT ![u] = "idle"]
  /\ soiler' = soiler \cup {u}
  /\ UNCHANGED <<docs, current, feed, soiling, procVars, workerVars, faults,
                 workVars, updates, batch, rows, conflicted>>

\* No conflict is left: queue the soiler at once (_queueSoiler(0)).
DirtyDone(u) ==
  /\ stage[u] = "writing"
  /\ rows[u] = {}
  /\ conflicted[u] = {}
  /\ batch' = [batch EXCEPT ![u] = {}]
  /\ names' = [names EXCEPT ![u] = {}]
  /\ stage' = [stage EXCEPT ![u] = "idle"]
  /\ soiler' = soiler \cup {u}
  /\ UNCHANGED <<docs, current, feed, soiling, procVars, workerVars, faults,
                 workVars, updates, rows, conflicted>>

\* A listener is killed and starts again from the saved lastSeq.  The listeners
\* share that document, so it may be the one another listener has saved: the
\* updates after it include those that listener has not finished with.
CrashListener(u) ==
  /\ Fault("listener")
  /\ \E v \in Listeners, T \in SUBSET DBs :
       /\ updates[v] \cup batch[v] \subseteq T
       /\ updates' = [updates EXCEPT ![u] = T]
  /\ batch' = [batch EXCEPT ![u] = {}]
  /\ names' = [names EXCEPT ![u] = {}]
  /\ rows' = [rows EXCEPT ![u] = {}]
  /\ conflicted' = [conflicted EXCEPT ![u] = {}]
  /\ stage' = [stage EXCEPT ![u] = "idle"]
  /\ current' = [current EXCEPT ![u] = {}]
  /\ soiler' = soiler \ {u}
  /\ soiling' = [soiling EXCEPT ![u] = {}]
  /\ UNCHANGED <<docs, feed, procVars, workerVars, workVars>>

-----------------------------------------------------------------------------

ReplicationStep(w) ==
  \/ BeginReplication(w) \/ ReplicationDone(w) \/ ReplicationFails(w)
  \/ UnlockAndCleanReplicator(w)

ListenerStep(u) ==
  \/ HearUpdates(u) \/ GetCleanOrLocked(u) \/ RetryConflicted(u) \/ DirtyDone(u)
  \/ \E i \in Items : Dirty(u, i)
  \/ CrashListener(u)

Next ==
  \/ Engine(ProcessStep)
  \/ \E w \in Workers : ReplicationStep(w)
  \/ \E u \in Listeners : ListenerStep(u)
  \/ \E db \in DBs : Change(db)

Spec == Init /\ [][Next]_vars

(* Fairness: every step the code takes by itself is taken in the end.  No   *)
(* fault, no stop and no change of a database has to happen.  A process     *)
(* that ended is started again by its supervisor.                           *)

WorkerProgress(w) ==
  \/ Engine(Lock(w) \/ LockConflict(w) \/ UnlockAndCleanConflict(w) \/ UpsertUnlock(w))
  \/ BeginReplication(w) \/ ReplicationDone(w) \/ UnlockAndCleanReplicator(w)

StartStop(p) ==
  Engine(GetLastSeq(p) \/ LoadDirty(p) \/ StartListening(p) \/ Stopped(p))

Deliver(p) ==
  Engine(\E w \in WorkersOf(p), i \in Items : OnDirtyRow(w, i) \/ OnChange(w, i))

Unstall(p) == Engine(ReadStalled(p) \/ \E i \in Items : UnlockStalled(p, i))

ListenerProgress(u) ==
  \/ HearUpdates(u) \/ GetCleanOrLocked(u) \/ RetryConflicted(u) \/ DirtyDone(u)
  \/ \E i \in Items : Dirty(u, i)

Fairness ==
  /\ \A w \in Workers : WF_vars(WorkerProgress(w))
  /\ \A p \in Procs : /\ WF_vars(StartStop(p))
                      /\ WF_vars(Deliver(p))
                      /\ WF_vars(Unstall(p))
  /\ \A s \in Soilers : /\ WF_vars(Engine(SoilPendingItems(s)))
                        /\ WF_vars(Engine(\E i \in Items : SoilItem(s, i)))
  /\ \A i \in Items : /\ WF_vars(Engine(OrphanLockStalls(i)))
                      /\ WF_vars(Engine(DirtyAtComes(i)))
  /\ \A u \in Listeners : WF_vars(ListenerProgress(u))

FairSpec == Spec /\ Fairness

-----------------------------------------------------------------------------
(* Properties.                                                             *)

ListenersTyped ==
  /\ updates \in [Listeners -> SUBSET DBs]
  /\ batch \in [Listeners -> SUBSET DBs]
  /\ names \in [Listeners -> SUBSET DBs]
  /\ rows \in [Listeners -> SUBSET Items]
  /\ conflicted \in [Listeners -> SUBSET DBs]
  /\ stage \in [Listeners -> {"idle", "reading", "writing"}]
  /\ \A u \in Listeners : /\ stage[u] = "idle" <=> names[u] = {}
                          /\ stage[u] = "idle" => batch[u] = {}
                          /\ names[u] \subseteq batch[u]
                          /\ conflicted[u] \subseteq names[u]
                          /\ rows[u] \subseteq ItemsOf(names[u])

WorkTyped == /\ behind \in SUBSET Items
             /\ covers \in [Workers -> BOOLEAN]
             /\ changes \in 0..MaxChanges

\* The type invariant of the replicators: of the engine and of the listeners,
\* with the relation between a listener's batch and what it still has to do.
TypeOK == ProcessTypeOK /\ ListenersTyped /\ WorkTyped

\* Listener u has not finished with the updates of item i's source: it has not
\* read them, or it is between the get and the dirty of the item.
Unresolved(u, i) ==
  \/ SourceOf[i] \in updates[u]
  \/ /\ SourceOf[i] \in names[u]
     /\ \/ stage[u] = "reading"
        \/ i \in rows[u]
        \/ SourceOf[i] \in conflicted[u]

\* No update is lost: as soon as one listener has finished with an update, the
\* replicator is marked (dirty, or to be soiled) until a replication that began
\* after the update has succeeded.  This is what the locked rows of the view,
\* the retry of conflicts and the update (not upsert) of _unlockAndClean are
\* for: the re-dirtying may come before, during or after any request of a
\* worker.
NoLostUpdate ==
  \A i \in behind : Marked(docs[i]) \/ \A u \in Listeners : Unresolved(u, i)

\* A clean update that will succeed is not one that hides an update: while the
\* worker has the latest revision, no listener has finished with an update its
\* replication does not include.
CleanIsJustified ==
  \A w \in Workers : \A i \in behind :
    /\ pc[w] \in {"processing", "processed"}
    /\ i \in current[w]
    /\ ~(pc[w] = "processing" /\ covers[w])
    => \A u \in Listeners : Unresolved(u, i)

\* "If a replication fails, e.g. due to a transient error, it will be retried"
\* and a crashed one "will eventually be considered stalled and will be
\* retried" (DESIGN.md): every change is replicated in the end.
EventuallyReplicated == \A i \in Items : i \in behind ~> i \notin behind

\* Once the databases are quiet, so are the replicators: nothing keeps
\* dirtying, retrying and replicating on and on.
Quiescence ==
  <>[](\A i \in Items : docs[i].dirty = "false" /\ docs[i].dirty_at = "null"
                        /\ ~IsLocked(docs[i]))

-----------------------------------------------------------------------------
(* The replicators implement the dirty-mark discipline.                    *)

MarkedItems == {i \in Items : Marked(docs[i])}

\* A listener has finished with every update of the item's source it was sent.
HeardItems ==
  {i \in Items : \E u \in Listeners : SourceOf[i] \notin updates[u] \cup batch[u]}

Abstract == INSTANCE DirtyMarks WITH
  owed <- behind, marked <- MarkedItems, heard <- HeardItems

\* Every step of a worker, a listener, an unstaller or a soiler, in any order
\* and with any fault, is a step of DirtyMarks: in particular no mark is
\* cleared while the item is owed a change that has been heard, and no batch
\* is finished before its replicators are marked.
ImplementsDirtyMarks == Abstract!Spec

-----------------------------------------------------------------------------
(* Their dirtyIfCleanOrLocked is what UpdateListeners takes for one step.   *)

\* The databases with an update that a replicator is not marked for.
Undirtied == {SourceOf[i] : i \in {j \in behind : ~Marked(docs[j])}}

Feed == INSTANCE UpdateFeed WITH
  owed <- Undirtied, open <- [u \in Listeners |-> updates[u] \cup batch[u]]

\* A batch ends for its listener only when all replicators of its databases are
\* marked, through conflicts with workers, unstallers and other listeners, and a
\* worker that cleans one before has left it to every listener.
ImplementsUpdateFeed == Feed!Spec
=============================================================================
