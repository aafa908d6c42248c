------------------------------ MODULE Deletion ------------------------------
(***************************************************************************)
(* A change listener whose database is deleted, and perhaps created again  *)
(* (src/src/process.js, _processAndUnlockIfError and the operations around *)
(* it; src/src/change-listeners.js, which finds that the database is not   *)
(* there).  The document gets a mark, possibly_deleted_at, and once that   *)
(* is old enough it is destroyed.  ChangeListeners has what happens to a   *)
(* listener whose database exists.                                         *)
(*                                                                         *)
(* A holder whose copy of the document is its latest revision is in        *)
(* current: an update by any other conflicts.                              *)
(***************************************************************************)
EXTENDS Naturals

CONSTANTS
  Workers,     \* the tasks of the processes that run the engine
  MaxCreated,  \* bound: how many times the database is created again
  MaxChanges,  \* bound: how many changes it has, its creations not counted
  MaxCrashes   \* bound: how many times a worker is killed

ASSUME DeletionAssumption ==
  /\ MaxCreated \in Nat /\ MaxChanges \in Nat /\ MaxCrashes \in Nat
  /\ Workers \cap {"listener", "unstaller"} = {}

VARIABLES
  exists,   \* is the database there?
  unread,   \* has it a change that no batch has read?
  created,  \* how many times it was created again
  changes,  \* how many changes it had
  doc,      \* the listener's document
  current,  \* who has the latest revision of it
  found,    \* has a batch found the database since possibly_deleted_at was set?
  pc,       \* per worker, where it is
  mark,     \* per worker, possibly_deleted_at of the document it has received
  update,   \* where the update listener is with an update of the database
  stalled,  \* has the unstaller read the document?
  crashes   \* how many workers were killed

databaseVars == <<exists, unread, created, changes>>
docVars      == <<doc, current, found>>
workerVars   == <<pc, mark>>
vars == <<databaseVars, docVars, workerVars, update, stalled, crashes>>

Docs == [there : BOOLEAN, dirty : BOOLEAN, locked : {"no", "recent", "stalled"},
         mark : {"no", "recent", "old"}]
Missing == [there |-> FALSE, dirty |-> FALSE, locked |-> "no", mark |-> "no"]
New     == [Missing EXCEPT !.there = TRUE, !.dirty = TRUE]

Holders == Workers \cup {"listener", "unstaller"}

\* The listener has processed what there is.
Init ==
  /\ exists = TRUE /\ unread = FALSE /\ created = 0 /\ changes = 0
  /\ doc = [New EXCEPT !.dirty = FALSE]
  /\ current = {} /\ found = FALSE
  /\ pc = [w \in Workers |-> "idle"]
  /\ mark = [w \in Workers |-> "no"]
  /\ update = "none" /\ stalled = FALSE /\ crashes = 0

Store(d, keepers) == doc' = d /\ current' = keepers /\ UNCHANGED found

-----------------------------------------------------------------------------
(* The environment.  _global_changes reports whatever happens to a database. *)

Happens == update' = IF update \in {"got", "gotThenReported"} THEN "gotThenReported"
                                                           ELSE "reported"

Delete ==
  /\ exists
  /\ exists' = FALSE /\ unread' = FALSE
  /\ Happens
  /\ UNCHANGED <<created, changes, docVars, workerVars, stalled, crashes>>

Create ==
  /\ ~exists /\ created < MaxCreated
  /\ created' = created + 1
  /\ exists' = TRUE /\ unread' = TRUE
  /\ Happens
  /\ UNCHANGED <<changes, docVars, workerVars, stalled, crashes>>

Change ==
  /\ exists /\ changes < MaxChanges
  /\ changes' = changes + 1
  /\ unread' = TRUE
  /\ Happens
  /\ UNCHANGED <<exists, created, docVars, workerVars, stalled, crashes>>

Crash(w) ==
  /\ pc[w] # "idle" /\ crashes < MaxCrashes
  /\ crashes' = crashes + 1
  /\ pc' = [pc EXCEPT ![w] = "idle"]
  /\ UNCHANGED <<databaseVars, docVars, mark, update, stalled>>

Locking == {w \in Workers : pc[w] \notin {"idle", "received"}}

\* retryAfterSeconds have passed; nobody works for that long.
LockAges ==
  /\ doc.locked = "recent" /\ Locking = {}
  /\ doc' = [doc EXCEPT !.locked = "stalled"]
  /\ UNCHANGED <<databaseVars, current, found, workerVars, update, stalled, crashes>>

\* assumeDeletedAfterSeconds have passed.
MarkAges ==
  /\ doc.mark = "recent"
  /\ doc' = [doc EXCEPT !.mark = "old"]
  /\ mark' = [w \in Workers |-> IF mark[w] = "recent" THEN "old" ELSE mark[w]]
  /\ UNCHANGED <<databaseVars, current, found, pc, update, stalled, crashes>>

-----------------------------------------------------------------------------
(* An update listener: dirtyIfCleanOrLocked.                               *)

GetCleanLockedOrMissing ==
  /\ update = "reported"
  /\ IF doc.there /\ doc.dirty /\ doc.locked = "no"
       THEN update' = "none" /\ UNCHANGED current
       ELSE update' = "got" /\ current' = current \cup {"listener"}
  /\ UNCHANGED <<databaseVars, doc, found, workerVars, stalled, crashes>>

DirtyOrCreate ==
  /\ update \in {"got", "gotThenReported"}
  /\ "listener" \in current
  /\ Store(IF doc.there THEN [doc EXCEPT !.dirty = TRUE] ELSE New, {})
  /\ update' = IF update = "got" THEN "none" ELSE "reported"
  /\ UNCHANGED <<databaseVars, workerVars, stalled, crashes>>

\* The document has been written since: it is read again.
DirtyConflicts ==
  /\ update \in {"got", "gotThenReported"}
  /\ "listener" \notin current
  /\ update' = "reported"
  /\ UNCHANGED <<databaseVars, docVars, workerVars, stalled, crashes>>

-----------------------------------------------------------------------------
(* A worker: _lockProcessUnlock.                                           *)

Goto(w, label) == pc' = [pc EXCEPT ![w] = label]

Receive(w) ==
  /\ pc[w] = "idle"
  /\ doc.there /\ doc.dirty /\ doc.locked = "no"
  /\ current' = current \cup {w}
  /\ mark' = [mark EXCEPT ![w] = doc.mark]
  /\ Goto(w, "received")
  /\ UNCHANGED <<databaseVars, doc, found, update, stalled, crashes>>

\* Mutant: the lock is merged into the latest revision.
LockByUpsert(w) ==
  /\ pc[w] = "received"
  /\ Store([doc EXCEPT !.locked = "recent"], {w}) /\ Goto(w, "locked")
  /\ UNCHANGED <<databaseVars, mark, update, stalled, crashes>>

\* A conflict is ignored.
Lock(w) ==
  /\ pc[w] = "received"
  /\ IF w \in current
       THEN Store([doc EXCEPT !.locked = "recent"], {w}) /\ Goto(w, "locked")
       ELSE UNCHANGED docVars /\ Goto(w, "idle")
  /\ UNCHANGED <<databaseVars, mark, update, stalled, crashes>>

\* _isProbablyDeleted, of the document as it was received.
IsProbablyDeleted(w) == mark[w] = "old"

\* _changesForListener: a batch with all changes, or a DatabaseNotFoundError.
ReadChanges(w) ==
  /\ pc[w] = "locked"
  /\ IF exists THEN /\ unread' = FALSE /\ found' = TRUE
                    /\ Goto(w, IF unread THEN "advancing" ELSE "processed")
               ELSE /\ UNCHANGED <<unread, found>>
                    /\ Goto(w, IF IsProbablyDeleted(w) THEN "deleted" ELSE "notFound")
  /\ UNCHANGED <<exists, created, changes, doc, current, mark, update, stalled, crashes>>

\* _updateLastSeq, which writes nothing if last_seq stays as it is: the worker
\* does not keep the revision.
UpdateLastSeq(w) ==
  /\ pc[w] = "advancing"
  /\ Store(doc, {})
  /\ Goto(w, "processed")
  /\ UNCHANGED <<databaseVars, mark, update, stalled, crashes>>

\* Mutant: the clean is merged into the latest revision.
UnlockAndCleanByUpsert(w) ==
  /\ pc[w] = "processed"
  /\ Store([doc EXCEPT !.dirty = FALSE, !.locked = "no", !.mark = "no"], {})
  /\ Goto(w, "idle")
  /\ UNCHANGED <<databaseVars, mark, update, stalled, crashes>>

\* _unlockAndClean
UnlockAndClean(w) ==
  /\ pc[w] = "processed"
  /\ IF w \in current
       THEN /\ Store([doc EXCEPT !.dirty = FALSE, !.locked = "no", !.mark = "no"], {})
            /\ Goto(w, "idle")
       ELSE UNCHANGED docVars /\ Goto(w, "conflicted")
  /\ UNCHANGED <<databaseVars, mark, update, stalled, crashes>>

\* Mutant: the mark stays when the document is unlocked.
UpsertUnlockKeepsMark(w) ==
  /\ pc[w] = "conflicted"
  /\ Store([doc EXCEPT !.locked = "no"], {})
  /\ Goto(w, "idle")
  /\ UNCHANGED <<databaseVars, mark, update, stalled, crashes>>

\* _upsertUnlock
UpsertUnlock(w) ==
  /\ pc[w] = "conflicted"
  /\ Store([doc EXCEPT !.locked = "no", !.mark = "no"], {})
  /\ Goto(w, "idle")
  /\ UNCHANGED <<databaseVars, mark, update, stalled, crashes>>

\* Mutant: every error sets possibly_deleted_at anew.
UpsertUnlockMarkedAnew(w) ==
  /\ pc[w] = "notFound"
  /\ doc' = [doc EXCEPT !.locked = "no", !.mark = "recent"]
  /\ found' = FALSE /\ current' = {}
  /\ Goto(w, "idle")
  /\ UNCHANGED <<databaseVars, mark, update, stalled, crashes>>

\* _upsertUnlockPossiblyDeleted
UpsertUnlockPossiblyDeleted(w) ==
  /\ pc[w] = "notFound"
  /\ IF mark[w] = "no"
       THEN doc' = [doc EXCEPT !.locked = "no", !.mark = "recent"] /\ found' = FALSE
       ELSE doc' = [doc EXCEPT !.locked = "no"] /\ UNCHANGED found
  /\ current' = {}
  /\ Goto(w, "idle")
  /\ UNCHANGED <<databaseVars, mark, update, stalled, crashes>>

\* _getAndDestroy: the latest revision is read, then destroyed.  With a conflict
\* in between the document stays locked.
Get(w) ==
  /\ pc[w] = "deleted"
  /\ current' = current \cup {w}
  /\ Goto(w, "destroying")
  /\ UNCHANGED <<databaseVars, doc, found, mark, update, stalled, crashes>>

Destroy(w) ==
  /\ pc[w] = "destroying"
  /\ IF w \in current THEN Store(Missing, {}) ELSE UNCHANGED docVars
  /\ Goto(w, "idle")
  /\ UNCHANGED <<databaseVars, mark, update, stalled, crashes>>

-----------------------------------------------------------------------------
(* The unstaller.                                                          *)

ReadStalled ==
  /\ ~stalled /\ doc.locked = "stalled"
  /\ stalled' = TRUE
  /\ current' = current \cup {"unstaller"}
  /\ UNCHANGED <<databaseVars, doc, found, workerVars, update, crashes>>

UnlockStalled ==
  /\ stalled
  /\ stalled' = FALSE
  /\ IF "unstaller" \in current THEN Store([doc EXCEPT !.locked = "no"], {})
                                ELSE UNCHANGED docVars
  /\ UNCHANGED <<databaseVars, workerVars, update, crashes>>

-----------------------------------------------------------------------------

ListenerStep == GetCleanLockedOrMissing \/ DirtyOrCreate \/ DirtyConflicts

Unlocking(w) == UnlockAndClean(w) \/ UpsertUnlock(w) \/ UpsertUnlockPossiblyDeleted(w)

WorkerStep(w) == Receive(w) \/ Lock(w) \/ ReadChanges(w) \/ UpdateLastSeq(w) \/ Unlocking(w)
                   \/ Get(w) \/ Destroy(w)

Unstaller == ReadStalled \/ UnlockStalled

Next ==
  \/ Delete \/ Create \/ Change
  \/ LockAges \/ MarkAges
  \/ ListenerStep \/ Unstaller
  \/ \E w \in Workers : WorkerStep(w) \/ Crash(w)

Spec == Init /\ [][Next]_vars

\* Everybody who is alive goes on, and time passes.
FairSpec ==
  /\ Spec
  /\ WF_vars(ListenerStep) /\ WF_vars(Unstaller)
  /\ WF_vars(LockAges) /\ WF_vars(MarkAges)
  /\ \A w \in Workers : WF_vars(WorkerStep(w))

-----------------------------------------------------------------------------
(* Properties.                                                             *)

Typed ==
  /\ exists \in BOOLEAN /\ unread \in BOOLEAN /\ found \in BOOLEAN /\ stalled \in BOOLEAN
  /\ unread => exists
  /\ created \in 0..MaxCreated /\ changes \in 0..MaxChanges /\ crashes \in 0..MaxCrashes
  /\ doc \in Docs /\ current \subseteq Holders
  /\ pc \in [Workers -> {"idle", "received", "locked", "advancing", "processed",
                         "conflicted", "notFound", "deleted", "destroying"}]
  /\ mark \in [Workers -> {"no", "recent", "old"}]
  /\ update \in {"none", "reported", "got", "gotThenReported"}

\* The type invariant, and the lock: one worker has it, and nobody destroys the
\* document or takes its lock for stalled meanwhile.
TypeOK ==
  /\ Typed
  /\ \A v, w \in Locking : v = w
  /\ Locking # {} => doc.there /\ doc.locked = "recent"

\* "we want to make sure to re-dirty the listener so that the revision number
\* changes.  This will then result in the listener being retried later"
\* (dirtyIfCleanOrLocked): a change that nobody has read is known to somebody.
NoChangeForgotten == unread => update # "none" \/ doc.dirty

\* Nothing but the destruction of the document makes the engine forget a change.
OnlyDestroyForgets ==
  [][NoChangeForgotten /\ ~NoChangeForgotten' => doc.there /\ ~doc'.there]_vars

\* "Database not found errors that persist for this many seconds will result in
\* the item document being deleted" (bin/usage.txt): no batch has found the
\* database since the first of these errors, as long as no worker was killed.  Of
\* one that is killed after it has found the database the mark stays.
DestroyedIfPersisted ==
  [][crashes = 0 /\ doc.there /\ ~doc'.there => ~found]_vars

\* The listener of a database that stays deleted is destroyed in the end, even if
\* workers are killed on the way.
EventuallyDestroyed == <>[]~exists => <>[]~doc.there
=============================================================================
