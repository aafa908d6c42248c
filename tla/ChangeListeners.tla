--------------------------- MODULE ChangeListeners --------------------------
(***************************************************************************)
(* The change listeners (src/src/change-listeners.js): Process with        *)
(* _process = one batch of changes of the listener's database, and the     *)
(* operation by which the update listeners dirty or create the listeners   *)
(* of the databases that have changed, dirtyIfCleanOrLocked.               *)
(*                                                                         *)
(* There is one listener per database, so an item stands for both.  A      *)
(* listener that is not created yet is in no view and is created by a      *)
(* write that conflicts if another has created it: it is a clean document. *)
(* The changes of a database are numbered; the document's last_seq is the  *)
(* number up to which they are processed, and null is 0.  Which API        *)
(* requests a batch makes is the subject of ChangeProcessor: here they all *)
(* succeed, or one that is awaited at the end of the batch fails (an       *)
(* ApiRequestError caught by _waitForRequests), or the batch throws.       *)
(*                                                                         *)
(* getMergeUpsert is external.  It merges the fields it is given into the  *)
(* latest revision; MergeSkips says whether it writes nothing if the       *)
(* document has these values already.                                      *)
(***************************************************************************)
EXTENDS Process

CONSTANTS
  BatchSize,     \* how many changes a batch has (batchSize)
  BackoffLimit,  \* how often a batch is retried, 0 for ever (backoffLimit)
  MergeSkips,    \* does a merge that changes nothing write no revision?
  BatchFaults,   \* the kinds of fault of a batch that may happen
  MaxChanges     \* bound: how many changes a database has

BatchFaultKinds == {"api",     \* an awaited API request fails
                    "batch",   \* the batch throws, before its last request
                    "advance", \* the update of last_seq fails
                    "retry"}   \* the update that schedules a retry fails

ASSUME ChangeListenersAssumption ==
  /\ BatchSize \in Nat \ {0}
  /\ BackoffLimit \in Nat
  /\ MergeSkips \in BOOLEAN
  /\ BatchFaults \subseteq BatchFaultKinds
  /\ MaxChanges \in Nat

VARIABLES
  newest,     \* per item, the number of the latest change of its database
  last_seq,   \* per item, last_seq of the document
  retries,    \* per item, retries of the document
  relocked,   \* the items whose document has the key locked_at
  handled,    \* per item, the changes processed by requests that succeeded
  failures,   \* per item, how often the changes after last_seq have failed
  work,       \* per worker, its copy of the document and its batch
  updates,    \* per update listener, the items with an update it has not read
  batch,      \* per update listener, the items of its batch
  names,      \* per update listener, the items it has to get
  rows        \* per update listener, the items it has got and not written

listenerVars == <<updates, batch, names, rows>>
seqVars      == <<newest, last_seq, retries, handled, failures>>
vars == <<processVars, newest, last_seq, retries, relocked, handled, failures,
          work, updates, batch, names, rows>>

\* dirty and dirty_at of the document in memory; the batch it has read ends at
\* upTo; leave is what _process returns; step is how far the batch has got.
Work == [dirty : BOOLEAN, delayed : BOOLEAN, unlocks : BOOLEAN,
         since : Nat, upTo : Nat, retries : Nat, leave : BOOLEAN,
         step : {"none", "requests", "advance", "retry", "queue"}]

NoWork == [dirty |-> TRUE, delayed |-> FALSE, unlocks |-> FALSE, since |-> 0,
           upTo |-> 0, retries |-> 0, leave |-> FALSE, step |-> "none"]

BatchFault(kind) == /\ kind \in BatchFaults
                    /\ faults < MaxFaults
                    /\ faults' = faults + 1

Init ==
  /\ docs = [i \in Items |-> [dirty |-> "false", dirty_at |-> "null",
                              locked_at |-> "null"]]
  /\ EngineInit
  /\ newest = [i \in Items |-> 0]
  /\ last_seq = [i \in Items |-> 0]
  /\ retries = [i \in Items |-> 0]
  /\ relocked = {}
  /\ handled = [i \in Items |-> 0]
  /\ failures = [i \in Items |-> 0]
  /\ work = [w \in Workers |-> NoWork]
  /\ updates = [u \in Listeners |-> {}]
  /\ batch = [u \in Listeners |-> {}]
  /\ names = [u \in Listeners |-> {}]
  /\ rows = [u \in Listeners |-> {}]

\* The environment: a database changes, and every update listener hears of it.
Change(i) ==
  /\ newest[i] < MaxChanges
  /\ newest' = [newest EXCEPT ![i] = @ + 1]
  /\ updates' = [u \in Listeners |-> updates[u] \cup {i}]
  /\ UNCHANGED <<processVars, last_seq, retries, relocked, handled, failures,
                 work, batch, names, rows>>

-----------------------------------------------------------------------------
(* The steps of Process.  The worker that locks has the document as it was  *)
(* before: with the key locked_at only if it has been locked before.        *)

Loaded(w) ==
  LET i == item[w]
  IN [NoWork EXCEPT !.delayed = docs[i].dirty_at # "null", !.unlocks = i \in relocked,
                    !.since = last_seq[i], !.retries = retries[i]]

Engine(Step) ==
  /\ Step
  /\ work' = [w \in Workers |-> IF pc'[w] \in {"idle", "got"} THEN NoWork
                                ELSE IF pc[w] = "got" THEN Loaded(w) ELSE work[w]]
  /\ relocked' = relocked \cup {i \in Items : IsLocked(docs'[i])}
  /\ UNCHANGED <<seqVars, listenerVars>>

\* _unlockAndClean writes the document in memory, whose dirty flag the failed
\* scheduling of a retry may have cleared, and clears the retries.
UnlockAndCleanListener(w) ==
  /\ UnlockAndClean(w, work[w].leave /\ work[w].dirty)
  /\ retries' = [retries EXCEPT ![item[w]] = 0]
  /\ work' = [work EXCEPT ![w] = NoWork]
  /\ UNCHANGED <<newest, last_seq, relocked, handled, failures, listenerVars>>

-----------------------------------------------------------------------------
(* _processBatchOfChanges, one request at a time.                           *)

At(w, step) == pc[w] = "processing" /\ work[w].step = step

Smaller(m, n) == IF m < n THEN m ELSE n

Proceed(w, next) ==
  /\ work' = [work EXCEPT ![w] = next]
  /\ UNCHANGED <<relocked, listenerVars>>

\* _process returns to _lockProcessUnlock.
Return(w, leave) ==
  /\ ProcessSucceeds(w)
  /\ Proceed(w, [work[w] EXCEPT !.step = "none", !.leave = leave])

\* _changesForListener: the changes after last_seq, at most batchSize.
ReadChanges(w) ==
  /\ BeginProcess(w)
  /\ LET end == Smaller(work[w].since + BatchSize, newest[item[w]])
     IN Proceed(w, [work[w] EXCEPT !.upTo = end, !.step = "requests"])
  /\ UNCHANGED seqVars

\* The changes up to upTo are done with.
Handled(w) ==
  /\ handled' = [handled EXCEPT ![item[w]] = IF @ < work[w].upTo THEN work[w].upTo ELSE @]
  /\ failures' = [failures EXCEPT ![item[w]] = 0]

\* All requests succeed.  last_seq moves unless the document had a dirty_at.
RequestsSucceed(w) ==
  /\ At(w, "requests")
  /\ Handled(w)
  /\ IF work[w].delayed
       THEN Return(w, FALSE)
       ELSE /\ Proceed(w, [work[w] EXCEPT !.step = "advance"])
            /\ UNCHANGED processVars
  /\ UNCHANGED <<newest, last_seq, retries>>

\* hasReachedRetryLimit.
LimitReached(n) == BackoffLimit # 0 /\ n >= BackoffLimit

\* _scheduleRetry, up to its request: the retry is set up in memory, ...
RequestFails(w) ==
  /\ At(w, "requests")
  /\ work[w].since < work[w].upTo
  /\ BatchFault("api")
  /\ ~LimitReached(work[w].retries)
  /\ failures' = [failures EXCEPT ![item[w]] = @ + 1]
  /\ Proceed(w, [work[w] EXCEPT !.dirty = FALSE, !.delayed = TRUE,
                                !.retries = @ + 1, !.step = "retry"])
  /\ UNCHANGED <<docs, current, feed, soiler, soiling, procVars, workerVars,
                 newest, last_seq, retries, handled>>

\* ... or, at the limit, the batch is given up and last_seq moves past it.
GiveUp(w) ==
  /\ At(w, "requests")
  /\ work[w].since < work[w].upTo
  /\ BatchFault("api")
  /\ LimitReached(work[w].retries)
  /\ Handled(w)
  /\ Proceed(w, [work[w] EXCEPT !.delayed = FALSE, !.retries = 0, !.step = "advance"])
  /\ UNCHANGED <<docs, current, feed, soiler, soiling, procVars, workerVars,
                 newest, last_seq, retries>>

\* _updateLastSeq: merged into the latest revision, which the worker does not
\* keep.  _processBatchOfChangesLogError returns nothing, whether or not there
\* are more changes.
Advance(w) ==
  /\ At(w, "advance")
  /\ last_seq' = [last_seq EXCEPT ![item[w]] = work[w].upTo]
  /\ IF MergeSkips /\ last_seq[item[w]] = work[w].upTo
       THEN UNCHANGED dbVars
       ELSE Store(item[w], docs[item[w]], {})
  /\ pc' = [pc EXCEPT ![w] = "processed"]
  /\ Proceed(w, [work[w] EXCEPT !.step = "none"])
  /\ UNCHANGED <<soiling, procVars, item, faults, newest, retries, handled, failures>>

\* _scheduleRetry merges the whole document in memory into the latest revision.
ScheduleRetry(w) ==
  /\ At(w, "retry")
  /\ LET i == item[w]
         d == SetDirtyAt(docs[i], "false", "later")
     IN /\ Store(i, IF work[w].unlocks THEN SetLockedAt(d, "null") ELSE d, {})
        /\ last_seq' = [last_seq EXCEPT ![i] = work[w].since]
        /\ retries' = [retries EXCEPT ![i] = work[w].retries]
  /\ Proceed(w, [work[w] EXCEPT !.step = "queue"])
  /\ UNCHANGED <<soiling, procVars, workerVars, faults, newest, handled, failures>>

\* Mutant: last_seq is updated whether or not a retry is scheduled.
QueueSoilerThenAdvance(w) ==
  /\ At(w, "queue")
  /\ soiler' = soiler \cup {ProcOf[w]}
  /\ Proceed(w, [work[w] EXCEPT !.step = "advance"])
  /\ UNCHANGED <<docs, current, feed, soiling, procVars, workerVars, faults, seqVars>>

\* The answer has come: _queueSoiler, and the batch is over.
QueueSoiler(w) ==
  /\ At(w, "queue")
  /\ soiler' = soiler \cup {ProcOf[w]}
  /\ pc' = [pc EXCEPT ![w] = "processed"]
  /\ Proceed(w, [work[w] EXCEPT !.step = "none"])
  /\ UNCHANGED <<docs, current, feed, soiling, procVars, item, faults, seqVars>>

\* A request of the batch throws: the error is logged and true returned.  The
\* document in memory stays as it is by now.
BatchThrows(w) ==
  /\ \/ At(w, "requests") /\ BatchFault("batch")
     \/ At(w, "advance") /\ BatchFault("advance")
     \/ At(w, "retry") /\ BatchFault("retry")
  /\ pc' = [pc EXCEPT ![w] = "processed"]
  /\ Proceed(w, [work[w] EXCEPT !.step = "none", !.leave = TRUE])
  /\ UNCHANGED <<dbVars, soiling, procVars, item, seqVars>>

\* The request for the changes finds no database: the one error _process throws.
DatabaseNotFound(w) ==
  /\ At(w, "requests")
  /\ ProcessThrows(w)
  /\ Proceed(w, [work[w] EXCEPT !.step = "none"])
  /\ UNCHANGED seqVars

-----------------------------------------------------------------------------
(* dirtyIfCleanOrLocked of an update listener.                              *)

Hear(u, processed) == UNCHANGED <<processed, seqVars, relocked, work>>

HearUpdates(u) ==
  /\ batch[u] = {}
  /\ \E S \in (SUBSET updates[u]) \ {{}} :
       /\ updates' = [updates EXCEPT ![u] = @ \ S]
       /\ batch' = [batch EXCEPT ![u] = S]
       /\ names' = [names EXCEPT ![u] = S]
  /\ Hear(u, <<processVars, rows>>)

\* Mutant: the locked listeners are left out.
GetCleanOrMissing(u) ==
  /\ names[u] # {} /\ rows[u] = {}
  /\ LET found == {i \in names[u] : docs[i].dirty = "false" /\ ~IsLocked(docs[i])}
     IN /\ rows' = [rows EXCEPT ![u] = found]
        /\ current' = [current EXCEPT ![u] = found]
  /\ names' = [names EXCEPT ![u] = {}]
  /\ Hear(u, <<docs, feed, soiler, soiling, procVars, workerVars, faults, updates, batch>>)

\* _getCleanLockedOrMissing, for the batch or for those that conflicted.
GetCleanLockedOrMissing(u) ==
  /\ names[u] # {} /\ rows[u] = {}
  /\ LET found == {i \in names[u] : docs[i].dirty = "false" \/ IsLocked(docs[i])}
     IN /\ rows' = [rows EXCEPT ![u] = found]
        /\ current' = [current EXCEPT ![u] = found]
  /\ names' = [names EXCEPT ![u] = {}]
  /\ Hear(u, <<docs, feed, soiler, soiling, procVars, workerVars, faults, updates, batch>>)

\* One document of the bulk write of _dirtyOrCreate: it is written, or its name
\* is one of the conflicts.  dirty_at is left as it is.
DirtyOrCreate(u, i) ==
  /\ i \in rows[u]
  /\ rows' = [rows EXCEPT ![u] = @ \ {i}]
  /\ \/ /\ i \in current[u]
        /\ Store(i, SetDirtyAt(docs[i], "true", docs[i].dirty_at), {})
        /\ UNCHANGED names
     \/ /\ i \notin current[u]
        /\ names' = [names EXCEPT ![u] = @ \cup {i}]
        /\ UNCHANGED dbVars
  /\ Hear(u, <<soiling, procVars, workerVars, faults, updates, batch>>)

\* Mutant: dirtyIfCleanOrLocked does not wait for the retry of the conflicts.
DirtyDoneNoWait(u) ==
  /\ batch[u] # {} /\ rows[u] = {}
  /\ batch' = [batch EXCEPT ![u] = {}]
  /\ Hear(u, <<processVars, updates, names, rows>>)

DirtyDone(u) ==
  /\ batch[u] # {} /\ names[u] = {} /\ rows[u] = {}
  /\ batch' = [batch EXCEPT ![u] = {}]
  /\ Hear(u, <<processVars, updates, names, rows>>)

\* An update listener is killed, and starts again from a saved seq before the
\* updates that some listener has not finished with.
CrashListener(u) ==
  /\ Fault("listener")
  /\ \E v \in Listeners, T \in SUBSET Items :
       /\ updates[v] \cup batch[v] \subseteq T
       /\ updates' = [updates EXCEPT ![u] = T]
  /\ batch' = [batch EXCEPT ![u] = {}]
  /\ names' = [names EXCEPT ![u] = {}]
  /\ rows' = [rows EXCEPT ![u] = {}]
  /\ current' = [current EXCEPT ![u] = {}]
  /\ Hear(u, <<docs, feed, soiler, soiling, procVars, workerVars>>)

-----------------------------------------------------------------------------

BatchStep(w) ==
  \/ ReadChanges(w) \/ RequestsSucceed(w) \/ RequestFails(w) \/ GiveUp(w)
  \/ Advance(w) \/ ScheduleRetry(w) \/ QueueSoiler(w)
  \/ BatchThrows(w) \/ DatabaseNotFound(w) \/ UnlockAndCleanListener(w)

ListenerProgress(u) ==
  \/ HearUpdates(u) \/ GetCleanLockedOrMissing(u) \/ DirtyDone(u)
  \/ \E i \in Items : DirtyOrCreate(u, i)

Next ==
  \/ Engine(ProcessStep)
  \/ \E w \in Workers : BatchStep(w)
  \/ \E u \in Listeners : ListenerProgress(u) \/ CrashListener(u)
  \/ \E i \in Items : Change(i)

Spec == Init /\ [][Next]_vars

(* Fairness as in Replicators: every step the code takes by itself is taken *)
(* in the end, no fault, stop or change has to happen, and an ended process *)
(* is started again.                                                       *)

WorkerProgress(w) ==
  \/ Engine(Lock(w) \/ LockConflict(w) \/ UnlockAndCleanConflict(w) \/ UpsertUnlock(w))
  \/ ReadChanges(w) \/ RequestsSucceed(w) \/ Advance(w) \/ ScheduleRetry(w)
  \/ QueueSoiler(w) \/ UnlockAndCleanListener(w)

Fairness ==
  /\ \A w \in Workers : WF_vars(WorkerProgress(w))
  /\ \A p \in Procs :
       /\ WF_vars(Engine(GetLastSeq(p) \/ LoadDirty(p) \/ StartListening(p) \/ Stopped(p)))
       /\ WF_vars(Engine(\E w \in WorkersOf(p), i \in Items : OnDirtyRow(w, i) \/ OnChange(w, i)))
       /\ WF_vars(Engine(ReadStalled(p) \/ \E i \in Items : UnlockStalled(p, i)))
       /\ WF_vars(Engine(SoilPendingItems(p)))
       /\ WF_vars(Engine(\E i \in Items : SoilItem(p, i)))
  /\ \A i \in Items : /\ WF_vars(Engine(OrphanLockStalls(i)))
                      /\ WF_vars(Engine(DirtyAtComes(i)))
  /\ \A u \in Listeners : WF_vars(ListenerProgress(u))

FairSpec == Spec /\ Fairness

-----------------------------------------------------------------------------
(* Properties.                                                             *)

\* The type invariant: of the engine, of the seqs, and of a batch, whose steps
\* are those of a worker that is processing.
TypeOK ==
  /\ ProcessTypeOK
  /\ newest \in [Items -> 0..MaxChanges]
  /\ last_seq \in [Items -> 0..MaxChanges]
  /\ retries \in [Items -> Nat]
  /\ relocked \in SUBSET Items
  /\ handled \in [Items -> 0..MaxChanges]
  /\ failures \in [Items -> Nat]
  /\ work \in [Workers -> Work]
  /\ updates \in [Listeners -> SUBSET Items]
  /\ batch \in [Listeners -> SUBSET Items]
  /\ names \in [Listeners -> SUBSET Items]
  /\ rows \in [Listeners -> SUBSET Items]
  /\ \A i \in Items : handled[i] <= newest[i]
  /\ \A w \in Workers : /\ pc[w] = "processing" <=> work[w].step # "none"
                        /\ pc[w] \in {"idle", "got"} => work[w] = NoWork
                        /\ pc[w] = "processing" => work[w].upTo <= newest[item[w]]
  /\ \A u \in Listeners : names[u] \cup rows[u] \subseteq batch[u]

\* "Save the lastSeq as we want our next batch to resume from where we left off"
\* (_processBatchOfChanges): no next batch, of whatever process, resumes after a
\* change whose requests have not succeeded or been given up.
NothingSkipped ==
  /\ \A i \in Items : last_seq[i] <= handled[i]
  /\ \A w \in Workers : pc[w] # "idle" => work[w].since <= handled[item[w]]

Behind == {i \in Items : handled[i] < newest[i]}

\* Update listener u has not finished with the updates of item i.
Unresolved(u, i) == i \in updates[u] \cup names[u] \cup rows[u]

\* "Are there more batches to process? If there are then we will leave this
\* ChangeListener dirty" (_processBatchOfChanges), and a re-dirtied listener
\* too: as soon as one update listener has finished with a change, the listener
\* is dirty, or to be soiled, until the change is processed.
NoChangeForgotten ==
  \A i \in Behind : Marked(docs[i]) \/ \A u \in Listeners : Unresolved(u, i)

\* "If an API request fails with a non-200 status code, it will be retried until
\* it succeeds" (DESIGN.md): every change is processed in the end.
EventuallyHandled == \A i \in Items : i \in Behind ~> i \notin Behind

\* "Attempt to clean and unlock change_listener" (DESIGN.md): once the databases
\* are quiet the listeners are clean and no process reads their changes again.
ComesToRest ==
  <>[](\A i \in Items : docs[i].dirty = "false" /\ docs[i].dirty_at = "null"
                        /\ ~IsLocked(docs[i]))

\* A batch that is given up has failed, and been retried, BackoffLimit times
\* before ("The maximum number of retries to make"): the document does not count
\* failures of other batches.
RetriesAreOfThisBatch == \A i \in Items : retries[i] <= failures[i]

-----------------------------------------------------------------------------
(* The change listeners follow the dirty-mark discipline of DirtyMarks.     *)

Marks == INSTANCE DirtyMarks WITH
  owed <- Behind,
  marked <- {i \in Items : Marked(docs[i])},
  heard <- {i \in Items : \E u \in Listeners : i \notin updates[u] \cup batch[u]}

\* Every step of a worker, an update listener, an unstaller or a soiler is a step
\* of the discipline: no mark is cleared while a change that was heard is owed.
ImplementsDirtyMarks == Marks!Spec

\* The interface to the update listeners, as that of Replicators.
Feed == INSTANCE UpdateFeed WITH
  DBs <- Items,
  owed <- {i \in Behind : ~Marked(docs[i])},
  open <- [u \in Listeners |-> updates[u] \cup batch[u]]

\* An update listener finishes with a batch only when the change listeners of its
\* databases are marked, those that it had to create and those whose dirtying
\* conflicted included, and a worker that cleans one before has left it to all.
ImplementsUpdateFeed == Feed!Spec
=============================================================================
