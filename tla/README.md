# A verification project for Spiegel

Spiegel provides scalable replication and change listening for CouchDB. A handful of Node.js
processes, any number of instances of each, coordinate through documents of one CouchDB database:
*update listeners* hear which databases changed and **dirty** the replicators and change listeners
of these databases; *replicator* and *change-listener* processes **lock**, **process** and
**unlock and clean** the dirty documents. Nothing else synchronises them: there is no queue and no
leader, only the flags `dirty`, `dirty_at`, `locked_at` of a document and the rule that CouchDB
rejects an update that does not name the latest revision.

This directory holds TLA+ modules translated from the source, TLC configurations that check them on
small instances, and TLAPS proofs of the central properties for instances of every size.
`PROJECT.json` maps each definition to the lines it stands for.

    tlc -workers 2 -config replicated.cfg MCReplicators.tla
    tlapm ReplicatorsProofs.tla

Contents: 1 the system, 2 the plan and what is left of it, 3 the modules, 4 the runs,
5 where code and documentation part, 6 the proofs, 7 what is not modelled.

## 1. Inventory

File names are relative to `src/src/`.

| Component | State it keeps | Operations | Talks to |
|---|---|---|---|
| **Process engine** (`process.js`), the base class of replicators and change listeners | per document `dirty`, `dirty_at`, `locked_at`, `possibly_deleted_at`; per process the throttler's slots, two change iterators, the unstaller's interval, the soiler's timer and time | `start`: `_getLastSeq`, `_processAllDirtyAndUnlocked`, `_listen`, `_startUnstaller`, `_queueSoiler`; per document `_lockProcessUnlock` = `_lock`, `_process`, `_unlockAndClean` or `_upsertUnlock`; `_unlockStalled`; `_soilPendingItems`; `_resolveConflicts`; `_getAndDestroy`; `stop` | CouchDB views, `_changes` feed, MVCC |
| **Replicators** (`replicators.js`) | replicator documents | `dirtyIfCleanOrLocked` (get, bulk dirty, retry conflicts, queue the soiler), `_process` = one one-shot replication | called by update listeners; derived from the engine |
| **Update listeners** (`update-listeners.js`, with the `Synchronizer` of squadron) | `_lastSeq`, `_updatedDBs`, `_updateCount`, the batch timer; the shared document `lastSeq` (`globals.js`) | `start`, `_onUpdate`, `_processBatch`, `_replicatorsDirtyIfCleanOrLocked`, `_matchAndDirtyFiltered`, `_saveLastSeq`, `stop` | `_global_changes`, replicators, change listeners, OnChanges |
| **Change listeners** (`change-listeners.js`, `backoff.js`) | `last_seq`, `retries` of the document | `dirtyIfCleanOrLocked`, which creates listeners on demand; `_process`: read a batch of changes, call, `_updateLastSeq` or `_scheduleRetry` | change processor, OnChanges, engine |
| **Change processor** (`change-processor.js`) | the requests of one batch, the Debouncer's queue | a request per matching rule: blocking or not, debounced or not | HTTP APIs |
| **OnChanges** (`on-changes.js`) | an in-memory PouchDB copy of the `on_change` documents, and `_docs` | load, follow, match by database and by document | update listeners, change listeners |
| **Spiegel** (`spiegel.js`, `bin/cmd.js`) | none | start or stop the component of this process's type | all |
| Passwords, utilities, logging, configuration, design documents | none | pure functions and installation | all |

The hard behaviours, and the properties that make each component correct:

* **Two writers of one flag.** A listener dirties a document before, during or after any request of
  the worker that is about to lock or clean it. *No update is lost*: from the moment a listener has
  finished with an update, the document stays marked until its changes have been dealt with by work
  that began after the update. (`NoLostUpdate`, `CleanIsJustified`, `NoChangeForgotten`,
  `ImplementsDirtyMarks`)
* **A lock that lives in a document.** It is taken by an update that may conflict, or succeed
  without its answer; its holder may be killed; an unstaller of any process may release it. *Two
  workers never process the same document at once*, if no action outlives `retryAfterSeconds`, and
  every abandoned lock is released and its work redone. (`MutualExclusion`, `LockInv`,
  `EventuallyReplicated`)
* **Start order.** The last seq is read, then the view of dirty documents, then the feed: an item
  dirtied in between must be in one of the two. (`EventuallyReplicated`)
* **Delays.** `dirty_at` is turned into `dirty` by a single timer per process, whose arithmetic mixes
  numbers and strings and wraps at 32 bits. *No item is forgotten, and none whose time fits is
  late.* (`EventuallyHandled`, `NeverLate`, `NeverForgotten`, `EventuallySoiled`)
* **Batches and the shared lastSeq.** Several listeners read the same feed and overwrite the same
  saved seq; a batch fails halfway; a listener is killed between dirtying and saving. *Nobody reads
  or saves past an update whose items are not dirtied.* (`NothingSkipped` of `UpdateListeners`,
  `NoUpdateLost`, `EventuallyDirtied`, and `ImplementsUpdateFeed` of all three)
* **last_seq of a change listener.** A batch calls many APIs, some in parallel, some one after the
  other, some debounced; any call fails; the process dies at any point; retries are delayed and
  limited. *`last_seq` passes no change that a rule has not been served for.* (`NothingSkipped` of
  `ChangeListeners`, `ServedBeforeSeq`, `InOrder`, `EventuallyHandled`, `EventuallyServed`)
* **A cache that is loaded and followed at once.** *It is complete when it is first used, follows the
  rules as they are edited, and never goes back.* (`LoadedIsComplete`, `NeverBack`, `CacheFollows`,
  `MatchedAsWritten`)
* **A database that goes away, and perhaps comes back.** *Its listener is destroyed if and only if it
  stays away, and nothing else forgets a change.* (`DestroyedIfPersisted`, `OnlyDestroyForgets`,
  `EventuallyDestroyed`)
* **Nodes of a cluster.** Conflicting revisions of one document, resolved by several workers at once.
  *None is left locked or dirty for ever, and the document is not destroyed with its conflicts.*
  (`NothingStuck`, `WinnerSurvives`)
* **Coming to rest.** Conflicts are retried and documents left dirty: when the databases are quiet
  the system must be too. (`Quiescence`)

`PROJECT.json` lists 40 hazards at their lines, each with the properties that would catch it going
wrong. One, that a batch whose blocking request fails is begun again without a pause, has only a
note: the property is stated (`BacksOff`) and the code does not satisfy it (section 5).

## 2. The plan

1. `Process`: the engine, as actions without a `Next`. **done**
2. `Replicators` EXTENDS `Process`: completes it; environment = databases that change. **done**
3. `DirtyMarks`: the abstract specification both kinds of item implement. **done**
4. `UpdateListeners`: batches and seqs, with dirtying as one step. **done**
5. Proofs of 1 to 4. **done for the safety properties**
6. `ChangeListeners` EXTENDS `Process`: batches of changes, retries, creation on demand. **done**
7. `ChangeProcessor`: blocking, debounced and concurrent requests of a batch. **done**
8. `Soiler`: the arithmetic of `_queueSoiler`. **done**
9. `OnChanges`: the cache, and the matching it is for. **done**
10. `NodeConflicts` and `Deletion`: `_resolveConflicts`, `_getAndDestroy`. **done**
11. Proofs of 6 to 9 and of `Deletion`. **done for every safety property of their runs**
12. `UpdateFeed`: the interface of the update listeners and the items they dirty as one abstract
    specification. **done, and proved of both sides**: `UpdateListeners` implements it with dirtying as
    one step, `Replicators` and `ChangeListeners` with the protocol that dirtying is. A product of the
    modules, in which all three step together, is not checked.
13. `NoChangeForgotten` and `ImplementsDirtyMarks` of the change listeners, proved as those of the
    replicators are. **done, also with failing requests where a retried batch is the last**
14. `NodeConflicts`: an inductive invariant for its tree of revisions, and with it that resolving
    conflicts never destroys the document. **done**; `NothingStuck` is a liveness property and stays with
    TLC.

## 3. The modules

### Process

State | Code
---|---
`docs` | latest revision of each document: `dirty` (`"undefined"` until first written), `dirty_at`, `locked_at`
`current[h]` | the items whose latest `_rev` the holder `h` has in memory; an update of another item is a conflict (409)
`feed[p]` | the items with a change that process `p` has not read
`soiler`, `soiling` | the timer of `_queueSoiler`; the due rows that `_soilPendingItems` has read and not written
`phase[p]` | `down`, `loading` (`_getLastSeq` has answered), `draining` (rows of `dirty_and_unlocked` are handed out), `listening`, `stopping`
`todo[p]`, `stalled[p]` | unread rows of the dirty view, and of the unstaller's
`pc[w]`, `item[w]` | a slot of the throttler and its place in `_lockProcessUnlock`

There is one action per request, because two processes interleave at every `await` of a request and
nowhere else: JavaScript between two awaits is atomic, and so is a write of one CouchDB document. A
request that fails is an action of its own, in two forms where the code cannot tell them apart:
written but the answer lost (`LockAnswerLost`), and not written (`LockRequestLost`).

Data is abstracted to what the code tests. A timestamp is its age: `locked_at` is `recent` or
`stalled`, `dirty_at` is `later` or `due`; time passes as the actions `OrphanLockStalls`,
`SlowLockStalls`, `DirtyAtComes`. The feed is a set because CouchDB reports a document once, as it
is when read. A change of a clean or locked document has no effect in the code, and the model leaves
it unread until a later write makes it interesting, which saves states and no behaviour. The
throttler's waiting is that an item can only be handed to an idle worker.

`Process` is an abstract class in the code and has no `Next` here: `ProcessStep` is what it does by
itself, and a module that EXTENDS it supplies `_process`.

External, modelled from how the code uses it: CouchDB's MVCC (`Store`), the `_changes` feed, views.
`LiveDirtyAtView` is the one fact about CouchDB the code leaves open: `_listenToDirtyAtChanges`
follows a *view* with `feed: continuous`; `TRUE` means such a feed reports updates, as the code
expects, and `FALSE` that it does not.

### Replicators

Adds the environment (`behind`: replicators whose source has changes no replication has taken;
`Change`), `_process` (`BeginReplication`, `ReplicationDone`, `ReplicationFails`; `covers[w]` says
whether the replication under way includes every change, that is, began after the last), and
`dirtyIfCleanOrLocked` of every listener `u`: `GetCleanOrLocked` is the bulk get, `Dirty(u, i)` one
document of the bulk write (CouchDB applies or rejects each by itself, so other requests interleave),
`RetryConflicted` the recursion for the conflicted names, `DirtyDone` the queueing of the soiler. A
listener is killed with `CrashListener` and starts again where the shared saved lastSeq says, which
is not after any update it has not finished with.

### ChangeListeners

The same engine with `_process` = one batch. The changes of a database are numbered, and `last_seq`
is the number processed so far. `work[w]` is what the worker has in memory: the fields of its copy of
the document that matter (`since`, `delayed`, `dirty`, `retries`, whether the copy has a `locked_at`
key) and how far the batch is: `ReadChanges`, `RequestsSucceed` or `RequestFails` or `GiveUp` (the
limit), then `Advance` (`_updateLastSeq`) or `ScheduleRetry` and `QueueSoiler`, or `BatchThrows`; then
the engine's `_unlockAndClean`. `Advance` and `ScheduleRetry` are merges into the latest revision
(`getMergeUpsert`), whose new revision the worker does not learn, which is why the clean after them
conflicts. `MergeSkips` is the one open fact about that library: whether a merge that changes nothing
writes a revision. `DirtyOrCreate` is the bulk write of the update listeners, which also creates. Which
requests a batch makes is the next module's subject.

### ChangeProcessor

One listener, its batches, and the life of every request: `array` is the array of promises handed
down, `flight` the requests without an answer, `queue` those the Debouncer holds back, `awaits` the
promises awaited now, `watched` those whose rejection somebody handles. `MakeRequests` is all rules of
one change, `NextChange` the chain of `_processChanges`, `AwaitedSucceed` and `AwaitedFails` are
`_waitForRequests`. `served` remembers for whom a request has succeeded. A batch may be over while its
requests are still in flight, as in the code, and the next one begins among them.

### Soiler

`_queueSoiler` and the passes over the `dirty_at` view with real numbers: `Int32` is `delay | 0`,
`Earlier` the comparison of a number or a string with `_soilerTime`. A time too far ahead or past, or
the number 0, may leave the single timer armed for too late a time. What is in danger then are the items
that are there; the next pass reads all of them, and so do the calls after a start. So the history
variable `exact` says whether all that the soiler was queued for since the timer last fired fits:
`NeverLate` holds while it does, `NeverForgotten` and `EventuallySoiled` always. `Process` assumes of its
soiler what is shown here for times that fit.

### OnChanges

The cache (`db` is the PouchDB copy, `docs` is `_docs`), the events of the live replication (`OnChange`,
`CaughtUp`, `RequestFails`, `OnError`), `_loadAllDocs` in its two steps, and the process around it, from
the check that spiegel is installed to SIGINT. `MatchWithDBNames` and `GetMatchingOnChanges` are what
it is used for; a regular expression is the set of strings that it matches.

### NodeConflicts

One document on a cluster: a tree of revisions, of which each node knows some; `Winner` is CouchDB's
choice. A worker talks to `NodeOf[w]`. `_resolveConflicts`, its `_destroyConflicts` and
`_upsertUnlockAndDirtyIfLocked` are the part of the engine that `Process`, on one node, has no use for.
A worker destroys what it read as conflicts of the winner it saw, while other workers, on nodes with
other winners, do the same: `WinnerSurvives` says that the best revision that there is outlives them all.

### Deletion

One listener whose database is deleted and created again: a not-found error either sets
`possibly_deleted_at` (`UpsertUnlockPossiblyDeleted`) or, if that is old enough, leads to `Get` and
`Destroy`. The unstaller, the update listener and other workers act on the same document meanwhile.

### DirtyMarks

What the protocol promises, without locks, revisions, processes or listeners: an item is *owed*,
*marked*, and its changes *heard* or not. A mark may be cleared only if nothing heard is owed; who
reports a change as heard must have marked the item. `Replicators` implements it with
`owed <- behind`, `marked <- {i : Marked(docs[i])}`, `heard <- {i : a listener has finished with
every update of i's source}`; `ChangeListeners` with `owed <- {i : handled[i] < newest[i]}`.

### UpdateFeed

The seam between the modules, without batches, seqs, requests, locks or revisions: `owed` is the set of
databases with an update for which an item is not dirtied, `open[u]` those with an update that listener
`u` has not finished with. A listener finishes only with what is dirtied; a mark may go only while
*every* listener has still to set it; a listener that starts again has open at least what some listener
has. So `owed` is in `open[u]` for whatever `u` (`OwedIsOpen`).

Module | `owed` | `open[u]`
---|---|---
`UpdateListeners`, twice: for replicators and for change listeners | updates the item type is not dirtied for | updates after the seq `u` has read, and those of its batch (after the saved seq while `u` is down)
`Replicators` | sources of items that are behind and not marked | `updates[u] \cup batch[u]`
`ChangeListeners` | items that are behind and not marked | `updates[u] \cup batch[u]`

`UpdateListeners` takes one step for what is a protocol of requests in the other two, and they take sets
for what are batches and seqs there; that each is faithful to the same four actions is what makes the one
an abstraction of the other. In particular the `CrashListener` of `Replicators` and `ChangeListeners`,
which resumes from a seq saved by whichever listener, is what the shared lastSeq is shown to give.

### UpdateListeners

One listener is a small state machine around the `Synchronizer`: `OnUpdate` reads the next change,
`DirtyReplicators`, `DirtyChangeListeners`, `SaveLastSeq` are the awaits of
`_processBatchUnsynchronized`, `caller` says whether `_onUpdate` or the batch timer waits for it, and
`expired` that a timed-out batch waits for the synchronizer. `_global_changes` has one document per
database, so `updateSeq` holds one seq per database and `NextUpdate` picks the lowest unread.
`DirtyReplicators` and `DirtyChangeListeners` are atomic here, their inside is in `Replicators` and
`ChangeListeners`; the save is nondeterministic (every `saveSeqAfterSeconds`).

`NodeExits`, here and in `ChangeProcessor`, is the version of node: from 15 on an unhandled rejection
ends the process, before it was a warning.

## 4. The runs

Run | Instance | Shows
---|---|---
`replicated_in_the_end` | 1 replicator, 2 processes of 1 worker, 1 listener, 2 changes, 2 faults (any but slow, soil and lock requests) | one holder of the lock, `LockInv` (the inductive invariant of the proof); every change is replicated and the system comes to rest
`marks_refinement` | 2 replicators of one source, one delayed; 1 worker, 2 listeners; one fault of any kind | no update is lost, no clean hides one, and every step is one of `DirtyMarks` and of `UpdateFeed`
`batches_safety` | 2 databases, 2 listeners, batches of 2, 4 updates, 2 faults, node before 15 | nobody reads or saves past an update that is not dirtied; every step is one of `UpdateFeed`
`batches_liveness` | the same, 3 updates, one crash, failed request or stop, node 15 | no update is lost and every one dirties its items
`batch_faults` | 1 listener, 2 processes, batches of 1, 2 changes, a limit of 1 retry, 2 faults of any kind but a failing update of `_lock` | `last_seq` passes no change that is not done with
`batch_handled` | 1 process of 2 workers, batches of 2, no limit, 2 faults | the listener stays marked, follows `DirtyMarks` and `UpdateFeed`, and every change is processed, through retries, soiler and crashes
`more_batches` | 1 worker, batches of 1, 2 changes, one failing API request | **violated**, section 5
`requests` | 3 rules (blocking and debounced with a variable in its URL, blocking, neither), 3 changes in batches of 2, 3 faults | no change is passed that a rule is not served for, blocking requests go one after the other, all are served in the end
`soiler` | times 1 to 4 with `delay \| 0` on a word of 2 bits, the number 0 asked for, 1 restart | the timer is in time for what fits, no item is left without it, and every item is soiled whatever wraps
`rules` | 2 rules, each written, destroyed and written anew; 2 faults | the cache is complete when loaded, never goes back, follows, and matches as the rules are written
`cluster` | 2 nodes, a worker on one and the listener on the other, 2 changes, two hashes | no item stays locked or dirty; the best revision survives
`deleted` | 2 workers, 2 creations, 1 change, 1 crash | the listener is destroyed when and only when it may be, and nothing else forgets a change

**Bounds.** `MaxChanges`, `MaxUpdates`, `MaxCreated`, `MaxCrashes`, `MaxRestarts`, `MaxRev`, `MaxTime` and
`MaxFaults` are the only bounds, each in one guard. Two changes are enough for one before and one
during a piece of work; two processes with one worker each are the smallest instance with two
unstallers, two holders of a revision and two feeds; two update listeners give conflicts on the
dirtying side; two replicators of one source give a bulk write of which one half conflicts. Two
faults let a second process crash while it repairs the first crash. A batch of two is the smallest
one a timer can interrupt; three changes in batches of two give a full batch, a partial one, and
requests of the first in flight during the second. Three revisions are the fewest with a rule that
is destroyed and written anew. On a word of 2 bits a delay of -2 to 1 fits: with times from 1 to 4
some are in range, some wrap ahead and fire at once, again and again, and some wrap when they are past
and fire late. The clock goes on beyond 4 while a timer is armed.

Safety does not depend on these numbers where there is a proof: it is for all of them.

**Deadlock** is not checked: when the databases no longer change and all is done, the system has
nothing to do, and `Quiescence`, `NothingStuck` and the other liveness properties require that it
gets there.

**Fairness.** Weak fairness of: each worker's next request, each process's start, end, delivery from
view or feed and unstaller, each soiler, each listener's next step, answers, node replication, and the
passing of time. The event loop runs every callback and each request answers; the README says that
"Docker will take care of automatically restarting the processes" (`src/README.md:28`), which is the
fairness of starting. No fault, no stop and no change of a database, a rule or an API is fair. A
worker's fairness is on all its requests together since exactly one is enabled. Nothing is strongly
fair.

Three temporal properties have hypotheses in their run, for reasons of section 5: `Quiescence` is
checked without slow replications, `EventuallyHandled` with a view that reports updates and, like
`EventuallyReplicated`, without a failing update of `_lock`, and `NothingStuck` with the worker on one
node.

## 5. Where code and documentation part

One run is expected to find a violation:

* `more_batches`, `NoChangeForgotten` of the change listeners. `change-listeners.js:322` says "Are there
  more batches to process? If there are then we will leave this ChangeListener dirty", but
  `_processBatchOfChangesLogError` (line 329) does not return what says so: a batch that does not throw
  always ends in a clean. Mostly the clean conflicts with the `_updateLastSeq` just made (line 317), so
  that the listener is processed again, and the two make up for each other. They do not for a listener
  with a `dirty_at`, that is, one re-dirtied while its retry was scheduled: its `last_seq` is not
  updated, the clean succeeds, and the changes after the batch are unread until the database
  changes again. One worker and one failing API request are enough. In `batch_handled` a batch holds
  all changes, and the property holds.

The other limits below were met while modelling. Each can be reproduced with the constants named; the
runs above avoid them by these constants, and the proofs by their hypotheses.

Engine:
* `process.js:260`: if the update of `_lock` fails without being applied, the item is dirty, unlocked,
  and its change has been read: until a process starts or the item is dirtied anew nobody tries it again,
  although line 393 says it will be retried. (`"lockRequest"` in `Faults`; safety holds, liveness does
  not.)
* `process.js:601`, `594`: `delay | 0` wraps, so a delay of more than 24.8 days fires early or at once, and
  one of the epoch, which `Replicators` asks for with `_queueSoiler(0)`, has any length, as has that of an
  item which is overdue by more than 24.8 days; and `0 < "2019-..."` is false, so that this call does
  nothing if a later time is armed. An item may be soiled late by it, by up to 24.8 days for each call.
  (`NeverLate` without `exact` fails in `soiler`; that the item is found in the end is
  `NeverForgotten` and `EventuallySoiled`.)
* `replicators.js:167` with `process.js:570`: a replicator with `dirty_after_milliseconds` that is
  re-dirtied while locked keeps a `dirty_at` for which no timer is armed, as the soiler queued by the
  listener runs while the item is not in its view. With `LiveDirtyAtView` it is found.
* `process.js:279`, `188`: on a cluster a losing revision may carry the only mark of a change that the
  winner's worker has not seen, and is destroyed; and two workers on two nodes both get the lock.
  (`EventuallyProcessed`, and `MutualExclusion` with `NodeOf <- OnTwo`, in `NodeConflicts`.)
* `process.js:343`: a database deleted and created again while `_getAndDestroy` is between its requests
  loses the change with its listener if the update was handled before; `process.js:252`: a worker killed
  after it has found the database leaves `possibly_deleted_at` in place, so that the next not-found
  error may destroy at once. (The hypothesis `crashes = 0` of `DestroyedIfPersisted`.)
* With slow replications two workers can go on releasing each other's lock: `MutualExclusion` fails and
  `Quiescence` may, as the WARNING of the constructor says (`process.js:23-26`).

Update listeners:
* `update-listeners.js:291`: `stop()` saves the seq "so that we don't lose our place", and that seq
  includes the updates of a batch that may still fail. (`"stop"` and two faults. It takes both: stops
  alone, any number of them, lose nothing, nor does any one fault, as `StopAloneIsHarmless` and
  `OneFaultIsHarmless` prove.)
* `update-listeners.js:86`: if the timer's batch fails and node does not end the process, no timer runs
  for what is kept. (`NodeExits = FALSE`; lines 22-23 promise the batch "regardless of whether there are
  any more updates".)
* `update-listeners.js:92`: rules are matched with the URL-safe name of a database; the listener
  created for it keeps that name, so that a `db_name` with a slash never matches. (Names have no such
  characters in `OnChanges`.)

Change listeners and their requests:
* `change-listeners.js:267`: `process.js:186` says "we only want one process to hold the lock at any given
  time". `_scheduleRetry` merges the document in memory, which is the one received before `_lock`; after
  the first unlock of a listener that copy holds `locked_at: null`, so that scheduling a retry unlocks
  it. A listener that is re-dirtied then is handed to a second worker while the first has its unlock
  still to write, which releases the second's lock. (`batch_handled` with 2 processes and
  `MutualExclusion`.) It is why `OneHolder` of `ChangeListenersProofs` has the hypothesis
  `"api" \notin BatchFaults`; no change is lost by it alone (`batch_handled`), only together with a batch
  that has more to come (`more_batches`).
* `change-listeners.js:317`: the update of `last_seq` makes the clean conflict, so that a batch which
  moves `last_seq` never cleans its listener: a further, empty one does, if a merge that changes nothing
  writes no revision (`MergeSkips`), and with failing requests two workers may keep each other from
  resting (`ComesToRest`).
* `change-listeners.js:263`, `267`: if the update that schedules a retry fails, the document in memory
  already has `dirty = false`, and the unlock may write it: the changes wait for the next update.
  (`"retry"` in `BatchFaults`; `NoChangeForgotten` fails.)
* `change-listeners.js:317`: `retries` is reset by the clean, which conflicts: a later batch starts
  with the retries of an earlier one and is given up earlier. (`RetriesAreOfThisBatch`.)
* `change-processor.js:157`: a debounced request that is queued pushes itself on the array after
  `Promise.all` has read it, so that `last_seq` may pass it; line 156: requests that differ by a variable
  of the URL count as duplicates. Both need a debounced rule that does not block (`DebouncedBlock`, that
  there is none, is the hypothesis of the proof), and the second a URL with a variable.
* `change-processor.js:190`: "block=true|undefined" is documented (`src/DESIGN.md`), `undefined` does not
  block. Line 203: a parallel request of another rule is overtaken by the retry of the batch.
  `change-listeners.js:335`: a blocking request that fails is retried at once and for ever, without
  backoff or limit. (`BacksOff`.)

Rules:
* `on-changes.js:137`: the first `paused` is taken for the end of the load; PouchDB also emits it when a
  request fails. (`"early"` in `Faults`; `LoadedIsComplete` fails.)
* `on-changes.js:217`: a missing property is tested as the string `undefined`, a null one as `null`.
  (A condition whose set has `"undefined"`; `MatchedAsWritten` fails.)
* `on-changes.js:141`, `159`: an error ends the replication for good and is only logged, so that the
  process keeps the rules it has, which `CacheFollows` therefore excuses; and `stop()` then waits for a
  'complete' that does not come, until the process is killed.

Outside the models: `password-injector.js` drops the query of a URL to which it adds a password.

## 6. The proofs

All theorems hold for any sets of items, processes, workers, listeners, databases and rules, every set of
faults unless stated, and every bound. They assume only the named ASSUMEs of the modules: the types of
the constants, and that workers, processes and listeners are different things.

* `ProcessProofs` proves about the engine alone, so that replicators and change listeners share it:
  `ProcessStepTyped`, `ProcessStepKeepsLock` (a step without "slow" keeps `LockInv`),
  `ProcessStepEffect` (what a step may do to marks, revisions and locks) and `ProcessStepKeepsDirty`
  (what a worker or a process has received or locked is dirty in its latest revision, if that is the one
  it has: `HolderSeesDirty`).
* `ReplicatorsProofs`:
  * `TypeCorrect`.
  * `LockIsSound` and `OneHolder` - `"slow" \notin Faults /\ Spec => []MutualExclusion`.
    `MutualExclusion` is not inductive: a worker that is about to lock might do so with a revision that
    is current and locked. `LockInv` adds that a held lock is in the database and recent (`LockIsKept`),
    that a row or change in hand, if still the latest revision, is unlocked (`ReceivedIsUnlocked`), that
    an unstaller's row, if still the latest, has stalled (`StalledIsStalled`), and that rows belong to
    their phase.
  * `UpdatesAreKept`, `CleansAreJustified` - `Spec => []NoLostUpdate`, with every fault, slow replications
    included. The invariant is `KeptInv`: `TypeOK`, `HolderSeesLock` (a worker with the latest revision
    of the item it locked has its lock in it, so that a listener's view still shows the item),
    `CleanIsJustified` (a clean that will succeed hides nothing) and `NoLostUpdate`. It needs no mutual
    exclusion, which is why an item that two workers process still loses nothing.
  * `MarksAreDisciplined` - `Spec => ImplementsDirtyMarks`: every step maps to a step of `DirtyMarks` or
    a stutter, from `KeptInv`. `MarksSuffice` shows that the discipline is enough: an item that is
    owed a change that was heard is marked.
  * `DirtyingIsOfFeed` - `Spec => ImplementsUpdateFeed`, from `KeptInv` again: `NoLostUpdate` makes the
    end of a batch a `Finish`, `CleanIsJustified` makes a clean an `Update` that changes no `open`.
* `UpdateListenersProofs`: `FeedTyped`; `SeqsSkipNothing` and `UpdatesAreRead`, by
  `TypeOK /\ NothingSkipped /\ ReplicatorsFirst`, if no listener is stopped (section 5).
  * `FeedIsImplemented` - under the same hypothesis `Spec => ImplementsUpdateFeed`, for both types of
    items. The invariant adds `SavedIsBehind`: the saved seq is not after what some running listener has
    open, so that one that starts there satisfies `Restart`. `FeedSuffices` draws the consequence:
    `ImplementsUpdateFeed` implies that what is owed is open to every listener.
  * `StopAloneIsHarmless` and `OneFaultIsHarmless` - `Spec => []NoUpdateLost` if `Faults \subseteq {"stop"}`,
    and if `MaxFaults <= 1`: what is left when the hypothesis "no stop" is dropped. A stopped listener
    waits for its batch, so its updates are dirtied unless a request of that batch fails: every update
    that is not dirtied is in a batch or unread (`BatchedOrUnread`), and a batch has a timer, a caller or
    a processing that will take it (`BatchIsTimed`). Two faults, a stop and a failure, are the
    counterexample of section 5, so the two theorems are as far as it goes.
* `ChangeListenersProofs`: `TypeCorrect`; `SeqsSkipNothing` - `last_seq` never passes a change that is
  not done with, under every fault. The invariant `SeqInv` adds that each worker's copy starts at or
  before what is handled, and that a batch about to advance ends there. `OneHolder` reuses
  `ProcessStepKeepsLock`; its hypotheses are that nothing outlives `retryAfterSeconds` and that no
  retry is scheduled (`NoRetry` is the invariant the second gives).
  No change is forgotten, and the dirty-mark discipline and the feed are implemented, under every fault, slow actions,
  killed processes and throwing batches included, in two cases:
  * `ChangesAreKept`, `MarksAreDisciplined` and `DirtyingIsOfFeed`, if no awaited API request fails:
    `Spec => []NoChangeForgotten`, `Spec => ImplementsDirtyMarks` and `Spec => ImplementsUpdateFeed`.
  * `ChangesAreKeptByRetries`, `RetriesAreDisciplined` and `RetriesAreOfFeed`, with failing requests, retries and their limit:
    `Spec /\ []RetriesAreWhole` implies the same, if the update that schedules a retry does not fail.
    `RetriesAreWhole` says that a document with a `dirty_at` has no more changes than one batch reads.
    The code does nothing to see to it, and both hypotheses are needed: `more_batches` is the
    counterexample without the first, and with `"retry"` in `BatchFaults` TLC finds one without the second.

  The invariant of all six is `MarkInv`, inductive under `RetriesAreWhole` and `RetriesAreWritten`, which
  hold without a hypothesis if no request fails (`NothingIsRetried`: no document ever has a `dirty_at`).
  Beside `Inv` it has: what the copy in memory says of the dirty flag (`MemoryKept`); that a worker with
  the latest revision of what it locked knows the `last_seq` and the `dirty_at` that are there now
  (`WorkSeen`), so that an `_updateLastSeq` that moves `last_seq`, and every `_scheduleRetry`, takes the
  revision from its worker; that such a worker's document is dirty (`HolderSeesDirty`), so that one left
  dirty stays marked; and that its batch has still to read, has read all there is, will move `last_seq`
  or schedule a retry, or has failed (`Harmless`), unless all update listeners have still to deal with the
  change (`CleanHidesNothing`). This is the argument that makes up for the return value lost at
  `change-listeners.js:329`, and `RetriesAreWhole` is exactly the case in which it fails.
* `ChangeProcessorProofs`: `AllServedBeforeSeq` - `DebouncedBlock` (a debounced rule blocks) and `Spec`
  imply `[]ServedBeforeSeq`. The parts of the invariant: the Debouncer runs one request of a rule and
  queues one (`OneRuns`); a regular rule is served or its request is in the array that will be awaited
  (`RegularInArray`); a debounced rule has been awaited for every change but the present one
  (`DebouncedAwaited`); and what a failed batch leaves in the Debouncer's queue is for the change with
  which the next batch begins (`OneAtATime`), so that it does no harm that requests which differ by a
  variable of the URL are taken for the same.
  `TypeCorrect` and `ChangesInOrder` - `Spec => []InOrder` need no hypothesis on the rules. Beside
  `OneRuns` the invariant has that what the present batch is still to ask for is new, and that what has
  failed runs no more (`Apart`), and that the request of a rule that blocks is awaited by the chain of
  `_processChanges` while it runs (`BlockingAwaited`): the chain cannot go on before.
* `EngineRestProofs`, what `Process` leaves to modules of its own. `Soiler`: `TimerFits`,
  `TimerIsNotLate` and `NobodyIsForgotten` - `Spec => []TimerInv`, `[]NeverLate` and `[]NeverForgotten`, for a
  word, times and ages of any length and with or without the number 0. One invariant, `SoilerInv`, has
  the three, and that the timer is less than 2^31 milliseconds ahead. Every call of
  `_queueSoiler` leaves a timer that is armed (`QueueKeepsTime`), and if all times fit one that is in
  time for all that it was in time for. A pass has read every row when the timer fires, so that the
  history may begin anew there.
  `NodeConflicts`: `ClusterTyped` and `DocumentSurvives` - `Spec => []WinnerSurvives`, for any nodes,
  workers, hashes and any assignment of workers to nodes. By `TreeInv` everything that is destroyed, or
  on the list of a worker that will destroy it, is beaten by a revision that exists, and the ids of the
  tree are bounded; so there is a best revision, by the well-foundedness of the natural numbers, and
  nobody destroys it.
* `OnChangesProofs`: `TypeCorrect`; `NothingComesBack` - `Spec => NeverBack`, an action property;
  `LoadIsComplete`, if no request fails before the first `paused` (`"early" \notin Faults`); and
  `RulesMatchAsWritten`, if no regular expression of a rule matches the string `undefined`
  (`NoneForUndefined`). Both hypotheses are limits of the code (section 5). `CacheInv` places the cache in
  the history of each rule: it is never ahead of the copy, nor the copy of the database, the cache differs
  from the copy only in the batch that is written and not yet emitted, and what `allDocs` has read is what
  the copy still has (`Follows`); `_docs` holds the last revision it was told of, or nothing if that is a
  deletion (`HasLast`); there is one load (`LoadsOnce`).
* `DeletionProofs`: `TypeCorrect` by `LockInv`; `OnlyDestroyLosesChanges` by `CleanIsJustified`;
  `DestroyedOnlyIfPersisted` by `MarkInv`, which holds while nobody was killed, and `CrashesStay`.

Only model-checked: every liveness property (fairness and ENABLED are beyond the prover). Every invariant
and every action property or refinement of a passing run is also a theorem, under the hypotheses above.
Mutual exclusion of the change
listeners is only proved: no run of theirs checks it, since it fails with retries (section 5).

## 7. What is not modelled

* The command line's and the environment's tables of parameters (`bin/`, `cl-params.js`, `slouch.js`,
  `config.json`): data, converted once before anything runs.
* What a request is made of (`_buildParams`, `_buildUrl`, `_getMethod`), the parameters of a replication,
  and passwords: functions of their arguments without state, of which no property here depends.
* The length of a backoff (`backoff.js`): a `dirty_at` that lies ahead, of whatever length.
* The change iterators' own reconnection and the prefetch of the feed: `couch-slouch` is not part of
  the repository; a change is read when it is handed over.
* The destroys of `_destroyConflicts` that are still on their way when one of them conflicts and the
  worker goes on (`process.js:282`): `NodeConflicts` waits for all. With one worker no conflict meets a list
  of two or more within two changes, or three; with several, what is destroyed late is on a list
  that `DocumentSurvives` knows to be beaten, whenever it is destroyed.
* Logging and censoring; design documents and views, which are installed once and by hand (what a view
  selects is modelled where it is read, and an installation that is not finished in `OnChanges`).
* The `sieve` view, which is installed and not used.
