------------------------------ MODULE Process ------------------------------
(***************************************************************************)
(* The engine shared by the replicator and the change-listener processes   *)
(* (src/src/process.js).  The items of one type are documents of the       *)
(* spiegel database.  A process loads the items that are dirty and         *)
(* unlocked, then follows the _changes feed; for each item it locks the    *)
(* document, processes it, and unlocks and cleans it.  Another instance    *)
(* may run the same code, the update listeners dirty items at any time,    *)
(* processes crash, and an "unstaller" releases the locks they leave.      *)
(*                                                                         *)
(* Process is an abstract class: _process is supplied by a derived class,  *)
(* so this module has actions and no Next.  Replicators is the first       *)
(* module that completes it.                                               *)
(*                                                                         *)
(* Abstractions of data.                                                   *)
(*  - CouchDB accepts an update only if it names the latest revision.      *)
(*    current[h] is the set of items whose latest revision the holder h    *)
(*    has in memory: an update by h of an item outside current[h] is a     *)
(*    conflict.                                                            *)
(*  - A timestamp is its age.  locked_at is "null", "recent" or "stalled"  *)
(*    (older than retryAfterSeconds); dirty_at is "null", "later" or       *)
(*    "due" (not after the current time).                                  *)
(*  - The _changes feed of a process is the set of items with an unread    *)
(*    change: CouchDB reports an item once, as it is when it is read.      *)
(***************************************************************************)
EXTENDS Naturals, FiniteSets

CONSTANTS
  Items,            \* the documents of this type
  Procs,            \* the instances of the process
  Workers,          \* the slots of the throttlers (concurrency)
  ProcOf,           \* the process whose throttler has the slot
  Listeners,        \* the update listeners, which dirty the items
  NoItem,           \* the item of an idle worker
  LiveDirtyAtView,  \* does the view of _listenToDirtyAtChanges report updates?
  Faults,           \* the kinds of fault that may happen
  MaxFaults         \* bound: how many faults may happen

FaultKinds == {"crash",        \* a process is killed
               "stop",         \* a process is asked to stop
               "process",      \* _process throws
               "request",      \* a request fails, or only its answer is lost
               "lockRequest",  \* the update of _lock fails and is not applied
               "soilRequest",  \* the update of _soilItem fails
               "slow",         \* an action outlives retryAfterSeconds
               "listener"}     \* an update listener is killed

ASSUME ProcessAssumption ==
  /\ ProcOf \in [Workers -> Procs]
  /\ NoItem \notin Items
  /\ Workers \cap Procs = {}
  /\ Workers \cap Listeners = {}
  /\ Procs \cap Listeners = {}
  /\ LiveDirtyAtView \in BOOLEAN
  /\ Faults \subseteq FaultKinds
  /\ MaxFaults \in Nat

VARIABLES
  docs,     \* the latest revision of each item
  current,  \* per holder, the items whose latest revision it has
  feed,     \* per process, the items with an unread change
  soiler,   \* who has armed the timer of _queueSoiler
  soiling,  \* per soiler, the due items it has read and not yet soiled
  phase,    \* how far start() and stop() of each process have got
  todo,     \* per process, the unread rows of the dirty_and_unlocked view
  stalled,  \* per process, the stalled rows its unstaller has still to unlock
  pc,       \* per worker, how far _lockProcessUnlock has got
  item,     \* per worker, the item it handles
  faults    \* how many faults have happened

dbVars      == <<docs, current, feed, soiler>>
workerVars  == <<pc, item>>
procVars    == <<phase, todo, stalled>>
processVars == <<docs, current, feed, soiler, soiling, phase, todo, stalled,
                 pc, item, faults>>

-----------------------------------------------------------------------------
(* Documents and the views over them.                                      *)

Docs == [dirty     : {"true", "false", "undefined"},
         dirty_at  : {"null", "later", "due"},
         locked_at : {"null", "recent", "stalled"}]

IsLocked(d)         == d.locked_at # "null"
DirtyAndUnlocked(d) == d.dirty # "false" /\ ~IsLocked(d)
InDirtyAtView(d)    == d.dirty = "false" /\ ~IsLocked(d) /\ d.dirty_at # "null"

SetLockedAt(d, age) ==
  [dirty |-> d.dirty, dirty_at |-> d.dirty_at, locked_at |-> age]
SetDirtyAt(d, dirty, age) ==
  [dirty |-> dirty, dirty_at |-> age, locked_at |-> d.locked_at]

\* Work on the item is still to come: it is dirty, or will be soiled.
Marked(d) == d.dirty # "false" \/ d.dirty_at # "null"

Holders == Workers \cup Procs \cup Listeners
Soilers == Procs \cup Listeners

Fault(kind) == /\ kind \in Faults
               /\ faults < MaxFaults
               /\ faults' = faults + 1

-----------------------------------------------------------------------------
(* Reading and writing the database.                                       *)

\* A write of document d: every process that runs has a change to read, only
\* the writer (if it keeps the answer's _rev) has the latest revision, and a
\* view that reports updates wakes the soilers of the listening processes.
Store(i, d, keepers) ==
  /\ docs' = [docs EXCEPT ![i] = d]
  /\ current' = [h \in Holders |-> IF h \in keepers THEN current[h] \cup {i}
                                                    ELSE current[h] \ {i}]
  /\ feed' = [p \in Procs |-> IF phase[p] \in {"down", "stopping"}
                                THEN feed[p] ELSE feed[p] \cup {i}]
  /\ soiler' = IF LiveDirtyAtView /\ InDirtyAtView(d)
                 THEN soiler \cup {p \in Procs : phase[p] = "listening"}
                 ELSE soiler

\* A failed request: the writer gives up and forgets what it has read.
Forget(h) == /\ current' = [current EXCEPT ![h] = {}]
             /\ UNCHANGED <<docs, feed, soiler>>

Goto(w, label) == pc' = [pc EXCEPT ![w] = label] /\ UNCHANGED item

Release(w) == /\ pc' = [pc EXCEPT ![w] = "idle"]
              /\ item' = [item EXCEPT ![w] = NoItem]

\* A worker of a process receives item i, from a row read by holder h.
Receive(w, i, fresh) ==
  /\ pc[w] = "idle"
  /\ pc' = [pc EXCEPT ![w] = "got"]
  /\ item' = [item EXCEPT ![w] = i]
  /\ current' = [current EXCEPT ![w] = IF fresh THEN {i} ELSE {}]

WorkersOf(p) == {w \in Workers : ProcOf[w] = p}

\* The workers that hold the lock of an item, or believe they do.
Critical  == {"locked", "processing", "processed", "conflicted", "failed"}
WorksOn(w, i) == item[w] = i /\ pc[w] \in Critical

-----------------------------------------------------------------------------
(* start(): the last seq, then the dirty items, then the feed.             *)

\* The processes are down, and have nothing in memory.
EngineInit ==
  /\ current = [h \in Holders |-> {}]
  /\ feed = [p \in Procs |-> {}]
  /\ soiler = {}
  /\ soiling = [s \in Soilers |-> {}]
  /\ phase = [p \in Procs |-> "down"]
  /\ todo = [p \in Procs |-> {}]
  /\ stalled = [p \in Procs |-> {}]
  /\ pc = [w \in Workers |-> "idle"]
  /\ item = [w \in Workers |-> NoItem]
  /\ faults = 0

\* The items are documents that somebody has written, without flags.
ProcessInit ==
  /\ docs = [i \in Items |-> [dirty |-> "undefined", dirty_at |-> "null",
                              locked_at |-> "null"]]
  /\ EngineInit

\* The last seq is that of the latest change of a dirty and unlocked item, so
\* only other items can have changed since; without one the feed starts from
\* the beginning.
GetLastSeq(p) ==
  /\ phase[p] = "down"
  /\ phase' = [phase EXCEPT ![p] = "loading"]
  /\ LET pending == {i \in Items : DirtyAndUnlocked(docs[i])}
     IN \E S \in SUBSET (Items \ pending) :
          /\ pending = {} => S = Items
          /\ feed' = [feed EXCEPT ![p] = S]
  /\ UNCHANGED <<docs, current, soiler, soiling, todo, stalled, pc, item, faults>>

LoadDirty(p) ==
  /\ phase[p] = "loading"
  /\ phase' = [phase EXCEPT ![p] = "draining"]
  /\ LET rows == {i \in Items : DirtyAndUnlocked(docs[i])}
     IN /\ todo' = [todo EXCEPT ![p] = rows]
        /\ current' = [current EXCEPT ![p] = rows]
  /\ UNCHANGED <<docs, feed, soiler, soiling, stalled, pc, item, faults>>

\* The throttler hands a row of the view to a worker.
OnDirtyRow(w, i) ==
  LET p == ProcOf[w] IN
  /\ phase[p] = "draining"
  /\ i \in todo[p]
  /\ todo' = [todo EXCEPT ![p] = @ \ {i}]
  /\ Receive(w, i, i \in current[p])
  /\ UNCHANGED <<docs, feed, soiler, soiling, phase, stalled, faults>>

\* Mutant: the feed is followed from now on instead of from the last seq.
StartListeningFromNow(p) ==
  /\ phase[p] = "draining"
  /\ todo[p] = {}
  /\ \A w \in WorkersOf(p) : pc[w] = "idle"
  /\ phase' = [phase EXCEPT ![p] = "listening"]
  /\ current' = [current EXCEPT ![p] = {}]
  /\ feed' = [feed EXCEPT ![p] = {}]
  /\ soiler' = IF \E i \in Items : InDirtyAtView(docs[i]) THEN soiler \cup {p}
                                                          ELSE soiler
  /\ UNCHANGED <<docs, soiling, todo, stalled, pc, item, faults>>

\* All rows are processed: listen to the changes, start the unstaller, and
\* queue the soiler for the rows that the dirty_at view has now.
StartListening(p) ==
  /\ phase[p] = "draining"
  /\ todo[p] = {}
  /\ \A w \in WorkersOf(p) : pc[w] = "idle"
  /\ phase' = [phase EXCEPT ![p] = "listening"]
  /\ current' = [current EXCEPT ![p] = {}]
  /\ soiler' = IF \E i \in Items : InDirtyAtView(docs[i]) THEN soiler \cup {p}
                                                          ELSE soiler
  /\ UNCHANGED <<docs, feed, soiling, todo, stalled, pc, item, faults>>

\* The continuous feed delivers a dirty item to a worker, which handles it if
\* it is unlocked.  The change of a locked or clean item has no effect, and
\* the item comes back with the change that unlocks or dirties it: the model
\* leaves it in the feed until then.
OnChange(w, i) ==
  LET p == ProcOf[w] IN
  /\ phase[p] = "listening"
  /\ i \in feed[p]
  /\ DirtyAndUnlocked(docs[i])
  /\ feed' = [feed EXCEPT ![p] = @ \ {i}]
  /\ Receive(w, i, TRUE)
  /\ UNCHANGED <<docs, soiler, soiling, phase, todo, stalled, faults>>

-----------------------------------------------------------------------------
(* _lockProcessUnlock, one request of the worker at a time.                *)

\* Mutant: the lock is taken with an upsert, which cannot conflict.
LockByUpsert(w) ==
  /\ pc[w] = "got"
  /\ Store(item[w], SetLockedAt(docs[item[w]], "recent"), {w})
  /\ Goto(w, "locked")
  /\ UNCHANGED <<soiling, phase, todo, stalled, faults>>

\* _lock: an update, so that it conflicts if anything was written meanwhile.
Lock(w) ==
  /\ pc[w] = "got"
  /\ item[w] \in current[w]
  /\ Store(item[w], SetLockedAt(docs[item[w]], "recent"), {w})
  /\ Goto(w, "locked")
  /\ UNCHANGED <<soiling, phase, todo, stalled, faults>>

\* _lockAndThrowIfErrorAndNotConflict: another write came first, drop the item.
LockConflict(w) ==
  /\ pc[w] = "got"
  /\ item[w] \notin current[w]
  /\ Release(w)
  /\ UNCHANGED <<dbVars, soiling, phase, todo, stalled, faults>>

\* The lock is written but the answer is lost: the error is logged and the
\* item stays locked by nobody.
LockAnswerLost(w) ==
  /\ pc[w] = "got"
  /\ item[w] \in current[w]
  /\ Fault("request")
  /\ Store(item[w], SetLockedAt(docs[item[w]], "recent"), {})
  /\ Release(w)
  /\ UNCHANGED <<soiling, phase, todo, stalled>>

\* The update fails without a conflict: the error is logged, the item dropped.
LockRequestLost(w) ==
  /\ pc[w] = "got"
  /\ Fault("lockRequest")
  /\ Forget(w)
  /\ Release(w)
  /\ UNCHANGED <<soiling, phase, todo, stalled>>

\* _process, supplied by the derived class, begins, succeeds or throws.
BeginProcess(w) ==
  /\ pc[w] = "locked"
  /\ Goto(w, "processing")
  /\ UNCHANGED <<dbVars, soiling, phase, todo, stalled, faults>>

ProcessSucceeds(w) ==
  /\ pc[w] = "processing"
  /\ Goto(w, "processed")
  /\ UNCHANGED <<dbVars, soiling, phase, todo, stalled, faults>>

ProcessThrows(w) ==
  /\ pc[w] = "processing"
  /\ Fault("process")
  /\ Goto(w, "failed")
  /\ UNCHANGED <<dbVars, soiling, phase, todo, stalled>>

\* Mutant: the test of leaveDirty is the wrong way round.
CleanedDocLeaveInverted(d, leaveDirty) ==
  [dirty     |-> IF leaveDirty THEN "false" ELSE d.dirty,
   dirty_at  |-> "null",
   locked_at |-> "null"]

\* What _unlockAndClean makes of the item the worker has in memory.
CleanedDoc(d, leaveDirty) ==
  [dirty     |-> IF leaveDirty THEN d.dirty ELSE "false",
   dirty_at  |-> "null",
   locked_at |-> "null"]

\* Mutant: the clean document is upserted, whatever was written meanwhile.
UnlockAndCleanByUpsert(w, leaveDirty) ==
  /\ pc[w] = "processed"
  /\ Store(item[w], CleanedDoc(docs[item[w]], leaveDirty), {})
  /\ Release(w)
  /\ UNCHANGED <<soiling, phase, todo, stalled, faults>>

\* _unlockAndClean: an update, so that it fails if the item was re-dirtied.
UnlockAndClean(w, leaveDirty) ==
  /\ pc[w] = "processed"
  /\ item[w] \in current[w]
  /\ Store(item[w], CleanedDoc(docs[item[w]], leaveDirty), {})
  /\ Release(w)
  /\ UNCHANGED <<soiling, phase, todo, stalled, faults>>

UnlockAndCleanConflict(w) ==
  /\ pc[w] = "processed"
  /\ item[w] \notin current[w]
  /\ Goto(w, "conflicted")
  /\ UNCHANGED <<dbVars, soiling, phase, todo, stalled, faults>>

\* _upsertUnlock after a conflict or an error of _process: merged into the
\* latest revision, whoever wrote it.
UpsertUnlock(w) ==
  /\ pc[w] \in {"conflicted", "failed"}
  /\ Store(item[w], SetLockedAt(docs[item[w]], "null"), {})
  /\ Release(w)
  /\ UNCHANGED <<soiling, phase, todo, stalled, faults>>

\* The request that would unlock fails: the error is logged, the lock stays.
UnlockRequestLost(w) ==
  /\ pc[w] \in {"processed", "conflicted", "failed"}
  /\ Fault("request")
  /\ Forget(w)
  /\ Release(w)
  /\ UNCHANGED <<soiling, phase, todo, stalled>>

-----------------------------------------------------------------------------
(* The unstaller.  _hasStalled looks at a row right after it is read: a row *)
(* that has not stalled is skipped, so only the stalled ones are kept.      *)

StalledItems == {i \in Items : docs[i].locked_at = "stalled"}

\* Mutant: every locked item is unlocked, stalled or not.
ReadAllLocked(p) ==
  /\ phase[p] = "listening"
  /\ stalled[p] = {}
  /\ {i \in Items : IsLocked(docs[i])} # {}
  /\ stalled' = [stalled EXCEPT ![p] = {i \in Items : IsLocked(docs[i])}]
  /\ current' = [current EXCEPT ![p] = stalled'[p]]
  /\ UNCHANGED <<docs, feed, soiler, soiling, phase, todo, pc, item, faults>>

ReadStalled(p) ==
  /\ phase[p] = "listening"
  /\ stalled[p] = {}
  /\ StalledItems # {}
  /\ stalled' = [stalled EXCEPT ![p] = StalledItems]
  /\ current' = [current EXCEPT ![p] = StalledItems]
  /\ UNCHANGED <<docs, feed, soiler, soiling, phase, todo, pc, item, faults>>

\* _unlockAndThrowIfNotConflict: an update, a conflict is ignored.
UnlockStalled(p, i) ==
  /\ i \in stalled[p]
  /\ stalled' = [stalled EXCEPT ![p] = @ \ {i}]
  /\ \/ /\ i \in current[p]
        /\ Store(i, SetLockedAt(docs[i], "null"), {})
     \/ /\ i \notin current[p]
        /\ UNCHANGED dbVars
  /\ UNCHANGED <<soiling, phase, todo, pc, item, faults>>

\* Any other error ends the pass over the rows (_unlockStalledLogError); the
\* next interval begins a new one.
UnstallerFails(p) ==
  /\ stalled[p] # {}
  /\ Fault("request")
  /\ stalled' = [stalled EXCEPT ![p] = {}]
  /\ Forget(p)
  /\ UNCHANGED <<soiling, phase, todo, pc, item>>

-----------------------------------------------------------------------------
(* The soiler, of a process or of an update listener.                      *)

\* Mutant: the soiler is not queued again for the rows that are not due.
SoilPendingItemsOnce(s) ==
  /\ s \in soiler
  /\ LET rows == {i \in Items : InDirtyAtView(docs[i])}
         due  == {i \in rows : docs[i].dirty_at = "due"}
     IN soiling' = [soiling EXCEPT ![s] = @ \cup due]
  /\ soiler' = soiler \ {s}
  /\ UNCHANGED <<docs, current, feed, phase, todo, stalled, pc, item, faults>>

\* The timer fires: read the dirty_at view, keep the rows that are due and
\* queue the soiler again if a row is not.
SoilPendingItems(s) ==
  /\ s \in soiler
  /\ LET rows == {i \in Items : InDirtyAtView(docs[i])}
         due  == {i \in rows : docs[i].dirty_at = "due"}
     IN /\ soiling' = [soiling EXCEPT ![s] = @ \cup due]
        /\ soiler' = IF rows = due THEN soiler \ {s} ELSE soiler
  /\ UNCHANGED <<docs, current, feed, phase, todo, stalled, pc, item, faults>>

\* _soilItem: merged into the latest revision, whatever it is by now.
SoilItem(s, i) ==
  /\ i \in soiling[s]
  /\ soiling' = [soiling EXCEPT ![s] = @ \ {i}]
  /\ Store(i, SetDirtyAt(docs[i], "true", "null"), {})
  /\ UNCHANGED <<phase, todo, stalled, pc, item, faults>>

\* _soilItemLogError: the request fails, the error is logged, and nothing
\* queues the soiler again for the item.
SoilItemFails(s, i) ==
  /\ i \in soiling[s]
  /\ Fault("soilRequest")
  /\ soiling' = [soiling EXCEPT ![s] = @ \ {i}]
  /\ UNCHANGED <<dbVars, phase, todo, stalled, pc, item>>

-----------------------------------------------------------------------------
(* Stopping, crashing and the passing of time.                             *)

\* stop(): the timers and the iterators end, the handlers that run go on.
Stop(p) ==
  /\ phase[p] = "listening"
  /\ Fault("stop")
  /\ phase' = [phase EXCEPT ![p] = "stopping"]
  /\ soiler' = soiler \ {p}
  /\ feed' = [feed EXCEPT ![p] = {}]
  /\ UNCHANGED <<docs, current, soiling, todo, stalled, pc, item>>

\* throttler.allDone(): the handlers have ended.
Stopped(p) ==
  /\ phase[p] = "stopping"
  /\ soiling[p] = {}
  /\ \A w \in WorkersOf(p) : pc[w] = "idle"
  /\ phase' = [phase EXCEPT ![p] = "down"]
  /\ stalled' = [stalled EXCEPT ![p] = {}]
  /\ current' = [current EXCEPT ![p] = {}]
  /\ UNCHANGED <<docs, feed, soiler, soiling, todo, pc, item, faults>>

\* Whatever the process held in memory is gone; what it wrote stays.
Crash(p) ==
  /\ phase[p] # "down"
  /\ Fault("crash")
  /\ phase' = [phase EXCEPT ![p] = "down"]
  /\ feed' = [feed EXCEPT ![p] = {}]
  /\ todo' = [todo EXCEPT ![p] = {}]
  /\ stalled' = [stalled EXCEPT ![p] = {}]
  /\ soiler' = soiler \ {p}
  /\ soiling' = [soiling EXCEPT ![p] = {}]
  /\ pc' = [w \in Workers |-> IF ProcOf[w] = p THEN "idle" ELSE pc[w]]
  /\ item' = [w \in Workers |-> IF ProcOf[w] = p THEN NoItem ELSE item[w]]
  /\ current' = [h \in Holders |->
                   IF h = p \/ (h \in Workers /\ ProcOf[h] = p)
                     THEN {} ELSE current[h]]
  /\ UNCHANGED docs

\* retryAfterSeconds pass.  The constructor's warning asks that an action take
\* less: a lock with a live holder stalls only as a fault.
Stalls(i) ==
  /\ docs[i].locked_at = "recent"
  /\ docs' = [docs EXCEPT ![i] = SetLockedAt(@, "stalled")]
  /\ UNCHANGED <<current, feed, soiler, soiling, phase, todo, stalled, pc, item>>

OrphanLockStalls(i) ==
  /\ \A w \in Workers : ~WorksOn(w, i)
  /\ Stalls(i)
  /\ UNCHANGED faults

SlowLockStalls(i) ==
  /\ \E w \in Workers : WorksOn(w, i)
  /\ Fault("slow")
  /\ Stalls(i)

\* dirty_at is reached.
DirtyAtComes(i) ==
  /\ docs[i].dirty_at = "later"
  /\ docs' = [docs EXCEPT ![i] = SetDirtyAt(@, @.dirty, "due")]
  /\ UNCHANGED <<current, feed, soiler, soiling, phase, todo, stalled, pc, item,
                 faults>>

-----------------------------------------------------------------------------
(* What a process can do next, apart from _process itself, and the fairness *)
(* of its scheduling: the event loop runs every callback, the daemon        *)
(* restarts a process that ended (README: "Docker will take care of         *)
(* automatically restarting the processes"), time passes.                   *)

WorkerStep(w) ==
  \/ Lock(w) \/ LockConflict(w) \/ LockAnswerLost(w) \/ LockRequestLost(w)
  \/ UnlockAndCleanConflict(w) \/ UpsertUnlock(w) \/ UnlockRequestLost(w)

ProcStep(p) ==
  \/ GetLastSeq(p) \/ LoadDirty(p) \/ StartListening(p)
  \/ Stop(p) \/ Stopped(p) \/ Crash(p)
  \/ ReadStalled(p) \/ UnstallerFails(p)
  \/ \E i \in Items : UnlockStalled(p, i)
  \/ \E w \in WorkersOf(p), i \in Items : OnDirtyRow(w, i) \/ OnChange(w, i)

SoilerStep(s) ==
  \/ SoilPendingItems(s)
  \/ \E i \in Items : SoilItem(s, i) \/ SoilItemFails(s, i)

TimeStep(i) == OrphanLockStalls(i) \/ SlowLockStalls(i) \/ DirtyAtComes(i)

ProcessStep ==
  \/ \E w \in Workers : WorkerStep(w)
  \/ \E p \in Procs : ProcStep(p)
  \/ \E s \in Soilers : SoilerStep(s)
  \/ \E i \in Items : TimeStep(i)

-----------------------------------------------------------------------------
(* Properties of the engine, whatever _process does.                       *)

Phases == {"down", "loading", "draining", "listening", "stopping"}

\* The type invariant: every variable has its type, a worker has an item just
\* when it is not idle, and knows a revision only of that item.
ProcessTypeOK ==
  /\ docs \in [Items -> Docs]
  /\ current \in [Holders -> SUBSET Items]
  /\ feed \in [Procs -> SUBSET Items]
  /\ soiler \in SUBSET Soilers
  /\ soiling \in [Soilers -> SUBSET Items]
  /\ phase \in [Procs -> Phases]
  /\ todo \in [Procs -> SUBSET Items]
  /\ stalled \in [Procs -> SUBSET Items]
  /\ pc \in [Workers -> {"idle", "got"} \cup Critical]
  /\ item \in [Workers -> Items \cup {NoItem}]
  /\ faults \in 0..MaxFaults
  /\ \A w \in Workers : /\ pc[w] = "idle" <=> item[w] = NoItem
                        /\ current[w] \subseteq {item[w]}

\* "We only want one process to hold the lock at any given time" (_lock): two
\* workers never handle the same item at once, be they of one process or of
\* two, through conflicts, crashes, lost answers and unstalled locks.  Under
\* the constructor's warning: no action outlives retryAfterSeconds.
MutualExclusion ==
  \A w1, w2 \in Workers : \A i \in Items :
    WorksOn(w1, i) /\ WorksOn(w2, i) => w1 = w2

\* While a worker handles an item its lock is in the database and has not
\* stalled, so no unstaller releases it and no other worker may lock it.
LockIsKept ==
  \A w \in Workers : \A i \in Items :
    WorksOn(w, i) => docs[i].locked_at = "recent"

\* A row or a change handed to a worker, if still the latest revision, is
\* unlocked: this is why a lock that does not conflict is a lock nobody had.
ReceivedIsUnlocked ==
  /\ \A w \in Workers : pc[w] = "got" /\ item[w] \in current[w]
                          => ~IsLocked(docs[item[w]])
  /\ \A p \in Procs : \A i \in todo[p] \cap current[p] : ~IsLocked(docs[i])

\* A worker that has locked its item, and has the latest revision, has its lock
\* in it: an update by that worker can only release its own lock.
HolderSeesLock ==
  \A w \in Workers :
    pc[w] \in {"locked", "processing", "processed"} /\ item[w] \in current[w]
      => IsLocked(docs[item[w]])

\* The rows a process has read are those of the phase it is in.
RowsMatchPhase ==
  \A p \in Procs : /\ phase[p] # "draining" => todo[p] = {}
                   /\ phase[p] \notin {"listening", "stopping"} => stalled[p] = {}

\* A row of the unstaller, if still the latest revision, is a stalled lock.
StalledIsStalled ==
  \A p \in Procs : \A i \in stalled[p] \cap current[p] : docs[i].locked_at = "stalled"

\* The inductive invariant behind MutualExclusion.
LockInv == /\ MutualExclusion
           /\ LockIsKept
           /\ ReceivedIsUnlocked
           /\ RowsMatchPhase
           /\ StalledIsStalled
=============================================================================
