-------------------------- MODULE UpdateListeners --------------------------
(***************************************************************************)
(* The update listeners (src/src/update-listeners.js).  Each reads the      *)
(* _changes feed of _global_changes, collects the databases that changed    *)
(* in a batch, dirties the replicators and then the change listeners of     *)
(* the batch, and now and then saves the seq up to which it has read in     *)
(* the global lastSeq, where a listener that starts resumes.                *)
(*                                                                         *)
(* _global_changes has one document per database: an update moves it to     *)
(* the end of the feed.  A seq is a number; 0 is the seq that was never     *)
(* saved.  Dirtying itself (dirtyIfCleanOrLocked) is the subject of         *)
(* Replicators; here it succeeds or fails as a whole.                       *)
(***************************************************************************)
EXTENDS Naturals

CONSTANTS
  DBs,          \* the databases whose updates are reported
  Listeners,    \* the instances of the process
  BatchSize,    \* how many updates fill a batch
  NodeExits,    \* does node end a process with an unhandled rejection?
  Faults,       \* the kinds of fault that may happen
  MaxFaults,    \* bound: how many faults may happen
  MaxUpdates    \* bound: how many updates there are

FaultKinds == {"crash",     \* a listener is killed
               "stop",      \* a listener receives SIGINT
               "request"}   \* a request of a batch fails

ASSUME UpdateListenersAssumption ==
  /\ BatchSize \in Nat \ {0}
  /\ NodeExits \in BOOLEAN
  /\ Faults \subseteq FaultKinds
  /\ MaxFaults \in Nat
  /\ MaxUpdates \in Nat

VARIABLES
  updateSeq,   \* the seq of the latest update of each database
  newest,      \* the latest seq of all
  undirtied,   \* per type of item, the databases with an update not dirtied for
  saved,       \* the global lastSeq
  phase,       \* per listener, is it down, listening or stopping?
  lastSeq,     \* per listener, _lastSeq: the seq it has read up to
  updatedDBs,  \* per listener, _updatedDBs: the batch
  updateCount, \* per listener, _updateCount
  timer,       \* per listener, is the batch timer running?
  expired,     \* per listener, does a batch that timed out wait for its turn?
  pc,          \* per listener, the request of _processBatchUnsynchronized it is at
  caller,      \* per listener, what that call was made for
  faults       \* how many faults have happened

feedVars     == <<updateSeq, newest>>
batchVars    == <<updatedDBs, updateCount, timer>>
vars == <<updateSeq, newest, undirtied, saved, phase, lastSeq, updatedDBs,
          updateCount, timer, expired, pc, caller, faults>>

Types == {"replicator", "change_listener"}

Init ==
  /\ updateSeq = [d \in DBs |-> 0]
  /\ newest = 0
  /\ undirtied = [t \in Types |-> {}]
  /\ saved = 0
  /\ phase = [u \in Listeners |-> "down"]
  /\ lastSeq = [u \in Listeners |-> 0]
  /\ updatedDBs = [u \in Listeners |-> {}]
  /\ updateCount = [u \in Listeners |-> 0]
  /\ timer = [u \in Listeners |-> FALSE]
  /\ expired = [u \in Listeners |-> FALSE]
  /\ pc = [u \in Listeners |-> "idle"]
  /\ caller = [u \in Listeners |-> "none"]
  /\ faults = 0

Fault(kind) == /\ kind \in Faults
               /\ faults < MaxFaults
               /\ faults' = faults + 1

-----------------------------------------------------------------------------

\* The environment: database d is updated.
Update(d) ==
  /\ newest < MaxUpdates
  /\ newest' = newest + 1
  /\ updateSeq' = [updateSeq EXCEPT ![d] = newest + 1]
  /\ undirtied' = [t \in Types |-> undirtied[t] \cup {d}]
  /\ UNCHANGED <<saved, phase, lastSeq, batchVars, expired, pc, caller, faults>>

Start(u) ==
  /\ phase[u] = "down"
  /\ phase' = [phase EXCEPT ![u] = "listening"]
  /\ lastSeq' = [lastSeq EXCEPT ![u] = saved]
  /\ UNCHANGED <<feedVars, undirtied, saved, batchVars, expired, pc, caller, faults>>

\* The next change of the feed.
NextUpdate(u, d) ==
  /\ updateSeq[d] > lastSeq[u]
  /\ \A e \in DBs \ {d} : updateSeq[e] > lastSeq[u] => updateSeq[e] > updateSeq[d]

\* Mutant: the timer is started with the second update of a batch.
OnUpdateLateTimer(u, d) ==
  /\ phase[u] = "listening"
  /\ pc[u] = "idle"
  /\ ~expired[u]
  /\ NextUpdate(u, d)
  /\ updatedDBs' = [updatedDBs EXCEPT ![u] = @ \cup {d}]
  /\ lastSeq' = [lastSeq EXCEPT ![u] = updateSeq[d]]
  /\ timer' = [timer EXCEPT ![u] = @ \/ updateCount[u] = 1]
  /\ IF updateCount[u] = BatchSize - 1
       THEN /\ pc' = [pc EXCEPT ![u] = "replicators"]
            /\ caller' = [caller EXCEPT ![u] = "update"]
            /\ UNCHANGED updateCount
       ELSE /\ updateCount' = [updateCount EXCEPT ![u] = @ + 1]
            /\ UNCHANGED <<pc, caller>>
  /\ UNCHANGED <<feedVars, undirtied, saved, phase, expired, faults>>

\* _onUpdate, when the synchronizer is free: the feed waits until the update
\* is handled, with the whole batch if this update fills it.
OnUpdate(u, d) ==
  /\ phase[u] = "listening"
  /\ pc[u] = "idle"
  /\ ~expired[u]
  /\ NextUpdate(u, d)
  /\ updatedDBs' = [updatedDBs EXCEPT ![u] = @ \cup {d}]
  /\ lastSeq' = [lastSeq EXCEPT ![u] = updateSeq[d]]
  /\ timer' = [timer EXCEPT ![u] = @ \/ updateCount[u] = 0]
  /\ IF updateCount[u] = BatchSize - 1
       THEN /\ pc' = [pc EXCEPT ![u] = "replicators"]
            /\ caller' = [caller EXCEPT ![u] = "update"]
            /\ UNCHANGED updateCount
       ELSE /\ updateCount' = [updateCount EXCEPT ![u] = @ + 1]
            /\ UNCHANGED <<pc, caller>>
  /\ UNCHANGED <<feedVars, undirtied, saved, phase, expired, faults>>

\* The batch timer fires: _processBatch asks the synchronizer for its turn, and
\* comes before the next update.
TimerFires(u) ==
  /\ timer[u]
  /\ timer' = [timer EXCEPT ![u] = FALSE]
  /\ expired' = [expired EXCEPT ![u] = TRUE]
  /\ UNCHANGED <<feedVars, undirtied, saved, phase, lastSeq, updatedDBs, updateCount,
                 pc, caller, faults>>

ProcessBatch(u) ==
  /\ expired[u]
  /\ pc[u] = "idle"
  /\ expired' = [expired EXCEPT ![u] = FALSE]
  /\ pc' = [pc EXCEPT ![u] = "replicators"]
  /\ caller' = [caller EXCEPT ![u] = "timer"]
  /\ UNCHANGED <<feedVars, undirtied, saved, phase, lastSeq, batchVars, faults>>

-----------------------------------------------------------------------------
(* _processBatchUnsynchronized: _processUpdatedDBs dirties the replicators, *)
(* then the change listeners; then reset; then save the lastSeq if needed.  *)

\* The databases of the batch whose latest update the listener has read: their
\* items are dirtied after that update.
Covered(u) == {d \in updatedDBs[u] : updateSeq[d] <= lastSeq[u]}

Dirtied(u, type) ==
  undirtied' = [undirtied EXCEPT ![type] = @ \ Covered(u)]

\* Mutant: the batch is reset before the change listeners are dirtied.
DirtyReplicatorsAndReset(u) ==
  /\ pc[u] = "replicators"
  /\ Dirtied(u, "replicator")
  /\ timer' = [timer EXCEPT ![u] = FALSE]
  /\ updateCount' = [updateCount EXCEPT ![u] = 0]
  /\ updatedDBs' = [updatedDBs EXCEPT ![u] = {}]
  /\ pc' = [pc EXCEPT ![u] = "change_listeners"]
  /\ UNCHANGED <<feedVars, saved, phase, lastSeq, expired, caller, faults>>

DirtyReplicators(u) ==
  /\ pc[u] = "replicators"
  /\ Dirtied(u, "replicator")
  /\ pc' = [pc EXCEPT ![u] = "change_listeners"]
  /\ UNCHANGED <<feedVars, saved, phase, lastSeq, batchVars, expired, caller, faults>>

\* _resetForNextBatch.
Reset(u) ==
  /\ timer' = [timer EXCEPT ![u] = FALSE]
  /\ updateCount' = [updateCount EXCEPT ![u] = 0]
  /\ updatedDBs' = [updatedDBs EXCEPT ![u] = {}]

\* Every so often the lastSeq has to be saved, or else the batch is done.
DirtyChangeListeners(u) ==
  /\ pc[u] = "change_listeners"
  /\ Dirtied(u, "change_listener")
  /\ Reset(u)
  /\ \/ pc' = [pc EXCEPT ![u] = "saving"] /\ UNCHANGED caller
     \/ pc' = [pc EXCEPT ![u] = "idle"] /\ caller' = [caller EXCEPT ![u] = "none"]
  /\ UNCHANGED <<feedVars, saved, phase, lastSeq, expired, faults>>

\* Mutant: the newest seq of the feed is saved instead of the one read.
SaveNewestSeq(u) ==
  /\ pc[u] = "saving"
  /\ saved' = newest
  /\ pc' = [pc EXCEPT ![u] = "idle"]
  /\ caller' = [caller EXCEPT ![u] = "none"]
  /\ UNCHANGED <<feedVars, undirtied, phase, lastSeq, batchVars, expired, faults>>

\* Mutant: the caller is not told that the batch is done.
SaveLastSeqKeepCaller(u) ==
  /\ pc[u] = "saving"
  /\ saved' = lastSeq[u]
  /\ pc' = [pc EXCEPT ![u] = "idle"]
  /\ UNCHANGED <<feedVars, undirtied, phase, lastSeq, batchVars, expired, caller, faults>>

SaveLastSeq(u) ==
  /\ pc[u] = "saving"
  /\ saved' = lastSeq[u]
  /\ pc' = [pc EXCEPT ![u] = "idle"]
  /\ caller' = [caller EXCEPT ![u] = "none"]
  /\ UNCHANGED <<feedVars, undirtied, phase, lastSeq, batchVars, expired, faults>>

-----------------------------------------------------------------------------
(* Failures and ends.                                                      *)

\* The process ends, with all it has in memory.
Exit(u) ==
  /\ phase' = [phase EXCEPT ![u] = "down"]
  /\ lastSeq' = [lastSeq EXCEPT ![u] = 0]
  /\ Reset(u)
  /\ expired' = [expired EXCEPT ![u] = FALSE]
  /\ pc' = [pc EXCEPT ![u] = "idle"]
  /\ caller' = [caller EXCEPT ![u] = "none"]

\* A request fails.  The batch of _onUpdate rejects the iterator, a fatal error
\* that ends the process.  Nobody handles the rejection of the batch of the
\* timer: unless node ends the process, the batch is kept, but no timer runs.
BatchFails(u) ==
  /\ pc[u] # "idle"
  /\ Fault("request")
  /\ \/ /\ caller[u] = "update" \/ NodeExits
        /\ Exit(u)
     \/ /\ caller[u] = "timer" /\ ~NodeExits
        /\ pc' = [pc EXCEPT ![u] = "idle"]
        /\ caller' = [caller EXCEPT ![u] = "none"]
        /\ UNCHANGED <<phase, lastSeq, batchVars, expired>>
  /\ UNCHANGED <<feedVars, undirtied, saved>>

Crash(u) ==
  /\ phase[u] # "down"
  /\ Fault("crash")
  /\ Exit(u)
  /\ UNCHANGED <<feedVars, undirtied, saved>>

\* stop(): the feed is aborted and the lastSeq saved, be the batch processed or
\* not.  The timer runs on.
Stop(u) ==
  /\ phase[u] = "listening"
  /\ Fault("stop")
  /\ phase' = [phase EXCEPT ![u] = "stopping"]
  /\ saved' = lastSeq[u]
  /\ UNCHANGED <<feedVars, undirtied, lastSeq, batchVars, expired, pc, caller>>

\* Nothing keeps the event loop of a stopped listener alive any more.
Stopped(u) ==
  /\ phase[u] = "stopping"
  /\ pc[u] = "idle" /\ ~timer[u] /\ ~expired[u]
  /\ Exit(u)
  /\ UNCHANGED <<feedVars, undirtied, saved, faults>>

-----------------------------------------------------------------------------

Handle(u) ==
  \/ \E d \in DBs : OnUpdate(u, d)
  \/ ProcessBatch(u) \/ DirtyReplicators(u) \/ DirtyChangeListeners(u) \/ SaveLastSeq(u)

Next ==
  \/ \E d \in DBs : Update(d)
  \/ \E u \in Listeners :
       \/ Start(u) \/ TimerFires(u) \/ Handle(u) \/ Stopped(u)
       \/ BatchFails(u) \/ Crash(u) \/ Stop(u)

Spec == Init /\ [][Next]_vars

\* The event loop runs the callbacks, and a listener that ended is restarted.
Fairness == \A u \in Listeners : /\ WF_vars(Handle(u))
                                 /\ WF_vars(TimerFires(u))
                                 /\ WF_vars(Start(u) \/ Stopped(u))

FairSpec == Spec /\ Fairness

-----------------------------------------------------------------------------
(* Properties.                                                             *)

\* The type invariant, with the shape of a batch.
TypeOK ==
  /\ updateSeq \in [DBs -> Nat]
  /\ newest \in 0..MaxUpdates
  /\ undirtied \in [Types -> SUBSET DBs]
  /\ saved \in Nat
  /\ phase \in [Listeners -> {"down", "listening", "stopping"}]
  /\ lastSeq \in [Listeners -> Nat]
  /\ updatedDBs \in [Listeners -> SUBSET DBs]
  /\ updateCount \in [Listeners -> 0..(BatchSize - 1)]
  /\ timer \in [Listeners -> BOOLEAN]
  /\ expired \in [Listeners -> BOOLEAN]
  /\ pc \in [Listeners -> {"idle", "replicators", "change_listeners", "saving"}]
  /\ caller \in [Listeners -> {"none", "update", "timer"}]
  /\ faults \in 0..MaxFaults
  /\ saved <= newest
  /\ \A d \in DBs : updateSeq[d] <= newest
  /\ \A u \in Listeners :
       /\ lastSeq[u] <= newest
       /\ pc[u] = "idle" <=> caller[u] = "none"
       /\ pc[u] = "saving" => updatedDBs[u] = {}
       /\ phase[u] = "down" => pc[u] = "idle" /\ ~timer[u] /\ ~expired[u]
                               /\ updatedDBs[u] = {}

\* A listener has, or will read, the update of a database.
WillHandle(u, d) ==
  \/ phase[u] = "listening" /\ updateSeq[d] > lastSeq[u]
  \/ d \in updatedDBs[u]

\* No update is lost: as long as its items are not dirtied, a listener that runs
\* has it in its batch or still to read, or one that starts will read it.
\* Batches fail halfway, listeners are killed between the batch and the save,
\* and all save the same lastSeq.
NoUpdateLost ==
  \A t \in Types : \A d \in undirtied[t] :
    updateSeq[d] > saved \/ \E u \in Listeners : WillHandle(u, d)

\* What makes it so: nobody reads past an update, nor saves a seq past it,
\* without having its items dirtied or the database in its batch.
NothingSkipped ==
  \A t \in Types : \A d \in undirtied[t] :
    /\ updateSeq[d] > saved
    /\ \A u \in Listeners :
         phase[u] # "down" => updateSeq[d] > lastSeq[u] \/ d \in updatedDBs[u]

\* A batch at its second half has all its replicators dirtied.
ReplicatorsFirst ==
  \A u \in Listeners : pc[u] \in {"change_listeners", "saving"} =>
    undirtied["replicator"] \cap Covered(u) = {}

\* Every update dirties the replicators and change listeners of its database in
\* the end: a batch is processed when it is full or when its time is over,
\* "regardless of whether there are any more updates" (constructor).
EventuallyDirtied ==
  \A t \in Types, d \in DBs : d \in undirtied[t] ~> d \notin undirtied[t]

-----------------------------------------------------------------------------
(* The update listeners implement UpdateFeed, for each type of item.        *)

\* The databases with an update after seq.
After(seq) == {d \in DBs : updateSeq[d] > seq}

\* What listener u has not finished with: its batch, and what it is to read; a
\* listener that is down will start at the saved seq.
Open(u) == IF phase[u] = "down" THEN After(saved)
           ELSE updatedDBs[u] \cup After(lastSeq[u])

ReplicatorFeed == INSTANCE UpdateFeed WITH
  owed <- undirtied["replicator"], open <- [u \in Listeners |-> Open(u)]

ChangeListenerFeed == INSTANCE UpdateFeed WITH
  owed <- undirtied["change_listener"], open <- [u \in Listeners |-> Open(u)]

\* Every step is a step of UpdateFeed, for the replicators and for the change
\* listeners: a batch ends for both only when both are dirtied, and whoever
\* restarts, at whatever seq was saved last by whom, skips only what some listener
\* has finished with.
ImplementsUpdateFeed == ReplicatorFeed!Spec /\ ChangeListenerFeed!Spec

\* What the second half of it rests on: the saved seq is not past an update that
\* every listener has still open.
SavedIsBehind == \A u \in Listeners : \E v \in Listeners : Open(v) \subseteq After(saved)
=============================================================================
