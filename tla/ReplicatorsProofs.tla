------------------------- MODULE ReplicatorsProofs -------------------------
(***************************************************************************)
(* For any number of replicators, processes, workers and update listeners, *)
(* any delays, any bound on faults and changes:                            *)
(*   TypeCorrect         the type invariant                                *)
(*   OneHolder           mutual exclusion of the lock, if nothing is slow  *)
(*   UpdatesAreKept      no update is lost, with every kind of fault       *)
(*   MarksAreDisciplined the replicators implement DirtyMarks              *)
(*   DirtyingIsOfFeed    and their part of UpdateFeed                      *)
(***************************************************************************)
EXTENDS Replicators, ProcessProofs

-----------------------------------------------------------------------------
(* The type invariant.                                                     *)

LEMMA InitTyped == Init => TypeOK /\ LockInv
<1> SUFFICES ASSUME Init PROVE TypeOK /\ LockInv
  OBVIOUS
<1>1. ProcessTypeOK /\ LockInv
  BY ProcessInitTyped DEF Init
<1>2. ListenersTyped /\ WorkTyped
  BY ReplicatorsAssumption DEF Init, ListenersTyped, WorkTyped, ItemsOf
<1> QED
  BY <1>1, <1>2 DEF TypeOK

\* The steps of the engine and of the replications keep the types.
LEMMA WorkStepTyped ==
  ASSUME TypeOK,
         \/ Engine(ProcessStep)
         \/ \E w \in Workers : ReplicationStep(w)
         \/ \E db \in DBs : Change(db)
  PROVE  TypeOK'
<1> USE ReplicatorsAssumption
<1>1. ProcessTypeOK /\ ListenersTyped /\ WorkTyped
  BY DEF TypeOK
<1>2. CASE Engine(ProcessStep)
  <2>1. ProcessTypeOK'
    BY <1>1, <1>2, ProcessStepTyped DEF Engine
  <2>2. ListenersTyped'
    BY <1>1, <1>2 DEF Engine, listenerVars, ListenersTyped
  <2>3. WorkTyped'
    BY <1>1, <1>2 DEF Engine, WorkTyped
  <2> QED
    BY <2>1, <2>2, <2>3 DEF TypeOK
<1>3. CASE \E w \in Workers : ReplicationStep(w)
  <2>1. PICK w \in Workers : ReplicationStep(w)
    BY <1>3
  <2>2. \/ BeginProcess(w) \/ ProcessSucceeds(w) \/ ProcessThrows(w)
        \/ UnlockAndClean(w, FALSE)
    BY <2>1 DEF ReplicationStep, BeginReplication, ReplicationDone, ReplicationFails,
                UnlockAndCleanReplicator
  <2>3. ProcessTypeOK'
    BY <1>1, <2>2, WorkerTyped
  <2>4. ListenersTyped'
    BY <1>1, <2>1 DEF ReplicationStep, BeginReplication, ReplicationDone, ReplicationFails,
                UnlockAndCleanReplicator, listenerVars, ListenersTyped
  <2>5. WorkTyped'
    BY <1>1, <2>1 DEF ReplicationStep, BeginReplication, ReplicationDone, ReplicationFails,
                UnlockAndCleanReplicator, workVars, WorkTyped
  <2> QED
    BY <2>3, <2>4, <2>5 DEF TypeOK
<1>4. CASE \E db \in DBs : Change(db)
  <2>1. PICK db \in DBs : Change(db)
    BY <1>4
  <2>2. ProcessTypeOK'
    BY <1>1, <2>1 DEF Change, processVars, ProcessTypeOK
  <2>3. ListenersTyped'
    BY <1>1, <2>1 DEF Change, ListenersTyped
  <2>4. WorkTyped'
    BY <1>1, <2>1 DEF Change, WorkTyped, ItemsOf
  <2> QED
    BY <2>2, <2>3, <2>4 DEF TypeOK
<1> QED
  BY <1>2, <1>3, <1>4

\* A listener changes nothing of the engine but revisions, soilers and faults;
\* Dirty also writes.
LEMMA ListenerKeepsEngine ==
  ASSUME ProcessTypeOK, NEW u \in Listeners,
         ListenerStep(u)
  PROVE  ProcessTypeOK'
<1> USE ProcessAssumption
<1>1. faults \in 0..MaxFaults
  BY DEF ProcessTypeOK
<1>2. CASE HearUpdates(u) \/ RetryConflicted(u)
  BY <1>2 DEF HearUpdates, RetryConflicted, processVars, ProcessTypeOK
<1>3. CASE GetCleanOrLocked(u)
  <2>1. PICK S \in SUBSET Items : current' = [current EXCEPT ![u] = S]
    BY <1>3 DEF GetCleanOrLocked, ItemsOf
  <2> QED
    BY <1>3, <2>1 DEF GetCleanOrLocked, procVars, workerVars, ProcessTypeOK, Holders
<1>4. CASE DirtyDone(u)
  BY <1>4 DEF DirtyDone, procVars, workerVars, ProcessTypeOK, Soilers
<1>5. CASE \E i \in Items : Dirty(u, i)
  <2>1. PICK i \in Items : Dirty(u, i)
    BY <1>5
  <2>2. UNCHANGED <<soiling, phase, todo, stalled, pc, item, faults>>
    BY <2>1 DEF Dirty, procVars, workerVars
  <2>3. CASE i \in current[u]
    <3>1. PICK d \in Docs : Store(i, d, {})
      BY <2>1, <2>3, DocsTyped DEF ProcessTypeOK, Dirty, DirtiedDoc
    <3> QED
      BY <1>1, <2>2, <3>1, PlainStoreTyped DEF ProcessTypeOK
  <2>4. CASE i \notin current[u]
    BY <2>1, <2>2, <2>4 DEF Dirty, dbVars, ProcessTypeOK
  <2> QED
    BY <2>3, <2>4
<1>6. CASE CrashListener(u)
  <2>1. faults' \in 0..MaxFaults
    BY <1>1, <1>6, FaultTyped DEF CrashListener
  <2> QED
    BY <1>6, <2>1 DEF CrashListener, procVars, workerVars, ProcessTypeOK, Soilers, Holders
<1> QED
  BY <1>2, <1>3, <1>4, <1>5, <1>6 DEF ListenerStep

LEMMA ListenerStepTyped ==
  ASSUME TypeOK, NEW u \in Listeners, ListenerStep(u)
  PROVE  TypeOK'
<1> USE ReplicatorsAssumption
<1>1. ProcessTypeOK /\ ListenersTyped /\ WorkTyped
  BY DEF TypeOK
<1>2. ProcessTypeOK'
  BY <1>1, ListenerKeepsEngine
<1>3. WorkTyped'
  BY <1>1 DEF ListenerStep, HearUpdates, GetCleanOrLocked, RetryConflicted, DirtyDone, Dirty,
              CrashListener, workVars, WorkTyped
<1>4. ListenersTyped'
  <2>1. CASE HearUpdates(u)
    <3>1. PICK S \in SUBSET updates[u] :
            /\ S # {}
            /\ updates' = [updates EXCEPT ![u] = @ \ S]
            /\ batch' = [batch EXCEPT ![u] = S]
            /\ names' = [names EXCEPT ![u] = S]
      BY <2>1 DEF HearUpdates
    <3>2. rows[u] = {} /\ conflicted[u] = {}
      BY <1>1, <2>1 DEF HearUpdates, ListenersTyped, ItemsOf
    <3>3. /\ S \in SUBSET DBs /\ S # {}
          /\ rows' = rows /\ conflicted' = conflicted
          /\ stage' = [stage EXCEPT ![u] = "reading"]
      BY <1>1, <2>1, <3>1 DEF HearUpdates, ListenersTyped
    <3>4. \A v \in Listeners : /\ stage'[v] = "idle" <=> names'[v] = {}
                               /\ stage'[v] = "idle" => batch'[v] = {}
                               /\ names'[v] \subseteq batch'[v]
                               /\ conflicted'[v] \subseteq names'[v]
                               /\ rows'[v] \subseteq ItemsOf(names'[v])
      BY <1>1, <3>1, <3>2, <3>3 DEF ListenersTyped
    <3>5. /\ updates' \in [Listeners -> SUBSET DBs]
          /\ batch' \in [Listeners -> SUBSET DBs]
          /\ names' \in [Listeners -> SUBSET DBs]
          /\ stage' \in [Listeners -> {"idle", "reading", "writing"}]
      BY <1>1, <3>1, <3>3 DEF ListenersTyped
    <3> QED
      BY <1>1, <3>3, <3>4, <3>5 DEF ListenersTyped, ItemsOf
  <2>2. CASE GetCleanOrLocked(u)
    BY <1>1, <2>2 DEF GetCleanOrLocked, ListenersTyped, ItemsOf
  <2>3. CASE RetryConflicted(u)
    BY <1>1, <2>3 DEF RetryConflicted, ListenersTyped, ItemsOf
  <2>4. CASE DirtyDone(u)
    BY <1>1, <2>4 DEF DirtyDone, ListenersTyped, ItemsOf
  <2>5. CASE \E i \in Items : Dirty(u, i)
    BY <1>1, <2>5 DEF Dirty, ListenersTyped, ItemsOf
  <2>6. CASE CrashListener(u)
    BY <1>1, <2>6 DEF CrashListener, ListenersTyped, ItemsOf
  <2> QED
    BY <2>1, <2>2, <2>3, <2>4, <2>5, <2>6 DEF ListenerStep
<1> QED
  BY <1>2, <1>3, <1>4 DEF TypeOK

LEMMA NextTyped == TypeOK /\ [Next]_vars => TypeOK'
<1> SUFFICES ASSUME TypeOK, [Next]_vars PROVE TypeOK'
  OBVIOUS
<1>1. CASE Next
  BY <1>1, WorkStepTyped, ListenerStepTyped DEF Next
<1>2. CASE UNCHANGED vars
  BY <1>2 DEF vars, processVars, TypeOK, ProcessTypeOK, ListenersTyped, WorkTyped
<1> QED
  BY <1>1, <1>2

\* Every variable of the replicators keeps its type, and the batch of a listener
\* the shape that dirtyIfCleanOrLocked gives it.
THEOREM TypeCorrect == Spec => []TypeOK
<1>1. Init => TypeOK
  BY InitTyped
<1>2. TypeOK /\ [Next]_vars => TypeOK'
  BY NextTyped
<1> QED
  BY <1>1, <1>2, PTL DEF Spec

-----------------------------------------------------------------------------
(* Mutual exclusion of the lock (_lock): the engine keeps LockInv, and what *)
(* this module adds never writes locked_at.                                *)

LEMMA ListenerKeepsLock ==
  ASSUME TypeOK, LockInv, NEW u \in Listeners, ListenerStep(u)
  PROVE  LockInv'
<1>1. ProcessTypeOK
  BY DEF TypeOK
<1>2. UNCHANGED <<pc, item, phase, todo, stalled>>
  BY DEF ListenerStep, HearUpdates, GetCleanOrLocked, RetryConflicted, DirtyDone, Dirty,
         CrashListener, processVars, procVars, workerVars
<1>3. CASE \E i \in Items : Dirty(u, i) /\ i \in current[u]
  <2>1. PICK i \in Items : Dirty(u, i) /\ i \in current[u]
    BY <1>3
  <2>2. PICK d \in Docs, keepers \in SUBSET Workers :
          d = DirtiedDoc(i) /\ Store(i, d, keepers) /\ keepers = {}
    BY <1>1, <2>1, DocsTyped DEF ProcessTypeOK, Dirty, DirtiedDoc
  <2>3. /\ docs'[i] = d
        /\ \A j \in Items \ {i} : docs'[j] = docs[j]
        /\ \A h \in Workers \cup Procs : current'[h] \subseteq current[h]
    BY <1>1, <2>2, StoreEffect
  <2>4. \A j \in Items : docs'[j].locked_at = docs[j].locked_at
    BY <2>2, <2>3 DEF DirtiedDoc, SetDirtyAt
  <2> QED
    BY <1>1, <1>2, <2>3, <2>4, LockFrame
<1>4. CASE \/ HearUpdates(u) \/ GetCleanOrLocked(u) \/ RetryConflicted(u) \/ DirtyDone(u)
           \/ CrashListener(u)
           \/ \E i \in Items : Dirty(u, i) /\ i \notin current[u]
  <2>1. UNCHANGED docs
    BY <1>4 DEF HearUpdates, GetCleanOrLocked, RetryConflicted, DirtyDone, Dirty,
                CrashListener, processVars, dbVars
  <2>2. \E S : current' = [current EXCEPT ![u] = S] \/ UNCHANGED current
    BY <1>4 DEF HearUpdates, GetCleanOrLocked, RetryConflicted, DirtyDone, Dirty,
                CrashListener, processVars, dbVars
  <2>3. \A h \in Workers \cup Procs : current'[h] \subseteq current[h]
    BY <1>1, <2>2, ProcessAssumption DEF ProcessTypeOK, Holders
  <2> QED
    BY <1>1, <1>2, <2>1, <2>3, LockFrame
<1> QED
  BY <1>3, <1>4 DEF ListenerStep

\* The lock is sound, whatever conflicts, crashes and failed requests there are, as
\* long as no replication outlives retryAfterSeconds: it lasts while its worker
\* works, nobody is handed an item that another has locked, and no unstaller
\* unlocks it (_lock, _unlockStalled, _unlock).
THEOREM LockIsSound == "slow" \notin Faults /\ Spec => []LockInv
<1> SUFFICES ASSUME "slow" \notin Faults PROVE Spec => []LockInv
  OBVIOUS
<1>1. Init => TypeOK /\ LockInv
  BY InitTyped
<1>2. TypeOK /\ LockInv /\ [Next]_vars => TypeOK' /\ LockInv'
  <2> SUFFICES ASSUME TypeOK, LockInv, [Next]_vars PROVE LockInv'
    BY NextTyped
  <2>1. CASE Engine(ProcessStep)
    BY <2>1, ProcessStepKeepsLock DEF Engine, TypeOK
  <2>2. CASE \E w \in Workers : ReplicationStep(w)
    BY <2>2, WorkerKeepsLock
    DEF TypeOK, ReplicationStep, BeginReplication, ReplicationDone, ReplicationFails,
        UnlockAndCleanReplicator
  <2>3. CASE \E u \in Listeners : ListenerStep(u)
    BY <2>3, ListenerKeepsLock
  <2>4. CASE \E db \in DBs : Change(db)
    BY <2>4, LockFrame DEF Change, processVars, TypeOK
  <2>5. CASE UNCHANGED vars
    BY <2>5, LockFrame DEF vars, processVars, TypeOK
  <2> QED
    BY <2>1, <2>2, <2>3, <2>4, <2>5 DEF Next
<1> QED
  BY <1>1, <1>2, PTL DEF Spec

\* Two workers never handle the same replicator at once, whatever conflicts,
\* crashes and failed requests there are, as long as no replication outlives
\* retryAfterSeconds.
THEOREM OneHolder == "slow" \notin Faults /\ Spec => []MutualExclusion
<1>1. LockInv => MutualExclusion
  BY DEF LockInv
<1> QED
  BY <1>1, LockIsSound, PTL

-----------------------------------------------------------------------------
(* No update is lost.  NoLostUpdate is not inductive: the clean update of a *)
(* worker must be one that hides nothing (CleanIsJustified), and a listener *)
(* must find the item of a working worker locked (HolderSeesLock).          *)

KeptInv == TypeOK /\ HolderSeesLock /\ CleanIsJustified /\ NoLostUpdate

\* All listeners still have to deal with the changes of the item.
AllUnresolved(i) == \A u \in Listeners : Unresolved(u, i)

\* A step keeps the two facts if it loses no mark and finishes no update, and
\* if no worker comes nearer to its clean update.
LEMMA KeptFrame ==
  ASSUME TypeOK, NoLostUpdate, CleanIsJustified,
         behind' \subseteq behind,
         \A i \in Items : Marked(docs[i]) => Marked(docs'[i]),
         \A i \in behind : AllUnresolved(i) => AllUnresolved(i)',
         \A w \in Workers : pc'[w] \in {"processing", "processed"} =>
            \/ pc'[w] = "processing" /\ covers'[w]
            \/ /\ pc'[w] = pc[w] /\ current'[w] \subseteq current[w]
               /\ pc[w] = "processing" => (covers'[w] <=> covers[w])
  PROVE  NoLostUpdate' /\ CleanIsJustified'
<1>1. NoLostUpdate'
  BY DEF TypeOK, WorkTyped, NoLostUpdate, AllUnresolved
<1>2. CleanIsJustified'
  <2> SUFFICES ASSUME NEW w \in Workers, NEW i \in behind',
                      pc'[w] \in {"processing", "processed"}, i \in current'[w],
                      ~(pc'[w] = "processing" /\ covers'[w])
               PROVE  AllUnresolved(i)'
    BY DEF CleanIsJustified, AllUnresolved
  <2>1. i \in behind /\ i \in current[w] /\ pc'[w] = pc[w]
        /\ ~(pc[w] = "processing" /\ covers[w])
    OBVIOUS
  <2>2. AllUnresolved(i)
    BY <2>1 DEF CleanIsJustified, AllUnresolved
  <2> QED
    BY <2>1, <2>2
<1> QED
  BY <1>1, <1>2

\* The steps of the engine: they know nothing of changes or listeners.
LEMMA EngineKeeps ==
  ASSUME KeptInv, Engine(ProcessStep)
  PROVE  HolderSeesLock' /\ CleanIsJustified' /\ NoLostUpdate'
<1>1. Effect /\ HolderSeesLock'
  BY ProcessStepEffect DEF KeptInv, TypeOK, Engine
<1>2. \A i \in behind : AllUnresolved(i) => AllUnresolved(i)'
  BY DEF Engine, listenerVars, AllUnresolved, Unresolved
<1>3. covers' = [w \in Workers |-> covers[w] /\ pc'[w] = "processing"] /\ behind' = behind
  BY DEF Engine
<1> QED
  BY <1>1, <1>2, <1>3, KeptFrame DEF Effect, KeptInv

\* The steps of a replication, the clean update among them.
LEMMA ReplicationKeeps ==
  ASSUME KeptInv, NEW w \in Workers, ReplicationStep(w)
  PROVE  HolderSeesLock' /\ CleanIsJustified' /\ NoLostUpdate'
<1>1. TypeOK /\ ProcessTypeOK /\ HolderSeesLock /\ CleanIsJustified /\ NoLostUpdate
  BY DEF KeptInv, TypeOK
<1>2. \A i \in behind : AllUnresolved(i) => AllUnresolved(i)'
  BY DEF ReplicationStep, BeginReplication, ReplicationDone, ReplicationFails,
         UnlockAndCleanReplicator, listenerVars, AllUnresolved, Unresolved
<1>3. CASE BeginReplication(w) \/ ReplicationFails(w)
  <2>1. /\ UNCHANGED <<docs, current, item, behind>>
        /\ pc'[w] \in {"processing", "failed"}
        /\ BeginReplication(w) => pc[w] = "locked" /\ covers'[w]
        /\ pc'[w] = "processing" => covers'[w] /\ pc[w] = "locked"
        /\ \A v \in Workers \ {w} : pc'[v] = pc[v] /\ covers'[v] = covers[v]
    BY <1>1, <1>3 DEF ProcessTypeOK, TypeOK, WorkTyped, BeginReplication, ReplicationFails,
                      BeginProcess, ProcessThrows, Goto, dbVars
  <2>2. NoLostUpdate' /\ CleanIsJustified'
    BY <1>1, <1>2, <2>1, KeptFrame
  <2>3. HolderSeesLock'
    BY <1>1, <2>1 DEF HolderSeesLock
  <2> QED
    BY <2>2, <2>3
<1>4. CASE ReplicationDone(w)
  <2>1. /\ UNCHANGED <<docs, current, item>>
        /\ pc[w] = "processing" /\ pc'[w] = "processed"
        /\ behind' = IF covers[w] THEN behind \ {item[w]} ELSE behind
        /\ \A v \in Workers \ {w} : pc'[v] = pc[v] /\ covers'[v] = covers[v]
    BY <1>1, <1>4 DEF ProcessTypeOK, TypeOK, WorkTyped, ReplicationDone, ProcessSucceeds,
                      Goto, dbVars
  <2>2. NoLostUpdate'
    BY <1>1, <1>2, <2>1 DEF NoLostUpdate, AllUnresolved
  <2>3. CleanIsJustified'
    <3> SUFFICES ASSUME NEW v \in Workers, NEW i \in behind',
                        pc'[v] \in {"processing", "processed"}, i \in current'[v],
                        ~(pc'[v] = "processing" /\ covers'[v])
                 PROVE  AllUnresolved(i)'
      BY DEF CleanIsJustified, AllUnresolved
    <3>1. i \in behind /\ i \in current[v]
      BY <2>1
    <3>2. v = w => ~covers[w]
      BY <1>1, <2>1, <3>1 DEF ProcessTypeOK
    <3>3. AllUnresolved(i)
      BY <1>1, <2>1, <3>1, <3>2 DEF CleanIsJustified, AllUnresolved
    <3> QED
      BY <1>2, <3>1, <3>3
  <2>4. HolderSeesLock'
    BY <1>1, <2>1 DEF HolderSeesLock
  <2> QED
    BY <2>2, <2>3, <2>4
<1>5. CASE UnlockAndCleanReplicator(w)
  <2>1. /\ pc[w] = "processed" /\ item[w] \in current[w] /\ item[w] \in Items
        /\ UNCHANGED <<behind, covers>>
        /\ pc'[w] = "idle"
        /\ \A v \in Workers \ {w} : pc'[v] = pc[v] /\ item'[v] = item[v]
    BY <1>1, <1>5 DEF ProcessTypeOK, UnlockAndCleanReplicator, UnlockAndClean, Release, workVars
  <2>2. PICK i \in Items, d \in Docs, keepers \in SUBSET Workers :
          i = item[w] /\ keepers = {} /\ Store(i, d, keepers)
    <3>1. CleanedDoc(docs[item[w]], FALSE) \in Docs
      BY <1>1, <2>1, DocsTyped DEF ProcessTypeOK
    <3> QED
      BY <1>5, <2>1, <3>1 DEF UnlockAndCleanReplicator, UnlockAndClean
  <2>3. /\ \A j \in Items \ {i} : docs'[j] = docs[j]
        /\ \A v \in Workers : current'[v] = current[v] \ {i}
    BY <1>1, <2>2, StoreEffect
  <2>4. i \in behind => AllUnresolved(i)
    BY <1>1, <2>1, <2>2 DEF CleanIsJustified, AllUnresolved
  <2>5. NoLostUpdate'
    BY <1>1, <1>2, <2>1, <2>3, <2>4 DEF TypeOK, WorkTyped, NoLostUpdate, AllUnresolved
  <2>6. CleanIsJustified'
    BY <1>1, <1>2, <2>1, <2>3 DEF CleanIsJustified, AllUnresolved
  <2>7. HolderSeesLock'
    BY <1>1, <2>1, <2>2, <2>3 DEF ProcessTypeOK, HolderSeesLock, IsLocked
  <2> QED
    BY <2>5, <2>6, <2>7
<1> QED
  BY <1>3, <1>4, <1>5 DEF ReplicationStep

\* The steps of a listener.  Between two requests it keeps track of what it has
\* to do; what it reads as not to be dirtied is marked; what it dirties is lost
\* to the workers that have its revision.
LEMMA ListenerKeeps ==
  ASSUME KeptInv, NEW u \in Listeners, ListenerStep(u)
  PROVE  HolderSeesLock' /\ CleanIsJustified' /\ NoLostUpdate'
<1> USE ReplicatorsAssumption
<1>1. /\ TypeOK /\ ProcessTypeOK /\ ListenersTyped /\ WorkTyped
      /\ HolderSeesLock /\ CleanIsJustified /\ NoLostUpdate
  BY DEF KeptInv, TypeOK
<1>2. UNCHANGED <<pc, item, behind, covers>>
  BY DEF ListenerStep, HearUpdates, GetCleanOrLocked, RetryConflicted, DirtyDone, Dirty,
         CrashListener, processVars, workerVars, workVars
<1>3. CASE HearUpdates(u) \/ RetryConflicted(u) \/ DirtyDone(u) \/ CrashListener(u)
  <2>1. UNCHANGED docs /\ \A w \in Workers : current'[w] = current[w]
    <3>1. UNCHANGED docs /\ \E S : current' = [current EXCEPT ![u] = S] \/ UNCHANGED current
      BY <1>3 DEF HearUpdates, RetryConflicted, DirtyDone, CrashListener, processVars
    <3> QED
      BY <1>1, <3>1, ProcessAssumption DEF ProcessTypeOK, Holders
  <2>2. ASSUME NEW i \in behind, AllUnresolved(i)
        PROVE  AllUnresolved(i)'
    <3>0. SourceOf[i] \in DBs
      BY <1>1 DEF WorkTyped
    <3>1. CASE HearUpdates(u)
      BY <1>1, <2>2, <3>0, <3>1 DEF HearUpdates, AllUnresolved, Unresolved, ListenersTyped
    <3>2. CASE RetryConflicted(u)
      BY <1>1, <2>2, <3>2 DEF RetryConflicted, AllUnresolved, Unresolved, ListenersTyped
    <3>3. CASE DirtyDone(u)
      BY <1>1, <2>2, <3>3 DEF DirtyDone, AllUnresolved, Unresolved, ListenersTyped
    <3>4. CASE CrashListener(u)
      <4>1. PICK v \in Listeners, T \in SUBSET DBs :
              updates[v] \cup batch[v] \subseteq T /\ updates' = [updates EXCEPT ![u] = T]
        BY <3>4 DEF CrashListener
      <4>2. SourceOf[i] \in T
        BY <1>1, <2>2, <4>1 DEF AllUnresolved, Unresolved, ListenersTyped
      <4>3. Unresolved(u, i)'
        BY <1>1, <4>1, <4>2 DEF Unresolved, ListenersTyped
      <4>4. \A x \in Listeners \ {u} : Unresolved(x, i)' <=> Unresolved(x, i)
        BY <1>1, <3>4, <4>1 DEF CrashListener, Unresolved, ListenersTyped
      <4> QED
        BY <2>2, <4>3, <4>4 DEF AllUnresolved
    <3> QED
      BY <1>3, <3>1, <3>2, <3>3, <3>4
  <2>3. NoLostUpdate' /\ CleanIsJustified'
    BY <1>1, <1>2, <2>1, <2>2, KeptFrame
  <2>4. HolderSeesLock'
    BY <1>1, <1>2, <2>1 DEF HolderSeesLock
  <2> QED
    BY <2>3, <2>4
<1>4. CASE GetCleanOrLocked(u)
  <2>1. PICK found :
          /\ found = {i \in ItemsOf(names[u]) : CleanOrLocked(docs[i])}
          /\ rows' = [rows EXCEPT ![u] = found]
          /\ current' = [current EXCEPT ![u] = found]
          /\ UNCHANGED <<docs, updates, names>>
    BY <1>4 DEF GetCleanOrLocked
  <2>2. \A w \in Workers : current'[w] = current[w]
    BY <1>1, <2>1, ProcessAssumption DEF ProcessTypeOK, Holders
  <2>3. ASSUME NEW i \in behind, AllUnresolved(i)
        PROVE  AllUnresolved(i)' \/ (Marked(docs[i]) /\ ~IsLocked(docs[i]))
    <3>1. CASE CleanOrLocked(docs[i])
      BY <1>1, <1>4, <2>1, <2>3, <3>1
      DEF GetCleanOrLocked, AllUnresolved, Unresolved, ListenersTyped, WorkTyped, ItemsOf
    <3>2. CASE ~CleanOrLocked(docs[i])
      BY <3>2 DEF CleanOrLocked, Marked
    <3> QED
      BY <3>1, <3>2
  <2>4. NoLostUpdate'
    BY <1>1, <1>2, <2>1, <2>3 DEF NoLostUpdate, AllUnresolved
  <2>5. CleanIsJustified'
    <3> SUFFICES ASSUME NEW w \in Workers, NEW i \in behind,
                        pc[w] \in {"processing", "processed"}, i \in current[w],
                        ~(pc[w] = "processing" /\ covers[w])
                 PROVE  AllUnresolved(i)'
      BY <1>2, <2>2 DEF CleanIsJustified, AllUnresolved
    <3>1. AllUnresolved(i)
      BY <1>1 DEF CleanIsJustified, AllUnresolved
    <3>2. IsLocked(docs[i])
      BY <1>1 DEF ProcessTypeOK, HolderSeesLock
    <3> QED
      BY <2>3, <3>1, <3>2
  <2>6. HolderSeesLock'
    BY <1>1, <1>2, <2>1, <2>2 DEF HolderSeesLock
  <2> QED
    BY <2>4, <2>5, <2>6
<1>5. CASE \E i \in Items : Dirty(u, i)
  <2>1. PICK i \in Items : Dirty(u, i)
    BY <1>5
  <2>2. CASE i \in current[u]
    <3>1. PICK d \in Docs, keepers \in SUBSET Workers :
            d = DirtiedDoc(i) /\ Store(i, d, keepers) /\ keepers = {}
      BY <1>1, <2>1, <2>2, DocsTyped DEF ProcessTypeOK, Dirty, DirtiedDoc
    <3>2. /\ docs'[i] = d
          /\ \A j \in Items \ {i} : docs'[j] = docs[j]
          /\ \A w \in Workers : current'[w] = current[w] \ {i}
      BY <1>1, <3>1, StoreEffect
    <3>3. Marked(d) /\ d.locked_at = docs[i].locked_at
      BY <3>1 DEF DirtiedDoc, SetDirtyAt, Marked
    <3>4. \A j \in behind \ {i} : AllUnresolved(j) => AllUnresolved(j)'
      BY <1>1, <2>1, <2>2 DEF Dirty, AllUnresolved, Unresolved, ListenersTyped
    <3>5. NoLostUpdate'
      BY <1>1, <1>2, <3>2, <3>3, <3>4 DEF WorkTyped, NoLostUpdate, AllUnresolved
    <3>6. CleanIsJustified'
      BY <1>1, <1>2, <3>2, <3>4 DEF CleanIsJustified, AllUnresolved
    <3>7. HolderSeesLock'
      BY <1>1, <1>2, <3>2, <3>3 DEF ProcessTypeOK, HolderSeesLock, IsLocked
    <3> QED
      BY <3>5, <3>6, <3>7
  <2>3. CASE i \notin current[u]
    <3>1. UNCHANGED <<docs, current>>
      BY <2>1, <2>3 DEF Dirty, dbVars
    <3>2. \A j \in behind : AllUnresolved(j) => AllUnresolved(j)'
      BY <1>1, <2>1, <2>3 DEF Dirty, AllUnresolved, Unresolved, ListenersTyped
    <3>3. NoLostUpdate' /\ CleanIsJustified'
      BY <1>1, <1>2, <3>1, <3>2, KeptFrame
    <3>4. HolderSeesLock'
      BY <1>1, <1>2, <3>1 DEF HolderSeesLock
    <3> QED
      BY <3>3, <3>4
  <2> QED
    BY <2>2, <2>3
<1> QED
  BY <1>3, <1>4, <1>5 DEF ListenerStep

LEMMA ChangeKeeps ==
  ASSUME KeptInv, NEW db \in DBs, Change(db)
  PROVE  HolderSeesLock' /\ CleanIsJustified' /\ NoLostUpdate'
<1>1. /\ TypeOK /\ ProcessTypeOK /\ ListenersTyped /\ WorkTyped
      /\ HolderSeesLock /\ CleanIsJustified /\ NoLostUpdate
  BY DEF KeptInv, TypeOK
<1>2. /\ UNCHANGED <<docs, current, pc, item>>
      /\ behind' = behind \cup ItemsOf({db})
      /\ covers' = [w \in Workers |-> covers[w] /\ item[w] \notin ItemsOf({db})]
  BY DEF Change, processVars
<1>3. \A i \in ItemsOf({db}) : AllUnresolved(i)'
  BY <1>1 DEF Change, AllUnresolved, Unresolved, ListenersTyped, ItemsOf
<1>4. \A i \in behind : AllUnresolved(i) => AllUnresolved(i)'
  BY <1>1 DEF Change, AllUnresolved, Unresolved, ListenersTyped
<1>5. NoLostUpdate'
  BY <1>1, <1>2, <1>3, <1>4 DEF NoLostUpdate, AllUnresolved
<1>6. CleanIsJustified'
  <2> SUFFICES ASSUME NEW w \in Workers, NEW i \in behind', i \notin ItemsOf({db}),
                      pc[w] \in {"processing", "processed"}, i \in current[w],
                      ~(pc[w] = "processing" /\ covers'[w])
               PROVE  AllUnresolved(i)'
    BY <1>2, <1>3 DEF CleanIsJustified, AllUnresolved
  <2>1. i = item[w] /\ i \in behind
    BY <1>1, <1>2 DEF ProcessTypeOK
  <2>2. ~(pc[w] = "processing" /\ covers[w])
    BY <1>2, <2>1
  <2> QED
    BY <1>1, <1>4, <2>1, <2>2 DEF CleanIsJustified, AllUnresolved
<1>7. HolderSeesLock'
  BY <1>1, <1>2 DEF HolderSeesLock
<1> QED
  BY <1>5, <1>6, <1>7

LEMMA KeptInvariant == Spec => []KeptInv
<1>1. Init => KeptInv
  <2> SUFFICES ASSUME Init PROVE KeptInv
    OBVIOUS
  <2>1. TypeOK
    BY InitTyped
  <2>2. HolderSeesLock /\ CleanIsJustified
    BY DEF Init, ProcessInit, EngineInit, HolderSeesLock, CleanIsJustified
  <2>3. NoLostUpdate
    BY DEF Init, ProcessInit, EngineInit, NoLostUpdate, Marked
  <2> QED
    BY <2>1, <2>2, <2>3 DEF KeptInv
<1>2. KeptInv /\ [Next]_vars => KeptInv'
  <2> SUFFICES ASSUME KeptInv, [Next]_vars PROVE KeptInv'
    OBVIOUS
  <2>1. TypeOK'
    BY NextTyped DEF KeptInv
  <2>2. CASE Next
    BY <2>1, <2>2, EngineKeeps, ReplicationKeeps, ListenerKeeps, ChangeKeeps
    DEF Next, KeptInv
  <2>3. CASE UNCHANGED vars
    BY <2>1, <2>3 DEF vars, processVars, KeptInv, HolderSeesLock, CleanIsJustified,
                      NoLostUpdate, Unresolved
  <2> QED
    BY <2>2, <2>3
<1> QED
  BY <1>1, <1>2, PTL DEF Spec

\* No update is lost, with any number of listeners, workers and processes, with
\* every kind of fault, slow actions included.
THEOREM UpdatesAreKept == Spec => []NoLostUpdate
<1>1. KeptInv => NoLostUpdate
  BY DEF KeptInv
<1> QED
  BY <1>1, KeptInvariant, PTL

\* A worker that cleans its item hides no change that it has not replicated:
\* dirtyIfCleanOrLocked gives a locked item a new revision, and the clean is an
\* update that then conflicts (_unlockAndClean).
THEOREM CleansAreJustified == Spec => []CleanIsJustified
<1>1. KeptInv => CleanIsJustified
  BY DEF KeptInv
<1> QED
  BY <1>1, KeptInvariant, PTL

-----------------------------------------------------------------------------
(* The replicators implement DirtyMarks: one lemma per kind of step.        *)

AbstractStep == [Abstract!Next]_(Abstract!vars)

\* A step that only marks items is a Mark.
LEMMA MarkStep ==
  ASSUME UNCHANGED <<behind, updates, batch>>,
         \A i \in Items : Marked(docs[i]) => Marked(docs'[i])
  PROVE  AbstractStep
<1> DEFINE S == MarkedItems'
<1>1. MarkedItems' = MarkedItems \cup S /\ S \in SUBSET Items
  BY DEF MarkedItems
<1>2. HeardItems' = HeardItems
  BY DEF HeardItems
<1>3. Abstract!Mark(S)
  BY <1>1, <1>2 DEF Abstract!Mark
<1> QED
  BY <1>1, <1>3 DEF AbstractStep, Abstract!Next

LEMMA ReplicationImplements ==
  ASSUME KeptInv, NEW w \in Workers, ReplicationStep(w)
  PROVE  AbstractStep
<1>1. /\ ProcessTypeOK /\ ListenersTyped /\ WorkTyped /\ CleanIsJustified
  BY DEF KeptInv, TypeOK
<1>2. UNCHANGED <<updates, batch>>
  BY DEF ReplicationStep, BeginReplication, ReplicationDone, ReplicationFails,
         UnlockAndCleanReplicator, listenerVars
<1>3. HeardItems' = HeardItems
  BY <1>2 DEF HeardItems
<1>4. CASE BeginReplication(w) \/ ReplicationFails(w)
  BY <1>2, <1>4, MarkStep
  DEF BeginReplication, ReplicationFails, BeginProcess, ProcessThrows, dbVars
<1>5. CASE ReplicationDone(w)
  <2>1. item[w] \in Items /\ MarkedItems' = MarkedItems
    BY <1>1, <1>5 DEF ProcessTypeOK, ReplicationDone, ProcessSucceeds, dbVars, MarkedItems
  <2>2. CASE covers[w]
    <3>1. Abstract!Serve(item[w])
      BY <1>3, <1>5, <2>1, <2>2 DEF Abstract!Serve, ReplicationDone
    <3> QED
      BY <2>1, <3>1 DEF AbstractStep, Abstract!Next
  <2>3. CASE ~covers[w]
    BY <1>2, <1>5, <2>3, MarkStep DEF ReplicationDone, ProcessSucceeds, dbVars
  <2> QED
    BY <2>2, <2>3
<1>6. CASE UnlockAndCleanReplicator(w)
  <2>1. PICK i \in Items, d \in Docs :
          i = item[w] /\ Store(i, d, {}) /\ ~Marked(d)
    <3>1. item[w] \in Items
      BY <1>1, <1>6 DEF ProcessTypeOK, UnlockAndCleanReplicator, UnlockAndClean
    <3>2. CleanedDoc(docs[item[w]], FALSE) \in Docs
      BY <1>1, <3>1, DocsTyped DEF ProcessTypeOK
    <3>3. ~Marked(CleanedDoc(docs[item[w]], FALSE))
      BY DEF CleanedDoc, Marked
    <3>4. Store(item[w], CleanedDoc(docs[item[w]], FALSE), {})
      BY <1>6 DEF UnlockAndCleanReplicator, UnlockAndClean
    <3> QED
      BY <3>1, <3>2, <3>3, <3>4
  <2>2. docs'[i] = d /\ \A j \in Items \ {i} : docs'[j] = docs[j]
    BY <1>1, <2>1 DEF Store, ProcessTypeOK
  <2>3. MarkedItems' = MarkedItems \ {i}
    BY <2>1, <2>2 DEF MarkedItems
  <2>4. i \notin behind \/ i \notin HeardItems
    BY <1>1, <1>6, <2>1
    DEF UnlockAndCleanReplicator, UnlockAndClean, CleanIsJustified, Unresolved, HeardItems,
        ListenersTyped
  <2>5. Abstract!Clear(i)
    BY <1>3, <1>6, <2>3, <2>4 DEF Abstract!Clear, UnlockAndCleanReplicator, workVars
  <2> QED
    BY <2>5 DEF AbstractStep, Abstract!Next
<1> QED
  BY <1>4, <1>5, <1>6 DEF ReplicationStep

LEMMA ListenerImplements ==
  ASSUME KeptInv, NEW u \in Listeners, ListenerStep(u)
  PROVE  AbstractStep
<1>1. /\ ProcessTypeOK /\ ListenersTyped /\ WorkTyped /\ NoLostUpdate
  BY DEF KeptInv, TypeOK
<1>2. behind' = behind
  BY DEF ListenerStep, HearUpdates, GetCleanOrLocked, RetryConflicted, DirtyDone, Dirty,
         CrashListener, workVars
<1>3. CASE GetCleanOrLocked(u) \/ RetryConflicted(u)
  BY <1>2, <1>3, MarkStep DEF GetCleanOrLocked, RetryConflicted, processVars
<1>4. CASE HearUpdates(u)
  <2>1. updates'[u] \cup batch'[u] = updates[u] \cup batch[u]
    BY <1>1, <1>4 DEF HearUpdates, ListenersTyped
  <2>2. \A v \in Listeners \ {u} : updates'[v] = updates[v] /\ batch'[v] = batch[v]
    BY <1>1, <1>4 DEF HearUpdates, ListenersTyped
  <2>3. HeardItems' = HeardItems
    BY <2>1, <2>2 DEF HeardItems
  <2>4. MarkedItems' = MarkedItems
    BY <1>4 DEF HearUpdates, processVars, MarkedItems
  <2> QED
    BY <1>2, <2>3, <2>4 DEF AbstractStep, Abstract!vars
<1>5. CASE \E i \in Items : Dirty(u, i)
  <2>1. PICK i \in Items : Dirty(u, i)
    BY <1>5
  <2>2. UNCHANGED <<updates, batch>>
    BY <2>1 DEF Dirty
  <2>3. CASE i \in current[u]
    <3>1. PICK d \in Docs, keepers \in SUBSET Workers :
            d = DirtiedDoc(i) /\ Store(i, d, keepers) /\ keepers = {}
      BY <1>1, <2>1, <2>3, DocsTyped DEF ProcessTypeOK, Dirty, DirtiedDoc
    <3>2. docs'[i] = d /\ \A j \in Items \ {i} : docs'[j] = docs[j]
      BY <1>1, <3>1, StoreEffect
    <3>3. Marked(d)
      BY <3>1 DEF DirtiedDoc, SetDirtyAt, Marked
    <3> QED
      BY <1>2, <2>2, <3>2, <3>3, MarkStep
  <2>4. CASE i \notin current[u]
    BY <1>2, <2>1, <2>2, <2>4, MarkStep DEF Dirty, dbVars
  <2> QED
    BY <2>3, <2>4
<1>6. CASE DirtyDone(u)
  <2>1. MarkedItems' = MarkedItems
    BY <1>6 DEF DirtyDone, MarkedItems
  <2>2. /\ updates' = updates /\ batch'[u] = {}
        /\ \A v \in Listeners \ {u} : batch'[v] = batch[v]
    BY <1>1, <1>6 DEF DirtyDone, ListenersTyped
  <2>3. HeardItems' = HeardItems \cup {i \in Items : SourceOf[i] \notin updates[u]}
    BY <2>2 DEF HeardItems
  <2> DEFINE S == {i \in Items : SourceOf[i] \notin updates[u]}
  <2>4. S \cap behind \subseteq MarkedItems
    BY <1>1, <1>6 DEF DirtyDone, NoLostUpdate, Unresolved, MarkedItems, ListenersTyped
  <2>5. Abstract!Report(S)
    BY <1>2, <2>1, <2>3, <2>4 DEF Abstract!Report
  <2> QED
    BY <2>5 DEF AbstractStep, Abstract!Next
<1>7. CASE CrashListener(u)
  <2>1. MarkedItems' = MarkedItems
    BY <1>7 DEF CrashListener, MarkedItems
  <2>2. PICK v \in Listeners, T \in SUBSET DBs :
          updates[v] \cup batch[v] \subseteq T /\ updates' = [updates EXCEPT ![u] = T]
    BY <1>7 DEF CrashListener
  <2>3. /\ updates'[u] = T
        /\ \A x \in Listeners \ {u} : updates'[x] = updates[x] /\ batch'[x] = batch[x]
    BY <1>1, <1>7, <2>2 DEF CrashListener, ListenersTyped
  <2>4. HeardItems' \subseteq HeardItems
    BY <2>2, <2>3 DEF HeardItems
  <2> DEFINE S == HeardItems \ HeardItems'
  <2>5. HeardItems' = HeardItems \ S /\ S \in SUBSET Items
    BY <2>4 DEF HeardItems
  <2>6. Abstract!Replay(S)
    BY <1>2, <2>1, <2>5 DEF Abstract!Replay
  <2> QED
    BY <2>5, <2>6 DEF AbstractStep, Abstract!Next
<1> QED
  BY <1>3, <1>4, <1>5, <1>6, <1>7 DEF ListenerStep

LEMMA ChangeImplements ==
  ASSUME KeptInv, NEW db \in DBs, Change(db)
  PROVE  AbstractStep
<1>1. ListenersTyped
  BY DEF KeptInv, TypeOK
<1> DEFINE S == ItemsOf({db})
<1>2. S \in SUBSET Items /\ behind' = behind \cup S
  BY DEF ItemsOf, Change
<1>3. MarkedItems' = MarkedItems
  BY DEF Change, processVars, MarkedItems
<1>4. \A u \in Listeners : updates'[u] = updates[u] \cup {db} /\ batch'[u] = batch[u]
  BY <1>1 DEF Change, ListenersTyped
<1>5. HeardItems' = HeardItems \ S
  BY <1>4 DEF HeardItems, ItemsOf
<1>6. Abstract!Change(S)
  BY <1>2, <1>3, <1>5 DEF Abstract!Change
<1> QED
  BY <1>2, <1>6 DEF AbstractStep, Abstract!Next

\* Whatever the workers, listeners, unstallers and soilers do, in any order and
\* with any fault: no mark is cleared while a heard change is not replicated,
\* and no batch is reported as done before its replicators are marked.
THEOREM MarksAreDisciplined == Spec => ImplementsDirtyMarks
<1>1. Init => Abstract!Init
  BY DEF Init, ProcessInit, EngineInit, Abstract!Init, MarkedItems, HeardItems, Marked
<1>2. KeptInv /\ [Next]_vars => AbstractStep
  <2> SUFFICES ASSUME KeptInv, [Next]_vars PROVE AbstractStep
    OBVIOUS
  <2>1. CASE Engine(ProcessStep)
    <3>1. Effect
      BY <2>1, ProcessStepEffect DEF Engine, KeptInv, TypeOK
    <3> QED
      BY <2>1, <3>1, MarkStep DEF Engine, listenerVars, Effect
  <2>2. CASE UNCHANGED vars
    BY <2>2, MarkStep DEF vars, processVars
  <2> QED
    BY <2>1, <2>2, ReplicationImplements, ListenerImplements, ChangeImplements DEF Next
<1>3. Spec => []KeptInv
  BY KeptInvariant
<1> QED
  BY <1>1, <1>2, <1>3, PTL DEF Spec, ImplementsDirtyMarks, Abstract!Spec, AbstractStep

\* The discipline is enough: whoever follows it leaves no change unmarked that
\* has been heard.
THEOREM MarksSuffice == ImplementsDirtyMarks => []Abstract!OwedIsMarked
<1>1. Abstract!Init => Abstract!OwedIsMarked
  BY DEF Abstract!Init, Abstract!OwedIsMarked
<1>2. Abstract!OwedIsMarked /\ [Abstract!Next]_(Abstract!vars) => Abstract!OwedIsMarked'
  BY DEF Abstract!OwedIsMarked, Abstract!Next, Abstract!vars, Abstract!Change, Abstract!Mark,
         Abstract!Report, Abstract!Replay, Abstract!Serve, Abstract!Clear
<1> QED
  BY <1>1, <1>2, PTL DEF ImplementsDirtyMarks, Abstract!Spec

-----------------------------------------------------------------------------
(* The replicators implement UpdateFeed: again one lemma per kind of step.  *)

FeedStep == [Feed!Next]_(Feed!vars)

LEMMA UndirtiedTyped == WorkTyped => Undirtied \in SUBSET DBs
BY ReplicatorsAssumption DEF WorkTyped, Undirtied

\* A step after which no more is to be dirtied, and no listener has more or less
\* to deal with, is a Dirty.
LEMMA QuietStep ==
  ASSUME WorkTyped,
         \A i \in behind' : ~Marked(docs'[i]) => i \in behind /\ ~Marked(docs[i]),
         \A u \in Listeners : updates'[u] \cup batch'[u] = updates[u] \cup batch[u]
  PROVE  FeedStep
<1>1. Undirtied' \subseteq Undirtied
  BY DEF Undirtied
<1> DEFINE S == Undirtied \ Undirtied'
<1>2. S \in SUBSET DBs /\ Undirtied' = Undirtied \ S
  BY <1>1, UndirtiedTyped
<1>3. Feed!Dirty(S)
  BY <1>2 DEF Feed!Dirty
<1> QED
  BY <1>2, <1>3 DEF FeedStep, Feed!Next

\* A replication only serves its item, and its clean update takes a mark away that
\* all listeners have still to set, or that of an item that is owed nothing.
LEMMA ReplicationIsOfFeed ==
  ASSUME KeptInv, NEW w \in Workers, ReplicationStep(w)
  PROVE  FeedStep
<1>1. /\ ProcessTypeOK /\ ListenersTyped /\ WorkTyped /\ CleanIsJustified
  BY DEF KeptInv, TypeOK
<1>2. UNCHANGED <<updates, batch>>
  BY DEF ReplicationStep, BeginReplication, ReplicationDone, ReplicationFails,
         UnlockAndCleanReplicator, listenerVars
<1>3. CASE BeginReplication(w) \/ ReplicationDone(w) \/ ReplicationFails(w)
  <2>1. docs' = docs /\ behind' \subseteq behind
    BY <1>3 DEF BeginReplication, ReplicationDone, ReplicationFails, BeginProcess,
                ProcessSucceeds, ProcessThrows, dbVars
  <2> QED
    BY <1>1, <1>2, <2>1, QuietStep
<1>4. CASE UnlockAndCleanReplicator(w)
  <2>1. PICK i \in Items, d \in Docs : i = item[w] /\ Store(i, d, {})
    <3>1. item[w] \in Items
      BY <1>1, <1>4 DEF ProcessTypeOK, UnlockAndCleanReplicator, UnlockAndClean
    <3>2. CleanedDoc(docs[item[w]], FALSE) \in Docs
      BY <1>1, <3>1, DocsTyped DEF ProcessTypeOK
    <3> QED
      BY <1>4, <3>1, <3>2 DEF UnlockAndCleanReplicator, UnlockAndClean
  <2>2. docs'[i] = d /\ \A j \in Items \ {i} : docs'[j] = docs[j]
    BY <1>1, <2>1 DEF Store, ProcessTypeOK
  <2>3. behind' = behind
    BY <1>4 DEF UnlockAndCleanReplicator, workVars
  <2>4. CASE i \notin behind
    BY <1>1, <1>2, <2>2, <2>3, <2>4, QuietStep DEF WorkTyped
  <2>5. CASE i \in behind
    <3>1. \A u \in Listeners : SourceOf[i] \in updates[u] \cup batch[u]
      BY <1>1, <1>4, <2>1, <2>5
      DEF UnlockAndCleanReplicator, UnlockAndClean, CleanIsJustified, Unresolved,
          ListenersTyped
    <3>2. CASE Marked(docs[i]) /\ ~Marked(d)
      <4>1. Undirtied' = Undirtied \cup {SourceOf[i]}
        BY <1>1, <2>2, <2>3, <2>5, <3>2 DEF WorkTyped, Undirtied
      <4>2. SourceOf[i] \in DBs
        BY ReplicatorsAssumption
      <4>3. Feed!Update(SourceOf[i])
        BY <1>2, <3>1, <4>1 DEF Feed!Update
      <4> QED
        BY <4>2, <4>3 DEF FeedStep, Feed!Next
    <3>3. CASE ~(Marked(docs[i]) /\ ~Marked(d))
      BY <1>1, <1>2, <2>2, <2>3, <3>3, QuietStep DEF WorkTyped
    <3> QED
      BY <3>2, <3>3
  <2> QED
    BY <2>4, <2>5
<1> QED
  BY <1>3, <1>4 DEF ReplicationStep

\* A listener's reads, writes and retries are dirtying; the end of its batch is a
\* Finish, since by then all replicators of the batch are marked.
LEMMA ListenerIsOfFeed ==
  ASSUME KeptInv, NEW u \in Listeners, ListenerStep(u)
  PROVE  FeedStep
<1>1. /\ ProcessTypeOK /\ ListenersTyped /\ WorkTyped /\ NoLostUpdate
  BY DEF KeptInv, TypeOK
<1>2. behind' = behind
  BY DEF ListenerStep, HearUpdates, GetCleanOrLocked, RetryConflicted, DirtyDone, Dirty,
         CrashListener, workVars
<1>3. CASE GetCleanOrLocked(u) \/ RetryConflicted(u)
  BY <1>1, <1>2, <1>3, QuietStep DEF GetCleanOrLocked, RetryConflicted, processVars
<1>4. CASE HearUpdates(u)
  <2>1. updates'[u] \cup batch'[u] = updates[u] \cup batch[u]
    BY <1>1, <1>4 DEF HearUpdates, ListenersTyped
  <2>2. \A v \in Listeners \ {u} : updates'[v] = updates[v] /\ batch'[v] = batch[v]
    BY <1>1, <1>4 DEF HearUpdates, ListenersTyped
  <2>3. docs' = docs
    BY <1>4 DEF HearUpdates, processVars
  <2> QED
    BY <1>1, <1>2, <2>1, <2>2, <2>3, QuietStep
<1>5. CASE \E i \in Items : Dirty(u, i)
  <2>1. PICK i \in Items : Dirty(u, i)
    BY <1>5
  <2>2. UNCHANGED <<updates, batch>>
    BY <2>1 DEF Dirty
  <2>3. CASE i \in current[u]
    <3>1. PICK d \in Docs, keepers \in SUBSET Workers :
            d = DirtiedDoc(i) /\ Store(i, d, keepers) /\ keepers = {}
      BY <1>1, <2>1, <2>3, DocsTyped DEF ProcessTypeOK, Dirty, DirtiedDoc
    <3>2. docs'[i] = d /\ \A j \in Items \ {i} : docs'[j] = docs[j]
      BY <1>1, <3>1, StoreEffect
    <3>3. Marked(d)
      BY <3>1 DEF DirtiedDoc, SetDirtyAt, Marked
    <3> QED
      BY <1>1, <1>2, <2>2, <3>2, <3>3, QuietStep DEF WorkTyped
  <2>4. CASE i \notin current[u]
    BY <1>1, <1>2, <2>1, <2>2, <2>4, QuietStep DEF Dirty, dbVars
  <2> QED
    BY <2>3, <2>4
<1>6. CASE DirtyDone(u)
  <2>1. docs' = docs /\ updates' = updates
    BY <1>6 DEF DirtyDone
  <2>2. batch' = [batch EXCEPT ![u] = {}] /\ rows[u] = {} /\ conflicted[u] = {}
        /\ stage[u] = "writing"
    BY <1>6 DEF DirtyDone
  <2>3. PICK S \in SUBSET DBs : S = batch[u] \ updates[u]
    BY <1>1 DEF ListenersTyped
  <2>4. Undirtied' = Undirtied
    BY <1>2, <2>1 DEF Undirtied
  <2>5. Undirtied \subseteq updates[u]
    BY <1>1, <2>2 DEF Undirtied, NoLostUpdate, Unresolved
  <2>6. \A v \in Listeners : updates'[v] \cup batch'[v] =
          IF v = u THEN (updates[u] \cup batch[u]) \ S ELSE updates[v] \cup batch[v]
    BY <1>1, <2>1, <2>2, <2>3 DEF ListenersTyped
  <2>7. Feed!Finish(u, S)
    BY <2>3, <2>4, <2>5, <2>6 DEF Feed!Finish
  <2> QED
    BY <2>7 DEF FeedStep, Feed!Next
<1>7. CASE CrashListener(u)
  <2>1. Undirtied' = Undirtied
    BY <1>2, <1>7 DEF CrashListener, Undirtied
  <2>2. PICK v \in Listeners, T \in SUBSET DBs :
          updates[v] \cup batch[v] \subseteq T /\ updates' = [updates EXCEPT ![u] = T]
    BY <1>7 DEF CrashListener
  <2>3. /\ updates'[u] = T /\ batch'[u] = {}
        /\ \A x \in Listeners \ {u} : updates'[x] = updates[x] /\ batch'[x] = batch[x]
    BY <1>1, <1>7, <2>2 DEF CrashListener, ListenersTyped
  <2>4. Feed!Restart({u}, v, T)
    BY <2>1, <2>2, <2>3 DEF Feed!Restart
  <2> QED
    BY <2>4 DEF FeedStep, Feed!Next
<1> QED
  BY <1>3, <1>4, <1>5, <1>6, <1>7 DEF ListenerStep

LEMMA ChangeIsOfFeed ==
  ASSUME KeptInv, NEW db \in DBs, Change(db)
  PROVE  FeedStep
<1>1. ListenersTyped /\ WorkTyped
  BY DEF KeptInv, TypeOK
<1>2. docs' = docs /\ behind' = behind \cup ItemsOf({db})
  BY DEF Change, processVars
<1>3. \A u \in Listeners : updates'[u] = updates[u] \cup {db} /\ batch'[u] = batch[u]
  BY <1>1 DEF Change, ListenersTyped
<1>4. Undirtied' = Undirtied \/ Undirtied' = Undirtied \cup {db}
  BY <1>2 DEF Undirtied, ItemsOf
<1>5. Feed!Update(db)
  BY <1>3, <1>4 DEF Feed!Update
<1> QED
  BY <1>5 DEF FeedStep, Feed!Next

\* dirtyIfCleanOrLocked, with its conflicts, retries and crashes, is to the update
\* listeners what they take it for: when a batch ends, every replicator of its
\* databases that is owed a change is marked, and no worker takes a mark away
\* that some listener has finished setting.
THEOREM DirtyingIsOfFeed == Spec => ImplementsUpdateFeed
<1>1. Init => Feed!Init
  BY DEF Init, ProcessInit, EngineInit, Feed!Init, Undirtied, Marked
<1>2. KeptInv /\ [Next]_vars => FeedStep
  <2> SUFFICES ASSUME KeptInv, [Next]_vars PROVE FeedStep
    OBVIOUS
  <2>0. WorkTyped
    BY DEF KeptInv, TypeOK
  <2>1. CASE Engine(ProcessStep)
    <3>1. Effect
      BY <2>1, ProcessStepEffect DEF Engine, KeptInv, TypeOK
    <3>2. behind' = behind /\ UNCHANGED <<updates, batch>>
      BY <2>1 DEF Engine, listenerVars
    <3>3. \A i \in behind : Marked(docs[i]) => Marked(docs'[i])
      BY <2>0, <3>1 DEF Effect, WorkTyped
    <3> QED
      BY <2>0, <3>2, <3>3, QuietStep
  <2>2. CASE UNCHANGED vars
    BY <2>0, <2>2, QuietStep DEF vars, processVars
  <2> QED
    BY <2>1, <2>2, ReplicationIsOfFeed, ListenerIsOfFeed, ChangeIsOfFeed DEF Next
<1>3. Spec => []KeptInv
  BY KeptInvariant
<1> QED
  BY <1>1, <1>2, <1>3, PTL DEF Spec, ImplementsUpdateFeed, Feed!Spec, FeedStep
=============================================================================
