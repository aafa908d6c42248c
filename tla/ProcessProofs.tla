--------------------------- MODULE ProcessProofs ---------------------------
(***************************************************************************)
(* What every step of Process preserves, whatever class derives from it:   *)
(* the type invariant, and, when no action outlives retryAfterSeconds, the *)
(* inductive invariant of the lock.                                        *)
(***************************************************************************)
EXTENDS Process, TLAPS

\* A write keeps the types of what it changes.
DbTyped == /\ docs \in [Items -> Docs]
           /\ current \in [Holders -> SUBSET Items]
           /\ feed \in [Procs -> SUBSET Items]
           /\ soiler \in SUBSET Soilers

LEMMA StoreTyped ==
  ASSUME ProcessTypeOK, NEW i \in Items, NEW d \in Docs, NEW keepers,
         Store(i, d, keepers)
  PROVE  /\ DbTyped'
         /\ docs' = [docs EXCEPT ![i] = d]
         /\ \A h \in Holders : current'[h] = IF h \in keepers THEN current[h] \cup {i}
                                                             ELSE current[h] \ {i}
  BY DEF ProcessTypeOK, DbTyped, Store, Soilers, Holders

\* Every document written by _lock, _unlockAndClean and the upserts is one.
LEMMA DocsTyped ==
  ASSUME NEW d \in Docs
  PROVE  /\ \A l \in {"null", "recent", "stalled"} : SetLockedAt(d, l) \in Docs
         /\ \A leave \in BOOLEAN : CleanedDoc(d, leave) \in Docs
         /\ \A x \in {"true", "false", "undefined"}, l \in {"null", "later", "due"} :
              SetDirtyAt(d, x, l) \in Docs
  BY DEF Docs, CleanedDoc, SetLockedAt, SetDirtyAt

\* A write by a worker that then keeps or releases its item: only the variables
\* of the database and of the workers change.
LEMMA WorkerStoreTyped ==
  ASSUME ProcessTypeOK, NEW w \in Workers, pc[w] # "idle",
         NEW d \in Docs, NEW keepers \in {{w}, {}},
         Store(item[w], d, keepers),
         \/ keepers = {w} /\ \E label \in Critical : Goto(w, label)
         \/ keepers = {} /\ Release(w),
         UNCHANGED <<soiling, phase, todo, stalled>>,
         faults' \in 0..MaxFaults
  PROVE  ProcessTypeOK'
<1>1. PICK i \in Items : i = item[w]
  BY DEF ProcessTypeOK
<1>2. Store(i, d, keepers)
  BY <1>1
<1>3. /\ DbTyped'
      /\ \A h \in Holders : current'[h] = IF h \in keepers THEN current[h] \cup {i}
                                                           ELSE current[h] \ {i}
  BY <1>2, StoreTyped
<1>4. \A v \in Workers : /\ pc'[v] = "idle" <=> item'[v] = NoItem
                         /\ current'[v] \subseteq {item'[v]}
  <2>1. ASSUME NEW v \in Workers
        PROVE  /\ v \in Holders
               /\ current'[v] = IF v \in keepers THEN current[v] \cup {i}
                                                 ELSE current[v] \ {i}
    BY <1>3 DEF Holders
  <2>2. CASE keepers = {w} /\ \E label \in Critical : Goto(w, label)
    <3>1. item' = item /\ pc'[w] # "idle" /\ \A v \in Workers \ {w} : pc'[v] = pc[v]
      BY <2>2 DEF ProcessTypeOK, Goto, Critical
    <3> QED
      BY <1>1, <2>1, <2>2, <3>1 DEF ProcessTypeOK
  <2>3. CASE keepers = {} /\ Release(w)
    <3>1. /\ item'[w] = NoItem /\ pc'[w] = "idle"
          /\ \A v \in Workers \ {w} : pc'[v] = pc[v] /\ item'[v] = item[v]
      BY <2>3 DEF ProcessTypeOK, Release
    <3> QED
      BY <1>1, <2>1, <2>3, <3>1 DEF ProcessTypeOK
  <2> QED
    BY <2>2, <2>3
<1>5. /\ pc' \in [Workers -> {"idle", "got"} \cup Critical]
      /\ item' \in [Workers -> Items \cup {NoItem}]
  BY DEF ProcessTypeOK, Goto, Release
<1> QED
  BY <1>3, <1>4, <1>5 DEF ProcessTypeOK, DbTyped

\* A fault is counted, up to the bound.
LEMMA FaultTyped ==
  ASSUME faults \in 0..MaxFaults, NEW kind, Fault(kind)
  PROVE  faults' \in 0..MaxFaults
  BY ProcessAssumption DEF Fault

\* The steps of _lockProcessUnlock keep the type invariant.
LEMMA WorkerTyped ==
  ASSUME ProcessTypeOK, NEW w \in Workers,
         WorkerStep(w) \/ BeginProcess(w) \/ ProcessSucceeds(w) \/ ProcessThrows(w)
           \/ (\E leave \in BOOLEAN : UnlockAndClean(w, leave))
  PROVE  ProcessTypeOK'
<1> DEFINE d == docs[item[w]]
<1>1. pc[w] # "idle" => item[w] \in Items /\ d \in Docs
  BY DEF ProcessTypeOK
<1>2. faults \in 0..MaxFaults
  BY DEF ProcessTypeOK
<1>3. CASE Lock(w)
  <2>1. SetLockedAt(d, "recent") \in Docs /\ pc[w] # "idle"
    BY <1>1, <1>3, DocsTyped DEF Lock
  <2> QED
    BY <1>2, <1>3, <2>1, WorkerStoreTyped DEF Lock, Critical
<1>4. CASE LockAnswerLost(w)
  <2>1. SetLockedAt(d, "recent") \in Docs /\ pc[w] # "idle" /\ faults' \in 0..MaxFaults
    BY <1>1, <1>2, <1>4, DocsTyped, FaultTyped DEF LockAnswerLost
  <2> QED
    BY <1>4, <2>1, WorkerStoreTyped DEF LockAnswerLost
<1>5. CASE UpsertUnlock(w)
  <2>1. SetLockedAt(d, "null") \in Docs /\ pc[w] # "idle"
    BY <1>1, <1>5, DocsTyped DEF UpsertUnlock
  <2> QED
    BY <1>2, <1>5, <2>1, WorkerStoreTyped DEF UpsertUnlock
<1>6. CASE \E leave \in BOOLEAN : UnlockAndClean(w, leave)
  <2>1. PICK leave \in BOOLEAN : UnlockAndClean(w, leave)
    BY <1>6
  <2>2. CleanedDoc(d, leave) \in Docs /\ pc[w] # "idle"
    BY <1>1, <2>1, DocsTyped DEF UnlockAndClean
  <2> QED
    BY <1>2, <2>1, <2>2, WorkerStoreTyped DEF UnlockAndClean
<1>7. CASE LockConflict(w)
  BY <1>7, ProcessAssumption
  DEF ProcessTypeOK, LockConflict, Release, dbVars, Critical, Holders
<1>8. CASE LockRequestLost(w) \/ UnlockRequestLost(w)
  BY <1>2, <1>8, ProcessAssumption, FaultTyped
  DEF ProcessTypeOK, LockRequestLost, UnlockRequestLost, Forget, Release, Critical, Holders
<1>9. CASE UnlockAndCleanConflict(w) \/ BeginProcess(w) \/ ProcessSucceeds(w)
             \/ ProcessThrows(w)
  BY <1>2, <1>9, ProcessAssumption, FaultTyped
  DEF ProcessTypeOK, UnlockAndCleanConflict, BeginProcess, ProcessSucceeds,
      ProcessThrows, Goto, dbVars, Critical
<1> QED
  BY <1>3, <1>4, <1>5, <1>6, <1>7, <1>8, <1>9 DEF WorkerStep

\* A write that involves no worker.
LEMMA PlainStoreTyped ==
  ASSUME ProcessTypeOK, NEW i \in Items, NEW d \in Docs, Store(i, d, {}),
         UNCHANGED <<phase, todo, pc, item>>,
         soiling' \in [Soilers -> SUBSET Items],
         stalled' \in [Procs -> SUBSET Items],
         faults' \in 0..MaxFaults
  PROVE  ProcessTypeOK'
<1>1. PICK keepers : keepers = {} /\ Store(i, d, keepers)
  OBVIOUS
<1>2. /\ DbTyped'
      /\ \A h \in Holders : current'[h] = IF h \in keepers THEN current[h] \cup {i}
                                                           ELSE current[h] \ {i}
  BY <1>1, StoreTyped
<1>3. \A v \in Workers : /\ pc'[v] = "idle" <=> item'[v] = NoItem
                         /\ current'[v] \subseteq {item'[v]}
  BY <1>1, <1>2 DEF ProcessTypeOK, Holders
<1> QED
  BY <1>2, <1>3 DEF ProcessTypeOK, DbTyped

\* The steps of start(), stop() and the unstaller keep the type invariant.
LEMMA ProcTyped ==
  ASSUME ProcessTypeOK, NEW p \in Procs, ProcStep(p)
  PROVE  ProcessTypeOK'
<1> USE ProcessAssumption
<1>1. faults \in 0..MaxFaults
  BY DEF ProcessTypeOK
<1>2. CASE GetLastSeq(p)
  BY <1>2 DEF ProcessTypeOK, GetLastSeq, Phases
<1>3. CASE LoadDirty(p)
  BY <1>3 DEF ProcessTypeOK, LoadDirty, Phases, Holders
<1>4. CASE StartListening(p)
  BY <1>4 DEF ProcessTypeOK, StartListening, Phases, Holders, Soilers
<1>5. CASE Stop(p)
  BY <1>1, <1>5, FaultTyped DEF ProcessTypeOK, Stop, Phases
<1>6. CASE Stopped(p)
  BY <1>6 DEF ProcessTypeOK, Stopped, Phases, Holders
<1>7. CASE Crash(p)
  <2>1. faults' \in 0..MaxFaults
    BY <1>1, <1>7, FaultTyped DEF Crash
  <2>2. /\ pc' \in [Workers -> {"idle", "got"} \cup Critical]
        /\ item' \in [Workers -> Items \cup {NoItem}]
        /\ current' \in [Holders -> SUBSET Items]
    BY <1>7 DEF ProcessTypeOK, Crash, Holders
  <2>3. \A w \in Workers : /\ pc'[w] = "idle" <=> item'[w] = NoItem
                           /\ current'[w] \subseteq {item'[w]}
    BY <1>7 DEF ProcessTypeOK, Crash, Holders
  <2> QED
    BY <1>7, <2>1, <2>2, <2>3 DEF ProcessTypeOK, Crash, Phases
<1>8. CASE ReadStalled(p)
  BY <1>8 DEF ProcessTypeOK, ReadStalled, StalledItems, Holders
<1>9. CASE UnstallerFails(p)
  BY <1>1, <1>9, FaultTyped DEF ProcessTypeOK, UnstallerFails, Forget, Holders
<1>10. CASE \E i \in Items : UnlockStalled(p, i)
  <2>1. PICK i \in Items : UnlockStalled(p, i)
    BY <1>10
  <2>2. stalled' \in [Procs -> SUBSET Items]
    BY <2>1 DEF ProcessTypeOK, UnlockStalled
  <2>3. CASE i \in current[p]
    <3>1. SetLockedAt(docs[i], "null") \in Docs
      BY DocsTyped DEF ProcessTypeOK
    <3> QED
      BY <1>1, <2>1, <2>2, <2>3, <3>1, PlainStoreTyped DEF UnlockStalled, ProcessTypeOK
  <2>4. CASE i \notin current[p]
    BY <2>1, <2>2, <2>4 DEF UnlockStalled, ProcessTypeOK, dbVars
  <2> QED
    BY <2>3, <2>4
<1>11. CASE \E w \in WorkersOf(p), i \in Items : OnDirtyRow(w, i) \/ OnChange(w, i)
  <2>1. PICK w \in Workers, i \in Items : OnDirtyRow(w, i) \/ OnChange(w, i)
    BY <1>11 DEF WorkersOf
  <2>2. /\ pc[w] = "idle"
        /\ pc' = [pc EXCEPT ![w] = "got"]
        /\ item' = [item EXCEPT ![w] = i]
        /\ \E c \in {{i}, {}} : current' = [current EXCEPT ![w] = c]
    BY <2>1 DEF OnDirtyRow, OnChange, Receive
  <2>3. /\ pc' \in [Workers -> {"idle", "got"} \cup Critical]
        /\ item' \in [Workers -> Items \cup {NoItem}]
        /\ current' \in [Holders -> SUBSET Items]
    BY <2>2 DEF ProcessTypeOK, Holders
  <2>4. ASSUME NEW v \in Workers
        PROVE  /\ pc'[v] = "idle" <=> item'[v] = NoItem
               /\ current'[v] \subseteq {item'[v]}
    <3>1. PICK c \in {{i}, {}} : current' = [current EXCEPT ![w] = c]
      BY <2>2
    <3>2. w \in DOMAIN current /\ w \in DOMAIN pc /\ w \in DOMAIN item
      BY DEF ProcessTypeOK, Holders
    <3>3. CASE v = w
      <4>1. pc'[v] = "got" /\ item'[v] = i /\ current'[v] = c
        BY <2>2, <3>1, <3>2, <3>3
      <4> QED
        BY <3>1, <4>1
    <3>4. CASE v # w
      <4>1. pc'[v] = pc[v] /\ item'[v] = item[v] /\ current'[v] = current[v]
        BY <2>2, <3>1, <3>2, <3>4 DEF ProcessTypeOK, Holders
      <4> QED
        BY <4>1 DEF ProcessTypeOK
    <3> QED
      BY <3>3, <3>4
  <2>5. todo' \in [Procs -> SUBSET Items] /\ feed' \in [Procs -> SUBSET Items]
    <3>1. CASE OnDirtyRow(w, i)
      BY <3>1 DEF ProcessTypeOK, OnDirtyRow
    <3>2. CASE OnChange(w, i)
      BY <3>2 DEF ProcessTypeOK, OnChange
    <3> QED
      BY <2>1, <3>1, <3>2
  <2>6. UNCHANGED <<docs, soiler, soiling, phase, stalled, faults>>
    BY <2>1 DEF OnDirtyRow, OnChange
  <2> QED
    BY <2>3, <2>4, <2>5, <2>6 DEF ProcessTypeOK
<1> QED
  BY <1>2, <1>3, <1>4, <1>5, <1>6, <1>7, <1>8, <1>9, <1>10, <1>11 DEF ProcStep

\* The steps of a soiler keep the type invariant.
LEMMA SoilerTyped ==
  ASSUME ProcessTypeOK, NEW s \in Soilers, SoilerStep(s)
  PROVE  ProcessTypeOK'
<1>1. faults \in 0..MaxFaults
  BY DEF ProcessTypeOK
<1>2. CASE SoilPendingItems(s)
  BY <1>2 DEF ProcessTypeOK, SoilPendingItems
<1>3. CASE \E i \in Items : SoilItem(s, i)
  <2>1. PICK i \in Items : SoilItem(s, i)
    BY <1>3
  <2>2. SetDirtyAt(docs[i], "true", "null") \in Docs
    BY DocsTyped DEF ProcessTypeOK
  <2>3. soiling' \in [Soilers -> SUBSET Items]
    BY <2>1 DEF ProcessTypeOK, SoilItem
  <2> QED
    BY <1>1, <2>1, <2>2, <2>3, PlainStoreTyped DEF SoilItem, ProcessTypeOK
<1>4. CASE \E i \in Items : SoilItemFails(s, i)
  BY <1>1, <1>4, FaultTyped DEF ProcessTypeOK, SoilItemFails, dbVars
<1> QED
  BY <1>2, <1>3, <1>4 DEF SoilerStep

\* The passing of time keeps the type invariant.
LEMMA TimeTyped ==
  ASSUME ProcessTypeOK, NEW i \in Items, TimeStep(i)
  PROVE  ProcessTypeOK'
<1>1. faults \in 0..MaxFaults
  BY DEF ProcessTypeOK
<1>2. SetLockedAt(docs[i], "stalled") \in Docs /\ SetDirtyAt(docs[i], docs[i].dirty, "due") \in Docs
  BY DocsTyped DEF ProcessTypeOK, Docs
<1> QED
  BY <1>1, <1>2, FaultTyped
  DEF ProcessTypeOK, TimeStep, OrphanLockStalls, SlowLockStalls, Stalls, DirtyAtComes

THEOREM ProcessStepTyped ==
  ASSUME ProcessTypeOK, ProcessStep
  PROVE  ProcessTypeOK'
  BY WorkerTyped, ProcTyped, SoilerTyped, TimeTyped DEF ProcessStep

-----------------------------------------------------------------------------
(* The lock.                                                               *)

\* A step that leaves the locks and the actors alone keeps the invariant: who
\* loses a revision can only do less.
LEMMA LockFrame ==
  ASSUME ProcessTypeOK, LockInv,
         \A i \in Items : docs'[i].locked_at = docs[i].locked_at,
         \A h \in Workers \cup Procs : current'[h] \subseteq current[h],
         UNCHANGED <<pc, item, phase, todo, stalled>>
  PROVE  LockInv'
<1>1. \A w \in Workers : pc[w] = "got" => item[w] \in Items
  BY DEF ProcessTypeOK
<1>2. MutualExclusion' /\ LockIsKept' /\ RowsMatchPhase'
  BY DEF LockInv, MutualExclusion, LockIsKept, RowsMatchPhase, WorksOn
<1>3. ReceivedIsUnlocked'
  BY <1>1 DEF ProcessTypeOK, LockInv, ReceivedIsUnlocked, IsLocked
<1>4. StalledIsStalled'
  BY DEF ProcessTypeOK, LockInv, StalledIsStalled
<1> QED
  BY <1>2, <1>3, <1>4 DEF LockInv

\* A lock that was accepted was free: its revision is one the worker saw
\* unlocked, so nobody works on the item.
LEMMA LockAccepted ==
  ASSUME ProcessTypeOK, LockInv, NEW w \in Workers, NEW keepers \in {{w}, {}},
         pc[w] = "got", item[w] \in current[w],
         Store(item[w], SetLockedAt(docs[item[w]], "recent"), keepers),
         \/ Goto(w, "locked")
         \/ Release(w),
         UNCHANGED <<phase, todo, stalled>>
  PROVE  LockInv'
<1>1. PICK i \in Items : i = item[w]
  BY DEF ProcessTypeOK
<1>2. PICK d \in Docs : d = SetLockedAt(docs[i], "recent")
  BY <1>1, DocsTyped DEF ProcessTypeOK
<1>3. Store(i, d, keepers)
  BY <1>1, <1>2
<1>4. /\ docs' = [docs EXCEPT ![i] = d]
      /\ \A h \in Holders : current'[h] = IF h \in keepers THEN current[h] \cup {i}
                                                           ELSE current[h] \ {i}
  BY <1>3, StoreTyped
<1>5. d.locked_at = "recent" /\ docs[i].locked_at = "null"
  BY <1>1, <1>2 DEF LockInv, ReceivedIsUnlocked, IsLocked, SetLockedAt
<1>6. \A v \in Workers : ~WorksOn(v, i)
  BY <1>5 DEF LockInv, LockIsKept
<1>7. /\ \A v \in Workers \ {w} : pc'[v] = pc[v] /\ item'[v] = item[v]
      /\ \A v \in Workers, j \in Items : WorksOn(v, j)' => WorksOn(v, j) \/ (v = w /\ j = i)
      /\ pc'[w] # "got"
  BY <1>1 DEF ProcessTypeOK, Goto, Release, WorksOn, Critical
<1>8. docs'[i].locked_at = "recent" /\ \A j \in Items \ {i} : docs'[j] = docs[j]
  BY <1>4, <1>5 DEF ProcessTypeOK
<1>others. \A h \in (Workers \ {w}) \cup Procs : current'[h] = current[h] \ {i}
  BY <1>4, ProcessAssumption DEF Holders
<1>9. MutualExclusion'
  BY <1>6, <1>7 DEF LockInv, MutualExclusion
<1>10. LockIsKept'
  BY <1>7, <1>8 DEF LockInv, LockIsKept
<1>11. ReceivedIsUnlocked'
  <2>1. \A v \in Workers : pc'[v] = "got" /\ item'[v] \in current'[v]
                            => ~IsLocked(docs'[item'[v]])
    BY <1>others, <1>7, <1>8 DEF ProcessTypeOK, LockInv, ReceivedIsUnlocked, IsLocked
  <2>2. \A p \in Procs : \A j \in todo'[p] \cap current'[p] : ~IsLocked(docs'[j])
    BY <1>others, <1>8 DEF ProcessTypeOK, LockInv, ReceivedIsUnlocked, IsLocked
  <2> QED
    BY <2>1, <2>2 DEF ReceivedIsUnlocked, IsLocked
<1>12. StalledIsStalled'
  BY <1>others, <1>8 DEF ProcessTypeOK, LockInv, StalledIsStalled
<1>13. RowsMatchPhase'
  BY DEF LockInv, RowsMatchPhase
<1> QED
  BY <1>9, <1>10, <1>11, <1>12, <1>13 DEF LockInv

\* A write of any document for an item that nobody goes on working on: the
\* worker that releases it, or the unstaller for an abandoned lock.
LEMMA UnlockAccepted ==
  ASSUME ProcessTypeOK, LockInv, NEW i \in Items, NEW d \in Docs,
         Store(i, d, {}),
         pc' \in [Workers -> {"idle", "got"} \cup Critical],
         \A v \in Workers : \/ pc'[v] = pc[v] /\ item'[v] = item[v]
                            \/ pc'[v] = "idle",
         \A v \in Workers : ~WorksOn(v, i)',
         UNCHANGED <<phase, todo>>,
         \A p \in Procs : stalled'[p] \subseteq stalled[p]
  PROVE  LockInv'
<1>1. PICK keepers : keepers = {} /\ Store(i, d, keepers)
  OBVIOUS
<1>2. /\ docs' = [docs EXCEPT ![i] = d]
      /\ \A h \in Holders : current'[h] = IF h \in keepers THEN current[h] \cup {i}
                                                           ELSE current[h] \ {i}
  BY <1>1, StoreTyped
<1>3. \A j \in Items \ {i} : docs'[j] = docs[j]
  BY <1>2 DEF ProcessTypeOK
<1>4. \A h \in Workers \cup Procs : current'[h] = current[h] \ {i}
  BY <1>1, <1>2 DEF Holders
<1>5. \A v \in Workers, j \in Items : WorksOn(v, j)' => WorksOn(v, j) /\ j # i
  BY DEF WorksOn, Critical
<1>6. MutualExclusion' /\ LockIsKept'
  BY <1>3, <1>5 DEF LockInv, MutualExclusion, LockIsKept
<1>7. ReceivedIsUnlocked'
  <2>1. \A v \in Workers : pc'[v] = "got" /\ item'[v] \in current'[v]
                            => ~IsLocked(docs'[item'[v]])
    BY <1>3, <1>4 DEF ProcessTypeOK, LockInv, ReceivedIsUnlocked, IsLocked
  <2>2. \A p \in Procs : \A j \in todo'[p] \cap current'[p] : ~IsLocked(docs'[j])
    BY <1>3, <1>4 DEF ProcessTypeOK, LockInv, ReceivedIsUnlocked, IsLocked
  <2> QED
    BY <2>1, <2>2 DEF ReceivedIsUnlocked, IsLocked
<1>8. StalledIsStalled'
  BY <1>3, <1>4 DEF ProcessTypeOK, LockInv, StalledIsStalled
<1>9. RowsMatchPhase'
  <2>1. \A p \in Procs : stalled[p] = {} => stalled'[p] = {}
    OBVIOUS
  <2> QED
    BY <2>1 DEF LockInv, RowsMatchPhase
<1> QED
  BY <1>6, <1>7, <1>8, <1>9 DEF LockInv

\* A worker that goes on to another request, or gives up, writing nothing.
LEMMA WorkerMoves ==
  ASSUME ProcessTypeOK, LockInv, NEW w \in Workers,
         \A v \in Workers \ {w} : pc'[v] = pc[v] /\ item'[v] = item[v],
         \/ pc'[w] = "idle"
         \/ pc[w] \in Critical /\ pc'[w] \in Critical /\ item'[w] = item[w],
         \A h \in Workers \cup Procs : current'[h] \subseteq current[h],
         UNCHANGED <<docs, phase, todo, stalled>>
  PROVE  LockInv'
<1>1. \A v \in Workers, j \in Items : WorksOn(v, j)' => WorksOn(v, j)
  BY DEF WorksOn, Critical
<1>2. \A v \in Workers : pc'[v] = "got" => v # w
  BY DEF Critical
<1>3. MutualExclusion' /\ LockIsKept'
  BY <1>1 DEF LockInv, MutualExclusion, LockIsKept
<1>4. ReceivedIsUnlocked'
  BY <1>2 DEF LockInv, ReceivedIsUnlocked, IsLocked
<1>5. StalledIsStalled' /\ RowsMatchPhase'
  BY DEF LockInv, StalledIsStalled, RowsMatchPhase
<1> QED
  BY <1>3, <1>4, <1>5 DEF LockInv

\* The steps of _lockProcessUnlock keep the lock.
LEMMA WorkerKeepsLock ==
  ASSUME ProcessTypeOK, LockInv, NEW w \in Workers,
         WorkerStep(w) \/ BeginProcess(w) \/ ProcessSucceeds(w) \/ ProcessThrows(w)
           \/ (\E leave \in BOOLEAN : UnlockAndClean(w, leave))
  PROVE  LockInv'
<1> DEFINE d == docs[item[w]]
<1>1. CASE Lock(w)
  BY <1>1, LockAccepted DEF Lock
<1>2. CASE LockAnswerLost(w)
  BY <1>2, LockAccepted DEF LockAnswerLost
<1>3. CASE UpsertUnlock(w) \/ \E leave \in BOOLEAN : UnlockAndClean(w, leave)
  <2>1. PICK i \in Items : i = item[w] /\ WorksOn(w, i)
    BY <1>3 DEF ProcessTypeOK, UpsertUnlock, UnlockAndClean, WorksOn, Critical
  <2>2. SetLockedAt(d, "null") \in Docs /\ \A leave \in BOOLEAN : CleanedDoc(d, leave) \in Docs
    BY <2>1, DocsTyped DEF ProcessTypeOK
  <2>3. PICK e \in Docs : Store(i, e, {})
    BY <1>3, <2>1, <2>2 DEF UpsertUnlock, UnlockAndClean
  <2>4. Release(w) /\ UNCHANGED <<phase, todo, stalled>>
    BY <1>3 DEF UpsertUnlock, UnlockAndClean
  <2>5. /\ pc' \in [Workers -> {"idle", "got"} \cup Critical]
        /\ pc'[w] = "idle"
        /\ \A v \in Workers \ {w} : pc'[v] = pc[v] /\ item'[v] = item[v]
    BY <2>4 DEF ProcessTypeOK, Release
  <2>6. \A v \in Workers : ~WorksOn(v, i)'
    BY <2>1, <2>5 DEF LockInv, MutualExclusion, WorksOn, Critical
  <2>7. \A p \in Procs : stalled'[p] \subseteq stalled[p]
    BY <2>4
  <2> QED
    BY <2>3, <2>4, <2>5, <2>6, <2>7, UnlockAccepted
<1>4. CASE LockConflict(w)
  BY <1>4, WorkerMoves DEF ProcessTypeOK, LockConflict, Release, dbVars
<1>5. CASE LockRequestLost(w) \/ UnlockRequestLost(w)
  <2>1. \A h \in Workers \cup Procs : current'[h] \subseteq current[h]
    BY <1>5 DEF ProcessTypeOK, LockRequestLost, UnlockRequestLost, Forget, Holders
  <2> QED
    BY <1>5, <2>1, WorkerMoves
    DEF ProcessTypeOK, LockRequestLost, UnlockRequestLost, Forget, Release
<1>6. CASE UnlockAndCleanConflict(w) \/ BeginProcess(w) \/ ProcessSucceeds(w)
             \/ ProcessThrows(w)
  <2>1. PICK label \in Critical : Goto(w, label)
    BY <1>6 DEF UnlockAndCleanConflict, BeginProcess, ProcessSucceeds, ProcessThrows, Critical
  <2>2. pc[w] \in Critical /\ UNCHANGED <<docs, current, phase, todo, stalled>>
    BY <1>6 DEF UnlockAndCleanConflict, BeginProcess, ProcessSucceeds, ProcessThrows,
                dbVars, Critical
  <2> QED
    BY <2>1, <2>2, WorkerMoves DEF ProcessTypeOK, Goto
<1> QED
  BY <1>1, <1>2, <1>3, <1>4, <1>5, <1>6 DEF WorkerStep

\* A worker that receives a row, or a change, read while it was unlocked.
LEMMA ReceiveKeepsLock ==
  ASSUME ProcessTypeOK, LockInv, NEW w \in Workers, NEW i \in Items, NEW fresh \in BOOLEAN,
         fresh => ~IsLocked(docs[i]),
         pc[w] = "idle",
         pc' = [pc EXCEPT ![w] = "got"],
         item' = [item EXCEPT ![w] = i],
         current' = [current EXCEPT ![w] = IF fresh THEN {i} ELSE {}],
         \A p \in Procs : todo'[p] \subseteq todo[p],
         UNCHANGED <<docs, phase, stalled>>
  PROVE  LockInv'
<1>1. /\ pc'[w] = "got" /\ item'[w] = i
      /\ \A v \in Workers \ {w} : /\ pc'[v] = pc[v] /\ item'[v] = item[v]
                                  /\ current'[v] = current[v]
      /\ \A p \in Procs : current'[p] = current[p]
      /\ current'[w] = IF fresh THEN {i} ELSE {}
  BY ProcessAssumption DEF ProcessTypeOK, Holders
<1>2. \A v \in Workers, j \in Items : WorksOn(v, j)' => WorksOn(v, j)
  BY <1>1 DEF WorksOn, Critical
<1>3. MutualExclusion' /\ LockIsKept'
  BY <1>2 DEF LockInv, MutualExclusion, LockIsKept
<1>4. ReceivedIsUnlocked'
  BY <1>1 DEF LockInv, ReceivedIsUnlocked, IsLocked
<1>5. StalledIsStalled' /\ RowsMatchPhase'
  <2>1. \A p \in Procs : todo[p] = {} => todo'[p] = {}
    OBVIOUS
  <2> QED
    BY <1>1, <2>1 DEF LockInv, StalledIsStalled, RowsMatchPhase
<1> QED
  BY <1>3, <1>4, <1>5 DEF LockInv

\* The steps of start(), stop() and the unstaller keep the lock.
LEMMA ProcKeepsLock ==
  ASSUME ProcessTypeOK, LockInv, NEW p \in Procs, ProcStep(p)
  PROVE  LockInv'
<1> USE ProcessAssumption
<1>1. CASE GetLastSeq(p)
  BY <1>1 DEF ProcessTypeOK, GetLastSeq, LockInv, MutualExclusion, LockIsKept,
              ReceivedIsUnlocked, RowsMatchPhase, StalledIsStalled, WorksOn, IsLocked
<1>2. CASE LoadDirty(p)
  <2>1. /\ \A h \in Holders \ {p} : current'[h] = current[h]
        /\ \A i \in todo'[p] : ~IsLocked(docs[i])
        /\ \A q \in Procs \ {p} : todo'[q] = todo[q]
        /\ stalled[p] = {}
    BY <1>2 DEF ProcessTypeOK, LoadDirty, DirtyAndUnlocked, Holders, LockInv, RowsMatchPhase
  <2>2. MutualExclusion' /\ LockIsKept'
    BY <1>2 DEF LoadDirty, LockInv, MutualExclusion, LockIsKept, WorksOn
  <2>3. ReceivedIsUnlocked' /\ StalledIsStalled'
    BY <1>2, <2>1 DEF LoadDirty, LockInv, ReceivedIsUnlocked, StalledIsStalled, IsLocked, Holders
  <2>4. RowsMatchPhase'
    BY <1>2 DEF ProcessTypeOK, LoadDirty, LockInv, RowsMatchPhase
  <2> QED
    BY <2>2, <2>3, <2>4 DEF LockInv
<1>3. CASE StartListening(p) \/ Stop(p) \/ Stopped(p)
  <2>1. UNCHANGED <<docs, pc, item, todo>> /\ \A q \in Procs : stalled'[q] \subseteq stalled[q]
    BY <1>3 DEF ProcessTypeOK, StartListening, Stop, Stopped
  <2>2. \A h \in Workers \cup Procs : current'[h] \subseteq current[h]
    BY <1>3 DEF ProcessTypeOK, StartListening, Stop, Stopped, Holders
  <2>3. MutualExclusion' /\ LockIsKept' /\ ReceivedIsUnlocked' /\ StalledIsStalled'
    BY <2>1, <2>2 DEF LockInv, MutualExclusion, LockIsKept, ReceivedIsUnlocked,
                      StalledIsStalled, WorksOn, IsLocked
  <2>4. RowsMatchPhase'
    BY <1>3 DEF ProcessTypeOK, StartListening, Stop, Stopped, LockInv, RowsMatchPhase
  <2> QED
    BY <2>3, <2>4 DEF LockInv
<1>4. CASE Crash(p)
  <2>1. /\ \A v \in Workers : pc'[v] # "idle" => pc'[v] = pc[v] /\ item'[v] = item[v]
        /\ \A h \in Workers \cup Procs : current'[h] \subseteq current[h]
        /\ \A q \in Procs : todo'[q] \subseteq todo[q] /\ stalled'[q] \subseteq stalled[q]
        /\ docs' = docs
    BY <1>4 DEF ProcessTypeOK, Crash, Holders
  <2>2. MutualExclusion' /\ LockIsKept' /\ ReceivedIsUnlocked' /\ StalledIsStalled'
    BY <2>1 DEF LockInv, MutualExclusion, LockIsKept, ReceivedIsUnlocked, StalledIsStalled,
                WorksOn, IsLocked, Critical
  <2>3. RowsMatchPhase'
    BY <1>4 DEF ProcessTypeOK, Crash, LockInv, RowsMatchPhase
  <2> QED
    BY <2>2, <2>3 DEF LockInv
<1>5. CASE ReadStalled(p)
  <2>1. /\ \A h \in Holders \ {p} : current'[h] = current[h]
        /\ \A i \in stalled'[p] : docs[i].locked_at = "stalled"
        /\ \A q \in Procs \ {p} : stalled'[q] = stalled[q]
        /\ todo[p] = {}
    BY <1>5 DEF ProcessTypeOK, ReadStalled, StalledItems, Holders, LockInv, RowsMatchPhase
  <2>2. MutualExclusion' /\ LockIsKept'
    BY <1>5 DEF ReadStalled, LockInv, MutualExclusion, LockIsKept, WorksOn
  <2>3. ReceivedIsUnlocked' /\ StalledIsStalled'
    BY <1>5, <2>1 DEF ReadStalled, LockInv, ReceivedIsUnlocked, StalledIsStalled, IsLocked, Holders
  <2>4. RowsMatchPhase'
    BY <1>5, <2>1 DEF ProcessTypeOK, ReadStalled, LockInv, RowsMatchPhase
  <2> QED
    BY <2>2, <2>3, <2>4 DEF LockInv
<1>6. CASE UnstallerFails(p)
  <2>1. /\ \A h \in Workers \cup Procs : current'[h] \subseteq current[h]
        /\ \A q \in Procs : stalled'[q] \subseteq stalled[q]
        /\ UNCHANGED <<docs, pc, item, phase, todo>>
    BY <1>6 DEF ProcessTypeOK, UnstallerFails, Forget, Holders
  <2> QED
    BY <2>1 DEF LockInv, MutualExclusion, LockIsKept, ReceivedIsUnlocked, StalledIsStalled,
                RowsMatchPhase, WorksOn, IsLocked
<1>7. CASE \E i \in Items : UnlockStalled(p, i)
  <2>1. PICK i \in Items : UnlockStalled(p, i)
    BY <1>7
  <2>2. /\ i \in stalled[p]
        /\ \A q \in Procs : stalled'[q] \subseteq stalled[q]
        /\ UNCHANGED <<phase, todo, pc, item>>
    BY <2>1 DEF ProcessTypeOK, UnlockStalled
  <2>3. CASE i \in current[p]
    <3>1. docs[i].locked_at = "stalled"
      BY <2>2, <2>3 DEF LockInv, StalledIsStalled
    <3>2. \A v \in Workers : ~WorksOn(v, i)'
      BY <2>2, <3>1 DEF LockInv, LockIsKept, WorksOn
    <3>3. PICK d \in Docs : Store(i, d, {})
      BY <2>1, <2>3, DocsTyped DEF ProcessTypeOK, UnlockStalled
    <3>4. pc' \in [Workers -> {"idle", "got"} \cup Critical]
      BY <2>2 DEF ProcessTypeOK
    <3> QED
      BY <2>2, <3>2, <3>3, <3>4, UnlockAccepted
  <2>4. CASE i \notin current[p]
    BY <2>1, <2>2, <2>4
    DEF UnlockStalled, dbVars, LockInv, MutualExclusion, LockIsKept, ReceivedIsUnlocked,
        StalledIsStalled, RowsMatchPhase, WorksOn, IsLocked
  <2> QED
    BY <2>3, <2>4
<1>8. CASE \E w \in WorkersOf(p), i \in Items : OnDirtyRow(w, i) \/ OnChange(w, i)
  <2>1. PICK w \in WorkersOf(p), i \in Items : OnDirtyRow(w, i) \/ OnChange(w, i)
    BY <1>8
  <2>2. w \in Workers /\ ProcOf[w] = p
    BY <2>1 DEF WorkersOf
  <2>3. PICK fresh \in BOOLEAN :
          /\ fresh => ~IsLocked(docs[i])
          /\ current' = [current EXCEPT ![w] = IF fresh THEN {i} ELSE {}]
    <3>1. CASE OnDirtyRow(w, i) /\ i \in current[p]
      BY <2>2, <3>1 DEF OnDirtyRow, Receive, LockInv, ReceivedIsUnlocked
    <3>2. CASE OnDirtyRow(w, i) /\ i \notin current[p]
      BY <2>2, <3>2 DEF OnDirtyRow, Receive
    <3>3. CASE OnChange(w, i)
      BY <3>3 DEF OnChange, Receive, DirtyAndUnlocked
    <3> QED
      BY <2>1, <3>1, <3>2, <3>3
  <2>4. /\ pc[w] = "idle"
        /\ pc' = [pc EXCEPT ![w] = "got"]
        /\ item' = [item EXCEPT ![w] = i]
        /\ UNCHANGED <<docs, phase, stalled>>
    BY <2>1 DEF OnDirtyRow, OnChange, Receive
  <2>5. \A q \in Procs : todo'[q] \subseteq todo[q]
    <3>1. CASE OnDirtyRow(w, i)
      BY <3>1 DEF ProcessTypeOK, OnDirtyRow
    <3>2. CASE OnChange(w, i)
      BY <3>2 DEF OnChange
    <3> QED
      BY <2>1, <3>1, <3>2
  <2> QED
    BY <2>2, <2>3, <2>4, <2>5, ReceiveKeepsLock
<1> QED
  BY <1>1, <1>2, <1>3, <1>4, <1>5, <1>6, <1>7, <1>8 DEF ProcStep

\* A soiler merges dirty and dirty_at only.
LEMMA SoilerKeepsLock ==
  ASSUME ProcessTypeOK, LockInv, NEW s \in Soilers, SoilerStep(s)
  PROVE  LockInv'
<1>1. UNCHANGED <<phase, todo, stalled, pc, item>>
  BY DEF SoilerStep, SoilPendingItems, SoilItem, SoilItemFails
<1>2. CASE \E i \in Items : SoilItem(s, i)
  <2>1. PICK i \in Items : SoilItem(s, i)
    BY <1>2
  <2>2. PICK d \in Docs, keepers \in {{}} :
          d = SetDirtyAt(docs[i], "true", "null") /\ Store(i, d, keepers)
    BY <2>1, DocsTyped DEF ProcessTypeOK, SoilItem
  <2>3. /\ docs' = [docs EXCEPT ![i] = d]
        /\ \A h \in Holders : current'[h] = IF h \in keepers THEN current[h] \cup {i}
                                                             ELSE current[h] \ {i}
    BY <2>2, StoreTyped
  <2>4. /\ \A j \in Items : docs'[j].locked_at = docs[j].locked_at
        /\ \A h \in Workers \cup Procs : current'[h] \subseteq current[h]
    BY <2>2, <2>3 DEF ProcessTypeOK, SetDirtyAt, Holders
  <2> QED
    BY <1>1, <2>4, LockFrame
<1>3. CASE SoilPendingItems(s) \/ \E i \in Items : SoilItemFails(s, i)
  <2>1. UNCHANGED <<docs, current>>
    BY <1>3 DEF SoilPendingItems, SoilItemFails, dbVars
  <2> QED
    BY <1>1, <2>1, LockFrame
<1> QED
  BY <1>2, <1>3 DEF SoilerStep

\* Time passes: only the lock of nobody stalls.
LEMMA TimeKeepsLock ==
  ASSUME ProcessTypeOK, LockInv, "slow" \notin Faults, NEW i \in Items, TimeStep(i)
  PROVE  LockInv'
<1>1. UNCHANGED <<current, phase, todo, stalled, pc, item>>
  BY DEF TimeStep, OrphanLockStalls, SlowLockStalls, Stalls, DirtyAtComes
<1>2. CASE OrphanLockStalls(i)
  <2>1. /\ docs'[i].locked_at = "stalled"
        /\ docs[i].locked_at = "recent"
        /\ \A j \in Items \ {i} : docs'[j] = docs[j]
        /\ \A v \in Workers : ~WorksOn(v, i)
    BY <1>2 DEF ProcessTypeOK, OrphanLockStalls, Stalls, SetLockedAt
  <2>2. MutualExclusion' /\ LockIsKept'
    BY <1>1, <2>1 DEF LockInv, MutualExclusion, LockIsKept, WorksOn
  <2>3. ReceivedIsUnlocked' /\ StalledIsStalled' /\ RowsMatchPhase'
    BY <1>1, <2>1
    DEF ProcessTypeOK, LockInv, ReceivedIsUnlocked, StalledIsStalled, RowsMatchPhase, IsLocked
  <2> QED
    BY <2>2, <2>3 DEF LockInv
<1>3. CASE DirtyAtComes(i)
  <2>1. \A j \in Items : docs'[j].locked_at = docs[j].locked_at
    BY <1>3 DEF ProcessTypeOK, DirtyAtComes, SetDirtyAt
  <2> QED
    BY <1>1, <2>1, LockFrame
<1> QED
  BY <1>2, <1>3 DEF TimeStep, SlowLockStalls, Fault

THEOREM ProcessStepKeepsLock ==
  ASSUME ProcessTypeOK, LockInv, "slow" \notin Faults, ProcessStep
  PROVE  LockInv'
  BY WorkerKeepsLock, ProcKeepsLock, SoilerKeepsLock, TimeKeepsLock DEF ProcessStep

-----------------------------------------------------------------------------
(* What the engine does to the marks and to the revisions of a worker.     *)

\* What a write does to the documents and to who has which revision.
LEMMA StoreEffect ==
  ASSUME ProcessTypeOK, NEW i \in Items, NEW d \in Docs, NEW keepers \in SUBSET Workers,
         Store(i, d, keepers)
  PROVE  /\ docs'[i] = d
         /\ \A j \in Items \ {i} : docs'[j] = docs[j]
         /\ \A w \in Workers : w \notin keepers => current'[w] = current[w] \ {i}
         /\ \A w \in keepers : current'[w] = current[w] \cup {i}
         /\ \A h \in (Procs \cup Listeners) : current'[h] = current[h] \ {i}
<1>1. /\ docs' = [docs EXCEPT ![i] = d]
      /\ \A h \in Holders : current'[h] = IF h \in keepers THEN current[h] \cup {i}
                                                           ELSE current[h] \ {i}
  BY StoreTyped
<1> QED
  BY <1>1, ProcessAssumption DEF ProcessTypeOK, Holders

\* No mark is lost, no worker gets the latest revision of the item it has locked.
Effect == /\ \A i \in Items : Marked(docs[i]) => Marked(docs'[i])
          /\ \A w \in Workers : pc'[w] \in {"locked", "processing", "processed"}
                => /\ item'[w] = item[w]
                   /\ \/ pc'[w] = pc[w] /\ current'[w] \subseteq current[w]
                      \/ pc[w] = "got" /\ pc'[w] = "locked"

\* Workers that stay where they are or give up, and a write that keeps the mark.
LEMMA PlainStoreEffect ==
  ASSUME ProcessTypeOK, HolderSeesLock, NEW i \in Items, NEW d \in Docs, Store(i, d, {}),
         Marked(docs[i]) => Marked(d),
         \A v \in Workers : \/ pc'[v] = pc[v] /\ item'[v] = item[v]
                            \/ pc'[v] = "idle"
  PROVE  Effect /\ HolderSeesLock'
<1>1. PICK keepers \in SUBSET Workers : keepers = {} /\ Store(i, d, keepers)
  OBVIOUS
<1>2. /\ docs'[i] = d
      /\ \A j \in Items \ {i} : docs'[j] = docs[j]
      /\ \A w \in Workers : current'[w] = current[w] \ {i}
  BY <1>1, StoreEffect
<1>3. Effect
  BY <1>2 DEF Effect
<1>4. HolderSeesLock'
  BY <1>2 DEF ProcessTypeOK, HolderSeesLock, IsLocked
<1> QED
  BY <1>3, <1>4

\* Nothing is written, and only idle workers receive an item.
LEMMA NoStoreEffect ==
  ASSUME ProcessTypeOK, HolderSeesLock,
         \A i \in Items : /\ Marked(docs[i]) => Marked(docs'[i])
                          /\ IsLocked(docs[i]) => IsLocked(docs'[i]),
         \A v \in Workers : \/ /\ pc'[v] = pc[v] /\ item'[v] = item[v]
                               /\ current'[v] \subseteq current[v]
                            \/ pc'[v] \in {"idle", "got", "conflicted", "failed"}
  PROVE  Effect /\ HolderSeesLock'
<1>1. Effect
  BY DEF Effect
<1>2. HolderSeesLock'
  BY DEF ProcessTypeOK, HolderSeesLock, IsLocked
<1> QED
  BY <1>1, <1>2

\* SetLockedAt and the soiler's merge keep the mark of a document.
LEMMA MarksKept ==
  /\ \A d : \A l : Marked(SetLockedAt(d, l)) <=> Marked(d)
  /\ \A d : Marked(SetDirtyAt(d, "true", "null"))
  BY DEF Marked, SetLockedAt, SetDirtyAt

THEOREM ProcessStepEffect ==
  ASSUME ProcessTypeOK, HolderSeesLock, ProcessStep
  PROVE  Effect /\ HolderSeesLock'
<1>1. CASE \E w \in Workers : WorkerStep(w)
  <2>1. PICK w \in Workers : WorkerStep(w)
    BY <1>1
  <2> DEFINE d == docs[item[w]]
  <2>2. CASE Lock(w)
    <3>1. PICK i \in Items, e \in Docs, keepers \in SUBSET Workers :
            /\ i = item[w] /\ e = SetLockedAt(docs[i], "recent") /\ keepers = {w}
            /\ Store(i, e, keepers)
      <4>1. item[w] \in Items
        BY <2>2 DEF ProcessTypeOK, Lock
      <4>2. SetLockedAt(d, "recent") \in Docs
        BY <4>1, DocsTyped DEF ProcessTypeOK
      <4> QED
        BY <2>2, <4>1, <4>2 DEF Lock
    <3>2. /\ docs'[i] = e
          /\ \A j \in Items \ {i} : docs'[j] = docs[j]
          /\ \A v \in Workers : v \notin keepers => current'[v] = current[v] \ {i}
          /\ \A v \in keepers : current'[v] = current[v] \cup {i}
      BY <3>1, StoreEffect
    <3>3. /\ pc[w] = "got" /\ pc'[w] = "locked" /\ item' = item
          /\ \A v \in Workers \ {w} : pc'[v] = pc[v]
      BY <2>2 DEF ProcessTypeOK, Lock, Goto
    <3>4. Marked(docs[i]) <=> Marked(e)
      BY <3>1, MarksKept
    <3>5. Effect
      BY <3>1, <3>2, <3>3, <3>4 DEF Effect
    <3>6. IsLocked(docs'[i])
      BY <3>1, <3>2 DEF IsLocked, SetLockedAt
    <3>7. HolderSeesLock'
      BY <3>1, <3>2, <3>3, <3>6 DEF ProcessTypeOK, HolderSeesLock, IsLocked
    <3> QED
      BY <3>5, <3>7
  <2>3. CASE LockAnswerLost(w) \/ UpsertUnlock(w)
    <3>1. item[w] \in Items
      BY <2>3 DEF ProcessTypeOK, LockAnswerLost, UpsertUnlock
    <3>2. PICK i \in Items, e \in Docs : /\ i = item[w]
                                         /\ Marked(docs[i]) <=> Marked(e)
                                         /\ Store(i, e, {})
      BY <2>3, <3>1, DocsTyped, MarksKept DEF ProcessTypeOK, LockAnswerLost, UpsertUnlock
    <3>3. \A v \in Workers : \/ pc'[v] = pc[v] /\ item'[v] = item[v]
                             \/ pc'[v] = "idle"
      BY <2>3 DEF ProcessTypeOK, LockAnswerLost, UpsertUnlock, Release
    <3> QED
      BY <3>2, <3>3, PlainStoreEffect
  <2>4. CASE LockConflict(w) \/ LockRequestLost(w) \/ UnlockRequestLost(w)
               \/ UnlockAndCleanConflict(w)
    <3>1. UNCHANGED docs
      BY <2>4 DEF LockConflict, LockRequestLost, UnlockRequestLost, UnlockAndCleanConflict,
                  Forget, dbVars
    <3>2. \A v \in Workers : \/ /\ pc'[v] = pc[v] /\ item'[v] = item[v]
                                /\ current'[v] \subseteq current[v]
                             \/ pc'[v] \in {"idle", "got", "conflicted", "failed"}
      BY <2>4 DEF ProcessTypeOK, LockConflict, LockRequestLost, UnlockRequestLost,
                  UnlockAndCleanConflict, Forget, Release, Goto, dbVars, Holders
    <3> QED
      BY <3>1, <3>2, NoStoreEffect
  <2> QED
    BY <2>1, <2>2, <2>3, <2>4 DEF WorkerStep
<1>2. CASE \E p \in Procs : \E i \in Items : UnlockStalled(p, i) /\ i \in current[p]
  <2>1. PICK p \in Procs, i \in Items : UnlockStalled(p, i) /\ i \in current[p]
    BY <1>2
  <2>2. PICK d \in Docs : (Marked(docs[i]) <=> Marked(d)) /\ Store(i, d, {})
    BY <2>1, DocsTyped, MarksKept DEF ProcessTypeOK, UnlockStalled
  <2> QED
    BY <2>1, <2>2, PlainStoreEffect DEF UnlockStalled
<1>3. CASE \E s \in Soilers : \E i \in Items : SoilItem(s, i)
  <2>1. PICK s \in Soilers, i \in Items : SoilItem(s, i)
    BY <1>3
  <2>2. PICK d \in Docs : Marked(d) /\ Store(i, d, {})
    BY <2>1, DocsTyped, MarksKept DEF ProcessTypeOK, SoilItem
  <2> QED
    BY <2>1, <2>2, PlainStoreEffect DEF SoilItem
<1>4. CASE \E i \in Items : TimeStep(i)
  <2>1. PICK i \in Items : TimeStep(i)
    BY <1>4
  <2>2. /\ UNCHANGED <<current, pc, item>>
        /\ \A j \in Items \ {i} : docs'[j] = docs[j]
        /\ \/ docs[i].locked_at = "recent" /\ docs'[i] = SetLockedAt(docs[i], "stalled")
           \/ docs[i].dirty_at = "later" /\ docs'[i] = SetDirtyAt(docs[i], docs[i].dirty, "due")
    BY <2>1 DEF ProcessTypeOK, TimeStep, OrphanLockStalls, SlowLockStalls, Stalls, DirtyAtComes
  <2>3. /\ Marked(docs[i]) => Marked(docs'[i])
        /\ IsLocked(docs[i]) => IsLocked(docs'[i])
    BY <2>2 DEF Marked, IsLocked, SetLockedAt, SetDirtyAt
  <2> QED
    BY <2>2, <2>3, NoStoreEffect
<1>5. CASE \/ \E p \in Procs : \/ GetLastSeq(p) \/ LoadDirty(p) \/ StartListening(p)
                               \/ Stop(p) \/ Stopped(p) \/ ReadStalled(p) \/ UnstallerFails(p)
                               \/ \E i \in Items : UnlockStalled(p, i) /\ i \notin current[p]
           \/ \E s \in Soilers : SoilPendingItems(s) \/ \E i \in Items : SoilItemFails(s, i)
  <2>1. /\ UNCHANGED <<docs, pc, item>>
        /\ \A v \in Workers : current'[v] \subseteq current[v]
    <3>1. CASE \E p \in Procs : LoadDirty(p) \/ StartListening(p) \/ Stopped(p)
                                 \/ ReadStalled(p) \/ UnstallerFails(p)
      <4>1. PICK p \in Procs : \E S : current' = [current EXCEPT ![p] = S]
        BY <3>1 DEF LoadDirty, StartListening, Stopped, ReadStalled, UnstallerFails, Forget
      <4>2. UNCHANGED <<docs, pc, item>>
        BY <3>1 DEF LoadDirty, StartListening, Stopped, ReadStalled, UnstallerFails, Forget
      <4> QED
        BY <4>1, <4>2, ProcessAssumption DEF ProcessTypeOK, Holders
    <3>2. CASE \/ \E p \in Procs : GetLastSeq(p) \/ Stop(p)
                   \/ \E i \in Items : UnlockStalled(p, i) /\ i \notin current[p]
               \/ \E s \in Soilers : SoilPendingItems(s) \/ \E i \in Items : SoilItemFails(s, i)
      BY <3>2 DEF GetLastSeq, Stop, UnlockStalled, SoilPendingItems, SoilItemFails, dbVars
    <3> QED
      BY <1>5, <3>1, <3>2
  <2> QED
    BY <2>1, NoStoreEffect
<1>6. CASE \E p \in Procs : Crash(p)
  <2>1. \A v \in Workers : \/ /\ pc'[v] = pc[v] /\ item'[v] = item[v]
                              /\ current'[v] \subseteq current[v]
                           \/ pc'[v] = "idle"
    BY <1>6 DEF ProcessTypeOK, Crash, Holders
  <2>2. UNCHANGED docs
    BY <1>6 DEF Crash
  <2> QED
    BY <2>1, <2>2, NoStoreEffect
<1>7. CASE \E p \in Procs : \E w \in WorkersOf(p), i \in Items : OnDirtyRow(w, i) \/ OnChange(w, i)
  <2>1. PICK w \in Workers, i \in Items : OnDirtyRow(w, i) \/ OnChange(w, i)
    BY <1>7 DEF WorkersOf
  <2>2. /\ pc' = [pc EXCEPT ![w] = "got"]
        /\ item' = [item EXCEPT ![w] = i]
        /\ \E c \in {{i}, {}} : current' = [current EXCEPT ![w] = c]
        /\ UNCHANGED docs
    BY <2>1 DEF OnDirtyRow, OnChange, Receive
  <2>3. pc'[w] = "got" /\ \A v \in Workers \ {w} : /\ pc'[v] = pc[v] /\ item'[v] = item[v]
                                                   /\ current'[v] = current[v]
    BY <2>2 DEF ProcessTypeOK, Holders
  <2> QED
    BY <2>2, <2>3, NoStoreEffect
<1> QED
  BY <1>1, <1>2, <1>3, <1>4, <1>5, <1>6, <1>7 DEF ProcessStep, ProcStep, SoilerStep

-----------------------------------------------------------------------------
(* The flags of a document, as the worker that has its latest revision has *)
(* read them: it is dirty until that worker cleans it.                     *)

\* What the engine writes, but for a lock, is lost to all who have the revision.
LEMMA StepKeepsFlags ==
  ASSUME ProcessTypeOK, ProcessStep, NEW h \in Holders, NEW i \in current'[h]
  PROVE  /\ docs'[i].dirty = docs[i].dirty
         /\ docs'[i].dirty_at = "null" <=> docs[i].dirty_at = "null"
<1>1. i \in Items
  BY ProcessStepTyped DEF ProcessTypeOK
<1>2. ASSUME NEW j \in Items, NEW d \in Docs, NEW keepers \in SUBSET Workers,
             Store(j, d, keepers),
             keepers = {} \/ (d.dirty = docs[j].dirty /\ d.dirty_at = docs[j].dirty_at)
      PROVE  docs'[i].dirty = docs[i].dirty /\ docs'[i].dirty_at = docs[i].dirty_at
  <2>1. /\ docs' = [docs EXCEPT ![j] = d]
        /\ \A g \in Holders : current'[g] = IF g \in keepers THEN current[g] \cup {j}
                                                             ELSE current[g] \ {j}
    BY <1>2, StoreTyped
  <2> QED
    BY <1>1, <1>2, <2>1 DEF ProcessTypeOK
<1>3. CASE \E w \in Workers : Lock(w) \/ LockAnswerLost(w) \/ UpsertUnlock(w)
  <2>1. PICK w \in Workers : Lock(w) \/ LockAnswerLost(w) \/ UpsertUnlock(w)
    BY <1>3
  <2>2. item[w] \in Items
    BY <2>1 DEF ProcessTypeOK, Lock, LockAnswerLost, UpsertUnlock
  <2>3. PICK d \in Docs, keepers \in SUBSET Workers :
          /\ Store(item[w], d, keepers)
          /\ d.dirty = docs[item[w]].dirty /\ d.dirty_at = docs[item[w]].dirty_at
    <3>1. \A l : /\ SetLockedAt(docs[item[w]], l).dirty = docs[item[w]].dirty
                 /\ SetLockedAt(docs[item[w]], l).dirty_at = docs[item[w]].dirty_at
      BY DEF SetLockedAt
    <3>2. PICK l \in {"null", "recent"} :
            \E keepers \in SUBSET Workers : Store(item[w], SetLockedAt(docs[item[w]], l), keepers)
      BY <2>1 DEF Lock, LockAnswerLost, UpsertUnlock
    <3>3. SetLockedAt(docs[item[w]], l) \in Docs
      BY <2>2, DocsTyped DEF ProcessTypeOK
    <3> QED
      BY <3>1, <3>2, <3>3
  <2> QED
    BY <1>2, <2>2, <2>3
<1>4. CASE \/ \E p \in Procs, j \in Items : UnlockStalled(p, j) /\ j \in current[p]
           \/ \E s \in Soilers, j \in Items : SoilItem(s, j)
  <2>1. PICK j \in Items, d \in Docs, keepers \in SUBSET Workers :
          Store(j, d, keepers) /\ keepers = {}
    <3>1. \A j \in Items : /\ SetLockedAt(docs[j], "null") \in Docs
                           /\ SetDirtyAt(docs[j], "true", "null") \in Docs
      BY DocsTyped DEF ProcessTypeOK
    <3> QED
      BY <1>4, <3>1 DEF UnlockStalled, SoilItem
  <2> QED
    BY <1>2, <2>1
<1>5. CASE \E j \in Items : TimeStep(j)
  <2>1. PICK j \in Items : TimeStep(j)
    BY <1>5
  <2>2. /\ \A k \in Items \ {j} : docs'[k] = docs[k]
        /\ \/ docs[j].locked_at = "recent" /\ docs'[j] = SetLockedAt(docs[j], "stalled")
           \/ docs[j].dirty_at = "later" /\ docs'[j] = SetDirtyAt(docs[j], docs[j].dirty, "due")
    BY <2>1 DEF ProcessTypeOK, TimeStep, OrphanLockStalls, SlowLockStalls, Stalls, DirtyAtComes
  <2> QED
    BY <1>1, <2>2 DEF SetLockedAt, SetDirtyAt
<1>6. CASE UNCHANGED docs
  BY <1>6
<1>7. \/ UNCHANGED docs
      \/ \E w \in Workers : Lock(w) \/ LockAnswerLost(w) \/ UpsertUnlock(w)
      \/ \E p \in Procs, j \in Items : UnlockStalled(p, j) /\ j \in current[p]
      \/ \E s \in Soilers, j \in Items : SoilItem(s, j)
      \/ \E j \in Items : TimeStep(j)
  <2>1. ASSUME NEW w \in Workers, WorkerStep(w)
        PROVE  UNCHANGED docs \/ Lock(w) \/ LockAnswerLost(w) \/ UpsertUnlock(w)
    BY <2>1 DEF WorkerStep, LockConflict, LockRequestLost, UnlockAndCleanConflict,
                UnlockRequestLost, Forget, dbVars
  <2>2. ASSUME NEW p \in Procs, ProcStep(p)
        PROVE  UNCHANGED docs \/ \E j \in Items : UnlockStalled(p, j) /\ j \in current[p]
    BY <2>2 DEF ProcStep, GetLastSeq, LoadDirty, StartListening, Stop, Stopped, Crash, ReadStalled,
                UnstallerFails, UnlockStalled, OnDirtyRow, OnChange, Forget, dbVars
  <2>3. ASSUME NEW s \in Soilers, SoilerStep(s)
        PROVE  UNCHANGED docs \/ \E j \in Items : SoilItem(s, j)
    BY <2>3 DEF SoilerStep, SoilPendingItems, SoilItemFails, dbVars
  <2> QED
    BY <2>1, <2>2, <2>3 DEF ProcessStep
<1> QED
  BY <1>3, <1>4, <1>5, <1>6, <1>7

\* A row or a change that a worker received, and an item it has locked, is dirty
\* in its latest revision, if the worker has that.
HolderSeesDirty ==
  /\ \A w \in Workers : pc[w] \in {"got", "locked", "processing", "processed"}
                        /\ item[w] \in current[w] => docs[item[w]].dirty # "false"
  /\ \A p \in Procs : /\ todo[p] # {} => phase[p] = "draining"
                      /\ \A i \in todo[p] \cap current[p] : docs[i].dirty # "false"

\* What a worker has by now it had before, or it has just received it dirty.
LEMMA WorkerReads ==
  ASSUME ProcessTypeOK, HolderSeesDirty, ProcessStep, NEW w \in Workers,
         pc'[w] \in {"got", "locked", "processing", "processed"}, item'[w] \in current'[w]
  PROVE  item'[w] \in Items /\ docs[item'[w]].dirty # "false"
<1> DEFINE Had == /\ pc[w] \in {"got", "locked", "processing", "processed"}
                  /\ item'[w] = item[w] /\ item[w] \in current[w] /\ item[w] \in Items
<1>1. item'[w] \in Items
  BY ProcessStepTyped DEF ProcessTypeOK
<1>2. Had => docs[item'[w]].dirty # "false"
  BY DEF HolderSeesDirty
<1> HIDE DEF Had
<1>3. CASE \E p \in Procs : \E v \in WorkersOf(p), i \in Items : OnDirtyRow(v, i) \/ OnChange(v, i)
  <2>1. PICK v \in Workers, i \in Items : OnDirtyRow(v, i) \/ OnChange(v, i)
    BY <1>3 DEF WorkersOf
  <2>2. CASE v = w
    <3>1. item'[w] = i /\ ProcOf[w] \in Procs
      BY <2>1, <2>2, ProcessAssumption DEF ProcessTypeOK, OnDirtyRow, OnChange, Receive
    <3>2. CASE OnChange(w, i)
      BY <3>1, <3>2 DEF OnChange, DirtyAndUnlocked
    <3>3. CASE OnDirtyRow(w, i)
      <4>1. i \in todo[ProcOf[w]] /\ current'[w] = IF i \in current[ProcOf[w]] THEN {i} ELSE {}
        BY <3>3, ProcessAssumption DEF ProcessTypeOK, OnDirtyRow, Receive, Holders
      <4> QED
        BY <3>1, <4>1 DEF HolderSeesDirty
    <3> QED
      BY <2>1, <2>2, <3>2, <3>3
  <2>3. CASE v # w
    <3>1. pc'[w] = pc[w] /\ item'[w] = item[w] /\ current'[w] = current[w]
      BY <2>1, <2>3 DEF ProcessTypeOK, OnDirtyRow, OnChange, Receive, Holders
    <3> QED
      BY <1>1, <1>2, <3>1 DEF Had
  <2> QED
    BY <2>2, <2>3
<1>4. CASE \E v \in Workers : WorkerStep(v)
  <2>1. PICK v \in Workers : WorkerStep(v)
    BY <1>4
  <2>2. CASE v = w
    <3>1. Lock(w)
      BY <2>1, <2>2
      DEF ProcessTypeOK, WorkerStep, LockConflict, LockAnswerLost, LockRequestLost,
          UnlockAndCleanConflict, UpsertUnlock, UnlockRequestLost, Release, Goto
    <3> QED
      BY <1>1, <1>2, <3>1 DEF Lock, Goto, Had
  <2>3. CASE v # w
    <3>1. pc'[w] = pc[w] /\ item'[w] = item[w]
      BY <2>1, <2>3
      DEF ProcessTypeOK, WorkerStep, Lock, LockConflict, LockAnswerLost, LockRequestLost,
          UnlockAndCleanConflict, UpsertUnlock, UnlockRequestLost, Release, Goto
    <3>2. current'[w] \subseteq current[w]
      <4>1. CASE Lock(v) \/ LockAnswerLost(v) \/ UpsertUnlock(v)
        BY <2>3, <4>1 DEF Lock, LockAnswerLost, UpsertUnlock, Store, Holders
      <4>2. CASE LockConflict(v) \/ LockRequestLost(v) \/ UnlockAndCleanConflict(v)
                   \/ UnlockRequestLost(v)
        BY <2>3, <4>2 DEF ProcessTypeOK, LockConflict, LockRequestLost, UnlockAndCleanConflict,
                          UnlockRequestLost, Forget, dbVars, Holders
      <4> QED
        BY <2>1, <4>1, <4>2 DEF WorkerStep
    <3> QED
      BY <1>1, <1>2, <3>1, <3>2 DEF Had
  <2> QED
    BY <2>2, <2>3
<1>5. CASE \/ \E p \in Procs : \/ GetLastSeq(p) \/ LoadDirty(p) \/ StartListening(p)
                               \/ Stop(p) \/ Stopped(p) \/ Crash(p) \/ ReadStalled(p)
                               \/ UnstallerFails(p) \/ \E i \in Items : UnlockStalled(p, i)
           \/ \E s \in Soilers : SoilerStep(s)
           \/ \E i \in Items : TimeStep(i)
  <2>1. pc'[w] = pc[w] /\ item'[w] = item[w]
    BY <1>5
    DEF ProcessTypeOK, GetLastSeq, LoadDirty, StartListening, Stop, Stopped, Crash, ReadStalled,
        UnstallerFails, UnlockStalled, SoilerStep, SoilPendingItems, SoilItem, SoilItemFails,
        TimeStep, OrphanLockStalls, SlowLockStalls, Stalls, DirtyAtComes
  <2>2. current'[w] \subseteq current[w]
    <3>1. CASE \E p \in Procs : LoadDirty(p) \/ StartListening(p) \/ Stopped(p)
                                 \/ ReadStalled(p) \/ UnstallerFails(p)
      <4>1. PICK p \in Procs : \E S : current' = [current EXCEPT ![p] = S]
        BY <3>1 DEF LoadDirty, StartListening, Stopped, ReadStalled, UnstallerFails, Forget
      <4> QED
        BY <4>1, ProcessAssumption DEF ProcessTypeOK, Holders
    <3>2. CASE \E p \in Procs : Crash(p)
      BY <3>2 DEF Crash, Holders
    <3>3. CASE \/ \E p \in Procs, i \in Items : UnlockStalled(p, i)
               \/ \E s \in Soilers, i \in Items : SoilItem(s, i)
      BY <3>3 DEF UnlockStalled, SoilItem, Store, dbVars, Holders
    <3>4. CASE \/ \E p \in Procs : GetLastSeq(p) \/ Stop(p)
               \/ \E s \in Soilers : SoilPendingItems(s) \/ \E i \in Items : SoilItemFails(s, i)
               \/ \E i \in Items : TimeStep(i)
      BY <3>4 DEF GetLastSeq, Stop, SoilPendingItems, SoilItemFails, TimeStep, OrphanLockStalls,
                  SlowLockStalls, Stalls, DirtyAtComes, dbVars
    <3> QED
      BY <1>5, <3>1, <3>2, <3>3, <3>4 DEF SoilerStep
  <2> QED
    BY <1>1, <1>2, <2>1, <2>2 DEF Had
<1> QED
  BY <1>1, <1>3, <1>4, <1>5 DEF ProcessStep, ProcStep

\* A process hands out the rows it has read, and reads no others meanwhile.
LEMMA ProcReads ==
  ASSUME ProcessTypeOK, HolderSeesDirty, ProcessStep, NEW p \in Procs
  PROVE  /\ todo'[p] # {} => phase'[p] = "draining"
         /\ \A i \in todo'[p] \cap current'[p] : docs[i].dirty # "false"
<1>1. CASE LoadDirty(p)
  BY <1>1, ProcessAssumption DEF ProcessTypeOK, LoadDirty, DirtyAndUnlocked, Holders
<1>2. CASE ReadStalled(p)
  BY <1>2, ProcessAssumption DEF ProcessTypeOK, HolderSeesDirty, ReadStalled, Holders
<1>3. CASE ~LoadDirty(p) /\ ~ReadStalled(p)
  <2>1. /\ todo'[p] \subseteq todo[p]
        /\ todo'[p] # {} => phase'[p] = phase[p]
        /\ current'[p] \subseteq current[p]
    <3>1. CASE \E w \in Workers : WorkerStep(w)
      <4>1. PICK w \in Workers : WorkerStep(w)
        BY <3>1
      <4>2. UNCHANGED <<todo, phase>>
        BY <4>1 DEF WorkerStep, Lock, LockConflict, LockAnswerLost, LockRequestLost,
                    UnlockAndCleanConflict, UpsertUnlock, UnlockRequestLost
      <4>3. p # w /\ p \in Holders
        BY ProcessAssumption DEF Holders
      <4>4. CASE Lock(w) \/ LockAnswerLost(w) \/ UpsertUnlock(w)
        BY <4>2, <4>3, <4>4 DEF Lock, LockAnswerLost, UpsertUnlock, Store
      <4>5. CASE LockConflict(w) \/ LockRequestLost(w) \/ UnlockAndCleanConflict(w)
                   \/ UnlockRequestLost(w)
        BY <4>2, <4>3, <4>5
        DEF ProcessTypeOK, LockConflict, LockRequestLost, UnlockAndCleanConflict,
            UnlockRequestLost, Forget, dbVars
      <4> QED
        BY <4>1, <4>4, <4>5 DEF WorkerStep
    <3>2. CASE \/ \E s \in Soilers : SoilerStep(s)
               \/ \E i \in Items : TimeStep(i)
      BY <3>2 DEF SoilerStep, SoilPendingItems, SoilItem, SoilItemFails, TimeStep, OrphanLockStalls,
                  SlowLockStalls, Stalls, DirtyAtComes, Store, dbVars, Holders
    <3>3. CASE \E q \in Procs : \E w \in WorkersOf(q), i \in Items : OnDirtyRow(w, i) \/ OnChange(w, i)
      <4>1. PICK w \in Workers, i \in Items : OnDirtyRow(w, i) \/ OnChange(w, i)
        BY <3>3 DEF WorkersOf
      <4>2. p # w /\ p \in Holders
        BY ProcessAssumption DEF Holders
      <4> QED
        BY <4>1, <4>2 DEF ProcessTypeOK, OnDirtyRow, OnChange, Receive
    <3>4. ASSUME NEW q \in Procs,
                 \/ GetLastSeq(q) \/ StartListening(q) \/ Stop(q) \/ Stopped(q) \/ Crash(q)
                 \/ UnstallerFails(q) \/ (LoadDirty(q) /\ q # p) \/ (ReadStalled(q) /\ q # p)
          PROVE  /\ todo'[p] \subseteq todo[p]
                 /\ todo'[p] # {} => phase'[p] = phase[p]
                 /\ current'[p] \subseteq current[p]
      <4>1. current'[p] \subseteq current[p]
        BY <3>4 DEF ProcessTypeOK, GetLastSeq, LoadDirty, StartListening, Stop, Stopped, Crash,
                    ReadStalled, UnstallerFails, Forget, Holders
      <4>2. todo'[p] \subseteq todo[p] /\ (todo'[p] # {} => phase'[p] = phase[p])
        BY <3>4 DEF ProcessTypeOK, HolderSeesDirty, GetLastSeq, LoadDirty, StartListening, Stop,
                    Stopped, Crash, ReadStalled, UnstallerFails
      <4> QED
        BY <4>1, <4>2
    <3>5. CASE \E q \in Procs, i \in Items : UnlockStalled(q, i)
      BY <3>5 DEF UnlockStalled, Store, dbVars, Holders
    <3> QED
      BY <1>3, <3>1, <3>2, <3>3, <3>4, <3>5 DEF ProcessStep, ProcStep
  <2> QED
    BY <2>1 DEF HolderSeesDirty
<1> QED
  BY <1>1, <1>2, <1>3

THEOREM ProcessStepKeepsDirty ==
  ASSUME ProcessTypeOK, HolderSeesDirty, ProcessStep
  PROVE  HolderSeesDirty'
<1>1. ASSUME NEW w \in Workers, pc'[w] \in {"got", "locked", "processing", "processed"},
             item'[w] \in current'[w]
      PROVE  docs'[item'[w]].dirty # "false"
  <2>1. docs[item'[w]].dirty # "false"
    BY <1>1, WorkerReads
  <2> QED
    BY <1>1, <2>1, StepKeepsFlags DEF Holders
<1>2. ASSUME NEW p \in Procs
      PROVE  /\ todo'[p] # {} => phase'[p] = "draining"
             /\ \A i \in todo'[p] \cap current'[p] : docs'[i].dirty # "false"
  <2>1. /\ todo'[p] # {} => phase'[p] = "draining"
        /\ \A i \in todo'[p] \cap current'[p] : docs[i].dirty # "false"
    BY ProcReads
  <2> QED
    BY <2>1, StepKeepsFlags DEF Holders
<1> QED
  BY <1>1, <1>2 DEF HolderSeesDirty

\* The engine starts with nothing locked and nobody at work.
LEMMA ProcessInitTyped == ProcessInit => ProcessTypeOK /\ LockInv
<1> SUFFICES ASSUME ProcessInit PROVE ProcessTypeOK /\ LockInv
  OBVIOUS
<1>1. ProcessTypeOK
  BY ProcessAssumption
  DEF ProcessInit, EngineInit, ProcessTypeOK, Docs, Phases, Holders, Soilers, Critical
<1>2. LockInv
  BY DEF ProcessInit, EngineInit, LockInv, MutualExclusion, LockIsKept, ReceivedIsUnlocked,
         RowsMatchPhase, StalledIsStalled, WorksOn, Critical, Holders
<1> QED
  BY <1>1, <1>2
=============================================================================
