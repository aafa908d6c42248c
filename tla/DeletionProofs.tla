--------------------------- MODULE DeletionProofs ---------------------------
(***************************************************************************)
(* Proofs about the listener of a database that is deleted.                *)
(***************************************************************************)
EXTENDS Deletion, TLAPS

(***************************************************************************)
(* TypeOK is not inductive.  A worker may lock what it has received, and   *)
(* the unstaller unlock what it has read, because either would conflict if *)
(* the document were locked, or not stalled, any more.                     *)
(***************************************************************************)

ReceivedIsUnlocked ==
  \A w \in Workers : pc[w] = "received" /\ w \in current => doc.there /\ doc.locked = "no"

ReadIsStalled == stalled /\ "unstaller" \in current => doc.there /\ doc.locked = "stalled"

MissingIsMissing == ~doc.there => doc = Missing

LockInv == TypeOK /\ ReceivedIsUnlocked /\ ReadIsStalled /\ MissingIsMissing

(***************************************************************************)
(* A change that comes while a worker works is known to the update         *)
(* listener, or the worker's clean conflicts.                              *)
(***************************************************************************)
CleanIsJustified ==
  \A w \in Workers : pc[w] = "processed" /\ w \in current /\ unread => update # "none"

(***************************************************************************)
(* The mark of a document goes back to a time since when no batch has      *)
(* found the database, or the worker that has found it will clear it.      *)
(***************************************************************************)
Judging(w) == pc[w] \in {"locked", "notFound", "deleted", "destroying"}

MarkInv ==
  /\ \A w \in Workers : /\ Judging(w) \/ (pc[w] = "received" /\ w \in current) =>
                             (mark[w] = "no" <=> doc.mark = "no")
                        /\ pc[w] \in {"deleted", "destroying"} => mark[w] # "no"
  /\ found /\ doc.mark # "no" =>
       \E w \in Workers : pc[w] \in {"advancing", "processed", "conflicted"}

-----------------------------------------------------------------------------

LEMMA InitLock == Init => LockInv
<1> SUFFICES ASSUME Init PROVE LockInv
  OBVIOUS
<1>1. Typed
  <2>1. doc \in Docs
    BY DEF Init, New, Missing, Docs
  <2>2. created \in 0..MaxCreated /\ changes \in 0..MaxChanges /\ crashes \in 0..MaxCrashes
    BY DeletionAssumption DEF Init
  <2> QED
    BY <2>1, <2>2 DEF Init, Typed
<1>2. Locking = {} /\ doc.there
  BY DEF Init, Locking, New, Missing
<1> QED
  BY <1>1, <1>2
  DEF Init, LockInv, TypeOK, ReceivedIsUnlocked, ReadIsStalled, MissingIsMissing

\* What is written is a document.
LEMMA DocsTyped ==
  ASSUME NEW d \in Docs
  PROVE  /\ \A l \in {"no", "recent", "stalled"}, m \in {"no", "recent", "old"}, x \in BOOLEAN :
              [d EXCEPT !.dirty = x, !.locked = l, !.mark = m] \in Docs
         /\ \A l \in {"no", "recent", "stalled"}, m \in {"no", "recent", "old"} :
              [d EXCEPT !.locked = l, !.mark = m] \in Docs
         /\ \A l \in {"no", "recent", "stalled"} : [d EXCEPT !.locked = l] \in Docs
         /\ \A m \in {"no", "recent", "old"} : [d EXCEPT !.mark = m] \in Docs
         /\ [d EXCEPT !.dirty = TRUE] \in Docs
         /\ New \in Docs /\ Missing \in Docs
  BY DEF Docs, New, Missing

LEMMA TypedStep == Typed /\ [Next]_vars => Typed'
<1> SUFFICES ASSUME Typed, [Next]_vars PROVE Typed'
  OBVIOUS
<1> USE DEF Typed, databaseVars, docVars, workerVars
<1>1. CASE Delete \/ Create \/ Change
  <2>1. created' \in 0..MaxCreated /\ changes' \in 0..MaxChanges
    BY <1>1, DeletionAssumption DEF Delete, Create, Change
  <2>2. exists' \in BOOLEAN /\ unread' \in BOOLEAN /\ (unread' => exists')
    BY <1>1, Zenon DEF Delete, Create, Change
  <2> QED
    BY <1>1, <2>1, <2>2 DEF Delete, Create, Change, Happens
<1>2. CASE LockAges \/ MarkAges
  <2>1. doc' \in Docs
    BY <1>2, DocsTyped DEF LockAges, MarkAges
  <2>2. mark' \in [Workers -> {"no", "recent", "old"}]
    BY <1>2 DEF LockAges, MarkAges
  <2> QED
    BY <1>2, <2>1, <2>2 DEF LockAges, MarkAges
<1>3. CASE ListenerStep
  <2>1. doc' \in Docs /\ current' \subseteq Holders
    BY <1>3, DocsTyped
    DEF ListenerStep, GetCleanLockedOrMissing, DirtyOrCreate, DirtyConflicts, Store, Holders
  <2> QED
    BY <1>3, <2>1
    DEF ListenerStep, GetCleanLockedOrMissing, DirtyOrCreate, DirtyConflicts, Store
<1>4. CASE Unstaller
  <2>1. doc' \in Docs /\ current' \subseteq Holders
    BY <1>4, DocsTyped DEF Unstaller, ReadStalled, UnlockStalled, Store, Holders
  <2>2. stalled' \in BOOLEAN
    BY <1>4, Zenon DEF Unstaller, ReadStalled, UnlockStalled
  <2> QED
    BY <1>4, <2>1, <2>2 DEF Unstaller, ReadStalled, UnlockStalled, Store
<1>5. ASSUME NEW w \in Workers, WorkerStep(w) \/ Crash(w) PROVE Typed'
  <2>1. doc' \in Docs /\ current' \subseteq Holders
    <3>1. CASE \/ Receive(w) \/ Lock(w) \/ ReadChanges(w) \/ UpdateLastSeq(w)
               \/ Get(w) \/ Destroy(w) \/ Crash(w)
      BY <3>1, DocsTyped
      DEF Receive, Lock, ReadChanges, UpdateLastSeq, Get, Destroy, Crash, Store, Holders
    <3>2. CASE Unlocking(w)
      BY <3>2, DocsTyped
      DEF Unlocking, UnlockAndClean, UpsertUnlock, UpsertUnlockPossiblyDeleted, Store, Holders
    <3> QED
      BY <1>5, <3>1, <3>2 DEF WorkerStep
  <2>2. mark' \in [Workers -> {"no", "recent", "old"}]
    BY <1>5
    DEF WorkerStep, Unlocking, Receive, Lock, ReadChanges, UpdateLastSeq, UnlockAndClean, UpsertUnlock,
        UpsertUnlockPossiblyDeleted, Get, Destroy, Crash, Docs
  <2>3. /\ pc' \in [Workers -> {"idle", "received", "locked", "advancing", "processed",
                                "conflicted", "notFound", "deleted", "destroying"}]
        /\ UNCHANGED <<created, changes, update>>
    BY <1>5
    DEF WorkerStep, Unlocking, Receive, Lock, ReadChanges, UpdateLastSeq, UnlockAndClean, UpsertUnlock,
        UpsertUnlockPossiblyDeleted, Get, Destroy, Crash, Store, Goto
  <2>5. /\ UNCHANGED <<exists, stalled>> /\ unread' \in {unread, FALSE}
        /\ found' \in {found, TRUE, FALSE}
    BY <1>5
    DEF WorkerStep, Unlocking, Receive, Lock, ReadChanges, UpdateLastSeq, UnlockAndClean, UpsertUnlock,
        UpsertUnlockPossiblyDeleted, Get, Destroy, Crash, Store
  <2>4. crashes' \in 0..MaxCrashes
    BY <1>5, DeletionAssumption
    DEF WorkerStep, Unlocking, Receive, Lock, ReadChanges, UpdateLastSeq, UnlockAndClean, UpsertUnlock,
        UpsertUnlockPossiblyDeleted, Get, Destroy, Crash
  <2>6. /\ exists' \in BOOLEAN /\ unread' \in BOOLEAN /\ found' \in BOOLEAN
        /\ stalled' \in BOOLEAN /\ (unread' => exists')
    <3>1. exists' \in BOOLEAN /\ stalled' \in BOOLEAN
      BY <2>5, Zenon
    <3>2. CASE unread' = unread
      BY <2>5, <3>1, <3>2, Zenon
    <3>3. CASE unread' = FALSE
      BY <2>5, <3>1, <3>3, Zenon
    <3> QED
      BY <2>5, <3>2, <3>3, Zenon
  <2> QED
    BY <2>1, <2>2, <2>3, <2>4, <2>6
<1>6. CASE UNCHANGED vars
  BY <1>6 DEF vars
<1> QED
  BY <1>1, <1>2, <1>3, <1>4, <1>5, <1>6 DEF Next

\* The worker that has the lock writes the document and gives it back.
LEMMA LockReleased ==
  ASSUME LockInv, Typed', NEW w \in Locking, pc' = [pc EXCEPT ![w] = "idle"],
         current' = {}, doc'.there \/ doc' = Missing
  PROVE  LockInv'
<1>1. Locking' = {}
  BY DEF LockInv, TypeOK, Typed, Locking
<1> QED
  BY <1>1 DEF LockInv, TypeOK, ReceivedIsUnlocked, ReadIsStalled, MissingIsMissing

\* The worker that has the lock moves on, or is killed.
LEMMA LockUntouched ==
  ASSUME LockInv, Typed', NEW w \in Workers, pc[w] # "idle", NEW label,
         label # "received", w \in Locking \/ label = "idle",
         pc' = [pc EXCEPT ![w] = label],
         UNCHANGED <<doc, stalled>>, current' \in {current, current \cup {w}}
  PROVE  LockInv'
<1>1. Locking' \subseteq Locking
  BY DEF LockInv, TypeOK, Typed, Locking
<1>2. ReceivedIsUnlocked'
  BY DEF LockInv, TypeOK, Typed, ReceivedIsUnlocked
<1>3. ReadIsStalled'
  BY DeletionAssumption DEF LockInv, ReadIsStalled
<1> QED
  BY <1>1, <1>2, <1>3 DEF LockInv, TypeOK, MissingIsMissing

LEMMA LockStep == LockInv /\ [Next]_vars => LockInv'
<1> SUFFICES ASSUME LockInv, [Next]_vars PROVE LockInv'
  OBVIOUS
<1>1. Typed /\ Typed'
  BY TypedStep DEF LockInv, TypeOK
<1>2. CASE UNCHANGED <<doc, pc, stalled>> /\ current' \in {current, current \cup {"listener"}}
  <2>1. Locking' = Locking
    BY <1>2 DEF Locking
  <2>2. \A w \in Workers : w \in current' <=> w \in current
    BY <1>2, DeletionAssumption
  <2>3. "unstaller" \in current' => "unstaller" \in current
    BY <1>2
  <2> QED
    BY <1>1, <1>2, <2>1, <2>2, <2>3
    DEF LockInv, TypeOK, ReceivedIsUnlocked, ReadIsStalled, MissingIsMissing
<1>3. CASE LockAges \/ MarkAges
  <2>1. /\ Locking' = Locking /\ UNCHANGED <<current, pc, stalled>>
        /\ doc'.there = doc.there /\ doc.there
        /\ Locking # {} => doc'.locked = doc.locked
        /\ doc.locked \in {"no", "stalled"} => doc'.locked = doc.locked
    BY <1>1, <1>3
    DEF LockAges, MarkAges, Locking, Typed, Docs, LockInv, MissingIsMissing, Missing, workerVars
  <2> QED
    BY <1>1, <2>1 DEF LockInv, TypeOK, ReceivedIsUnlocked, ReadIsStalled, MissingIsMissing
<1>4. CASE DirtyOrCreate
  <2>1. /\ Locking' = Locking /\ current' = {} /\ doc'.there
        /\ Locking # {} => doc'.locked = doc.locked
    BY <1>1, <1>4
    DEF DirtyOrCreate, Store, Locking, LockInv, TypeOK, New, Missing, Typed, Docs, workerVars
  <2> QED
    BY <1>1, <2>1 DEF LockInv, TypeOK, ReceivedIsUnlocked, ReadIsStalled, MissingIsMissing
<1>5. CASE Unstaller
  <2>1. CASE ReadStalled
    <3>1. /\ Locking' = Locking /\ UNCHANGED <<doc, pc>> /\ doc.locked = "stalled" /\ doc.there
          /\ current' = current \cup {"unstaller"}
      BY <2>1 DEF ReadStalled, Locking, LockInv, MissingIsMissing, Missing, workerVars
    <3>2. \A w \in Workers : w \in current' => w \in current
      BY <3>1, DeletionAssumption
    <3> QED
      BY <1>1, <3>1, <3>2
      DEF LockInv, TypeOK, ReceivedIsUnlocked, ReadIsStalled, MissingIsMissing
  <2>2. CASE UnlockStalled /\ "unstaller" \in current
    <3>1. /\ Locking' = {} /\ current' = {} /\ doc'.there
      BY <1>1, <2>2
      DEF UnlockStalled, Store, Locking, LockInv, TypeOK, ReadIsStalled, Typed, Docs, workerVars
    <3> QED
      BY <1>1, <3>1 DEF LockInv, TypeOK, ReceivedIsUnlocked, ReadIsStalled, MissingIsMissing
  <2>3. CASE UnlockStalled /\ "unstaller" \notin current
    <3>1. Locking' = Locking /\ UNCHANGED <<doc, current, pc>> /\ ~stalled'
      BY <2>3 DEF UnlockStalled, Locking, docVars, workerVars
    <3> QED
      BY <1>1, <3>1 DEF LockInv, TypeOK, ReceivedIsUnlocked, ReadIsStalled, MissingIsMissing
  <2> QED
    BY <1>5, <2>1, <2>2, <2>3 DEF Unstaller
<1>6. ASSUME NEW w \in Workers, Receive(w) PROVE LockInv'
  <2>1. /\ Locking' = Locking /\ UNCHANGED <<doc, stalled>> /\ doc.there /\ doc.locked = "no"
        /\ "unstaller" \in current' => "unstaller" \in current
    BY <1>1, <1>6, DeletionAssumption DEF Receive, Locking, Goto, Typed
  <2> QED
    BY <1>1, <2>1 DEF LockInv, TypeOK, ReceivedIsUnlocked, ReadIsStalled, MissingIsMissing
<1>7. ASSUME NEW w \in Workers, Lock(w) PROVE LockInv'
  <2>1. CASE w \in current
    <3>1. doc.locked = "no" /\ doc.there /\ Locking = {}
      BY <1>7, <2>1 DEF Lock, LockInv, TypeOK, ReceivedIsUnlocked
    <3>2. /\ Locking' = {w} /\ doc'.there /\ doc'.locked = "recent" /\ current' = {w}
          /\ \A v \in Workers : pc'[v] = "received" => v # w
      BY <1>1, <1>7, <2>1, <3>1 DEF Lock, Locking, Store, Goto, Typed, Docs
    <3>3. "unstaller" \notin current'
      BY <3>2, DeletionAssumption
    <3> QED
      BY <1>1, <3>2, <3>3
      DEF LockInv, TypeOK, ReceivedIsUnlocked, ReadIsStalled, MissingIsMissing
  <2>2. CASE w \notin current
    BY <1>1, <1>7, <2>2, LockUntouched DEF Lock, docVars, Goto
  <2> QED
    BY <2>1, <2>2
<1>8. ASSUME NEW w \in Workers, ReadChanges(w) \/ Get(w) PROVE LockInv'
  <2>1. w \in Locking
    BY <1>8 DEF ReadChanges, Get, Locking
  <2>2. /\ UNCHANGED <<doc, stalled>> /\ current' \in {current, current \cup {w}}
        /\ \E label \in {"advancing", "processed", "deleted", "notFound", "destroying"} :
             pc' = [pc EXCEPT ![w] = label]
    BY <1>8 DEF ReadChanges, Get, Goto
  <2> QED
    BY <1>1, <2>1, <2>2, LockUntouched DEF Locking
<1>9. ASSUME NEW w \in Workers, Unlocking(w) \/ Destroy(w) PROVE LockInv'
  <2>1. w \in Locking
    BY <1>9
    DEF Unlocking, UnlockAndClean, UpsertUnlock, UpsertUnlockPossiblyDeleted, Destroy, Locking
  <2>2. doc.there
    BY <2>1 DEF LockInv, TypeOK
  <2>3. \/ /\ pc' = [pc EXCEPT ![w] = "idle"] /\ current' = {}
           /\ doc'.there \/ doc' = Missing
        \/ /\ UNCHANGED <<doc, current>>
           /\ \E label \in {"idle", "conflicted"} : pc' = [pc EXCEPT ![w] = label]
    <3>1. CASE Destroy(w)
      BY <3>1 DEF Destroy, Store, Goto, docVars
    <3>2. CASE UnlockAndClean(w)
      BY <1>1, <2>2, <3>2 DEF UnlockAndClean, Store, Goto, docVars, Typed, Docs
    <3>3. CASE UpsertUnlock(w)
      BY <1>1, <2>2, <3>3 DEF UpsertUnlock, Store, Goto, Typed, Docs
    <3>4. CASE UpsertUnlockPossiblyDeleted(w)
      BY <1>1, <2>2, <3>4 DEF UpsertUnlockPossiblyDeleted, Goto, Typed, Docs
    <3> QED
      BY <1>9, <3>1, <3>2, <3>3, <3>4 DEF Unlocking
  <2>4. UNCHANGED stalled
    BY <1>9
    DEF Unlocking, UnlockAndClean, UpsertUnlock, UpsertUnlockPossiblyDeleted, Destroy
  <2> QED
    BY <1>1, <2>1, <2>3, <2>4, LockReleased, LockUntouched DEF Locking
<1>10. ASSUME NEW w \in Workers, Crash(w) PROVE LockInv'
  BY <1>1, <1>10, LockUntouched DEF Crash, docVars
<1>11. ASSUME NEW w \in Workers, UpdateLastSeq(w) PROVE LockInv'
  <2>1. Locking' = Locking /\ UNCHANGED <<doc, stalled>> /\ current' = {}
    BY <1>1, <1>11 DEF UpdateLastSeq, Store, Goto, Locking, Typed
  <2> QED
    BY <1>1, <2>1 DEF LockInv, TypeOK, ReceivedIsUnlocked, ReadIsStalled, MissingIsMissing
<1> QED
  BY <1>2, <1>3, <1>4, <1>5, <1>6, <1>7, <1>8, <1>9, <1>10, <1>11
  DEF Next, ListenerStep, WorkerStep, vars, docVars, workerVars, Delete, Create, Change,
      GetCleanLockedOrMissing, DirtyConflicts

\* Two workers never work for the same listener, and nothing is destroyed or
\* unlocked under a worker that works: with any number of workers, whenever its
\* database comes and goes, and whoever is killed.
THEOREM TypeCorrect == Spec => []TypeOK
<1>1. LockInv => TypeOK
  BY DEF LockInv
<1> QED
  BY <1>1, InitLock, LockStep, PTL DEF Spec

-----------------------------------------------------------------------------

LEMMA LockHolds == Spec => []LockInv
  BY InitLock, LockStep, PTL DEF Spec

LEMMA CleanStep == LockInv /\ CleanIsJustified /\ [Next]_vars => CleanIsJustified'
<1> SUFFICES ASSUME LockInv, CleanIsJustified, [Next]_vars,
                    NEW w \in Workers, pc'[w] = "processed", w \in current', unread'
             PROVE  update' # "none"
  BY DEF CleanIsJustified
<1>1. Typed /\ (pc[w] = "processed" => doc.locked = "recent")
  BY DEF LockInv, TypeOK, Locking
<1>2. CASE Delete \/ Create \/ Change
  BY <1>2 DEF Delete, Create, Change, Happens
<1>3. CASE LockAges \/ MarkAges \/ DirtyConflicts \/ UNCHANGED vars
  BY <1>3
  DEF LockAges, MarkAges, DirtyConflicts, CleanIsJustified, vars, databaseVars, docVars,
      workerVars
<1>4. CASE GetCleanLockedOrMissing
  BY <1>1, <1>4 DEF GetCleanLockedOrMissing, databaseVars, workerVars
<1>5. CASE DirtyOrCreate
  BY <1>5 DEF DirtyOrCreate, Store
<1>6. CASE Unstaller
  BY <1>6, DeletionAssumption
  DEF Unstaller, ReadStalled, UnlockStalled, Store, CleanIsJustified, databaseVars, docVars,
      workerVars
<1>7. ASSUME NEW v \in Workers, ReadChanges(v) PROVE update' # "none"
  <2>1. ~exists
    BY <1>7, Zenon DEF ReadChanges
  <2>2. ~unread
    BY <1>1, <2>1, Zenon DEF Typed
  <2> QED
    BY <1>7, <2>1, <2>2, Zenon DEF ReadChanges
<1>10. ASSUME NEW v \in Workers, UpdateLastSeq(v) PROVE update' # "none"
  BY <1>10 DEF UpdateLastSeq, Store
<1>8. ASSUME NEW v \in Workers, Receive(v) \/ Lock(v) \/ Get(v) \/ Destroy(v) \/ Crash(v)
      PROVE update' # "none"
  <2>1. UNCHANGED <<unread, update>>
    BY <1>8 DEF Receive, Lock, Get, Destroy, Crash, databaseVars
  <2>2. pc[w] = "processed" /\ w \in current
    <3>1. CASE Receive(v) \/ Get(v) \/ Crash(v)
      BY <1>1, <3>1 DEF Receive, Get, Crash, Goto, Typed, docVars
    <3>2. CASE Lock(v) \/ Destroy(v)
      BY <1>1, <3>2 DEF Lock, Destroy, Store, Goto, Typed, docVars
    <3> QED
      BY <1>8, <3>1, <3>2
  <2> QED
    BY <2>1, <2>2 DEF CleanIsJustified
<1>9. ASSUME NEW v \in Workers, Unlocking(v) PROVE update' # "none"
  <2>1. pc[w] = "processed" /\ w \in current /\ unread /\ UNCHANGED update
    BY <1>1, <1>9
    DEF Unlocking, UnlockAndClean, UpsertUnlock, UpsertUnlockPossiblyDeleted, Store, Goto,
        Typed, databaseVars, docVars
  <2> QED
    BY <2>1 DEF CleanIsJustified
<1> QED
  BY <1>2, <1>3, <1>4, <1>5, <1>6, <1>7, <1>8, <1>9, <1>10 DEF Next, ListenerStep, WorkerStep

\* If a change that no batch has read is forgotten, the document was destroyed:
\* everything else that writes the document or takes an update, in any order and
\* with any crash, leaves the document dirty or the update listener informed.
THEOREM OnlyDestroyLosesChanges == Spec => OnlyDestroyForgets
<1> DEFINE Forgets == NoChangeForgotten /\ ~NoChangeForgotten'
<1>1. Init => CleanIsJustified
  BY DEF Init, CleanIsJustified
<1>2. LockInv /\ CleanIsJustified /\ [Next]_vars => [Forgets => doc.there /\ ~doc'.there]_vars
  <2> SUFFICES ASSUME LockInv, CleanIsJustified, Next, NoChangeForgotten,
                      unread', update' = "none", ~doc'.dirty
               PROVE  doc.there /\ ~doc'.there
    BY Zenon DEF NoChangeForgotten
  <2>1. Typed
    BY DEF LockInv, TypeOK
  <2>2. CASE Delete \/ Create \/ Change
    BY <2>2 DEF Delete, Create, Change, Happens
  <2>3. CASE LockAges \/ MarkAges
    BY <2>1, <2>3
    DEF LockAges, MarkAges, Typed, Docs, NoChangeForgotten, databaseVars, workerVars
  <2>4. CASE ListenerStep
    BY <2>1, <2>4
    DEF ListenerStep, GetCleanLockedOrMissing, DirtyOrCreate, DirtyConflicts, Store, New,
        Missing, Typed, Docs, NoChangeForgotten, databaseVars, docVars
  <2>5. CASE Unstaller
    BY <2>1, <2>5
    DEF Unstaller, ReadStalled, UnlockStalled, Store, Typed, Docs, NoChangeForgotten,
        databaseVars, docVars
  <2>6. ASSUME NEW w \in Workers, UnlockAndClean(w) PROVE FALSE
    BY <2>6
    DEF UnlockAndClean, CleanIsJustified, Store, NoChangeForgotten, databaseVars, docVars
  <2>7. ASSUME NEW w \in Workers, UpsertUnlock(w) \/ UpsertUnlockPossiblyDeleted(w)
        PROVE FALSE
    BY <2>1, <2>7
    DEF UpsertUnlock, UpsertUnlockPossiblyDeleted, Store, Typed, Docs, NoChangeForgotten,
        databaseVars
  <2>8. ASSUME NEW w \in Workers, ReadChanges(w) PROVE FALSE
    BY <2>8 DEF ReadChanges, NoChangeForgotten
  <2>9. ASSUME NEW w \in Workers,
               Receive(w) \/ Lock(w) \/ UpdateLastSeq(w) \/ Get(w) \/ Crash(w)
        PROVE FALSE
    BY <2>1, <2>9
    DEF Receive, Lock, UpdateLastSeq, Get, Crash, Store, Typed, Docs, NoChangeForgotten, databaseVars,
        docVars
  <2>10. ASSUME NEW w \in Workers, Destroy(w) PROVE doc.there /\ ~doc'.there
    <3>1. doc.there
      BY <2>10 DEF Destroy, LockInv, TypeOK, Locking
    <3> QED
      BY <2>10, <3>1 DEF Destroy, Store, Missing, NoChangeForgotten, databaseVars, docVars
  <2> QED
    BY <2>2, <2>3, <2>4, <2>5, <2>6, <2>7, <2>8, <2>9, <2>10 DEF Next, WorkerStep, Unlocking
<1> QED
  BY <1>1, <1>2, CleanStep, LockHolds, PTL DEF Spec, OnlyDestroyForgets

-----------------------------------------------------------------------------

\* Whoever judges the mark, or may still get to, has it as it is in the document.
LEMMA MarkStep ==
  ASSUME crashes' = 0, LockInv, MarkInv, [Next]_vars
  PROVE  MarkInv'
<1>1. Typed
  BY DEF LockInv, TypeOK
<1>2. CASE UNCHANGED <<doc, found, workerVars>> /\ current' \cap Workers = current \cap Workers
  BY <1>2 DEF MarkInv, Judging, workerVars
<1>3. CASE LockAges
  BY <1>1, <1>3 DEF LockAges, MarkInv, Judging, Typed, Docs, workerVars
<1>4. CASE MarkAges
  <2>1. \A w \in Workers : mark'[w] = "no" <=> mark[w] = "no"
    BY <1>1, <1>4 DEF MarkAges, Typed
  <2>2. doc.mark # "no" /\ doc'.mark # "no" /\ UNCHANGED <<current, found, pc>>
    BY <1>1, <1>4 DEF MarkAges, Typed, Docs
  <2> QED
    BY <2>1, <2>2 DEF MarkInv, Judging
<1>5. CASE DirtyOrCreate
  <2>1. /\ current' = {} /\ UNCHANGED <<found, pc, mark>>
        /\ doc.there => doc'.mark = doc.mark
        /\ ~doc.there => doc'.mark = doc.mark
    BY <1>1, <1>5
    DEF DirtyOrCreate, Store, Typed, Docs, New, Missing, LockInv, MissingIsMissing, workerVars
  <2> QED
    BY <2>1 DEF MarkInv, Judging
<1>6. CASE UnlockStalled /\ "unstaller" \in current
  <2>1. current' = {} /\ UNCHANGED <<found, pc, mark>> /\ doc'.mark = doc.mark
    BY <1>1, <1>6 DEF UnlockStalled, Store, Typed, Docs, workerVars
  <2> QED
    BY <2>1 DEF MarkInv, Judging
<1>7. ASSUME NEW w \in Workers, Receive(w) PROVE MarkInv'
  BY <1>1, <1>7 DEF Receive, Goto, Typed, MarkInv, Judging
<1>8. ASSUME NEW w \in Workers, Lock(w) PROVE MarkInv'
  BY <1>1, <1>8 DEF Lock, Store, Goto, Typed, Docs, MarkInv, Judging, docVars
<1>9. ASSUME NEW w \in Workers, ReadChanges(w) PROVE MarkInv'
  BY <1>1, <1>9 DEF ReadChanges, IsProbablyDeleted, Goto, Typed, MarkInv, Judging
<1>10. ASSUME NEW w \in Workers, Unlocking(w) \/ Destroy(w) PROVE MarkInv'
  <2>1. w \in Locking /\ \A v \in Workers \ {w} : pc[v] \in {"idle", "received"}
    BY <1>1, <1>10
    DEF Unlocking, UnlockAndClean, UpsertUnlock, UpsertUnlockPossiblyDeleted, Destroy,
        LockInv, TypeOK, Locking, Typed
  <2>2. CASE UnlockAndClean(w)
    BY <1>1, <2>1, <2>2 DEF UnlockAndClean, Store, Goto, Typed, Docs, MarkInv, Judging, docVars
  <2>3. CASE UpsertUnlock(w)
    BY <1>1, <2>1, <2>3 DEF UpsertUnlock, Store, Goto, Typed, Docs, MarkInv, Judging
  <2>4. CASE UpsertUnlockPossiblyDeleted(w)
    BY <1>1, <2>1, <2>4 DEF UpsertUnlockPossiblyDeleted, Goto, Typed, Docs, MarkInv, Judging
  <2>5. CASE Destroy(w)
    BY <1>1, <2>1, <2>5 DEF Destroy, Store, Goto, Typed, Missing, MarkInv, Judging, docVars
  <2> QED
    BY <1>10, <2>2, <2>3, <2>4, <2>5 DEF Unlocking
<1>11. ASSUME NEW w \in Workers, Get(w) PROVE MarkInv'
  BY <1>1, <1>11 DEF Get, Goto, Typed, MarkInv, Judging
<1>14. ASSUME NEW w \in Workers, UpdateLastSeq(w) PROVE MarkInv'
  BY <1>1, <1>14 DEF UpdateLastSeq, Store, Goto, Typed, MarkInv, Judging
<1>12. ASSUME NEW w \in Workers, Crash(w) PROVE FALSE
  BY <1>1, <1>12, SMT DEF Crash, Typed
<1>13. CASE Delete \/ Create \/ Change \/ GetCleanLockedOrMissing \/ DirtyConflicts \/ ReadStalled
            \/ (UnlockStalled /\ "unstaller" \notin current) \/ UNCHANGED vars
  <2>1. UNCHANGED <<doc, found, workerVars>>
    BY <1>13
    DEF Delete, Create, Change, GetCleanLockedOrMissing, DirtyConflicts, ReadStalled,
        UnlockStalled, vars, docVars
  <2>2. current' \in {current, current \cup {"listener"}, current \cup {"unstaller"}}
    BY <1>13
    DEF Delete, Create, Change, GetCleanLockedOrMissing, DirtyConflicts, ReadStalled,
        UnlockStalled, vars, docVars
  <2> QED
    BY <1>2, <2>1, <2>2, DeletionAssumption
<1> QED
  BY <1>3, <1>4, <1>5, <1>6, <1>7, <1>8, <1>9, <1>10, <1>11, <1>12, <1>13, <1>14
  DEF Next, ListenerStep, Unstaller, WorkerStep

\* The number of killed workers does not go back to 0.
LEMMA CrashesStay == LockInv /\ [Next]_vars /\ crashes' = 0 => crashes = 0
<1> SUFFICES ASSUME LockInv, [Next]_vars, crashes' = 0 PROVE crashes = 0
  OBVIOUS
<1>1. crashes \in Nat
  BY DeletionAssumption DEF LockInv, TypeOK, Typed
<1>2. ASSUME NEW w \in Workers, Crash(w) PROVE FALSE
  BY <1>1, <1>2 DEF Crash
<1>3. ASSUME NEW w \in Workers, WorkerStep(w) PROVE crashes = 0
  BY <1>3
  DEF WorkerStep, Unlocking, Receive, Lock, ReadChanges, UpdateLastSeq, UnlockAndClean,
      UpsertUnlock, UpsertUnlockPossiblyDeleted, Get, Destroy
<1>4. CASE Delete \/ Create \/ Change \/ LockAges \/ MarkAges \/ ListenerStep \/ Unstaller
  BY <1>4
  DEF Delete, Create, Change, LockAges, MarkAges, ListenerStep, GetCleanLockedOrMissing,
      DirtyOrCreate, DirtyConflicts, Unstaller, ReadStalled, UnlockStalled
<1> QED
  BY <1>2, <1>3, <1>4 DEF Next, vars

\* A listener is destroyed only if no batch has found its database since the first
\* error that said it is not there, as long as no worker was killed.
THEOREM DestroyedOnlyIfPersisted == Spec => DestroyedIfPersisted
<1> DEFINE Inv == crashes = 0 => MarkInv
<1>1. Init => Inv
  BY DEF Init, MarkInv, Judging
<1>2. LockInv /\ Inv /\ [Next]_vars => Inv'
  BY MarkStep, CrashesStay
<1>3. LockInv /\ Inv /\ [Next]_vars => [crashes = 0 /\ doc.there /\ ~doc'.there => ~found]_vars
  <2> SUFFICES ASSUME LockInv, MarkInv, Next, doc.there, ~doc'.there PROVE ~found
    OBVIOUS
  <2>1. Typed
    BY DEF LockInv, TypeOK
  <2>2. PICK w \in Workers : Destroy(w)
    <3>1. CASE Delete \/ Create \/ Change \/ LockAges \/ MarkAges \/ ListenerStep \/ Unstaller
      BY <2>1, <3>1
      DEF Delete, Create, Change, LockAges, MarkAges, ListenerStep, GetCleanLockedOrMissing,
          DirtyOrCreate, DirtyConflicts, Unstaller, ReadStalled, UnlockStalled, Store, Typed,
          Docs, docVars
    <3>2. ASSUME NEW w \in Workers,
                 \/ Receive(w) \/ Lock(w) \/ ReadChanges(w) \/ UpdateLastSeq(w)
                 \/ Get(w) \/ Crash(w)
          PROVE FALSE
      BY <2>1, <3>2
      DEF Receive, Lock, ReadChanges, UpdateLastSeq, Get, Crash, Store, Typed, Docs, docVars
    <3>3. ASSUME NEW w \in Workers, Unlocking(w) PROVE FALSE
      BY <2>1, <3>3
      DEF Unlocking, UnlockAndClean, UpsertUnlock, UpsertUnlockPossiblyDeleted, Store, Typed,
          Docs, docVars
    <3> QED
      BY <3>1, <3>2, <3>3 DEF Next, WorkerStep
  <2>3. w \in Locking /\ Judging(w) /\ mark[w] # "no"
    BY <2>2 DEF Destroy, Locking, Judging, MarkInv
  <2>4. doc.mark # "no" /\ \A v \in Workers : pc[v] \notin {"advancing", "processed", "conflicted"}
    BY <2>1, <2>2, <2>3 DEF MarkInv, LockInv, TypeOK, Locking, Destroy
  <2> QED
    BY <2>4, Zenon DEF MarkInv
<1> QED
  BY <1>1, <1>2, <1>3, LockHolds, PTL DEF Spec, DestroyedIfPersisted
=============================================================================
