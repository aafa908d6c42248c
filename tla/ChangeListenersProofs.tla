----------------------- MODULE ChangeListenersProofs ------------------------
(***************************************************************************)
(* For any number of databases, processes, workers and update listeners,   *)
(* any size of a batch, any backoff and any bound on faults and changes:   *)
(*   TypeCorrect      the type invariant                                   *)
(*   SeqsSkipNothing  no batch resumes after a change that is not handled  *)
(*   OneHolder        mutual exclusion of the lock, if nothing is slow and *)
(*                    no API request that is awaited fails                 *)
(*   ChangesAreKept   no change is forgotten, and                          *)
(*   MarksAreDisciplined  the dirty-mark discipline is implemented, if no  *)
(*                    API request that is awaited fails                    *)
(*   DirtyingIsOfFeed their part of UpdateFeed is, too                     *)
(*   ChangesAreKeptByRetries, RetriesAreDisciplined, RetriesAreOfFeed      *)
(*                    the same with failing requests, if a batch that is   *)
(*                    retried is the last                                  *)
(***************************************************************************)
EXTENDS ChangeListeners, ProcessProofs

SeqsTyped ==
  /\ newest \in [Items -> 0..MaxChanges]
  /\ last_seq \in [Items -> 0..MaxChanges]
  /\ retries \in [Items -> Nat]
  /\ relocked \in SUBSET Items
  /\ handled \in [Items -> 0..MaxChanges]
  /\ failures \in [Items -> Nat]
  /\ \A i \in Items : handled[i] <= newest[i]

WorkTyped ==
  /\ work \in [Workers -> Work]
  /\ \A w \in Workers : /\ pc[w] = "processing" <=> work[w].step # "none"
                        /\ pc[w] \in {"idle", "got"} => work[w] = NoWork
                        /\ pc[w] = "processing" => work[w].upTo <= newest[item[w]]

ListenersTyped ==
  /\ updates \in [Listeners -> SUBSET Items]
  /\ batch \in [Listeners -> SUBSET Items]
  /\ names \in [Listeners -> SUBSET Items]
  /\ rows \in [Listeners -> SUBSET Items]
  /\ \A u \in Listeners : names[u] \cup rows[u] \subseteq batch[u]

LEMMA TypeParts ==
  /\ TypeOK <=> ProcessTypeOK /\ SeqsTyped /\ WorkTyped /\ ListenersTyped
  /\ TypeOK' <=> ProcessTypeOK' /\ SeqsTyped' /\ WorkTyped' /\ ListenersTyped'
<1>1. TypeOK <=> ProcessTypeOK /\ SeqsTyped /\ WorkTyped /\ ListenersTyped
  BY DEF TypeOK, SeqsTyped, WorkTyped, ListenersTyped
<1>2. TypeOK' <=> ProcessTypeOK' /\ SeqsTyped' /\ WorkTyped' /\ ListenersTyped'
  BY DEF TypeOK, SeqsTyped, WorkTyped, ListenersTyped
<1> QED
  BY <1>1, <1>2

\* NothingSkipped is inductive with the step between the requests of a batch and
\* the update of last_seq: it begins when they have succeeded or were given up.
SeqInv ==
  /\ NothingSkipped
  /\ \A w \in Workers : At(w, "advance") => work[w].upTo <= handled[item[w]]

\* The type invariant needs it: last_seq never exceeds the number of changes.
Inv == TypeOK /\ SeqInv

-----------------------------------------------------------------------------
(* A step of the engine moves no worker that is processing, but to the end. *)

Moves(w) ==
  \/ pc'[w] = pc[w] /\ item'[w] = item[w]
  \/ pc'[w] = "idle"
  \/ pc[w] = "idle" /\ pc'[w] = "got"
  \/ pc[w] = "got" /\ pc'[w] = "locked" /\ item'[w] = item[w]
  \/ pc[w] = "processed" /\ pc'[w] = "conflicted" /\ item'[w] = item[w]

LEMMA EngineMoves ==
  ASSUME ProcessTypeOK, ProcessStep, NEW w \in Workers
  PROVE  Moves(w)
<1>1. ASSUME NEW v \in Workers, WorkerStep(v) PROVE Moves(w)
  BY <1>1
  DEF ProcessTypeOK, Moves, WorkerStep, Lock, LockConflict, LockAnswerLost, LockRequestLost,
      UnlockAndCleanConflict, UpsertUnlock, UnlockRequestLost, Goto, Release
<1>2. ASSUME NEW p \in Procs, ProcStep(p) PROVE Moves(w)
  <2>1. CASE \E v \in WorkersOf(p), i \in Items : OnDirtyRow(v, i) \/ OnChange(v, i)
    <3>1. PICK v \in Workers, i \in Items : OnDirtyRow(v, i) \/ OnChange(v, i)
      BY <2>1 DEF WorkersOf
    <3>2. /\ pc[v] = "idle" /\ pc' = [pc EXCEPT ![v] = "got"]
          /\ item' = [item EXCEPT ![v] = i]
      BY <3>1 DEF OnDirtyRow, OnChange, Receive
    <3> QED
      BY <3>2 DEF ProcessTypeOK, Moves
  <2>2. CASE Crash(p)
    BY <2>2 DEF Crash, Moves
  <2>3. CASE \/ GetLastSeq(p) \/ LoadDirty(p) \/ StartListening(p) \/ Stop(p) \/ Stopped(p)
             \/ ReadStalled(p) \/ UnstallerFails(p) \/ \E i \in Items : UnlockStalled(p, i)
    BY <2>3
    DEF GetLastSeq, LoadDirty, StartListening, Stop, Stopped, ReadStalled, UnstallerFails,
        UnlockStalled, Moves
  <2> QED
    BY <1>2, <2>1, <2>2, <2>3 DEF ProcStep
<1>3. ASSUME NEW s \in Soilers, SoilerStep(s) PROVE Moves(w)
  BY <1>3 DEF SoilerStep, SoilPendingItems, SoilItem, SoilItemFails, Moves
<1>4. ASSUME NEW i \in Items, TimeStep(i) PROVE Moves(w)
  BY <1>4 DEF TimeStep, OrphanLockStalls, SlowLockStalls, Stalls, DirtyAtComes, Moves
<1> QED
  BY <1>1, <1>2, <1>3, <1>4 DEF ProcessStep

-----------------------------------------------------------------------------
(* The invariants.                                                         *)

LEMMA InitInv == Init => Inv /\ LockInv
<1> SUFFICES ASSUME Init PROVE Inv /\ LockInv
  OBVIOUS
<1>1. ProcessTypeOK
  BY ProcessAssumption
  DEF Init, EngineInit, ProcessTypeOK, Docs, Phases, Holders, Soilers, Critical
<1>4. LockInv
  BY DEF Init, EngineInit, LockInv, MutualExclusion, LockIsKept, ReceivedIsUnlocked,
         RowsMatchPhase, StalledIsStalled, WorksOn, Critical, Holders
<1>2. SeqsTyped /\ WorkTyped /\ ListenersTyped
  BY ChangeListenersAssumption
  DEF Init, EngineInit, SeqsTyped, WorkTyped, ListenersTyped, NoWork, Work
<1>3. SeqInv
  BY DEF Init, EngineInit, SeqInv, NothingSkipped, At, NoWork
<1> QED
  BY <1>1, <1>2, <1>3, <1>4, TypeParts DEF Inv

\* A step of the engine.
LEMMA EngineInv ==
  ASSUME Inv, Engine(ProcessStep)
  PROVE  Inv'
<1>1. ProcessTypeOK /\ SeqsTyped /\ WorkTyped /\ ListenersTyped
  BY TypeParts DEF Inv
<1>2. ProcessTypeOK'
  BY <1>1, ProcessStepTyped DEF Engine
<1>3. UNCHANGED <<newest, last_seq, retries, handled, failures, updates, batch, names, rows>>
  BY DEF Engine, seqVars, listenerVars
<1>4. SeqsTyped' /\ ListenersTyped'
  BY <1>1, <1>3 DEF Engine, SeqsTyped, ListenersTyped
<1>5. ASSUME NEW w \in Workers
      PROVE  /\ work'[w] \in Work
             /\ pc'[w] = "processing" <=> work'[w].step # "none"
             /\ pc'[w] \in {"idle", "got"} => work'[w] = NoWork
             /\ pc'[w] = "processing" => work'[w].upTo <= newest'[item'[w]]
             /\ pc'[w] # "idle" => work'[w].since <= handled'[item'[w]]
             /\ work'[w].step = "advance" => work'[w].upTo <= handled'[item'[w]]
  <2>1. Moves(w)
    BY <1>1, EngineMoves DEF Engine
  <2>2. work'[w] = IF pc'[w] \in {"idle", "got"} THEN NoWork
                   ELSE IF pc[w] = "got" THEN Loaded(w) ELSE work[w]
    BY DEF Engine
  <2>3. /\ NoWork \in Work /\ NoWork.step = "none" /\ NoWork.since = 0
    BY DEF NoWork, Work
  <2>4. ASSUME pc[w] = "got"
        PROVE  /\ Loaded(w) \in Work /\ Loaded(w).step = "none"
               /\ Loaded(w).since = last_seq[item[w]]
               /\ last_seq[item[w]] <= handled[item[w]] /\ item[w] \in Items
    <3>1. item[w] \in Items
      BY <1>1, <2>4 DEF ProcessTypeOK
    <3>2. last_seq[item[w]] \in Nat /\ retries[item[w]] \in Nat
      BY <1>1, <3>1, ChangeListenersAssumption DEF SeqsTyped
    <3> DEFINE a == docs[item[w]].dirty_at # "null"
               b == item[w] \in relocked
               n == last_seq[item[w]]
               m == retries[item[w]]
    <3>3. a \in BOOLEAN /\ b \in BOOLEAN /\ n \in Nat /\ m \in Nat
      BY <3>2
    <3>4. Loaded(w) = [NoWork EXCEPT !.delayed = a, !.unlocks = b, !.since = n, !.retries = m]
      BY DEF Loaded
    <3> HIDE DEF a, b, n, m
    <3> DEFINE r == [NoWork EXCEPT !.delayed = a]
               s == [r EXCEPT !.unlocks = b]
               t == [s EXCEPT !.since = n, !.retries = m]
    <3>5. r \in Work /\ r.step = "none"
      BY <3>3 DEF NoWork, Work
    <3> HIDE DEF r
    <3>8. s \in Work /\ s.step = "none"
      BY <3>3, <3>5 DEF Work
    <3> HIDE DEF s
    <3>9. t \in Work /\ t.step = "none" /\ t.since = n
      BY <3>3, <3>8 DEF Work
    <3>10. Loaded(w) = t
      BY <3>4 DEF t, s, r
    <3>7. Loaded(w) \in Work /\ Loaded(w).step = "none" /\ Loaded(w).since = n
      BY <3>9, <3>10
    <3> USE DEF n
    <3>6. last_seq[item[w]] <= handled[item[w]]
      BY <3>1 DEF Inv, SeqInv, NothingSkipped
    <3> QED
      BY <3>1, <3>3, <3>6, <3>7
  <2>5. CASE pc'[w] \in {"idle", "got"}
    <3>1. pc'[w] # "idle" => item'[w] \in Items
      BY <1>2 DEF ProcessTypeOK
    <3>2. pc'[w] # "idle" => 0 <= handled'[item'[w]]
      BY <1>4, <3>1, ChangeListenersAssumption DEF SeqsTyped
    <3> QED
      BY <2>2, <2>3, <2>5, <3>2
  <2>6. CASE pc[w] = "got" /\ pc'[w] \notin {"idle", "got"}
    BY <1>3, <2>1, <2>2, <2>4, <2>6 DEF Moves
  <2>7. CASE pc[w] # "got" /\ pc'[w] \notin {"idle", "got"}
    <3>1. /\ item'[w] = item[w] /\ work'[w] = work[w] /\ pc[w] # "idle"
          /\ pc'[w] = "processing" <=> pc[w] = "processing"
      BY <2>1, <2>2, <2>7 DEF Moves
    <3> QED
      BY <1>1, <1>3, <2>7, <3>1 DEF WorkTyped, Inv, SeqInv, NothingSkipped, At
  <2> QED
    BY <2>5, <2>6, <2>7
<1>6. WorkTyped'
  <2>1. work' \in [Workers -> Work]
    BY <1>5 DEF Engine
  <2> QED
    BY <1>5, <2>1 DEF WorkTyped
<1>7. SeqInv'
  BY <1>3, <1>5 DEF Inv, SeqInv, NothingSkipped, At
<1> QED
  BY <1>2, <1>4, <1>6, <1>7, TypeParts DEF Inv

-----------------------------------------------------------------------------
(* The steps of a batch.                                                   *)

\* A worker that goes on with its item, or a write that leaves it.
LEMMA PcTyped ==
  ASSUME ProcessTypeOK, DbTyped', NEW w \in Workers, pc[w] \in Critical,
         NEW label \in Critical,
         pc' = [pc EXCEPT ![w] = label],
         \A h \in Holders : current'[h] \subseteq current[h],
         UNCHANGED <<item, soiling, phase, todo, stalled>>,
         faults' \in 0..MaxFaults
  PROVE  ProcessTypeOK'
<1>1. pc' \in [Workers -> {"idle", "got"} \cup Critical]
  BY DEF ProcessTypeOK
<1>2. \A v \in Workers : /\ pc'[v] = "idle" <=> item'[v] = NoItem
                         /\ current'[v] \subseteq {item'[v]}
  BY DEF ProcessTypeOK, Critical, Holders
<1> QED
  BY <1>1, <1>2 DEF ProcessTypeOK, DbTyped

\* What a step of the batch of worker w has to keep.
LEMMA BatchFrame ==
  ASSUME Inv, NEW w \in Workers, NEW next \in Work,
         ProcessTypeOK',
         work' = [work EXCEPT ![w] = next],
         UNCHANGED <<newest, updates, batch, names, rows>>,
         last_seq' \in [Items -> 0..MaxChanges],
         retries' \in [Items -> Nat],
         relocked' \in SUBSET Items,
         handled' \in [Items -> 0..MaxChanges],
         failures' \in [Items -> Nat],
         \A i \in Items : /\ handled[i] <= handled'[i] /\ handled'[i] <= newest[i]
                          /\ last_seq'[i] <= handled'[i],
         \A v \in Workers \ {w} : pc'[v] = pc[v] /\ item'[v] = item[v],
         \/ pc'[w] = "idle" /\ next = NoWork
         \/ /\ pc[w] # "idle" /\ pc'[w] \in Critical /\ item'[w] = item[w]
            /\ next.since = work[w].since
            /\ pc'[w] = "processing" <=> next.step # "none"
            /\ pc'[w] = "processing" => next.upTo <= newest[item[w]]
            /\ next.step = "advance" => next.upTo <= handled'[item[w]]
  PROVE  Inv'
<1>1. SeqsTyped /\ WorkTyped /\ ListenersTyped /\ ProcessTypeOK
  BY TypeParts DEF Inv
<1>2. SeqsTyped' /\ ListenersTyped'
  BY <1>1 DEF SeqsTyped, ListenersTyped
<1>3. work' \in [Workers -> Work] /\ work'[w] = next
      /\ \A v \in Workers \ {w} : work'[v] = work[v]
  BY <1>1 DEF WorkTyped
<1>4. NoWork.step = "none" /\ NoWork.since = 0
  BY DEF NoWork
<1>5. \A v \in Workers : pc[v] # "idle" => item[v] \in Items
  BY <1>1 DEF ProcessTypeOK
<1>6. WorkTyped'
  <2>1. ASSUME NEW v \in Workers
        PROVE  /\ pc'[v] = "processing" <=> work'[v].step # "none"
               /\ pc'[v] \in {"idle", "got"} => work'[v] = NoWork
               /\ pc'[v] = "processing" => work'[v].upTo <= newest'[item'[v]]
    <3>1. CASE v = w
      BY <1>3, <1>4, <3>1 DEF Critical
    <3>2. CASE v # w
      BY <1>1, <1>3, <3>2 DEF WorkTyped
    <3> QED
      BY <3>1, <3>2
  <2> QED
    BY <1>3, <2>1 DEF WorkTyped
<1>7. SeqInv'
  <2>1. ASSUME NEW v \in Workers, pc'[v] # "idle"
        PROVE  /\ work'[v].since <= handled'[item'[v]]
               /\ At(v, "advance")' => work'[v].upTo <= handled'[item'[v]]
    <3>1. pc[v] # "idle" /\ item'[v] = item[v] /\ item[v] \in Items
      BY <1>5, <2>1
    <3>2. work[v].since <= handled[item[v]] /\ handled[item[v]] <= handled'[item[v]]
      BY <3>1 DEF Inv, SeqInv, NothingSkipped
    <3>3. /\ work[v].since \in Nat /\ work[v].upTo \in Nat
          /\ handled[item[v]] \in Nat /\ handled'[item[v]] \in Nat
      BY <1>1, <1>2, <3>1, ChangeListenersAssumption DEF WorkTyped, Work, SeqsTyped
    <3>4. CASE v = w
      <4>1. work'[v].since = work[v].since
        BY <1>3, <2>1, <3>4
      <4>2. At(v, "advance")' => next.step = "advance" /\ pc'[w] # "idle"
        BY <1>3, <3>4 DEF At
      <4> QED
        BY <1>3, <2>1, <3>1, <3>2, <3>3, <3>4, <4>1, <4>2
    <3>5. CASE v # w
      <4>1. work'[v] = work[v] /\ pc'[v] = pc[v]
        BY <1>3, <3>5
      <4>2. At(v, "advance")' => work[v].upTo <= handled[item[v]]
        BY <4>1 DEF At, Inv, SeqInv
      <4> QED
        BY <3>1, <3>2, <3>3, <4>1, <4>2
    <3> QED
      BY <3>4, <3>5
  <2>2. \A i \in Items : last_seq'[i] <= handled'[i]
    OBVIOUS
  <2>3. \A v \in Workers : pc'[v] # "idle" => work'[v].since <= handled'[item'[v]]
    BY <2>1
  <2>4. \A v \in Workers : At(v, "advance")' => work'[v].upTo <= handled'[item'[v]]
    <3>1. \A v \in Workers : At(v, "advance")' => pc'[v] # "idle"
      BY DEF At
    <3> QED
      BY <2>1, <3>1
  <2> QED
    BY <2>2, <2>3, <2>4 DEF SeqInv, NothingSkipped
<1> QED
  BY <1>2, <1>6, <1>7, TypeParts DEF Inv

\* What is known of a worker that is processing, or about to.
LEMMA WorkFacts ==
  ASSUME Inv, NEW w \in Workers, pc[w] \in Critical
  PROVE  /\ ProcessTypeOK /\ SeqsTyped
         /\ work[w] \in Work /\ item[w] \in Items
         /\ work[w].since \in Nat /\ work[w].upTo \in Nat
         /\ newest[item[w]] \in 0..MaxChanges /\ handled[item[w]] \in 0..MaxChanges
         /\ handled[item[w]] <= newest[item[w]]
         /\ work[w].since <= handled[item[w]]
         /\ pc[w] = "processing" => work[w].upTo <= newest[item[w]]
         /\ At(w, "advance") => work[w].upTo <= handled[item[w]]
         /\ \A i \in Items : last_seq[i] <= handled[i] /\ handled[i] <= newest[i]
<1>1. ProcessTypeOK /\ SeqsTyped /\ WorkTyped
  BY TypeParts DEF Inv
<1>2. pc[w] # "idle" /\ item[w] \in Items
  BY <1>1 DEF ProcessTypeOK, Critical
<1>3. work[w] \in Work /\ work[w].since \in Nat /\ work[w].upTo \in Nat
  BY <1>1 DEF WorkTyped, Work
<1> QED
  BY <1>1, <1>2, <1>3 DEF WorkTyped, SeqsTyped, Inv, SeqInv, NothingSkipped

\* Handled moves forward, up to the end of the batch.
LEMMA HandledGrows ==
  ASSUME SeqsTyped, NEW w \in Workers, item[w] \in Items, work[w].upTo \in Nat,
         work[w].upTo <= newest[item[w]], Handled(w)
  PROVE  /\ handled' \in [Items -> 0..MaxChanges] /\ failures' \in [Items -> Nat]
         /\ work[w].upTo <= handled'[item[w]]
         /\ \A i \in Items : handled[i] <= handled'[i] /\ handled'[i] <= newest[i]
<1>1. \A i \in Items : newest[i] \in 0..MaxChanges /\ handled[i] \in 0..MaxChanges
                       /\ handled[i] <= newest[i]
  BY DEF SeqsTyped
<1>2. /\ handled'[item[w]] = IF handled[item[w]] < work[w].upTo THEN work[w].upTo
                                                               ELSE handled[item[w]]
      /\ \A i \in Items \ {item[w]} : handled'[i] = handled[i]
      /\ handled' = [i \in Items |-> handled'[i]]
  BY DEF SeqsTyped, Handled
<1>3. \A i \in Items : /\ handled[i] <= handled'[i] /\ handled'[i] <= newest[i]
                       /\ handled'[i] \in 0..MaxChanges
  BY <1>1, <1>2, ChangeListenersAssumption
<1>4. work[w].upTo <= handled'[item[w]]
  BY <1>1, <1>2, ChangeListenersAssumption
<1>5. failures' \in [Items -> Nat]
  BY DEF SeqsTyped, Handled
<1> QED
  BY <1>2, <1>3, <1>4, <1>5

\* A step that leaves last_seq and handled alone.
LEMMA SeqsStay ==
  ASSUME Inv, UNCHANGED <<last_seq, handled>>
  PROVE  \A i \in Items : /\ handled[i] <= handled'[i] /\ handled'[i] <= newest[i]
                          /\ last_seq'[i] <= handled'[i]
<1>1. SeqsTyped /\ \A i \in Items : last_seq[i] <= handled[i]
  BY TypeParts DEF Inv, SeqInv, NothingSkipped
<1>2. \A i \in Items : handled[i] \in Nat /\ handled[i] <= newest[i]
  BY <1>1, ChangeListenersAssumption DEF SeqsTyped
<1>3. \A i \in Items : handled[i] <= handled[i]
  BY <1>2
<1> QED
  BY <1>1, <1>2, <1>3

\* The steps whose engine part is that of a worker of Process.
LEMMA PlainBatchInv ==
  ASSUME Inv, NEW w \in Workers,
         ReadChanges(w) \/ RequestsSucceed(w) \/ DatabaseNotFound(w) \/ UnlockAndCleanListener(w)
  PROVE  Inv'
<1>1. pc[w] \in Critical
  BY DEF ReadChanges, RequestsSucceed, DatabaseNotFound, UnlockAndCleanListener, BeginProcess,
         At, UnlockAndClean, Critical
<1>2. ProcessTypeOK /\ SeqsTyped
  BY <1>1, WorkFacts
<1>3. CASE ReadChanges(w)
  <2> DEFINE end == Smaller(work[w].since + BatchSize, newest[item[w]])
             next == [work[w] EXCEPT !.upTo = end, !.step = "requests"]
  <2>1. end \in Nat /\ end <= newest[item[w]]
    BY <1>1, WorkFacts, ChangeListenersAssumption DEF Smaller
  <2>2. next \in Work /\ next.upTo = end /\ next.step = "requests" /\ next.since = work[w].since
    <3> HIDE DEF end
    <3> QED
      BY <1>1, <2>1, WorkFacts DEF Work
  <2>3. ProcessTypeOK'
    BY <1>2, <1>3, WorkerTyped DEF ReadChanges
  <2>4. /\ pc'[w] = "processing" /\ item' = item
        /\ \A v \in Workers \ {w} : pc'[v] = pc[v]
    BY <1>2, <1>3 DEF ReadChanges, BeginProcess, Goto, ProcessTypeOK
  <2>5. work' = [work EXCEPT ![w] = next]
    BY <1>3 DEF ReadChanges, Proceed
  <2>6. UNCHANGED <<seqVars, relocked, listenerVars>>
    BY <1>3 DEF ReadChanges, Proceed
  <2> HIDE DEF next, end
  <2> QED
    BY <1>1, <1>2, <2>1, <2>2, <2>3, <2>4, <2>5, <2>6, SeqsStay, BatchFrame
    DEF SeqsTyped, seqVars, listenerVars, Critical
<1>4. CASE RequestsSucceed(w)
  <2> DEFINE next == IF work[w].delayed THEN [work[w] EXCEPT !.step = "none", !.leave = FALSE]
                                        ELSE [work[w] EXCEPT !.step = "advance"]
  <2>1. /\ next \in Work /\ next.since = work[w].since /\ next.upTo = work[w].upTo
        /\ next.step = IF work[w].delayed THEN "none" ELSE "advance"
    BY <1>1, WorkFacts DEF Work
  <2>2. At(w, "requests") /\ work' = [work EXCEPT ![w] = next]
    BY <1>4 DEF RequestsSucceed, Return, Proceed
  <2>3. ProcessTypeOK'
    <3>1. CASE work[w].delayed
      BY <1>2, <1>4, <3>1, WorkerTyped DEF RequestsSucceed, Return
    <3>2. CASE ~work[w].delayed
      BY <1>2, <1>4, <3>2 DEF RequestsSucceed, processVars, ProcessTypeOK
    <3> QED
      BY <3>1, <3>2
  <2>4. /\ item' = item
        /\ pc'[w] = IF work[w].delayed THEN "processed" ELSE "processing"
        /\ \A v \in Workers \ {w} : pc'[v] = pc[v]
    BY <1>2, <1>4, <2>2
    DEF RequestsSucceed, Return, ProcessSucceeds, Goto, processVars, ProcessTypeOK, At
  <2>5. UNCHANGED <<newest, last_seq, retries, relocked, listenerVars>>
    BY <1>4 DEF RequestsSucceed, Return, Proceed
  <2>6. Handled(w)
    BY <1>4 DEF RequestsSucceed
  <2>7. work[w].upTo <= newest[item[w]]
    BY <1>1, <2>2, WorkFacts DEF At
  <2>8. /\ handled' \in [Items -> 0..MaxChanges] /\ failures' \in [Items -> Nat]
        /\ work[w].upTo <= handled'[item[w]]
        /\ \A i \in Items : handled[i] <= handled'[i] /\ handled'[i] <= newest[i]
    BY <1>1, <1>2, <2>6, <2>7, WorkFacts, HandledGrows
  <2>9. \A i \in Items : last_seq'[i] <= handled'[i]
    <3>1. ASSUME NEW i \in Items PROVE last_seq'[i] <= handled'[i]
      <4>1. last_seq[i] <= handled[i] /\ handled[i] <= handled'[i]
        BY <1>1, <2>8, WorkFacts
      <4>2. last_seq[i] \in Nat /\ handled[i] \in Nat /\ handled'[i] \in Nat
        BY <1>2, <2>8, ChangeListenersAssumption DEF SeqsTyped
      <4> QED
        BY <2>5, <4>1, <4>2
    <3> QED
      BY <3>1
  <2> HIDE DEF next
  <2> QED
    BY <1>1, <1>2, <2>1, <2>2, <2>3, <2>4, <2>5, <2>7, <2>8, <2>9, BatchFrame
    DEF SeqsTyped, listenerVars, Critical, At
<1>5. CASE DatabaseNotFound(w)
  <2> DEFINE next == [work[w] EXCEPT !.step = "none"]
  <2>1. next \in Work /\ next.since = work[w].since /\ next.step = "none"
    BY <1>1, WorkFacts DEF Work
  <2>2. work' = [work EXCEPT ![w] = next]
    BY <1>5 DEF DatabaseNotFound, Proceed
  <2>3. ProcessTypeOK'
    BY <1>2, <1>5, WorkerTyped DEF DatabaseNotFound
  <2>4. /\ pc'[w] = "failed" /\ item' = item
        /\ \A v \in Workers \ {w} : pc'[v] = pc[v]
    BY <1>2, <1>5 DEF DatabaseNotFound, ProcessThrows, Goto, ProcessTypeOK
  <2>5. UNCHANGED <<seqVars, relocked, listenerVars>>
    BY <1>5 DEF DatabaseNotFound, Proceed
  <2> HIDE DEF next
  <2> QED
    BY <1>1, <1>2, <2>1, <2>2, <2>3, <2>4, <2>5, SeqsStay, BatchFrame
    DEF SeqsTyped, seqVars, listenerVars, Critical
<1>6. CASE UnlockAndCleanListener(w)
  <2>1. NoWork \in Work
    BY DEF NoWork, Work
  <2>2. PICK leave \in BOOLEAN : UnlockAndClean(w, leave)
    <3>1. (work[w].leave /\ work[w].dirty) \in BOOLEAN
      OBVIOUS
    <3> QED
      BY <1>6, <3>1 DEF UnlockAndCleanListener
  <2>3. ProcessTypeOK'
    BY <1>2, <2>2, WorkerTyped
  <2>4. /\ pc'[w] = "idle"
        /\ \A v \in Workers \ {w} : pc'[v] = pc[v] /\ item'[v] = item[v]
    BY <1>2, <2>2 DEF UnlockAndClean, Release, ProcessTypeOK
  <2>5. /\ work' = [work EXCEPT ![w] = NoWork]
        /\ retries' = [retries EXCEPT ![item[w]] = 0]
        /\ UNCHANGED <<newest, last_seq, relocked, handled, failures, listenerVars>>
    BY <1>6 DEF UnlockAndCleanListener
  <2> QED
    BY <1>1, <1>2, <2>1, <2>3, <2>4, <2>5, SeqsStay, BatchFrame
    DEF SeqsTyped, listenerVars, Critical
<1> QED
  BY <1>3, <1>4, <1>5, <1>6

\* The steps of a batch that fails, or ends without a write.
LEMMA FailedBatchInv ==
  ASSUME Inv, NEW w \in Workers,
         RequestFails(w) \/ GiveUp(w) \/ QueueSoiler(w) \/ BatchThrows(w)
  PROVE  Inv'
<1>1. pc[w] = "processing" /\ pc[w] \in Critical
  BY DEF RequestFails, GiveUp, QueueSoiler, BatchThrows, At, Critical
<1>2. ProcessTypeOK /\ SeqsTyped /\ faults \in 0..MaxFaults
  BY <1>1, WorkFacts DEF ProcessTypeOK
<1>3. UNCHANGED <<newest, relocked, listenerVars>>
  BY DEF RequestFails, GiveUp, QueueSoiler, BatchThrows, Proceed, seqVars
<1>4. CASE RequestFails(w)
  <2> DEFINE next == [work[w] EXCEPT !.dirty = FALSE, !.delayed = TRUE,
                                     !.retries = @ + 1, !.step = "retry"]
  <2>1. next \in Work /\ next.since = work[w].since /\ next.step = "retry"
        /\ next.upTo = work[w].upTo
    <3> DEFINE n == work[w].retries + 1
    <3>1. work[w] \in Work /\ n \in Nat
      BY <1>1, WorkFacts DEF Work
    <3>2. next = [work[w] EXCEPT !.dirty = FALSE, !.delayed = TRUE, !.retries = n, !.step = "retry"]
      OBVIOUS
    <3> HIDE DEF n, next
    <3> QED
      BY <3>1, <3>2 DEF Work
  <2>2. work' = [work EXCEPT ![w] = next]
    BY <1>4 DEF RequestFails, Proceed
  <2>3. faults' \in 0..MaxFaults
    BY <1>2, <1>4, ProcessAssumption DEF RequestFails, BatchFault
  <2>4. ProcessTypeOK'
    BY <1>2, <1>4, <2>3 DEF RequestFails, procVars, workerVars, ProcessTypeOK
  <2>5. /\ UNCHANGED <<pc, item, last_seq, retries, handled>>
        /\ failures' \in [Items -> Nat]
    <3>1. PICK n \in Nat : n = failures[item[w]] + 1
      BY <1>1, <1>2, WorkFacts DEF SeqsTyped
    <3>2. failures' = [failures EXCEPT ![item[w]] = n]
      BY <1>4, <3>1 DEF RequestFails
    <3>3. [failures EXCEPT ![item[w]] = n] \in [Items -> Nat]
      BY <1>2 DEF SeqsTyped
    <3>4. failures' \in [Items -> Nat]
      BY <3>2, <3>3
    <3> QED
      BY <1>4, <3>4 DEF RequestFails, workerVars
  <2> HIDE DEF next
  <2> QED
    BY <1>1, <1>2, <1>3, <2>1, <2>2, <2>4, <2>5, SeqsStay, WorkFacts, BatchFrame
    DEF SeqsTyped, listenerVars
<1>5. CASE GiveUp(w)
  <2> DEFINE next == [work[w] EXCEPT !.delayed = FALSE, !.retries = 0, !.step = "advance"]
  <2>1. next \in Work /\ next.since = work[w].since /\ next.step = "advance"
        /\ next.upTo = work[w].upTo
    BY <1>1, WorkFacts DEF Work
  <2>2. work' = [work EXCEPT ![w] = next]
    BY <1>5 DEF GiveUp, Proceed
  <2>3. faults' \in 0..MaxFaults
    BY <1>2, <1>5, ProcessAssumption DEF GiveUp, BatchFault
  <2>4. ProcessTypeOK'
    BY <1>2, <1>5, <2>3 DEF GiveUp, procVars, workerVars, ProcessTypeOK
  <2>5. UNCHANGED <<pc, item, last_seq, retries>> /\ Handled(w)
    BY <1>5 DEF GiveUp, workerVars
  <2>6. work[w].upTo <= newest[item[w]]
    BY <1>1, WorkFacts
  <2>7. /\ handled' \in [Items -> 0..MaxChanges] /\ failures' \in [Items -> Nat]
        /\ work[w].upTo <= handled'[item[w]]
        /\ \A i \in Items : handled[i] <= handled'[i] /\ handled'[i] <= newest[i]
    BY <1>1, <1>2, <2>5, <2>6, WorkFacts, HandledGrows
  <2>8. \A i \in Items : last_seq'[i] <= handled'[i]
    <3>1. ASSUME NEW i \in Items PROVE last_seq'[i] <= handled'[i]
      <4>1. last_seq[i] <= handled[i] /\ handled[i] <= handled'[i]
        BY <1>1, <2>7, WorkFacts
      <4>2. last_seq[i] \in Nat /\ handled[i] \in Nat /\ handled'[i] \in Nat
        BY <1>2, <2>7, ChangeListenersAssumption DEF SeqsTyped
      <4> QED
        BY <2>5, <4>1, <4>2
    <3> QED
      BY <3>1
  <2> HIDE DEF next
  <2> QED
    BY <1>1, <1>2, <1>3, <2>1, <2>2, <2>4, <2>5, <2>6, <2>7, <2>8, BatchFrame
    DEF SeqsTyped, listenerVars
<1>6. CASE QueueSoiler(w)
  <2> DEFINE next == [work[w] EXCEPT !.step = "none"]
  <2>1. next \in Work /\ next.since = work[w].since /\ next.step = "none"
    BY <1>1, WorkFacts DEF Work
  <2>2. work' = [work EXCEPT ![w] = next]
    BY <1>6 DEF QueueSoiler, Proceed
  <2>3. pc' = [pc EXCEPT ![w] = "processed"] /\ UNCHANGED <<item, seqVars>>
    BY <1>6 DEF QueueSoiler
  <2>6. pc'[w] = "processed" /\ \A v \in Workers \ {w} : pc'[v] = pc[v]
    BY <1>2, <2>3 DEF ProcessTypeOK
  <2>4. ProcessTypeOK'
    <3>1. DbTyped'
      BY <1>2, <1>6, ProcessAssumption DEF QueueSoiler, DbTyped, ProcessTypeOK, Soilers
    <3> QED
      BY <1>1, <1>2, <1>6, <2>3, <3>1, PcTyped DEF QueueSoiler, procVars, Critical
  <2> HIDE DEF next
  <2> QED
    BY <1>1, <1>2, <1>3, <2>1, <2>2, <2>3, <2>4, <2>6, SeqsStay, BatchFrame
    DEF SeqsTyped, seqVars, listenerVars, Critical, ProcessTypeOK
<1>7. CASE BatchThrows(w)
  <2> DEFINE next == [work[w] EXCEPT !.step = "none", !.leave = TRUE]
  <2>1. next \in Work /\ next.since = work[w].since /\ next.step = "none"
    BY <1>1, WorkFacts DEF Work
  <2>2. work' = [work EXCEPT ![w] = next]
    BY <1>7 DEF BatchThrows, Proceed
  <2>3. pc' = [pc EXCEPT ![w] = "processed"] /\ UNCHANGED <<item, seqVars>>
    BY <1>7 DEF BatchThrows
  <2>6. pc'[w] = "processed" /\ \A v \in Workers \ {w} : pc'[v] = pc[v]
    BY <1>2, <2>3 DEF ProcessTypeOK
  <2>4. faults' \in 0..MaxFaults
    BY <1>2, <1>7, ProcessAssumption DEF BatchThrows, BatchFault
  <2>5. ProcessTypeOK'
    <3>1. DbTyped'
      BY <1>2, <1>7 DEF BatchThrows, DbTyped, dbVars, ProcessTypeOK
    <3> QED
      BY <1>1, <1>2, <1>7, <2>3, <2>4, <3>1, PcTyped DEF BatchThrows, procVars, dbVars, Critical
  <2> HIDE DEF next
  <2> QED
    BY <1>1, <1>2, <1>3, <2>1, <2>2, <2>3, <2>5, <2>6, SeqsStay, BatchFrame
    DEF SeqsTyped, seqVars, listenerVars, Critical, ProcessTypeOK
<1> QED
  BY <1>4, <1>5, <1>6, <1>7

\* The two writes of a batch.
LEMMA WriteBatchInv ==
  ASSUME Inv, NEW w \in Workers, Advance(w) \/ ScheduleRetry(w)
  PROVE  Inv'
<1>1. pc[w] = "processing" /\ pc[w] \in Critical
  BY DEF Advance, ScheduleRetry, At, Critical
<1>2. ProcessTypeOK /\ SeqsTyped /\ faults \in 0..MaxFaults
  BY <1>1, WorkFacts DEF ProcessTypeOK
<1>3. UNCHANGED <<newest, relocked, listenerVars, handled, failures>>
  BY DEF Advance, ScheduleRetry, Proceed
<1>4. PICK i \in Items : i = item[w]
  BY <1>1, WorkFacts
<1>5. docs[i] \in Docs
  BY <1>2 DEF ProcessTypeOK
<1>6. \A j \in Items : /\ last_seq[j] \in 0..MaxChanges /\ handled[j] \in 0..MaxChanges
                       /\ last_seq[j] <= handled[j] /\ handled[j] <= newest[j]
  BY <1>1, <1>2, WorkFacts DEF SeqsTyped
<1>7. CASE Advance(w)
  <2> DEFINE next == [work[w] EXCEPT !.step = "none"]
  <2>1. next \in Work /\ next.since = work[w].since /\ next.step = "none"
    BY <1>1, WorkFacts DEF Work
  <2>2. work' = [work EXCEPT ![w] = next]
    BY <1>7 DEF Advance, Proceed
  <2>3. /\ pc' = [pc EXCEPT ![w] = "processed"] /\ UNCHANGED <<item, retries>>
        /\ last_seq' = [last_seq EXCEPT ![i] = work[w].upTo]
    BY <1>4, <1>7 DEF Advance
  <2>4. work[w].upTo \in Nat /\ work[w].upTo <= handled[i]
    BY <1>1, <1>4, <1>7, WorkFacts DEF Advance
  <2>5. ProcessTypeOK'
    <3>1. DbTyped' /\ \A h \in Holders : current'[h] \subseteq current[h]
      <4>1. CASE UNCHANGED dbVars
        BY <1>2, <4>1 DEF DbTyped, dbVars, ProcessTypeOK
      <4>2. CASE Store(item[w], docs[item[w]], {})
        <5>1. PICK d \in Docs, keepers \in {{}} : d = docs[i] /\ Store(i, d, keepers)
          BY <1>4, <1>5, <4>2
        <5>2. DbTyped' /\ \A h \in Holders : current'[h] = IF h \in keepers
                                              THEN current[h] \cup {i} ELSE current[h] \ {i}
          <6>1. Store(i, d, keepers)
            BY <5>1
          <6> QED
            BY <1>2, <6>1, StoreTyped
        <5> QED
          BY <5>1, <5>2
      <4> QED
        BY <1>7, <4>1, <4>2 DEF Advance
    <3> QED
      BY <1>1, <1>2, <1>7, <2>3, <3>1, PcTyped DEF Advance, procVars, Critical
  <2>6. /\ last_seq' \in [Items -> 0..MaxChanges]
        /\ \A j \in Items : /\ handled[j] <= handled'[j] /\ handled'[j] <= newest[j]
                            /\ last_seq'[j] <= handled'[j]
    BY <1>2, <1>3, <1>6, <2>3, <2>4, ChangeListenersAssumption DEF SeqsTyped
  <2>7. pc'[w] = "processed" /\ \A v \in Workers \ {w} : pc'[v] = pc[v]
    BY <1>2, <2>3 DEF ProcessTypeOK
  <2> HIDE DEF next
  <2> QED
    BY <1>1, <1>2, <1>3, <2>1, <2>2, <2>3, <2>5, <2>6, <2>7, BatchFrame
    DEF SeqsTyped, listenerVars, Critical, ProcessTypeOK
<1>8. CASE ScheduleRetry(w)
  <2> DEFINE next == [work[w] EXCEPT !.step = "queue"]
             d == SetDirtyAt(docs[i], "false", "later")
             e == IF work[w].unlocks THEN SetLockedAt(d, "null") ELSE d
  <2>1. /\ next \in Work /\ next.since = work[w].since /\ next.step = "queue"
        /\ next.upTo = work[w].upTo
    BY <1>1, WorkFacts DEF Work
  <2>2. work' = [work EXCEPT ![w] = next]
    BY <1>8 DEF ScheduleRetry, Proceed
  <2>3. e \in Docs
    <3>1. d \in Docs
      BY <1>5, DocsTyped
    <3> HIDE DEF d
    <3> QED
      BY <3>1, DocsTyped
  <2>4. Store(i, e, {}) /\ UNCHANGED <<soiling, procVars, workerVars, faults>>
    BY <1>4, <1>8 DEF ScheduleRetry
  <2>5. ProcessTypeOK'
    <3> HIDE DEF e
    <3> QED
      BY <1>2, <2>3, <2>4, PlainStoreTyped DEF procVars, workerVars, ProcessTypeOK
  <2>6. /\ last_seq' = [last_seq EXCEPT ![i] = work[w].since]
        /\ retries' = [retries EXCEPT ![i] = work[w].retries]
        /\ work[w].retries \in Nat /\ work[w].since \in Nat
        /\ work[w].since <= handled[i]
    BY <1>1, <1>4, <1>8, WorkFacts DEF ScheduleRetry, Work
  <2>7. /\ last_seq' \in [Items -> 0..MaxChanges]
        /\ retries' \in [Items -> Nat]
        /\ \A j \in Items : /\ handled[j] <= handled'[j] /\ handled'[j] <= newest[j]
                            /\ last_seq'[j] <= handled'[j]
    BY <1>2, <1>3, <1>6, <2>6, ChangeListenersAssumption DEF SeqsTyped
  <2> HIDE DEF next, e
  <2> QED
    BY <1>1, <1>2, <1>3, <2>1, <2>2, <2>4, <2>5, <2>7, WorkFacts, BatchFrame
    DEF SeqsTyped, listenerVars, workerVars
<1> QED
  BY <1>7, <1>8

-----------------------------------------------------------------------------
(* The update listeners and the databases.                                 *)

LEMMA ListenerFrame ==
  ASSUME Inv, ProcessTypeOK', ListenersTyped', UNCHANGED <<seqVars, relocked, work, pc, item>>
  PROVE  Inv'
<1>1. SeqsTyped /\ WorkTyped
  BY TypeParts DEF Inv
<1>2. SeqsTyped'
  BY <1>1 DEF SeqsTyped, seqVars
<1>3. WorkTyped'
  BY <1>1 DEF WorkTyped, seqVars
<1>4. SeqInv'
  BY DEF Inv, SeqInv, NothingSkipped, At, seqVars
<1> QED
  BY <1>2, <1>3, <1>4, TypeParts DEF Inv

\* A listener reads, or is done: no document is written.
LEMMA ReadInv ==
  ASSUME Inv, NEW u \in Listeners,
         HearUpdates(u) \/ GetCleanLockedOrMissing(u) \/ DirtyDone(u) \/ CrashListener(u)
  PROVE  Inv'
<1>1. ProcessTypeOK /\ ListenersTyped /\ faults \in 0..MaxFaults
  BY TypeParts DEF Inv, ProcessTypeOK
<1>2. CASE HearUpdates(u)
  <2>1. ProcessTypeOK' /\ ListenersTyped'
    BY <1>1, <1>2 DEF HearUpdates, Hear, processVars, ProcessTypeOK, ListenersTyped
  <2> QED
    BY <1>2, <2>1, ListenerFrame DEF HearUpdates, Hear, processVars
<1>3. CASE GetCleanLockedOrMissing(u)
  <2>1. \A w \in Workers : current'[w] = current[w]
    BY <1>1, <1>3, ProcessAssumption DEF GetCleanLockedOrMissing, ProcessTypeOK, Holders
  <2>2. current' \in [Holders -> SUBSET Items]
    <3>1. \A i \in names[u] : i \in Items
      BY <1>1 DEF ListenersTyped
    <3> QED
      BY <1>1, <1>3, <3>1 DEF GetCleanLockedOrMissing, ProcessTypeOK, Holders
  <2>3. ProcessTypeOK'
    BY <1>1, <1>3, <2>1, <2>2
    DEF GetCleanLockedOrMissing, Hear, procVars, workerVars, ProcessTypeOK
  <2>4. ListenersTyped'
    BY <1>1, <1>3 DEF GetCleanLockedOrMissing, Hear, ListenersTyped
  <2> QED
    BY <1>3, <2>3, <2>4, ListenerFrame DEF GetCleanLockedOrMissing, Hear, workerVars
<1>4. CASE DirtyDone(u)
  <2>1. ProcessTypeOK' /\ ListenersTyped'
    BY <1>1, <1>4 DEF DirtyDone, Hear, processVars, ProcessTypeOK, ListenersTyped
  <2> QED
    BY <1>4, <2>1, ListenerFrame DEF DirtyDone, Hear, processVars
<1>5. CASE CrashListener(u)
  <2>1. faults' \in 0..MaxFaults
    BY <1>1, <1>5, FaultTyped DEF CrashListener
  <2>2. /\ current' \in [Holders -> SUBSET Items]
        /\ \A w \in Workers : current'[w] = current[w]
    BY <1>1, <1>5, ProcessAssumption DEF CrashListener, ProcessTypeOK, Holders
  <2>3. ProcessTypeOK'
    BY <1>1, <1>5, <2>1, <2>2 DEF CrashListener, Hear, procVars, workerVars, ProcessTypeOK
  <2>4. ListenersTyped'
    BY <1>1, <1>5 DEF CrashListener, ListenersTyped
  <2> QED
    BY <1>5, <2>3, <2>4, ListenerFrame DEF CrashListener, Hear, workerVars
<1> QED
  BY <1>2, <1>3, <1>4, <1>5

LEMMA DirtyOrCreateInv ==
  ASSUME Inv, NEW u \in Listeners, NEW i \in Items, DirtyOrCreate(u, i)
  PROVE  Inv'
<1>1. ProcessTypeOK /\ ListenersTyped /\ faults \in 0..MaxFaults
  BY TypeParts DEF Inv, ProcessTypeOK
<1>2. ProcessTypeOK'
  <2>1. UNCHANGED <<soiling, phase, todo, stalled, pc, item, faults>>
    BY DEF DirtyOrCreate, Hear, procVars, workerVars
  <2>2. CASE Store(i, SetDirtyAt(docs[i], "true", docs[i].dirty_at), {})
    <3>1. SetDirtyAt(docs[i], "true", docs[i].dirty_at) \in Docs
      <4>1. docs[i] \in Docs
        BY <1>1 DEF ProcessTypeOK
      <4> QED
        BY <4>1 DEF Docs, SetDirtyAt
    <3> QED
      BY <1>1, <2>1, <2>2, <3>1, PlainStoreTyped DEF ProcessTypeOK
  <2>3. CASE UNCHANGED dbVars
    BY <1>1, <2>1, <2>3 DEF ProcessTypeOK, dbVars
  <2> QED
    BY <2>2, <2>3 DEF DirtyOrCreate
<1>3. ListenersTyped'
  BY <1>1 DEF DirtyOrCreate, Hear, ListenersTyped
<1> QED
  BY <1>2, <1>3, ListenerFrame DEF DirtyOrCreate, Hear, workerVars

LEMMA ChangeInv ==
  ASSUME Inv, NEW i \in Items, Change(i)
  PROVE  Inv'
<1>1. ProcessTypeOK /\ SeqsTyped /\ WorkTyped /\ ListenersTyped
  BY TypeParts DEF Inv
<1>2. ProcessTypeOK'
  BY <1>1 DEF Change, processVars, ProcessTypeOK
<1>3. ListenersTyped'
  BY <1>1 DEF Change, ListenersTyped
<1>4. /\ newest' \in [Items -> 0..MaxChanges]
      /\ \A j \in Items : newest[j] \in Nat /\ newest[j] <= newest'[j] /\ newest'[j] \in Nat
  BY <1>1, ChangeListenersAssumption DEF Change, SeqsTyped
<1>5. SeqsTyped'
  <2>1. \A j \in Items : handled'[j] <= newest'[j]
    <3>1. \A j \in Items : handled'[j] = handled[j] /\ handled[j] \in Nat /\ handled[j] <= newest[j]
      BY <1>1, ChangeListenersAssumption DEF Change, SeqsTyped
    <3> QED
      BY <1>4, <3>1
  <2> QED
    BY <1>1, <1>4, <2>1 DEF Change, SeqsTyped
<1>6. WorkTyped'
  <2>1. ASSUME NEW w \in Workers, pc'[w] = "processing"
        PROVE  work'[w].upTo <= newest'[item'[w]]
    <3>1. /\ item'[w] = item[w] /\ item[w] \in Items /\ work'[w] = work[w]
          /\ work[w].upTo <= newest[item[w]] /\ work[w].upTo \in Nat
      BY <1>1, <2>1 DEF Change, processVars, ProcessTypeOK, WorkTyped, Work
    <3> QED
      BY <1>4, <3>1
  <2> QED
    BY <1>1, <2>1 DEF Change, processVars, WorkTyped
<1>7. SeqInv'
  BY DEF Inv, SeqInv, NothingSkipped, At, Change, processVars
<1> QED
  BY <1>2, <1>3, <1>5, <1>6, <1>7, TypeParts DEF Inv

-----------------------------------------------------------------------------
(* The theorems.                                                           *)

LEMMA NextInv == Inv /\ [Next]_vars => Inv'
<1> SUFFICES ASSUME Inv, [Next]_vars PROVE Inv'
  OBVIOUS
<1>1. CASE Engine(ProcessStep)
  BY <1>1, EngineInv
<1>2. CASE \E w \in Workers : BatchStep(w)
  BY <1>2, PlainBatchInv, FailedBatchInv, WriteBatchInv DEF BatchStep
<1>3. CASE \E u \in Listeners : ListenerProgress(u) \/ CrashListener(u)
  BY <1>3, ReadInv, DirtyOrCreateInv DEF ListenerProgress
<1>4. CASE \E i \in Items : Change(i)
  BY <1>4, ChangeInv
<1>5. CASE UNCHANGED vars
  <2>1. ProcessTypeOK /\ ListenersTyped
    BY TypeParts DEF Inv
  <2>2. ProcessTypeOK' /\ ListenersTyped'
    BY <1>5, <2>1 DEF vars, processVars, ProcessTypeOK, ListenersTyped
  <2> QED
    BY <1>5, <2>2, ListenerFrame DEF vars, processVars, seqVars
<1> QED
  BY <1>1, <1>2, <1>3, <1>4, <1>5 DEF Next

LEMMA InvHolds == Spec => []Inv
<1>1. Init => Inv
  BY InitInv
<1> QED
  BY <1>1, NextInv, PTL DEF Spec

\* Every variable keeps its type: a batch ends within the changes of its database,
\* a worker is in a batch just when it is processing, and an update listener gets
\* and writes items of its own batch only (_processBatchOfChanges, _dirtyOrCreate).
THEOREM TypeCorrect == Spec => []TypeOK
<1>1. Inv => TypeOK
  BY DEF Inv
<1> QED
  BY <1>1, InvHolds, PTL

\* No batch, of whatever process, resumes after a change whose requests have not
\* succeeded or been given up, whatever fails or crashes (_updateLastSeq,
\* _scheduleRetry).
THEOREM SeqsSkipNothing == Spec => []NothingSkipped
<1>1. Inv => NothingSkipped
  BY DEF Inv, SeqInv
<1> QED
  BY <1>1, InvHolds, PTL

-----------------------------------------------------------------------------
(* The lock.  _scheduleRetry may release the lock its own worker holds, so *)
(* the lock is sound only where no awaited API request fails.              *)

NoRetry == \A w \in Workers : work[w].step \notin {"retry", "queue"}

LEMMA NoRetryStep ==
  ASSUME Inv, NoRetry, "api" \notin BatchFaults, [Next]_vars
  PROVE  NoRetry'
<1>1. WorkTyped /\ NoWork.step = "none"
  BY TypeParts DEF Inv, NoWork
<1>2. CASE Engine(ProcessStep)
  <2>1. \A w \in Workers : Loaded(w).step = "none"
    BY DEF Loaded, NoWork
  <2> QED
    BY <1>1, <1>2, <2>1 DEF Engine, NoRetry
<1>3. ASSUME NEW w \in Workers, BatchStep(w) PROVE NoRetry'
  <2>1. PICK next : /\ work' = [work EXCEPT ![w] = next]
                    /\ next.step \notin {"retry", "queue"}
    <3>1. work[w] \in Work
      BY <1>1 DEF WorkTyped
    <3>2. ~RequestFails(w) /\ ~GiveUp(w)
      BY DEF RequestFails, GiveUp, BatchFault
    <3>3. ~ScheduleRetry(w) /\ ~QueueSoiler(w)
      BY DEF ScheduleRetry, QueueSoiler, At, NoRetry
    <3>4. CASE UnlockAndCleanListener(w)
      BY <1>1, <3>4 DEF UnlockAndCleanListener
    <3>5. CASE ReadChanges(w)
      <4>1. \A n : [work[w] EXCEPT !.upTo = n, !.step = "requests"].step = "requests"
        BY <3>1 DEF Work
      <4> QED
        BY <3>5, <4>1 DEF ReadChanges, Proceed
    <3>6. /\ \A l \in {"none", "advance"} : [work[w] EXCEPT !.step = l].step = l
          /\ \A b \in BOOLEAN : [work[w] EXCEPT !.step = "none", !.leave = b].step = "none"
      BY <3>1 DEF Work
    <3>7. CASE RequestsSucceed(w)
      BY <3>6, <3>7 DEF RequestsSucceed, Return, Proceed
    <3>8. CASE Advance(w) \/ BatchThrows(w) \/ DatabaseNotFound(w)
      BY <3>6, <3>8 DEF Advance, BatchThrows, DatabaseNotFound, Proceed
    <3> QED
      BY <1>3, <3>2, <3>3, <3>4, <3>5, <3>7, <3>8 DEF BatchStep
  <2> QED
    BY <1>1, <2>1 DEF WorkTyped, NoRetry
<1>4. CASE \/ \E u \in Listeners : ListenerProgress(u) \/ CrashListener(u)
           \/ \E i \in Items : Change(i)
           \/ UNCHANGED vars
  <2>1. UNCHANGED work
    BY <1>4 DEF ListenerProgress, HearUpdates, GetCleanLockedOrMissing, DirtyDone, DirtyOrCreate,
                CrashListener, Hear, Change, vars
  <2> QED
    BY <2>1 DEF NoRetry
<1> QED
  BY <1>2, <1>3, <1>4 DEF Next

LEMMA LockStep ==
  ASSUME Inv, LockInv, NoRetry, "slow" \notin Faults, "api" \notin BatchFaults, [Next]_vars
  PROVE  LockInv'
<1>1. ProcessTypeOK
  BY TypeParts DEF Inv
<1>2. CASE Engine(ProcessStep)
  BY <1>1, <1>2, ProcessStepKeepsLock DEF Engine
<1>3. ASSUME NEW w \in Workers, BatchStep(w) PROVE LockInv'
  <2>1. /\ ~RequestFails(w) /\ ~GiveUp(w)
        /\ ~ScheduleRetry(w) /\ ~QueueSoiler(w)
    BY DEF RequestFails, GiveUp, BatchFault, ScheduleRetry, QueueSoiler, At, NoRetry
  <2>2. CASE ReadChanges(w) \/ DatabaseNotFound(w)
    BY <1>1, <2>2, WorkerKeepsLock DEF ReadChanges, DatabaseNotFound
  <2>3. CASE UnlockAndCleanListener(w)
    <3>1. PICK leave \in BOOLEAN : UnlockAndClean(w, leave)
      <4>1. (work[w].leave /\ work[w].dirty) \in BOOLEAN
        OBVIOUS
      <4> QED
        BY <2>3, <4>1 DEF UnlockAndCleanListener
    <3> QED
      BY <1>1, <3>1, WorkerKeepsLock
  <2>4. CASE RequestsSucceed(w)
    <3>1. CASE work[w].delayed
      BY <1>1, <2>4, <3>1, WorkerKeepsLock DEF RequestsSucceed, Return
    <3>2. CASE ~work[w].delayed
      <4>1. UNCHANGED <<docs, current, pc, item, phase, todo, stalled>>
        BY <2>4, <3>2 DEF RequestsSucceed, processVars
      <4> QED
        BY <1>1, <4>1, LockFrame
    <3> QED
      BY <3>1, <3>2
  <2>5. CASE Advance(w) \/ BatchThrows(w)
    <3>1. /\ pc[w] \in Critical /\ pc' = [pc EXCEPT ![w] = "processed"]
          /\ UNCHANGED <<item, phase, todo, stalled>>
      BY <2>5 DEF Advance, BatchThrows, At, procVars, Critical
    <3>2. UNCHANGED docs /\ \A h \in Workers \cup Procs : current'[h] \subseteq current[h]
      <4>1. CASE Advance(w) /\ Store(item[w], docs[item[w]], {})
        <5>1. PICK i \in Items, d \in Docs, keepers \in {{}} :
                i = item[w] /\ d = docs[i] /\ Store(i, d, keepers)
          <6>1. item[w] \in Items
            BY <3>1, WorkFacts
          <6> QED
            BY <1>1, <4>1, <6>1 DEF ProcessTypeOK
        <5>2. /\ docs' = [docs EXCEPT ![i] = d]
              /\ \A h \in Holders : current'[h] = IF h \in keepers THEN current[h] \cup {i}
                                                                   ELSE current[h] \ {i}
          <6>1. Store(i, d, keepers)
            BY <5>1
          <6> QED
            BY <1>1, <6>1, StoreTyped
        <5>3. docs' = docs
          BY <1>1, <5>1, <5>2 DEF ProcessTypeOK
        <5> QED
          BY <5>1, <5>2, <5>3 DEF Holders
      <4>2. CASE UNCHANGED dbVars
        BY <4>2 DEF dbVars
      <4> QED
        BY <2>5, <4>1, <4>2 DEF Advance, BatchThrows
    <3>3. /\ pc'[w] = "processed"
          /\ \A v \in Workers \ {w} : pc'[v] = pc[v] /\ item'[v] = item[v]
      BY <1>1, <3>1 DEF ProcessTypeOK
    <3> QED
      BY <1>1, <3>1, <3>2, <3>3, WorkerMoves DEF Critical
  <2> QED
    BY <1>3, <2>1, <2>2, <2>3, <2>4, <2>5 DEF BatchStep
<1>4. CASE \E u \in Listeners, i \in Items : DirtyOrCreate(u, i)
  <2>1. PICK u \in Listeners, i \in Items : DirtyOrCreate(u, i)
    BY <1>4
  <2>2. UNCHANGED <<pc, item, phase, todo, stalled>>
    BY <2>1 DEF DirtyOrCreate, Hear, procVars, workerVars
  <2>3. /\ \A j \in Items : docs'[j].locked_at = docs[j].locked_at
        /\ \A h \in Workers \cup Procs : current'[h] \subseteq current[h]
    <3>1. CASE Store(i, SetDirtyAt(docs[i], "true", docs[i].dirty_at), {})
      <4>1. PICK d \in Docs, keepers \in {{}} :
              d = SetDirtyAt(docs[i], "true", docs[i].dirty_at) /\ Store(i, d, keepers)
        BY <1>1, <3>1 DEF ProcessTypeOK, Docs, SetDirtyAt
      <4>2. /\ docs' = [docs EXCEPT ![i] = d]
            /\ \A h \in Holders : current'[h] = IF h \in keepers THEN current[h] \cup {i}
                                                                 ELSE current[h] \ {i}
        <5>1. Store(i, d, keepers)
          BY <4>1
        <5> QED
          BY <1>1, <5>1, StoreTyped
      <4> QED
        BY <1>1, <4>1, <4>2 DEF ProcessTypeOK, SetDirtyAt, Holders
    <3>2. CASE UNCHANGED dbVars
      BY <3>2 DEF dbVars
    <3> QED
      BY <2>1, <3>1, <3>2 DEF DirtyOrCreate
  <2> QED
    BY <1>1, <2>2, <2>3, LockFrame
<1>5. CASE \/ \E u \in Listeners : \/ HearUpdates(u) \/ GetCleanLockedOrMissing(u)
                                  \/ DirtyDone(u) \/ CrashListener(u)
           \/ \E i \in Items : Change(i)
           \/ UNCHANGED vars
  <2>1. UNCHANGED <<docs, pc, item, phase, todo, stalled>>
    BY <1>5 DEF HearUpdates, GetCleanLockedOrMissing, DirtyDone, CrashListener, Hear, Change,
                processVars, procVars, workerVars, vars
  <2>2. \A h \in Workers \cup Procs : current'[h] \subseteq current[h]
    <3>1. CASE \E u \in Listeners : GetCleanLockedOrMissing(u) \/ CrashListener(u)
      BY <1>1, <3>1, ProcessAssumption
      DEF GetCleanLockedOrMissing, CrashListener, ProcessTypeOK, Holders
    <3>2. CASE \/ \E u \in Listeners : HearUpdates(u) \/ DirtyDone(u)
               \/ \E i \in Items : Change(i)
               \/ UNCHANGED vars
      BY <3>2 DEF HearUpdates, DirtyDone, Hear, Change, processVars, vars
    <3> QED
      BY <1>5, <3>1, <3>2
  <2> QED
    BY <1>1, <2>1, <2>2, LockFrame
<1> QED
  BY <1>2, <1>3, <1>4, <1>5 DEF Next, ListenerProgress

\* Two workers never process the changes of the same database at once, through
\* crashes, lost answers, conflicts and throwing batches, as long as no action
\* outlives retryAfterSeconds and no awaited API request fails: the comment of
\* _lock, "we only want one process to hold the lock at any given time".
THEOREM OneHolder ==
  ASSUME "slow" \notin Faults, "api" \notin BatchFaults
  PROVE  Spec => []MutualExclusion
<1>1. Init => Inv /\ LockInv /\ NoRetry
  BY InitInv DEF Init, NoRetry, NoWork
<1>2. Inv /\ LockInv /\ NoRetry /\ [Next]_vars => Inv' /\ LockInv' /\ NoRetry'
  BY NextInv, NoRetryStep, LockStep
<1>3. LockInv => MutualExclusion
  BY DEF LockInv
<1> QED
  BY <1>1, <1>2, <1>3, PTL DEF Spec

-----------------------------------------------------------------------------
(* No change is forgotten, slow actions and failing requests included.  A  *)
(* worker that can still clean its document has the latest revision, so it *)
(* has read what is in there; an update of last_seq that moves it, and the *)
(* scheduling of a retry, make the worker lose that revision.              *)

AllUnresolved(i) == \A u \in Listeners : Unresolved(u, i)

\* The one condition that the code does not see to: the batch of a document that
\* waits for its retry reads all the changes there are.  A retry that succeeds cleans
\* the document and leaves last_seq alone, whether or not there are more changes.
RetriesAreWhole ==
  \A i \in Items : docs[i].dirty_at # "null" => newest[i] <= last_seq[i] + BatchSize

\* The update that schedules a retry does not fail.
RetriesAreWritten == "retry" \in BatchFaults => \A w \in Workers : ~At(w, "retry")

\* The worker has a lock, and the latest revision of its document.
Sees(w) == pc[w] \in {"locked", "processing", "processed"} /\ item[w] \in current[w]

\* What such a worker has in memory is what the document says.
Knows(w) == /\ work[w].since = last_seq[item[w]]
            /\ work[w].step # "queue"
            /\ pc[w] = "locked" /\ work[w].delayed => docs[item[w]].dirty_at # "null"

WorkSeen == \A w \in Workers : Sees(w) => Knows(w)

\* Only the scheduling of a retry clears the dirty flag in memory, and then the
\* document is not left dirty.
MemoryKept ==
  \A w \in Workers :
    /\ work[w].leave => work[w].dirty
    /\ pc[w] \in {"locked", "processing"} => ~work[w].leave
    /\ pc[w] = "locked" \/ work[w].step \in {"requests", "advance"} => work[w].dirty

\* The batch has still to read the changes, has read them all, will move last_seq
\* or schedule a retry, or has failed.
Harmless(w) ==
  \/ pc[w] = "locked"
  \/ pc[w] = "processing" /\ \/ work[w].step = "retry"
                             \/ work[w].step = "requests" /\ work[w].upTo = newest[item[w]]
                             \/ ~work[w].delayed /\ work[w].since < work[w].upTo
  \/ pc[w] = "processed" /\ work[w].leave

CleanHidesNothing ==
  \A w \in Workers : Sees(w) /\ item[w] \in Behind => Harmless(w) \/ AllUnresolved(item[w])

Kept == /\ HolderSeesLock /\ HolderSeesDirty /\ WorkSeen
        /\ CleanHidesNothing /\ NoChangeForgotten

MarkInv == Inv /\ MemoryKept /\ Kept

LEMMA MarkParts ==
  ASSUME MarkInv
  PROVE  /\ ProcessTypeOK /\ SeqsTyped /\ WorkTyped /\ ListenersTyped /\ Inv
         /\ HolderSeesLock /\ HolderSeesDirty /\ WorkSeen
         /\ CleanHidesNothing /\ NoChangeForgotten /\ MemoryKept
  BY TypeParts DEF MarkInv, Inv, Kept

\* The steps of a batch, but for the clean update.
BatchWorks(w) ==
  \/ ReadChanges(w) \/ RequestsSucceed(w) \/ RequestFails(w) \/ GiveUp(w)
  \/ Advance(w) \/ ScheduleRetry(w) \/ QueueSoiler(w)
  \/ BatchThrows(w) \/ DatabaseNotFound(w)

\* They concern one worker and its item, ...
LEMMA BatchFrames ==
  ASSUME MarkInv, NEW w \in Workers, BatchWorks(w)
  PROVE  /\ item[w] \in Items /\ item' = item /\ newest' = newest
         /\ pc[w] \in {"locked", "processing"}
         /\ UNCHANGED <<listenerVars, phase, todo>>
         /\ \A v \in Workers \ {w} : pc'[v] = pc[v] /\ work'[v] = work[v]
<1>1. ProcessTypeOK /\ WorkTyped
  BY MarkParts
<1>2. /\ pc[w] \in {"locked", "processing"} /\ item' = item /\ newest' = newest
      /\ UNCHANGED <<listenerVars, phase, todo>>
  BY DEF BatchWorks, ReadChanges, RequestsSucceed, RequestFails, GiveUp, Advance, ScheduleRetry,
         QueueSoiler, BatchThrows, DatabaseNotFound, Return, BeginProcess, ProcessSucceeds,
         ProcessThrows, Goto, Proceed, At, processVars, procVars, workerVars, seqVars
<1>3. /\ \E label : pc' = [pc EXCEPT ![w] = label] \/ pc' = pc
      /\ \E next : work' = [work EXCEPT ![w] = next]
  BY DEF BatchWorks, ReadChanges, RequestsSucceed, RequestFails, GiveUp, Advance, ScheduleRetry,
         QueueSoiler, BatchThrows, DatabaseNotFound, Return, BeginProcess, ProcessSucceeds,
         ProcessThrows, Goto, Proceed, processVars, workerVars
<1>4. item[w] \in Items
  BY <1>1, <1>2 DEF ProcessTypeOK
<1> QED
  BY <1>1, <1>2, <1>3, <1>4 DEF ProcessTypeOK, WorkTyped

\* ... whose memory they change like this.
LEMMA BatchAssigns ==
  ASSUME MarkInv, NEW w \in Workers
  PROVE  /\ work[w] \in Work
         /\ \A next : work' = [work EXCEPT ![w] = next] => work'[w] = next
         /\ \A label : pc' = [pc EXCEPT ![w] = label] => pc'[w] = label
<1>1. pc \in [Workers -> {"idle", "got"} \cup Critical] /\ work \in [Workers -> Work]
  BY MarkParts DEF ProcessTypeOK, WorkTyped
<1> QED
  BY <1>1

LEMMA ReadChangesMemory ==
  ASSUME MarkInv, NEW w \in Workers, ReadChanges(w)
  PROVE  /\ pc[w] = "locked" /\ pc'[w] = "processing" /\ work'[w].step = "requests"
         /\ work'[w].upTo = Smaller(work[w].since + BatchSize, newest[item[w]])
         /\ work'[w].since = work[w].since /\ work'[w].delayed = work[w].delayed
         /\ work'[w].dirty = work[w].dirty /\ work'[w].leave = work[w].leave
<1>1. work'[w] = [work[w] EXCEPT !.upTo = Smaller(work[w].since + BatchSize, newest[item[w]]),
                                !.step = "requests"]
  BY BatchAssigns DEF ReadChanges, Proceed
<1>2. pc[w] = "locked" /\ pc'[w] = "processing"
  BY BatchAssigns DEF ReadChanges, BeginProcess, Goto
<1> QED
  BY BatchAssigns, <1>1, <1>2 DEF Work

LEMMA RequestsSucceedMemory ==
  ASSUME MarkInv, NEW w \in Workers, RequestsSucceed(w)
  PROVE  /\ work[w].step = "requests"
         /\ work'[w].upTo = work[w].upTo /\ work'[w].since = work[w].since
         /\ work'[w].dirty = work[w].dirty
         /\ \/ /\ work[w].delayed /\ pc'[w] = "processed" /\ ~work'[w].leave
               /\ work'[w].step = "none"
            \/ /\ ~work[w].delayed /\ pc'[w] = "processing" /\ work'[w].step = "advance"
               /\ ~work'[w].delayed /\ work'[w].leave = work[w].leave
<1>1. CASE work[w].delayed
  <2>1. work'[w] = [work[w] EXCEPT !.step = "none", !.leave = FALSE]
    BY BatchAssigns, <1>1 DEF RequestsSucceed, Return, Proceed
  <2>2. work[w].step = "requests" /\ pc'[w] = "processed"
    BY BatchAssigns, <1>1 DEF RequestsSucceed, Return, ProcessSucceeds, Goto, At
  <2> QED
    BY BatchAssigns, <1>1, <2>1, <2>2 DEF Work
<1>2. CASE ~work[w].delayed
  <2>1. work'[w] = [work[w] EXCEPT !.step = "advance"]
    BY BatchAssigns, <1>2 DEF RequestsSucceed, Proceed
  <2>2. work[w].step = "requests" /\ pc'[w] = "processing"
    BY <1>2 DEF RequestsSucceed, At, processVars
  <2> QED
    BY BatchAssigns, <1>2, <2>1, <2>2 DEF Work
<1> QED
  BY <1>1, <1>2

LEMMA RequestFailsMemory ==
  ASSUME MarkInv, NEW w \in Workers, RequestFails(w)
  PROVE  /\ pc'[w] = "processing" /\ work'[w].step = "retry"
         /\ work'[w].since = work[w].since /\ work'[w].leave = work[w].leave
<1>1. work'[w] = [work[w] EXCEPT !.dirty = FALSE, !.delayed = TRUE, !.retries = @ + 1,
                                !.step = "retry"]
  BY BatchAssigns DEF RequestFails, Proceed
<1>2. pc'[w] = "processing"
  BY BatchAssigns DEF RequestFails, At, workerVars
<1> QED
  BY BatchAssigns, <1>1, <1>2 DEF Work

LEMMA GiveUpMemory ==
  ASSUME MarkInv, NEW w \in Workers, GiveUp(w)
  PROVE  /\ work[w].step = "requests" /\ work[w].since < work[w].upTo
         /\ pc'[w] = "processing" /\ work'[w].step = "advance"
         /\ ~work'[w].delayed /\ work'[w].upTo = work[w].upTo
         /\ work'[w].since = work[w].since
         /\ work'[w].dirty = work[w].dirty /\ work'[w].leave = work[w].leave
<1>1. work'[w] = [work[w] EXCEPT !.delayed = FALSE, !.retries = 0, !.step = "advance"]
  BY BatchAssigns DEF GiveUp, Proceed
<1>2. work[w].step = "requests" /\ work[w].since < work[w].upTo /\ pc'[w] = "processing"
  BY BatchAssigns DEF GiveUp, At, workerVars
<1> QED
  BY BatchAssigns, <1>1, <1>2 DEF Work

LEMMA AdvanceMemory ==
  ASSUME MarkInv, NEW w \in Workers, Advance(w)
  PROVE  /\ work[w].step = "advance"
         /\ pc'[w] = "processed" /\ work'[w].step = "none"
         /\ work'[w].since = work[w].since
         /\ work'[w].dirty = work[w].dirty /\ work'[w].leave = work[w].leave
<1>1. work'[w] = [work[w] EXCEPT !.step = "none"]
  BY BatchAssigns DEF Advance, Proceed
<1>2. /\ work[w].step = "advance"
      /\ pc'[w] = "processed"
  BY BatchAssigns DEF Advance, At
<1> QED
  BY BatchAssigns, <1>1, <1>2 DEF Work

LEMMA QueueSoilerMemory ==
  ASSUME MarkInv, NEW w \in Workers, QueueSoiler(w)
  PROVE  /\ work[w].step = "queue"
         /\ pc'[w] = "processed" /\ work'[w].step = "none"
         /\ work'[w].since = work[w].since
         /\ work'[w].dirty = work[w].dirty /\ work'[w].leave = work[w].leave
<1>1. work'[w] = [work[w] EXCEPT !.step = "none"]
  BY BatchAssigns DEF QueueSoiler, Proceed
<1>2. /\ work[w].step = "queue"
      /\ pc'[w] = "processed"
  BY BatchAssigns DEF QueueSoiler, At
<1> QED
  BY BatchAssigns, <1>1, <1>2 DEF Work

LEMMA ScheduleRetryMemory ==
  ASSUME MarkInv, NEW w \in Workers, ScheduleRetry(w)
  PROVE  /\ work[w].step = "retry" /\ pc'[w] = "processing" /\ work'[w].step = "queue"
         /\ work'[w].leave = work[w].leave
<1>1. work'[w] = [work[w] EXCEPT !.step = "queue"]
  BY BatchAssigns DEF ScheduleRetry, Proceed
<1>2. work[w].step = "retry" /\ pc'[w] = "processing"
  BY BatchAssigns DEF ScheduleRetry, At, workerVars
<1> QED
  BY BatchAssigns, <1>1, <1>2 DEF Work

LEMMA BatchThrowsMemory ==
  ASSUME MarkInv, NEW w \in Workers, BatchThrows(w)
  PROVE  /\ \/ work[w].step \in {"requests", "advance"}
            \/ At(w, "retry") /\ "retry" \in BatchFaults
         /\ pc'[w] = "processed" /\ work'[w].step = "none" /\ work'[w].leave
         /\ work'[w].since = work[w].since /\ work'[w].dirty = work[w].dirty
<1>1. work'[w] = [work[w] EXCEPT !.step = "none", !.leave = TRUE]
  BY BatchAssigns DEF BatchThrows, Proceed
<1>2. /\ pc'[w] = "processed"
      /\ \/ work[w].step \in {"requests", "advance"}
         \/ At(w, "retry") /\ "retry" \in BatchFaults
  BY BatchAssigns DEF BatchThrows, BatchFault, At
<1> QED
  BY BatchAssigns, <1>1, <1>2 DEF Work

LEMMA DatabaseNotFoundMemory ==
  ASSUME MarkInv, NEW w \in Workers, DatabaseNotFound(w)
  PROVE  /\ work[w].step = "requests" /\ pc'[w] = "failed" /\ work'[w].step = "none"
         /\ work'[w].dirty = work[w].dirty /\ work'[w].leave = work[w].leave
<1>1. work'[w] = [work[w] EXCEPT !.step = "none"]
  BY BatchAssigns DEF DatabaseNotFound, Proceed
<1>2. work[w].step = "requests" /\ pc'[w] = "failed"
  BY BatchAssigns DEF DatabaseNotFound, ProcessThrows, Goto, At
<1> QED
  BY BatchAssigns, <1>1, <1>2 DEF Work

LEMMA MemoryStep ==
  ASSUME MarkInv, RetriesAreWritten, [Next]_vars
  PROVE  MemoryKept'
<1>1. MemoryKept /\ ProcessTypeOK /\ WorkTyped
  BY MarkParts
<1>2. NoWork.dirty /\ ~NoWork.leave /\ NoWork.step = "none"
  BY DEF NoWork
<1>3. CASE Engine(ProcessStep)
  <2>1. ASSUME NEW w \in Workers
        PROVE  /\ work'[w].leave => work'[w].dirty
               /\ pc'[w] \in {"locked", "processing"} => ~work'[w].leave
               /\ pc'[w] = "locked" \/ work'[w].step \in {"requests", "advance"} => work'[w].dirty
    <3>1. Moves(w)
      BY <1>1, <1>3, EngineMoves DEF Engine
    <3>2. work'[w] = IF pc'[w] \in {"idle", "got"} THEN NoWork
                     ELSE IF pc[w] = "got" THEN Loaded(w) ELSE work[w]
      BY <1>3 DEF Engine
    <3>3. Loaded(w).dirty /\ ~Loaded(w).leave /\ Loaded(w).step = "none"
      BY DEF Loaded, NoWork
    <3> QED
      BY <1>1, <1>2, <3>1, <3>2, <3>3 DEF Moves, MemoryKept
  <2> QED
    BY <2>1 DEF MemoryKept
<1>4. ASSUME NEW w \in Workers, BatchWorks(w) PROVE MemoryKept'
  <2>1. /\ \A v \in Workers \ {w} : pc'[v] = pc[v] /\ work'[v] = work[v]
        /\ pc[w] \in {"locked", "processing"}
    BY <1>4, BatchFrames
  <2>2. ~work[w].leave /\ (work[w].step \in {"requests", "advance"} \/ pc[w] = "locked" => work[w].dirty)
    BY <1>1, <2>1 DEF MemoryKept
  <2>3. /\ work'[w].leave => work'[w].dirty
        /\ pc'[w] \in {"locked", "processing"} => ~work'[w].leave
        /\ pc'[w] = "locked" \/ work'[w].step \in {"requests", "advance"} => work'[w].dirty
    <3>1. CASE ReadChanges(w)
      BY <2>2, <3>1, ReadChangesMemory
    <3>2. CASE RequestsSucceed(w)
      BY <2>2, <3>2, RequestsSucceedMemory
    <3>3. CASE RequestFails(w)
      BY <2>2, <3>3, RequestFailsMemory
    <3>4. CASE GiveUp(w)
      BY <2>2, <3>4, GiveUpMemory
    <3>5. CASE Advance(w)
      BY <2>2, <3>5, AdvanceMemory
    <3>6. CASE ScheduleRetry(w)
      BY <2>2, <3>6, ScheduleRetryMemory
    <3>7. CASE QueueSoiler(w)
      BY <2>2, <3>7, QueueSoilerMemory
    <3>8. CASE BatchThrows(w)
      BY <2>2, <3>8, BatchThrowsMemory DEF RetriesAreWritten
    <3>9. CASE DatabaseNotFound(w)
      BY <2>2, <3>9, DatabaseNotFoundMemory
    <3> QED
      BY <1>4, <3>1, <3>2, <3>3, <3>4, <3>5, <3>6, <3>7, <3>8, <3>9 DEF BatchWorks
  <2> QED
    BY <1>1, <2>1, <2>3 DEF MemoryKept
<1>5. ASSUME NEW w \in Workers, UnlockAndCleanListener(w) PROVE MemoryKept'
  <2>1. /\ \A v \in Workers \ {w} : pc'[v] = pc[v] /\ work'[v] = work[v]
        /\ pc'[w] = "idle" /\ work'[w] = NoWork
    BY <1>1, <1>5
    DEF ProcessTypeOK, WorkTyped, UnlockAndCleanListener, UnlockAndClean, Release
  <2> QED
    BY <1>1, <1>2, <2>1 DEF MemoryKept
<1>6. CASE \/ \E u \in Listeners : ListenerProgress(u) \/ CrashListener(u)
           \/ \E i \in Items : Change(i)
           \/ UNCHANGED vars
  <2>1. UNCHANGED <<pc, work>>
    BY <1>6 DEF ListenerProgress, HearUpdates, GetCleanLockedOrMissing, DirtyDone, DirtyOrCreate,
                CrashListener, Hear, Change, vars, processVars, workerVars
  <2> QED
    BY <1>1, <2>1 DEF MemoryKept
<1> QED
  BY <1>3, <1>4, <1>5, <1>6 DEF Next, BatchStep, BatchWorks

-----------------------------------------------------------------------------
(* One lemma per kind of step.                                             *)

\* A step that loses no mark, finishes no update and moves no worker that sees
\* its lock nearer to a clean update than it may come.
LEMMA KeptFrame ==
  ASSUME MarkInv, SeqsTyped', UNCHANGED newest,
         \A i \in Items : handled[i] <= handled'[i],
         \A i \in Items : Marked(docs[i]) => Marked(docs'[i]),
         \A i \in Behind : AllUnresolved(i) => AllUnresolved(i)',
         \A w \in Workers : Sees(w)' =>
            /\ Knows(w)'
            /\ \/ pc'[w] = "locked"
               \/ /\ Sees(w) /\ item'[w] = item[w]
                  /\ item[w] \in Behind' /\ Harmless(w) => Harmless(w)'
  PROVE  WorkSeen' /\ CleanHidesNothing' /\ NoChangeForgotten'
<1>1. SeqsTyped /\ NoChangeForgotten /\ CleanHidesNothing
  BY MarkParts
<1>2. Behind' \subseteq Behind
  BY <1>1, ChangeListenersAssumption DEF Behind, SeqsTyped
<1>3. WorkSeen'
  BY DEF WorkSeen
<1>4. NoChangeForgotten'
  BY <1>1, <1>2 DEF NoChangeForgotten, AllUnresolved, Behind
<1>5. CleanHidesNothing'
  <2> SUFFICES ASSUME NEW w \in Workers, Sees(w)', item'[w] \in Behind'
               PROVE  Harmless(w)' \/ AllUnresolved(item[w])'
    BY DEF CleanHidesNothing, AllUnresolved, Unresolved
  <2>1. CASE pc'[w] = "locked"
    BY <2>1 DEF Harmless
  <2>2. CASE pc'[w] # "locked"
    <3>1. Sees(w) /\ item'[w] = item[w] /\ item[w] \in Behind
      BY <1>2, <2>2
    <3>2. Harmless(w) => Harmless(w)'
      BY <2>2, <3>1
    <3>3. Harmless(w) \/ AllUnresolved(item[w])
      BY <1>1, <3>1 DEF CleanHidesNothing
    <3>4. AllUnresolved(item[w]) => AllUnresolved(item[w])'
      BY <3>1 DEF AllUnresolved, Unresolved
    <3> QED
      BY <3>1, <3>2, <3>3, <3>4
  <2> QED
    BY <2>1, <2>2
<1> QED
  BY <1>3, <1>4, <1>5

\* The engine knows nothing of changes and update listeners.
LEMMA EngineKeeps ==
  ASSUME MarkInv, Engine(ProcessStep)
  PROVE  Kept'
<1>1. /\ ProcessTypeOK /\ SeqsTyped /\ WorkTyped /\ Inv
      /\ HolderSeesLock /\ HolderSeesDirty /\ WorkSeen
  BY MarkParts
<1>2. Effect /\ HolderSeesLock' /\ HolderSeesDirty'
  BY <1>1, ProcessStepEffect, ProcessStepKeepsDirty DEF Engine
<1>3. UNCHANGED <<newest, last_seq, handled, updates, names, rows>>
  BY DEF Engine, seqVars, listenerVars
<1>4. SeqsTyped' /\ ProcessTypeOK'
  BY <1>1, EngineInv, TypeParts DEF Inv
<1>5. \A i \in Behind : AllUnresolved(i) => AllUnresolved(i)'
  BY <1>3 DEF AllUnresolved, Unresolved
<1>6. ASSUME NEW w \in Workers, Sees(w)'
      PROVE  /\ Knows(w)'
             /\ \/ pc'[w] = "locked"
                \/ /\ Sees(w) /\ item'[w] = item[w]
                   /\ item[w] \in Behind' /\ Harmless(w) => Harmless(w)'
  <2>1. pc'[w] \in {"locked", "processing", "processed"} /\ item'[w] \in current'[w]
    BY <1>6 DEF Sees
  <2>2. work'[w] = IF pc[w] = "got" THEN Loaded(w) ELSE work[w]
    BY <2>1 DEF Engine
  <2>3. docs'[item'[w]].dirty_at = "null" <=> docs[item'[w]].dirty_at = "null"
    BY <1>1, <2>1, StepKeepsFlags DEF Engine, Holders
  <2>4. CASE pc[w] = "got" /\ pc'[w] = "locked"
    <3>1. item'[w] = item[w]
      BY <1>2, <2>1 DEF Effect
    <3>2. /\ Loaded(w).since = last_seq[item[w]] /\ Loaded(w).step = "none"
          /\ Loaded(w).delayed <=> docs[item[w]].dirty_at # "null"
      BY DEF Loaded, NoWork
    <3> QED
      BY <1>3, <2>2, <2>3, <2>4, <3>1, <3>2 DEF Knows
  <2>5. CASE pc'[w] = pc[w] /\ current'[w] \subseteq current[w]
    <3>1. Sees(w) /\ item'[w] = item[w] /\ work'[w] = work[w]
      BY <1>2, <2>1, <2>2, <2>5 DEF Effect, Sees
    <3>2. Knows(w)
      BY <1>1, <3>1 DEF WorkSeen
    <3> QED
      BY <1>3, <2>3, <2>5, <3>1, <3>2 DEF Knows, Harmless
  <2> QED
    BY <1>2, <2>1, <2>4, <2>5 DEF Effect
<1>7. \A i \in Items : handled[i] <= handled'[i]
  BY <1>1, <1>3, ChangeListenersAssumption DEF SeqsTyped
<1>8. WorkSeen' /\ CleanHidesNothing' /\ NoChangeForgotten'
  BY <1>2, <1>3, <1>4, <1>5, <1>6, <1>7, KeptFrame DEF Effect
<1> QED
  BY <1>2, <1>8 DEF Kept

\* A write takes the revision from everybody who had it, if it keeps the mark of
\* a document whose changes are not handled.
LEMMA WriteKeeps ==
  ASSUME MarkInv, SeqsTyped', NEW i \in Items, NEW d \in Docs, Store(i, d, {}),
         UNCHANGED <<newest, phase, todo>>,
         \A w \in Workers : \/ pc'[w] = pc[w] /\ item'[w] = item[w] /\ work'[w] = work[w]
                            \/ item'[w] = i
                            \/ pc'[w] = "idle",
         \A j \in Items : handled[j] <= handled'[j],
         \A j \in Items \ {i} : last_seq'[j] = last_seq[j],
         \A j \in Behind \ {i} : AllUnresolved(j) => AllUnresolved(j)',
         i \in Behind => Marked(d) \/ AllUnresolved(i)'
  PROVE  Kept'
<1>1. /\ ProcessTypeOK /\ SeqsTyped /\ HolderSeesLock /\ HolderSeesDirty /\ WorkSeen
      /\ CleanHidesNothing /\ NoChangeForgotten
  BY MarkParts
<1>2. PICK keepers \in SUBSET Workers : keepers = {} /\ Store(i, d, keepers)
  OBVIOUS
<1>3. /\ docs'[i] = d
      /\ \A j \in Items \ {i} : docs'[j] = docs[j]
      /\ \A w \in Workers : current'[w] = current[w] \ {i}
      /\ \A h \in (Procs \cup Listeners) : current'[h] = current[h] \ {i}
  BY <1>1, <1>2, StoreEffect
<1>4. Behind' \subseteq Behind /\ Behind \subseteq Items
  BY <1>1, ChangeListenersAssumption DEF Behind, SeqsTyped
<1>5. ASSUME NEW w \in Workers, pc'[w] # "idle", item'[w] \in current'[w]
      PROVE  /\ pc'[w] = pc[w] /\ item'[w] = item[w] /\ work'[w] = work[w]
             /\ item[w] \in current[w] /\ item[w] \in Items \ {i}
  BY <1>1, <1>3, <1>5 DEF ProcessTypeOK, Holders
<1>6. NoChangeForgotten'
  BY <1>1, <1>3, <1>4 DEF NoChangeForgotten, AllUnresolved
<1>7. ASSUME NEW w \in Workers, Sees(w)'
      PROVE  /\ Sees(w) /\ item'[w] = item[w] /\ item[w] \in Items \ {i}
             /\ work'[w] = work[w] /\ pc'[w] = pc[w]
  <2>1. pc'[w] # "idle" /\ item'[w] \in current'[w]
    BY <1>7 DEF Sees
  <2> QED
    BY <1>5, <1>7, <2>1 DEF Sees
<1>8. WorkSeen'
  BY <1>1, <1>3, <1>7 DEF WorkSeen, Knows
<1>9. CleanHidesNothing'
  <2> SUFFICES ASSUME NEW w \in Workers, Sees(w)', item'[w] \in Behind', ~Harmless(w)'
               PROVE  AllUnresolved(item[w])'
    BY DEF CleanHidesNothing, AllUnresolved, Unresolved
  <2>1. Sees(w) /\ ~Harmless(w) /\ item[w] \in Behind
    BY <1>4, <1>7 DEF Harmless
  <2>2. AllUnresolved(item[w])
    BY <1>1, <2>1 DEF CleanHidesNothing
  <2>3. PICK j \in Behind \ {i} : j = item[w]
    BY <1>7, <2>1
  <2>4. AllUnresolved(j)'
    BY <2>2, <2>3
  <2> QED
    BY <1>7, <2>3, <2>4 DEF AllUnresolved, Unresolved
<1>10. HolderSeesLock'
  BY <1>1, <1>3, <1>7 DEF HolderSeesLock, Sees, IsLocked
<1>11. HolderSeesDirty'
  <2>1. ASSUME NEW w \in Workers, pc'[w] \in {"got", "locked", "processing", "processed"},
               item'[w] \in current'[w]
        PROVE  docs'[item'[w]].dirty # "false"
    BY <1>1, <1>3, <1>5, <2>1 DEF HolderSeesDirty
  <2>2. ASSUME NEW p \in Procs, NEW j \in todo'[p] \cap current'[p]
        PROVE  docs'[j].dirty # "false"
    BY <1>1, <1>3, <2>2 DEF HolderSeesDirty, ProcessTypeOK, Holders
  <2> QED
    BY <1>1, <2>1, <2>2 DEF HolderSeesDirty
<1> QED
  BY <1>6, <1>8, <1>9, <1>10, <1>11 DEF Kept

\* A step of a batch by worker w that writes nothing.
LEMMA QuietKeeps ==
  ASSUME MarkInv, SeqsTyped', NEW w \in Workers, BatchWorks(w),
         UNCHANGED <<docs, current, last_seq>>,
         pc'[w] \in {"processing", "processed", "failed"},
         \A i \in Items : handled[i] <= handled'[i],
         Sees(w)' => Knows(w)' /\ (item[w] \in Behind' /\ Harmless(w) => Harmless(w)')
  PROVE  Kept'
<1>1. /\ ProcessTypeOK /\ SeqsTyped /\ HolderSeesLock /\ HolderSeesDirty /\ WorkSeen
  BY MarkParts
<1>2. /\ item[w] \in Items /\ item' = item /\ newest' = newest
      /\ pc[w] \in {"locked", "processing"}
      /\ UNCHANGED <<listenerVars, phase, todo>>
      /\ \A v \in Workers \ {w} : pc'[v] = pc[v] /\ work'[v] = work[v]
  BY BatchFrames
<1>3. \A i \in Behind : AllUnresolved(i) => AllUnresolved(i)'
  BY <1>2 DEF AllUnresolved, Unresolved, listenerVars
<1>4. ASSUME NEW v \in Workers, Sees(v)'
      PROVE  /\ Sees(v) /\ item'[v] = item[v] /\ Knows(v)'
             /\ item[v] \in Behind' /\ Harmless(v) => Harmless(v)'
  <2>1. CASE v = w
    BY <1>2, <1>4, <2>1 DEF Sees
  <2>2. CASE v # w
    <3>1. Sees(v) /\ pc'[v] = pc[v] /\ work'[v] = work[v]
      BY <1>2, <1>4, <2>2 DEF Sees
    <3>2. Knows(v)
      BY <1>1, <3>1 DEF WorkSeen
    <3> QED
      BY <1>2, <3>1, <3>2 DEF Knows, Harmless
  <2> QED
    BY <2>1, <2>2
<1>5. WorkSeen' /\ CleanHidesNothing' /\ NoChangeForgotten'
  BY <1>2, <1>3, <1>4, KeptFrame
<1>6. HolderSeesLock'
  BY <1>1, <1>2, <1>4 DEF HolderSeesLock, Sees, IsLocked
<1>7. HolderSeesDirty'
  <2>1. \A v \in Workers : pc'[v] = "got" => pc[v] = "got"
    BY <1>2
  <2>2. \A v \in Workers : pc'[v] \in {"locked", "processing", "processed"} /\ item[v] \in current[v]
                             => pc[v] \in {"locked", "processing", "processed"}
    BY <1>2
  <2> QED
    BY <1>1, <1>2, <2>1, <2>2 DEF HolderSeesDirty
<1> QED
  BY <1>5, <1>6, <1>7 DEF Kept

LEMMA BatchKeeps ==
  ASSUME MarkInv, Inv', RetriesAreWhole, NEW w \in Workers, BatchWorks(w)
  PROVE  Kept'
<1>1. /\ Inv /\ ProcessTypeOK /\ SeqsTyped /\ SeqsTyped' /\ ListenersTyped
      /\ WorkSeen /\ NoChangeForgotten /\ MemoryKept
  BY MarkParts, TypeParts DEF Inv
<1>2. /\ item[w] \in Items /\ item' = item /\ newest' = newest
      /\ pc[w] \in {"locked", "processing"}
      /\ UNCHANGED <<listenerVars, phase, todo>>
      /\ \A v \in Workers \ {w} : pc'[v] = pc[v] /\ work'[v] = work[v]
  BY BatchFrames
<1>3. /\ work[w] \in Work /\ work[w].since \in Nat /\ work[w].upTo \in Nat
      /\ newest[item[w]] \in Nat /\ handled[item[w]] \in Nat /\ last_seq[item[w]] \in Nat
      /\ work[w].since <= handled[item[w]]
      /\ pc[w] = "processing" => work[w].upTo <= newest[item[w]]
  BY <1>1, <1>2, WorkFacts, ChangeListenersAssumption DEF Critical, SeqsTyped
<1>4. ASSUME UNCHANGED handled PROVE \A i \in Items : handled[i] <= handled'[i]
  BY <1>1, <1>4, ChangeListenersAssumption DEF SeqsTyped
<1>5. ASSUME UNCHANGED current PROVE Sees(w)' => Sees(w) /\ Knows(w)
  BY <1>1, <1>2, <1>5 DEF Sees, WorkSeen
<1>6. ASSUME Handled(w), pc[w] = "processing"
      PROVE  /\ \A i \in Items : handled[i] <= handled'[i]
             /\ work[w].upTo = newest[item[w]] => item[w] \notin Behind'
  <2>1. /\ work[w].upTo <= handled'[item[w]]
        /\ \A i \in Items : handled[i] <= handled'[i] /\ handled'[i] <= newest[i]
    BY <1>1, <1>2, <1>3, <1>6, HandledGrows
  <2>2. handled'[item[w]] \in Nat
    BY <1>1, <1>2, ChangeListenersAssumption DEF SeqsTyped
  <2> QED
    BY <1>2, <1>3, <2>1, <2>2 DEF Behind
<1>7. CASE ReadChanges(w)
  <2>1. UNCHANGED <<docs, current, last_seq, handled>>
    BY <1>7 DEF ReadChanges, BeginProcess, dbVars, seqVars
  <2>2. /\ pc[w] = "locked" /\ pc'[w] = "processing" /\ work'[w].step = "requests"
        /\ work'[w].upTo = Smaller(work[w].since + BatchSize, newest[item[w]])
        /\ work'[w].since = work[w].since /\ work'[w].delayed = work[w].delayed
    BY <1>7, ReadChangesMemory
  <2>3. Sees(w)' => Knows(w)'
    BY <1>2, <1>5, <2>1, <2>2 DEF Knows
  <2>4. Sees(w)' /\ item[w] \in Behind' => Harmless(w)'
    <3>1. CASE work[w].delayed
      <4>1. Sees(w)' => newest[item[w]] <= work[w].since + BatchSize
        BY <1>2, <1>5, <2>1, <2>2, <3>1 DEF Knows, RetriesAreWhole
      <4>2. Sees(w)' => work'[w].upTo = newest[item[w]]
        BY <1>3, <2>2, <4>1, ChangeListenersAssumption DEF Smaller
      <4> QED
        BY <1>2, <2>2, <4>2 DEF Harmless
    <3>2. CASE ~work[w].delayed
      <4>1. handled[item[w]] < newest[item[w]] => work[w].since < work'[w].upTo
        BY <1>3, <2>2, ChangeListenersAssumption DEF Smaller
      <4> QED
        BY <1>2, <2>1, <2>2, <3>2, <4>1 DEF Harmless, Behind
    <3> QED
      BY <3>1, <3>2
  <2> QED
    BY <1>1, <1>4, <2>1, <2>2, <2>3, <2>4, QuietKeeps
<1>8. CASE RequestsSucceed(w)
  <2>1. UNCHANGED <<docs, current, last_seq>> /\ Handled(w) /\ pc[w] = "processing"
    BY <1>8 DEF RequestsSucceed, Return, ProcessSucceeds, At, dbVars, processVars
  <2>2. /\ work[w].step = "requests"
        /\ work'[w].upTo = work[w].upTo /\ work'[w].since = work[w].since
        /\ \/ work[w].delayed /\ pc'[w] = "processed" /\ work'[w].step = "none"
           \/ /\ ~work[w].delayed /\ pc'[w] = "processing" /\ work'[w].step = "advance"
              /\ ~work'[w].delayed
    BY <1>8, RequestsSucceedMemory
  <2>3. Sees(w)' => Knows(w)'
    BY <1>2, <1>5, <2>1, <2>2 DEF Knows
  <2>4. item[w] \in Behind' /\ Harmless(w) => Harmless(w)'
    BY <1>2, <1>6, <2>1, <2>2 DEF Harmless
  <2> QED
    BY <1>1, <1>6, <2>1, <2>2, <2>3, <2>4, QuietKeeps
<1>9. CASE RequestFails(w)
  <2>1. UNCHANGED <<docs, current, last_seq, handled>>
    BY <1>9 DEF RequestFails
  <2>2. pc'[w] = "processing" /\ work'[w].step = "retry" /\ work'[w].since = work[w].since
    BY <1>9, RequestFailsMemory
  <2>3. (Sees(w)' => Knows(w)') /\ Harmless(w)'
    BY <1>2, <1>5, <2>1, <2>2 DEF Knows, Harmless
  <2> QED
    BY <1>1, <1>4, <2>1, <2>2, <2>3, QuietKeeps
<1>10. CASE GiveUp(w)
  <2>1. UNCHANGED <<docs, current, last_seq>> /\ Handled(w) /\ pc[w] = "processing"
    BY <1>10 DEF GiveUp, At
  <2>2. /\ work[w].since < work[w].upTo /\ pc'[w] = "processing" /\ work'[w].step = "advance"
        /\ ~work'[w].delayed /\ work'[w].upTo = work[w].upTo /\ work'[w].since = work[w].since
    BY <1>10, GiveUpMemory
  <2>3. (Sees(w)' => Knows(w)') /\ Harmless(w)'
    BY <1>2, <1>5, <2>1, <2>2 DEF Knows, Harmless
  <2> QED
    BY <1>1, <1>6, <2>1, <2>2, <2>3, QuietKeeps
<1>11. CASE Advance(w)
  <2>1. /\ work[w].step = "advance" /\ pc'[w] = "processed" /\ work'[w].step = "none"
        /\ work'[w].since = work[w].since
    BY <1>11, AdvanceMemory
  <2>2. /\ last_seq' = [last_seq EXCEPT ![item[w]] = work[w].upTo] /\ handled' = handled
        /\ pc[w] = "processing"
    BY <1>11 DEF Advance, At
  <2>3. CASE UNCHANGED dbVars /\ last_seq[item[w]] = work[w].upTo
    <3>1. UNCHANGED <<docs, current, last_seq>>
      BY <1>1, <2>2, <2>3 DEF dbVars, SeqsTyped
    <3>2. Sees(w)' => Knows(w)' /\ ~Harmless(w)
      BY <1>2, <1>3, <1>5, <2>1, <2>2, <2>3, <3>1 DEF Knows, Harmless
    <3> QED
      BY <1>1, <1>4, <2>1, <2>2, <3>1, <3>2, QuietKeeps
  <2>4. CASE Store(item[w], docs[item[w]], {})
    <3>1. PICK i \in Items, d \in Docs : i = item[w] /\ d = docs[i] /\ Store(i, d, {})
      BY <1>1, <1>2, <2>4 DEF ProcessTypeOK
    <3>2. \A j \in Behind : AllUnresolved(j) => AllUnresolved(j)'
      BY <1>2 DEF AllUnresolved, Unresolved, listenerVars
    <3>3. i \in Behind => Marked(d) \/ AllUnresolved(i)'
      BY <1>1, <3>1, <3>2 DEF NoChangeForgotten, AllUnresolved
    <3>4. \A j \in Items \ {i} : last_seq'[j] = last_seq[j]
      BY <1>1, <2>2, <3>1 DEF SeqsTyped
    <3> QED
      BY <1>1, <1>2, <1>4, <2>2, <3>1, <3>2, <3>3, <3>4, WriteKeeps
  <2> QED
    BY <1>11, <2>3, <2>4 DEF Advance
<1>12. CASE ScheduleRetry(w)
  <2>1. PICK i \in Items, d \in Docs : i = item[w] /\ Store(i, d, {}) /\ Marked(d)
    <3> DEFINE e == SetDirtyAt(docs[item[w]], "false", "later")
    <3>1. /\ e \in Docs /\ SetLockedAt(e, "null") \in Docs
          /\ Marked(e) /\ Marked(SetLockedAt(e, "null"))
      BY <1>1, <1>2 DEF ProcessTypeOK, Docs, SetDirtyAt, SetLockedAt, Marked
    <3> QED
      BY <1>2, <1>12, <3>1 DEF ScheduleRetry
  <2>2. /\ last_seq' = [last_seq EXCEPT ![i] = work[w].since] /\ handled' = handled
    BY <1>12, <2>1 DEF ScheduleRetry
  <2>3. \A j \in Items \ {i} : last_seq'[j] = last_seq[j]
    BY <1>1, <2>2 DEF SeqsTyped
  <2>4. \A j \in Behind : AllUnresolved(j) => AllUnresolved(j)'
    BY <1>2 DEF AllUnresolved, Unresolved, listenerVars
  <2> QED
    BY <1>1, <1>2, <1>4, <2>1, <2>2, <2>3, <2>4, WriteKeeps
<1>13. CASE QueueSoiler(w)
  <2>1. UNCHANGED <<docs, current, last_seq, handled>>
    BY <1>13 DEF QueueSoiler, seqVars
  <2>2. work[w].step = "queue" /\ pc'[w] = "processed"
    BY <1>13, QueueSoilerMemory
  <2>3. ~Sees(w)'
    BY <1>5, <2>1, <2>2 DEF Knows
  <2> QED
    BY <1>1, <1>4, <2>1, <2>2, <2>3, QuietKeeps
<1>14. CASE BatchThrows(w)
  <2>1. UNCHANGED <<docs, current, last_seq, handled>>
    BY <1>14 DEF BatchThrows, dbVars, seqVars
  <2>2. /\ pc'[w] = "processed" /\ work'[w].step = "none" /\ work'[w].leave
        /\ work'[w].since = work[w].since
    BY <1>14, BatchThrowsMemory
  <2>3. (Sees(w)' => Knows(w)') /\ Harmless(w)'
    BY <1>2, <1>5, <2>1, <2>2 DEF Knows, Harmless
  <2> QED
    BY <1>1, <1>4, <2>1, <2>2, <2>3, QuietKeeps
<1>15. CASE DatabaseNotFound(w)
  <2>1. UNCHANGED <<docs, current, last_seq, handled>>
    BY <1>15 DEF DatabaseNotFound, ProcessThrows, dbVars, seqVars
  <2>2. pc'[w] = "failed" /\ ~Sees(w)'
    BY <1>15, DatabaseNotFoundMemory DEF Sees
  <2> QED
    BY <1>1, <1>4, <2>1, <2>2, QuietKeeps
<1> QED
  BY <1>7, <1>8, <1>9, <1>10, <1>11, <1>12, <1>13, <1>14, <1>15 DEF BatchWorks

\* The clean update: it hides nothing, or leaves the document dirty.
LEMMA CleanKeeps ==
  ASSUME MarkInv, SeqsTyped', NEW w \in Workers, UnlockAndCleanListener(w)
  PROVE  Kept'
<1>1. /\ ProcessTypeOK /\ SeqsTyped /\ WorkTyped /\ HolderSeesDirty
      /\ CleanHidesNothing /\ MemoryKept
  BY MarkParts
<1>2. /\ pc[w] = "processed" /\ item[w] \in current[w] /\ item[w] \in Items
      /\ UNCHANGED <<newest, last_seq, handled, listenerVars, phase, todo>>
      /\ pc'[w] = "idle"
      /\ \A v \in Workers \ {w} : pc'[v] = pc[v] /\ item'[v] = item[v] /\ work'[v] = work[v]
  BY <1>1 DEF ProcessTypeOK, WorkTyped, UnlockAndCleanListener, UnlockAndClean, Release
<1>3. PICK i \in Items, d \in Docs :
        /\ i = item[w] /\ d = CleanedDoc(docs[i], work[w].leave /\ work[w].dirty)
        /\ Store(i, d, {})
  <2>1. (work[w].leave /\ work[w].dirty) \in BOOLEAN
    OBVIOUS
  <2>2. CleanedDoc(docs[item[w]], work[w].leave /\ work[w].dirty) \in Docs
    BY <1>1, <1>2, <2>1, DocsTyped DEF ProcessTypeOK
  <2> QED
    BY <1>2, <2>2 DEF UnlockAndCleanListener, UnlockAndClean
<1>4. \A j \in Behind : AllUnresolved(j) => AllUnresolved(j)'
  BY <1>2 DEF AllUnresolved, Unresolved, listenerVars
<1>5. i \in Behind => Marked(d) \/ AllUnresolved(i)'
  <2>1. CASE work[w].leave
    <3>1. work[w].dirty /\ docs[i].dirty # "false"
      BY <1>1, <1>2, <1>3, <2>1 DEF MemoryKept, HolderSeesDirty
    <3> QED
      BY <1>3, <2>1, <3>1 DEF Marked, CleanedDoc
  <2>2. CASE ~work[w].leave
    <3>1. Sees(w) /\ ~Harmless(w)
      BY <1>2, <2>2 DEF Sees, Harmless
    <3> QED
      BY <1>1, <1>3, <1>4, <3>1 DEF CleanHidesNothing
  <2> QED
    BY <2>1, <2>2
<1>6. \A j \in Items : handled[j] <= handled'[j]
  BY <1>1, <1>2, ChangeListenersAssumption DEF SeqsTyped
<1>7. \A v \in Workers : \/ pc'[v] = pc[v] /\ item'[v] = item[v] /\ work'[v] = work[v]
                         \/ pc'[v] = "idle"
  BY <1>2
<1> QED
  BY <1>2, <1>3, <1>4, <1>5, <1>6, <1>7, WriteKeeps

\* The steps of an update listener.  What it reads as not to be dirtied is dirty
\* and unlocked; what it dirties is lost to the workers that have its revision.
ListenerStep(u) == ListenerProgress(u) \/ CrashListener(u)

LEMMA ListenerKeeps ==
  ASSUME MarkInv, SeqsTyped', NEW u \in Listeners, ListenerStep(u)
  PROVE  Kept'
<1>1. /\ ProcessTypeOK /\ ListenersTyped /\ SeqsTyped /\ HolderSeesLock /\ HolderSeesDirty
      /\ WorkSeen /\ NoChangeForgotten /\ CleanHidesNothing
  BY MarkParts
<1>2. /\ pc' = pc /\ item' = item /\ work' = work /\ phase' = phase /\ todo' = todo
      /\ newest' = newest /\ last_seq' = last_seq /\ handled' = handled
  BY DEF ListenerStep, ListenerProgress, HearUpdates, GetCleanLockedOrMissing, DirtyDone,
         DirtyOrCreate, CrashListener, Hear, processVars, procVars, workerVars, seqVars
<1>3. \A i \in Items : handled[i] <= handled'[i]
  BY <1>1, <1>2, ChangeListenersAssumption DEF SeqsTyped
<1>4. ASSUME UNCHANGED docs, \A h \in Workers \cup Procs : current'[h] = current[h],
             \A i \in Behind : AllUnresolved(i) =>
                AllUnresolved(i)' \/ (Marked(docs[i]) /\ ~IsLocked(docs[i]))
      PROVE  Kept'
  <2>1. Behind' = Behind /\ Behind \subseteq Items
    BY <1>2 DEF Behind
  <2>2. NoChangeForgotten'
    <3>1. \A i \in Behind : Marked(docs[i]) \/ AllUnresolved(i)'
      BY <1>1, <1>4 DEF NoChangeForgotten, AllUnresolved
    <3> QED
      BY <1>4, <2>1, <3>1 DEF NoChangeForgotten, AllUnresolved
  <2>3. ASSUME NEW w \in Workers, Sees(w)'
        PROVE  Sees(w) /\ item[w] \in Items /\ IsLocked(docs[item[w]])
    BY <1>1, <1>2, <1>4, <2>3 DEF Sees, ProcessTypeOK, Holders, HolderSeesLock
  <2>4. CleanHidesNothing'
    <3> SUFFICES ASSUME NEW w \in Workers, Sees(w)', item[w] \in Behind, ~Harmless(w)'
                 PROVE  AllUnresolved(item[w])'
      BY <1>2, <2>1 DEF CleanHidesNothing, AllUnresolved, Unresolved
    <3>1. Sees(w) /\ ~Harmless(w)
      BY <1>2, <2>3 DEF Harmless
    <3>2. AllUnresolved(item[w])
      BY <1>1, <3>1 DEF CleanHidesNothing
    <3>3. PICK i \in Behind : i = item[w]
      OBVIOUS
    <3>4. AllUnresolved(i)'
      BY <1>4, <2>3, <3>2, <3>3
    <3> QED
      BY <1>2, <3>3, <3>4 DEF AllUnresolved, Unresolved
  <2>5. WorkSeen'
    BY <1>1, <1>2, <1>4, <2>3 DEF WorkSeen, Knows
  <2>6. HolderSeesLock'
    BY <1>2, <1>4, <2>3 DEF HolderSeesLock, Sees, IsLocked
  <2>7. HolderSeesDirty'
    BY <1>1, <1>2, <1>4 DEF HolderSeesDirty
  <2> QED
    BY <2>2, <2>4, <2>5, <2>6, <2>7 DEF Kept
<1>5. CASE HearUpdates(u) \/ DirtyDone(u) \/ CrashListener(u)
  <2>1. UNCHANGED docs /\ \A h \in Workers \cup Procs : current'[h] = current[h]
    <3>1. UNCHANGED docs /\ \E S : current' = [current EXCEPT ![u] = S] \/ UNCHANGED current
      BY <1>5 DEF HearUpdates, DirtyDone, CrashListener, Hear, processVars
    <3> QED
      BY <1>1, <3>1, ProcessAssumption DEF ProcessTypeOK, Holders
  <2>2. ASSUME NEW i \in Behind, AllUnresolved(i)
        PROVE  AllUnresolved(i)'
    <3>1. CASE HearUpdates(u)
      BY <1>1, <2>2, <3>1 DEF HearUpdates, Hear, AllUnresolved, Unresolved, ListenersTyped
    <3>2. CASE DirtyDone(u)
      BY <1>1, <2>2, <3>2 DEF DirtyDone, Hear, AllUnresolved, Unresolved, ListenersTyped
    <3>3. CASE CrashListener(u)
      <4>1. PICK v \in Listeners, T \in SUBSET Items :
              updates[v] \cup batch[v] \subseteq T /\ updates' = [updates EXCEPT ![u] = T]
        BY <3>3 DEF CrashListener
      <4>2. i \in T
        BY <1>1, <2>2, <4>1 DEF AllUnresolved, Unresolved, ListenersTyped
      <4>3. Unresolved(u, i)'
        BY <1>1, <4>1, <4>2 DEF Unresolved, ListenersTyped
      <4>4. \A x \in Listeners \ {u} : Unresolved(x, i)' <=> Unresolved(x, i)
        BY <1>1, <3>3, <4>1 DEF CrashListener, Unresolved, ListenersTyped
      <4> QED
        BY <2>2, <4>3, <4>4 DEF AllUnresolved
    <3> QED
      BY <1>5, <3>1, <3>2, <3>3
  <2> QED
    BY <1>4, <2>1, <2>2
<1>6. CASE GetCleanLockedOrMissing(u)
  <2>1. PICK found :
          /\ found = {i \in names[u] : docs[i].dirty = "false" \/ IsLocked(docs[i])}
          /\ rows' = [rows EXCEPT ![u] = found]
          /\ current' = [current EXCEPT ![u] = found]
          /\ names' = [names EXCEPT ![u] = {}]
          /\ docs' = docs /\ updates' = updates
    BY <1>6 DEF GetCleanLockedOrMissing, Hear
  <2>2. \A h \in Workers \cup Procs : current'[h] = current[h]
    BY <1>1, <2>1, ProcessAssumption DEF ProcessTypeOK, Holders
  <2>3. ASSUME NEW i \in Items, AllUnresolved(i)
        PROVE  AllUnresolved(i)' \/ (Marked(docs[i]) /\ ~IsLocked(docs[i]))
    <3>1. CASE docs[i].dirty = "false" \/ IsLocked(docs[i])
      BY <1>1, <1>6, <2>1, <2>3, <3>1
      DEF GetCleanLockedOrMissing, AllUnresolved, Unresolved, ListenersTyped
    <3>2. CASE ~(docs[i].dirty = "false" \/ IsLocked(docs[i]))
      BY <3>2 DEF Marked
    <3> QED
      BY <3>1, <3>2
  <2>4. Behind \subseteq Items
    BY DEF Behind
  <2> QED
    BY <1>4, <2>1, <2>2, <2>3, <2>4
<1>7. CASE \E i \in Items : DirtyOrCreate(u, i)
  <2>1. PICK i \in Items : DirtyOrCreate(u, i)
    BY <1>7
  <2>2. CASE i \in current[u]
    <3>1. PICK d \in Docs : d = SetDirtyAt(docs[i], "true", docs[i].dirty_at) /\ Store(i, d, {})
      <4>1. SetDirtyAt(docs[i], "true", docs[i].dirty_at) \in Docs
        BY <1>1 DEF ProcessTypeOK, Docs, SetDirtyAt
      <4> QED
        BY <2>1, <2>2, <4>1 DEF DirtyOrCreate
    <3>2. Marked(d)
      BY <3>1 DEF SetDirtyAt, Marked
    <3>3. \A j \in Behind \ {i} : AllUnresolved(j) => AllUnresolved(j)'
      BY <1>1, <2>1, <2>2 DEF DirtyOrCreate, Hear, AllUnresolved, Unresolved, ListenersTyped
    <3> QED
      BY <1>2, <1>3, <3>1, <3>2, <3>3, WriteKeeps
  <2>3. CASE i \notin current[u]
    <3>1. UNCHANGED <<docs, current>>
      BY <2>1, <2>3 DEF DirtyOrCreate, dbVars
    <3>2. \A j \in Behind : AllUnresolved(j) => AllUnresolved(j)'
      BY <1>1, <2>1, <2>3 DEF DirtyOrCreate, Hear, AllUnresolved, Unresolved, ListenersTyped
    <3> QED
      BY <1>4, <3>1, <3>2
  <2> QED
    BY <2>2, <2>3
<1> QED
  BY <1>5, <1>6, <1>7 DEF ListenerStep, ListenerProgress

\* A database changes: every update listener has still to deal with it.
LEMMA ChangeKeeps ==
  ASSUME MarkInv, NEW i \in Items, Change(i)
  PROVE  Kept'
<1>1. /\ ProcessTypeOK /\ ListenersTyped /\ SeqsTyped /\ HolderSeesLock /\ HolderSeesDirty
      /\ WorkSeen /\ NoChangeForgotten /\ CleanHidesNothing
  BY MarkParts
<1>2. UNCHANGED <<docs, current, pc, item, work, last_seq, handled, phase, todo>>
  BY DEF Change, processVars
<1>3. AllUnresolved(i)'
  BY <1>1 DEF Change, AllUnresolved, Unresolved, ListenersTyped
<1>4. \A j \in Items : AllUnresolved(j) => AllUnresolved(j)'
  BY <1>1 DEF Change, AllUnresolved, Unresolved, ListenersTyped
<1>5. /\ Behind' \subseteq Behind \cup {i} /\ Behind \subseteq Items
      /\ \A j \in Items \ {i} : newest'[j] = newest[j]
  BY <1>1, <1>2 DEF Change, Behind, SeqsTyped
<1>6. NoChangeForgotten'
  BY <1>1, <1>2, <1>3, <1>4, <1>5 DEF NoChangeForgotten, AllUnresolved
<1>7. CleanHidesNothing'
  <2> SUFFICES ASSUME NEW w \in Workers, Sees(w), item[w] \in Behind', ~Harmless(w)'
               PROVE  AllUnresolved(item[w])'
    BY <1>2 DEF CleanHidesNothing, AllUnresolved, Unresolved, Sees
  <2>1. PICK j \in Items : j = item[w]
    BY <1>5
  <2>2. j # i => j \in Behind /\ ~Harmless(w)
    BY <1>2, <1>5, <2>1 DEF Harmless
  <2>3. j = i \/ AllUnresolved(j)
    BY <1>1, <2>1, <2>2 DEF CleanHidesNothing
  <2>4. AllUnresolved(j)'
    BY <1>3, <1>4, <2>3
  <2> QED
    BY <1>2, <2>1, <2>4 DEF AllUnresolved, Unresolved
<1>8. WorkSeen' /\ HolderSeesLock'
  BY <1>1, <1>2 DEF WorkSeen, Knows, HolderSeesLock, Sees, IsLocked
<1>9. HolderSeesDirty'
  BY <1>1, <1>2 DEF HolderSeesDirty
<1> QED
  BY <1>6, <1>7, <1>8, <1>9 DEF Kept

\* While retried batches are whole and the scheduling of retries does not fail.
LEMMA MarkInvariant == Spec /\ []RetriesAreWhole /\ []RetriesAreWritten => []MarkInv
<1>1. Init => MarkInv
  <2> SUFFICES ASSUME Init PROVE MarkInv
    OBVIOUS
  <2>1. Inv
    BY InitInv
  <2>2. MemoryKept
    BY DEF Init, EngineInit, MemoryKept, NoWork
  <2>3. HolderSeesLock /\ WorkSeen /\ CleanHidesNothing
    BY DEF Init, EngineInit, HolderSeesLock, WorkSeen, CleanHidesNothing, Sees
  <2>4. HolderSeesDirty
    BY DEF Init, EngineInit, HolderSeesDirty
  <2>5. NoChangeForgotten
    BY DEF Init, NoChangeForgotten, Behind
  <2> QED
    BY <2>1, <2>2, <2>3, <2>4, <2>5 DEF MarkInv, Kept
<1>2. MarkInv /\ RetriesAreWhole /\ RetriesAreWritten /\ [Next]_vars => MarkInv'
  <2> SUFFICES ASSUME MarkInv, RetriesAreWhole, RetriesAreWritten, [Next]_vars
               PROVE  MarkInv'
    OBVIOUS
  <2>1. Inv' /\ SeqsTyped' /\ MemoryKept'
    BY NextInv, MemoryStep, TypeParts DEF MarkInv, Inv
  <2>2. Kept'
    <3>1. CASE Engine(ProcessStep)
      BY <3>1, EngineKeeps
    <3>2. ASSUME NEW w \in Workers, BatchStep(w) PROVE Kept'
      <4>1. BatchWorks(w) \/ UnlockAndCleanListener(w)
        BY <3>2 DEF BatchStep, BatchWorks
      <4> QED
        BY <2>1, <4>1, BatchKeeps, CleanKeeps
    <3>3. CASE \E u \in Listeners : ListenerProgress(u) \/ CrashListener(u)
      BY <2>1, <3>3, ListenerKeeps DEF ListenerStep
    <3>4. CASE \E i \in Items : Change(i)
      BY <3>4, ChangeKeeps
    <3>5. CASE UNCHANGED vars
      <4>1. HolderSeesLock' /\ HolderSeesDirty' /\ WorkSeen'
        BY <3>5, MarkParts DEF vars, processVars, HolderSeesLock, HolderSeesDirty, WorkSeen, Sees,
                               Knows
      <4>2. CleanHidesNothing' /\ NoChangeForgotten'
        BY <3>5, MarkParts DEF vars, processVars, CleanHidesNothing, NoChangeForgotten, Sees,
                               Harmless, AllUnresolved, Unresolved, Behind
      <4> QED
        BY <4>1, <4>2 DEF Kept
    <3> QED
      BY <3>1, <3>2, <3>3, <3>4, <3>5 DEF Next
  <2> QED
    BY <2>1, <2>2 DEF MarkInv
<1> QED
  BY <1>1, <1>2, PTL DEF Spec

-----------------------------------------------------------------------------
(* Where no awaited API request fails nothing waits for a retry.           *)

NoDelay == \A i \in Items : docs[i].dirty_at = "null"

\* Nothing of the engine sets a dirty_at, ...
LEMMA EngineNoDelay ==
  ASSUME ProcessTypeOK, \A i \in Items : docs[i].dirty_at = "null", ProcessStep
  PROVE  \A i \in Items : docs'[i].dirty_at = "null"
<1>1. ASSUME NEW i \in Items, NEW d \in Docs, Store(i, d, {}) \/ \E w \in Workers : Store(i, d, {w}),
             d.dirty_at = "null"
      PROVE  \A j \in Items : docs'[j].dirty_at = "null"
  BY <1>1 DEF Store, ProcessTypeOK
<1>2. ASSUME NEW w \in Workers, WorkerStep(w)
      PROVE  \A j \in Items : docs'[j].dirty_at = "null"
  <2>1. CASE Lock(w) \/ LockAnswerLost(w) \/ UpsertUnlock(w)
    <3>1. item[w] \in Items
      BY <2>1 DEF ProcessTypeOK, Lock, LockAnswerLost, UpsertUnlock
    <3>2. PICK l \in {"null", "recent"} :
            \/ Store(item[w], SetLockedAt(docs[item[w]], l), {})
            \/ Store(item[w], SetLockedAt(docs[item[w]], l), {w})
      BY <2>1 DEF Lock, LockAnswerLost, UpsertUnlock
    <3>3. SetLockedAt(docs[item[w]], l) \in Docs
      BY <3>1, DocsTyped DEF ProcessTypeOK
    <3>4. SetLockedAt(docs[item[w]], l).dirty_at = "null"
      BY <3>1 DEF SetLockedAt
    <3> QED
      BY <1>1, <3>1, <3>2, <3>3, <3>4
  <2>2. CASE LockConflict(w) \/ LockRequestLost(w) \/ UnlockAndCleanConflict(w)
               \/ UnlockRequestLost(w)
    BY <2>2 DEF LockConflict, LockRequestLost, UnlockAndCleanConflict, UnlockRequestLost,
                Forget, dbVars
  <2> QED
    BY <1>2, <2>1, <2>2 DEF WorkerStep
<1>3. ASSUME NEW p \in Procs, ProcStep(p)
      PROVE  \A j \in Items : docs'[j].dirty_at = "null"
  <2>1. ASSUME NEW i \in Items, UnlockStalled(p, i)
        PROVE  \A j \in Items : docs'[j].dirty_at = "null"
    <3>1. SetLockedAt(docs[i], "null") \in Docs /\ SetLockedAt(docs[i], "null").dirty_at = "null"
      BY DocsTyped DEF ProcessTypeOK, SetLockedAt
    <3> QED
      BY <1>1, <2>1, <3>1 DEF UnlockStalled, dbVars
  <2>2. ASSUME ~\E i \in Items : UnlockStalled(p, i)
        PROVE  UNCHANGED docs
    BY <1>3, <2>2
    DEF ProcStep, GetLastSeq, LoadDirty, StartListening, Stop, Stopped, Crash, ReadStalled,
        UnstallerFails, Forget, OnDirtyRow, OnChange
  <2> QED
    BY <2>1, <2>2
<1>4. ASSUME NEW s \in Soilers, SoilerStep(s)
      PROVE  \A j \in Items : docs'[j].dirty_at = "null"
  <2>1. \A i \in Items : /\ SetDirtyAt(docs[i], "true", "null") \in Docs
                         /\ SetDirtyAt(docs[i], "true", "null").dirty_at = "null"
    BY DocsTyped DEF ProcessTypeOK, SetDirtyAt
  <2> QED
    BY <1>1, <1>4, <2>1 DEF SoilerStep, SoilPendingItems, SoilItem, SoilItemFails, dbVars
<1>5. ASSUME NEW i \in Items, TimeStep(i)
      PROVE  \A j \in Items : docs'[j].dirty_at = "null"
  BY <1>5 DEF ProcessTypeOK, TimeStep, OrphanLockStalls, SlowLockStalls, Stalls, DirtyAtComes,
              SetLockedAt
<1> QED
  BY <1>2, <1>3, <1>4, <1>5 DEF ProcessStep

\* ... and only _scheduleRetry does.
LEMMA NoDelayStep ==
  ASSUME Inv, NoRetry, NoDelay, "api" \notin BatchFaults, [Next]_vars
  PROVE  NoDelay'
<1>1. ProcessTypeOK
  BY TypeParts DEF Inv
<1>2. CASE Engine(ProcessStep)
  BY <1>1, <1>2, EngineNoDelay DEF Engine, NoDelay
<1>3. ASSUME NEW w \in Workers, BatchStep(w) PROVE NoDelay'
  <2>1. /\ ~RequestFails(w) /\ ~GiveUp(w)
        /\ ~ScheduleRetry(w) /\ ~QueueSoiler(w)
    BY DEF RequestFails, GiveUp, BatchFault, ScheduleRetry, QueueSoiler, At, NoRetry
  <2>2. CASE ReadChanges(w) \/ BatchThrows(w) \/ DatabaseNotFound(w) \/ RequestsSucceed(w)
    <3>1. UNCHANGED docs
      BY <2>2 DEF ReadChanges, BatchThrows, DatabaseNotFound, RequestsSucceed, Return,
                  BeginProcess, ProcessThrows, ProcessSucceeds, processVars, dbVars
    <3> QED
      BY <3>1 DEF NoDelay
  <2>3. CASE Advance(w) \/ UnlockAndCleanListener(w)
    <3>1. item[w] \in Items
      BY <1>1, <2>3 DEF ProcessTypeOK, Advance, At, UnlockAndCleanListener, UnlockAndClean
    <3>2. \A leave \in BOOLEAN : CleanedDoc(docs[item[w]], leave).dirty_at = "null"
      BY DEF CleanedDoc
    <3>3. \/ UNCHANGED docs
          \/ docs' = [docs EXCEPT ![item[w]] = docs[item[w]]]
          \/ \E leave \in BOOLEAN :
               docs' = [docs EXCEPT ![item[w]] = CleanedDoc(docs[item[w]], leave)]
      BY <2>3 DEF Advance, UnlockAndCleanListener, UnlockAndClean, Store, dbVars
    <3> QED
      BY <1>1, <3>1, <3>2, <3>3 DEF ProcessTypeOK, NoDelay
  <2> QED
    BY <1>3, <2>1, <2>2, <2>3 DEF BatchStep
<1>4. CASE \E u \in Listeners, i \in Items : DirtyOrCreate(u, i)
  <2>1. PICK u \in Listeners, i \in Items : DirtyOrCreate(u, i)
    BY <1>4
  <2>2. SetDirtyAt(docs[i], "true", docs[i].dirty_at).dirty_at = docs[i].dirty_at
    BY DEF SetDirtyAt
  <2>3. \A j \in Items : docs'[j].dirty_at = docs[j].dirty_at
    BY <1>1, <2>1, <2>2 DEF ProcessTypeOK, DirtyOrCreate, Store, dbVars
  <2> QED
    BY <2>3 DEF NoDelay
<1>5. CASE \/ \E u \in Listeners : \/ HearUpdates(u) \/ GetCleanLockedOrMissing(u)
                                  \/ DirtyDone(u) \/ CrashListener(u)
           \/ \E i \in Items : Change(i)
           \/ UNCHANGED vars
  BY <1>5 DEF HearUpdates, GetCleanLockedOrMissing, DirtyDone, CrashListener, Hear, Change,
              processVars, vars, NoDelay
<1> QED
  BY <1>2, <1>3, <1>4, <1>5 DEF Next, ListenerProgress

LEMMA NothingIsRetried ==
  ASSUME "api" \notin BatchFaults
  PROVE  Spec => []RetriesAreWhole /\ []RetriesAreWritten
<1>1. Init => Inv /\ NoRetry /\ NoDelay
  BY InitInv DEF Init, NoRetry, NoDelay, NoWork
<1>2. Inv /\ NoRetry /\ NoDelay /\ [Next]_vars => Inv' /\ NoRetry' /\ NoDelay'
  BY NextInv, NoRetryStep, NoDelayStep
<1>3. Inv /\ NoRetry /\ NoDelay => RetriesAreWhole /\ RetriesAreWritten
  BY DEF NoRetry, NoDelay, RetriesAreWhole, RetriesAreWritten, At
<1> QED
  BY <1>1, <1>2, <1>3, PTL DEF Spec

\* As soon as one update listener has finished with a change, the document is dirty
\* until the change is processed, in batches of any size, with every kind of fault,
\* slow actions and throwing batches included, as long as no awaited API request
\* fails: the comment of _processBatchOfChanges on more batches, which
\* _processBatchOfChangesLogError forgets, holds because _updateLastSeq makes the
\* clean update conflict.
THEOREM ChangesAreKept ==
  ASSUME "api" \notin BatchFaults
  PROVE  Spec => []NoChangeForgotten
<1>1. MarkInv => NoChangeForgotten
  BY MarkParts
<1> QED
  BY <1>1, MarkInvariant, NothingIsRetried, PTL

\* And with requests that fail, are retried and given up, as long as a batch that
\* waits for its retry reads all the changes there are: after _scheduleRetry the
\* worker has no longer the latest revision, so that its clean update conflicts, and
\* the retry that succeeds cleans a document whose changes have all been handled.  A
\* retry that leaves changes unread cleans the document too: that is more_batches.
THEOREM ChangesAreKeptByRetries ==
  ASSUME "retry" \notin BatchFaults
  PROVE  Spec /\ []RetriesAreWhole => []NoChangeForgotten
<1>1. MarkInv => NoChangeForgotten
  BY MarkParts
<1>2. RetriesAreWritten
  BY DEF RetriesAreWritten
<1> QED
  BY <1>1, <1>2, MarkInvariant, PTL

-----------------------------------------------------------------------------
(* The change listeners implement DirtyMarks, under the same assumptions.  *)

MarksStep == [Marks!Next]_(Marks!vars)

MarkedItems == {i \in Items : Marked(docs[i])}
HeardItems  == {i \in Items : \E u \in Listeners : i \notin updates[u] \cup batch[u]}

\* A step that only marks items is a Mark.
LEMMA MarkStep ==
  ASSUME UNCHANGED <<newest, handled, updates, batch>>,
         \A i \in Items : Marked(docs[i]) => Marked(docs'[i])
  PROVE  MarksStep
<1> DEFINE S == MarkedItems'
<1>1. MarkedItems' = MarkedItems \cup S /\ S \in SUBSET Items
  BY DEF MarkedItems
<1>2. HeardItems' = HeardItems /\ Behind' = Behind
  BY DEF HeardItems, Behind
<1>3. Marks!Mark(S)
  BY <1>1, <1>2 DEF Marks!Mark, MarkedItems, HeardItems
<1> QED
  BY <1>1, <1>3 DEF MarksStep, Marks!Next

\* The changes of a batch are handled: the item is served, or still behind.
LEMMA HandledServes ==
  ASSUME MarkInv, NEW w \in Workers, pc[w] = "processing", Handled(w),
         UNCHANGED <<docs, newest, updates, batch>>
  PROVE  MarksStep
<1>1. ProcessTypeOK /\ SeqsTyped
  BY MarkParts
<1>2. item[w] \in Items
  BY <1>1 DEF ProcessTypeOK
<1>3. /\ \A i \in Items \ {item[w]} : handled'[i] = handled[i]
      /\ handled'[item[w]] = IF handled[item[w]] < work[w].upTo THEN work[w].upTo
                                                               ELSE handled[item[w]]
  BY <1>1, <1>2 DEF Handled, SeqsTyped
<1>4. HeardItems' = HeardItems /\ MarkedItems' = MarkedItems
  BY DEF HeardItems, MarkedItems
<1>5. \A i \in Items \ {item[w]} : i \in Behind' <=> i \in Behind
  BY <1>3 DEF Behind
<1>6. CASE item[w] \in Behind'
  <2>1. handled'[item[w]] < newest[item[w]]
    BY <1>6 DEF Behind
  <2>2. /\ handled[item[w]] \in Nat /\ newest[item[w]] \in Nat /\ work[w].upTo \in Nat
    BY <1>1, <1>2, WorkFacts, ChangeListenersAssumption DEF MarkInv, Critical
  <2>3. item[w] \in Behind
    BY <1>2, <1>3, <2>1, <2>2 DEF Behind
  <2>4. Behind' = Behind
    BY <1>5, <1>6, <2>3 DEF Behind
  <2> QED
    BY <1>4, <2>4 DEF MarksStep, Marks!vars, MarkedItems, HeardItems
<1>7. CASE item[w] \notin Behind'
  <2>1. Behind' = Behind \ {item[w]}
    BY <1>5, <1>7 DEF Behind
  <2>2. Marks!Serve(item[w])
    BY <1>4, <2>1 DEF Marks!Serve, MarkedItems, HeardItems
  <2> QED
    BY <1>2, <2>2 DEF MarksStep, Marks!Next
<1> QED
  BY <1>6, <1>7

LEMMA BatchImplements ==
  ASSUME MarkInv, NEW w \in Workers, BatchWorks(w)
  PROVE  MarksStep
<1>1. ProcessTypeOK
  BY MarkParts
<1>2. item[w] \in Items /\ newest' = newest /\ updates' = updates /\ batch' = batch
  BY BatchFrames DEF listenerVars
<1>3. CASE \/ ReadChanges(w) \/ BatchThrows(w) \/ DatabaseNotFound(w)
           \/ RequestFails(w) \/ QueueSoiler(w)
  <2>1. docs' = docs /\ handled' = handled
    BY <1>3 DEF ReadChanges, BatchThrows, DatabaseNotFound, RequestFails, QueueSoiler,
                BeginProcess, ProcessThrows, seqVars, dbVars
  <2> QED
    BY <1>2, <2>1, MarkStep
<1>4. CASE RequestsSucceed(w) \/ GiveUp(w)
  <2>1. docs' = docs /\ Handled(w) /\ pc[w] = "processing"
    BY <1>4 DEF RequestsSucceed, GiveUp, At, Return, ProcessSucceeds, processVars, dbVars
  <2> QED
    BY <1>2, <2>1, HandledServes
<1>5. CASE Advance(w)
  <2>1. handled' = handled
    BY <1>5 DEF Advance
  <2>2. docs' = docs \/ docs' = [docs EXCEPT ![item[w]] = docs[item[w]]]
    BY <1>5 DEF Advance, dbVars, Store
  <2>3. docs' = docs
    BY <1>1, <1>2, <2>2 DEF ProcessTypeOK
  <2> QED
    BY <1>2, <2>1, <2>3, MarkStep
<1>6. CASE ScheduleRetry(w)
  <2>1. handled' = handled
    BY <1>6 DEF ScheduleRetry
  <2>2. PICK d : docs' = [docs EXCEPT ![item[w]] = d] /\ d.dirty_at = "later"
    <3> DEFINE e == SetDirtyAt(docs[item[w]], "false", "later")
    <3>1. e.dirty_at = "later" /\ SetLockedAt(e, "null").dirty_at = "later"
      BY DEF SetDirtyAt, SetLockedAt
    <3>2. \/ docs' = [docs EXCEPT ![item[w]] = e]
          \/ docs' = [docs EXCEPT ![item[w]] = SetLockedAt(e, "null")]
      BY <1>6 DEF ScheduleRetry, Store
    <3> QED
      BY <3>1, <3>2
  <2>3. \A i \in Items : Marked(docs[i]) => Marked(docs'[i])
    BY <1>1, <2>2 DEF ProcessTypeOK, Marked
  <2> QED
    BY <1>2, <2>1, <2>3, MarkStep
<1> QED
  BY <1>3, <1>4, <1>5, <1>6 DEF BatchWorks

LEMMA CleanImplements ==
  ASSUME MarkInv, NEW w \in Workers, UnlockAndCleanListener(w)
  PROVE  MarksStep
<1>1. /\ ProcessTypeOK /\ ListenersTyped /\ HolderSeesDirty
      /\ CleanHidesNothing /\ MemoryKept
  BY MarkParts
<1>2. /\ pc[w] = "processed" /\ item[w] \in current[w] /\ item[w] \in Items
      /\ UNCHANGED <<newest, handled, updates, batch>>
  BY <1>1 DEF ProcessTypeOK, UnlockAndCleanListener, UnlockAndClean, listenerVars
<1> DEFINE d == CleanedDoc(docs[item[w]], work[w].leave /\ work[w].dirty)
<1>3. PICK i \in Items : i = item[w] /\ docs' = [docs EXCEPT ![i] = d]
  BY <1>2 DEF UnlockAndCleanListener, UnlockAndClean, Store
<1>4. docs'[i] = d /\ \A j \in Items \ {i} : docs'[j] = docs[j]
  BY <1>1, <1>3 DEF ProcessTypeOK
<1>5. CASE work[w].leave
  <2>1. work[w].dirty /\ docs[i].dirty # "false"
    BY <1>1, <1>2, <1>3, <1>5 DEF MemoryKept, HolderSeesDirty
  <2>2. Marked(d)
    BY <1>3, <1>5, <2>1 DEF Marked, CleanedDoc
  <2>3. \A j \in Items : Marked(docs[j]) => Marked(docs'[j])
    BY <1>4, <2>2
  <2> QED
    BY <1>2, <2>3, MarkStep
<1>6. CASE ~work[w].leave
  <2>1. MarkedItems' = MarkedItems \ {i}
    BY <1>3, <1>4, <1>6 DEF MarkedItems, Marked, CleanedDoc
  <2>2. Sees(w) /\ ~Harmless(w)
    BY <1>2, <1>6 DEF Sees, Harmless
  <2>3. i \notin Behind \/ AllUnresolved(i)
    BY <1>1, <1>3, <2>2 DEF CleanHidesNothing
  <2>4. i \notin Behind \/ i \notin HeardItems
    BY <1>1, <2>3 DEF AllUnresolved, Unresolved, HeardItems, ListenersTyped
  <2>5. Behind' = Behind /\ HeardItems' = HeardItems
    BY <1>2 DEF Behind, HeardItems
  <2>6. Marks!Clear(i)
    BY <2>1, <2>4, <2>5 DEF Marks!Clear, MarkedItems, HeardItems
  <2> QED
    BY <2>6 DEF MarksStep, Marks!Next
<1> QED
  BY <1>5, <1>6

LEMMA ListenerImplements ==
  ASSUME MarkInv, NEW u \in Listeners, ListenerStep(u)
  PROVE  MarksStep
<1>1. ProcessTypeOK /\ ListenersTyped /\ NoChangeForgotten
  BY MarkParts
<1>2. newest' = newest /\ handled' = handled /\ Behind' = Behind
  BY DEF ListenerStep, ListenerProgress, HearUpdates, GetCleanLockedOrMissing, DirtyDone,
         DirtyOrCreate, CrashListener, Hear, seqVars, Behind
<1>3. CASE GetCleanLockedOrMissing(u)
  BY <1>2, <1>3, MarkStep DEF GetCleanLockedOrMissing, Hear
<1>4. CASE HearUpdates(u)
  <2>1. updates'[u] \cup batch'[u] = updates[u] \cup batch[u]
    BY <1>1, <1>4 DEF HearUpdates, ListenersTyped
  <2>2. \A v \in Listeners \ {u} : updates'[v] = updates[v] /\ batch'[v] = batch[v]
    BY <1>1, <1>4 DEF HearUpdates, ListenersTyped
  <2>3. HeardItems' = HeardItems
    BY <2>1, <2>2 DEF HeardItems
  <2>4. MarkedItems' = MarkedItems
    BY <1>4 DEF HearUpdates, Hear, processVars, MarkedItems
  <2> QED
    BY <1>2, <2>3, <2>4 DEF MarksStep, Marks!vars, MarkedItems, HeardItems
<1>5. CASE \E i \in Items : DirtyOrCreate(u, i)
  <2>1. PICK i \in Items : DirtyOrCreate(u, i)
    BY <1>5
  <2>2. UNCHANGED <<updates, batch>>
    BY <2>1 DEF DirtyOrCreate, Hear
  <2>3. \/ docs' = docs
        \/ docs' = [docs EXCEPT ![i] = SetDirtyAt(docs[i], "true", docs[i].dirty_at)]
    BY <2>1 DEF DirtyOrCreate, Store, dbVars
  <2>4. Marked(SetDirtyAt(docs[i], "true", docs[i].dirty_at))
    BY DEF Marked, SetDirtyAt
  <2>5. \A j \in Items : Marked(docs[j]) => Marked(docs'[j])
    BY <1>1, <2>3, <2>4 DEF ProcessTypeOK
  <2> QED
    BY <1>2, <2>2, <2>5, MarkStep
<1>6. CASE DirtyDone(u)
  <2>1. MarkedItems' = MarkedItems
    BY <1>6 DEF DirtyDone, Hear, processVars, MarkedItems
  <2>2. /\ updates' = updates /\ batch'[u] = {}
        /\ \A v \in Listeners \ {u} : batch'[v] = batch[v]
    BY <1>1, <1>6 DEF DirtyDone, Hear, ListenersTyped
  <2> DEFINE S == {i \in Items : i \notin updates[u]}
  <2>3. HeardItems' = HeardItems \cup S
    BY <2>2 DEF HeardItems
  <2>4. S \cap Behind \subseteq MarkedItems
    BY <1>1, <1>6 DEF DirtyDone, NoChangeForgotten, Unresolved, MarkedItems, Behind
  <2>5. PICK T \in SUBSET Items : T = S
    OBVIOUS
  <2>6. Marks!Report(T)
    BY <1>2, <2>1, <2>3, <2>4, <2>5 DEF Marks!Report, MarkedItems, HeardItems
  <2> QED
    BY <2>6 DEF MarksStep, Marks!Next
<1>7. CASE CrashListener(u)
  <2>1. MarkedItems' = MarkedItems
    BY <1>7 DEF CrashListener, Hear, MarkedItems
  <2>2. PICK v \in Listeners, T \in SUBSET Items :
          updates[v] \cup batch[v] \subseteq T /\ updates' = [updates EXCEPT ![u] = T]
    BY <1>7 DEF CrashListener
  <2>3. /\ updates'[u] = T
        /\ \A x \in Listeners \ {u} : updates'[x] = updates[x] /\ batch'[x] = batch[x]
    BY <1>1, <1>7, <2>2 DEF CrashListener, ListenersTyped
  <2>4. HeardItems' \subseteq HeardItems
    BY <2>2, <2>3 DEF HeardItems
  <2>5. PICK S \in SUBSET Items : HeardItems' = HeardItems \ S
    <3>1. HeardItems \ HeardItems' \in SUBSET Items
      BY DEF HeardItems
    <3>2. HeardItems' = HeardItems \ (HeardItems \ HeardItems')
      BY <2>4
    <3> QED
      BY <3>1, <3>2
  <2>6. Marks!Replay(S)
    BY <1>2, <2>1, <2>5 DEF Marks!Replay, MarkedItems, HeardItems
  <2> QED
    BY <2>6 DEF MarksStep, Marks!Next
<1> QED
  BY <1>3, <1>4, <1>5, <1>6, <1>7 DEF ListenerStep, ListenerProgress

LEMMA ChangeImplements ==
  ASSUME MarkInv, NEW i \in Items, Change(i)
  PROVE  MarksStep
<1>1. ListenersTyped /\ SeqsTyped
  BY MarkParts
<1>2. /\ newest[i] \in Nat /\ handled[i] \in Nat /\ handled[i] <= newest[i]
      /\ newest'[i] = newest[i] + 1 /\ handled' = handled
      /\ \A j \in Items \ {i} : newest'[j] = newest[j]
  BY <1>1, ChangeListenersAssumption DEF Change, SeqsTyped
<1>3. i \in Behind'
  BY <1>2 DEF Behind
<1>4. Behind' = Behind \cup {i}
  BY <1>2, <1>3 DEF Behind
<1>5. MarkedItems' = MarkedItems
  BY DEF Change, processVars, MarkedItems
<1>6. \A u \in Listeners : updates'[u] = updates[u] \cup {i} /\ batch'[u] = batch[u]
  BY <1>1 DEF Change, ListenersTyped
<1>7. HeardItems' = HeardItems \ {i}
  BY <1>6 DEF HeardItems
<1>8. Marks!Change({i})
  BY <1>4, <1>5, <1>7 DEF Marks!Change, MarkedItems, HeardItems
<1> QED
  BY <1>8 DEF MarksStep, Marks!Next

LEMMA StepImplements ==
  ASSUME MarkInv, [Next]_vars
  PROVE  MarksStep
<1>1. CASE Engine(ProcessStep)
  <2>1. Effect
    BY <1>1, ProcessStepEffect, MarkParts DEF Engine
  <2> QED
    BY <1>1, <2>1, MarkStep DEF Engine, listenerVars, seqVars, Effect
<1>2. ASSUME NEW w \in Workers, BatchStep(w) PROVE MarksStep
  <2>1. BatchWorks(w) \/ UnlockAndCleanListener(w)
    BY <1>2 DEF BatchStep, BatchWorks
  <2> QED
    BY <2>1, BatchImplements, CleanImplements
<1>3. CASE UNCHANGED vars
  BY <1>3, MarkStep DEF vars, processVars
<1> QED
  BY <1>1, <1>2, <1>3, ListenerImplements, ChangeImplements DEF Next, ListenerStep

LEMMA InitImplements == Init => Marks!Init
  BY DEF Init, EngineInit, Marks!Init, Marked, Behind

\* Whatever the workers, update listeners, unstallers and soilers do, in any order:
\* no mark is cleared while a change that was heard of is not processed, and no
\* update listener reports its batch before the documents are marked.
THEOREM MarksAreDisciplined ==
  ASSUME "api" \notin BatchFaults
  PROVE  Spec => ImplementsDirtyMarks
<1>1. MarkInv /\ [Next]_vars => MarksStep
  BY StepImplements
<1> QED
  BY <1>1, InitImplements, MarkInvariant, NothingIsRetried, PTL
  DEF Spec, ImplementsDirtyMarks, Marks!Spec, MarksStep

\* The scheduling of a retry is a step of the discipline as well, which marks the
\* document before the worker may clean it, and so is giving a batch up, which
\* serves the item: with failing requests the documents are marked as they should
\* be, as long as a batch that is retried reads all the changes there are.
THEOREM RetriesAreDisciplined ==
  ASSUME "retry" \notin BatchFaults
  PROVE  Spec /\ []RetriesAreWhole => ImplementsDirtyMarks
<1>1. MarkInv /\ [Next]_vars => MarksStep
  BY StepImplements
<1>2. RetriesAreWritten
  BY DEF RetriesAreWritten
<1> QED
  BY <1>1, <1>2, InitImplements, MarkInvariant, PTL
  DEF Spec, ImplementsDirtyMarks, Marks!Spec, MarksStep

-----------------------------------------------------------------------------
(* The change listeners implement UpdateFeed, under the same assumptions.  *)

FeedStep == [Feed!Next]_(Feed!vars)

\* The items with a change that they are not marked for.
UnmarkedItems == {i \in Behind : ~Marked(docs[i])}

\* A step after which no more is to be dirtied, and no listener has more or less
\* to deal with, is a Dirty.
LEMMA QuietStep ==
  ASSUME \A i \in Items : i \in Behind' /\ ~Marked(docs'[i])
                           => i \in Behind /\ ~Marked(docs[i]),
         \A u \in Listeners : updates'[u] \cup batch'[u] = updates[u] \cup batch[u]
  PROVE  FeedStep
<1>1. UnmarkedItems' \subseteq UnmarkedItems /\ UnmarkedItems \in SUBSET Items
  BY DEF UnmarkedItems, Behind
<1>2. PICK S \in SUBSET Items : S = UnmarkedItems \ UnmarkedItems'
  BY <1>1
<1>3. Feed!Dirty(S)
  BY <1>1, <1>2 DEF Feed!Dirty, UnmarkedItems
<1> QED
  BY <1>3 DEF FeedStep, Feed!Next

\* The steps that handle changes take no mark away and make no new ones.
LEMMA BatchIsOfFeed ==
  ASSUME MarkInv, NEW w \in Workers, BatchWorks(w)
  PROVE  FeedStep
<1>1. ProcessTypeOK /\ SeqsTyped
  BY MarkParts
<1>2. item[w] \in Items /\ newest' = newest /\ updates' = updates /\ batch' = batch
  BY BatchFrames DEF listenerVars
<1>3. \A i \in Items : Marked(docs[i]) => Marked(docs'[i])
  <2>1. CASE \/ ReadChanges(w) \/ BatchThrows(w) \/ DatabaseNotFound(w)
             \/ RequestFails(w) \/ QueueSoiler(w) \/ RequestsSucceed(w) \/ GiveUp(w)
    BY <2>1 DEF ReadChanges, BatchThrows, DatabaseNotFound, RequestFails, QueueSoiler,
                RequestsSucceed, GiveUp, Return, BeginProcess, ProcessThrows,
                ProcessSucceeds, processVars, dbVars
  <2>2. CASE Advance(w)
    <3>1. docs' = docs \/ docs' = [docs EXCEPT ![item[w]] = docs[item[w]]]
      BY <2>2 DEF Advance, dbVars, Store
    <3> QED
      BY <1>1, <1>2, <3>1 DEF ProcessTypeOK
  <2>3. CASE ScheduleRetry(w)
    <3>1. PICK d : docs' = [docs EXCEPT ![item[w]] = d] /\ d.dirty_at = "later"
      <4> DEFINE e == SetDirtyAt(docs[item[w]], "false", "later")
      <4>1. e.dirty_at = "later" /\ SetLockedAt(e, "null").dirty_at = "later"
        BY DEF SetDirtyAt, SetLockedAt
      <4>2. \/ docs' = [docs EXCEPT ![item[w]] = e]
            \/ docs' = [docs EXCEPT ![item[w]] = SetLockedAt(e, "null")]
        BY <2>3 DEF ScheduleRetry, Store
      <4> QED
        BY <4>1, <4>2
    <3> QED
      BY <1>1, <3>1 DEF ProcessTypeOK, Marked
  <2> QED
    BY <2>1, <2>2, <2>3 DEF BatchWorks
<1>4. \A i \in Items : i \in Behind' => i \in Behind
  <2>1. CASE (RequestsSucceed(w) \/ GiveUp(w)) /\ pc[w] = "processing"
    <3>1. /\ \A i \in Items \ {item[w]} : handled'[i] = handled[i]
          /\ handled'[item[w]] = IF handled[item[w]] < work[w].upTo THEN work[w].upTo
                                                                   ELSE handled[item[w]]
      BY <1>1, <1>2, <2>1 DEF RequestsSucceed, GiveUp, Handled, SeqsTyped
    <3>2. /\ handled[item[w]] \in Nat /\ newest[item[w]] \in Nat /\ work[w].upTo \in Nat
      BY <1>1, <1>2, <2>1, WorkFacts, ChangeListenersAssumption DEF MarkInv, Critical
    <3>3. item[w] \in Behind' => item[w] \in Behind
      BY <1>2, <3>1, <3>2 DEF Behind
    <3>4. \A i \in Items \ {item[w]} : i \in Behind' => i \in Behind
      BY <1>2, <3>1 DEF Behind
    <3> QED
      BY <3>3, <3>4
  <2>2. CASE ~(RequestsSucceed(w) \/ GiveUp(w))
    <3>1. handled' = handled
      BY <2>2 DEF BatchWorks, ReadChanges, RequestFails, Advance, ScheduleRetry,
                  QueueSoiler, BatchThrows, DatabaseNotFound, seqVars
    <3> QED
      BY <1>2, <3>1 DEF Behind
  <2>3. RequestsSucceed(w) \/ GiveUp(w) => pc[w] = "processing"
    BY DEF RequestsSucceed, GiveUp, At
  <2> QED
    BY <2>1, <2>2, <2>3
<1> QED
  BY <1>2, <1>3, <1>4, QuietStep

\* The clean update takes a mark away that every update listener has still to set,
\* or that of an item without changes, unless it leaves the item dirty.
LEMMA CleanIsOfFeed ==
  ASSUME MarkInv, NEW w \in Workers, UnlockAndCleanListener(w)
  PROVE  FeedStep
<1>1. /\ ProcessTypeOK /\ ListenersTyped /\ HolderSeesDirty
      /\ CleanHidesNothing /\ MemoryKept
  BY MarkParts
<1>2. /\ pc[w] = "processed" /\ item[w] \in current[w] /\ item[w] \in Items
      /\ UNCHANGED <<newest, handled, updates, batch>>
  BY <1>1 DEF ProcessTypeOK, UnlockAndCleanListener, UnlockAndClean, listenerVars
<1> DEFINE d == CleanedDoc(docs[item[w]], work[w].leave /\ work[w].dirty)
<1>3. PICK i \in Items : i = item[w] /\ docs' = [docs EXCEPT ![i] = d]
  BY <1>2 DEF UnlockAndCleanListener, UnlockAndClean, Store
<1>4. docs'[i] = d /\ \A j \in Items \ {i} : docs'[j] = docs[j]
  BY <1>1, <1>3 DEF ProcessTypeOK
<1>5. Behind' = Behind
  BY <1>2 DEF Behind
<1>6. CASE work[w].leave
  <2>1. work[w].dirty /\ docs[i].dirty # "false"
    BY <1>1, <1>2, <1>3, <1>6 DEF MemoryKept, HolderSeesDirty
  <2>2. Marked(d)
    BY <1>3, <1>6, <2>1 DEF Marked, CleanedDoc
  <2> QED
    BY <1>2, <1>4, <1>5, <2>2, QuietStep
<1>7. CASE ~work[w].leave
  <2>1. Sees(w) /\ ~Harmless(w)
    BY <1>2, <1>7 DEF Sees, Harmless
  <2>2. i \notin Behind \/ AllUnresolved(i)
    BY <1>1, <1>3, <2>1 DEF CleanHidesNothing
  <2>3. CASE i \notin Behind
    BY <1>2, <1>4, <1>5, <2>3, QuietStep
  <2>4. CASE i \in Behind /\ AllUnresolved(i)
    <3>1. \A u \in Listeners : i \in updates[u] \cup batch[u]
      BY <1>1, <2>4 DEF AllUnresolved, Unresolved, ListenersTyped
    <3>2. ~Marked(d)
      BY <1>3, <1>7 DEF Marked, CleanedDoc
    <3>3. UnmarkedItems' = UnmarkedItems \cup {i}
      BY <1>4, <1>5, <2>4, <3>2 DEF UnmarkedItems, Behind
    <3>4. Feed!Update(i)
      BY <1>2, <3>1, <3>3 DEF Feed!Update, UnmarkedItems
    <3> QED
      BY <3>4 DEF FeedStep, Feed!Next
  <2> QED
    BY <2>2, <2>3, <2>4
<1> QED
  BY <1>6, <1>7

\* The end of a batch of an update listener is a Finish: all that it got is marked.
LEMMA ListenerIsOfFeed ==
  ASSUME MarkInv, NEW u \in Listeners, ListenerStep(u)
  PROVE  FeedStep
<1>1. ProcessTypeOK /\ ListenersTyped /\ NoChangeForgotten
  BY MarkParts
<1>2. newest' = newest /\ handled' = handled /\ Behind' = Behind
  BY DEF ListenerStep, ListenerProgress, HearUpdates, GetCleanLockedOrMissing, DirtyDone,
         DirtyOrCreate, CrashListener, Hear, seqVars, Behind
<1>3. CASE GetCleanLockedOrMissing(u)
  BY <1>2, <1>3, QuietStep DEF GetCleanLockedOrMissing, Hear
<1>4. CASE HearUpdates(u)
  <2>1. updates'[u] \cup batch'[u] = updates[u] \cup batch[u]
    BY <1>1, <1>4 DEF HearUpdates, ListenersTyped
  <2>2. \A v \in Listeners \ {u} : updates'[v] = updates[v] /\ batch'[v] = batch[v]
    BY <1>1, <1>4 DEF HearUpdates, ListenersTyped
  <2>3. docs' = docs
    BY <1>4 DEF HearUpdates, Hear, processVars
  <2> QED
    BY <1>2, <2>1, <2>2, <2>3, QuietStep
<1>5. CASE \E i \in Items : DirtyOrCreate(u, i)
  <2>1. PICK i \in Items : DirtyOrCreate(u, i)
    BY <1>5
  <2>2. UNCHANGED <<updates, batch>>
    BY <2>1 DEF DirtyOrCreate, Hear
  <2>3. \/ docs' = docs
        \/ docs' = [docs EXCEPT ![i] = SetDirtyAt(docs[i], "true", docs[i].dirty_at)]
    BY <2>1 DEF DirtyOrCreate, Store, dbVars
  <2>4. Marked(SetDirtyAt(docs[i], "true", docs[i].dirty_at))
    BY DEF Marked, SetDirtyAt
  <2>5. \A j \in Items : Marked(docs[j]) => Marked(docs'[j])
    BY <1>1, <2>3, <2>4 DEF ProcessTypeOK
  <2> QED
    BY <1>2, <2>2, <2>5, QuietStep
<1>6. CASE DirtyDone(u)
  <2>1. UnmarkedItems' = UnmarkedItems
    BY <1>2, <1>6 DEF DirtyDone, Hear, processVars, UnmarkedItems
  <2>2. /\ updates' = updates /\ batch'[u] = {} /\ names[u] = {} /\ rows[u] = {}
        /\ \A v \in Listeners \ {u} : batch'[v] = batch[v]
    BY <1>1, <1>6 DEF DirtyDone, Hear, ListenersTyped
  <2>3. UnmarkedItems \subseteq updates[u]
    BY <1>1, <2>2 DEF NoChangeForgotten, Unresolved, UnmarkedItems
  <2>4. PICK S \in SUBSET Items : S = batch[u] \ updates[u]
    BY <1>1 DEF ListenersTyped
  <2>5. \A v \in Listeners : updates'[v] \cup batch'[v] =
          IF v = u THEN (updates[u] \cup batch[u]) \ S ELSE updates[v] \cup batch[v]
    BY <2>2, <2>4
  <2>6. Feed!Finish(u, S)
    BY <2>1, <2>3, <2>4, <2>5 DEF Feed!Finish, UnmarkedItems
  <2> QED
    BY <2>6 DEF FeedStep, Feed!Next
<1>7. CASE CrashListener(u)
  <2>1. UnmarkedItems' = UnmarkedItems
    BY <1>2, <1>7 DEF CrashListener, Hear, UnmarkedItems
  <2>2. PICK v \in Listeners, T \in SUBSET Items :
          updates[v] \cup batch[v] \subseteq T /\ updates' = [updates EXCEPT ![u] = T]
    BY <1>7 DEF CrashListener
  <2>3. /\ updates'[u] = T /\ batch'[u] = {}
        /\ \A x \in Listeners \ {u} : updates'[x] = updates[x] /\ batch'[x] = batch[x]
    BY <1>1, <1>7, <2>2 DEF CrashListener, ListenersTyped
  <2>4. Feed!Restart({u}, v, T)
    BY <2>1, <2>2, <2>3 DEF Feed!Restart, UnmarkedItems
  <2> QED
    BY <2>4 DEF FeedStep, Feed!Next
<1> QED
  BY <1>3, <1>4, <1>5, <1>6, <1>7 DEF ListenerStep, ListenerProgress

LEMMA ChangeIsOfFeed ==
  ASSUME MarkInv, NEW i \in Items, Change(i)
  PROVE  FeedStep
<1>1. ListenersTyped /\ SeqsTyped
  BY MarkParts
<1>2. docs' = docs /\ handled' = handled
      /\ \A j \in Items \ {i} : newest'[j] = newest[j]
  BY <1>1 DEF Change, processVars, SeqsTyped
<1>3. \A j \in Items \ {i} : j \in Behind' <=> j \in Behind
  BY <1>2 DEF Behind
<1>4. i \in Behind => i \in Behind'
  <2>1. newest[i] \in Nat /\ handled[i] \in Nat /\ newest'[i] = newest[i] + 1
    BY <1>1, ChangeListenersAssumption DEF Change, SeqsTyped
  <2> QED
    BY <1>2, <2>1 DEF Behind
<1>5. UnmarkedItems' \in {UnmarkedItems, UnmarkedItems \cup {i}}
  BY <1>2, <1>3, <1>4 DEF UnmarkedItems, Behind
<1>6. \A u \in Listeners : updates'[u] = updates[u] \cup {i} /\ batch'[u] = batch[u]
  BY <1>1 DEF Change, ListenersTyped
<1>7. Feed!Update(i)
  BY <1>5, <1>6 DEF Feed!Update, UnmarkedItems
<1> QED
  BY <1>7 DEF FeedStep, Feed!Next

LEMMA StepIsOfFeed ==
  ASSUME MarkInv, [Next]_vars
  PROVE  FeedStep
<1>1. CASE Engine(ProcessStep)
  <2>1. Effect
    BY <1>1, ProcessStepEffect, MarkParts DEF Engine
  <2>2. Behind' = Behind /\ UNCHANGED <<updates, batch>>
    BY <1>1 DEF Engine, listenerVars, seqVars, Behind
  <2> QED
    BY <2>1, <2>2, QuietStep DEF Effect
<1>2. ASSUME NEW w \in Workers, BatchStep(w) PROVE FeedStep
  <2>1. BatchWorks(w) \/ UnlockAndCleanListener(w)
    BY <1>2 DEF BatchStep, BatchWorks
  <2> QED
    BY <2>1, BatchIsOfFeed, CleanIsOfFeed
<1>3. CASE UNCHANGED vars
  <2>1. Behind' = Behind /\ docs' = docs /\ UNCHANGED <<updates, batch>>
    BY <1>3 DEF vars, processVars, Behind
  <2> QED
    BY <2>1, QuietStep
<1> QED
  BY <1>1, <1>2, <1>3, ListenerIsOfFeed, ChangeIsOfFeed DEF Next, ListenerStep

\* dirtyIfCleanOrLocked is to the update listeners what they take it for: when a
\* batch ends, the change listeners of its databases exist and are marked, and no
\* worker takes a mark away that some update listener has finished setting.
THEOREM DirtyingIsOfFeed ==
  ASSUME "api" \notin BatchFaults
  PROVE  Spec => ImplementsUpdateFeed
<1>1. Init => Feed!Init
  BY DEF Init, EngineInit, Feed!Init, Behind
<1>2. MarkInv /\ [Next]_vars => FeedStep
  BY StepIsOfFeed
<1> QED
  BY <1>1, <1>2, MarkInvariant, NothingIsRetried, PTL
  DEF Spec, ImplementsUpdateFeed, Feed!Spec, FeedStep

\* With failing requests it is so as long as a batch that is retried reads all the
\* changes there are (RetriesAreWhole).
THEOREM RetriesAreOfFeed ==
  ASSUME "retry" \notin BatchFaults
  PROVE  Spec /\ []RetriesAreWhole => ImplementsUpdateFeed
<1>1. Init => Feed!Init
  BY DEF Init, EngineInit, Feed!Init, Behind
<1>2. MarkInv /\ [Next]_vars => FeedStep
  BY StepIsOfFeed
<1>3. RetriesAreWritten
  BY DEF RetriesAreWritten
<1> QED
  BY <1>1, <1>2, <1>3, MarkInvariant, PTL
  DEF Spec, ImplementsUpdateFeed, Feed!Spec, FeedStep
=============================================================================
