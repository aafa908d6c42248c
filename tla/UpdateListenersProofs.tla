----------------------- MODULE UpdateListenersProofs -----------------------
(***************************************************************************)
(* For any number of databases and update listeners, any size of a batch    *)
(* and any bound on faults and updates:                                     *)
(*   FeedTyped            the type invariant                                *)
(*   UpdatesAreRead       no update is lost, unless a listener is stopped    *)
(*   StopAloneIsHarmless  nor if nothing else than a stop happens            *)
(*   OneFaultIsHarmless   nor by a single fault of any kind                  *)
(*   FeedIsImplemented    they implement UpdateFeed                         *)
(***************************************************************************)
EXTENDS UpdateListeners, TLAPS

\* The parameters of a listener's state after it has ended.
LEMMA ExitTyped ==
  ASSUME TypeOK, NEW u \in Listeners, Exit(u), faults' \in 0..MaxFaults,
         UNCHANGED <<feedVars, undirtied, saved>>
  PROVE  TypeOK'
  BY UpdateListenersAssumption DEF TypeOK, Exit, Reset, feedVars

LEMMA NextTyped == TypeOK /\ [Next]_vars => TypeOK'
<1> SUFFICES ASSUME TypeOK, [Next]_vars PROVE TypeOK'
  OBVIOUS
<1> USE UpdateListenersAssumption
<1>1. ASSUME NEW d \in DBs, Update(d) PROVE TypeOK'
  BY <1>1 DEF TypeOK, Update, batchVars
<1>2. ASSUME NEW u \in Listeners, Start(u) PROVE TypeOK'
  BY <1>2 DEF TypeOK, Start, feedVars, batchVars
<1>3. ASSUME NEW u \in Listeners, NEW d \in DBs, OnUpdate(u, d) PROVE TypeOK'
  <2>1. /\ updatedDBs' \in [Listeners -> SUBSET DBs]
        /\ lastSeq' \in [Listeners -> Nat]
        /\ timer' \in [Listeners -> BOOLEAN]
        /\ updateCount' \in [Listeners -> 0..(BatchSize - 1)]
        /\ pc' \in [Listeners -> {"idle", "replicators", "change_listeners", "saving"}]
        /\ caller' \in [Listeners -> {"none", "update", "timer"}]
    BY <1>3 DEF TypeOK, OnUpdate
  <2>2. \A v \in Listeners : pc'[v] = "idle" <=> caller'[v] = "none"
    BY <1>3 DEF TypeOK, OnUpdate
  <2>3. \A v \in Listeners : pc'[v] = "saving" => updatedDBs'[v] = {}
    BY <1>3 DEF TypeOK, OnUpdate
  <2>4. \A v \in Listeners : /\ lastSeq'[v] <= newest
                             /\ phase[v] = "down" =>
                                  pc'[v] = "idle" /\ ~timer'[v] /\ updatedDBs'[v] = {}
    BY <1>3 DEF TypeOK, OnUpdate
  <2> QED
    BY <1>3, <2>1, <2>2, <2>3, <2>4 DEF TypeOK, OnUpdate, feedVars
<1>4. ASSUME NEW u \in Listeners, TimerFires(u) PROVE TypeOK'
  BY <1>4 DEF TypeOK, TimerFires, feedVars
<1>5. ASSUME NEW u \in Listeners, ProcessBatch(u) PROVE TypeOK'
  BY <1>5 DEF TypeOK, ProcessBatch, feedVars, batchVars
<1>6. ASSUME NEW u \in Listeners, DirtyReplicators(u) PROVE TypeOK'
  <2>1. undirtied' \in [Types -> SUBSET DBs]
    BY <1>6 DEF TypeOK, DirtyReplicators, Dirtied
  <2>2. pc' = [pc EXCEPT ![u] = "change_listeners"] /\ pc[u] = "replicators"
    BY <1>6 DEF DirtyReplicators
  <2>3. \A v \in Listeners : /\ pc'[v] = "idle" <=> pc[v] = "idle"
                             /\ pc'[v] = "saving" <=> pc[v] = "saving"
    BY <2>2 DEF TypeOK
  <2> QED
    BY <1>6, <2>1, <2>2, <2>3 DEF TypeOK, DirtyReplicators, feedVars, batchVars
<1>7. ASSUME NEW u \in Listeners, DirtyChangeListeners(u) PROVE TypeOK'
  <2>1. undirtied' \in [Types -> SUBSET DBs]
    BY <1>7 DEF TypeOK, DirtyChangeListeners, Dirtied
  <2>2. /\ timer' = [timer EXCEPT ![u] = FALSE]
        /\ updateCount' = [updateCount EXCEPT ![u] = 0]
        /\ updatedDBs' = [updatedDBs EXCEPT ![u] = {}]
        /\ UNCHANGED <<updateSeq, newest, saved, phase, lastSeq, expired, faults>>
    BY <1>7 DEF DirtyChangeListeners, Reset, feedVars
  <2>3. /\ pc[u] = "change_listeners"
        /\ \/ pc' = [pc EXCEPT ![u] = "saving"] /\ UNCHANGED caller
           \/ pc' = [pc EXCEPT ![u] = "idle"] /\ caller' = [caller EXCEPT ![u] = "none"]
    BY <1>7 DEF DirtyChangeListeners
  <2>4. /\ \A v \in Listeners : pc'[v] = "idle" <=> caller'[v] = "none"
        /\ pc' \in [Listeners -> {"idle", "replicators", "change_listeners", "saving"}]
        /\ caller' \in [Listeners -> {"none", "update", "timer"}]
        /\ \A v \in Listeners : pc'[v] \in {"idle", "saving"} \/ v # u
        /\ \A v \in Listeners \ {u} : pc'[v] = pc[v]
        /\ phase[u] # "down"
    BY <2>3 DEF TypeOK
  <2>5. /\ timer' \in [Listeners -> BOOLEAN]
        /\ updateCount' \in [Listeners -> 0..(BatchSize - 1)]
        /\ updatedDBs' \in [Listeners -> SUBSET DBs]
        /\ ~timer'[u] /\ updatedDBs'[u] = {}
        /\ \A v \in Listeners \ {u} : timer'[v] = timer[v] /\ updatedDBs'[v] = updatedDBs[v]
    BY <2>2 DEF TypeOK
  <2>6. \A v \in Listeners :
          /\ pc'[v] = "saving" => updatedDBs'[v] = {}
          /\ phase[v] = "down" => pc'[v] = "idle" /\ ~timer'[v] /\ updatedDBs'[v] = {}
    BY <2>4, <2>5 DEF TypeOK
  <2> QED
    BY <2>1, <2>2, <2>4, <2>5, <2>6 DEF TypeOK
<1>8. ASSUME NEW u \in Listeners, SaveLastSeq(u) PROVE TypeOK'
  BY <1>8 DEF TypeOK, SaveLastSeq, feedVars, batchVars
<1>9. ASSUME NEW u \in Listeners, BatchFails(u) PROVE TypeOK'
  <2>1. faults' \in 0..MaxFaults
    BY <1>9 DEF TypeOK, BatchFails, Fault
  <2>2. CASE Exit(u)
    BY <1>9, <2>1, <2>2, ExitTyped DEF BatchFails
  <2>3. CASE ~Exit(u)
    BY <1>9, <2>1, <2>3 DEF TypeOK, BatchFails, feedVars, batchVars
  <2> QED
    BY <2>2, <2>3
<1>10. ASSUME NEW u \in Listeners, Crash(u) PROVE TypeOK'
  <2>1. faults' \in 0..MaxFaults
    BY <1>10 DEF TypeOK, Crash, Fault
  <2> QED
    BY <1>10, <2>1, ExitTyped DEF Crash
<1>11. ASSUME NEW u \in Listeners, Stop(u) PROVE TypeOK'
  BY <1>11 DEF TypeOK, Stop, Fault, feedVars, batchVars
<1>12. ASSUME NEW u \in Listeners, Stopped(u) PROVE TypeOK'
  <2>1. faults' \in 0..MaxFaults
    BY <1>12 DEF TypeOK, Stopped
  <2> QED
    BY <1>12, <2>1, ExitTyped DEF Stopped
<1>13. CASE UNCHANGED vars
  BY <1>13 DEF TypeOK, vars
<1> QED
  BY <1>1, <1>2, <1>3, <1>4, <1>5, <1>6, <1>7, <1>8, <1>9, <1>10, <1>11, <1>12, <1>13
  DEF Next, Handle

LEMMA InitTyped == Init => TypeOK
  BY UpdateListenersAssumption DEF Init, TypeOK, Types

\* Every variable of the update listeners keeps its type, and a batch its shape.
THEOREM FeedTyped == Spec => []TypeOK
<1>1. Init => TypeOK
  BY InitTyped
<1>2. TypeOK /\ [Next]_vars => TypeOK'
  BY NextTyped
<1> QED
  BY <1>1, <1>2, PTL DEF Spec

-----------------------------------------------------------------------------
(* No update is lost: NothingSkipped and ReplicatorsFirst are inductive     *)
(* together, as long as nobody saves a seq before its batch is processed.   *)

FeedInv == TypeOK /\ NothingSkipped /\ ReplicatorsFirst

SomeStop    == \E u \in Listeners : Stop(u)
SomeFailure == \E u \in Listeners : BatchFails(u) \/ Crash(u)

\* What the hypotheses on the faults exclude.
LEMMA Faultless ==
  /\ "stop" \notin Faults \/ faults = MaxFaults => ~SomeStop
  /\ Faults \subseteq {"stop"} \/ faults = MaxFaults => ~SomeFailure
  BY UpdateListenersAssumption DEF SomeStop, SomeFailure, Stop, BatchFails, Crash, Fault

\* A step that reads nothing, dirties nothing less and saves nothing.
LEMMA FeedFrame ==
  ASSUME TypeOK, NothingSkipped, ReplicatorsFirst,
         UNCHANGED <<updateSeq, undirtied, saved>>,
         \A u \in Listeners :
            \/ UNCHANGED <<phase[u], lastSeq[u], updatedDBs[u]>>
            \/ phase'[u] = "down" /\ pc'[u] = "idle",
         \A u \in Listeners : pc'[u] \in {pc[u], "idle", "replicators"}
  PROVE  NothingSkipped' /\ ReplicatorsFirst'
<1>1. NothingSkipped'
  BY DEF NothingSkipped
<1>2. ReplicatorsFirst'
  BY DEF ReplicatorsFirst, Covered
<1> QED
  BY <1>1, <1>2

LEMMA FeedStep ==
  ASSUME FeedInv, [Next]_vars, ~SomeStop
  PROVE  NothingSkipped' /\ ReplicatorsFirst'
<1>1. TypeOK /\ NothingSkipped /\ ReplicatorsFirst
  BY DEF FeedInv
<1>2. ASSUME NEW d \in DBs, Update(d) PROVE NothingSkipped' /\ ReplicatorsFirst'
  <2>1. /\ updateSeq'[d] = newest + 1
        /\ \A e \in DBs \ {d} : updateSeq'[e] = updateSeq[e]
        /\ \A t \in Types : undirtied'[t] = undirtied[t] \cup {d}
        /\ UNCHANGED <<saved, phase, lastSeq, updatedDBs, pc>>
    BY <1>1, <1>2 DEF TypeOK, Update, batchVars
  <2>2. newest + 1 > saved /\ \A u \in Listeners : newest + 1 > lastSeq[u]
    BY <1>1 DEF TypeOK
  <2>3. NothingSkipped'
    BY <1>1, <2>1, <2>2 DEF TypeOK, NothingSkipped
  <2>4. ReplicatorsFirst'
    <3> SUFFICES ASSUME NEW u \in Listeners, pc[u] \in {"change_listeners", "saving"},
                        NEW e \in undirtied'["replicator"], e \in Covered(u)'
                 PROVE  FALSE
      BY <2>1 DEF ReplicatorsFirst
    <3>1. e # d
      BY <1>1, <2>1, <2>2 DEF TypeOK, Covered
    <3>2. e \in undirtied["replicator"] /\ e \in Covered(u)
      BY <1>1, <2>1, <3>1 DEF TypeOK, Covered, Types
    <3> QED
      BY <1>1, <3>2 DEF ReplicatorsFirst
  <2> QED
    BY <2>3, <2>4
<1>3. ASSUME NEW u \in Listeners, Start(u) PROVE NothingSkipped' /\ ReplicatorsFirst'
  <2>1. /\ UNCHANGED <<updateSeq, undirtied, saved, updatedDBs, pc>>
        /\ lastSeq'[u] = saved /\ pc[u] = "idle"
        /\ \A v \in Listeners \ {u} : lastSeq'[v] = lastSeq[v] /\ phase'[v] = phase[v]
    BY <1>1, <1>3 DEF TypeOK, Start, feedVars, batchVars
  <2>2. NothingSkipped'
    BY <1>1, <2>1 DEF NothingSkipped
  <2>3. ReplicatorsFirst'
    BY <1>1, <2>1 DEF ReplicatorsFirst, Covered
  <2> QED
    BY <2>2, <2>3
<1>4. ASSUME NEW u \in Listeners, NEW d \in DBs, OnUpdate(u, d)
      PROVE NothingSkipped' /\ ReplicatorsFirst'
  <2>1. /\ UNCHANGED <<updateSeq, undirtied, saved, phase>>
        /\ lastSeq'[u] = updateSeq[d] /\ updatedDBs'[u] = updatedDBs[u] \cup {d}
        /\ pc'[u] \in {"idle", "replicators"}
        /\ \A v \in Listeners \ {u} : /\ lastSeq'[v] = lastSeq[v] /\ pc'[v] = pc[v]
                                      /\ updatedDBs'[v] = updatedDBs[v]
        /\ phase[u] = "listening"
    BY <1>1, <1>4 DEF TypeOK, OnUpdate, feedVars
  <2>2. \A e \in DBs \ {d} : updateSeq[e] > lastSeq[u] => updateSeq[e] > updateSeq[d]
    BY <1>4 DEF OnUpdate, NextUpdate
  <2>3. NothingSkipped'
    BY <1>1, <2>1, <2>2 DEF TypeOK, NothingSkipped
  <2>4. ReplicatorsFirst'
    BY <1>1, <2>1 DEF ReplicatorsFirst, Covered
  <2> QED
    BY <2>3, <2>4
<1>5. ASSUME NEW u \in Listeners, TimerFires(u) \/ ProcessBatch(u)
      PROVE NothingSkipped' /\ ReplicatorsFirst'
  <2>1. /\ UNCHANGED <<updateSeq, undirtied, saved, phase, lastSeq, updatedDBs>>
        /\ \A v \in Listeners : pc'[v] \in {pc[v], "idle", "replicators"}
    BY <1>1, <1>5 DEF TypeOK, TimerFires, ProcessBatch, feedVars, batchVars
  <2> QED
    BY <1>1, <2>1, FeedFrame
<1>6. ASSUME NEW u \in Listeners, DirtyReplicators(u) PROVE NothingSkipped' /\ ReplicatorsFirst'
  <2>1. /\ UNCHANGED <<updateSeq, saved, phase, lastSeq, updatedDBs>>
        /\ undirtied'["replicator"] = undirtied["replicator"] \ Covered(u)
        /\ \A t \in Types : undirtied'[t] \subseteq undirtied[t]
        /\ \A v \in Listeners \ {u} : pc'[v] = pc[v]
    BY <1>1, <1>6 DEF TypeOK, DirtyReplicators, Dirtied, Types, feedVars, batchVars
  <2>2. NothingSkipped'
    BY <1>1, <2>1 DEF NothingSkipped
  <2>3. ReplicatorsFirst'
    BY <1>1, <2>1 DEF ReplicatorsFirst, Covered
  <2> QED
    BY <2>2, <2>3
<1>7. ASSUME NEW u \in Listeners, DirtyChangeListeners(u)
      PROVE NothingSkipped' /\ ReplicatorsFirst'
  <2>1. /\ UNCHANGED <<updateSeq, saved, phase, lastSeq>>
        /\ undirtied'["change_listener"] = undirtied["change_listener"] \ Covered(u)
        /\ undirtied'["replicator"] = undirtied["replicator"]
        /\ \A t \in Types : undirtied'[t] \subseteq undirtied[t]
        /\ updatedDBs'[u] = {} /\ pc[u] = "change_listeners"
        /\ \A v \in Listeners \ {u} : pc'[v] = pc[v] /\ updatedDBs'[v] = updatedDBs[v]
    BY <1>1, <1>7 DEF TypeOK, DirtyChangeListeners, Dirtied, Reset, Types, feedVars
  <2>2. \A t \in Types : undirtied'[t] \cap Covered(u) = {}
    BY <1>1, <2>1 DEF ReplicatorsFirst, Types
  <2>3. NothingSkipped'
    BY <1>1, <2>1, <2>2 DEF TypeOK, NothingSkipped, Covered
  <2>4. ReplicatorsFirst'
    BY <1>1, <2>1 DEF ReplicatorsFirst, Covered
  <2> QED
    BY <2>3, <2>4
<1>8. ASSUME NEW u \in Listeners, SaveLastSeq(u) PROVE NothingSkipped' /\ ReplicatorsFirst'
  <2>1. /\ UNCHANGED <<updateSeq, undirtied, phase, lastSeq, updatedDBs>>
        /\ saved' = lastSeq[u] /\ updatedDBs[u] = {} /\ phase[u] # "down"
        /\ \A v \in Listeners : pc'[v] \in {pc[v], "idle"}
    BY <1>1, <1>8 DEF TypeOK, SaveLastSeq, feedVars, batchVars
  <2>2. NothingSkipped'
    BY <1>1, <2>1 DEF NothingSkipped
  <2>3. ReplicatorsFirst'
    BY <1>1, <2>1 DEF ReplicatorsFirst, Covered
  <2> QED
    BY <2>2, <2>3
<1>9. ASSUME NEW u \in Listeners, BatchFails(u) \/ Crash(u) \/ Stopped(u)
      PROVE NothingSkipped' /\ ReplicatorsFirst'
  <2>1. /\ UNCHANGED <<updateSeq, undirtied, saved>>
        /\ pc'[u] = "idle"
        /\ \/ phase'[u] = "down"
           \/ UNCHANGED <<phase[u], lastSeq[u], updatedDBs[u]>>
        /\ \A v \in Listeners \ {u} : UNCHANGED <<phase[v], lastSeq[v], updatedDBs[v], pc[v]>>
    BY <1>1, <1>9 DEF TypeOK, BatchFails, Crash, Stopped, Exit, Reset, feedVars, batchVars
  <2> QED
    BY <1>1, <2>1, FeedFrame
<1>10. ASSUME NEW u \in Listeners, Stop(u) PROVE FALSE
  BY <1>10 DEF SomeStop
<1>11. CASE UNCHANGED vars
  BY <1>1, <1>11, FeedFrame DEF vars
<1> QED
  BY <1>2, <1>3, <1>4, <1>5, <1>6, <1>7, <1>8, <1>9, <1>10, <1>11 DEF Next, Handle

LEMMA InitFeed == Init => FeedInv
<1>1. Init => NothingSkipped /\ ReplicatorsFirst
  BY DEF Init, NothingSkipped, ReplicatorsFirst, Types
<1> QED
  BY <1>1, InitTyped DEF FeedInv

\* No listener reads past an update, nor saves a seq past it, unless it has dirtied
\* the items or has the database in its batch: through crashes, failed requests
\* and any order of several listeners that save the same lastSeq.
THEOREM SeqsSkipNothing == "stop" \notin Faults /\ Spec => []NothingSkipped
<1> SUFFICES ASSUME "stop" \notin Faults PROVE Spec => []NothingSkipped
  OBVIOUS
<1>1. Init => FeedInv
  BY InitFeed
<1>2. FeedInv /\ [Next]_vars => FeedInv'
  BY FeedStep, NextTyped, Faultless DEF FeedInv
<1>3. FeedInv => NothingSkipped
  BY DEF FeedInv
<1> QED
  BY <1>1, <1>2, <1>3, PTL DEF Spec

\* No update is lost through crashes, failed requests and any order of several
\* listeners.  A stopped listener is excluded: stop() saves the seq of a batch it
\* has not processed.
THEOREM UpdatesAreRead == "stop" \notin Faults /\ Spec => []NoUpdateLost
<1>1. NothingSkipped => NoUpdateLost
  BY DEF NothingSkipped, NoUpdateLost
<1> QED
  BY <1>1, SeqsSkipNothing, PTL

-----------------------------------------------------------------------------
(* A listener that is stopped saves a seq past its batch, so that neither   *)
(* NothingSkipped nor SavedIsBehind holds.  Alone that does no harm: the    *)
(* batch has a timer or is being processed, and the process does not end    *)
(* before.                                                                 *)

InSomeBatch(d) == \E v \in Listeners : d \in Covered(v)
BeforeAll(d)   == /\ updateSeq[d] > saved
                  /\ \A u \in Listeners : phase[u] # "down" => updateSeq[d] > lastSeq[u]

BatchedOrUnread == \A t \in Types : \A d \in undirtied[t] : InSomeBatch(d) \/ BeforeAll(d)

\* Something will process the batch of a listener.
Timed(u) == timer[u] \/ expired[u] \/ pc[u] \in {"replicators", "change_listeners"}

BatchIsTimed ==
  \A u \in Listeners : updateCount[u] # 0 \/ updatedDBs[u] # {} => Timed(u)

StopInv == TypeOK /\ ReplicatorsFirst /\ BatchedOrUnread /\ BatchIsTimed

LEMMA TimedKept ==
  ASSUME TypeOK, BatchIsTimed, [Next]_vars, ~SomeFailure
  PROVE  BatchIsTimed'
<1>1. ASSUME NEW u \in Listeners, NEW d \in DBs, OnUpdate(u, d) PROVE BatchIsTimed'
  <2>1. /\ \A v \in Listeners \ {u} : /\ updateCount'[v] = updateCount[v]
                                      /\ updatedDBs'[v] = updatedDBs[v]
                                      /\ timer'[v] = timer[v] /\ pc'[v] = pc[v]
        /\ UNCHANGED expired
    BY <1>1 DEF TypeOK, OnUpdate
  <2>2. timer'[u] = (timer[u] \/ updateCount[u] = 0) /\ pc[u] = "idle" /\ ~expired[u]
    BY <1>1 DEF TypeOK, OnUpdate
  <2>3. timer'[u]
    BY <2>2 DEF BatchIsTimed, Timed
  <2> QED
    BY <2>1, <2>3 DEF BatchIsTimed, Timed
<1>2. ASSUME NEW u \in Listeners, TimerFires(u) \/ ProcessBatch(u) PROVE BatchIsTimed'
  <2>1. /\ \A v \in Listeners \ {u} : /\ expired'[v] = expired[v]
                                      /\ timer'[v] = timer[v] /\ pc'[v] = pc[v]
        /\ expired'[u] \/ pc'[u] = "replicators"
        /\ UNCHANGED <<updateCount, updatedDBs>>
    BY <1>2 DEF TypeOK, TimerFires, ProcessBatch, batchVars
  <2> QED
    BY <2>1 DEF BatchIsTimed, Timed
<1>3. ASSUME NEW u \in Listeners, DirtyReplicators(u) \/ SaveLastSeq(u) PROVE BatchIsTimed'
  <2>1. /\ \A v \in Listeners \ {u} : pc'[v] = pc[v]
        /\ pc'[u] = "change_listeners" \/ pc[u] = "saving"
        /\ UNCHANGED <<updateCount, updatedDBs, timer, expired>>
    BY <1>3 DEF TypeOK, DirtyReplicators, SaveLastSeq, batchVars
  <2> QED
    BY <2>1 DEF BatchIsTimed, Timed
<1>4. ASSUME NEW u \in Listeners, DirtyChangeListeners(u) \/ Stopped(u) PROVE BatchIsTimed'
  <2>1. /\ updateCount'[u] = 0 /\ updatedDBs'[u] = {}
        /\ \A v \in Listeners \ {u} :
             UNCHANGED <<updateCount[v], updatedDBs[v], timer[v], expired[v], pc[v]>>
    BY <1>4 DEF TypeOK, DirtyChangeListeners, Stopped, Exit, Reset
  <2> QED
    BY <2>1 DEF BatchIsTimed, Timed
<1>5. ASSUME \/ \E d \in DBs : Update(d)
             \/ \E u \in Listeners : Start(u) \/ Stop(u)
             \/ UNCHANGED vars
      PROVE  BatchIsTimed'
  <2>1. UNCHANGED <<updateCount, updatedDBs, timer, expired, pc>>
    BY <1>5 DEF Update, Start, Stop, batchVars, vars
  <2> QED
    BY <2>1 DEF BatchIsTimed, Timed
<1>6. ASSUME NEW u \in Listeners, BatchFails(u) \/ Crash(u) PROVE FALSE
  BY <1>6 DEF SomeFailure
<1> QED
  BY <1>1, <1>2, <1>3, <1>4, <1>5, <1>6 DEF Next, Handle

\* A step that reads nothing and saves nothing; who starts or ends has no batch.
LEMMA UnreadKept ==
  ASSUME BatchedOrUnread, UNCHANGED <<updateSeq, undirtied, saved>>,
         \A u \in Listeners :
            \/ UNCHANGED <<lastSeq[u], updatedDBs[u]>> /\ (phase'[u] # "down" => phase[u] # "down")
            \/ updatedDBs[u] = {} /\ lastSeq'[u] = saved
            \/ updatedDBs[u] = {} /\ phase'[u] = "down"
  PROVE  BatchedOrUnread'
<1> SUFFICES ASSUME NEW t \in Types, NEW d \in undirtied[t]
             PROVE  InSomeBatch(d)' \/ BeforeAll(d)'
  BY DEF BatchedOrUnread
<1>1. CASE InSomeBatch(d)
  BY <1>1 DEF InSomeBatch, Covered
<1>2. CASE BeforeAll(d)
  BY <1>2 DEF BeforeAll
<1> QED
  BY <1>1, <1>2 DEF BatchedOrUnread

LEMMA StopStep ==
  ASSUME StopInv, [Next]_vars, ~SomeFailure
  PROVE  BatchedOrUnread' /\ ReplicatorsFirst'
<1>1. TypeOK /\ ReplicatorsFirst /\ BatchedOrUnread /\ BatchIsTimed
  BY DEF StopInv
<1>2. ASSUME NEW d \in DBs, Update(d) PROVE BatchedOrUnread' /\ ReplicatorsFirst'
  <2>1. /\ updateSeq'[d] = newest + 1
        /\ \A e \in DBs \ {d} : updateSeq'[e] = updateSeq[e]
        /\ \A t \in Types : undirtied'[t] = undirtied[t] \cup {d}
        /\ UNCHANGED <<saved, phase, lastSeq, updatedDBs, pc>>
    BY <1>1, <1>2 DEF TypeOK, Update, batchVars
  <2>2. newest + 1 > saved /\ \A u \in Listeners : newest + 1 > lastSeq[u]
    BY <1>1 DEF TypeOK
  <2>3. BeforeAll(d)'
    BY <2>1, <2>2 DEF BeforeAll
  <2>4. ASSUME NEW t \in Types, NEW e \in undirtied'[t], e # d
        PROVE  InSomeBatch(e)' \/ BeforeAll(e)'
    <3>1. e \in DBs /\ updateSeq'[e] = updateSeq[e] /\ (InSomeBatch(e) \/ BeforeAll(e))
      BY <1>1, <2>1, <2>4 DEF TypeOK, BatchedOrUnread
    <3> QED
      BY <2>1, <3>1 DEF InSomeBatch, BeforeAll, Covered
  <2>5. ReplicatorsFirst'
    <3> SUFFICES ASSUME NEW u \in Listeners, pc[u] \in {"change_listeners", "saving"},
                        NEW e \in undirtied'["replicator"], e \in Covered(u)'
                 PROVE  FALSE
      BY <2>1 DEF ReplicatorsFirst
    <3>1. e # d
      BY <1>1, <2>1, <2>2 DEF TypeOK, Covered
    <3>2. e \in undirtied["replicator"] /\ e \in Covered(u)
      BY <1>1, <2>1, <3>1 DEF TypeOK, Covered, Types
    <3> QED
      BY <1>1, <3>2 DEF ReplicatorsFirst
  <2> QED
    BY <2>3, <2>4, <2>5 DEF BatchedOrUnread
<1>3. ASSUME NEW u \in Listeners, NEW d \in DBs, OnUpdate(u, d)
      PROVE  BatchedOrUnread' /\ ReplicatorsFirst'
  <2>1. /\ UNCHANGED <<updateSeq, undirtied, saved, phase>>
        /\ lastSeq'[u] = updateSeq[d] /\ updatedDBs'[u] = updatedDBs[u] \cup {d}
        /\ pc'[u] \in {"idle", "replicators"}
        /\ \A v \in Listeners \ {u} : /\ lastSeq'[v] = lastSeq[v] /\ pc'[v] = pc[v]
                                      /\ updatedDBs'[v] = updatedDBs[v]
    BY <1>1, <1>3 DEF TypeOK, OnUpdate, feedVars
  <2>2. /\ updateSeq[d] > lastSeq[u]
        /\ \A e \in DBs \ {d} : updateSeq[e] > lastSeq[u] => updateSeq[e] > updateSeq[d]
    BY <1>3 DEF OnUpdate, NextUpdate
  <2>3. ASSUME NEW t \in Types, NEW e \in undirtied[t]
        PROVE  InSomeBatch(e)' \/ BeforeAll(e)'
    <3>1. e \in DBs /\ updateSeq[e] \in Nat /\ updateSeq[d] \in Nat /\ lastSeq[u] \in Nat
      BY <1>1 DEF TypeOK
    <3>2. CASE e = d
      <4>1. d \in Covered(u)'
        BY <2>1, <3>1 DEF Covered
      <4> QED
        BY <3>2, <4>1 DEF InSomeBatch
    <3>3. CASE InSomeBatch(e)
      <4>1. PICK v \in Listeners : e \in Covered(v)
        BY <3>3 DEF InSomeBatch
      <4>2. e \in Covered(v)'
        BY <2>1, <2>2, <3>1, <4>1 DEF Covered
      <4> QED
        BY <4>2 DEF InSomeBatch
    <3>4. CASE BeforeAll(e) /\ e # d
      BY <1>3, <2>1, <2>2, <3>1, <3>4 DEF BeforeAll, OnUpdate
    <3> QED
      BY <1>1, <3>2, <3>3, <3>4 DEF BatchedOrUnread
  <2>4. ReplicatorsFirst'
    BY <1>1, <2>1 DEF ReplicatorsFirst, Covered
  <2> QED
    BY <2>1, <2>3, <2>4 DEF BatchedOrUnread
<1>4. ASSUME NEW u \in Listeners,
             Start(u) \/ TimerFires(u) \/ ProcessBatch(u) \/ Stopped(u)
      PROVE  BatchedOrUnread' /\ ReplicatorsFirst'
  <2>1. /\ UNCHANGED <<updateSeq, undirtied, saved>>
        /\ \A v \in Listeners \ {u} : UNCHANGED <<phase[v], lastSeq[v], updatedDBs[v], pc[v]>>
        /\ pc'[u] \in {pc[u], "idle", "replicators"}
    BY <1>1, <1>4 DEF TypeOK, Start, TimerFires, ProcessBatch, Stopped, Exit, Reset,
                      feedVars, batchVars
  <2>2. CASE Start(u) \/ TimerFires(u) \/ ProcessBatch(u)
    <3>1. /\ updatedDBs'[u] = updatedDBs[u]
          /\ \/ lastSeq'[u] = lastSeq[u] /\ phase'[u] = phase[u]
             \/ updatedDBs[u] = {} /\ lastSeq'[u] = saved /\ pc[u] = "idle" /\ pc'[u] = "idle"
      BY <1>1, <2>2 DEF TypeOK, Start, TimerFires, ProcessBatch, batchVars
    <3>2. BatchedOrUnread'
      BY <1>1, <2>1, <3>1, UnreadKept
    <3>3. ReplicatorsFirst'
      BY <1>1, <2>1, <3>1 DEF ReplicatorsFirst, Covered
    <3> QED
      BY <3>2, <3>3
  <2>3. CASE Stopped(u)
    <3>1. updatedDBs[u] = {}
      BY <1>1, <2>3 DEF Stopped, BatchIsTimed, Timed
    <3>2. phase'[u] = "down" /\ pc'[u] = "idle"
      BY <1>1, <2>3 DEF TypeOK, Stopped, Exit
    <3>3. BatchedOrUnread'
      BY <1>1, <2>1, <3>1, <3>2, UnreadKept
    <3>4. ReplicatorsFirst'
      BY <1>1, <2>1, <3>2 DEF ReplicatorsFirst, Covered
    <3> QED
      BY <3>3, <3>4
  <2> QED
    BY <1>4, <2>2, <2>3
<1>5. ASSUME NEW u \in Listeners, DirtyReplicators(u) \/ DirtyChangeListeners(u)
      PROVE  BatchedOrUnread' /\ ReplicatorsFirst'
  <2>1. /\ UNCHANGED <<updateSeq, saved, phase, lastSeq>>
        /\ \A t \in Types : undirtied'[t] \subseteq undirtied[t]
        /\ \A v \in Listeners \ {u} : pc'[v] = pc[v] /\ updatedDBs'[v] = updatedDBs[v]
        /\ updatedDBs'[u] \in {updatedDBs[u], {}}
    BY <1>1, <1>5 DEF TypeOK, DirtyReplicators, DirtyChangeListeners, Dirtied, Reset, Types,
                      feedVars, batchVars
  <2>2. updatedDBs'[u] = {} => \A t \in Types : undirtied'[t] \cap Covered(u) = {}
    <3>1. CASE DirtyReplicators(u)
      BY <3>1 DEF DirtyReplicators, batchVars, Covered
    <3>2. CASE DirtyChangeListeners(u)
      <4>1. /\ undirtied'["change_listener"] = undirtied["change_listener"] \ Covered(u)
            /\ undirtied'["replicator"] = undirtied["replicator"]
            /\ pc[u] = "change_listeners"
        BY <1>1, <3>2 DEF TypeOK, DirtyChangeListeners, Dirtied, Types
      <4> QED
        BY <1>1, <4>1 DEF ReplicatorsFirst, Types
    <3> QED
      BY <1>5, <3>1, <3>2
  <2>3. ASSUME NEW t \in Types, NEW e \in undirtied'[t]
        PROVE  InSomeBatch(e)' \/ BeforeAll(e)'
    <3>1. InSomeBatch(e) \/ BeforeAll(e)
      BY <1>1, <2>1 DEF BatchedOrUnread
    <3>2. CASE BeforeAll(e)
      BY <2>1, <3>2 DEF BeforeAll
    <3>3. ASSUME NEW v \in Listeners, e \in Covered(v) PROVE e \in Covered(v)'
      BY <2>1, <2>2, <3>3 DEF Covered
    <3> QED
      BY <3>1, <3>2, <3>3 DEF InSomeBatch
  <2>4. ReplicatorsFirst'
    <3>1. CASE DirtyReplicators(u)
      <4>1. /\ undirtied'["replicator"] = undirtied["replicator"] \ Covered(u)
            /\ UNCHANGED updatedDBs
        BY <1>1, <3>1 DEF TypeOK, DirtyReplicators, Dirtied, Types, batchVars
      <4> QED
        BY <1>1, <2>1, <4>1 DEF ReplicatorsFirst, Covered
    <3>2. CASE DirtyChangeListeners(u)
      <4>1. updatedDBs'[u] = {}
        BY <1>1, <3>2 DEF TypeOK, DirtyChangeListeners, Reset
      <4> QED
        BY <1>1, <2>1, <4>1 DEF ReplicatorsFirst, Covered, Types
    <3> QED
      BY <1>5, <3>1, <3>2
  <2> QED
    BY <2>3, <2>4 DEF BatchedOrUnread
<1>6. ASSUME NEW u \in Listeners, SaveLastSeq(u) \/ Stop(u)
      PROVE  BatchedOrUnread' /\ ReplicatorsFirst'
  <2>1. /\ UNCHANGED <<updateSeq, undirtied, lastSeq, updatedDBs>>
        /\ saved' = lastSeq[u] /\ phase[u] # "down"
        /\ \A v \in Listeners : /\ phase'[v] # "down" => phase[v] # "down"
                                /\ pc'[v] \in {pc[v], "idle"}
    BY <1>1, <1>6 DEF TypeOK, SaveLastSeq, Stop, feedVars, batchVars
  <2>2. BatchedOrUnread'
    BY <1>1, <2>1 DEF BatchedOrUnread, InSomeBatch, BeforeAll, Covered
  <2>3. ReplicatorsFirst'
    BY <1>1, <2>1 DEF ReplicatorsFirst, Covered
  <2> QED
    BY <2>2, <2>3
<1>7. ASSUME NEW u \in Listeners, BatchFails(u) \/ Crash(u) PROVE FALSE
  BY <1>7 DEF SomeFailure
<1>8. CASE UNCHANGED vars
  <2>1. BatchedOrUnread'
    BY <1>1, <1>8 DEF vars, BatchedOrUnread, InSomeBatch, BeforeAll, Covered
  <2>2. ReplicatorsFirst'
    BY <1>1, <1>8 DEF vars, ReplicatorsFirst, Covered
  <2> QED
    BY <2>1, <2>2
<1> QED
  BY <1>2, <1>3, <1>4, <1>5, <1>6, <1>7, <1>8 DEF Next, Handle

LEMMA InitTimed == Init => BatchedOrUnread /\ BatchIsTimed
  BY DEF Init, BatchedOrUnread, BatchIsTimed, Types

LEMMA UnskippedOrBatched ==
  ASSUME TypeOK, NothingSkipped
  PROVE  BatchedOrUnread
<1> SUFFICES ASSUME NEW t \in Types, NEW d \in undirtied[t], ~InSomeBatch(d)
             PROVE  BeforeAll(d)
  BY DEF BatchedOrUnread
<1>1. d \in DBs /\ updateSeq[d] \in Nat /\ updateSeq[d] > saved
  BY DEF TypeOK, NothingSkipped
<1>2. ASSUME NEW u \in Listeners, phase[u] # "down" PROVE updateSeq[d] > lastSeq[u]
  <2>1. lastSeq[u] \in Nat
    BY DEF TypeOK
  <2>2. updateSeq[d] > lastSeq[u] \/ d \in updatedDBs[u]
    BY <1>2 DEF NothingSkipped
  <2>3. d \notin Covered(u)
    BY DEF InSomeBatch
  <2> QED
    BY <1>1, <2>1, <2>2, <2>3 DEF Covered
<1> QED
  BY <1>1, <1>2 DEF BeforeAll

LEMMA BatchedIsNotLost == BatchedOrUnread => NoUpdateLost
  BY DEF BatchedOrUnread, InSomeBatch, BeforeAll, Covered, NoUpdateLost, WillHandle

\* stop() alone loses no update, however often and however many listeners are
\* stopped: the batch whose seq it has saved too early is dirtied before the process
\* ends.
THEOREM StopAloneIsHarmless == Faults \subseteq {"stop"} /\ Spec => []NoUpdateLost
<1> SUFFICES ASSUME Faults \subseteq {"stop"} PROVE Spec => []NoUpdateLost
  OBVIOUS
<1>1. Init => StopInv
  BY InitFeed, InitTimed DEF FeedInv, StopInv
<1>2. StopInv /\ [Next]_vars => StopInv'
  BY StopStep, TimedKept, NextTyped, Faultless DEF StopInv
<1>3. StopInv => NoUpdateLost
  BY BatchedIsNotLost DEF StopInv
<1> QED
  BY <1>1, <1>2, <1>3, PTL DEF Spec

\* Before the first fault both arguments hold, afterwards one of them.
OneFaultInv == \/ faults = 0 /\ FeedInv /\ BatchIsTimed
               \/ faults = 1 /\ FeedInv
               \/ faults = 1 /\ StopInv

LEMMA FaultsCounted ==
  ASSUME TypeOK, [Next]_vars
  PROVE  IF SomeStop \/ SomeFailure THEN faults' = faults + 1 ELSE faults' = faults
<1>1. CASE SomeStop \/ SomeFailure
  BY <1>1 DEF SomeStop, SomeFailure, Stop, BatchFails, Crash, Fault
<1>2. CASE ~(SomeStop \/ SomeFailure)
  <2>1. ASSUME NEW u \in Listeners, Handle(u) PROVE faults' = faults
    BY <2>1 DEF Handle, OnUpdate, ProcessBatch, DirtyReplicators, DirtyChangeListeners, SaveLastSeq
  <2>2. ASSUME NEW u \in Listeners, Start(u) \/ TimerFires(u) \/ Stopped(u)
        PROVE  faults' = faults
    BY <2>2 DEF Start, TimerFires, Stopped
  <2>3. ASSUME NEW d \in DBs, Update(d) PROVE faults' = faults
    BY <2>3 DEF Update
  <2>4. UNCHANGED vars => faults' = faults
    BY DEF vars
  <2>5. faults' = faults
    BY <1>2, <2>1, <2>2, <2>3, <2>4 DEF Next, SomeStop, SomeFailure
  <2> QED
    BY <1>2, <2>5
<1> QED
  BY <1>1, <1>2

\* One fault of any kind loses no update, a stop or a failure at any point of a batch
\* and of any listener: it takes both to lose one.
THEOREM OneFaultIsHarmless == MaxFaults <= 1 /\ Spec => []NoUpdateLost
<1> SUFFICES ASSUME MaxFaults <= 1 PROVE Spec => []NoUpdateLost
  OBVIOUS
<1>1. Init => OneFaultInv
  BY InitFeed, InitTimed DEF OneFaultInv, Init
<1>2. OneFaultInv /\ [Next]_vars => OneFaultInv'
  <2> SUFFICES ASSUME OneFaultInv, [Next]_vars PROVE OneFaultInv'
    OBVIOUS
  <2>1. TypeOK /\ TypeOK' /\ faults \in {0, 1} /\ faults' \in {0, 1}
    <3>1. TypeOK
      BY DEF OneFaultInv, FeedInv, StopInv
    <3>2. TypeOK'
      BY <3>1, NextTyped
    <3> QED
      BY <3>1, <3>2, UpdateListenersAssumption DEF TypeOK
  <2>2. FeedInv /\ ~SomeStop => FeedInv'
    BY <2>1, FeedStep DEF FeedInv
  <2>3. StopInv /\ ~SomeFailure => StopInv'
    BY <2>1, StopStep, TimedKept DEF StopInv
  <2>4. FeedInv /\ BatchIsTimed => StopInv
    BY <2>1, UnskippedOrBatched DEF FeedInv, StopInv
  <2>5. IF SomeStop \/ SomeFailure THEN faults = 0 /\ faults' = 1 ELSE faults' = faults
    BY <2>1, FaultsCounted
  <2>6. CASE SomeFailure /\ ~SomeStop
    BY <2>2, <2>5, <2>6 DEF OneFaultInv
  <2>7. CASE SomeStop /\ ~SomeFailure
    BY <2>3, <2>4, <2>5, <2>7 DEF OneFaultInv
  <2>8. CASE ~SomeStop /\ ~SomeFailure
    <3>1. BatchIsTimed => BatchIsTimed'
      BY <2>1, <2>8, TimedKept
    <3> QED
      BY <2>2, <2>3, <2>5, <2>8, <3>1 DEF OneFaultInv
  <2>9. CASE SomeStop /\ SomeFailure
    <3>1. PICK u \in Listeners : Stop(u)
      BY <2>9 DEF SomeStop
    <3>2. PICK v \in Listeners : BatchFails(v) \/ Crash(v)
      BY <2>9 DEF SomeFailure
    <3>3. phase'[u] = "stopping" /\ phase[u] = "listening"
      BY <2>1, <3>1 DEF Stop, TypeOK
    <3>4. phase'[u] \in {phase[u], "down"}
      BY <2>1, <3>2 DEF BatchFails, Crash, Exit, TypeOK
    <3> QED
      BY <3>3, <3>4
  <2> QED
    BY <2>6, <2>7, <2>8, <2>9
<1>3. OneFaultInv => NoUpdateLost
  BY BatchedIsNotLost, UnskippedOrBatched DEF OneFaultInv, FeedInv, StopInv
<1> QED
  BY <1>1, <1>2, <1>3, PTL DEF Spec

-----------------------------------------------------------------------------
(* The update listeners implement UpdateFeed: what each step does to what   *)
(* the listeners have open, then the invariant, then one step per action.   *)

LEMMA OpenTyped ==
  ASSUME TypeOK, NEW u \in Listeners
  PROVE  Open(u) \subseteq DBs
  BY DEF TypeOK, Open, After

\* An update is open for everybody, and no other update is moved.
LEMMA OpenAfterUpdate ==
  ASSUME TypeOK, NEW d \in DBs, Update(d)
  PROVE  /\ \A u \in Listeners : Open(u)' = Open(u) \cup {d}
         /\ After(saved)' = After(saved) \cup {d}
<1>1. /\ updateSeq'[d] = newest + 1
      /\ \A e \in DBs \ {d} : updateSeq'[e] = updateSeq[e]
      /\ UNCHANGED <<saved, phase, lastSeq, updatedDBs>>
  BY DEF TypeOK, Update, batchVars
<1>2. newest + 1 > saved /\ \A u \in Listeners : newest + 1 > lastSeq[u]
  BY DEF TypeOK
<1>3. After(saved)' = After(saved) \cup {d}
  BY <1>1, <1>2 DEF After
<1>4. ASSUME NEW u \in Listeners PROVE After(lastSeq[u])' = After(lastSeq[u]) \cup {d}
  BY <1>1, <1>2 DEF After
<1> QED
  BY <1>1, <1>3, <1>4 DEF Open

\* The step of one listener that neither saves nor is an update leaves what the
\* others have open.
LEMMA OpenOfOthers ==
  ASSUME NEW u \in Listeners, UNCHANGED <<updateSeq, saved>>,
         \A v \in Listeners \ {u} : UNCHANGED <<phase[v], lastSeq[v], updatedDBs[v]>>
  PROVE  /\ \A v \in Listeners \ {u} : Open(v)' = Open(v)
         /\ After(saved)' = After(saved)
  BY DEF Open, After

\* To start reads on at the saved seq; to read an update moves it to the batch.
LEMMA OpenAfterRead ==
  ASSUME TypeOK, NEW u \in Listeners,
         \/ Start(u) \/ TimerFires(u) \/ ProcessBatch(u) \/ DirtyReplicators(u)
         \/ \E d \in DBs : OnUpdate(u, d)
  PROVE  /\ \A v \in Listeners : Open(v)' = Open(v)
         /\ After(saved)' = After(saved)
<1>1. /\ UNCHANGED <<updateSeq, saved>>
      /\ \A v \in Listeners \ {u} : UNCHANGED <<phase[v], lastSeq[v], updatedDBs[v]>>
  BY DEF TypeOK, Start, TimerFires, ProcessBatch, DirtyReplicators, OnUpdate, feedVars, batchVars
<1>2. Open(u)' = Open(u)
  <2>1. CASE Start(u)
    <3>1. /\ phase[u] = "down" /\ phase'[u] = "listening"
          /\ lastSeq'[u] = saved /\ updatedDBs'[u] = {}
      BY <2>1 DEF TypeOK, Start, batchVars
    <3> QED
      BY <1>1, <3>1 DEF Open, After
  <2>2. CASE TimerFires(u) \/ ProcessBatch(u) \/ DirtyReplicators(u)
    BY <1>1, <2>2 DEF TimerFires, ProcessBatch, DirtyReplicators, batchVars, Open, After
  <2>3. ASSUME NEW d \in DBs, OnUpdate(u, d) PROVE Open(u)' = Open(u)
    <3>1. /\ UNCHANGED phase /\ phase[u] # "down"
          /\ lastSeq'[u] = updateSeq[d] /\ updatedDBs'[u] = updatedDBs[u] \cup {d}
      BY <2>3 DEF TypeOK, OnUpdate
    <3>2. /\ updateSeq[d] > lastSeq[u]
          /\ \A e \in DBs \ {d} : updateSeq[e] > lastSeq[u] => updateSeq[e] > updateSeq[d]
      BY <2>3 DEF OnUpdate, NextUpdate
    <3>3. After(lastSeq[u]) = {d} \cup After(lastSeq[u])'
      BY <1>1, <3>1, <3>2 DEF TypeOK, After
    <3> QED
      BY <3>1, <3>3 DEF Open
  <2> QED
    BY <2>1, <2>2, <2>3
<1> QED
  BY <1>1, <1>2, OpenOfOthers

\* A batch that is done ends what it covers.
LEMMA OpenAfterBatch ==
  ASSUME TypeOK, NEW u \in Listeners, DirtyChangeListeners(u)
  PROVE  /\ Open(u)' = Open(u) \ Covered(u)
         /\ \A v \in Listeners \ {u} : Open(v)' = Open(v)
         /\ After(saved)' = After(saved)
<1>1. /\ UNCHANGED <<updateSeq, saved, phase, lastSeq>>
      /\ updatedDBs'[u] = {} /\ phase[u] # "down"
      /\ \A v \in Listeners \ {u} : updatedDBs'[v] = updatedDBs[v]
  BY DEF TypeOK, DirtyChangeListeners, Reset, feedVars
<1>2. Open(u)' = Open(u) \ Covered(u)
  BY <1>1 DEF TypeOK, Open, After, Covered
<1> QED
  BY <1>1, <1>2, OpenOfOthers

\* A saved seq is where those that are down will start: nobody else notices.
LEMMA OpenAfterSave ==
  ASSUME TypeOK, NEW u \in Listeners, SaveLastSeq(u)
  PROVE  /\ After(saved)' = Open(u) /\ Open(u)' = Open(u)
         /\ \A v \in Listeners :
              Open(v)' = IF phase[v] = "down" THEN Open(u) ELSE Open(v)
<1>1. /\ UNCHANGED <<updateSeq, phase, lastSeq, updatedDBs>>
      /\ saved' = lastSeq[u] /\ updatedDBs[u] = {} /\ phase[u] # "down"
  BY DEF TypeOK, SaveLastSeq, feedVars, batchVars
<1> QED
  BY <1>1 DEF Open, After

\* A process that ends forgets its batch, and will start at the saved seq.
LEMMA OpenAfterFailure ==
  ASSUME TypeOK, NEW u \in Listeners, BatchFails(u) \/ Crash(u) \/ Stopped(u)
  PROVE  /\ Open(u)' \in {Open(u), After(saved)}
         /\ \A v \in Listeners \ {u} : Open(v)' = Open(v)
         /\ After(saved)' = After(saved)
<1>1. /\ UNCHANGED <<updateSeq, saved>>
      /\ \A v \in Listeners \ {u} : UNCHANGED <<phase[v], lastSeq[v], updatedDBs[v]>>
      /\ phase'[u] = "down" \/ UNCHANGED <<phase[u], lastSeq[u], updatedDBs[u]>>
  BY DEF TypeOK, BatchFails, Crash, Stopped, Exit, Reset, feedVars, batchVars
<1>2. Open(u)' \in {Open(u), After(saved)}
  BY <1>1 DEF Open, After
<1> QED
  BY <1>1, <1>2, OpenOfOthers

\* The saved seq stays behind somebody: a witness keeps its place until it saves
\* itself, or dies and is one that will start at the saved seq.
LEMMA SavedStaysBehind ==
  ASSUME TypeOK, SavedIsBehind, "stop" \notin Faults, [Next]_vars
  PROVE  SavedIsBehind'
<1> SUFFICES ASSUME NEW w \in Listeners
             PROVE  \E v \in Listeners : Open(v)' \subseteq After(saved)'
  BY DEF SavedIsBehind
<1>1. PICK v \in Listeners : Open(v) \subseteq After(saved)
  BY DEF SavedIsBehind
<1>2. ASSUME NEW d \in DBs, Update(d) PROVE Open(v)' \subseteq After(saved)'
  BY <1>1, <1>2, OpenAfterUpdate
<1>3. ASSUME NEW u \in Listeners,
             \/ Start(u) \/ TimerFires(u) \/ ProcessBatch(u) \/ DirtyReplicators(u)
             \/ \E d \in DBs : OnUpdate(u, d)
      PROVE  Open(v)' \subseteq After(saved)'
  BY <1>1, <1>3, OpenAfterRead
<1>4. ASSUME NEW u \in Listeners, DirtyChangeListeners(u)
      PROVE  Open(v)' \subseteq After(saved)'
  BY <1>1, <1>4, OpenAfterBatch
<1>5. ASSUME NEW u \in Listeners, SaveLastSeq(u) PROVE Open(u)' \subseteq After(saved)'
  BY <1>5, OpenAfterSave
<1>6. ASSUME NEW u \in Listeners, BatchFails(u) \/ Crash(u) \/ Stopped(u)
      PROVE  Open(v)' \subseteq After(saved)'
  BY <1>1, <1>6, OpenAfterFailure
<1>7. ASSUME NEW u \in Listeners, Stop(u) PROVE FALSE
  BY <1>7, "stop" \notin Faults DEF Stop, Fault
<1>8. CASE UNCHANGED vars
  BY <1>1, <1>8 DEF vars, Open, After
<1> QED
  BY <1>1, <1>2, <1>3, <1>4, <1>5, <1>6, <1>7, <1>8 DEF Next, Handle

FeedSteps == /\ [ReplicatorFeed!Next]_(ReplicatorFeed!vars)
             /\ [ChangeListenerFeed!Next]_(ChangeListenerFeed!vars)

\* Nothing that the abstract feed has changes.
LEMMA FeedStutters ==
  ASSUME UNCHANGED undirtied, \A v \in Listeners : Open(v)' = Open(v)
  PROVE  FeedSteps
  BY DEF FeedSteps, ReplicatorFeed!vars, ChangeListenerFeed!vars

LEMMA UpdateIsOfFeed ==
  ASSUME TypeOK, NEW d \in DBs, Update(d)
  PROVE  FeedSteps
<1>1. \A t \in Types : undirtied'[t] = undirtied[t] \cup {d}
  BY DEF TypeOK, Update
<1>2. \A v \in Listeners : Open(v)' = Open(v) \cup {d}
  BY OpenAfterUpdate
<1>3. ReplicatorFeed!Update(d) /\ ChangeListenerFeed!Update(d)
  BY <1>1, <1>2 DEF ReplicatorFeed!Update, ChangeListenerFeed!Update, Types
<1> QED
  BY <1>3 DEF FeedSteps, ReplicatorFeed!Next, ChangeListenerFeed!Next

LEMMA DirtyReplicatorsIsOfFeed ==
  ASSUME TypeOK, NEW u \in Listeners, DirtyReplicators(u)
  PROVE  FeedSteps
<1>1. /\ undirtied'["replicator"] = undirtied["replicator"] \ Covered(u)
      /\ undirtied'["change_listener"] = undirtied["change_listener"]
  BY DEF TypeOK, DirtyReplicators, Dirtied, Types
<1>2. \A v \in Listeners : Open(v)' = Open(v)
  BY OpenAfterRead
<1>3. Covered(u) \in SUBSET DBs
  BY DEF TypeOK, Covered
<1>4. ReplicatorFeed!Dirty(Covered(u))
  BY <1>1, <1>2, <1>3 DEF ReplicatorFeed!Dirty
<1>5. UNCHANGED ChangeListenerFeed!vars
  BY <1>1, <1>2 DEF ChangeListenerFeed!vars
<1> QED
  BY <1>3, <1>4, <1>5 DEF FeedSteps, ReplicatorFeed!Next

\* The replicators of the batch are dirtied before, hence both feeds may end it.
LEMMA DirtyChangeListenersIsOfFeed ==
  ASSUME TypeOK, ReplicatorsFirst, NEW u \in Listeners, DirtyChangeListeners(u)
  PROVE  FeedSteps
<1>1. /\ undirtied'["change_listener"] = undirtied["change_listener"] \ Covered(u)
      /\ undirtied'["replicator"] = undirtied["replicator"]
      /\ pc[u] = "change_listeners"
  BY DEF TypeOK, DirtyChangeListeners, Dirtied, Types
<1>2. undirtied'["replicator"] = undirtied["replicator"] \ Covered(u)
  BY <1>1 DEF ReplicatorsFirst
<1>3. /\ Open(u)' = Open(u) \ Covered(u)
      /\ \A v \in Listeners \ {u} : Open(v)' = Open(v)
  BY OpenAfterBatch
<1>4. Covered(u) \subseteq Open(u) /\ Covered(u) \in SUBSET DBs
  BY <1>1 DEF TypeOK, Covered, Open
<1>5. ReplicatorFeed!Finish(u, Covered(u)) /\ ChangeListenerFeed!Finish(u, Covered(u))
  BY <1>1, <1>2, <1>3, <1>4 DEF ReplicatorFeed!Finish, ChangeListenerFeed!Finish
<1> QED
  BY <1>4, <1>5 DEF FeedSteps, ReplicatorFeed!Next, ChangeListenerFeed!Next

LEMMA RestartIsOfFeed ==
  ASSUME NEW D \in SUBSET Listeners, NEW v \in Listeners, NEW T \in SUBSET DBs,
         Open(v) \subseteq T, UNCHANGED undirtied,
         \A u \in Listeners : Open(u)' = IF u \in D THEN T ELSE Open(u)
  PROVE  FeedSteps
<1>1. ReplicatorFeed!Restart(D, v, T) /\ ChangeListenerFeed!Restart(D, v, T)
  BY DEF ReplicatorFeed!Restart, ChangeListenerFeed!Restart
<1> QED
  BY <1>1 DEF FeedSteps, ReplicatorFeed!Next, ChangeListenerFeed!Next

\* All that are down start where the seq is saved now.
LEMMA SaveIsOfFeed ==
  ASSUME TypeOK, NEW u \in Listeners, SaveLastSeq(u)
  PROVE  FeedSteps
<1>1. PICK D \in SUBSET Listeners : D = {v \in Listeners : phase[v] = "down"}
  OBVIOUS
<1>2. UNCHANGED undirtied
  BY DEF SaveLastSeq
<1>3. \A v \in Listeners : Open(v)' = IF v \in D THEN Open(u) ELSE Open(v)
  BY <1>1, OpenAfterSave
<1>4. Open(u) \in SUBSET DBs
  BY OpenTyped
<1> QED
  BY <1>2, <1>3, <1>4, RestartIsOfFeed

LEMMA FailureIsOfFeed ==
  ASSUME TypeOK, SavedIsBehind, NEW u \in Listeners,
         BatchFails(u) \/ Crash(u) \/ Stopped(u)
  PROVE  FeedSteps
<1>1. UNCHANGED undirtied
  BY DEF BatchFails, Crash, Stopped
<1>2. \A v \in Listeners \ {u} : Open(v)' = Open(v)
  BY OpenAfterFailure
<1>3. CASE Open(u)' = Open(u)
  BY <1>1, <1>2, <1>3, FeedStutters
<1>4. CASE Open(u)' = After(saved)
  <2>1. PICK v \in Listeners : Open(v) \subseteq After(saved)
    BY DEF SavedIsBehind
  <2>2. PICK T \in SUBSET DBs : T = After(saved)
    BY DEF After
  <2>3. PICK D \in SUBSET Listeners : D = {u}
    OBVIOUS
  <2>4. \A w \in Listeners : Open(w)' = IF w \in D THEN T ELSE Open(w)
    BY <1>2, <1>4, <2>2, <2>3
  <2> QED
    BY <1>1, <2>1, <2>2, <2>4, RestartIsOfFeed
<1> QED
  BY <1>3, <1>4, OpenAfterFailure

LEMMA NextIsOfFeed ==
  ASSUME TypeOK, ReplicatorsFirst, SavedIsBehind, "stop" \notin Faults, [Next]_vars
  PROVE  FeedSteps
<1>1. ASSUME NEW u \in Listeners,
             \/ Start(u) \/ TimerFires(u) \/ ProcessBatch(u)
             \/ \E d \in DBs : OnUpdate(u, d)
      PROVE  FeedSteps
  <2>1. UNCHANGED undirtied
    BY <1>1 DEF Start, TimerFires, ProcessBatch, OnUpdate
  <2> QED
    BY <1>1, <2>1, OpenAfterRead, FeedStutters
<1>2. ASSUME NEW u \in Listeners, Stop(u) PROVE FALSE
  BY <1>2, "stop" \notin Faults DEF Stop, Fault
<1>3. CASE UNCHANGED vars
  BY <1>3, FeedStutters DEF vars, Open, After
<1> QED
  BY <1>1, <1>2, <1>3, UpdateIsOfFeed, DirtyReplicatorsIsOfFeed,
     DirtyChangeListenersIsOfFeed, SaveIsOfFeed, FailureIsOfFeed DEF Next, Handle

LEMMA InitIsOfFeed ==
  /\ Init => ReplicatorFeed!Init /\ ChangeListenerFeed!Init
  /\ Init => SavedIsBehind
<1>1. ASSUME Init PROVE \A u \in Listeners : Open(u) = {} /\ After(saved) = {}
  BY <1>1 DEF Init, Open, After
<1>2. ASSUME Init PROVE \A t \in Types : undirtied[t] = {}
  BY <1>2 DEF Init
<1> QED
  BY <1>1, <1>2 DEF ReplicatorFeed!Init, ChangeListenerFeed!Init, SavedIsBehind, Types

\* The update listeners are the feed of updates that the proofs about replicators
\* and change listeners take for granted: a listener finishes with an update only
\* when the replicators and the change listeners of its database are dirtied, and
\* one that starts again, wherever the others have moved the saved lastSeq, has
\* before it all that some listener has not finished with.
THEOREM FeedIsImplemented == "stop" \notin Faults /\ Spec => ImplementsUpdateFeed
<1> SUFFICES ASSUME "stop" \notin Faults PROVE Spec => ImplementsUpdateFeed
  OBVIOUS
<1>1. Init => FeedInv /\ SavedIsBehind
  BY InitFeed, InitIsOfFeed
<1>2. FeedInv /\ SavedIsBehind /\ [Next]_vars => (FeedInv /\ SavedIsBehind)'
  BY FeedStep, NextTyped, SavedStaysBehind, Faultless DEF FeedInv
<1>3. FeedInv /\ SavedIsBehind /\ [Next]_vars => FeedSteps
  BY NextIsOfFeed DEF FeedInv
<1> QED
  BY <1>1, <1>2, <1>3, InitIsOfFeed, PTL
  DEF Spec, FeedSteps, ImplementsUpdateFeed, ReplicatorFeed!Spec, ChangeListenerFeed!Spec

\* What the two others conclude from it: every listener has still open, or to read,
\* every update that the items are not dirtied for.
THEOREM FeedSuffices ==
  ImplementsUpdateFeed => [](ReplicatorFeed!OwedIsOpen /\ ChangeListenerFeed!OwedIsOpen)
<1> DEFINE Inv == ReplicatorFeed!OwedIsOpen /\ ChangeListenerFeed!OwedIsOpen
<1>1. ReplicatorFeed!Init /\ ChangeListenerFeed!Init => Inv
  BY DEF ReplicatorFeed!Init, ChangeListenerFeed!Init, ReplicatorFeed!OwedIsOpen,
         ChangeListenerFeed!OwedIsOpen
<1>2. ReplicatorFeed!OwedIsOpen /\ [ReplicatorFeed!Next]_(ReplicatorFeed!vars)
      => ReplicatorFeed!OwedIsOpen'
  BY DEF ReplicatorFeed!OwedIsOpen, ReplicatorFeed!Next, ReplicatorFeed!vars,
         ReplicatorFeed!Update, ReplicatorFeed!Dirty, ReplicatorFeed!Finish,
         ReplicatorFeed!Restart
<1>3. ChangeListenerFeed!OwedIsOpen /\ [ChangeListenerFeed!Next]_(ChangeListenerFeed!vars)
      => ChangeListenerFeed!OwedIsOpen'
  BY DEF ChangeListenerFeed!OwedIsOpen, ChangeListenerFeed!Next, ChangeListenerFeed!vars,
         ChangeListenerFeed!Update, ChangeListenerFeed!Dirty, ChangeListenerFeed!Finish,
         ChangeListenerFeed!Restart
<1> QED
  BY <1>1, <1>2, <1>3, PTL
  DEF ImplementsUpdateFeed, ReplicatorFeed!Spec, ChangeListenerFeed!Spec
=============================================================================
