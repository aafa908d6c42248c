--------------------------- MODULE OnChangesProofs --------------------------
(***************************************************************************)
(* The cache of rules, for any rules, revisions, databases and documents,  *)
(* and for every set of faults where none is excluded: what _docs holds is *)
(* what the copy had last emitted, a revision never comes back, and a      *)
(* change is matched as the rules are written.  That the first load is     *)
(* complete needs that no request fails before it: 'paused' is then taken  *)
(* for the end of a load that has hardly begun.                            *)
(***************************************************************************)
EXTENDS OnChanges, TLAPS

\* A rule can be written only once the database has its views.
SourceInstalled == installed # "yes" => source = None

\* A process that has not called start() has nothing, and replicates nothing.
Asleep ==
  /\ stage \in {"down", "checked"} =>
       /\ db = None /\ batch = {} /\ seen = None /\ atStart = None
       /\ ~once /\ loading = "no" /\ ~loaded
  /\ stage \in {"down", "checked"} => replication = "off"
  /\ stage = "stopping" => replication \in {"off", "ended"}

\* 'paused' is listened to once: there is one load.
LoadsOnce == /\ loaded => loading = "no"
             /\ stage = "stopping" => loaded

\* Where the copy and the cache are in the history of a rule: the copy follows
\* the source; the cache follows the copy, but for the batch that is written and
\* not emitted, and for what Stop throws away; what allDocs has read is what the
\* copy still is.
Follows ==
  /\ \A r \in Rules : /\ seen[r] <= db[r] /\ db[r] <= source[r]
                      /\ atStart[r] <= source[r]
                      /\ stage # "stopping" /\ r \notin batch => seen[r] = db[r]
                      /\ loading = "read" => snapshot[r] = db[r]

\* _docs has the last revision that it was told of, unless that is a deletion.
HasLast == \A r \in Rules : docs[r] = IF Live(seen[r]) THEN seen[r] ELSE 0

CacheInv == /\ TypeOK
            /\ SourceInstalled
            /\ Asleep
            /\ LoadsOnce
            /\ Follows
            /\ HasLast

\* From the moment that 'paused' asks for the load on, nothing that there was at
\* the start is missing.
LoadStarted == loading # "no" \/ loaded
NothingMissed == LoadStarted => \A r \in Rules : seen[r] >= atStart[r]

\* No regular expression is written to match the string "undefined"; "missing"
\* stands for a property that is not there, and is no string.
NoneForUndefined ==
  \A r \in Rules, n \in 1..MaxRev :
    Live(n) => \A c \in Written[r][n].if : {"undefined", "missing"} \cap c.re = {}

-----------------------------------------------------------------------------
(* The cache follows its invariant.                                        *)

LEMMA LiveIsNotZero == \A n \in Nat : Live(n) => n # 0
BY DEF Live

LEMMA RevisionsTyped ==
  ASSUME TypeOK, NEW r \in Rules
  PROVE  /\ source[r] \in Nat /\ db[r] \in Nat /\ seen[r] \in Nat /\ atStart[r] \in Nat
         /\ source[r] \in 0..MaxRev
<1>1. source \in Revs /\ db \in Revs /\ seen \in Revs /\ atStart \in Revs
  BY DEF TypeOK
<1> QED
  BY <1>1, OnChangesAssumption DEF Revs

LEMMA InitCache == Init => CacheInv
<1> SUFFICES ASSUME Init PROVE CacheInv
  OBVIOUS
<1>1. ~Live(0)
  BY LiveIsNotZero
<1>2. None \in Revs /\ \A r \in Rules : None[r] = 0
  BY OnChangesAssumption DEF None, Revs
<1>3. TypeOK
  <2>1. /\ source \in Revs /\ db \in Revs /\ docs \in Revs /\ seen \in Revs /\ atStart \in Revs
        /\ snapshot \in Revs /\ faults \in 0..MaxFaults /\ \A r \in Rules : docs[r] = 0
    BY <1>2, OnChangesAssumption DEF Init
  <2>2. once \in BOOLEAN /\ loaded \in BOOLEAN /\ (once => ~loaded /\ loading = "no")
    BY DEF Init
  <2> QED
    BY <2>1, <2>2 DEF Init, TypeOK
<1>4. Follows /\ HasLast
  BY <1>1, <1>2 DEF Init, Follows, HasLast
<1>5. SourceInstalled /\ Asleep /\ LoadsOnce
  BY DEF Init, SourceInstalled, Asleep, LoadsOnce
<1> QED
  BY <1>3, <1>4, <1>5 DEF CacheInv

\* The spiegel database is installed, and rules are written in it.
LEMMA SourceKeepsCache ==
  ASSUME CacheInv, (installed # "yes" /\ Install) \/ \E r \in Rules : EditRule(r)
  PROVE  CacheInv'
<1> USE OnChangesAssumption DEF CacheInv
<1>1. UNCHANGED <<stage, replication, db, batch, seen, docs, once, loading, snapshot, loaded,
                  atStart, faults>>
  BY DEF Install, EditRule, processVars, copyVars, loadVars
<1>2. /\ installed' \in {"created", "yes"} /\ source' \in Revs
      /\ \A r \in Rules : source[r] <= source'[r]
      /\ installed' # "yes" => source' = None
  <2>1. CASE installed # "yes" /\ Install
    BY <2>1 DEF Install, TypeOK, Revs, SourceInstalled
  <2>2. CASE \E r \in Rules : EditRule(r)
    BY <2>2 DEF EditRule, TypeOK, Revs
  <2> QED
    BY <2>1, <2>2
<1>3. TypeOK' /\ SourceInstalled' /\ Asleep' /\ LoadsOnce' /\ HasLast'
  BY <1>1, <1>2 DEF TypeOK, SourceInstalled, Asleep, LoadsOnce, HasLast
<1>4. Follows'
  <2>1. \A r \in Rules : source[r] \in Nat /\ source'[r] \in Nat /\ db[r] \in Nat /\ atStart[r] \in Nat
    BY <1>2 DEF TypeOK, Revs
  <2> QED
    BY <1>1, <1>2, <2>1 DEF Follows
<1> QED
  BY <1>3, <1>4

\* The process is started, is stopped, or ends.
LEMMA LifeKeepsCache ==
  ASSUME CacheInv, Check \/ Start \/ Started \/ Stop \/ Exit
  PROVE  CacheInv'
<1> USE OnChangesAssumption DEF CacheInv
<1>1. CASE Check
  BY <1>1 DEF Check, copyVars, loadVars, TypeOK, SourceInstalled, Asleep, LoadsOnce, Follows, HasLast
<1>2. CASE Start
  <2>1. TypeOK' /\ SourceInstalled' /\ Asleep' /\ LoadsOnce' /\ HasLast'
    BY <1>2 DEF Start, copyVars, TypeOK, SourceInstalled, Asleep, LoadsOnce, HasLast
  <2>2. Follows'
    BY <1>2 DEF Start, copyVars, TypeOK, Revs, Asleep, Follows
  <2> QED
    BY <2>1, <2>2
<1>3. CASE Started
  BY <1>3 DEF Started, copyVars, loadVars, TypeOK, SourceInstalled, Asleep, LoadsOnce, Follows, HasLast
<1>4. CASE Stop
  BY <1>4 DEF Stop, loadVars, TypeOK, SourceInstalled, Asleep, LoadsOnce, Follows, HasLast
<1>5. CASE Exit
  <2>1. faults' \in 0..MaxFaults
    BY <1>5 DEF Exit, Fault, TypeOK
  <2>2. None \in Revs /\ \A r \in Rules : None[r] = 0
    BY DEF None, Revs
  <2>3. TypeOK' /\ SourceInstalled' /\ Asleep' /\ LoadsOnce'
    BY <1>5, <2>1, <2>2 DEF Exit, Ended, TypeOK, SourceInstalled, Asleep, LoadsOnce
  <2>4. Follows' /\ HasLast'
    BY <1>5, <2>2, LiveIsNotZero DEF Exit, Ended, TypeOK, Revs, Follows, HasLast
  <2> QED
    BY <2>3, <2>4
<1> QED
  BY <1>1, <1>2, <1>3, <1>4, <1>5

\* A batch is copied, and then emitted.
LEMMA ChangesKeepCache ==
  ASSUME CacheInv, WriteBatch \/ OnChange
  PROVE  CacheInv'
<1> USE OnChangesAssumption DEF CacheInv
<1>1. CASE WriteBatch
  <2>1. /\ batch = {} /\ batch' \in SUBSET Rules
        /\ \A r \in Rules : db'[r] = IF r \in batch' THEN source[r] ELSE db[r]
        /\ db' \in Revs
        /\ replication = "active" /\ loading # "read"
        /\ UNCHANGED <<installed, source, stage, replication, seen, docs, once, loading, snapshot,
                       loaded, atStart, faults>>
    BY <1>1 DEF WriteBatch, loadVars, TypeOK, Revs
  <2>2. stage \in {"loading", "up"}
    BY <2>1 DEF Asleep, TypeOK
  <2>3. TypeOK' /\ SourceInstalled' /\ LoadsOnce' /\ HasLast'
    BY <2>1 DEF TypeOK, SourceInstalled, LoadsOnce, HasLast
  <2>4. Asleep'
    BY <2>1, <2>2 DEF Asleep
  <2>5. \A r \in Rules : seen[r] \in Nat /\ db[r] \in Nat /\ source[r] \in Nat
    BY RevisionsTyped
  <2>6. Follows'
    BY <2>1, <2>5 DEF Follows
  <2> QED
    BY <2>6, <2>3, <2>4
<1>2. CASE OnChange
  <2>1. /\ batch # {} /\ batch' = {}
        /\ \A r \in Rules :
             /\ docs'[r] = IF r \in batch THEN SetDoc(db[r], docs[r]) ELSE docs[r]
             /\ seen'[r] = IF r \in batch THEN db[r] ELSE seen[r]
        /\ UNCHANGED <<installed, source, stage, replication, db, once, loading, snapshot,
                       loaded, atStart, faults>>
    BY <1>2 DEF OnChange, loadVars
  <2>2. seen' \in Revs /\ docs' \in Revs /\ HasLast'
    <3>1. seen' \in Revs
      BY <1>2 DEF OnChange, TypeOK, Revs
    <3>2. docs' \in Revs
      BY <1>2 DEF OnChange, TypeOK, Revs, SetDoc
    <3>3. HasLast'
      BY <2>1 DEF HasLast, SetDoc
    <3> QED
      BY <3>1, <3>2, <3>3
  <2>3. \A r \in Rules : docs'[r] # 0 => Live(docs'[r])
    BY <2>2 DEF HasLast
  <2>4. TypeOK' /\ SourceInstalled' /\ Asleep' /\ LoadsOnce'
    BY <2>1, <2>2, <2>3 DEF TypeOK, SourceInstalled, Asleep, LoadsOnce
  <2>5. Follows'
    BY <2>1 DEF Follows, TypeOK, Revs
  <2> QED
    BY <2>2, <2>4, <2>5
<1> QED
  BY <1>1, <1>2

\* The replication pauses, fails, goes on or ends.
LEMMA PausesKeepCache ==
  ASSUME CacheInv, CaughtUp \/ RequestFails \/ Retry \/ OnError
  PROVE  CacheInv'
<1> USE OnChangesAssumption DEF CacheInv
<1>1. /\ replication \in {"active", "failed"} /\ replication' \in {"active", "failed", "ended"}
      /\ UNCHANGED <<installed, source, stage, db, batch, seen, docs, snapshot, loaded, atStart>>
      /\ faults' \in 0..MaxFaults
      /\ \/ UNCHANGED <<once, loading>>
         \/ once' = FALSE /\ loading' = IF once THEN "asked" ELSE loading
  <2>1. faults' = faults \/ \E kind \in Faults : Fault(kind)
    BY DEF CaughtUp, RequestFails, Retry, OnError, Fault
  <2>2. faults' \in 0..MaxFaults
    BY <2>1 DEF Fault, TypeOK
  <2> QED
    BY <2>2 DEF CaughtUp, RequestFails, Retry, OnError, OnPaused, copyVars, loadVars
<1>2. stage \in {"loading", "up"}
  BY <1>1 DEF Asleep, TypeOK
<1>3. TypeOK' /\ LoadsOnce'
  <2>1. once' \in BOOLEAN /\ loading' \in {"no", "asked", "read"}
    BY <1>1 DEF TypeOK
  <2>2. (once' => ~loaded' /\ loading' = "no") /\ LoadsOnce'
    BY <1>1 DEF TypeOK, LoadsOnce
  <2> QED
    BY <1>1, <2>1, <2>2 DEF TypeOK
<1>4. SourceInstalled' /\ Asleep' /\ HasLast'
  BY <1>1, <1>2 DEF SourceInstalled, Asleep, HasLast
<1>5. loading' = "read" => loading = "read"
  BY <1>1
<1>6. Follows'
  BY <1>1, <1>5 DEF Follows
<1> QED
  BY <1>3, <1>6, <1>4

\* The first load.
LEMMA LoadKeepsCache ==
  ASSUME CacheInv, ReadAllDocs \/ LoadAllDocs
  PROVE  CacheInv'
<1> USE OnChangesAssumption DEF CacheInv
<1>1. CASE ReadAllDocs
  BY <1>1 DEF ReadAllDocs, copyVars, TypeOK, SourceInstalled, Asleep, LoadsOnce, Follows, HasLast
<1>2. CASE LoadAllDocs
  <2>1. /\ loading = "read" /\ loading' = "no" /\ snapshot' = None /\ loaded' = TRUE
        /\ \A r \in Rules :
             /\ docs'[r] = IF Live(snapshot[r]) THEN snapshot[r] ELSE docs[r]
             /\ seen'[r] = IF Live(snapshot[r]) THEN snapshot[r] ELSE seen[r]
        /\ UNCHANGED <<installed, source, stage, replication, db, batch, once, atStart, faults>>
    BY <1>2 DEF LoadAllDocs, SetDoc
  <2>2. seen' \in Revs /\ docs' \in Revs /\ HasLast'
    <3>1. seen' \in Revs
      BY <1>2 DEF LoadAllDocs, TypeOK, Revs
    <3>2. docs' \in Revs
      BY <1>2 DEF LoadAllDocs, TypeOK, Revs, SetDoc
    <3>3. HasLast'
      BY <2>1 DEF HasLast
    <3> QED
      BY <3>1, <3>2, <3>3
  <2>3. \A r \in Rules : docs'[r] # 0 => Live(docs'[r])
    BY <2>2 DEF HasLast
  <2>4. None \in Revs
    BY DEF None, Revs
  <2>5. TypeOK' /\ SourceInstalled' /\ Asleep' /\ LoadsOnce'
    BY <2>1, <2>2, <2>3, <2>4 DEF TypeOK, SourceInstalled, Asleep, LoadsOnce
  <2>6. Follows'
    BY <2>1 DEF Follows, TypeOK, Revs
  <2> QED
    BY <2>2, <2>5, <2>6
<1> QED
  BY <1>1, <1>2

LEMMA CacheInductive == CacheInv /\ [Next]_vars => CacheInv'
<1> SUFFICES ASSUME CacheInv, [Next]_vars PROVE CacheInv'
  OBVIOUS
<1>1. CASE UNCHANGED vars
  BY <1>1 DEF vars, processVars, copyVars, loadVars, CacheInv, TypeOK, SourceInstalled, Asleep,
              LoadsOnce, Follows, HasLast
<1> QED
  BY <1>1, SourceKeepsCache, LifeKeepsCache, ChangesKeepCache, PausesKeepCache, LoadKeepsCache
  DEF Next

LEMMA CacheInvariant == Spec => []CacheInv
BY InitCache, CacheInductive, PTL DEF Spec

-----------------------------------------------------------------------------
(* What the cache is good for.                                             *)

\* No step takes a rule back to an earlier revision, unless the process ends.
LEMMA SeenGrows ==
  ASSUME CacheInv, [Next]_vars, stage' # "down", NEW r \in Rules
  PROVE  seen'[r] >= seen[r]
<1>1. seen[r] \in Nat /\ db[r] \in Nat /\ seen[r] <= db[r] /\ (loading = "read" => snapshot[r] = db[r])
  BY DEF CacheInv, TypeOK, Revs, Follows
<1>2. seen'[r] \in {seen[r], db[r]} \/ (loading = "read" /\ seen'[r] = snapshot[r])
  BY DEF Next, Install, EditRule, Check, Start, Started, Stop, Exit, Ended, WriteBatch, OnChange,
         CaughtUp, RequestFails, Retry, OnError, ReadAllDocs, LoadAllDocs, vars, processVars, copyVars
<1> QED
  BY <1>1, <1>2

\* The type invariant; there is one load, and _docs has no deletion.
THEOREM TypeCorrect == Spec => []TypeOK
<1>1. CacheInv => TypeOK
  BY DEF CacheInv
<1> QED
  BY <1>1, CacheInvariant, PTL

\* A batch that was written before allDocs read is set by both, in any order,
\* and what is set last is never older than what was there: a rule that a user
\* has changed or destroyed does not come back.
THEOREM NothingComesBack == Spec => NeverBack
<1>1. CacheInv /\ [Next]_vars =>
        [stage' # "down" => \A r \in Rules : seen'[r] >= seen[r]]_vars
  BY SeenGrows
<1> QED
  BY <1>1, CacheInvariant, PTL DEF Spec, NeverBack

\* When the update listener or the change listener is started, after the load,
\* it has each rule there was when the process started, or a later revision of
\* it: if no request fails before the load.
THEOREM LoadIsComplete ==
  ASSUME "early" \notin Faults
  PROVE  Spec => []LoadedIsComplete
<1>1. Init => NothingMissed
  BY DEF Init, NothingMissed, LoadStarted
<1>2. CacheInv /\ NothingMissed /\ [Next]_vars => NothingMissed'
  <2> SUFFICES ASSUME CacheInv, NothingMissed, [Next]_vars, LoadStarted', NEW r \in Rules
               PROVE  seen'[r] >= atStart'[r]
    BY DEF NothingMissed
  <2>1. stage' # "down" /\ stage' # "checked"
    BY CacheInductive DEF CacheInv, Asleep, LoadStarted
  <2>2. seen'[r] >= seen[r] /\ seen[r] \in Nat /\ seen'[r] \in Nat /\ atStart[r] \in Nat
    BY <2>1, SeenGrows, CacheInductive DEF CacheInv, TypeOK, Revs
  <2>3. CASE LoadStarted
    <3>1. stage # "checked"
      BY <2>3 DEF CacheInv, Asleep, LoadStarted
    <3>2. atStart' = atStart
      BY <2>1, <3>1
      DEF Next, Install, EditRule, Check, Start, Started, Stop, Exit, Ended, WriteBatch, OnChange,
          CaughtUp, RequestFails, Retry, OnError, ReadAllDocs, LoadAllDocs, vars, processVars
    <3> QED
      BY <2>2, <2>3, <3>2 DEF NothingMissed
  <2>4. CASE ~LoadStarted
    <3>1. atStart' = atStart /\ seen[r] >= atStart[r]
      <4>1. CASE CaughtUp
        BY <4>1, <2>1, <2>2 DEF CaughtUp, CacheInv, Follows, Asleep, TypeOK, Revs
      <4>2. CASE RequestFails
        BY <4>2, <2>2, <2>4
        DEF RequestFails, Fault, LoadStarted, CacheInv, SourceInstalled, Follows, None
      <4> QED
        BY <2>4, <4>1, <4>2
        DEF LoadStarted, Next, Install, EditRule, Check, Start, Started, Stop, Exit, Ended,
            WriteBatch, OnChange, Retry, OnError, ReadAllDocs, LoadAllDocs, vars, processVars, loadVars
    <3> QED
      BY <2>2, <3>1
  <2> QED
    BY <2>3, <2>4
<1>3. NothingMissed => LoadedIsComplete
  BY DEF NothingMissed, LoadStarted, LoadedIsComplete
<1> QED
  BY <1>1, <1>2, <1>3, CacheInvariant, PTL DEF Spec

\* Once the copy has caught up, the update listener and the change listener
\* treat a change as the rules in the spiegel database say, whatever happened to
\* the rules and to the replication before: if no regular expression is there to
\* match the string "undefined".
THEOREM RulesMatchAsWritten ==
  ASSUME NoneForUndefined
  PROVE  Spec => []MatchedAsWritten
<1>1. CacheInv => MatchedAsWritten
  <2> SUFFICES ASSUME CacheInv, stage = "up", db = source, batch = {},
                      NEW n \in DBNames, NEW doc \in Documents
               PROVE  LET applying == {r \in Rules : Applies(r, n, doc)}
                      IN /\ GetMatchingOnChanges(n, doc) = applying
                         /\ applying # {} => n \in MatchWithDBNames(DBNames)
    BY DEF MatchedAsWritten
  <2>1. \A r \in Rules : /\ source[r] \in 0..MaxRev
                         /\ docs[r] = IF Live(source[r]) THEN source[r] ELSE 0
    BY DEF CacheInv, TypeOK, Revs, Follows, HasLast
  <2>2. \A r \in Rules : docs[r] # 0 <=> Live(source[r])
    BY <2>1, LiveIsNotZero, OnChangesAssumption
  <2>3. \A r \in Rules : Applies(r, n, doc) <=> r \in GetMatchingOnChanges(n, doc)
    <3> SUFFICES ASSUME NEW r \in Rules, Live(source[r])
                 PROVE  \A c \in Written[r][source[r]].if :
                          Condition(c, doc) <=> IF c.null THEN doc[c.name] \in {"missing", "null"}
                                                          ELSE doc[c.name] \in c.re
      BY <2>1, <2>2 DEF Applies, GetMatchingOnChanges
    <3>1. source[r] \in 1..MaxRev
      BY <2>1, LiveIsNotZero, OnChangesAssumption
    <3> QED
      BY <3>1 DEF NoneForUndefined, Condition, Tested
  <2> QED
    BY <2>1, <2>2, <2>3 DEF Applies, GetMatchingOnChanges, MatchWithDBNames
<1> QED
  BY <1>1, CacheInvariant, PTL
=============================================================================
