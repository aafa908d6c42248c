----------------------------- MODULE OnChanges ------------------------------
(***************************************************************************)
(* The cache of on_change rules (src/src/on-changes.js) and the life of a  *)
(* process that uses it, an update listener or a change listener           *)
(* (src/src/spiegel.js, src/bin/cmd.js).  The rules are documents of the   *)
(* spiegel database; a live PouchDB replication copies them to a database  *)
(* in memory, and its events keep _docs, an object that is read without    *)
(* any I/O.                                                                *)
(*                                                                         *)
(* PouchDB is external.  A batch of changes is written, then emitted with  *)
(* 'change', and only then the next is fetched.  'paused' is emitted when  *)
(* the copy has caught up and when a request fails and is to be repeated;  *)
(* a request that is not authorised ends the replication with 'error'.     *)
(* allDocs reads one snapshot, and no batch is written until it has been   *)
(* handed over.                                                            *)
(*                                                                         *)
(* A rule is known by its number of revisions; an even revision is a       *)
(* deletion, or none at all if it is 0.  A regular expression is the set   *)
(* of strings that it matches; the test of a value that is no string       *)
(* converts it, and a property that is missing is "undefined".             *)
(***************************************************************************)
EXTENDS Naturals

CONSTANTS
  Rules,     \* the ids of the on_change documents
  Written,   \* per rule and odd revision, its db_name and the conditions of its if
  DBNames,   \* the names of databases
  Documents, \* the changed documents: functions from properties to values
  Faults,    \* what may happen: "early" and "late", a request fails before or
             \* after the first load; "unauthorized"; "kill"
  MaxRev,    \* bound: how many revisions a rule has
  MaxFaults  \* bound: how many faults happen

ASSUME OnChangesAssumption ==
  /\ Faults \subseteq {"early", "late", "unauthorized", "kill"}
  /\ MaxRev \in Nat /\ MaxFaults \in Nat
  /\ \A r \in Rules, n \in 1..MaxRev :
       n % 2 = 1 => DOMAIN Written[r][n] = {"db_name", "if"}

VARIABLES
  installed,    \* the spiegel database: "no", "created" or "yes" (with its views)
  source,       \* per rule, its revision in the spiegel database
  stage,        \* of the process: "down", "checked", "loading", "up", "stopping"
  replication,  \* "off", "active", "failed" (and retried), "ended"
  db,           \* per rule, its revision in the copy
  batch,        \* the rules that are written and not emitted
  once,         \* is 'paused' still listened to?
  loading,      \* _loadAllDocs: "no", "asked", or "read"
  snapshot,     \* per rule, the revision that allDocs has read
  docs,         \* per rule, the revision in _docs, 0 if there is none
  loaded,       \* has _loaded resolved?
  seen,         \* per rule, the last revision that _setDoc got
  atStart,      \* per rule, its revision when start() was called
  faults        \* how many faults have happened

copyVars    == <<db, batch, seen, docs>>
loadVars    == <<once, loading, snapshot, loaded>>
processVars == <<stage, replication, copyVars, loadVars, atStart>>
vars == <<installed, source, processVars, faults>>

None   == [r \in Rules |-> 0]
Live(n) == n % 2 = 1

Fault(kind) == /\ kind \in Faults
               /\ faults < MaxFaults
               /\ faults' = faults + 1

Init ==
  /\ installed = "no"
  /\ source = None
  /\ stage = "down" /\ replication = "off"
  /\ db = None /\ batch = {} /\ seen = None /\ docs = None
  /\ once = FALSE /\ loading = "no" /\ snapshot = None /\ loaded = FALSE
  /\ atStart = None
  /\ faults = 0

-----------------------------------------------------------------------------
(* Installation, and the rules, which a user writes.                       *)

\* install() creates the database, then the views.
Install ==
  /\ installed' = CASE installed = "no" -> "created" [] installed = "created" -> "yes"
  /\ UNCHANGED <<source, processVars, faults>>

EditRule(r) ==
  /\ installed = "yes"
  /\ source[r] < MaxRev
  /\ source' = [source EXCEPT ![r] = @ + 1]
  /\ UNCHANGED <<installed, processVars, faults>>

-----------------------------------------------------------------------------
(* The life of the process.                                                *)

\* _throwIfNotInstalled: the database must exist, its views need not.
Check ==
  /\ stage = "down" /\ installed # "no"
  /\ stage' = "checked"
  /\ UNCHANGED <<installed, source, replication, copyVars, loadVars, atStart, faults>>

\* OnChanges.start
Start ==
  /\ stage = "checked"
  /\ stage' = "loading"
  /\ replication' = "active"
  /\ once' = TRUE
  /\ atStart' = source
  /\ UNCHANGED <<installed, source, copyVars, loading, snapshot, loaded, faults>>

\* start() has resolved: UpdateListeners or ChangeListeners are started.
Started ==
  /\ stage = "loading" /\ loaded
  /\ stage' = "up"
  /\ UNCHANGED <<installed, source, replication, copyVars, loadVars, atStart, faults>>

\* SIGINT: OnChanges.stop cancels the replication, and 'complete' comes; it does
\* not if the replication has ended with an error, and stop() waits for ever.
Stop ==
  /\ stage = "up"
  /\ stage' = "stopping"
  /\ IF replication = "ended"
       THEN UNCHANGED <<replication, batch>>
       ELSE replication' = "off" /\ batch' = {}
  /\ UNCHANGED <<installed, source, db, seen, docs, loadVars, atStart, faults>>

\* Nothing of a process that has ended is left: the copy is in memory.
Ended ==
  /\ stage' = "down" /\ replication' = "off"
  /\ db' = None /\ batch' = {} /\ seen' = None /\ docs' = None
  /\ once' = FALSE /\ loading' = "no" /\ snapshot' = None /\ loaded' = FALSE
  /\ atStart' = None
  /\ UNCHANGED <<installed, source>>

Exit == /\ \/ stage = "stopping" /\ replication = "off" /\ UNCHANGED faults
           \/ stage # "down" /\ Fault("kill")
        /\ Ended

-----------------------------------------------------------------------------
(* The events of the replication.                                          *)

\* Mutant: a rule that is destroyed stays in _docs.
SetDocKept(n, old) == IF Live(n) THEN n ELSE old

\* _setDoc
SetDoc(n, old) == IF Live(n) THEN n ELSE 0

\* Mutant: a batch may be written while allDocs hands over what it has read.
WriteBatchAnyTime ==
  /\ replication = "active" /\ installed = "yes"
  /\ batch = {}
  /\ batch' \in (SUBSET {r \in Rules : db[r] # source[r]}) \ {{}}
  /\ db' = [r \in Rules |-> IF r \in batch' THEN source[r] ELSE db[r]]
  /\ UNCHANGED <<installed, source, stage, replication, seen, docs, loadVars, atStart, faults>>

\* External: some of the rules that have changed are copied.
WriteBatch ==
  /\ replication = "active" /\ installed = "yes"
  /\ batch = {} /\ loading # "read"
  /\ batch' \in (SUBSET {r \in Rules : db[r] # source[r]}) \ {{}}
  /\ db' = [r \in Rules |-> IF r \in batch' THEN source[r] ELSE db[r]]
  /\ UNCHANGED <<installed, source, stage, replication, seen, docs, loadVars, atStart, faults>>

\* Mutant: 'load' is emitted with the first changes.
OnChangeLoads ==
  /\ batch # {}
  /\ docs' = [r \in Rules |-> IF r \in batch THEN SetDoc(db[r], docs[r]) ELSE docs[r]]
  /\ seen' = [r \in Rules |-> IF r \in batch THEN db[r] ELSE seen[r]]
  /\ batch' = {}
  /\ loaded' = TRUE
  /\ UNCHANGED <<installed, source, stage, replication, db, once, loading, snapshot, atStart, faults>>

\* 'change': _setDocs
OnChange ==
  /\ batch # {}
  /\ docs' = [r \in Rules |-> IF r \in batch THEN SetDoc(db[r], docs[r]) ELSE docs[r]]
  /\ seen' = [r \in Rules |-> IF r \in batch THEN db[r] ELSE seen[r]]
  /\ batch' = {}
  /\ UNCHANGED <<installed, source, stage, replication, db, loadVars, atStart, faults>>

\* Mutant: every 'paused' is listened to.
OnPausedEveryTime == loading' = "asked" /\ UNCHANGED <<once, snapshot, loaded>>

\* once('paused'): _onPaused calls allDocs.
OnPaused ==
  /\ once' = FALSE
  /\ loading' = IF once THEN "asked" ELSE loading
  /\ UNCHANGED <<snapshot, loaded>>

\* 'paused', as all that there is has been copied.
CaughtUp ==
  /\ replication = "active" /\ installed = "yes"
  /\ batch = {} /\ db = source
  /\ once
  /\ OnPaused
  /\ UNCHANGED <<installed, source, stage, replication, copyVars, atStart, faults>>

\* A request fails, as it must while the view that filters is not there: 'paused'
\* with the error, which _onPaused does not look at.
RequestFails ==
  /\ replication = "active"
  /\ \/ installed = "created" /\ UNCHANGED faults
     \/ installed = "yes" /\ Fault(IF loaded THEN "late" ELSE "early")
  /\ replication' = "failed"
  /\ OnPaused
  /\ UNCHANGED <<installed, source, stage, copyVars, atStart>>

Retry ==
  /\ replication = "failed"
  /\ replication' = "active"
  /\ UNCHANGED <<installed, source, stage, copyVars, loadVars, atStart, faults>>

\* 'error': _onError logs it.
OnError ==
  /\ replication = "active" /\ Fault("unauthorized")
  /\ replication' = "ended"
  /\ UNCHANGED <<installed, source, stage, copyVars, loadVars, atStart>>

-----------------------------------------------------------------------------
(* _loadAllDocs                                                            *)

\* External: allDocs reads.
ReadAllDocs ==
  /\ loading = "asked"
  /\ snapshot' = db
  /\ loading' = "read"
  /\ UNCHANGED <<installed, source, stage, replication, copyVars, once, loaded, atStart, faults>>

\* The rules that the snapshot has are set, none is deleted; 'load' is emitted.
LoadAllDocs ==
  /\ loading = "read"
  /\ docs' = [r \in Rules |-> IF Live(snapshot[r]) THEN SetDoc(snapshot[r], docs[r]) ELSE docs[r]]
  /\ seen' = [r \in Rules |-> IF Live(snapshot[r]) THEN snapshot[r] ELSE seen[r]]
  /\ loading' = "no" /\ snapshot' = None /\ loaded' = TRUE
  /\ UNCHANGED <<installed, source, stage, replication, db, batch, once, atStart, faults>>

-----------------------------------------------------------------------------
(* What the cache is for.                                                  *)

\* matchWithDBNames: the update listener dirties the change listeners of these.
MatchWithDBNames(dbNames) ==
  {n \in dbNames : \E r \in Rules : docs[r] # 0 /\ n \in Written[r][docs[r]].db_name}

\* What re.test makes of a property.
Tested(value) == IF value = "missing" THEN "undefined" ELSE value

\* Mutant: null stands for a property that is not there, and for no other.
ConditionMissing(c, doc) ==
  IF c.null THEN doc[c.name] = "missing" ELSE Tested(doc[c.name]) \in c.re

\* One round of the loop over onChange.if.
Condition(c, doc) ==
  IF c.null THEN doc[c.name] \in {"missing", "null"} ELSE Tested(doc[c.name]) \in c.re

\* getMatchingOnChanges: the change listener makes the requests of these.
GetMatchingOnChanges(dbName, doc) ==
  {r \in Rules : /\ docs[r] # 0
                 /\ dbName \in Written[r][docs[r]].db_name
                 /\ \A c \in Written[r][docs[r]].if : Condition(c, doc)}

-----------------------------------------------------------------------------

Next ==
  \/ installed # "yes" /\ Install
  \/ \E r \in Rules : EditRule(r)
  \/ Check \/ Start \/ Started \/ Stop \/ Exit
  \/ WriteBatch \/ OnChange \/ CaughtUp \/ RequestFails \/ Retry \/ OnError
  \/ ReadAllDocs \/ LoadAllDocs

Spec == Init /\ [][Next]_vars

\* The replication goes on as long as it is not ended, a promise that resolves
\* has its callback called, and a process that is down is started again.
FairSpec ==
  /\ Spec
  /\ WF_vars(Check) /\ WF_vars(Start) /\ WF_vars(Started)
  /\ WF_vars(WriteBatch) /\ WF_vars(OnChange) /\ WF_vars(CaughtUp) /\ WF_vars(Retry)
  /\ WF_vars(ReadAllDocs) /\ WF_vars(LoadAllDocs)
  /\ WF_vars(stage = "stopping" /\ replication = "off" /\ Exit)

-----------------------------------------------------------------------------
(* Properties.                                                             *)

Revs == [Rules -> 0..MaxRev]

\* The type invariant, and when the process and its promises are where.
TypeOK ==
  /\ installed \in {"no", "created", "yes"}
  /\ source \in Revs /\ db \in Revs /\ docs \in Revs /\ seen \in Revs /\ atStart \in Revs
  /\ stage \in {"down", "checked", "loading", "up", "stopping"}
  /\ replication \in {"off", "active", "failed", "ended"}
  /\ batch \in SUBSET Rules
  /\ once \in BOOLEAN /\ loaded \in BOOLEAN
  /\ loading \in {"no", "asked", "read"} /\ snapshot \in Revs
  /\ faults \in 0..MaxFaults
  /\ once => ~loaded /\ loading = "no"
  /\ stage = "up" => loaded
  /\ \A r \in Rules : docs[r] # 0 => Live(docs[r])

\* "Alert that the data has been loaded and is ready to be used" (_onPaused): the
\* first batch of updates or changes is matched against all the rules there were
\* when the process started, or later revisions of them.
LoadedIsComplete == loaded => \A r \in Rules : seen[r] >= atStart[r]

\* Does a rule, as a user has written it, apply to a change?  "Matches against a
\* DB name", "on_change only applies if this condition is met" and "Specifying
\* null instead of a reg-ex in the if clause means property is null or missing"
\* (DESIGN.md).
Applies(r, dbName, doc) ==
  /\ Live(source[r])
  /\ dbName \in Written[r][source[r]].db_name
  /\ \A c \in Written[r][source[r]].if :
       IF c.null THEN doc[c.name] \in {"missing", "null"} ELSE doc[c.name] \in c.re

\* Once the copy has caught up, a change is matched with the rules that apply to
\* it and with no other, be they edited, destroyed or written anew, before or
\* after the load; and the update listener does not leave out its database.
MatchedAsWritten ==
  stage = "up" /\ db = source /\ batch = {} /\ loading = "no" =>
    \A n \in DBNames, doc \in Documents :
      LET applying == {r \in Rules : Applies(r, n, doc)}
      IN /\ GetMatchingOnChanges(n, doc) = applying
         /\ applying # {} => n \in MatchWithDBNames(DBNames)

\* A rule that was changed or destroyed does not come back as it was.
NeverBack == [][stage' # "down" => \A r \in Rules : seen'[r] >= seen[r]]_vars

\* "make sure this propagates" (test/spec/on-changes.js): in the end a process
\* that stays up, and whose replication has not ended, has each rule as it is in
\* the spiegel database, and does not have those that were destroyed.
CacheFollows ==
  \A r \in Rules, n \in 0..MaxRev :
    stage = "up" /\ source[r] = n ~>
      \/ source[r] # n \/ stage # "up" \/ replication = "ended"
      \/ docs[r] = IF Live(n) THEN n ELSE 0
=============================================================================
