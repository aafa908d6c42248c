-------------------------- MODULE ChangeProcessor ---------------------------
(***************************************************************************)
(* The API requests of the batches of one change listener                  *)
(* (src/src/change-processor.js, and _processChanges and _waitForRequests  *)
(* of src/src/change-listeners.js).  The changes of a batch are handled    *)
(* one after the other, the rules (on_change documents) that match one     *)
(* change together; requests are pushed on an array, and at the end of the *)
(* batch the requests in the array are awaited.                            *)
(*                                                                         *)
(* Every rule matches every change here.  The resource of a debounced rule *)
(* is its url as the rule has it, variables and all, and its parameters,   *)
(* which do not depend on the change: a rule has one resource, even if the *)
(* url of its requests names the change.  The Debouncer of squadron is     *)
(* external: the first request of a resource runs at once, the second is   *)
(* queued until the first is over, the rest are ignored while one is       *)
(* queued (test/spec/change-processor.js) and have the promise of that one.*)
(***************************************************************************)
EXTENDS Naturals, FiniteSets

CONSTANTS
  Rules,       \* the on_change documents
  Block,       \* block of each rule: "true", "false" or "undefined"
  Debounced,   \* the rules with debounce
  OwnUrl,      \* the rules whose url has a variable of the change
  BatchSize,   \* how many changes a batch has
  MaxChanges,  \* how many changes the database has
  NodeExits,   \* does an unhandled rejection end the process (node 15)?
  MaxFaults    \* bound: how many requests fail and processes are killed

ASSUME ChangeProcessorAssumption ==
  /\ Block \in [Rules -> {"true", "false", "undefined"}]
  /\ Debounced \subseteq Rules
  /\ OwnUrl \subseteq Rules
  /\ BatchSize \in Nat \ {0}
  /\ MaxChanges \in Nat
  /\ NodeExits \in BOOLEAN
  /\ MaxFaults \in Nat

VARIABLES
  last_seq,  \* last_seq of the listener
  phase,     \* of the batch: none, matching a change, awaiting its promises, or all
  batches,   \* how many batches have begun
  upTo,      \* the last change of the batch
  pos,       \* the change that is handled
  array,     \* the requests of the batch's array
  flight,    \* the requests that have no answer yet
  queue,     \* the requests queued by the Debouncer
  failed,    \* the requests of this batch, or awaited by it, that have failed
  awaits,    \* the requests awaited now
  watched,   \* the requests whose rejection somebody handles
  started,   \* per rule, the changes its running debounced request stands for
  called,    \* per rule, the changes a request was asked for
  served,    \* per rule, the changes a request has succeeded for
  retried,   \* how the last failed batch is retried
  faults     \* how many faults have happened

memory == <<array, flight, queue, failed, awaits, watched>>
ghosts == <<started, called, served>>
vars == <<last_seq, phase, batches, upTo, pos, array, flight, queue, failed,
          awaits, watched, started, called, served, retried, faults>>

Changes  == 1..MaxChanges
Request  == [rule : Rules, change : Changes, batch : Nat]
Blocks(r) == Block[r] = "true"
Open     == flight \cup queue

Init ==
  /\ last_seq = 0
  /\ phase = "none"
  /\ batches = 0 /\ upTo = 0 /\ pos = 0
  /\ array = {} /\ flight = {} /\ queue = {}
  /\ failed = {} /\ awaits = {} /\ watched = {}
  /\ started = [r \in Rules |-> {}]
  /\ called = [r \in Rules |-> {}]
  /\ served = [r \in Rules |-> {}]
  /\ retried = "no"
  /\ faults = 0

-----------------------------------------------------------------------------
(* A batch.                                                                *)

\* Mutant: the change at last_seq is read again.
BeginBatchAtSeq ==
  /\ phase = "none"
  /\ last_seq < MaxChanges
  /\ phase' = "matching"
  /\ batches' = batches + 1
  /\ upTo' = IF last_seq + BatchSize < MaxChanges THEN last_seq + BatchSize ELSE MaxChanges
  /\ pos' = last_seq
  /\ array' = {} /\ failed' = {} /\ awaits' = {}
  /\ retried' = "no"
  /\ UNCHANGED <<last_seq, flight, queue, watched, ghosts, faults>>

\* _changesForListener, and the first link of the chain of _processChanges.
BeginBatch ==
  /\ phase = "none"
  /\ last_seq < MaxChanges
  /\ phase' = "matching"
  /\ batches' = batches + 1
  /\ upTo' = IF last_seq + BatchSize < MaxChanges THEN last_seq + BatchSize ELSE MaxChanges
  /\ pos' = last_seq + 1
  /\ array' = {} /\ failed' = {} /\ awaits' = {}
  /\ retried' = "no"
  /\ UNCHANGED <<last_seq, flight, queue, watched, ghosts, faults>>

Call(r) == [rule |-> r, change |-> pos, batch |-> batches]
Of(S, r) == {q \in S : q.rule = r}

\* Mutant: a blocking request is awaited only once it runs.
MakeRequestsNoQueue ==
  /\ phase = "matching"
  /\ LET runs   == {Call(r) : r \in {s \in Rules : s \in Debounced => Of(flight, s) = {}}}
         queued == {Call(r) : r \in {s \in Debounced : Of(flight, s) # {} /\ Of(queue, s) = {}}}
     IN /\ array' = array \cup runs
        /\ flight' = flight \cup runs
        /\ queue' = queue \cup queued
        /\ awaits' = {q \in runs : Blocks(q.rule)}
        /\ watched' = watched \cup awaits'
        /\ called' = [r \in Rules |-> called[r] \cup {pos}]
        /\ started' = [r \in Rules |-> IF Call(r) \in runs THEN called'[r] ELSE started[r]]
  /\ phase' = "blocked"
  /\ UNCHANGED <<last_seq, batches, upTo, pos, failed, served, retried, faults>>

\* _makeRequests: one request for each rule, run or debounced in the same turn
\* of the event loop.  Those of the rules that block are awaited.
MakeRequests ==
  /\ phase = "matching"
  /\ LET runs   == {Call(r) : r \in {s \in Rules : s \in Debounced => Of(flight, s) = {}}}
         queued == {Call(r) : r \in {s \in Debounced : Of(flight, s) # {} /\ Of(queue, s) = {}}}
     IN /\ array' = array \cup runs
        /\ flight' = flight \cup runs
        /\ queue' = queue \cup queued
        /\ awaits' = {q \in runs : Blocks(q.rule)}
                       \cup {q \in queue' : Blocks(q.rule) /\ Call(q.rule) \notin runs}
        /\ watched' = watched \cup awaits'
        /\ called' = [r \in Rules |-> called[r] \cup {pos}]
        /\ started' = [r \in Rules |-> IF Call(r) \in runs THEN called'[r] ELSE started[r]]
  /\ phase' = "blocked"
  /\ UNCHANGED <<last_seq, batches, upTo, pos, failed, served, retried, faults>>

\* Mutant: the promises of the change are not awaited.
NextChangeNoWait ==
  /\ phase = "blocked"
  /\ IF pos < upTo
       THEN /\ pos' = pos + 1 /\ phase' = "matching"
            /\ awaits' = {} /\ UNCHANGED watched
       ELSE /\ UNCHANGED pos /\ phase' = "waiting"
            /\ awaits' = array /\ watched' = watched \cup array
  /\ UNCHANGED <<last_seq, batches, upTo, array, flight, queue, failed, ghosts,
                 retried, faults>>

\* Mutant: the last change of a batch is left out.
NextChangeButLast ==
  /\ phase = "blocked"
  /\ awaits \cap (Open \cup failed) = {}
  /\ IF pos + 1 < upTo
       THEN /\ pos' = pos + 1 /\ phase' = "matching"
            /\ awaits' = {} /\ UNCHANGED watched
       ELSE /\ UNCHANGED pos /\ phase' = "waiting"
            /\ awaits' = array /\ watched' = watched \cup array
  /\ UNCHANGED <<last_seq, batches, upTo, array, flight, queue, failed, ghosts,
                 retried, faults>>

\* The promises of the change are resolved: on to the next change, or to
\* _waitForRequests, whose Promise.all awaits what the array holds by then.
NextChange ==
  /\ phase = "blocked"
  /\ awaits \cap (Open \cup failed) = {}
  /\ IF pos < upTo
       THEN /\ pos' = pos + 1 /\ phase' = "matching"
            /\ awaits' = {} /\ UNCHANGED watched
       ELSE /\ UNCHANGED pos /\ phase' = "waiting"
            /\ awaits' = array /\ watched' = watched \cup array
  /\ UNCHANGED <<last_seq, batches, upTo, array, flight, queue, failed, ghosts,
                 retried, faults>>

\* The request of a rule that blocks has failed.  The error leaves the chain:
\* _processBatchOfChangesLogError leaves the listener dirty.
BlockingFails ==
  /\ phase = "blocked"
  /\ awaits \cap failed # {}
  /\ phase' = "none"
  /\ retried' = "now"
  /\ UNCHANGED <<last_seq, batches, upTo, pos, memory, ghosts, faults>>

\* Promise.all rejects with the first request that fails: _scheduleRetry.
AwaitedFails ==
  /\ phase = "waiting"
  /\ awaits \cap failed # {}
  /\ phase' = "none"
  /\ retried' = "later"
  /\ UNCHANGED <<last_seq, batches, upTo, pos, memory, ghosts, faults>>

\* All have succeeded: _updateLastSeq.
AwaitedSucceed ==
  /\ phase = "waiting"
  /\ awaits \cap (Open \cup failed) = {}
  /\ phase' = "none"
  /\ last_seq' = upTo
  /\ UNCHANGED <<batches, upTo, pos, memory, ghosts, retried, faults>>

-----------------------------------------------------------------------------
(* The answers.                                                            *)

\* The request is over: the Debouncer runs the one it has queued, which pushes
\* itself on the array of the batch that asked for it.
Finish(q) ==
  LET next == Of(queue, q.rule)
  IN /\ flight' = (flight \ {q}) \cup next
     /\ queue' = queue \ next
     /\ array' = array \cup {n \in next : n.batch = batches}
     /\ started' = [started EXCEPT ![q.rule] = IF next = {} THEN @ ELSE called[q.rule]]

Succeeds(q) ==
  /\ q \in flight
  /\ Finish(q)
  /\ served' = [served EXCEPT ![q.rule] =
                  @ \cup (IF q.rule \in Debounced \ OwnUrl THEN started[q.rule]
                                                        ELSE {q.change})]
  /\ UNCHANGED <<last_seq, phase, batches, upTo, pos, failed, awaits, watched,
                 called, retried, faults>>

Fault == faults < MaxFaults /\ faults' = faults + 1

\* Somebody handles the rejection, of the request and, if it is debounced, of
\* the promise of the Debouncer, which nobody but a rule that blocks awaits.
Watched(q) == q \in watched /\ (q.rule \in Debounced => Blocks(q.rule))

\* A network error or a status that is not 2xx.
Fails(q) ==
  /\ q \in flight
  /\ NodeExits => Watched(q)
  /\ Fault
  /\ Finish(q)
  /\ failed' = IF q.batch = batches \/ q \in awaits THEN failed \cup {q} ELSE failed
  /\ UNCHANGED <<last_seq, phase, batches, upTo, pos, awaits, watched, called,
                 served, retried>>

\* The process ends, and starts again with nothing in memory.
End ==
  /\ phase' = "none"
  /\ flight' = {} /\ queue' = {} /\ array' = {}
  /\ failed' = {} /\ awaits' = {} /\ watched' = {}
  /\ UNCHANGED <<last_seq, batches, upTo, pos, ghosts, retried>>

FailsUnhandled(q) ==
  /\ q \in flight
  /\ ~Watched(q) /\ NodeExits
  /\ Fault
  /\ End

Crash == phase # "none" /\ Fault /\ End

-----------------------------------------------------------------------------

BatchStep == BeginBatch \/ MakeRequests \/ NextChange \/ BlockingFails
               \/ AwaitedFails \/ AwaitedSucceed

Next ==
  \/ BatchStep
  \/ \E q \in flight : Succeeds(q) \/ Fails(q) \/ FailsUnhandled(q)
  \/ Crash

Spec == Init /\ [][Next]_vars

\* The event loop runs, and a request that does not fail has an answer.
FairSpec == Spec /\ WF_vars(BatchStep) /\ WF_vars(\E q \in flight : Succeeds(q))

-----------------------------------------------------------------------------
(* Properties.                                                             *)

\* The type invariant, and how the sets of requests are related.
TypeOK ==
  /\ last_seq \in 0..MaxChanges
  /\ phase \in {"none", "matching", "blocked", "waiting"}
  /\ batches \in Nat /\ upTo \in 0..MaxChanges /\ pos \in 0..MaxChanges
  /\ array \cup flight \cup queue \cup failed \cup awaits \cup watched \subseteq Request
  /\ array \cap queue = {} /\ flight \cap queue = {} /\ flight \cap failed = {}
  /\ started \in [Rules -> SUBSET Changes]
  /\ called \in [Rules -> SUBSET Changes]
  /\ served \in [Rules -> SUBSET Changes]
  /\ retried \in {"no", "later", "now"}
  /\ faults \in 0..MaxFaults
  /\ phase \in {"matching", "blocked"} => last_seq < pos /\ pos <= upTo
  /\ \A r \in Debounced : /\ Cardinality(Of(flight, r)) <= 1
                          /\ Of(queue, r) # {} => Of(flight, r) # {}

\* "Array of promises used to ensure that all requests have completed before
\* moving on to the next batch" (_processChanges): no change that last_seq has
\* passed is without a successful request of each rule, so that none of them is
\* lost when a request fails or the process dies.
ServedBeforeSeq == \A r \in Rules : 1..last_seq \subseteq served[r]

\* "If block=true|undefined then wait for response before moving on to next
\* change" (DESIGN.md): the requests that a batch makes for a rule that blocks
\* reach the API one change after the other.
InOrder ==
  \A q1, q2 \in flight :
    q1.rule = q2.rule /\ q1.batch = q2.batch /\ Blocks(q1.rule) => q1.change = q2.change

\* "Backoff policy allows us to retry failed API requests for change listeners
\* with delays in between requests" (ChangeListeners' constructor): a batch with
\* a failed request is not begun again at once.
BacksOff == retried # "now"

\* Every change is served by every rule in the end, and the listener caught up.
EventuallyServed == <>(last_seq = MaxChanges /\ \A r \in Rules : served[r] = Changes)
=============================================================================
