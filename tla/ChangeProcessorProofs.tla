----------------------- MODULE ChangeProcessorProofs ------------------------
(***************************************************************************)
(* For any rules, size of a batch, number of changes and bound on faults,  *)
(* through failing requests and killed processes.  Whatever the rules are, *)
(* the sets of requests stay apart and the changes of a batch reach a rule *)
(* that blocks one after the other (Requests).  If every debounced rule    *)
(* blocks, last_seq passes no change that a rule has not been served for   *)
(* (Serving).  The condition is needed: the queued request of a rule that  *)
(* does not block is awaited by nobody.                                    *)
(***************************************************************************)
EXTENDS ChangeProcessor, FiniteSetTheorems, TLAPS

Typed ==
  /\ last_seq \in 0..MaxChanges
  /\ phase \in {"none", "matching", "blocked", "waiting"}
  /\ batches \in Nat
  /\ upTo \in 0..MaxChanges
  /\ pos \in 0..MaxChanges
  /\ flight \cup queue \subseteq Request
  /\ started \in [Rules -> SUBSET Changes]
  /\ called \in [Rules -> SUBSET Changes]
  /\ served \in [Rules -> SUBSET Changes]
  /\ phase \in {"matching", "blocked"} => last_seq < pos /\ pos <= upTo
  /\ phase = "waiting" => last_seq < pos /\ pos = upTo

\* The Debouncer: at most one request of a rule runs, one is queued behind it.
OneRuns ==
  /\ \A q1, q2 \in flight : q1.rule = q2.rule /\ q1.rule \in Debounced => q1 = q2
  /\ \A q1, q2 \in queue : q1.rule = q2.rule => q1 = q2
  /\ \A q \in queue : q.rule \in Debounced /\ \E q2 \in flight : q2.rule = q.rule

\* A request that the present batch is still to make is new, and one that has
\* failed does not run.
Apart ==
  /\ array \cup failed \cup awaits \cup watched \subseteq Request
  /\ \A q \in array \cup flight \cup queue \cup failed :
       /\ q.batch <= batches
       /\ q.batch = batches =>
            IF phase = "matching" THEN q.change < pos ELSE q.change <= pos
  /\ array \cap queue = {} /\ flight \cap queue = {} /\ failed \cap (flight \cup queue) = {}

\* What a rule that blocks, and is not debounced, has asked for in this batch is
\* awaited while it runs.
BlockingAwaited ==
  \A q \in flight :
    q.batch = batches /\ Blocks(q.rule) /\ q.rule \notin Debounced =>
      /\ phase \notin {"matching", "waiting"}
      /\ phase = "blocked" => q \in awaits /\ q.change = pos

Counters == retried \in {"no", "later", "now"} /\ faults \in 0..MaxFaults

\* What holds whatever rules there are.
Requests == /\ Typed /\ Counters
            /\ OneRuns
            /\ Apart
            /\ BlockingAwaited
            /\ InOrder

\* Change c of the batch has been handed to the rules, and if it is the last one
\* also awaited.
HandedOn(c) == last_seq < c /\ (c < pos \/ (c = pos /\ phase # "matching"))
DoneWith(c) == last_seq < c /\ (c < pos \/ (c = pos /\ phase = "waiting"))

\* A request that is still in the way of the end of the batch.
Hinders(q) == /\ q \in flight \cup failed
              /\ q \in IF phase = "waiting" THEN awaits ELSE array

\* A regular rule is served, or its request is in the array of the batch.
RegularInArray ==
  phase # "none" =>
    \A r \in Rules \ Debounced, c \in Changes :
      HandedOn(c) => \/ c \in served[r]
                     \/ \E q \in Request : /\ q.rule = r /\ q.change = c /\ q.batch = batches
                                           /\ Hinders(q)

\* A request whose url names a change serves that change only.
ForPos(q) == q.rule \in OwnUrl => q.change = pos

\* The request of a debounced rule that will serve the change that is handled.
WillServe(r) ==
  \E q \in awaits : /\ q.rule = r
                    /\ \/ q \in failed
                       \/ q \in flight /\ pos \in started[r] /\ ForPos(q)
                       \/ q \in queue /\ pos \in called[r] /\ ForPos(q)

\* A debounced rule has been awaited for every change but the present one.
DebouncedAwaited ==
  phase # "none" =>
    \A r \in Debounced :
      /\ \A c \in Changes : DoneWith(c) => c \in served[r]
      /\ phase = "blocked" => pos \in served[r] \/ WillServe(r)

\* The debounced rules wait for their requests change by change, so that what is
\* left from a batch that has failed, and queued by the next, is for the change
\* with which both begin.
OneAtATime ==
  /\ \A q \in queue : q.change = last_seq + 1
  /\ phase = "matching" /\ pos # last_seq + 1 => \A q \in flight : q.rule \notin Debounced
  /\ phase = "blocked" =>
       /\ queue \subseteq awaits
       /\ \A q \in flight : q.rule \in Debounced =>
            q \in awaits \/ \E n \in queue : n.rule = q.rule
  /\ phase = "waiting" => queue = {}

Serving == /\ RegularInArray
           /\ DebouncedAwaited
           /\ OneAtATime
           /\ ServedBeforeSeq

Inv == Requests /\ Serving

\* The condition of the theorem.
DebouncedBlock == \A r \in Debounced : Blocks(r)

-----------------------------------------------------------------------------
(***************************************************************************)
(* The requests, whatever rules there are.                                 *)

LEMMA InitRequests == Init => Requests
<1> SUFFICES ASSUME Init PROVE Requests
  OBVIOUS
<1> USE ChangeProcessorAssumption
<1>1. Typed /\ Counters
  BY DEF Init, Typed, Counters
<1>2. OneRuns /\ Apart /\ BlockingAwaited /\ InOrder
  BY DEF Init, OneRuns, Apart, BlockingAwaited, InOrder
<1> QED
  BY <1>1, <1>2 DEF Requests

\* A batch begins: what is there is of an earlier one.
LEMMA BeginRequests ==
  ASSUME Requests, BeginBatch
  PROVE  Requests'
<1> USE ChangeProcessorAssumption
<1>1. Typed' /\ Counters'
  BY DEF Requests, BeginBatch, Typed, Counters, ghosts
<1>2. OneRuns' /\ InOrder'
  BY DEF Requests, BeginBatch, OneRuns, InOrder
<1>3. \A q \in flight \cup queue : q.batch < batches'
  <2>1. batches' = batches + 1 /\ batches \in Nat
    BY DEF BeginBatch, Requests, Typed
  <2>2. \A q \in flight \cup queue : q.batch \in Nat /\ q.batch <= batches
    BY DEF Requests, Typed, Apart, Request
  <2> QED
    BY <2>1, <2>2
<1>4. /\ array' = {} /\ failed' = {} /\ awaits' = {}
      /\ UNCHANGED <<flight, queue, watched>>
  BY DEF BeginBatch
<1>5. \A q \in flight \cup queue : q.batch <= batches' /\ q.batch # batches'
  BY <1>3, <1>1 DEF Requests, Typed, Request
<1>6. Apart'
  BY <1>4, <1>5 DEF Requests, Apart
<1>7. BlockingAwaited'
  BY <1>4, <1>5 DEF BlockingAwaited
<1> QED
  BY <1>1, <1>2, <1>6, <1>7 DEF Requests

\* The requests of a change are made: none of them was there before.
LEMMA MakeRequestsOfChange ==
  ASSUME Requests, MakeRequests
  PROVE  Requests'
<1> USE ChangeProcessorAssumption
<1> DEFINE runs   == {Call(r) : r \in {s \in Rules : s \in Debounced => Of(flight, s) = {}}}
           queued == {Call(r) : r \in {s \in Debounced : Of(flight, s) # {} /\ Of(queue, s) = {}}}
<1>1. /\ array' = array \cup runs
      /\ flight' = flight \cup runs
      /\ queue' = queue \cup queued
      /\ awaits' = {q \in runs : Blocks(q.rule)}
                     \cup {q \in queue' : Blocks(q.rule) /\ Call(q.rule) \notin runs}
      /\ watched' = watched \cup awaits'
      /\ called' = [r \in Rules |-> called[r] \cup {pos}]
      /\ started' = [r \in Rules |-> IF Call(r) \in runs THEN called'[r] ELSE started[r]]
      /\ phase = "matching" /\ phase' = "blocked"
      /\ UNCHANGED <<last_seq, batches, upTo, pos, failed, served, retried, faults>>
  BY DEF MakeRequests
<1>2. pos \in Changes /\ batches \in Nat
  BY <1>1 DEF Requests, Typed, Changes
<1>3. \A r \in Rules : /\ Call(r) \in Request /\ Call(r).rule = r /\ Call(r).change = pos
                       /\ Call(r).batch = batches
  BY <1>2 DEF Call, Request
<1>4. /\ \A q \in runs : /\ q \in Request /\ q = Call(q.rule)
                         /\ q.change = pos /\ q.batch = batches
                         /\ q.rule \in Debounced => Of(flight, q.rule) = {}
      /\ \A q \in queued : /\ q \in Request /\ q = Call(q.rule) /\ q.rule \in Debounced
                           /\ q.change = pos /\ q.batch = batches
                           /\ Of(flight, q.rule) # {} /\ Of(queue, q.rule) = {}
  BY <1>3
<1> HIDE DEF runs, queued
<1>5. Typed' /\ Counters'
  BY <1>1, <1>2, <1>4 DEF Requests, Typed, Counters
<1>6. OneRuns'
  <2>1. \A q1, q2 \in flight' : q1.rule = q2.rule /\ q1.rule \in Debounced => q1 = q2
    BY <1>1, <1>4 DEF Requests, OneRuns, Of
  <2>2. \A q1, q2 \in queue' : q1.rule = q2.rule => q1 = q2
    BY <1>1, <1>4 DEF Requests, OneRuns, Of
  <2>3. \A q \in queue' : q.rule \in Debounced /\ \E q2 \in flight' : q2.rule = q.rule
    BY <1>1, <1>4 DEF Requests, OneRuns, Of
  <2> QED
    BY <2>1, <2>2, <2>3 DEF OneRuns
<1>7. \A q \in array \cup flight \cup queue \cup failed :
        q.batch = batches => q.change < pos /\ q.change <= pos /\ q.change # pos
  <2>1. \A q \in array \cup flight \cup queue \cup failed :
          q.change \in Nat /\ (q.batch = batches => q.change < pos)
    BY <1>1 DEF Requests, Typed, Apart, Request, Changes
  <2> QED
    BY <1>2, <2>1 DEF Changes
<1>8. runs \cap queued = {}
  BY <1>4
<1>9. Apart'
  <2>1. (array' \cup failed' \cup awaits' \cup watched') \subseteq Request
    BY <1>1, <1>4, <1>5 DEF Requests, Apart, Typed
  <2>2. \A q \in array' \cup flight' \cup queue' \cup failed' :
          q.batch <= batches' /\ (q.batch = batches' => q.change <= pos')
    BY <1>1, <1>2, <1>4, <1>7 DEF Requests, Apart, Changes
  <2>3. array' \cap queue' = {} /\ flight' \cap queue' = {}
    BY <1>1, <1>4, <1>7, <1>8 DEF Requests, Apart
  <2>4. failed' \cap (flight' \cup queue') = {}
    BY <1>1, <1>4, <1>7 DEF Requests, Apart
  <2> QED
    BY <1>1, <2>1, <2>2, <2>3, <2>4 DEF Apart
<1>10. BlockingAwaited'
  BY <1>1, <1>4 DEF Requests, BlockingAwaited
<1>11. InOrder'
  <2>1. ASSUME NEW q1 \in flight', NEW q2 \in flight',
               q1.rule = q2.rule, q1.batch = q2.batch, Blocks(q1.rule)
        PROVE  q1.change = q2.change
    <3>1. CASE q1.rule \in Debounced
      BY <1>6, <2>1, <3>1 DEF OneRuns
    <3>2. CASE q1.batch = batches /\ q1.rule \notin Debounced
      BY <1>1, <1>10, <2>1, <3>2 DEF BlockingAwaited
    <3>3. CASE q1.batch # batches
      BY <1>1, <1>4, <2>1, <3>3 DEF Requests, InOrder
    <3> QED
      BY <3>1, <3>2, <3>3
  <2> QED
    BY <2>1 DEF InOrder
<1> QED
  BY <1>5, <1>6, <1>9, <1>10, <1>11 DEF Requests

\* The promises of the change are resolved: what the batch has awaited is over.
LEMMA NextChangeRequests ==
  ASSUME Requests, NextChange
  PROVE  Requests'
<1> USE ChangeProcessorAssumption
<1>1. /\ phase = "blocked" /\ awaits \cap (flight \cup queue \cup failed) = {}
      /\ \/ pos < upTo /\ pos' = pos + 1 /\ phase' = "matching" /\ awaits' = {} /\ watched' = watched
         \/ /\ ~(pos < upTo) /\ pos' = pos /\ phase' = "waiting"
            /\ awaits' = array /\ watched' = watched \cup array
      /\ UNCHANGED <<last_seq, batches, upTo, array, flight, queue, failed, started, called,
                     served, retried, faults>>
  BY DEF NextChange, Open, ghosts
<1>2. Typed' /\ Counters'
  BY <1>1 DEF Requests, Typed, Counters
<1>3. OneRuns' /\ InOrder'
  BY <1>1 DEF Requests, OneRuns, InOrder
<1>4. BlockingAwaited'
  BY <1>1 DEF Requests, BlockingAwaited
<1>5. Apart'
  <2>1. (array' \cup failed' \cup awaits' \cup watched') \subseteq Request
    BY <1>1 DEF Requests, Apart
  <2>2. ASSUME NEW q \in array \cup flight \cup queue \cup failed
        PROVE  /\ q.batch <= batches
               /\ q.batch = batches =>
                    IF phase' = "matching" THEN q.change < pos' ELSE q.change <= pos'
    <3>1. q.change \in Nat /\ pos \in Nat
      BY DEF Requests, Typed, Apart, Request, Changes
    <3>2. q.batch <= batches /\ (q.batch = batches => q.change <= pos)
      BY <1>1, <2>2 DEF Requests, Apart
    <3> QED
      BY <1>1, <3>1, <3>2
  <2> QED
    BY <1>1, <2>1, <2>2 DEF Requests, Apart
<1> QED
  BY <1>2, <1>3, <1>4, <1>5 DEF Requests

\* The batch ends.
LEMMA EndRequests ==
  ASSUME Requests, BlockingFails \/ AwaitedFails \/ AwaitedSucceed
  PROVE  Requests'
<1> USE ChangeProcessorAssumption
<1>1. /\ phase \in {"blocked", "waiting"} /\ phase' = "none"
      /\ UNCHANGED <<batches, upTo, pos, array, flight, queue, failed, awaits, watched,
                     started, called, served, faults>>
      /\ retried' \in {retried, "later", "now"}
      /\ last_seq' \in {last_seq, upTo}
  BY DEF BlockingFails, AwaitedFails, AwaitedSucceed, memory, ghosts
<1>2. Typed' /\ Counters'
  BY <1>1 DEF Requests, Typed, Counters
<1>3. OneRuns' /\ InOrder' /\ BlockingAwaited' /\ Apart'
  BY <1>1 DEF Requests, OneRuns, InOrder, BlockingAwaited, Apart
<1> QED
  BY <1>2, <1>3 DEF Requests

\* A request is over and the one queued behind it, if any, runs.
LEMMA FinishRequests ==
  ASSUME Requests, NEW q \in flight, Finish(q),
         UNCHANGED <<last_seq, phase, batches, upTo, pos, awaits, watched, called>>,
         failed' \in {failed, failed \cup {q}},
         served' \in [Rules -> SUBSET Changes],
         Counters'
  PROVE  Requests'
<1> DEFINE next == Of(queue, q.rule)
<1>1. /\ flight' = (flight \ {q}) \cup next
      /\ queue' = queue \ next
      /\ array' = array \cup {n \in next : n.batch = batches}
      /\ started' = [started EXCEPT ![q.rule] = IF next = {} THEN @ ELSE called[q.rule]]
  BY DEF Finish
<1>2. \A n : n \in next <=> n \in queue /\ n.rule = q.rule
  BY DEF Of
<1>3. q \in Request /\ q.rule \in Rules /\ called[q.rule] \in SUBSET Changes
  BY DEF Requests, Typed, Request
<1> HIDE DEF next
<1>4. Typed'
  <2>1. started' \in [Rules -> SUBSET Changes]
    BY <1>1, <1>3 DEF Requests, Typed
  <2> QED
    BY <1>1, <1>2, <2>1 DEF Requests, Typed
<1>5. OneRuns'
  <2>1. \A q1, q2 \in flight' : q1.rule = q2.rule /\ q1.rule \in Debounced => q1 = q2
    BY <1>1, <1>2 DEF Requests, OneRuns
  <2>2. \A q1, q2 \in queue' : q1.rule = q2.rule => q1 = q2
    BY <1>1 DEF Requests, OneRuns
  <2>3. \A q1 \in queue' : q1.rule \in Debounced /\ \E q2 \in flight' : q2.rule = q1.rule
    BY <1>1, <1>2 DEF Requests, OneRuns
  <2> QED
    BY <2>1, <2>2, <2>3 DEF OneRuns
<1>6. /\ array' \subseteq array \cup queue /\ flight' \subseteq flight \cup queue
      /\ queue' \subseteq queue /\ failed' \subseteq failed \cup {q}
  BY <1>1, <1>2
<1>7. Apart'
  <2>1. (array' \cup failed' \cup awaits' \cup watched') \subseteq Request
    BY <1>3, <1>6 DEF Requests, Apart, Typed
  <2>2. array' \cap queue' = {} /\ flight' \cap queue' = {}
    BY <1>1, <1>2 DEF Requests, Apart
  <2>3. failed' \cap (flight' \cup queue') = {}
    BY <1>1, <1>2 DEF Requests, Apart
  <2> QED
    BY <1>6, <2>1, <2>2, <2>3 DEF Requests, Apart
<1>8. \A p \in flight' : p.rule \notin Debounced => p \in flight
  BY <1>1, <1>2 DEF Requests, OneRuns
<1>9. BlockingAwaited'
  BY <1>8 DEF Requests, BlockingAwaited
<1>10. InOrder'
  BY <1>5, <1>8 DEF Requests, OneRuns, InOrder
<1> QED
  BY <1>4, <1>5, <1>7, <1>9, <1>10 DEF Requests

LEMMA SucceedsRequests ==
  ASSUME Requests, NEW q \in flight, Succeeds(q)
  PROVE  Requests'
<1>1. q.rule \in Rules /\ q.change \in Changes
  BY DEF Requests, Typed, Request
<1>2. served' \in [Rules -> SUBSET Changes]
  BY <1>1 DEF Requests, Typed, Succeeds
<1>3. Counters'
  BY DEF Requests, Counters, Succeeds
<1> QED
  BY <1>2, <1>3, FinishRequests DEF Succeeds

LEMMA FailsRequests ==
  ASSUME Requests, NEW q \in flight, Fails(q)
  PROVE  Requests'
<1>1. Counters'
  BY ChangeProcessorAssumption DEF Requests, Counters, Fails, Fault
<1> QED
  BY <1>1, FinishRequests DEF Fails, Requests, Typed

\* The process ends.
LEMMA CrashRequests ==
  ASSUME Requests, Fault, End
  PROVE  Requests'
<1>1. Typed' /\ Counters'
  BY ChangeProcessorAssumption DEF Requests, Typed, Counters, End, Fault, ghosts
<1>2. OneRuns' /\ Apart' /\ BlockingAwaited' /\ InOrder'
  BY DEF End, OneRuns, Apart, BlockingAwaited, InOrder
<1> QED
  BY <1>1, <1>2 DEF Requests

LEMMA RequestsInductive ==
  ASSUME Requests, [Next]_vars
  PROVE  Requests'
<1>1. CASE BatchStep
  BY <1>1, BeginRequests, MakeRequestsOfChange, NextChangeRequests, EndRequests DEF BatchStep
<1>2. CASE \E q \in flight : Succeeds(q) \/ Fails(q) \/ FailsUnhandled(q)
  BY <1>2, SucceedsRequests, FailsRequests, CrashRequests DEF FailsUnhandled
<1>3. CASE Crash
  BY <1>3, CrashRequests DEF Crash
<1>4. CASE UNCHANGED vars
  BY <1>4 DEF vars, Requests, Typed, Counters, OneRuns, Apart, BlockingAwaited, InOrder
<1> QED
  BY <1>1, <1>2, <1>3, <1>4 DEF Next

\* A set with no two elements has at most one.
LEMMA AtMostOne ==
  ASSUME NEW S, \A x, y \in S : x = y
  PROVE  Cardinality(S) <= 1
<1>1. CASE S = {}
  BY <1>1, FS_EmptySet
<1>2. CASE S # {}
  <2>1. PICK x \in S : S = {x}
    BY <1>2
  <2>2. Cardinality(S) = 1
    BY <2>1, FS_Singleton
  <2> QED
    BY <2>2
<1> QED
  BY <1>1, <1>2

\* The type invariant, and how the requests of a listener are related: what is
\* queued does not run yet, what has failed does not run any more, and the
\* Debouncer runs one request of a rule and queues none behind nothing.
THEOREM TypeCorrect == Spec => []TypeOK
<1>1. Requests => TypeOK
  <2> SUFFICES ASSUME Requests PROVE TypeOK
    OBVIOUS
  <2>1. \A r \in Debounced : Cardinality(Of(flight, r)) <= 1
    BY AtMostOne DEF Requests, OneRuns, Of
  <2>2. \A r \in Debounced : Of(queue, r) # {} => Of(flight, r) # {}
    BY DEF Requests, OneRuns, Of
  <2> QED
    BY <2>1, <2>2 DEF Requests, Typed, Counters, Apart, TypeOK
<1> QED
  BY <1>1, InitRequests, RequestsInductive, PTL DEF Spec

\* "If block=true|undefined then wait for response before moving on to next
\* change" (DESIGN.md): whatever fails or is killed, and whichever rules are
\* debounced, no two changes of a batch are with the API at once for a rule that
\* blocks.
THEOREM ChangesInOrder == Spec => []InOrder
<1>1. Requests => InOrder
  BY DEF Requests
<1> QED
  BY <1>1, InitRequests, RequestsInductive, PTL DEF Spec

-----------------------------------------------------------------------------
(* What the requests have served.                                          *)

LEMMA InitServing == Init => Serving
<1> SUFFICES ASSUME Init PROVE Serving
  OBVIOUS
<1>1. RegularInArray /\ DebouncedAwaited /\ OneAtATime
  BY DEF Init, RegularInArray, DebouncedAwaited, OneAtATime
<1>2. ServedBeforeSeq
  BY DEF Init, ServedBeforeSeq
<1> QED
  BY <1>1, <1>2 DEF Serving

\* A batch begins.
LEMMA BeginServing ==
  ASSUME Inv, BeginBatch
  PROVE  Serving'
<1> USE ChangeProcessorAssumption
<1>1. pos' = last_seq + 1 /\ phase' = "matching" /\ last_seq' = last_seq
  BY DEF BeginBatch
<1>2. \A c \in Changes : ~HandedOn(c)' /\ ~DoneWith(c)'
  BY <1>1 DEF Inv, Requests, Serving, Typed, HandedOn, DoneWith, Changes
<1>3. RegularInArray' /\ DebouncedAwaited'
  BY <1>1, <1>2 DEF RegularInArray, DebouncedAwaited
<1>4. ServedBeforeSeq'
  BY DEF Inv, Requests, Serving, BeginBatch, ServedBeforeSeq, ghosts
<1>5. OneAtATime'
  BY <1>1 DEF Inv, Requests, Serving, BeginBatch, OneAtATime
<1> QED
  BY <1>3, <1>4, <1>5 DEF Serving

\* The requests of a change are made.
LEMMA MakeServing ==
  ASSUME Inv, DebouncedBlock, MakeRequests
  PROVE  Serving'
<1> USE ChangeProcessorAssumption
<1> DEFINE runs   == {Call(r) : r \in {s \in Rules : s \in Debounced => Of(flight, s) = {}}}
           queued == {Call(r) : r \in {s \in Debounced : Of(flight, s) # {} /\ Of(queue, s) = {}}}
<1>1. /\ array' = array \cup runs
      /\ flight' = flight \cup runs
      /\ queue' = queue \cup queued
      /\ awaits' = {q \in runs : Blocks(q.rule)}
                     \cup {q \in queue' : Blocks(q.rule) /\ Call(q.rule) \notin runs}
      /\ called' = [r \in Rules |-> called[r] \cup {pos}]
      /\ started' = [r \in Rules |-> IF Call(r) \in runs THEN called'[r] ELSE started[r]]
      /\ phase = "matching" /\ phase' = "blocked"
      /\ UNCHANGED <<last_seq, batches, upTo, pos, failed, served>>
  BY DEF MakeRequests
<1>2. pos \in Changes /\ Typed
  BY <1>1 DEF Inv, Requests, Serving, Typed, Changes
<1>3. \A r \in Rules : /\ Call(r) \in Request /\ Call(r).rule = r /\ Call(r).change = pos
                       /\ Call(r).batch = batches
  BY <1>2 DEF Call, Request, Typed
<1>4. /\ \A q \in runs : /\ q \in Request /\ q = Call(q.rule)
                         /\ q.rule \in Debounced => Of(flight, q.rule) = {}
      /\ \A q \in queued : /\ q \in Request /\ q = Call(q.rule) /\ q.rule \in Debounced
                           /\ Of(flight, q.rule) # {} /\ Of(queue, q.rule) = {}
      /\ \A r \in Rules : r \in Debounced /\ Of(flight, r) # {} => Call(r) \notin runs
      /\ \A r \in Rules : (r \in Debounced => Of(flight, r) = {}) => Call(r) \in runs
      /\ \A r \in Debounced : Of(flight, r) # {} /\ Of(queue, r) = {} => Call(r) \in queued
  BY <1>3
<1> HIDE DEF runs, queued
<1>5. RegularInArray'
  <2>1. ASSUME NEW r \in Rules \ Debounced, NEW c \in Changes, HandedOn(c)', c \notin served'[r]
        PROVE  \E q \in Request : /\ q.rule = r /\ q.change = c /\ q.batch = batches'
                                  /\ Hinders(q)'
    <3>1. CASE c = pos
      BY <1>1, <1>3, <1>4, <3>1 DEF Hinders
    <3>2. CASE c # pos
      <4>1. HandedOn(c)
        BY <1>1, <2>1, <3>2 DEF HandedOn
      <4>2. PICK q \in Request : /\ q.rule = r /\ q.change = c /\ q.batch = batches
                                 /\ Hinders(q)
        BY <1>1, <2>1, <4>1 DEF Inv, Requests, Serving, RegularInArray
      <4>3. Hinders(q)'
        BY <1>1, <4>2 DEF Hinders
      <4> QED
        BY <1>1, <4>2, <4>3
    <3> QED
      BY <3>1, <3>2
  <2> QED
    BY <2>1 DEF RegularInArray
<1>6. \A q \in flight : q.rule \in Debounced => pos = last_seq + 1
  BY <1>1 DEF Inv, Requests, Serving, OneAtATime
<1>7. \A q \in queue' : q.change = pos /\ pos = last_seq + 1
  <2>1. \A q \in queue : q.change = pos /\ pos = last_seq + 1
    BY <1>6 DEF Inv, Requests, Serving, OneAtATime, OneRuns
  <2>2. \A q \in queued : q.change = pos /\ pos = last_seq + 1
    BY <1>2, <1>3, <1>4, <1>6 DEF Of, Request, Call
  <2> QED
    BY <1>1, <2>1, <2>2
<1>8. OneAtATime'
  <2>1. \A q \in queue' : q.change = last_seq' + 1
    BY <1>1, <1>7
  <2>2. queue' \subseteq awaits'
    <3>1. ASSUME NEW q \in queue' PROVE q.rule \in Debounced /\ q.rule \in Rules /\ Of(flight, q.rule) # {}
      BY <1>1, <1>4 DEF Inv, Requests, Serving, OneRuns, Of
    <3> QED
      BY <1>1, <1>4, <3>1 DEF DebouncedBlock
  <2>3. ASSUME NEW q \in flight', q.rule \in Debounced
        PROVE  q \in awaits' \/ \E n \in queue' : n.rule = q.rule
    <3>1. CASE q \in runs
      BY <1>1, <2>3, <3>1 DEF DebouncedBlock
    <3>2. CASE q \in flight
      <4>1. Of(flight, q.rule) # {}
        BY <3>2 DEF Of
      <4>2. CASE Of(queue, q.rule) = {}
        BY <1>1, <1>3, <1>4, <2>3, <4>1, <4>2
      <4>3. CASE Of(queue, q.rule) # {}
        BY <1>1, <4>3 DEF Of
      <4> QED
        BY <4>2, <4>3
    <3> QED
      BY <1>1, <3>1, <3>2
  <2> QED
    BY <1>1, <2>1, <2>2, <2>3 DEF OneAtATime
<1>9. DebouncedAwaited'
  <2>1. ASSUME NEW r \in Debounced PROVE WillServe(r)'
    <3>1. r \in Rules /\ Blocks(r) /\ pos \in called'[r]
      BY <1>1, <1>2 DEF DebouncedBlock, Typed
    <3>2. CASE Of(flight, r) = {}
      <4>1. Call(r) \in runs
        BY <1>4, <3>1, <3>2
      <4>2. Call(r) \in awaits' /\ Call(r) \in flight' /\ pos' \in started'[r]
        BY <1>1, <1>3, <3>1, <4>1
      <4>3. Call(r).rule = r /\ Call(r).change = pos'
        BY <1>1, <1>3, <3>1
      <4> HIDE DEF Call
      <4> QED
        BY <4>2, <4>3 DEF WillServe, ForPos
    <3>3. CASE Of(flight, r) # {}
      <4>1. PICK q \in queue' : q.rule = r
        <5>1. CASE Of(queue, r) = {}
          BY <1>1, <1>3, <1>4, <3>1, <3>3, <5>1
        <5>2. CASE Of(queue, r) # {}
          BY <1>1, <5>2 DEF Of
        <5> QED
          BY <5>1, <5>2
      <4>2. Call(q.rule) \notin runs
        BY <1>4, <3>1, <3>3, <4>1
      <4>3. q \in awaits'
        BY <1>1, <3>1, <4>1, <4>2
      <4>4. q.change = pos
        BY <1>7, <3>3, <4>1
      <4> QED
        BY <1>1, <3>1, <4>1, <4>3, <4>4 DEF WillServe, ForPos
    <3> QED
      BY <3>2, <3>3
  <2>2. ASSUME NEW r \in Debounced, NEW c \in Changes, DoneWith(c)' PROVE c \in served'[r]
    BY <1>1, <2>2 DEF DoneWith, Inv, Serving, DebouncedAwaited
  <2> QED
    BY <2>1, <2>2 DEF DebouncedAwaited
<1>10. ServedBeforeSeq'
  BY <1>1 DEF Inv, Requests, Serving, ServedBeforeSeq
<1> QED
  BY <1>5, <1>9, <1>10, <1>8 DEF Serving

\* The promises of the change are resolved.
LEMMA NextChangeServing ==
  ASSUME Inv, NextChange
  PROVE  Serving'
<1> USE ChangeProcessorAssumption
<1>1. /\ phase = "blocked" /\ awaits \cap (flight \cup queue \cup failed) = {}
      /\ \/ pos < upTo /\ pos' = pos + 1 /\ phase' = "matching"
         \/ ~(pos < upTo) /\ pos' = pos /\ phase' = "waiting" /\ awaits' = array
      /\ UNCHANGED <<last_seq, batches, upTo, array, flight, queue, failed, started, called, served>>
  BY DEF NextChange, Open, ghosts
<1>2. Typed
  BY DEF Inv, Requests
<1>3. \A c \in Changes : HandedOn(c)' => HandedOn(c)
  BY <1>1, <1>2 DEF HandedOn, Typed, Changes
<1>4. RegularInArray'
  <2>1. \A q \in Request : Hinders(q) => Hinders(q)'
    BY <1>1 DEF Hinders
  <2>2. phase # "none"
    BY <1>1
  <2> QED
    BY <1>1, <1>3, <2>1, <2>2 DEF Inv, Requests, Serving, RegularInArray
<1>5. DebouncedAwaited'
  <2>1. \A r \in Debounced : ~WillServe(r)
    BY <1>1 DEF WillServe
  <2>2. \A r \in Debounced : pos \in served[r]
    BY <1>1, <2>1 DEF Inv, Requests, Serving, DebouncedAwaited
  <2>3. \A c \in Changes : DoneWith(c)' => DoneWith(c) \/ c = pos
    BY <1>1, <1>2 DEF DoneWith, Typed, Changes
  <2> QED
    BY <1>1, <2>2, <2>3 DEF Inv, Requests, Serving, DebouncedAwaited
<1>6. ServedBeforeSeq'
  BY <1>1 DEF Inv, Requests, Serving, ServedBeforeSeq
<1>7. OneAtATime'
  <2>1. queue = {} /\ \A q \in flight : q.rule \notin Debounced
    BY <1>1 DEF Inv, Requests, Serving, OneAtATime
  <2> QED
    BY <1>1, <2>1 DEF OneAtATime
<1> QED
  BY <1>4, <1>5, <1>6, <1>7 DEF Serving

\* The batch ends: last_seq moves only past changes that every rule is served for.
LEMMA EndServing ==
  ASSUME Inv, BlockingFails \/ AwaitedFails \/ AwaitedSucceed
  PROVE  Serving'
<1> USE ChangeProcessorAssumption
<1>1. /\ phase' = "none"
      /\ UNCHANGED <<batches, upTo, pos, array, flight, queue, failed, started, called, served>>
  BY DEF BlockingFails, AwaitedFails, AwaitedSucceed, memory, ghosts
<1>2. last_seq' = last_seq \/ (phase = "waiting" /\ last_seq' = upTo)
  BY DEF BlockingFails, AwaitedFails, AwaitedSucceed
<1>3. RegularInArray' /\ DebouncedAwaited'
  BY <1>1 DEF RegularInArray, DebouncedAwaited
<1>4. ServedBeforeSeq'
  <2>1. CASE last_seq' = last_seq
    BY <1>1, <2>1 DEF Inv, Requests, Serving, ServedBeforeSeq
  <2>2. CASE AwaitedSucceed
    <3>1. phase = "waiting" /\ last_seq' = pos /\ awaits \cap (flight \cup queue \cup failed) = {}
          /\ pos \in Nat /\ last_seq \in Nat /\ pos <= MaxChanges
      BY <2>2 DEF AwaitedSucceed, Open, Inv, Requests, Typed
    <3>2. \A q : ~Hinders(q)
      BY <3>1 DEF Hinders
    <3>3. ASSUME NEW r \in Rules, NEW c \in 1..pos PROVE c \in served[r]
      <4>1. c \in Changes
        BY <3>1, <3>3 DEF Changes
      <4>2. CASE c <= last_seq
        BY <3>1, <3>3, <4>2 DEF Inv, Requests, Serving, ServedBeforeSeq
      <4>3. CASE ~(c <= last_seq)
        <5>1. HandedOn(c) /\ DoneWith(c)
          BY <3>1, <3>3, <4>3 DEF HandedOn, DoneWith
        <5> QED
          BY <3>1, <3>2, <4>1, <5>1 DEF Inv, Requests, Serving, RegularInArray, DebouncedAwaited
      <4> QED
        BY <4>2, <4>3
    <3> QED
      BY <1>1, <3>1, <3>3 DEF ServedBeforeSeq
  <2> QED
    BY <2>1, <2>2 DEF BlockingFails, AwaitedFails
<1>5. OneAtATime'
  BY <1>1, <1>2 DEF Inv, Requests, Serving, OneAtATime
<1> QED
  BY <1>3, <1>4, <1>5 DEF Serving

-----------------------------------------------------------------------------
(* The answers.                                                            *)

\* What the queue holds, and what of a debounced rule runs, is awaited still.
LEMMA FinishKeeps ==
  ASSUME Inv, NEW q \in flight, Finish(q),
         UNCHANGED <<last_seq, phase, batches, upTo, pos, awaits, called>>
  PROVE  OneAtATime'
<1> DEFINE next == Of(queue, q.rule)
<1>1. flight' = (flight \ {q}) \cup next /\ queue' = queue \ next
  BY DEF Finish
<1>2. \A n : n \in next <=> n \in queue /\ n.rule = q.rule
  BY DEF Of
<1> HIDE DEF next
<1>3. queue' \subseteq queue /\ next \subseteq queue
  BY <1>1, <1>2
<1>4. ASSUME phase = "matching", pos # last_seq + 1, NEW p \in flight' PROVE p.rule \notin Debounced
  BY <1>1, <1>2, <1>4 DEF Inv, Requests, Serving, OneAtATime, OneRuns
<1>5. ASSUME phase = "blocked", NEW p \in flight', p.rule \in Debounced
      PROVE  p \in awaits \/ \E n \in queue' : n.rule = p.rule
  <2>1. CASE p \in next
    BY <1>3, <1>5, <2>1 DEF Inv, Serving, OneAtATime
  <2>2. CASE p \in flight /\ p # q
    <3>1. p.rule # q.rule
      BY <1>5, <2>2 DEF Inv, Requests, OneRuns
    <3> QED
      BY <1>1, <1>2, <1>5, <2>2, <3>1 DEF Inv, Serving, OneAtATime
  <2> QED
    BY <1>1, <1>5, <2>1, <2>2
<1> QED
  BY <1>3, <1>4, <1>5 DEF Inv, Serving, OneAtATime

\* What was in the way is still, unless it is the request that is over; a request
\* that is awaited for a debounced rule runs for the change once it is started.
LEMMA FinishEffect ==
  ASSUME Inv, NEW q \in flight, Finish(q),
         UNCHANGED <<last_seq, phase, batches, upTo, pos, awaits, called>>,
         failed \subseteq failed'
  PROVE  /\ \A p \in Request : Hinders(p) /\ p # q => Hinders(p)'
         /\ Hinders(q) /\ q \in failed' => Hinders(q)'
         /\ \A c \in Changes : (HandedOn(c)' <=> HandedOn(c)) /\ (DoneWith(c)' <=> DoneWith(c))
         /\ \A r \in Debounced :
              WillServe(r) => \/ WillServe(r)'
                              \/ q.rule = r /\ q \in awaits /\ pos \in started[r] /\ ForPos(q)
<1> DEFINE next == Of(queue, q.rule)
<1>1. /\ flight' = (flight \ {q}) \cup next
      /\ queue' = queue \ next
      /\ array \subseteq array'
      /\ started' = [started EXCEPT ![q.rule] = IF next = {} THEN @ ELSE called[q.rule]]
  BY DEF Finish
<1>2. \A n : n \in next <=> n \in queue /\ n.rule = q.rule
  BY DEF Of
<1> HIDE DEF next
<1>3. /\ \A p \in Request : Hinders(p) /\ p # q => Hinders(p)'
      /\ Hinders(q) /\ q \in failed' => Hinders(q)'
  BY <1>1 DEF Hinders
<1>4. \A c \in Changes : (HandedOn(c)' <=> HandedOn(c)) /\ (DoneWith(c)' <=> DoneWith(c))
  BY DEF HandedOn, DoneWith
<1>5. ASSUME NEW r \in Debounced, WillServe(r)
      PROVE  WillServe(r)' \/ (q.rule = r /\ q \in awaits /\ pos \in started[r] /\ ForPos(q))
  <2>1. PICK p \in awaits : /\ p.rule = r
                            /\ \/ p \in failed
                               \/ p \in flight /\ pos \in started[r] /\ ForPos(p)
                               \/ p \in queue /\ pos \in called[r] /\ ForPos(p)
    BY <1>5 DEF WillServe
  <2>2. CASE p \in failed
    BY <2>1, <2>2 DEF WillServe
  <2>3. CASE p \in flight /\ pos \in started[r] /\ ForPos(p)
    <3>1. CASE p = q
      BY <2>1, <2>3, <3>1
    <3>2. CASE p # q
      <4>1. q.rule # r
        BY <1>5, <2>1, <2>3, <3>2 DEF Inv, Requests, Serving, OneRuns
      <4>2. p \in flight' /\ started'[r] = started[r]
        BY <1>1, <2>3, <3>2, <4>1 DEF Inv, Requests, Serving, Typed
      <4> QED
        BY <2>1, <2>3, <4>2 DEF WillServe, ForPos
    <3> QED
      BY <3>1, <3>2
  <2>4. CASE p \in queue /\ pos \in called[r] /\ ForPos(p)
    <3>1. CASE q.rule = r
      <4>1. p \in next /\ r \in Rules
        BY <1>2, <2>1, <2>4, <3>1 DEF Inv, Requests, Serving, Typed, Request
      <4>2. p \in flight' /\ started'[r] = called[r]
        BY <1>1, <3>1, <4>1 DEF Inv, Requests, Serving, Typed
      <4> QED
        BY <2>1, <2>4, <4>2 DEF WillServe, ForPos
    <3>2. CASE q.rule # r
      <4>1. p \in queue'
        BY <1>1, <1>2, <2>1, <2>4, <3>2
      <4> QED
        BY <2>1, <2>4, <4>1 DEF WillServe, ForPos
    <3> QED
      BY <3>1, <3>2
  <2> QED
    BY <2>1, <2>2, <2>3, <2>4
<1> QED
  BY <1>3, <1>4, <1>5

\* A request succeeds.
LEMMA SucceedsServing ==
  ASSUME Inv, NEW q \in flight, Succeeds(q)
  PROVE  Serving'
<1> DEFINE S == IF q.rule \in Debounced \ OwnUrl THEN started[q.rule] ELSE {q.change}
<1>1. /\ Finish(q)
      /\ served' = [served EXCEPT ![q.rule] = @ \cup S]
      /\ UNCHANGED <<last_seq, phase, batches, upTo, pos, failed, awaits, called>>
  BY DEF Succeeds
<1>2. q \in Request /\ q.rule \in Rules /\ q.change \in Changes
  BY DEF Inv, Requests, Serving, Typed, Request
<1>3. S \in SUBSET Changes
  BY <1>2 DEF Inv, Requests, Serving, Typed
<1>4. /\ q.rule \in Debounced /\ pos \in started[q.rule] /\ ForPos(q) => pos \in S
      /\ q.rule \notin Debounced => S = {q.change}
  BY DEF ForPos
<1> HIDE DEF S
<1>5. /\ served' \in [Rules -> SUBSET Changes]
      /\ \A r \in Rules : served[r] \subseteq served'[r]
      /\ S \subseteq served'[q.rule]
  BY <1>1, <1>2, <1>3 DEF Inv, Requests, Typed
<1>6. OneAtATime'
  BY <1>1, <1>5, FinishKeeps
<1>7. /\ \A p \in Request : Hinders(p) /\ p # q => Hinders(p)'
      /\ \A c \in Changes : (HandedOn(c)' <=> HandedOn(c)) /\ (DoneWith(c)' <=> DoneWith(c))
      /\ \A r \in Debounced :
           WillServe(r) => \/ WillServe(r)'
                           \/ q.rule = r /\ q \in awaits /\ pos \in started[r] /\ ForPos(q)
  BY <1>1, FinishEffect
<1>8. RegularInArray'
  <2>1. ASSUME phase # "none", NEW r \in Rules \ Debounced, NEW c \in Changes, HandedOn(c),
               c \notin served'[r]
        PROVE  \E p \in Request : /\ p.rule = r /\ p.change = c /\ p.batch = batches
                                  /\ Hinders(p)'
    <3>1. PICK p \in Request : /\ p.rule = r /\ p.change = c /\ p.batch = batches /\ Hinders(p)
      BY <1>5, <2>1 DEF Inv, Requests, Serving, RegularInArray
    <3>2. p # q
      BY <1>4, <1>5, <2>1, <3>1
    <3> QED
      BY <1>7, <3>1, <3>2
  <2> QED
    BY <1>1, <1>7, <2>1 DEF RegularInArray
<1>9. DebouncedAwaited'
  <2>1. ASSUME phase # "none", NEW r \in Debounced
        PROVE  /\ r \in Rules
               /\ \A c \in Changes : DoneWith(c) => c \in served'[r]
               /\ phase = "blocked" => pos \in served'[r] \/ WillServe(r)'
    <3>1. r \in Rules
      BY ChangeProcessorAssumption
    <3>2. \A c \in Changes : DoneWith(c) => c \in served'[r]
      BY <1>5, <2>1, <3>1 DEF Inv, Requests, Serving, DebouncedAwaited
    <3>3. ASSUME phase = "blocked", ~WillServe(r)' PROVE pos \in served'[r]
      <4>1. CASE pos \in served[r]
        BY <1>5, <3>1, <4>1
      <4>2. CASE WillServe(r)
        <5>1. q.rule = r /\ pos \in started[r] /\ ForPos(q)
          BY <1>7, <3>3, <4>2
        <5> QED
          BY <1>4, <1>5, <5>1
      <4> QED
        BY <2>1, <3>3, <4>1, <4>2 DEF Inv, Requests, Serving, DebouncedAwaited
    <3> QED
      BY <3>1, <3>2, <3>3
  <2> QED
    BY <1>1, <1>7, <2>1 DEF DebouncedAwaited
<1>10. ServedBeforeSeq'
  BY <1>1, <1>5 DEF Inv, Requests, Serving, ServedBeforeSeq
<1> QED
  BY <1>6, <1>8, <1>9, <1>10 DEF Serving

\* A request fails, and somebody will learn of it.
LEMMA FailsServing ==
  ASSUME Inv, NEW q \in flight, Fails(q)
  PROVE  Serving'
<1>1. /\ Finish(q)
      /\ failed' = IF q.batch = batches \/ q \in awaits THEN failed \cup {q} ELSE failed
      /\ UNCHANGED <<last_seq, phase, batches, upTo, pos, awaits, called, served>>
  BY DEF Fails
<1>2. failed \subseteq failed' /\ (q.batch = batches \/ q \in awaits => q \in failed')
  BY <1>1
<1>3. OneAtATime'
  BY <1>1, FinishKeeps
<1>4. /\ \A p \in Request : Hinders(p) /\ p # q => Hinders(p)'
      /\ Hinders(q) /\ q \in failed' => Hinders(q)'
      /\ \A c \in Changes : (HandedOn(c)' <=> HandedOn(c)) /\ (DoneWith(c)' <=> DoneWith(c))
      /\ \A r \in Debounced :
           WillServe(r) => \/ WillServe(r)'
                           \/ q.rule = r /\ q \in awaits /\ pos \in started[r] /\ ForPos(q)
  BY <1>1, <1>2, FinishEffect
<1>5. RegularInArray'
  BY <1>1, <1>2, <1>4 DEF Inv, Requests, Serving, RegularInArray
<1>6. \A r \in Debounced : WillServe(r) => WillServe(r)'
  <2>1. ASSUME NEW r \in Debounced, WillServe(r), q.rule = r, q \in awaits PROVE WillServe(r)'
    <3>1. q \in failed' /\ q \in awaits'
      BY <1>1, <1>2, <2>1
    <3> QED
      BY <2>1, <3>1 DEF WillServe
  <2> QED
    BY <1>4, <2>1
<1>7. DebouncedAwaited'
  BY <1>1, <1>4, <1>6 DEF Inv, Requests, Serving, DebouncedAwaited
<1>8. ServedBeforeSeq'
  BY <1>1 DEF Inv, Requests, Serving, ServedBeforeSeq
<1> QED
  BY <1>3, <1>5, <1>7, <1>8 DEF Serving

\* The process ends: what is left to do is what last_seq has not passed.
LEMMA CrashServing ==
  ASSUME Inv, End
  PROVE  Serving'
<1>1. RegularInArray' /\ DebouncedAwaited' /\ OneAtATime'
  BY DEF End, RegularInArray, DebouncedAwaited, OneAtATime
<1>2. ServedBeforeSeq'
  BY DEF Inv, Requests, Serving, ServedBeforeSeq, End, ghosts
<1> QED
  BY <1>1, <1>2 DEF Serving

\* "Array of promises used to ensure that all requests have completed before
\* moving on to the next batch" (_processChanges): last_seq passes no change that
\* a rule has not been served for, through failures, retries and crashes, if the
\* debounced rules block, whether or not their requests differ by change.
THEOREM AllServedBeforeSeq ==
  ASSUME DebouncedBlock
  PROVE  Spec => []ServedBeforeSeq
<1>1. Init => Inv
  BY InitRequests, InitServing DEF Inv
<1>2. Inv /\ [Next]_vars => Inv'
  <2> SUFFICES ASSUME Inv, [Next]_vars PROVE Serving'
    BY RequestsInductive DEF Inv
  <2>1. CASE BatchStep
    BY <2>1, BeginServing, MakeServing, NextChangeServing, EndServing DEF BatchStep
  <2>2. CASE \E q \in flight : Succeeds(q) \/ Fails(q) \/ FailsUnhandled(q)
    BY <2>2, SucceedsServing, FailsServing, CrashServing DEF FailsUnhandled
  <2>3. CASE Crash
    BY <2>3, CrashServing DEF Crash
  <2>4. CASE UNCHANGED vars
    BY <2>4 DEF vars, ghosts, memory, Inv, Serving, RegularInArray, DebouncedAwaited,
                OneAtATime, ForPos, ServedBeforeSeq, HandedOn, DoneWith, Hinders, WillServe
  <2> QED
    BY <2>1, <2>2, <2>3, <2>4 DEF Next
<1>3. Inv => ServedBeforeSeq
  BY DEF Inv, Serving
<1> QED
  BY <1>1, <1>2, <1>3, PTL DEF Spec
=============================================================================
