------------------------------- MODULE Soiler -------------------------------
(***************************************************************************)
(* The timer of the soiler (src/src/process.js, _soilPendingItems to       *)
(* _listenToDirtyAtChanges), with the arithmetic of its times.  Process    *)
(* has the same soiler with abstract times and a timer that is right.      *)
(*                                                                         *)
(* A time is a natural number and the epoch is 0; an item is the time of   *)
(* its dirty_at.  _queueSoiler is given an ISO string, here the time it    *)
(* stands for, or the number 0.  Two facts of JavaScript matter.  A number *)
(* is never less than an ISO string (which converts to NaN), and both null *)
(* and the number 0 are falsy: 0 stands for either in soilerTime.  And     *)
(* `delay | 0` is the delay modulo 2^32 as a signed number, here modulo    *)
(* 2 * Half; setTimeout fires at once if it is negative.  A time that is   *)
(* too far ahead or past, and the number 0, spoil the timer: it may come   *)
(* too late for an item.  exact, which no action reads, says that this has *)
(* not happened, and the properties tell what holds nevertheless.          *)
(*                                                                         *)
(* The names of Init, Next and so on have a prefix since EngineRestProofs  *)
(* extends this module together with NodeConflicts.                        *)
(***************************************************************************)
EXTENDS Integers, FiniteSets

CONSTANTS
  Half,       \* 2^31 milliseconds
  Start,      \* the time when the model begins
  MaxTime,    \* bound: the last dirty_at
  AsksZero,   \* is the soiler also queued with the number 0 (Replicators)?
  MaxRestarts \* bound: how often the process stops or is killed

ASSUME SoilerAssumption ==
  /\ Half \in Nat \ {0}
  /\ Start \in Nat \ {0}
  /\ MaxTime \in Nat
  /\ Start <= MaxTime
  /\ AsksZero \in BOOLEAN
  /\ MaxRestarts \in Nat

VARIABLES
  now,         \* the time
  rows,        \* the rows of the dirty_at view
  asking,      \* the rows for which _queueSoiler is still to be called
  soilerTime,  \* _soilerTime, 0 if it is null or 0
  fireAt,      \* when the timer fires, 0 if there is none
  passes,      \* the runs of _soilPendingItems that have read the view
  exact,       \* history: since the timer fired or the process started, was the
               \* soiler queued only for times to which `delay | 0` is right?
  restarts     \* how often the process has ended

soilerVars == <<now, rows, asking, soilerTime, fireAt, passes, exact, restarts>>

Times == 1..MaxTime

SoilerInit ==
  /\ now = Start
  /\ rows \in SUBSET Times
  /\ asking = rows
  /\ soilerTime = 0 /\ fireAt = 0
  /\ passes = {}
  /\ exact = TRUE
  /\ restarts = 0

\* n | 0
Int32(n) == ((n + Half) % (2 * Half)) - Half

\* new Date(forTime).getTime() - new Date().getTime(), and setTimeout.
Alarm(forTime) ==
  LET delay == Int32(forTime - now)
  IN IF delay > 0 THEN now + delay ELSE now

\* Mutant: the soiler is queued for a later time instead of an earlier one.
Later(a, b) == a > b

\* forTime < this._soilerTime
Earlier(a, b) == a # 0 /\ a < b

\* forTime is a time, and its distance fits into the word.
Exact(forTime) == forTime # 0 /\ Int32(forTime - now) = forTime - now

QueueSoiler(forTime) ==
  /\ exact' = (exact /\ Exact(forTime))
  /\ \/ /\ soilerTime = 0 \/ Earlier(forTime, soilerTime)
        /\ soilerTime' = forTime
        /\ fireAt' = Alarm(forTime)
     \/ /\ ~(soilerTime = 0 \/ Earlier(forTime, soilerTime))
        /\ UNCHANGED <<soilerTime, fireAt>>

-----------------------------------------------------------------------------

\* An item gets a dirty_at: a retry is scheduled, or a delayed replicator dirtied.
Delay(t) ==
  /\ now < t
  /\ t \notin rows
  /\ rows' = rows \cup {t}
  /\ asking' = asking \cup {t}
  /\ UNCHANGED <<now, soilerTime, fireAt, passes, exact, restarts>>

\* The write is answered, or the row is one of those that the view has when the
\* process starts: the soiler is queued for it.
Ask(t) ==
  /\ t \in asking
  /\ asking' = asking \ {t}
  /\ \/ QueueSoiler(t)
     \/ AsksZero /\ QueueSoiler(0)
  /\ UNCHANGED <<now, rows, passes, restarts>>

\* Mutant: the time is not reset when the timer fires.
FireKeepsTime ==
  /\ fireAt # 0 /\ fireAt <= now
  /\ fireAt' = 0
  /\ passes' = passes \cup {[at |-> now, rows |-> rows]}
  /\ exact' = TRUE
  /\ UNCHANGED <<now, rows, asking, soilerTime, restarts>>

\* The timer fires: _soilPendingItems reads the time and the view.
Fire ==
  /\ fireAt # 0 /\ fireAt <= now
  /\ soilerTime' = 0 /\ fireAt' = 0
  /\ passes' = passes \cup {[at |-> now, rows |-> rows]}
  /\ exact' = TRUE
  /\ UNCHANGED <<now, rows, asking, restarts>>

Due(p) == {t \in p.rows : t <= p.at}

\* minUnprocessedTimestamp
NextTime(p) == CHOOSE t \in p.rows \ Due(p) : \A s \in p.rows \ Due(p) : t <= s

\* The rows that are due are soiled, and the soiler is queued for the next one.
EndPass(p) ==
  /\ passes' = passes \ {p}
  /\ rows' = rows \ Due(p)
  /\ asking' = asking \ Due(p)
  /\ IF p.rows = Due(p)
     THEN UNCHANGED <<soilerTime, fireAt, exact>>
     ELSE QueueSoiler(NextTime(p))
  /\ UNCHANGED <<now, restarts>>

\* Mutant: stopping the timer does not reset its time.
RestartKeepsTime ==
  /\ restarts < MaxRestarts
  /\ restarts' = restarts + 1
  /\ fireAt' = 0
  /\ passes' = {}
  /\ asking' = rows
  /\ exact' = TRUE
  /\ UNCHANGED <<now, rows, soilerTime>>

\* Mutant: the rows that the view has at the start are not heard of.
RestartDeaf ==
  /\ restarts < MaxRestarts
  /\ restarts' = restarts + 1
  /\ soilerTime' = 0 /\ fireAt' = 0
  /\ passes' = {}
  /\ asking' = {}
  /\ exact' = TRUE
  /\ UNCHANGED <<now, rows>>

\* The process stops or is killed; when it starts it hears of every row.
Restart ==
  /\ restarts < MaxRestarts
  /\ restarts' = restarts + 1
  /\ soilerTime' = 0 /\ fireAt' = 0
  /\ passes' = {}
  /\ asking' = rows
  /\ exact' = TRUE
  /\ UNCHANGED <<now, rows>>

\* Time passes, beyond the last dirty_at while a timer is armed.
Tick == /\ now < MaxTime \/ now < fireAt
        /\ now' = now + 1
        /\ UNCHANGED <<rows, asking, soilerTime, fireAt, passes, exact, restarts>>

SoilerNext ==
  \/ \E t \in Times : Delay(t) \/ Ask(t)
  \/ \E p \in passes : EndPass(p)
  \/ Fire \/ Restart \/ Tick

SoilerSpec == SoilerInit /\ [][SoilerNext]_soilerVars

\* The timers and the callbacks run, and time passes.
SoilerFairSpec ==
  /\ SoilerSpec
  /\ WF_soilerVars(Tick) /\ WF_soilerVars(Fire)
  /\ WF_soilerVars(\E p \in passes : EndPass(p))
  /\ \A t \in Times : WF_soilerVars(Ask(t))

-----------------------------------------------------------------------------
(* Properties.                                                             *)

Passes == [at : Nat, rows : SUBSET Times]

\* The type invariant.
SoilerTypeOK ==
  /\ now \in Nat /\ Start <= now
  /\ rows \in SUBSET Times
  /\ asking \in SUBSET rows
  /\ soilerTime \in 0..MaxTime
  /\ fireAt \in Nat
  /\ passes \in SUBSET Passes
  /\ exact \in BOOLEAN
  /\ restarts \in 0..MaxRestarts

\* The next pass over the view comes when item t is due, or it is being made.
InTime(t) == \/ fireAt # 0 /\ (fireAt <= t \/ fireAt <= now)
             \/ \E p \in passes : t \in p.rows

\* "should not requeue for a later delay, but should for an earlier one"
\* (test/spec/process.js): whatever timer was armed, no item for which the
\* soiler was queued is left waiting beyond its dirty_at, unless a time for which
\* the soiler was queued since the timer last fired does not fit.
NeverLate == exact => \A t \in rows \ asking : InTime(t)

\* Whatever the soiler was queued for, times that wrap and the number 0
\* included: no item for which it was queued is left to a timer that is not
\* armed.  There is one that fires within 2^31 milliseconds, or a pass that has
\* read the item and will soil it or queue the soiler again.
NeverForgotten == \A t \in rows \ asking :
                    \/ fireAt # 0 /\ fireAt < now + Half
                    \/ \E p \in passes : t \in p.rows

\* An item that is to be soiled is soiled in the end, whatever wraps.
EventuallySoiled == \A t \in Times : t \in rows ~> t \notin rows

\* Why the timer is not late: a time is kept only while a timer is armed, and if
\* no time was out of range, for that time or, if it is past, at once.
TimerInv == /\ SoilerTypeOK
            /\ soilerTime # 0 => fireAt # 0
            /\ exact => /\ fireAt # 0 => soilerTime # 0 /\ soilerTime <= fireAt
                        /\ fireAt <= soilerTime \/ fireAt <= now
=============================================================================
