-------------------------- MODULE EngineRestProofs --------------------------
(***************************************************************************)
(* Proofs about the two parts of the engine that Process leaves out.       *)
(*                                                                         *)
(* Soiler, for a word and times of any length:                             *)
(*   TimerFits          the timer and the time kept for it                 *)
(*   TimerIsNotLate     it fires in time if all it is armed for fits       *)
(*   NobodyIsForgotten  it is armed for every item, whatever wraps         *)
(*                                                                         *)
(* NodeConflicts, for any number of nodes and workers and any hashes:       *)
(*   ClusterTyped      the type invariant                                   *)
(*   DocumentSurvives  resolving conflicts does not destroy the document    *)
(***************************************************************************)
EXTENDS Soiler, NodeConflicts, WellFoundedInduction, TLAPS

\* The well-ordering of the naturals, as the minimum and the maximum of a set.
LEMMA LeastOfSet ==
  ASSUME NEW T, T \subseteq Nat, T # {}
  PROVE  \E x \in T : \A y \in T : x <= y
<1> DEFINE R == OpToRel(<, Nat)
<1>1. IsWellFoundedOn(R, Nat)
  BY NatLessThanWellFounded
<1>2. \A s, t \in Nat : s < t => <<s, t>> \in R
  <2>1. R = {ss \in Nat \X Nat : ss[1] < ss[2]}
    BY DEF OpToRel
  <2> HIDE DEF R
  <2> QED
    BY <2>1
<1>3. PICK x \in T : \A y \in T : <<y, x>> \notin R
  <2> HIDE DEF R
  <2> QED
    BY <1>1, WFMin
<1>4. \A y \in T : x <= y
  <2> HIDE DEF R
  <2>1. TAKE y \in T
  <2>2. x \in Nat /\ y \in Nat
    OBVIOUS
  <2>3. ~(y < x)
    BY <1>2, <1>3, <2>2
  <2> QED
    BY <2>2, <2>3
<1> QED
  BY <1>4

LEMMA GreatestOfSet ==
  ASSUME NEW T \in SUBSET Nat, T # {}, NEW L \in Nat, \A t \in T : t <= L
  PROVE  \E x \in T : \A y \in T : y <= x
<1> DEFINE D == {L - t : t \in T}
<1>1. ASSUME NEW t \in T PROVE t \in Nat /\ L - t \in Nat /\ L - t \in D
  OBVIOUS
<1>2. D \in SUBSET Nat /\ D # {}
  BY <1>1
<1>3. \A x \in D : \E t \in T : x = L - t
  OBVIOUS
<1> HIDE DEF D
<1>4. PICK x \in D : \A y \in D : x <= y
  BY <1>2, LeastOfSet
<1>5. PICK t \in T : x = L - t
  BY <1>3
<1>6. ASSUME NEW s \in T PROVE s <= t
  <2>1. L - t <= L - s
    BY <1>1, <1>4, <1>5
  <2> QED
    BY <1>1, <2>1
<1> QED
  BY <1>6

LEMMA RemainderFits ==
  ASSUME NEW a \in Int, NEW b \in Nat \ {0}
  PROVE  a % b \in 0..(b - 1)
  BY SMT

\* The conversion to 32 bits yields a number of 32 bits, whatever it is given.
LEMMA Int32Fits ==
  ASSUME NEW n \in Int
  PROVE  Int32(n) \in Int /\ Int32(n) < Half
<1>1. n + Half \in Int /\ 2 * Half \in Nat \ {0}
  BY SoilerAssumption
<1>2. (n + Half) % (2 * Half) \in 0..(2 * Half - 1)
  BY <1>1, RemainderFits
<1> QED
  BY <1>2, SoilerAssumption DEF Int32

\* The timer is armed for less than 2^31 milliseconds, and if the time fits for
\* that time, or at once if it is past.
LEMMA AlarmIsSoon ==
  ASSUME NEW t \in Nat, now \in Nat \ {0}
  PROVE  /\ Alarm(t) \in Nat \ {0}
         /\ now <= Alarm(t) /\ Alarm(t) < now + Half
         /\ Exact(t) => t # 0 /\ t <= Alarm(t) /\ (Alarm(t) = t \/ Alarm(t) = now)
<1>1. Int32(t - now) \in Int /\ Int32(t - now) < Half
  BY Int32Fits
<1>2. Half \in Nat \ {0}
  BY SoilerAssumption
<1> QED
  BY <1>1, <1>2 DEF Alarm, Exact

\* The parts of the invariant, and what a timer that is armed promises.
SoilerInv == TimerInv /\ NeverLate /\ NeverForgotten /\ fireAt < now + Half

\* What every call of _queueSoiler must leave, given what it found.
TimerFine ==
  /\ soilerTime \in 0..MaxTime /\ fireAt \in Nat /\ exact \in BOOLEAN
  /\ fireAt < now + Half
  /\ soilerTime # 0 => fireAt # 0
  /\ exact => /\ fireAt # 0 => soilerTime # 0 /\ soilerTime <= fireAt
              /\ fireAt <= soilerTime \/ fireAt <= now

\* The timer that is armed is in time for t.
Awaited(t) == fireAt # 0 /\ (fireAt <= t \/ fireAt <= now)

LEMMA InvParts ==
  ASSUME SoilerInv
  PROVE  /\ now \in Nat \ {0} /\ Start <= now
         /\ rows \in SUBSET Times /\ asking \in SUBSET rows
         /\ passes \in SUBSET Passes /\ restarts \in 0..MaxRestarts
         /\ TimerFine
         /\ exact => \A t \in rows \ asking : InTime(t)
         /\ \A t \in rows \ asking : fireAt # 0 \/ \E p \in passes : t \in p.rows
  BY SoilerAssumption
     DEF SoilerInv, TimerInv, SoilerTypeOK, NeverLate, NeverForgotten, TimerFine

\* The invariant again, from the parts that a step may disturb.
LEMMA InvFromParts ==
  ASSUME now' \in Nat, Start <= now',
         rows' \in SUBSET Times, asking' \in SUBSET rows',
         passes' \in SUBSET Passes, restarts' \in 0..MaxRestarts,
         TimerFine',
         ASSUME NEW t \in rows' \ asking', exact' PROVE InTime(t)',
         ASSUME NEW t \in rows' \ asking'
         PROVE  fireAt' # 0 \/ \E p \in passes' : t \in p.rows
  PROVE  SoilerInv'
<1>1. SoilerTypeOK'
  BY DEF SoilerTypeOK, TimerFine
<1>2. TimerInv' /\ (fireAt < now + Half)'
  BY <1>1 DEF TimerInv, TimerFine
<1>3. NeverLate'
  BY DEF NeverLate
<1>4. NeverForgotten'
  BY <1>2 DEF NeverForgotten
<1> QED
  BY <1>2, <1>3, <1>4 DEF SoilerInv

\* After the soiler is queued, with whatever, a timer is armed.  If all that it
\* was queued for fits, what was in time stays so, and t is in time as well.
LEMMA QueueKeepsTime ==
  ASSUME TimerFine, now \in Nat \ {0}, NEW t \in Times \cup {0}, QueueSoiler(t), now' = now
  PROVE  /\ TimerFine' /\ fireAt' # 0
         /\ exact' => /\ exact /\ Awaited(t)'
                      /\ \A s \in Times : Awaited(s) => Awaited(s)'
<1> USE SoilerAssumption DEF Times
<1>1. /\ soilerTime \in 0..MaxTime /\ fireAt \in Nat /\ exact \in BOOLEAN
      /\ fireAt < now + Half
      /\ soilerTime # 0 => fireAt # 0
      /\ exact => /\ fireAt # 0 => soilerTime # 0 /\ soilerTime <= fireAt
                  /\ fireAt <= soilerTime \/ fireAt <= now
  BY DEF TimerFine
<1>2. exact' \in BOOLEAN /\ (exact' => exact /\ Exact(t))
  BY <1>1 DEF QueueSoiler
<1>3. t \in 0..MaxTime /\ t \in Nat
  OBVIOUS
<1>4. Exact(t) => t # 0
  BY DEF Exact
<1>5. CASE soilerTime' = t /\ fireAt' = Alarm(t) /\ (soilerTime = 0 \/ Earlier(t, soilerTime))
  <2>1. /\ Alarm(t) \in Nat \ {0}
        /\ now <= Alarm(t) /\ Alarm(t) < now + Half
        /\ Exact(t) => t # 0 /\ t <= Alarm(t) /\ (Alarm(t) = t \/ Alarm(t) = now)
    BY <1>3, AlarmIsSoon
  <2>2. TimerFine' /\ fireAt' # 0
    BY <1>2, <1>3, <1>5, <2>1 DEF TimerFine
  <2>3. ASSUME exact' PROVE Awaited(t)'
    BY <1>2, <1>5, <2>1, <2>3 DEF Awaited
  <2>4. ASSUME exact', NEW s \in Times, Awaited(s) PROVE Awaited(s)'
    <3>1. soilerTime # 0 /\ t < soilerTime /\ soilerTime <= fireAt
      BY <1>1, <1>2, <1>5, <2>4 DEF Awaited, Earlier
    <3> QED
      BY <1>1, <1>2, <1>3, <1>5, <2>1, <2>4, <3>1 DEF Awaited
  <2> QED
    BY <1>2, <2>2, <2>3, <2>4
<1>6. CASE UNCHANGED <<soilerTime, fireAt>> /\ ~(soilerTime = 0 \/ Earlier(t, soilerTime))
  <2>1. TimerFine' /\ fireAt' # 0
    BY <1>1, <1>2, <1>6 DEF TimerFine
  <2>2. ASSUME exact' PROVE Awaited(t)'
    BY <1>1, <1>2, <1>3, <1>4, <1>6, <2>2 DEF Awaited, Earlier
  <2>3. ASSUME NEW s \in Times, Awaited(s) PROVE Awaited(s)'
    BY <1>6, <2>3 DEF Awaited
  <2> QED
    BY <1>2, <2>1, <2>2, <2>3
<1> QED
  BY <1>5, <1>6 DEF QueueSoiler

\* The minimum that _soilPendingItems computes is one of its rows.
LEMMA NextTimeIsARow ==
  ASSUME NEW p \in Passes, p.rows # Due(p)
  PROVE  NextTime(p) \in p.rows \ Due(p) /\ \A t \in p.rows \ Due(p) : NextTime(p) <= t
<1>1. p.rows \ Due(p) # {} /\ p.rows \ Due(p) \in SUBSET Nat
  BY DEF Due, Passes, Times
<1>2. \E t \in p.rows \ Due(p) : \A s \in p.rows \ Due(p) : t <= s
  BY <1>1, LeastOfSet
<1> QED
  BY <1>2 DEF NextTime

\* A new row is not yet heard of.
LEMMA DelayKeepsInv ==
  ASSUME SoilerInv, NEW t \in Times, Delay(t)
  PROVE  SoilerInv'
<1>1. TimerFine'
  BY InvParts DEF TimerFine, Delay
<1>2. ASSUME NEW s \in rows' \ asking'
      PROVE  /\ exact' => InTime(s)'
             /\ fireAt' # 0 \/ \E p \in passes' : s \in p.rows
  BY InvParts DEF Delay, InTime
<1> QED
  BY <1>1, <1>2, InvParts, InvFromParts DEF Delay

LEMMA AskKeepsInv ==
  ASSUME SoilerInv, NEW t \in Times, Ask(t)
  PROVE  SoilerInv'
<1>1. PICK q \in Times \cup {0} : QueueSoiler(q) /\ (q = t \/ q = 0)
  BY DEF Ask
<1>2. now' = now /\ rows' = rows /\ asking' = asking \ {t} /\ passes' = passes
  BY DEF Ask
<1>3. /\ TimerFine' /\ fireAt' # 0
      /\ exact' => /\ exact /\ Awaited(q)'
                   /\ \A s \in Times : Awaited(s) => Awaited(s)'
  BY <1>1, <1>2, InvParts, QueueKeepsTime
<1>4. exact' => q = t
  BY <1>1 DEF QueueSoiler, Exact
<1>5. ASSUME NEW s \in rows' \ asking', exact' PROVE InTime(s)'
  <2>1. CASE s = t
    BY <1>3, <1>4, <1>5, <2>1 DEF InTime, Awaited
  <2>2. CASE s # t
    <3>1. s \in Times /\ InTime(s)
      BY <1>2, <1>3, <1>5, <2>2, InvParts
    <3> QED
      BY <1>2, <1>3, <1>5, <3>1 DEF InTime, Awaited
  <2> QED
    BY <2>1, <2>2
<1> QED
  BY <1>3, <1>5, InvParts, InvFromParts DEF Ask

\* The pass that begins has read every row.
LEMMA FireKeepsInv ==
  ASSUME SoilerInv, Fire
  PROVE  SoilerInv'
<1> DEFINE pass == [at |-> now, rows |-> rows]
<1>1. pass \in Passes /\ pass \in passes' /\ pass.rows = rows
  BY InvParts DEF Passes, Fire
<1>2. rows' = rows
  BY DEF Fire
<1> HIDE DEF pass
<1>3. TimerFine'
  BY InvParts, SoilerAssumption DEF TimerFine, Fire
<1>4. ASSUME NEW t \in rows' \ asking'
      PROVE  InTime(t)' /\ \E p \in passes' : t \in p.rows
  BY <1>1, <1>2 DEF InTime
<1>5. passes' \in SUBSET Passes
  BY <1>1, InvParts DEF Fire, pass
<1> QED
  BY <1>3, <1>4, <1>5, InvParts, InvFromParts DEF Fire

\* A pass soils what was due and queues the soiler for the first row that was
\* not: the rows that were not due are in time by that, those that appeared
\* after the view was read by the timer there was.
LEMMA EndPassKeepsInv ==
  ASSUME SoilerInv, NEW p \in passes, EndPass(p)
  PROVE  SoilerInv'
<1>1. p \in Passes /\ now' = now /\ passes' = passes \ {p}
  BY InvParts DEF EndPass
<1>2. /\ now' \in Nat /\ Start <= now'
      /\ rows' \in SUBSET Times /\ asking' \in SUBSET rows'
      /\ passes' \in SUBSET Passes /\ restarts' \in 0..MaxRestarts
  BY InvParts DEF EndPass
<1>3. ASSUME NEW t \in rows' \ asking'
      PROVE  /\ t \in Times /\ t \in rows \ asking /\ t \notin Due(p)
             /\ exact => InTime(t)
             /\ fireAt # 0 \/ \E q \in passes : t \in q.rows
  BY InvParts DEF EndPass
<1>4. CASE p.rows = Due(p)
  <2>1. UNCHANGED <<soilerTime, fireAt, exact>>
    BY <1>4 DEF EndPass
  <2>2. TimerFine'
    BY <1>1, <2>1, InvParts DEF TimerFine
  <2>3. ASSUME NEW t \in rows' \ asking'
        PROVE  /\ exact' => InTime(t)'
               /\ fireAt' # 0 \/ \E q \in passes' : t \in q.rows
    BY <1>1, <1>3, <1>4, <2>1 DEF InTime
  <2> QED
    BY <1>2, <2>2, <2>3, InvFromParts
<1>5. CASE p.rows # Due(p)
  <2> DEFINE n == NextTime(p)
  <2>1. n \in p.rows \ Due(p) /\ n \in Times /\ \A t \in p.rows \ Due(p) : n <= t
    BY <1>1, <1>5, NextTimeIsARow DEF Passes
  <2>2. QueueSoiler(n)
    BY <1>5 DEF EndPass
  <2> HIDE DEF n
  <2>3. /\ TimerFine' /\ fireAt' # 0
        /\ exact' => /\ exact /\ Awaited(n)'
                     /\ \A s \in Times : Awaited(s) => Awaited(s)'
    BY <1>1, <2>1, <2>2, InvParts, QueueKeepsTime
  <2>4. ASSUME NEW t \in rows' \ asking', exact' PROVE InTime(t)'
    <3>1. t \in Times /\ t \notin Due(p) /\ InTime(t)
      BY <1>3, <2>3, <2>4
    <3>2. CASE t \in p.rows
      <4>1. n <= t /\ n \in Nat /\ t \in Nat /\ fireAt' \in Nat
        BY <2>1, <2>3, <3>1, <3>2, SoilerAssumption DEF Times, TimerFine
      <4> QED
        BY <2>3, <2>4, <4>1 DEF InTime, Awaited
    <3>3. CASE Awaited(t)
      BY <2>3, <2>4, <3>1, <3>3 DEF InTime, Awaited
    <3>4. CASE \E q \in passes \ {p} : t \in q.rows
      BY <1>1, <3>4 DEF InTime
    <3> QED
      BY <3>1, <3>2, <3>3, <3>4 DEF InTime, Awaited
  <2> QED
    BY <1>2, <2>3, <2>4, InvFromParts
<1> QED
  BY <1>4, <1>5

LEMMA RestartKeepsInv ==
  ASSUME SoilerInv, Restart
  PROVE  SoilerInv'
<1>1. TimerFine'
  BY InvParts, SoilerAssumption DEF TimerFine, Restart
<1>2. /\ now' = now /\ now \in Nat \ {0} /\ Start <= now
      /\ rows' \in SUBSET Times /\ asking' \in SUBSET rows'
      /\ passes' \in SUBSET Passes
  BY InvParts DEF Restart
<1>3. restarts' \in 0..MaxRestarts
  BY InvParts, SoilerAssumption DEF Restart
<1>4. \A t : t \notin rows' \ asking'
  BY DEF Restart
<1> QED
  BY <1>1, <1>2, <1>3, <1>4, InvFromParts

LEMMA TickKeepsInv ==
  ASSUME SoilerInv, Tick
  PROVE  SoilerInv'
<1>1. now \in Nat /\ now' = now + 1 /\ now' \in Nat /\ Start <= now'
  BY InvParts, SoilerAssumption DEF Tick
<1>2. UNCHANGED <<rows, asking, soilerTime, fireAt, passes, exact, restarts>>
  BY DEF Tick
<1>3. TimerFine'
  BY <1>1, <1>2, InvParts, SoilerAssumption DEF TimerFine
<1>4. ASSUME NEW t \in rows' \ asking'
      PROVE  /\ exact' => InTime(t)'
             /\ fireAt' # 0 \/ \E p \in passes' : t \in p.rows
  <2>1. fireAt \in Nat /\ (exact => InTime(t))
    BY <1>2, InvParts DEF TimerFine
  <2> QED
    BY <1>1, <1>2, <2>1, InvParts DEF InTime
<1> QED
  BY <1>1, <1>2, <1>3, <1>4, InvParts, InvFromParts

\* All of it is inductive: for times of any length and age, and whether or not
\* the soiler is queued with the number 0.
LEMMA SoilerInvHolds == SoilerSpec => []SoilerInv
<1>1. SoilerInit => SoilerInv
  <2> SUFFICES ASSUME SoilerInit PROVE SoilerInv
    OBVIOUS
  <2>1. SoilerTypeOK
    BY SoilerAssumption DEF SoilerInit, SoilerTypeOK, Passes
  <2>2. rows \ asking = {} /\ fireAt = 0 /\ soilerTime = 0
    BY DEF SoilerInit
  <2>3. 0 < now + Half /\ 0 <= now
    BY <2>1, SoilerAssumption DEF SoilerTypeOK
  <2> QED
    BY <2>1, <2>2, <2>3 DEF SoilerInv, TimerInv, NeverLate, NeverForgotten
<1>2. SoilerInv /\ [SoilerNext]_soilerVars => SoilerInv'
  <2> SUFFICES ASSUME SoilerInv, [SoilerNext]_soilerVars PROVE SoilerInv'
    OBVIOUS
  <2>1. CASE UNCHANGED soilerVars
    BY <2>1 DEF soilerVars, SoilerInv, TimerInv, SoilerTypeOK, NeverLate, NeverForgotten, InTime
  <2>2. ASSUME NEW t \in Times, Delay(t) PROVE SoilerInv'
    BY <2>2, DelayKeepsInv
  <2>3. ASSUME NEW t \in Times, Ask(t) PROVE SoilerInv'
    BY <2>3, AskKeepsInv
  <2>4. ASSUME NEW p \in passes, EndPass(p) PROVE SoilerInv'
    BY <2>4, EndPassKeepsInv
  <2>5. CASE Fire
    BY <2>5, FireKeepsInv
  <2>6. CASE Restart
    BY <2>6, RestartKeepsInv
  <2>7. CASE Tick
    BY <2>7, TickKeepsInv
  <2> QED
    BY <2>1, <2>2, <2>3, <2>4, <2>5, <2>6, <2>7 DEF SoilerNext
<1> QED
  BY <1>1, <1>2, PTL DEF SoilerSpec

\* The timer and the time that _queueSoiler keeps for it fit together.
THEOREM TimerFits == SoilerSpec => []TimerInv
<1>1. SoilerInv => TimerInv
  BY DEF SoilerInv
<1> QED
  BY <1>1, SoilerInvHolds, PTL

\* If every time for which the soiler was queued since the timer last fired is
\* less than 2^31 milliseconds away, and none is the number 0, no item waits for
\* its dirty_at without a timer that fires in time or a pass that has read it.
THEOREM TimerIsNotLate == SoilerSpec => []NeverLate
<1>1. SoilerInv => NeverLate
  BY DEF SoilerInv
<1> QED
  BY <1>1, SoilerInvHolds, PTL

\* Whatever wraps, an item for which the soiler was queued always has a timer
\* that fires within 2^31 milliseconds, or a pass that has read it.
THEOREM NobodyIsForgotten == SoilerSpec => []NeverForgotten
<1>1. SoilerInv => NeverForgotten
  BY DEF SoilerInv
<1> QED
  BY <1>1, SoilerInvHolds, PTL

-----------------------------------------------------------------------------
(* The item on a cluster.  TypeOK is not inductive: that a node has a       *)
(* winner takes a bound on the ids, and that a destroyed revision is not    *)
(* the best one takes that whoever is to be destroyed is beaten, also while  *)
(* it is on a list that a worker has received long ago.                     *)

Labels == {"idle", "conflicts", "clearing", "resolved", "locked", "processed", "unlocking"}

\* Another revision beats the one with this id.
Beaten(id) == \E s \in revs : s.id # id /\ Beats(s, [id |-> id])

\* The ids of the revisions do not grow beyond all bounds: there is a best one.
Bounded == \E L \in Nat : \A r \in revs : r.id[1] <= L /\ r.id[2] <= L

TreeInv ==
  /\ revs # {}
  /\ \A r \in revs : /\ r.id \in Ids /\ r.parent \in Ids
                     /\ r.parent[1] + 1 = r.id[1]
                     /\ r.id \in Nat \X Nat /\ r.locked \in BOOLEAN
  /\ \A r, s \in revs : r.id = s.id => r = s
  /\ Bounded
  /\ known \in [Nodes -> SUBSET Ids]
  /\ \A n \in Nodes : known[n] \subseteq {r.id : r \in revs}
  /\ gone \in [Nodes -> SUBSET Ids]
  /\ \A n \in Nodes : \A id \in gone[n] : Beaten(id)

\* The part of a worker's copy that other steps must not invalidate.
WorkersTyped ==
  /\ pc \in [Workers -> Labels]
  /\ item \in [Workers -> [id : Ids, locked : BOOLEAN, conflicts : SUBSET Ids]]

WorkerInv(w) ==
  /\ item[w].id # NoId => \E r \in revs : r.id = item[w].id
  /\ pc[w] \in {"locked", "processed"} => \E r \in revs : r.id = item[w].id /\ r.locked
  /\ \A id \in item[w].conflicts : Beaten(id)

ClusterInv == TreeInv /\ WorkersTyped /\ \A w \in Workers : WorkerInv(w)

-----------------------------------------------------------------------------

\* Of a set of revisions whose ids are bounded, one beats all.
LEMMA BestExists ==
  ASSUME NEW S, S # {}, \A r \in S : r.id \in Nat \X Nat,
         NEW L \in Nat, \A r \in S : r.id[1] <= L /\ r.id[2] <= L
  PROVE  \E r \in S : \A s \in S : Beats(r, s)
<1>1. PICK longest \in {r.id[1] : r \in S} : \A k \in {r.id[1] : r \in S} : k <= longest
  <2>1. {r.id[1] : r \in S} \in SUBSET Nat /\ {r.id[1] : r \in S} # {}
    OBVIOUS
  <2>2. \A k \in {r.id[1] : r \in S} : k <= L
    OBVIOUS
  <2> QED
    BY <2>1, <2>2, GreatestOfSet
<1> DEFINE T == {r \in S : r.id[1] = longest}
<1>2. PICK hash \in {r.id[2] : r \in T} : \A k \in {r.id[2] : r \in T} : k <= hash
  <2>1. {r.id[2] : r \in T} \in SUBSET Nat /\ {r.id[2] : r \in T} # {}
    BY <1>1
  <2>2. \A k \in {r.id[2] : r \in T} : k <= L
    OBVIOUS
  <2> QED
    BY <2>1, <2>2, GreatestOfSet
<1>3. PICK r \in T : r.id[2] = hash
  BY <1>2
<1>4. ASSUME NEW s \in S PROVE Beats(r, s)
  <2>1. s.id[1] <= longest /\ (s.id[1] = longest => s.id[2] <= hash)
    BY <1>1, <1>2
  <2>2. r.id[1] = longest /\ r.id[2] = hash /\ r.id \in Nat \X Nat /\ s.id \in Nat \X Nat
    BY <1>3
  <2> QED
    BY <2>1, <2>2 DEF Beats
<1> QED
  BY <1>4

LEMMA BestOfSome ==
  ASSUME TreeInv, NEW S \in SUBSET revs, S # {}
  PROVE  \E r \in S : \A s \in S : Beats(r, s)
<1>1. PICK L \in Nat : \A r \in revs : r.id[1] <= L /\ r.id[2] <= L
  BY DEF TreeInv, Bounded
<1>2. \A r \in S : r.id \in Nat \X Nat
  BY DEF TreeInv
<1> QED
  BY <1>1, <1>2, BestExists

\* The winner of a node that has the document is the best of the open revisions.
LEMMA WinnerIsBest ==
  ASSUME TreeInv, NEW n \in Asked
  PROVE  /\ Winner(n) \in Open(n)
         /\ \A s \in Open(n) : Beats(Winner(n), s)
<1>1. Open(n) \in SUBSET revs /\ Open(n) # {}
  BY DEF Asked, Open
<1>2. \E r \in Open(n) : \A s \in Open(n) : Beats(r, s)
  BY <1>1, BestOfSome
<1> QED
  BY <1>2 DEF Winner

\* Whoever loses against the winner is another revision, hence beaten.
LEMMA LosersAreBeaten ==
  ASSUME TreeInv, NEW n \in Asked, NEW r \in Open(n) \ {Winner(n)}
  PROVE  Beaten(r.id)
<1>1. Winner(n) \in Open(n) /\ Beats(Winner(n), r)
  BY WinnerIsBest
<1>2. Winner(n) \in revs /\ r \in revs
  BY <1>1 DEF Open
<1>3. Winner(n).id # r.id
  BY <1>2 DEF TreeInv
<1>4. Beats(Winner(n), [id |-> r.id])
  BY <1>1 DEF Beats
<1> QED
  BY <1>2, <1>3, <1>4 DEF Beaten

LEMMA BeatenStays ==
  ASSUME revs \subseteq revs', NEW id, Beaten(id)
  PROVE  Beaten(id)'
  BY DEF Beaten, Beats

\* A tree that is left alone, or gets revisions from another node.
LEMMA TreeKept ==
  ASSUME TreeInv, UNCHANGED dbVars
  PROVE  TreeInv'
  BY DEF TreeInv, dbVars, Bounded, Beaten, Beats

LEMMA ReplicateKeepsTree ==
  ASSUME TreeInv, NEW m \in Nodes, NEW n \in Nodes, Replicate(m, n)
  PROVE  TreeInv' /\ revs' = revs
<1>1. /\ revs' = revs
      /\ known' = [known EXCEPT ![n] = known[n] \cup known[m]]
      /\ gone' = [gone EXCEPT ![n] = gone[n] \cup gone[m]]
  BY DEF Replicate
<1>2. /\ known' \in [Nodes -> SUBSET Ids] /\ gone' \in [Nodes -> SUBSET Ids]
      /\ \A k \in Nodes : known'[k] \subseteq {r.id : r \in revs}
      /\ \A k \in Nodes : \A id \in gone'[k] : \E l \in Nodes : id \in gone[l]
  BY <1>1 DEF TreeInv
<1>3. \A k \in Nodes : \A id \in gone'[k] : Beaten(id)'
  BY <1>1, <1>2, BeatenStays DEF TreeInv
<1>4. Bounded'
  BY <1>1 DEF TreeInv, Bounded
<1> QED
  BY <1>1, <1>2, <1>3, <1>4 DEF TreeInv

\* A write adds one revision, with an id of its own.
LEMMA WriteKeepsTree ==
  ASSUME TreeInv, NEW n \in Nodes, NEW p \in revs,
         NEW dirty, NEW locked \in BOOLEAN, Write(n, p.id, dirty, locked)
  PROVE  /\ TreeInv'
         /\ \E new : /\ revs' = revs \cup {new} /\ new \notin revs
                     /\ new.id \in Ids /\ new.locked = locked
<1>1. PICK h \in Hashes :
        /\ \A r \in revs : r.id # <<p.id[1] + 1, h>>
        /\ revs' = revs \cup {[id |-> <<p.id[1] + 1, h>>, parent |-> p.id,
                               dirty |-> dirty, locked |-> locked]}
        /\ known' = [known EXCEPT ![n] = known[n] \cup {<<p.id[1] + 1, h>>}]
        /\ gone' = gone
  BY DEF Write
<1> DEFINE id == <<p.id[1] + 1, h>>
           new == [id |-> id, parent |-> p.id, dirty |-> dirty, locked |-> locked]
<1>2. /\ new.id = id /\ new.parent = p.id /\ new.locked = locked
      /\ id[1] = p.id[1] + 1 /\ id[2] = h
  OBVIOUS
<1>3. p.id \in Ids /\ p.id[1] \in Nat /\ h \in Nat
  BY NodeConflictsAssumption DEF TreeInv
<1>4. id \in Ids /\ id \in Nat \X Nat
  BY <1>3 DEF Ids
<1>5. /\ revs' = revs \cup {new} /\ \A r \in revs : r.id # id
      /\ known' = [known EXCEPT ![n] = known[n] \cup {id}]
  BY <1>1
<1> HIDE DEF id, new
<1>6. new \notin revs
  BY <1>2, <1>5
<1>7. /\ \A r \in revs' : /\ r.id \in Ids /\ r.parent \in Ids
                          /\ r.parent[1] + 1 = r.id[1]
                          /\ r.id \in Nat \X Nat /\ r.locked \in BOOLEAN
      /\ \A r, s \in revs' : r.id = s.id => r = s
  BY <1>2, <1>3, <1>4, <1>5 DEF TreeInv
<1>8. Bounded'
  <2>1. PICK L \in Nat : \A r \in revs : r.id[1] <= L /\ r.id[2] <= L
    BY DEF TreeInv, Bounded
  <2>2. L + id[1] + id[2] \in Nat
    BY <1>2, <1>3
  <2>3. ASSUME NEW r \in revs'
        PROVE  r.id[1] <= L + id[1] + id[2] /\ r.id[2] <= L + id[1] + id[2]
    <3>1. CASE r \in revs
      <4>1. r.id[1] \in Nat /\ r.id[2] \in Nat /\ r.id[1] <= L /\ r.id[2] <= L
        BY <2>1, <3>1 DEF TreeInv
      <4> QED
        BY <1>2, <1>3, <4>1
    <3>2. CASE r = new
      BY <1>2, <1>3, <3>2
    <3> QED
      BY <1>5, <3>1, <3>2
  <2> QED
    BY <2>2, <2>3 DEF Bounded
<1>9. /\ known' \in [Nodes -> SUBSET Ids]
      /\ \A k \in Nodes : known'[k] \subseteq {r.id : r \in revs'}
  BY <1>2, <1>4, <1>5 DEF TreeInv
<1>10. gone' = gone /\ \A k \in Nodes : \A i \in gone[k] : Beaten(i)'
  BY <1>1, <1>5, BeatenStays DEF TreeInv
<1>11. TreeInv'
  BY <1>5, <1>7, <1>8, <1>9, <1>10 DEF TreeInv
<1> QED
  BY <1>2, <1>4, <1>5, <1>6, <1>11

\* A conflict is destroyed that another revision beats.
LEMMA ClearKeepsTree ==
  ASSUME TreeInv, NEW n \in Nodes, NEW id \in Ids, Beaten(id), UNCHANGED <<revs, known>>,
         gone' = gone \/ gone' = [gone EXCEPT ![n] = gone[n] \cup {id}]
  PROVE  TreeInv'
<1>1. \A k \in Nodes : \A i \in gone'[k] : i = id \/ i \in gone[k]
  BY DEF TreeInv
<1>2. \A k \in Nodes : \A i \in gone'[k] : Beaten(i)'
  BY <1>1, BeatenStays DEF TreeInv
<1>3. Bounded'
  BY DEF TreeInv, Bounded
<1>4. gone' \in [Nodes -> SUBSET Ids]
  BY DEF TreeInv
<1> QED
  BY <1>2, <1>3, <1>4 DEF TreeInv

\* A write on top of a leaf, or of the winner.
LEMMA WriteOnLeaf ==
  ASSUME TreeInv, NEW n \in Asked, NEW id, NEW dirty,
         NEW locked \in BOOLEAN, IsLeaf(n, id) \/ id = Winner(n).id,
         Write(n, id, dirty, locked)
  PROVE  /\ TreeInv'
         /\ \E new : /\ revs' = revs \cup {new} /\ new \notin revs
                     /\ new.id \in Ids /\ new.locked = locked
<1>1. PICK r \in revs : r.id = id
  <2>1. CASE IsLeaf(n, id)
    BY <2>1 DEF IsLeaf, Open
  <2>2. CASE id = Winner(n).id
    BY <2>2, WinnerIsBest DEF Open
  <2> QED
    BY <2>1, <2>2
<1>2. n \in Nodes /\ Write(n, r.id, dirty, locked)
  BY <1>1 DEF Asked
<1> QED
  BY <1>2, WriteKeepsTree

-----------------------------------------------------------------------------
(* Workers.                                                                *)

\* What a worker has in its hands stays true while revisions are added.
LEMMA WorkerKept ==
  ASSUME NEW w \in Workers, WorkerInv(w), revs \subseteq revs',
         item'[w].id = item[w].id, item'[w].conflicts \subseteq item[w].conflicts,
         pc'[w] \in {"locked", "processed"} => pc[w] \in {"locked", "processed"}
  PROVE  WorkerInv(w)'
<1>1. \A id \in item'[w].conflicts : Beaten(id)'
  BY BeatenStays DEF WorkerInv
<1> QED
  BY <1>1 DEF WorkerInv

\* A step of somebody else.
LEMMA OtherStep ==
  ASSUME ClusterInv, TreeInv', revs \subseteq revs', UNCHANGED workerVars
  PROVE  ClusterInv'
<1>1. pc' = pc /\ item' = item
  BY DEF workerVars
<1>2. \A w \in Workers : WorkerInv(w)'
  BY <1>1, WorkerKept DEF ClusterInv
<1>3. WorkersTyped'
  BY <1>1 DEF ClusterInv, WorkersTyped
<1> QED
  BY <1>2, <1>3 DEF ClusterInv

\* A step of a worker that receives nothing and locks nothing.
LEMMA WorkerGoesOn ==
  ASSUME ClusterInv, TreeInv', revs \subseteq revs', NEW w \in Workers, NEW label \in Labels,
         Goto(w, label),
         label \in {"locked", "processed"} => pc[w] \in {"locked", "processed"},
         UNCHANGED item
  PROVE  ClusterInv'
<1>1. /\ pc' = [pc EXCEPT ![w] = label] /\ item' = item /\ WorkersTyped
      /\ \A v \in Workers : WorkerInv(v)
  BY DEF ClusterInv, Goto
<1>2. \A v \in Workers :
        pc'[v] \in {"locked", "processed"} => pc[v] \in {"locked", "processed"}
  BY <1>1 DEF WorkersTyped
<1>3. \A v \in Workers : WorkerInv(v)'
  BY <1>1, <1>2, WorkerKept
<1>4. WorkersTyped'
  BY <1>1 DEF WorkersTyped
<1> QED
  BY <1>3, <1>4 DEF ClusterInv

LEMMA ReceiveKeeps ==
  ASSUME ClusterInv, NEW w \in Workers, NEW n \in Asked, Receive(w, n)
  PROVE  ClusterInv'
<1> DEFINE losers == {r.id : r \in Open(n) \ {Winner(n)}}
<1>1. /\ item' = [item EXCEPT ![w] = [id |-> Winner(n).id,
                                      locked |-> Winner(n).locked,
                                      conflicts |-> losers]]
      /\ \/ pc' = [pc EXCEPT ![w] = "resolved"]
         \/ pc' = [pc EXCEPT ![w] = "conflicts"]
      /\ UNCHANGED dbVars
  BY DEF Receive, Goto
<1>2. TreeInv /\ WorkersTyped /\ \A v \in Workers : WorkerInv(v)
  BY DEF ClusterInv
<1>3. /\ Winner(n) \in revs
      /\ Winner(n).id \in Ids /\ Winner(n).locked \in BOOLEAN
      /\ losers \in SUBSET Ids
  BY <1>2, WinnerIsBest DEF TreeInv, Open
<1>4. \A id \in losers : Beaten(id)
  BY <1>2, LosersAreBeaten
<1> HIDE DEF losers
<1>5. revs' = revs /\ TreeInv'
  BY <1>1, <1>2, TreeKept DEF dbVars
<1>6. WorkersTyped'
  BY <1>1, <1>2, <1>3 DEF WorkersTyped, Labels
<1>7. /\ item'[w].id = Winner(n).id /\ item'[w].conflicts = losers
      /\ pc'[w] \notin {"locked", "processed"}
      /\ \A v \in Workers \ {w} : item'[v] = item[v] /\ pc'[v] = pc[v]
  BY <1>1, <1>2 DEF WorkersTyped
<1>8. WorkerInv(w)'
  <2>1. \A id \in losers : Beaten(id)'
    BY <1>4, <1>5, BeatenStays
  <2> QED
    BY <1>3, <1>5, <1>7, <2>1 DEF WorkerInv
<1>9. \A v \in Workers \ {w} : WorkerInv(v)'
  BY <1>2, <1>5, <1>7, WorkerKept
<1> QED
  BY <1>5, <1>6, <1>8, <1>9 DEF ClusterInv

LEMMA LockKeeps ==
  ASSUME ClusterInv, NEW w \in Workers, NEW n \in Asked,
         Lock(w, n)
  PROVE  ClusterInv'
<1>1. CASE IsLeaf(n, item[w].id)
  <2>1. /\ Write(n, item[w].id, TRUE, TRUE)
        /\ pc' = [pc EXCEPT ![w] = "locked"]
    BY <1>1 DEF Lock, Goto
  <2>2. PICK r \in revs' \ revs : item' = [item EXCEPT ![w] = [item[w] EXCEPT !.id = r.id]]
    BY <1>1 DEF Lock
  <2>3. /\ TreeInv'
        /\ \E new : /\ revs' = revs \cup {new} /\ new \notin revs
                    /\ new.id \in Ids /\ new.locked = TRUE
    BY <1>1, <2>1, WriteOnLeaf DEF ClusterInv
  <2>4. r \in revs' /\ revs \subseteq revs' /\ r.id \in Ids /\ r.locked
    BY <2>3
  <2>5. WorkersTyped /\ \A v \in Workers : WorkerInv(v)
    BY DEF ClusterInv
  <2>6. /\ item'[w].id = r.id /\ item'[w].conflicts = item[w].conflicts
        /\ \A v \in Workers \ {w} : item'[v] = item[v] /\ pc'[v] = pc[v]
        /\ WorkersTyped'
    BY <2>1, <2>2, <2>4, <2>5 DEF WorkersTyped, Labels
  <2>7. WorkerInv(w)'
    <3>1. \A id \in item'[w].conflicts : Beaten(id)'
      BY <2>4, <2>5, <2>6, BeatenStays DEF WorkerInv
    <3> QED
      BY <2>4, <2>6, <3>1 DEF WorkerInv
  <2>8. \A v \in Workers \ {w} : WorkerInv(v)'
    BY <2>4, <2>5, <2>6, WorkerKept
  <2> QED
    BY <2>3, <2>6, <2>7, <2>8 DEF ClusterInv
<1>2. CASE ~IsLeaf(n, item[w].id)
  <2>1. Goto(w, "idle") /\ UNCHANGED <<dbVars, item>>
    BY <1>2 DEF Lock
  <2>2. TreeInv' /\ revs \subseteq revs'
    BY <2>1, TreeKept DEF ClusterInv, dbVars
  <2>3. "idle" \in Labels
    BY DEF Labels
  <2> QED
    BY <2>1, <2>2, <2>3, WorkerGoesOn
<1> QED
  BY <1>1, <1>2

LEMMA ClearConflictKeeps ==
  ASSUME ClusterInv, NEW w \in Workers, NEW n \in Asked, ClearConflict(w, n)
  PROVE  ClusterInv'
<1>1. PICK id \in item[w].conflicts :
        /\ item' = [item EXCEPT ![w] = [item[w] EXCEPT !.conflicts = item[w].conflicts \ {id}]]
        /\ gone' = gone \/ gone' = [gone EXCEPT ![n] = gone[n] \cup {id}]
        /\ UNCHANGED <<revs, known, pc>>
  BY DEF ClearConflict
<1>2. TreeInv /\ WorkersTyped /\ \A v \in Workers : WorkerInv(v)
  BY DEF ClusterInv
<1>3. id \in Ids /\ Beaten(id) /\ n \in Nodes
  BY <1>2 DEF WorkersTyped, WorkerInv, Asked
<1>4. TreeInv'
  BY <1>1, <1>2, <1>3, ClearKeepsTree
<1>5. /\ WorkersTyped'
      /\ \A v \in Workers : /\ item'[v].id = item[v].id
                            /\ item'[v].conflicts \subseteq item[v].conflicts
                            /\ pc'[v] = pc[v]
  BY <1>1, <1>2 DEF WorkersTyped
<1>6. \A v \in Workers : WorkerInv(v)'
  BY <1>1, <1>2, <1>5, WorkerKept
<1> QED
  BY <1>4, <1>5, <1>6 DEF ClusterInv

LEMMA WorkerStepKeeps ==
  ASSUME ClusterInv, NEW w \in Workers, WorkerStep(w)
  PROVE  ClusterInv'
<1>1. TreeInv /\ Labels = {"idle", "conflicts", "clearing", "resolved", "locked",
                           "processed", "unlocking"}
  BY DEF ClusterInv, Labels
<1>2. ASSUME NEW n \in Asked, UpsertUnlockAndDirtyIfLocked(w, n) PROVE ClusterInv'
  <2>1. TreeInv' /\ revs \subseteq revs'
    BY <1>1, <1>2, TreeKept, WriteOnLeaf DEF UpsertUnlockAndDirtyIfLocked, dbVars
  <2> QED
    BY <1>1, <1>2, <2>1, WorkerGoesOn DEF UpsertUnlockAndDirtyIfLocked
<1>3. ASSUME NEW n \in Asked, UnlockAndClean(w, n) PROVE ClusterInv'
  <2>1. TreeInv' /\ revs \subseteq revs'
    BY <1>1, <1>3, TreeKept, WriteOnLeaf DEF UnlockAndClean, dbVars
  <2> QED
    BY <1>1, <1>3, <2>1, WorkerGoesOn DEF UnlockAndClean
<1>4. ASSUME NEW n \in Asked, UpsertUnlock(w, n) PROVE ClusterInv'
  <2>1. TreeInv' /\ revs \subseteq revs'
    BY <1>1, <1>4, WriteOnLeaf DEF UpsertUnlock
  <2> QED
    BY <1>1, <1>4, <2>1, WorkerGoesOn DEF UpsertUnlock
<1>5. ASSUME Cleared(w) \/ Process(w) PROVE ClusterInv'
  <2>1. TreeInv' /\ revs \subseteq revs'
    BY <1>1, <1>5, TreeKept DEF Cleared, Process, dbVars
  <2>2. CASE Cleared(w)
    BY <1>1, <2>1, <2>2, WorkerGoesOn DEF Cleared
  <2>3. CASE Process(w)
    BY <1>1, <2>1, <2>3, WorkerGoesOn DEF Process
  <2> QED
    BY <1>5, <2>2, <2>3
<1> QED
  BY <1>2, <1>3, <1>4, <1>5, ReceiveKeeps, LockKeeps, ClearConflictKeeps DEF WorkerStep

LEMMA NextKeeps ==
  ASSUME ClusterInv, [Next]_vars
  PROVE  ClusterInv'
<1>1. TreeInv
  BY DEF ClusterInv
<1>2. CASE Change \/ UNCHANGED vars
  <2>1. UNCHANGED <<dbVars, workerVars>>
    BY <1>2 DEF Change, vars
  <2>2. TreeInv' /\ revs \subseteq revs'
    BY <1>1, <2>1, TreeKept DEF dbVars
  <2> QED
    BY <2>1, <2>2, OtherStep
<1>3. ASSUME NEW n \in Asked, GetCleanOrLocked(n) PROVE ClusterInv'
  <2>1. UNCHANGED <<dbVars, workerVars>>
    BY <1>3 DEF GetCleanOrLocked
  <2>2. TreeInv' /\ revs \subseteq revs'
    BY <1>1, <2>1, TreeKept DEF dbVars
  <2> QED
    BY <2>1, <2>2, OtherStep
<1>4. ASSUME NEW n \in Asked, DirtyOrConflict(n) PROVE ClusterInv'
  <2>1. UNCHANGED workerVars
    BY <1>4 DEF DirtyOrConflict
  <2>2. CASE IsLeaf(n, row)
    <3>1. PICK r \in Open(n) : Write(n, row, TRUE, r.locked)
      BY <1>4, <2>2 DEF DirtyOrConflict
    <3>2. r.locked \in BOOLEAN
      BY <1>1 DEF TreeInv, Open
    <3>3. TreeInv' /\ revs \subseteq revs'
      BY <1>1, <2>2, <3>1, <3>2, WriteOnLeaf
    <3> QED
      BY <2>1, <3>3, OtherStep
  <2>3. CASE ~IsLeaf(n, row)
    <3>1. UNCHANGED dbVars
      BY <1>4, <2>3 DEF DirtyOrConflict
    <3>2. TreeInv' /\ revs \subseteq revs'
      BY <1>1, <3>1, TreeKept DEF dbVars
    <3> QED
      BY <2>1, <3>2, OtherStep
  <2> QED
    BY <2>2, <2>3
<1>5. ASSUME NEW m \in Nodes, NEW n \in Nodes, Replicate(m, n) PROVE ClusterInv'
  <2>1. UNCHANGED workerVars /\ TreeInv' /\ revs \subseteq revs'
    BY <1>1, <1>5, ReplicateKeepsTree DEF Replicate
  <2> QED
    BY <2>1, OtherStep
<1> QED
  <2>1. CASE ListenerStep
    BY <1>3, <1>4, <2>1 DEF ListenerStep
  <2>2. ASSUME NEW w \in Workers, WorkerStep(w) PROVE ClusterInv'
    BY <2>2, WorkerStepKeeps
  <2> QED
    BY <1>2, <1>5, <2>1, <2>2 DEF Next

LEMMA InitKeeps ==
  ASSUME Init
  PROVE  ClusterInv
<1>1. /\ NoId \in Ids /\ NoId[1] = 0
      /\ Root.id = <<1, 0>> /\ Root.id[1] = 1 /\ Root.id[2] = 0
      /\ Root.id \in Ids /\ Root.id \in Nat \X Nat
      /\ Root.parent = NoId /\ Root.locked \in BOOLEAN
  BY DEF Root, NoId, Ids
<1>2. /\ NoItem.id = NoId /\ NoItem.conflicts = {}
      /\ NoItem \in [id : Ids, locked : BOOLEAN, conflicts : SUBSET Ids]
  BY <1>1 DEF NoItem
<1>3. revs = {Root}
  BY DEF Init
<1>4. Bounded
  BY <1>1, <1>3 DEF Bounded
<1>5. TreeInv
  BY <1>1, <1>3, <1>4 DEF Init, TreeInv
<1>6. WorkersTyped
  BY <1>2 DEF Init, WorkersTyped, Labels
<1>7. \A w \in Workers : WorkerInv(w)
  BY <1>2 DEF Init, WorkerInv
<1> QED
  BY <1>5, <1>6, <1>7 DEF ClusterInv

\* The revisions of an item and the copies of the workers keep their type, on every
\* node; whoever believes to have the lock (_lock) holds a revision that is locked.
THEOREM ClusterTyped == Spec => []TypeOK
<1>1. Init => ClusterInv
  BY InitKeeps
<1>2. ClusterInv /\ [Next]_vars => ClusterInv'
  BY NextKeeps
<1>3. ClusterInv => TypeOK
  BY DEF ClusterInv, TreeInv, WorkersTyped, WorkerInv, Labels, TypeOK
<1> QED
  BY <1>1, <1>2, <1>3, PTL DEF Spec

\* What beats all others is not beaten, and nothing is written on top of it.
LEMMA BestSurvives ==
  ASSUME ClusterInv
  PROVE  WinnerSurvives
<1>1. TreeInv
  BY DEF ClusterInv
<1>2. PICK r \in revs : \A s \in revs : Beats(r, s)
  BY <1>1, BestOfSome DEF TreeInv
<1>3. r.id[1] \in Nat /\ r.id[2] \in Nat /\ r.id \in Nat \X Nat
  BY <1>1 DEF TreeInv
<1>4. \A s \in revs : Beats(s, r) => s = r
  <2> SUFFICES ASSUME NEW s \in revs, Beats(s, r) PROVE s.id = r.id
    BY <1>1 DEF TreeInv
  <2>1. s.id \in Nat \X Nat /\ s.id[1] \in Nat /\ s.id[2] \in Nat
    BY <1>1 DEF TreeInv
  <2>2. s.id[1] = r.id[1] /\ s.id[2] = r.id[2]
    BY <1>2, <1>3, <2>1 DEF Beats
  <2> QED
    BY <1>3, <2>1, <2>2
<1>5. ASSUME NEW n \in Nodes, r.id \in gone[n] PROVE FALSE
  <2>1. PICK s \in revs : s.id # r.id /\ Beats(s, [id |-> r.id])
    BY <1>1, <1>5 DEF TreeInv, Beaten
  <2>2. Beats(s, r)
    BY <2>1 DEF Beats
  <2> QED
    BY <1>4, <2>1, <2>2
<1>6. ASSUME NEW n \in Nodes, r.id \in known[n] PROVE r \in Open(n) /\ Winner(n) = r
  <2>1. ASSUME NEW s \in revs PROVE s.parent # r.id
    <3>1. s.id[1] \in Nat /\ s.parent[1] + 1 = s.id[1] /\ s.parent[1] \in Nat
      BY <1>1 DEF TreeInv, Ids
    <3>2. s.id[1] <= r.id[1]
      BY <1>2, <1>3, <3>1 DEF Beats
    <3> QED
      BY <1>3, <3>1, <3>2
  <2>2. r \in Open(n)
    BY <1>5, <1>6, <2>1 DEF Open
  <2>3. Winner(n) \in revs /\ Beats(Winner(n), r)
    BY <1>1, <2>2, WinnerIsBest DEF Asked, Open
  <2> QED
    BY <1>4, <2>2, <2>3
<1> QED
  BY <1>2, <1>5, <1>6 DEF WinnerSurvives

\* However many workers clear conflicts (_clearConflicts), on whatever nodes and with
\* however old a list, and however late the nodes hear of each other, the revision
\* that beats all others is never destroyed, and wins wherever it is known.
THEOREM DocumentSurvives == Spec => []WinnerSurvives
<1>1. Init => ClusterInv
  BY InitKeeps
<1>2. ClusterInv /\ [Next]_vars => ClusterInv'
  BY NextKeeps
<1>3. ClusterInv => WinnerSurvives
  BY BestSurvives
<1> QED
  BY <1>1, <1>2, <1>3, PTL DEF Spec
=============================================================================
