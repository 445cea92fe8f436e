---------------------------- MODULE LeaderProofs ----------------------------
(* What holds of the two loops that a leader runs: of Schedules, for every  *)
(* set of deployments, schedules and replicas, whatever the lengths of      *)
(* lease, horizon and interval; and, in the second part, of GitSync, for    *)
(* every set of specs, repositories and requests.                           *)
EXTENDS Schedules, GitSync, FiniteSetTheorems, TLAPS

-----------------------------------------------------------------------------
(***************************************************************************)
(* Types.  The version of a deployment counts the operator's changes.      *)
(***************************************************************************)

VersionsCounted == \A d \in Dep : dep[d].version <= ops /\ dep[d].created <= now
Typed == TypeOK /\ VersionsCounted

\* Rows carry the key of their instant, and none has a twin.
KeysAreInstants ==
  /\ \A p \in run : p.key = IdempotencyKey(p.dep, p.at) /\ ~p.twin
  /\ \A r \in Replica : \A in \in tick[r].todo : in.key = IdempotencyKey(in.dep, in.at)

\* A tick that has not outlived its leadership is the leader's.
TicksLead ==
  \A r \in Replica : Busy(r) /\ now <= tick[r].won + Ttl =>
    leader = [holder |-> r, until |-> tick[r].won + Ttl]

Created(d, t) == \E p \in run : p.dep = d /\ p.at = t
Awaits(r, d, t) == \E in \in tick[r].todo : in.dep = d /\ in.at = t

\* A tick knows versions that were or are there.
RowsAreKnown ==
  \A r \in Replica, d \in Dep, v \in 0..MaxOps :
    <<d, v>> \in tick[r].rows =>
      dep[d].state # "absent" /\ v <= dep[d].version /\ tick[r].pc = "creating"

\* A tick that knows a deployment as it is has created its runs, or is yet to.
TickCovers ==
  \A r \in Replica, d \in Dep :
    <<d, dep[d].version>> \in tick[r].rows =>
      /\ dep[d].state = "present" /\ dep[d].created <= tick[r].at
      /\ \A t \in NextRuns(dep[d], tick[r].at) \cap Time : Created(d, t) \/ Awaits(r, d, t)

HandledCovered ==
  \A d \in Dep : \A at \in handled[d] :
    /\ dep[d].created <= at
    /\ \A t \in NextRuns(dep[d], at) \cap Time : Created(d, t)

-----------------------------------------------------------------------------
(* Types. *)

LEMMA FaultType ==
  ASSUME TypeOK, Fault PROVE faults' \in 0..MaxFaults
BY SchedulesAssumption DEF TypeOK, Fault

LEMMA IdleTickType == IdleTick \in Tick
BY SchedulesAssumption DEF IdleTick, Tick, Time

LEMMA TypeInit == Init => Typed
<1> SUFFICES ASSUME Init PROVE Typed
  OBVIOUS
<1>1. 0 \in Time /\ 0 \in 0..MaxOps /\ 0 \in 0..MaxFaults /\ -1 \in -1..(MaxTime + Ttl)
  BY SchedulesAssumption DEF Time
<1>2. dep \in [Dep -> Row] /\ \A d \in Dep : dep[d].version = 0 /\ dep[d].created = 0
  BY <1>1 DEF Init, Row
<1>3. tick \in [Replica -> Tick]
  BY IdleTickType DEF Init
<1>4. QED
  BY <1>1, <1>2, <1>3 DEF Init, Typed, TypeOK, VersionsCounted

LEMMA TickType ==
  ASSUME Typed, NEW r \in Replica,
         \/ Elect(r) \/ Materialise(r) \/ EndTick(r) \/ Abort(r)
         \/ \E in \in tick[r].todo : Create(r, in) \/ CreateFails(r, in)
  PROVE  Typed'
<1>1. CASE Elect(r)
  <2>1. now + Ttl \in -1..(MaxTime + Ttl)
    BY SchedulesAssumption DEF Typed, TypeOK, Time
  <2>2. [IdleTick EXCEPT !.pc = "leading", !.won = now] \in Tick
    BY IdleTickType DEF Typed, TypeOK, Tick, IdleTick
  <2>3. tick' \in [Replica -> Tick]
    BY <1>1, <2>2 DEF Elect, Typed, TypeOK
  <2>4. QED
    BY <1>1, <2>1, <2>3 DEF Elect, Typed, TypeOK, VersionsCounted
<1>2. CASE Materialise(r)
  <2> DEFINE live == {d \in Dep : dep[d].state = "present" /\ ~dep[d].paused}
             rows == {<<d, dep[d].version>> : d \in live}
             wanted == UNION {{[dep |-> d, at |-> t, key |-> IdempotencyKey(d, t)] :
                                 t \in NextRuns(dep[d], now) \cap Time} : d \in live}
  <2>1. rows \in SUBSET (Dep \X (0..MaxOps))
    BY DEF Typed, TypeOK, Row
  <2>2. \A d \in Dep, t \in Time :
          [dep |-> d, at |-> t, key |-> IdempotencyKey(d, t)] \in Input
    BY DEF Input, IdempotencyKey
  <2>3. wanted \in SUBSET Input
    BY <2>2
  <2>4. tick[r] \in Tick /\ now \in Time
    BY DEF Typed, TypeOK
  <2> HIDE DEF rows, wanted
  <2>5. [tick[r] EXCEPT !.pc = "creating", !.at = now, !.rows = rows, !.todo = wanted] \in Tick
    BY <2>1, <2>3, <2>4 DEF Tick
  <2>6. tick' = [tick EXCEPT ![r] =
                  [@ EXCEPT !.pc = "creating", !.at = now, !.rows = rows, !.todo = wanted]]
    BY <1>2 DEF Materialise, rows, wanted
  <2>7. tick' \in [Replica -> Tick]
    BY <2>5, <2>6 DEF Typed, TypeOK
  <2>8. QED
    BY <1>2, <2>7 DEF Materialise, Typed, TypeOK, VersionsCounted
<1>3. CASE EndTick(r)
  <2>1. tick[r].at \in Time /\ tick' \in [Replica -> Tick]
    BY <1>3, IdleTickType DEF EndTick, Typed, TypeOK, Tick
  <2>2. handled' \in [Dep -> SUBSET Time]
    BY <1>3, <2>1 DEF EndTick, Typed, TypeOK
  <2>3. QED
    BY <1>3, <2>1, <2>2 DEF EndTick, Typed, TypeOK, VersionsCounted
<1>4. CASE Abort(r)
  <2>1. tick' \in [Replica -> Tick] /\ faults' \in 0..MaxFaults
    BY <1>4, IdleTickType, FaultType DEF Abort, Typed, TypeOK
  <2>2. QED
    BY <1>4, <2>1 DEF Abort, Typed, TypeOK, VersionsCounted
<1>5. ASSUME NEW in \in tick[r].todo, Create(r, in) PROVE Typed'
  <2>1. in \in Input /\ tick[r] \in Tick
    BY DEF Typed, TypeOK, Tick
  <2>2. Inserted(in) \in RunRow
    BY <2>1 DEF Inserted, RunRow, Input
  <2>3. [tick[r] EXCEPT !.todo = @ \ {in}] \in Tick
    BY <2>1 DEF Tick
  <2>4. run' \subseteq RunRow /\ tick' \in [Replica -> Tick]
    BY <1>5, <2>2, <2>3 DEF Create, Typed, TypeOK
  <2>5. QED
    BY <1>5, <2>4 DEF Create, Typed, TypeOK, VersionsCounted
<1>6. ASSUME NEW in \in tick[r].todo, CreateFails(r, in) PROVE Typed'
  <2>1. [tick[r] EXCEPT !.todo = @ \ {in}, !.rows = {p \in @ : p[1] # in.dep}] \in Tick
    BY DEF Typed, TypeOK, Tick
  <2>2. tick' \in [Replica -> Tick] /\ faults' \in 0..MaxFaults
    BY <1>6, <2>1, FaultType DEF CreateFails, Typed, TypeOK
  <2>3. QED
    BY <1>6, <2>2 DEF CreateFails, Typed, TypeOK, VersionsCounted
<1>7. QED
  BY <1>1, <1>2, <1>3, <1>4, <1>5, <1>6

\* A change of a deployment that is there gives it its next version.
Edited(d, new) ==
  /\ dep[d].state = "present" /\ new \in Row /\ new.state # "absent"
  /\ new.version = dep[d].version + 1 /\ new.created = dep[d].created

\* The first version of a deployment.
Added(d, new) ==
  dep[d].state = "absent" /\ new \in Row /\ new.version = 0 /\ new.created = now

LEMMA OperatorChanges ==
  ASSUME Typed, NEW d \in Dep, Upsert(d) \/ SetPaused(d) \/ Delete(d)
  PROVE  \E new \in Row : Change(d, new) /\ (Edited(d, new) \/ Added(d, new))
<1>1. /\ dep[d] \in Row /\ now \in Time /\ dep[d].version + 1 \in 0..(ops + 1)
      /\ ops < MaxOps => dep[d].version + 1 \in 0..MaxOps
  BY SchedulesAssumption DEF Typed, TypeOK, VersionsCounted, Row
<1>2. ops < MaxOps
  BY DEF Upsert, SetPaused, Delete, Change
<1>3. ASSUME dep[d].state = "absent", NEW s \in Kind, NEW p \in BOOLEAN
      PROVE  Added(d, [state |-> "present", paused |-> p, schedule |-> s,
                       created |-> now, version |-> 0])
  BY <1>1, <1>3, SchedulesAssumption DEF Added, Row
<1>4. ASSUME dep[d].state = "present", NEW s \in Kind
      PROVE  Edited(d, [dep[d] EXCEPT !.schedule = s, !.version = @ + 1])
  BY <1>1, <1>2, <1>4 DEF Edited, Row
<1>5. ASSUME dep[d].state = "present"
      PROVE  /\ Edited(d, [dep[d] EXCEPT !.paused = ~@, !.version = @ + 1])
             /\ Edited(d, [dep[d] EXCEPT !.state = "deleted", !.version = @ + 1])
  <2>1. (~dep[d].paused) \in BOOLEAN
    BY <1>1 DEF Row
  <2>2. QED
    BY <1>1, <1>2, <1>5, <2>1 DEF Edited, Row
<1>6. CASE Upsert(d)
  BY <1>3, <1>4, <1>6 DEF Upsert, Edited, Added
<1>7. CASE SetPaused(d) \/ Delete(d)
  BY <1>5, <1>7 DEF SetPaused, Delete, Edited
<1>8. QED
  BY <1>6, <1>7

LEMMA ChangeType ==
  ASSUME Typed, NEW d \in Dep, NEW new \in Row, Change(d, new), Edited(d, new) \/ Added(d, new)
  PROVE  Typed'
<1>1. ops' = ops + 1 /\ ops' \in 0..MaxOps /\ dep' \in [Dep -> Row]
  BY SchedulesAssumption DEF Change, Typed, TypeOK
<1>2. handled' \in [Dep -> SUBSET Time]
  BY DEF Change, Typed, TypeOK
<1>3. ASSUME NEW c \in Dep PROVE dep'[c].version <= ops' /\ dep'[c].created <= now
  <2>1. /\ dep[c].version \in Nat /\ ops \in Nat /\ now \in Nat
        /\ dep[c].version <= ops /\ dep[c].created <= now
    BY DEF Typed, TypeOK, VersionsCounted, Row, Time
  <2>2. dep'[c] = IF c = d THEN new ELSE dep[c]
    BY DEF Change, Typed, TypeOK
  <2>3. QED
    BY <1>1, <2>1, <2>2 DEF Edited, Added
<1>4. QED
  BY <1>1, <1>2, <1>3 DEF Change, Typed, TypeOK, VersionsCounted

LEMMA AdvanceType ==
  ASSUME Typed, Advance PROVE Typed'
<1>1. /\ now' \in Time /\ now' = now + 1 /\ now \in Nat
      /\ \A d \in Dep : dep[d].created \in Nat
  BY SchedulesAssumption DEF Advance, Typed, TypeOK, Time, Row
<1>2. QED
  BY <1>1 DEF Advance, Typed, TypeOK, VersionsCounted

LEMMA TypeNext == Typed /\ [Next]_vars => Typed'
<1> SUFFICES ASSUME Typed, [Next]_vars PROVE Typed'
  OBVIOUS
<1>1. ASSUME NEW d \in Dep, Upsert(d) \/ SetPaused(d) \/ Delete(d) PROVE Typed'
  BY <1>1, OperatorChanges, ChangeType
<1>2. CASE UNCHANGED vars
  BY <1>2 DEF vars, Typed, TypeOK, VersionsCounted
<1>3. QED
  BY <1>1, <1>2, TickType, AdvanceType DEF Next

\* Deployments, ticks, inputs and runs keep their shape; a version counts changes.
THEOREM TypeCorrect == Spec => []TypeOK
<1>1. Typed => TypeOK
  BY DEF Typed
<1>2. QED
  BY <1>1, TypeInit, TypeNext, PTL DEF Spec

-----------------------------------------------------------------------------
(* Keys and leadership. *)

\* A step in which nothing is inserted, and no tick but a new one awaits more runs.
LEMMA QuietKeys ==
  ASSUME KeysAreInstants, run' = run,
         \A r \in Replica : \A in \in tick'[r].todo :
           in \in tick[r].todo \/ in.key = IdempotencyKey(in.dep, in.at)
  PROVE  KeysAreInstants'
BY DEF KeysAreInstants, IdempotencyKey

LEMMA KeysInit == Init => KeysAreInstants
BY DEF Init, KeysAreInstants, IdleTick

LEMMA KeysNext ==
  ASSUME Typed, KeysAreInstants, [Next]_vars PROVE KeysAreInstants'
<1>1. tick \in [Replica -> Tick]
  BY DEF Typed, TypeOK
<1>2. ASSUME NEW r \in Replica, Elect(r) \/ EndTick(r) \/ Abort(r) PROVE KeysAreInstants'
  <2> DEFINE elected == [IdleTick EXCEPT !.pc = "leading", !.won = now]
  <2>1. /\ run' = run
        /\ \/ tick' = [tick EXCEPT ![r] = IdleTick]
           \/ tick' = [tick EXCEPT ![r] = elected]
    BY <1>2 DEF Elect, EndTick, Abort
  <2>2. tick'[r].todo = {} /\ \A q \in Replica \ {r} : tick'[q] = tick[q]
    <3>1. IdleTick.todo = {} /\ elected.todo = {}
      BY DEF IdleTick
    <3> HIDE DEF elected
    <3>2. QED
      BY <1>1, <2>1, <3>1
  <2>3. QED
    BY <2>1, <2>2, QuietKeys
<1>3. ASSUME NEW r \in Replica, Materialise(r) PROVE KeysAreInstants'
  <2>1. /\ run' = run
        /\ \A q \in Replica \ {r} : tick'[q] = tick[q]
        /\ tick'[r].todo = UNION {{[dep |-> d, at |-> t, key |-> IdempotencyKey(d, t)] :
                               t \in NextRuns(dep[d], now) \cap Time} :
                             d \in {c \in Dep : dep[c].state = "present" /\ ~dep[c].paused}}
    <3>1. tick[r] \in Tick
      BY <1>1
    <3>2. QED
      BY <1>1, <1>3, <3>1 DEF Materialise, Tick
  <2>2. \A in \in tick'[r].todo : in.key = IdempotencyKey(in.dep, in.at)
    BY <2>1 DEF IdempotencyKey
  <2>3. QED
    BY <2>1, <2>2, QuietKeys
<1>4. ASSUME NEW r \in Replica, NEW in \in tick[r].todo, Create(r, in) PROVE KeysAreInstants'
  <2>1. \A q \in Replica : tick'[q].todo \subseteq tick[q].todo
    BY <1>1, <1>4 DEF Create, Tick
  <2>2. ASSUME NEW p \in run' PROVE p.key = IdempotencyKey(p.dep, p.at) /\ ~p.twin
    <3>1. CASE p \in run
      BY <3>1 DEF KeysAreInstants
    <3>2. CASE p = Inserted(in) /\ Inserts(in)
      <4>1. in.key = IdempotencyKey(in.dep, in.at)
        BY DEF KeysAreInstants
      <4>2. /\ p.dep = in.dep /\ p.at = in.at /\ p.key = in.key
            /\ p.twin = (\E c \in run : c.key = in.key)
        BY <3>2 DEF Inserted
      <4>3. ~p.twin
        BY <3>2, <4>2 DEF Inserts
      <4>4. QED
        BY <4>1, <4>2, <4>3 DEF IdempotencyKey
    <3>3. QED
      BY <1>4, <3>1, <3>2 DEF Create
  <2>3. QED
    BY <2>1, <2>2 DEF KeysAreInstants, IdempotencyKey
<1>5. ASSUME NEW r \in Replica, NEW in \in tick[r].todo, CreateFails(r, in)
      PROVE  KeysAreInstants'
  <2>1. \A q \in Replica : tick'[q].todo \subseteq tick[q].todo
    BY <1>1, <1>5 DEF CreateFails, Tick
  <2>2. QED
    BY <1>5, <2>1, QuietKeys DEF CreateFails
<1>6. CASE \/ \E d \in Dep : Upsert(d) \/ SetPaused(d) \/ Delete(d)
           \/ Advance \/ UNCHANGED vars
  <2>1. run' = run /\ tick' = tick
    BY <1>6 DEF Upsert, SetPaused, Delete, Change, Advance, vars
  <2>2. QED
    BY <2>1, QuietKeys
<1>7. QED
  BY <1>2, <1>3, <1>4, <1>5, <1>6 DEF Next

LEMMA LeadInit == Init => TicksLead
BY DEF Init, TicksLead, Busy, IdleTick

LEMMA LeadNext ==
  ASSUME Typed, TicksLead, [Next]_vars PROVE TicksLead'
<1>1. /\ tick \in [Replica -> Tick] /\ now \in Nat /\ Ttl \in Nat /\ Ttl > 0
      /\ leader.until \in Int
  BY SchedulesAssumption DEF Typed, TypeOK, Time
<1>2. ASSUME NEW r \in Replica, Elect(r) PROVE TicksLead'
  <2>1. /\ tick'[r].won = now /\ now' = now
        /\ leader' = [holder |-> r, until |-> now + Ttl]
        /\ \A q \in Replica \ {r} : tick'[q] = tick[q]
    BY <1>1, <1>2 DEF Elect, IdleTick
  <2>2. ASSUME NEW q \in Replica \ {r}, Busy(q)
        PROVE  ~(now <= tick[q].won + Ttl)
    <3>1. tick[q].won \in Nat
      BY <1>1 DEF Tick, Time
    <3>2. now <= tick[q].won + Ttl => leader.until >= now /\ leader.holder = q
      BY <1>1, <2>2, <3>1 DEF TicksLead
    <3>3. QED
      BY <1>1, <1>2, <3>1, <3>2 DEF Elect, Grants
  <2>3. QED
    BY <2>1, <2>2 DEF TicksLead, Busy
<1>3. ASSUME NEW r \in Replica,
             \/ Materialise(r) \/ EndTick(r) \/ Abort(r)
             \/ \E in \in tick[r].todo : Create(r, in) \/ CreateFails(r, in)
      PROVE  TicksLead'
  <2>1. \A q \in Replica :
          /\ tick'[q].pc # "idle" => tick[q].pc # "idle" /\ tick'[q].won = tick[q].won
    <3>1. tick[r] \in Tick
      BY <1>1
    <3>2. CASE EndTick(r) \/ Abort(r)
      <4>1. tick' = [tick EXCEPT ![r] = IdleTick]
        BY <3>2 DEF EndTick, Abort
      <4>2. QED
        BY <1>1, <4>1 DEF IdleTick
    <3>3. CASE Materialise(r)
      BY <1>1, <3>1, <3>3 DEF Materialise, Tick
    <3>4. ASSUME NEW in, Create(r, in) \/ CreateFails(r, in)
          PROVE  \A q \in Replica : tick'[q].pc = tick[q].pc /\ tick'[q].won = tick[q].won
      BY <1>1, <3>1, <3>4 DEF Create, CreateFails, Tick
    <3>5. QED
      BY <1>3, <3>2, <3>3, <3>4
  <2>2. leader' = leader /\ now' = now
    BY <1>3 DEF Materialise, EndTick, Abort, Create, CreateFails
  <2>3. QED
    BY <2>1, <2>2 DEF TicksLead, Busy
<1>4. CASE Advance
  <2>1. now' = now + 1 /\ tick' = tick /\ leader' = leader
    BY <1>4 DEF Advance
  <2>2. \A q \in Replica : now' <= tick[q].won + Ttl => now <= tick[q].won + Ttl
    <3>1. \A q \in Replica : tick[q].won \in Nat
      BY <1>1 DEF Tick, Time
    <3>2. QED
      BY <1>1, <2>1, <3>1
  <2>3. QED
    BY <2>1, <2>2 DEF TicksLead, Busy
<1>5. CASE (\E d \in Dep : Upsert(d) \/ SetPaused(d) \/ Delete(d)) \/ UNCHANGED vars
  <2>1. now' = now /\ tick' = tick /\ leader' = leader
    BY <1>5 DEF Upsert, SetPaused, Delete, Change, vars
  <2>2. QED
    BY <2>1 DEF TicksLead, Busy
<1>6. QED
  BY <1>2, <1>3, <1>4, <1>5 DEF Next

\* However many replicas are in a tick, and however long ago they have listed the
\* deployments, an instant has one run.
THEOREM OneRunPerInstantAlways == Spec => []OneRunPerInstant
<1>1. Typed /\ KeysAreInstants => OneRunPerInstant
  <2> SUFFICES ASSUME Typed, KeysAreInstants, NEW p \in run, NEW q \in run,
                      p.dep = q.dep, p.at = q.at
               PROVE  p = q
    BY DEF OneRunPerInstant
  <2>1. p \in RunRow /\ q \in RunRow
    BY DEF Typed, TypeOK
  <2>2. p.key = q.key /\ ~p.twin /\ ~q.twin
    BY DEF KeysAreInstants, IdempotencyKey
  <2>3. QED
    BY <2>1, <2>2 DEF RunRow
<1>2. QED
  BY <1>1, TypeInit, TypeNext, KeysInit, KeysNext, PTL DEF Spec

\* Of two replicas that are in a tick at once, one has outlived its leadership.
THEOREM OverlapIsSlowAlways == Spec => []OverlapIsSlow
<1>1. Typed /\ TicksLead => OverlapIsSlow
  <2> SUFFICES ASSUME Typed, TicksLead, NEW r \in Replica, NEW q \in Replica,
                      r # q, Busy(r), Busy(q),
                      ~(tick[r].won + Ttl < now), ~(tick[q].won + Ttl < now)
               PROVE  FALSE
    BY DEF OverlapIsSlow
  <2>1. tick[r].won \in Nat /\ tick[q].won \in Nat /\ now \in Nat /\ Ttl \in Nat
    BY SchedulesAssumption DEF Typed, TypeOK, Tick, Time
  <2>2. now <= tick[r].won + Ttl /\ now <= tick[q].won + Ttl
    BY <2>1
  <2>3. leader.holder = r /\ leader.holder = q
    BY <2>2 DEF TicksLead
  <2>4. QED
    BY <2>3
<1>2. QED
  BY <1>1, TypeInit, TypeNext, LeadInit, LeadNext, PTL DEF Spec

-----------------------------------------------------------------------------
(* What a tick that went through has left behind. *)

Covered == RowsAreKnown /\ TickCovers /\ HandledCovered

LEMMA CoveredInit == Init => Covered
BY DEF Init, Covered, RowsAreKnown, TickCovers, HandledCovered, IdleTick

LEMMA RunsStay == [Next]_vars => run \subseteq run'
<1> SUFFICES ASSUME [Next]_vars PROVE run \subseteq run'
  OBVIOUS
<1>1. ASSUME NEW r, NEW in, Create(r, in) PROVE run \subseteq run'
  BY <1>1 DEF Create
<1>2. QED
  BY <1>1 DEF Next, vars, Elect, Materialise, CreateFails, EndTick, Abort, Upsert,
              SetPaused, Delete, Change, Advance

\* A step of one replica that lists nothing anew: what it does not await any more
\* has its run, or is of a deployment it has dropped.
LEMMA TickGoesOn ==
  ASSUME Typed, Covered, NEW r \in Replica,
         dep' = dep, run \subseteq run',
         \A q \in Replica \ {r} : tick'[q] = tick[q],
         tick'[r].rows \subseteq tick[r].rows,
         tick'[r].rows = {} \/ (tick'[r].pc = tick[r].pc /\ tick'[r].at = tick[r].at),
         \A d \in Dep, t \in Time :
           <<d, dep[d].version>> \in tick'[r].rows /\ Awaits(r, d, t)
             => Created(d, t)' \/ Awaits(r, d, t)'
  PROVE  RowsAreKnown' /\ TickCovers'
<1>1. \A d \in Dep, t \in Time : Created(d, t) => Created(d, t)'
  BY DEF Created
<1>2. RowsAreKnown'
  BY DEF Covered, RowsAreKnown
<1>3. ASSUME NEW q \in Replica, NEW d \in Dep, <<d, dep[d].version>> \in tick'[q].rows
      PROVE  /\ dep[d].state = "present" /\ dep[d].created <= tick'[q].at
             /\ \A t \in NextRuns(dep[d], tick'[q].at) \cap Time :
                  Created(d, t)' \/ Awaits(q, d, t)'
  <2>1. <<d, dep[d].version>> \in tick[q].rows /\ tick'[q].at = tick[q].at
    BY <1>3
  <2>2. /\ dep[d].state = "present" /\ dep[d].created <= tick[q].at
        /\ \A t \in NextRuns(dep[d], tick[q].at) \cap Time : Created(d, t) \/ Awaits(q, d, t)
    BY <2>1 DEF Covered, TickCovers
  <2>3. \A t \in Time : Awaits(q, d, t) => Created(d, t)' \/ Awaits(q, d, t)'
    BY <1>3 DEF Awaits
  <2>4. QED
    BY <1>1, <2>1, <2>2, <2>3
<1>4. QED
  BY <1>2, <1>3 DEF TickCovers

LEMMA HandledStays ==
  ASSUME HandledCovered, dep' = dep, handled' = handled, run \subseteq run'
  PROVE  HandledCovered'
BY DEF HandledCovered, Created

LEMMA MaterialiseCovers ==
  ASSUME Typed, Covered, NEW r \in Replica, Materialise(r)
  PROVE  Covered'
<1> DEFINE live == {d \in Dep : dep[d].state = "present" /\ ~dep[d].paused}
           rows == {<<d, dep[d].version>> : d \in live}
           wanted == UNION {{[dep |-> d, at |-> t, key |-> IdempotencyKey(d, t)] :
                             t \in NextRuns(dep[d], now) \cap Time} : d \in live}
<1>1. /\ UNCHANGED <<dep, run, handled, now>>
      /\ \A q \in Replica \ {r} : tick'[q] = tick[q]
      /\ tick'[r].pc = "creating" /\ tick'[r].at = now
      /\ tick'[r].rows = rows /\ tick'[r].todo = wanted
  <2>1. tick \in [Replica -> Tick] /\ tick[r] \in Tick
    BY DEF Typed, TypeOK
  <2>2. tick' = [tick EXCEPT ![r] =
                  [@ EXCEPT !.pc = "creating", !.at = now, !.rows = rows, !.todo = wanted]]
    BY DEF Materialise
  <2>3. UNCHANGED <<dep, run, handled, now>>
    BY DEF Materialise
  <2> HIDE DEF rows, wanted
  <2>4. QED
    BY <2>1, <2>2, <2>3 DEF Tick
<1>2. ASSUME NEW d \in Dep, NEW v \in 0..MaxOps, <<d, v>> \in rows
      PROVE  d \in live /\ v = dep[d].version
  BY <1>2
<1>3. RowsAreKnown'
  <2>1. \A d \in Dep : dep[d].version \in Nat
    BY DEF Typed, TypeOK, Row
  <2>2. ASSUME NEW q \in Replica, NEW d \in Dep, NEW v \in 0..MaxOps, <<d, v>> \in tick'[q].rows
        PROVE  dep[d].state # "absent" /\ v <= dep[d].version /\ tick'[q].pc = "creating"
    <3>1. CASE q = r
      BY <1>1, <1>2, <2>1, <2>2, <3>1
    <3>2. CASE q # r
      BY <1>1, <2>2, <3>2 DEF Covered, RowsAreKnown
    <3>3. QED
      BY <3>1, <3>2
  <2>3. QED
    BY <1>1, <2>2 DEF RowsAreKnown
<1>4. TickCovers'
  <2>1. ASSUME NEW q \in Replica, NEW d \in Dep, <<d, dep[d].version>> \in tick'[q].rows
        PROVE  /\ dep[d].state = "present" /\ dep[d].created <= tick'[q].at
               /\ \A t \in NextRuns(dep[d], tick'[q].at) \cap Time :
                    Created(d, t)' \/ Awaits(q, d, t)'
    <3>1. CASE q = r
      <4>1. d \in live
        <5>1. dep[d].version \in 0..MaxOps
          BY DEF Typed, TypeOK, Row
        <5>2. QED
          BY <1>1, <1>2, <2>1, <3>1, <5>1
      <4>2. dep[d].created <= now
        BY DEF Typed, VersionsCounted
      <4>3. ASSUME NEW t \in NextRuns(dep[d], now) \cap Time
            PROVE  Awaits(r, d, t)'
        <5>1. [dep |-> d, at |-> t, key |-> IdempotencyKey(d, t)] \in wanted
          BY <4>1
        <5> HIDE DEF wanted
        <5>2. QED
          BY <1>1, <5>1 DEF Awaits
      <4>4. QED
        BY <1>1, <3>1, <4>1, <4>2, <4>3
    <3>2. CASE q # r
      <4>1. tick'[q] = tick[q] /\ dep' = dep /\ run' = run
        BY <1>1, <3>2
      <4>2. QED
        BY <2>1, <4>1 DEF Covered, TickCovers, Created, Awaits
    <3>3. QED
      BY <3>1, <3>2
  <2>2. QED
    BY <1>1, <2>1 DEF TickCovers
<1>5. QED
  BY <1>1, <1>3, <1>4, HandledStays DEF Covered

LEMMA EndTickCovers ==
  ASSUME Typed, Covered, NEW r \in Replica, EndTick(r)
  PROVE  Covered'
<1>1. tick' = [tick EXCEPT ![r] = IdleTick] /\ tick \in [Replica -> Tick]
  BY DEF EndTick, Typed, TypeOK
<1>2. RowsAreKnown' /\ TickCovers'
  <2>1. tick'[r].rows = {} /\ \A q \in Replica \ {r} : tick'[q] = tick[q]
    BY <1>1 DEF IdleTick
  <2>2. QED
    BY <2>1, TickGoesOn DEF EndTick
<1>3. ASSUME NEW d \in Dep, NEW at \in handled'[d]
      PROVE  dep[d].created <= at /\ \A t \in NextRuns(dep[d], at) \cap Time : Created(d, t)
  <2>1. CASE at \in handled[d]
    BY <2>1 DEF Covered, HandledCovered
  <2>2. CASE at = tick[r].at /\ <<d, dep[d].version>> \in tick[r].rows
    BY <2>2 DEF Covered, TickCovers, EndTick, Awaits
  <2>3. QED
    BY <2>1, <2>2 DEF EndTick
<1>4. HandledCovered'
  BY <1>3 DEF EndTick, HandledCovered, Created
<1>5. QED
  BY <1>2, <1>4 DEF Covered

LEMMA CreateCovers ==
  ASSUME Typed, KeysAreInstants, Covered, NEW r \in Replica, NEW in \in tick[r].todo,
         Create(r, in) \/ CreateFails(r, in)
  PROVE  Covered'
<1>1. /\ tick \in [Replica -> Tick] /\ tick[r] \in Tick /\ in \in Input
      /\ in.key = IdempotencyKey(in.dep, in.at)
  BY DEF Typed, TypeOK, Tick, KeysAreInstants
<1>2. /\ UNCHANGED <<dep, handled>> /\ run \subseteq run'
      /\ \A q \in Replica \ {r} : tick'[q] = tick[q]
      /\ tick'[r].pc = tick[r].pc /\ tick'[r].at = tick[r].at
      /\ tick'[r].todo = tick[r].todo \ {in} /\ tick'[r].rows \subseteq tick[r].rows
  <2>1. CASE Create(r, in)
    BY <1>1, <2>1 DEF Create, Tick
  <2>2. CASE CreateFails(r, in)
    BY <1>1, <2>2 DEF CreateFails, Tick
  <2>3. QED
    BY <2>1, <2>2
<1>3. ASSUME NEW d \in Dep, NEW t \in Time,
             <<d, dep[d].version>> \in tick'[r].rows, Awaits(r, d, t)
      PROVE  Created(d, t)' \/ Awaits(r, d, t)'
  <2>1. CASE Awaits(r, d, t)'
    BY <2>1
  <2>2. CASE in.dep = d /\ in.at = t /\ Create(r, in)
    <3>1. dep[d].state = "present"
      BY <1>2, <1>3 DEF Covered, TickCovers
    <3>2. CASE Inserts(in)
      <4>1. Inserted(in) \in run' /\ Inserted(in).dep = d /\ Inserted(in).at = t
        BY <2>2, <3>2 DEF Create, Inserted
      <4>2. QED
        BY <4>1 DEF Created
    <3>3. CASE ~Inserts(in)
      <4>1. PICK p \in run : p.key = in.key
        BY <2>2, <3>1, <3>3 DEF Inserts
      <4>2. p.dep = d /\ p.at = t
        BY <1>1, <2>2, <4>1 DEF KeysAreInstants, IdempotencyKey
      <4>3. QED
        BY <1>2, <4>2 DEF Created
    <3>4. QED
      BY <3>2, <3>3
  <2>3. CASE in.dep = d /\ CreateFails(r, in)
    <3>1. tick'[r].rows = {p \in tick[r].rows : p[1] # in.dep}
      BY <1>1, <2>3 DEF CreateFails, Tick
    <3>2. QED
      BY <1>3, <2>3, <3>1
  <2>4. QED
    BY <1>2, <1>3, <2>1, <2>2, <2>3 DEF Awaits
<1>4. QED
  BY <1>2, <1>3, TickGoesOn, HandledStays DEF Covered

LEMMA ChangeCovers ==
  ASSUME Typed, Typed', Covered, NEW d \in Dep, NEW new \in Row, Change(d, new),
         Edited(d, new) \/ Added(d, new)
  PROVE  Covered'
<1>1. /\ UNCHANGED <<run, tick>>
      /\ dep'[d] = new /\ \A c \in Dep \ {d} : dep'[c] = dep[c] /\ handled'[c] = handled[c]
      /\ handled'[d] = {}
  BY DEF Change, Typed, TypeOK
<1>2. dep[d].version \in Nat
  BY DEF Typed, TypeOK, Row
<1>3. ASSUME NEW r \in Replica, NEW v \in 0..MaxOps, <<d, v>> \in tick[r].rows
      PROVE  Edited(d, new) /\ v <= dep[d].version
  BY <1>3 DEF Covered, RowsAreKnown, Added
<1>4. RowsAreKnown'
  <2>1. ASSUME NEW r \in Replica, NEW c \in Dep, NEW v \in 0..MaxOps, <<c, v>> \in tick[r].rows
        PROVE  dep'[c].state # "absent" /\ v <= dep'[c].version /\ tick[r].pc = "creating"
    <3>1. tick[r].pc = "creating"
      BY <2>1 DEF Covered, RowsAreKnown
    <3>2. CASE c = d
      BY <1>1, <1>2, <1>3, <2>1, <3>1, <3>2 DEF Edited
    <3>3. CASE c # d
      BY <1>1, <2>1, <3>3 DEF Covered, RowsAreKnown
    <3>4. QED
      BY <3>2, <3>3
  <2>2. QED
    BY <1>1, <2>1 DEF RowsAreKnown
<1>5. TickCovers'
  <2>1. ASSUME NEW r \in Replica, <<d, dep'[d].version>> \in tick[r].rows
        PROVE  FALSE
    <3>1. dep'[d].version \in 0..MaxOps
      BY DEF Typed, TypeOK, Row
    <3>2. Edited(d, new) /\ dep'[d].version <= dep[d].version
      BY <1>3, <2>1, <3>1
    <3>3. QED
      BY <1>1, <1>2, <3>2 DEF Edited
  <2>2. ASSUME NEW r \in Replica, NEW c \in Dep, <<c, dep'[c].version>> \in tick[r].rows
        PROVE  /\ dep'[c].state = "present" /\ dep'[c].created <= tick[r].at
               /\ \A t \in NextRuns(dep'[c], tick[r].at) \cap Time :
                    Created(c, t)' \/ Awaits(r, c, t)'
    <3>1. c # d
      BY <2>1, <2>2
    <3>2. dep'[c] = dep[c] /\ run' = run /\ tick' = tick
      BY <1>1, <3>1
    <3>3. QED
      BY <2>2, <3>2 DEF Covered, TickCovers, Created, Awaits
  <2>3. QED
    BY <1>1, <2>2 DEF TickCovers
<1>6. HandledCovered'
  BY <1>1 DEF Covered, HandledCovered, Created
<1>7. QED
  BY <1>4, <1>5, <1>6 DEF Covered

LEMMA CoveredNext ==
  ASSUME Typed, Typed', KeysAreInstants, Covered, [Next]_vars
  PROVE  Covered'
<1>1. ASSUME NEW r \in Replica, Elect(r) \/ Abort(r) PROVE Covered'
  <2>1. tick \in [Replica -> Tick]
    BY DEF Typed, TypeOK
  <2>2. /\ UNCHANGED <<dep, run, handled>> /\ tick'[r].rows = {}
        /\ \A q \in Replica \ {r} : tick'[q] = tick[q]
    <3>1. CASE Elect(r)
      BY <2>1, <3>1 DEF Elect, IdleTick
    <3>2. CASE Abort(r)
      BY <2>1, <3>2 DEF Abort, IdleTick
    <3>3. QED
      BY <1>1, <3>1, <3>2
  <2>3. QED
    BY <2>2, TickGoesOn, HandledStays DEF Covered
<1>2. ASSUME NEW d \in Dep, Upsert(d) \/ SetPaused(d) \/ Delete(d) PROVE Covered'
  BY <1>2, OperatorChanges, ChangeCovers
<1>3. CASE Advance \/ UNCHANGED vars
  <2>1. UNCHANGED <<dep, run, tick, handled>>
    BY <1>3 DEF Advance, vars
  <2>2. QED
    BY <2>1 DEF Covered, RowsAreKnown, TickCovers, HandledCovered, Created, Awaits
<1>4. QED
  BY <1>1, <1>2, <1>3, MaterialiseCovers, EndTickCovers, CreateCovers DEF Next

-----------------------------------------------------------------------------
(***************************************************************************)
(* Instants.  NextRuns steps from one instant to the next; the definition  *)
(* of the schedule asks for a multiple of the interval.                    *)
(***************************************************************************)

LEMMA MulMono ==
  ASSUME NEW a \in Int, NEW b \in Int, NEW e \in Nat, a <= b PROVE a * e <= b * e
OBVIOUS

LEMMA MulNext ==
  ASSUME NEW a \in Int, NEW e \in Nat PROVE a * e \in Int /\ (a + 1) * e = a * e + e
OBVIOUS

LEMMA MulMonoStrict ==
  ASSUME NEW a \in Int, NEW b \in Int, NEW e \in Nat \ {0}
  PROVE  a * e < b * e <=> a < b
OBVIOUS

LEMMA DivMod ==
  ASSUME NEW a \in Int, NEW e \in Nat \ {0}
  PROVE  /\ a \div e \in Int /\ a % e \in 0..(e - 1)
         /\ a = (a \div e) * e + (a % e)
OBVIOUS

LEMMA ModMul ==
  ASSUME NEW a \in Int, NEW e \in Nat \ {0} PROVE (a * e) % e = 0
<1> DEFINE q == (a * e) \div e
<1>1. a * e \in Int /\ q \in Int /\ (a * e) % e \in 0..(e - 1) /\ a * e = q * e + ((a * e) % e)
  <2>1. a * e \in Int
    OBVIOUS
  <2>2. \A b \in Int : /\ b \div e \in Int /\ b % e \in 0..(e - 1)
                      /\ b = (b \div e) * e + (b % e)
    BY DivMod
  <2>3. QED
    BY <2>1, <2>2
<1> HIDE DEF q
<1>2. CASE a <= q
  BY <1>1, <1>2, MulMono
<1>3. CASE q < a
  <2>1. (q + 1) * e <= a * e
    BY <1>1, <1>3, MulMono
  <2>2. (q + 1) * e = q * e + e
    BY <1>1
  <2>3. QED
    BY <1>1, <2>1, <2>2
<1>4. QED
  BY <1>1, <1>2, <1>3

\* The instant n intervals after the phase of a deployment.
Inst(p, n) == Phase(p) + n * p.schedule.every

LEMMA PhaseType ==
  ASSUME NEW p \in Row
  PROVE  /\ p.schedule.every \in Nat \ {0} /\ Phase(p) \in Nat
         /\ Phase(p) <= p.created /\ AtMost(p) \in Nat \ {0}
BY SchedulesAssumption DEF Row, Phase, AtMost, Time

\* The times of a schedule are those a whole number of intervals after its phase.
LEMMA InstantAt ==
  ASSUME NEW p \in Row
  PROVE  /\ \A t \in Instants(p) : t \in Time /\ \E n \in Int : t = Inst(p, n)
         /\ \A n \in Int : Inst(p, n) \in Time /\ Phase(p) < Inst(p, n) => Inst(p, n) \in Instants(p)
<1> DEFINE e == p.schedule.every
<1>1. e \in Nat \ {0} /\ Phase(p) \in Nat
  BY PhaseType
<1>2. ASSUME NEW t \in Instants(p) PROVE t \in Time /\ \E n \in Int : t = Inst(p, n)
  <2>1. t \in Nat /\ t \in Time /\ (t - Phase(p)) % e = 0
    BY DEF Instants, Time
  <2> DEFINE n == (t - Phase(p)) \div e
  <2>2. n \in Int /\ t - Phase(p) = n * e + ((t - Phase(p)) % e)
    <3>1. t - Phase(p) \in Int
      BY <1>1, <2>1
    <3>2. QED
      BY <1>1, <3>1, DivMod
  <2> HIDE DEF n
  <2>3. t = Inst(p, n)
    BY <1>1, <2>1, <2>2 DEF Inst
  <2>4. QED
    BY <2>1, <2>2, <2>3
<1>3. ASSUME NEW n \in Int, Inst(p, n) \in Time, Phase(p) < Inst(p, n)
      PROVE  Inst(p, n) \in Instants(p)
  <2>1. n * e \in Int /\ Inst(p, n) - Phase(p) = n * e
    BY <1>1 DEF Inst
  <2>2. (Inst(p, n) - Phase(p)) % e = 0
    BY <1>1, <2>1, ModMul
  <2>3. QED
    BY <1>3, <2>2 DEF Instants
<1>4. QED
  BY <1>2, <1>3

\* NextRuns counts from the last instant that is not after the given time.
LEMMA NthAt ==
  ASSUME NEW p \in Row, NEW at \in Nat
  PROVE  \E j \in Int : /\ Inst(p, j) <= at /\ at < Inst(p, j + 1)
                        /\ \A k \in Int : Nth(p, at, k) = Inst(p, j + k)
<1> DEFINE e == p.schedule.every
           j == (at - Phase(p)) \div e
<1>1. e \in Nat \ {0} /\ Phase(p) \in Nat
  BY PhaseType
<1>2. /\ j \in Int /\ (at - Phase(p)) % e \in 0..(e - 1)
      /\ at - Phase(p) = j * e + ((at - Phase(p)) % e)
  <2>1. at - Phase(p) \in Int
    BY <1>1
  <2>2. QED
    BY <1>1, <2>1, DivMod
<1>3. \A k \in Int : Nth(p, at, k) = Inst(p, j + k)
  BY DEF Nth, Inst
<1> HIDE DEF j
<1>4. (j + 1) * e = j * e + e /\ j * e \in Int
  BY <1>1, <1>2, MulNext
<1>5. Inst(p, j) <= at /\ at < Inst(p, j + 1)
  BY <1>1, <1>2, <1>4 DEF Inst
<1>6. QED
  BY <1>2, <1>3, <1>5

\* The instants between a time and a later instant, counted.
LEMMA CountBefore ==
  ASSUME NEW p \in Row, NEW at \in Nat, NEW j \in Int, NEW k \in Nat \ {0},
         Phase(p) <= at, at < Inst(p, j + 1), Inst(p, j + k) \in Time
  PROVE  LET before == {u \in Instants(p) : at < u /\ u < Inst(p, j + k)}
         IN  /\ IsFiniteSet(before) /\ k - 1 <= Cardinality(before)
             /\ k > 1 => before # {}
<1> DEFINE e == p.schedule.every
           before == {u \in Instants(p) : at < u /\ u < Inst(p, j + k)}
           f == [i \in 1..(k - 1) |-> Inst(p, j + i)]
<1>1. e \in Nat \ {0} /\ Phase(p) \in Nat /\ \A n \in Int : Inst(p, n) \in Int
  BY PhaseType DEF Inst
<1>2. \A m \in Int, n \in Int : Inst(p, m) < Inst(p, n) <=> m < n
  <2>1. \A m \in Int, n \in Int : (m * e < n * e <=> m < n) /\ m * e \in Int /\ n * e \in Int
    BY <1>1, MulMonoStrict
  <2>2. ASSUME NEW m \in Int, NEW n \in Int PROVE Inst(p, m) < Inst(p, n) <=> m < n
    <3>1. (m * e < n * e <=> m < n) /\ m * e \in Int /\ n * e \in Int
      BY <2>1
    <3>2. Inst(p, m) = Phase(p) + m * e /\ Inst(p, n) = Phase(p) + n * e
      BY DEF Inst
    <3> HIDE DEF e
    <3>3. QED
      BY <1>1, <3>1, <3>2
  <2>3. QED
    BY <2>2
<1>3. ASSUME NEW i \in 1..(k - 1) PROVE Inst(p, j + i) \in before
  <2>1. i \in Int /\ j + i < j + k /\ (i = 1 \/ j + 1 < j + i)
    OBVIOUS
  <2>2. at < Inst(p, j + i) /\ Inst(p, j + i) < Inst(p, j + k)
    BY <1>1, <1>2, <2>1
  <2>3. Inst(p, j + i) \in Time /\ Phase(p) < Inst(p, j + i)
    BY <1>1, <2>1, <2>2, SchedulesAssumption DEF Time
  <2>4. QED
    BY <2>1, <2>2, <2>3, InstantAt
<1>4. IsFiniteSet(before)
  <2>1. before \subseteq 0..MaxTime
    BY DEF Instants, Time
  <2>2. MaxTime \in Int /\ IsFiniteSet(0..MaxTime)
    BY FS_Interval, SchedulesAssumption
  <2> HIDE DEF before
  <2>3. QED
    BY <2>1, <2>2, FS_Subset
<1>5. k - 1 <= Cardinality(before)
  <2>1. f \in Injection(1..(k - 1), before)
    <3>1. \A i \in 1..(k - 1) : f[i] = Inst(p, j + i) /\ f[i] \in before
      BY <1>3
    <3>2. ASSUME NEW i \in 1..(k - 1), NEW h \in 1..(k - 1), f[i] = f[h] PROVE i = h
      <4>1. j + i \in Int /\ j + h \in Int /\ Inst(p, j + i) = Inst(p, j + h)
        BY <3>1, <3>2
      <4>2. ~(j + i < j + h) /\ ~(j + h < j + i)
        BY <1>1, <1>2, <4>1
      <4>3. QED
        BY <4>2
    <3>3. f \in [1..(k - 1) -> before]
      BY <3>1
    <3> HIDE DEF f
    <3>4. QED
      BY <3>2, <3>3 DEF Injection, IsInjective
  <2>2. IsFiniteSet(1..(k - 1)) /\ Cardinality(1..(k - 1)) = k - 1
    BY FS_Interval
  <2> HIDE DEF f, before
  <2>3. QED
    BY <1>4, <2>1, <2>2, FS_Injection
<1>6. k > 1 => before # {}
  <2>1. k > 1 => 1 \in 1..(k - 1)
    OBVIOUS
  <2>2. QED
    BY <1>3, <2>1
<1>7. QED
  BY <1>4, <1>5, <1>6

\* NextRuns finds every instant within the horizon that its limit leaves: without
\* catch-up the next one, with catch-up as many as a cycle may create.
THEOREM NextRunsComplete ==
  ASSUME NEW p \in Row, NEW at \in Time, p.created <= at, NEW t \in Instants(p),
         at < t, t <= at + Lookahead
  PROVE  LET before == {u \in Instants(p) : at < u /\ u < t} IN
           /\ p.schedule.catchup \/ before = {}
           /\ Cardinality(before) < MaxPerCycle
           => t \in NextRuns(p, at)
<1> DEFINE before == {u \in Instants(p) : at < u /\ u < t}
<1> SUFFICES ASSUME p.schedule.catchup \/ before = {}, Cardinality(before) < MaxPerCycle
             PROVE  t \in NextRuns(p, at)
  OBVIOUS
<1>1. /\ at \in Nat /\ t \in Time /\ t \in Nat /\ Phase(p) \in Nat
      /\ Phase(p) <= at /\ p.schedule.every \in Nat \ {0}
  BY PhaseType, InstantAt, SchedulesAssumption DEF Time, Row
<1>2. PICK n \in Int : t = Inst(p, n)
  BY InstantAt
<1>3. PICK j \in Int : /\ Inst(p, j) <= at /\ at < Inst(p, j + 1)
                       /\ \A k \in Int : Nth(p, at, k) = Inst(p, j + k)
  BY <1>1, NthAt
<1> DEFINE k == n - j
<1>4. k \in Nat \ {0} /\ j + k = n
  <2>1. \A m \in Int : m * p.schedule.every \in Int
    BY <1>1
  <2>2. j * p.schedule.every < n * p.schedule.every
    BY <1>1, <1>2, <1>3, <2>1 DEF Inst
  <2>3. j < n
    BY <1>1, <2>2, MulMonoStrict
  <2>4. QED
    BY <2>3
<1> HIDE DEF k
<1>5. IsFiniteSet(before) /\ k - 1 <= Cardinality(before) /\ (k > 1 => before # {})
  <2>1. t = Inst(p, j + k) /\ Inst(p, j + k) \in Time /\ at < Inst(p, j + 1) /\ Phase(p) <= at
    BY <1>1, <1>2, <1>3, <1>4
  <2>2. before = {u \in Instants(p) : at < u /\ u < Inst(p, j + k)}
    BY <2>1
  <2> HIDE DEF before
  <2>3. QED
    BY <1>1, <1>4, <2>1, <2>2, CountBefore
<1>6. k \in 1..AtMost(p)
  <2>1. Cardinality(before) \in Nat /\ MaxPerCycle \in Nat
    BY <1>5, FS_CardinalityType, SchedulesAssumption
  <2>2. CASE p.schedule.catchup
    BY <1>4, <1>5, <2>1, <2>2 DEF AtMost
  <2>3. CASE ~p.schedule.catchup
    BY <1>4, <1>5, <2>3 DEF AtMost
  <2>4. QED
    BY <2>2, <2>3
<1>7. Nth(p, at, k) = t
  BY <1>2, <1>3, <1>4
<1>8. QED
  BY <1>6, <1>7 DEF NextRuns

\* The instants NextRuns returns are instants of the schedule, within the horizon.
THEOREM NextRunsSound ==
  ASSUME NEW p \in Row, NEW at \in Time, p.created <= at, NEW t \in NextRuns(p, at), t \in Time
  PROVE  t \in Instants(p) /\ at < t /\ t <= at + Lookahead
<1>1. /\ at \in Nat /\ t \in Nat /\ Phase(p) \in Nat /\ Phase(p) <= at
      /\ p.schedule.every \in Nat \ {0} /\ AtMost(p) \in Nat
  BY PhaseType, SchedulesAssumption DEF Time, Row
<1>2. PICK k \in 1..AtMost(p) : t = Nth(p, at, k)
  BY DEF NextRuns
<1>3. PICK j \in Int : at < Inst(p, j + 1) /\ \A i \in Int : Nth(p, at, i) = Inst(p, j + i)
  BY <1>1, NthAt
<1>4. k \in Int /\ j + k \in Int /\ j + 1 <= j + k /\ t = Inst(p, j + k)
  BY <1>1, <1>2, <1>3
<1>5. Inst(p, j + 1) <= Inst(p, j + k)
  <2>1. (j + 1) * p.schedule.every <= (j + k) * p.schedule.every
    BY <1>1, <1>4, MulMono
  <2>2. (j + 1) * p.schedule.every \in Int /\ (j + k) * p.schedule.every \in Int
    BY <1>1, <1>4
  <2>3. QED
    BY <1>1, <2>1, <2>2 DEF Inst
<1>6. at < t
  <2>1. Inst(p, j + 1) \in Int
    BY <1>1, MulNext DEF Inst
  <2>2. QED
    BY <1>1, <1>3, <1>4, <1>5, <2>1
<1>7. QED
  BY <1>1, <1>4, <1>6, InstantAt DEF NextRuns

\* A deployment misses an instant only by an outage: a tick that went through left
\* a run for every instant up to the horizon that a cycle may create.
THEOREM MissedOnlyInOutageAlways == Spec => []MissedOnlyInOutage
<1>1. Typed /\ HandledCovered => MissedOnlyInOutage
  <2> SUFFICES ASSUME Typed, HandledCovered, NEW d \in Dep, NEW at \in handled[d],
                      NEW t \in Instants(dep[d]), at < t, t <= at + Lookahead,
                      dep[d].schedule.catchup \/ {u \in Instants(dep[d]) : at < u /\ u < t} = {},
                      Cardinality({u \in Instants(dep[d]) : at < u /\ u < t}) < MaxPerCycle
               PROVE  \E p \in run : p.dep = d /\ p.at = t
    BY DEF MissedOnlyInOutage
  <2>1. dep[d] \in Row /\ at \in Time /\ dep[d].created <= at
    BY DEF Typed, TypeOK, HandledCovered
  <2>2. t \in NextRuns(dep[d], at) /\ t \in Time
    BY <2>1, NextRunsComplete, InstantAt
  <2>3. QED
    BY <2>2 DEF HandledCovered, Created
<1>2. Typed /\ KeysAreInstants /\ Covered /\ [Next]_vars => Covered'
  BY TypeNext, CoveredNext
<1>3. Covered => HandledCovered
  BY DEF Covered
<1>4. Typed /\ KeysAreInstants /\ [Next]_vars => KeysAreInstants'
  BY KeysNext
<1>5. QED
  BY <1>1, <1>2, <1>3, <1>4, TypeInit, TypeNext, KeysInit, CoveredInit, PTL DEF Spec

-----------------------------------------------------------------------------
(***************************************************************************)
(* GitSync.                                                                *)
(***************************************************************************)

\* A path of a spec and its content, as a hash stands for them.
OwnHash(n) == (Base \X {n}) \X Body

LEMMA OwnPath ==
  ASSUME NEW n \in Name, NEW h \in OwnHash(n)
  PROVE  /\ h \in Hash /\ h[1] \in Paths /\ h[1] # Elsewhere /\ h[1][2] = n /\ h[2] \in Body
         /\ \A m \in Name \ {n} : \A k \in OwnHash(m) : k[1] # h[1]
BY GitSyncAssumption DEF OwnHash, Hash, Paths, Elsewhere, none

LEMMA RenderedHash ==
  ASSUME GitTypeOK, NEW n \in Name, NEW body \in Body
  PROVE  /\ TreeHash(n, body) \in OwnHash(n) /\ TreeHash(n, body) \in Hash
         /\ TreeHash(n, body)[1] = RepoPath(n) /\ TreeHash(n, body)[2] = body
         /\ RepoPath(n) \in Paths
<1>1. conn.base \in Base
  BY DEF GitTypeOK
<1>2. QED
  BY <1>1 DEF TreeHash, RepoPath, OwnHash, Hash, Paths

\* A sync that is not idle is one of a saved row.
LEMMA FlightType ==
  ASSUME GitTypeOK, NEW w \in Syncer
  PROVE  /\ At(w, "idle") => sync[w] = Idle
         /\ ~At(w, "idle") => /\ sync[w] \in Flight /\ sync[w].name \in Name
                              /\ sync[w].row \in Saved /\ sync[w].row.body \in Body
         /\ sync[w].beside \in BOOLEAN
<1>1. sync[w] \in Flight \/ sync[w] = Idle
  BY DEF GitTypeOK
<1>2. Idle.pc = "idle" /\ Idle.beside = FALSE
  BY DEF Idle
<1>3. \A f \in Flight : /\ f.pc # "idle" /\ f.name \in Name /\ f.row \in Saved
                        /\ f.beside \in BOOLEAN
  BY DEF Flight
<1>4. \A s \in Saved : s.body \in Body
  BY DEF Saved
<1>5. QED
  BY <1>1, <1>2, <1>3, <1>4 DEF At

LEMMA FailsType ==
  ASSUME GitTypeOK, NEW kind, Fails(kind)
  PROVE  failures' \in 0..MaxFailures
BY GitSyncAssumption DEF GitTypeOK, Fails

LEMMA EditType ==
  ASSUME GitTypeOK, Edit PROVE edits' \in 0..MaxEdits
BY GitSyncAssumption DEF GitTypeOK, Edit

LEMMA SavedType ==
  ASSUME NEW s \in Saved \cup {NoSpec}
  PROVE  /\ s # NoSpec <=> s \in Saved
         /\ s.auto => s \in Saved
         /\ s.id # none => s \in Saved
BY GitSyncAssumption DEF Saved, NoSpec

\* A sync that begins is beside the others of its spec, and they beside it.
LEMMA BeginFacts ==
  ASSUME GitTypeOK, NEW w \in Syncer, At(w, "idle"), NEW n \in Name, NEW row \in Saved,
         Begin(w, n, row)
  PROVE  /\ sync' \in [Syncer -> Flight \cup {Idle}] /\ failures' \in 0..MaxFailures
         /\ sync'[w] \in Flight
         /\ sync'[w].pc = "clone" /\ sync'[w].name = n
         /\ sync'[w].beside = (InFlight(n) # {})
         /\ \A v \in Syncer \ {w} :
              IF v \in InFlight(n) THEN sync'[v] = [sync[v] EXCEPT !.beside = TRUE]
                                   ELSE sync'[v] = sync[v]
<1>1. failures' \in 0..MaxFailures
  BY FailsType DEF Begin, GitTypeOK
<1>2. sync' = [v \in Syncer |->
       CASE v = w -> [Idle EXCEPT !.pc = "clone", !.name = n, !.row = row,
                                  !.beside = InFlight(n) # {}]
         [] v \in InFlight(n) -> [sync[v] EXCEPT !.beside = TRUE]
         [] OTHER -> sync[v]]
  BY DEF Begin
<1>3. sync'[w] = [Idle EXCEPT !.pc = "clone", !.name = n, !.row = row,
                              !.beside = InFlight(n) # {}]
  <2> DEFINE new(v) == CASE v = w -> [Idle EXCEPT !.pc = "clone", !.name = n, !.row = row,
                                  !.beside = InFlight(n) # {}]
         [] v \in InFlight(n) -> [sync[v] EXCEPT !.beside = TRUE]
         [] OTHER -> sync[v]
  <2>1. w \notin InFlight(n)
    BY DEF InFlight
  <2>2. sync'[w] = new(w)
    BY <1>2
  <2>3. QED
    BY <2>1, <2>2
<1>4. /\ sync'[w].pc = "clone" /\ sync'[w].name = n
      /\ sync'[w].beside = (InFlight(n) # {}) /\ sync'[w] \in Flight
  <2> DEFINE b == InFlight(n) # {}
  <2>1. b \in BOOLEAN
    OBVIOUS
  <2>2. sync'[w] = [pc |-> "clone", name |-> n, row |-> row, repo |-> "none", head |-> 0,
                    tree |-> <<>>, hash |-> NoHash, state |-> "none", beside |-> b]
    BY <1>3 DEF Idle
  <2> HIDE DEF b
  <2>3. sync'[w].pc = "clone" /\ sync'[w].name = n /\ sync'[w].beside = b
    BY <2>2
  <2>4. sync'[w] \in Flight
    BY <2>1, <2>2 DEF Flight
  <2>5. QED
    BY <2>3, <2>4 DEF b
<1>5. \A v \in Syncer \ {w} :
        IF v \in InFlight(n) THEN sync'[v] = [sync[v] EXCEPT !.beside = TRUE]
                             ELSE sync'[v] = sync[v]
  BY <1>2
<1>6. ASSUME NEW v \in Syncer \ {w} PROVE sync'[v] \in Flight \cup {Idle}
  <2>1. CASE v \notin InFlight(n)
    BY <1>5, <2>1 DEF GitTypeOK
  <2>2. CASE v \in InFlight(n)
    <3>1. sync[v] \in Flight
      BY <2>2, FlightType DEF InFlight
    <3>2. \A f \in Flight : [f EXCEPT !.beside = TRUE] \in Flight
      BY DEF Flight
    <3>3. QED
      BY <1>5, <2>2, <3>1, <3>2
  <2>3. QED
    BY <2>1, <2>2
<1>7. QED
  BY <1>1, <1>2, <1>4, <1>5, <1>6

\* One sync moves on or is done.
LEMMA MoveType ==
  ASSUME GitTypeOK, NEW w \in Syncer, NEW c \in Flight \cup {Idle}, sync' = [sync EXCEPT ![w] = c]
  PROVE  /\ sync' \in [Syncer -> Flight \cup {Idle}] /\ sync'[w] = c
         /\ \A v \in Syncer \ {w} : sync'[v] = sync[v]
BY DEF GitTypeOK

LEMMA TreeUpdate ==
  ASSUME NEW t \in Tree, NEW n \in Name, NEW h \in OwnHash(n)
  PROVE  /\ [t EXCEPT ![h[1]] = h[2]] \in Tree
         /\ [t EXCEPT ![h[1]] = h[2]][h[1]] = h[2]
         /\ \A p \in Paths \ {h[1]} : [t EXCEPT ![h[1]] = h[2]][p] = t[p]
<1>1. h[1] \in Paths /\ h[1] # Elsewhere /\ h[2] \in Body /\ Elsewhere \in Paths
  BY OwnPath DEF Paths
<1>2. t \in [Paths -> Body \cup Nat] /\ t[Elsewhere] \in Nat
  BY DEF Tree
<1>3. QED
  BY <1>1, <1>2 DEF Tree

\* What a sync holds once it has rendered its spec.
Render(w) == [sync[w] EXCEPT !.repo = conn.repo,
                !.hash = TreeHash(sync[w].name, sync[w].row.body),
                !.head = repo[conn.repo].head,
                !.tree = [repo[conn.repo].tree EXCEPT ![RepoPath(sync[w].name)] = sync[w].row.body]]

LEMMA CloneFacts ==
  ASSUME GitTypeOK, NEW w \in Syncer, Clone(w)
  PROVE  /\ sync' \in [Syncer -> Flight \cup {Idle}] /\ failures' \in 0..MaxFailures
         /\ \A v \in Syncer \ {w} : sync'[v] = sync[v]
         /\ sync'[w] \in Flight /\ sync'[w].pc \in {"push", "record"}
         /\ sync'[w].name = sync[w].name /\ sync'[w].beside = sync[w].beside
         /\ sync'[w].repo = conn.repo /\ conn.repo \in Repo
         /\ sync'[w].head = repo[conn.repo].head
         /\ sync'[w].hash \in OwnHash(sync[w].name)
         /\ sync'[w].tree \in Tree
         /\ sync'[w].tree = [repo[conn.repo].tree EXCEPT ![sync'[w].hash[1]] = sync'[w].hash[2]]
         /\ sync'[w].tree[sync'[w].hash[1]] = sync'[w].hash[2]
         /\ sync'[w].pc = "record" => sync'[w].state # "none"
         /\ sync'[w].pc = "record" /\ sync'[w].state = "synced"
              => sync'[w].tree = repo[conn.repo].tree
<1> DEFINE r == conn.repo  n == sync[w].name  h == TreeHash(n, sync[w].row.body)
<1> DEFINE t == [repo[r].tree EXCEPT ![h[1]] = h[2]]
<1>1. /\ sync[w] \in Flight /\ n \in Name /\ sync[w].row \in Saved /\ sync[w].row.body \in Body
  BY FlightType DEF Clone, At
<1>2. r \in Repo /\ repo[r].head \in Nat /\ repo[r].tree \in Tree
  BY DEF GitTypeOK
<1>3. /\ h \in OwnHash(n) /\ h \in Hash /\ h[1] = RepoPath(n) /\ h[2] = sync[w].row.body
  BY <1>1, RenderedHash
<1>4. t \in Tree /\ t[h[1]] = h[2]
  BY <1>1, <1>2, <1>3, TreeUpdate
<1>5. Render(w) = [sync[w] EXCEPT !.repo = r, !.hash = h, !.head = repo[r].head, !.tree = t]
  BY <1>3 DEF Render
<1>6. /\ Render(w) \in Flight
      /\ Render(w).repo = r /\ Render(w).hash = h /\ Render(w).head = repo[r].head
      /\ Render(w).tree = t /\ Render(w).name = n /\ Render(w).beside = sync[w].beside
  BY <1>1, <1>2, <1>3, <1>4, <1>5 DEF Flight
<1>7. /\ \/ sync' = [sync EXCEPT ![w] = IF Render(w).tree = repo[r].tree
                                        THEN [Render(w) EXCEPT !.pc = "record", !.state = "synced"]
                                        ELSE [Render(w) EXCEPT !.pc = "push"]]
         \/ sync' = [sync EXCEPT ![w] = [Render(w) EXCEPT !.pc = "record", !.state = "error"]]
      /\ failures' = failures \/ Fails("clone")
  BY DEF Clone, Render
<1>8. PICK c \in Flight :
        /\ sync' = [sync EXCEPT ![w] = c]
        /\ c.pc \in {"push", "record"}
        /\ c.repo = r /\ c.hash = h /\ c.head = repo[r].head /\ c.tree = t
        /\ c.name = n /\ c.beside = sync[w].beside
        /\ c.pc = "record" => c.state # "none"
        /\ c.pc = "record" /\ c.state = "synced" => t = repo[r].tree
  <2>1. ASSUME NEW pc \in {"push", "record"}, NEW state \in {"none", "synced", "error"}
        PROVE  LET c == [Render(w) EXCEPT !.pc = pc, !.state = state] IN
               /\ c \in Flight /\ c.pc = pc /\ c.state = state
               /\ c.repo = r /\ c.hash = h /\ c.head = repo[r].head /\ c.tree = t
               /\ c.name = n /\ c.beside = sync[w].beside
    BY <1>6 DEF Flight
  <2>2. LET c == [Render(w) EXCEPT !.pc = "push"] IN
               /\ c \in Flight /\ c.pc = "push"
               /\ c.repo = r /\ c.hash = h /\ c.head = repo[r].head /\ c.tree = t
               /\ c.name = n /\ c.beside = sync[w].beside
    BY <1>6 DEF Flight
  <2>3. CASE sync' = [sync EXCEPT ![w] = [Render(w) EXCEPT !.pc = "push"]]
    BY <2>2, <2>3
  <2>4. CASE /\ sync' = [sync EXCEPT ![w] = [Render(w) EXCEPT !.pc = "record", !.state = "synced"]]
             /\ t = repo[r].tree
    BY <2>1, <2>4
  <2>5. CASE sync' = [sync EXCEPT ![w] = [Render(w) EXCEPT !.pc = "record", !.state = "error"]]
    BY <2>1, <2>5
  <2>6. QED
    BY <1>6, <1>7, <2>3, <2>4, <2>5
<1>9. /\ sync' \in [Syncer -> Flight \cup {Idle}] /\ sync'[w] = c
      /\ \A v \in Syncer \ {w} : sync'[v] = sync[v]
  BY <1>8, MoveType
<1>10. failures' \in 0..MaxFailures
  BY <1>7, FailsType DEF GitTypeOK
<1>11. QED
  BY <1>2, <1>3, <1>4, <1>8, <1>9, <1>10

\* A push that lands is recorded as such or as failed; one that does not, as failed.
LEMMA PushFacts ==
  ASSUME GitTypeOK, NEW w \in Syncer, Push(w)
  PROVE  /\ sync' \in [Syncer -> Flight \cup {Idle}] /\ failures' \in 0..MaxFailures
         /\ \A v \in Syncer \ {w} : sync'[v] = sync[v]
         /\ sync'[w] \in Flight /\ sync'[w].pc = "record"
         /\ sync'[w].name = sync[w].name /\ sync'[w].beside = sync[w].beside
         /\ sync'[w].repo = sync[w].repo /\ sync'[w].hash = sync[w].hash
         /\ sync'[w].tree = sync[w].tree /\ sync'[w].state # "none"
         /\ \/ repo' = repo /\ sync'[w].state = "error"
            \/ Accepted(w) /\ Land(w)
<1> DEFINE to(state) == [sync[w] EXCEPT !.pc = "record", !.state = state]
<1>1. sync[w] \in Flight
  BY FlightType DEF Push, At
<1>2. \A state \in {"synced", "error"} :
        /\ to(state) \in Flight /\ to(state).pc = "record" /\ to(state).state = state
        /\ to(state).name = sync[w].name /\ to(state).beside = sync[w].beside
        /\ to(state).repo = sync[w].repo /\ to(state).hash = sync[w].hash
        /\ to(state).tree = sync[w].tree
  BY <1>1 DEF Flight
<1>3. PICK state \in {"synced", "error"} :
        /\ sync' = [sync EXCEPT ![w] = to(state)]
        /\ (repo' = repo /\ state = "error") \/ (Accepted(w) /\ Land(w))
        /\ failures' = failures \/ \E kind : Fails(kind)
  <2>1. CASE /\ IF Accepted(w) THEN Land(w) ELSE UNCHANGED repo
             /\ sync' = [sync EXCEPT ![w] = to(Verdict(w))] /\ UNCHANGED failures
    BY <2>1 DEF Verdict
  <2>2. CASE /\ Fails("push") /\ sync' = [sync EXCEPT ![w] = to("error")] /\ UNCHANGED repo
    BY <2>2
  <2>3. CASE /\ Accepted(w) /\ Fails("ackLost") /\ Land(w)
             /\ sync' = [sync EXCEPT ![w] = to("error")]
    BY <2>3
  <2>4. QED
    BY <2>1, <2>2, <2>3 DEF Push
<1> HIDE DEF to
<1>4. /\ sync' \in [Syncer -> Flight \cup {Idle}] /\ sync'[w] = to(state)
      /\ \A v \in Syncer \ {w} : sync'[v] = sync[v]
  BY <1>2, <1>3, MoveType
<1>5. failures' \in 0..MaxFailures
  BY <1>3, FailsType DEF GitTypeOK
<1>6. QED
  BY <1>2, <1>3, <1>4, <1>5

LEMMA DoneFacts ==
  ASSUME GitTypeOK, NEW w \in Syncer, Done(w)
  PROVE  /\ sync' \in [Syncer -> Flight \cup {Idle}]
         /\ sync'[w] = Idle /\ sync'[w].pc = "idle"
         /\ \A v \in Syncer \ {w} : sync'[v] = sync[v]
BY MoveType DEF Done, Idle

-----------------------------------------------------------------------------
(* Types. *)

\* A sync that has rendered its spec has a path of its own, and a tree to push.
Rendered(w) ==
  sync[w].pc \in {"push", "record"} =>
    /\ sync[w].repo \in Repo /\ sync[w].hash \in OwnHash(sync[w].name)
    /\ sync[w].tree \in Tree
    /\ sync[w].pc = "record" => sync[w].state # "none"

\* A push that will be accepted adds the files of the spec to the branch as it is.
Upstream(w) ==
  At(w, "push") =>
    /\ sync[w].head <= repo[sync[w].repo].head
    /\ sync[w].head = repo[sync[w].repo].head
         => sync[w].tree = [repo[sync[w].repo].tree EXCEPT ![sync[w].hash[1]] = sync[w].hash[2]]

GitTyped == GitTypeOK /\ \A w \in Syncer : Rendered(w) /\ Upstream(w)

LEMMA LandFacts ==
  ASSUME GitTyped, NEW w \in Syncer, At(w, "push"), Accepted(w), Land(w)
  PROVE  LET r == sync[w].repo  h == sync[w].hash IN
         /\ r \in Repo /\ sync[w].name \in Name /\ h \in OwnHash(sync[w].name)
         /\ repo' \in [Repo -> [head : Nat, tree : Tree]]
         /\ \A q \in Repo \ {r} : repo'[q] = repo[q]
         /\ repo'[r].head = repo[r].head + 1
         /\ repo'[r].tree[h[1]] = h[2]
         /\ \A p \in Paths \ {h[1]} : repo'[r].tree[p] = repo[r].tree[p]
<1> DEFINE r == sync[w].repo  h == sync[w].hash
<1>1. r \in Repo /\ h \in OwnHash(sync[w].name) /\ sync[w].tree \in Tree
  BY DEF GitTyped, Rendered, At
<1>2. sync[w].name \in Name
  BY FlightType DEF GitTyped, At
<1>3. repo[r].head \in Nat /\ repo[r].tree \in Tree
  BY <1>1 DEF GitTyped, GitTypeOK
<1>4. sync[w].tree = [repo[r].tree EXCEPT ![h[1]] = h[2]]
  BY DEF GitTyped, Upstream, Accepted
<1>5. repo' = [repo EXCEPT ![r] = [head |-> repo[r].head + 1, tree |-> sync[w].tree]]
  BY DEF Land
<1>6. repo'[r] = [head |-> repo[r].head + 1, tree |-> sync[w].tree]
  BY <1>1, <1>5 DEF GitTyped, GitTypeOK
<1>7. repo' \in [Repo -> [head : Nat, tree : Tree]] /\ \A q \in Repo \ {r} : repo'[q] = repo[q]
  BY <1>1, <1>3, <1>5 DEF GitTyped, GitTypeOK
<1>8. /\ sync[w].tree[h[1]] = h[2]
      /\ \A p \in Paths \ {h[1]} : sync[w].tree[p] = repo[r].tree[p]
  <2> DEFINE t == repo[r].tree  u == sync[w].tree  n == sync[w].name
  <2>1. t \in Tree /\ n \in Name /\ h \in OwnHash(n) /\ u = [t EXCEPT ![h[1]] = h[2]]
    BY <1>1, <1>2, <1>3, <1>4
  <2> HIDE DEF t, u, n, h
  <2>2. h[1] \in Paths /\ t \in [Paths -> Body \cup Nat]
    BY <2>1, OwnPath DEF Tree
  <2>3. u[h[1]] = h[2] /\ \A p \in Paths \ {h[1]} : u[p] = t[p]
    BY <2>1, <2>2
  <2>4. QED
    BY <2>3 DEF t, u, n, h
<1>9. QED
  BY <1>1, <1>2, <1>6, <1>7, <1>8

LEMMA ForeignFacts ==
  ASSUME GitTypeOK, NEW r \in Repo, ForeignCommit(r)
  PROVE  /\ repo' \in [Repo -> [head : Nat, tree : Tree]]
         /\ \A q \in Repo \ {r} : repo'[q] = repo[q]
         /\ repo'[r].head = repo[r].head + 1
         /\ repo[r].tree[Elsewhere] \in Nat
         /\ repo'[r].tree[Elsewhere] = repo[r].tree[Elsewhere] + 1
         /\ \A p \in Paths \ {Elsewhere} : repo'[r].tree[p] = repo[r].tree[p]
<1> DEFINE t == [repo[r].tree EXCEPT ![Elsewhere] = repo[r].tree[Elsewhere] + 1]
<1>1. repo[r].head \in Nat /\ repo[r].tree \in Tree /\ Elsewhere \in Paths
  BY DEF GitTypeOK, Paths
<1>2. repo[r].tree \in [Paths -> Body \cup Nat] /\ repo[r].tree[Elsewhere] \in Nat
  BY <1>1 DEF Tree
<1>3. /\ t \in [Paths -> Body \cup Nat] /\ t[Elsewhere] = repo[r].tree[Elsewhere] + 1
      /\ \A p \in Paths \ {Elsewhere} : t[p] = repo[r].tree[p]
  BY <1>1, <1>2
<1>4. t \in Tree
  BY <1>2, <1>3 DEF Tree
<1>5. repo' = [repo EXCEPT ![r] = [head |-> repo[r].head + 1, tree |-> t]]
  BY DEF ForeignCommit
<1> HIDE DEF t
<1>6. repo'[r] = [head |-> repo[r].head + 1, tree |-> t]
  BY <1>5 DEF GitTypeOK
<1>7. repo' \in [Repo -> [head : Nat, tree : Tree]] /\ \A q \in Repo \ {r} : repo'[q] = repo[q]
  BY <1>1, <1>4, <1>5 DEF GitTypeOK
<1>8. QED
  BY <1>2, <1>3, <1>6, <1>7

-----------------------------------------------------------------------------
(* What a step leaves of a sync: all of it, but that another one is beside it. *)

Carried(v) ==
  /\ sync'[v].pc = sync[v].pc /\ sync'[v].name = sync[v].name
  /\ sync'[v].repo = sync[v].repo /\ sync'[v].head = sync[v].head
  /\ sync'[v].tree = sync[v].tree /\ sync'[v].hash = sync[v].hash
  /\ sync'[v].state = sync[v].state
  /\ sync[v].beside => sync'[v].beside

LEMMA BeginCarries ==
  ASSUME GitTypeOK, NEW w \in Syncer, At(w, "idle"), NEW n \in Name, NEW row \in Saved,
         Begin(w, n, row), NEW v \in Syncer \ {w}
  PROVE  Carried(v) /\ (sync[v].beside \/ v \in InFlight(n) => sync'[v].beside)
<1>1. CASE v \in InFlight(n)
  <2>1. sync[v] \in Flight /\ sync'[v] = [sync[v] EXCEPT !.beside = TRUE]
    BY <1>1, BeginFacts, FlightType DEF InFlight
  <2>2. QED
    BY <1>1, <2>1 DEF Carried, Flight
<1>2. CASE v \notin InFlight(n)
  <2>1. sync'[v] = sync[v]
    BY <1>2, BeginFacts
  <2>2. QED
    BY <1>2, <2>1 DEF Carried
<1>3. QED
  BY <1>1, <1>2

LEMMA Carries ==
  ASSUME NEW v, sync'[v] = sync[v] PROVE Carried(v)
BY DEF Carried

LEMMA TypedStep ==
  ASSUME GitTyped, GitTypeOK',
         \A r \in Repo : repo'[r] = repo[r] \/ repo'[r].head = repo[r].head + 1,
         \A v \in Syncer : Carried(v) \/ (Rendered(v) /\ Upstream(v))'
  PROVE  GitTyped'
<1> SUFFICES ASSUME NEW v \in Syncer, Carried(v) PROVE (Rendered(v) /\ Upstream(v))'
  BY DEF GitTyped
<1>1. Rendered(v)'
  BY DEF GitTyped, Rendered, Carried
<1>2. Upstream(v)'
  <2>1. SUFFICES ASSUME At(v, "push")
                 PROVE  /\ sync[v].head <= repo'[sync[v].repo].head
                        /\ sync[v].head = repo'[sync[v].repo].head
                             => sync[v].tree = [repo'[sync[v].repo].tree
                                                  EXCEPT ![sync[v].hash[1]] = sync[v].hash[2]]
    BY DEF Upstream, At, Carried
  <2>2. /\ sync[v].repo \in Repo /\ sync[v].head \in Nat /\ repo[sync[v].repo].head \in Nat
    <3>1. sync[v].repo \in Repo
      BY <2>1 DEF GitTyped, Rendered, At
    <3>2. sync[v] \in Flight
      BY <2>1, FlightType DEF GitTyped, At
    <3>3. QED
      BY <3>1, <3>2 DEF Flight, GitTyped, GitTypeOK
  <2>3. /\ sync[v].head <= repo[sync[v].repo].head
        /\ sync[v].head = repo[sync[v].repo].head
             => sync[v].tree = [repo[sync[v].repo].tree
                                  EXCEPT ![sync[v].hash[1]] = sync[v].hash[2]]
    BY <2>1 DEF GitTyped, Upstream
  <2>4. CASE repo'[sync[v].repo] = repo[sync[v].repo]
    BY <2>3, <2>4
  <2>5. CASE repo'[sync[v].repo].head = repo[sync[v].repo].head + 1
    BY <2>2, <2>3, <2>5
  <2>6. QED
    BY <2>2, <2>4, <2>5
<1>3. QED
  BY <1>1, <1>2

\* The operator.
LEMMA OperatorTyped ==
  ASSUME GitTyped, Operator
  PROVE  GitTyped'
<1>0. GitTypeOK
  BY DEF GitTyped
<1>1. ASSUME NEW n \in Name, NEW body \in Body, NEW auto \in BOOLEAN, UpsertWorkerSpec(n, body, auto)
      PROVE  GitTyped'
  <2>1. New(edits + 2, body, auto) \in Saved
    BY <1>0 DEF GitTypeOK, New, Saved, none
  <2>2. ASSUME spec[n] # NoSpec PROVE [spec[n] EXCEPT !.body = body, !.auto = auto] \in Saved
    BY <1>0, <2>2 DEF GitTypeOK, Saved
  <2>3. spec' \in [Name -> Saved \cup {NoSpec}]
    <3>1. PICK s \in Saved : spec' = [spec EXCEPT ![n] = s]
      BY <1>1, <2>1, <2>2 DEF UpsertWorkerSpec
    <3>2. QED
      BY <1>0, <3>1 DEF GitTypeOK
  <2>4. edits' \in 0..MaxEdits /\ UNCHANGED <<conn, repo, sync, todo, lost, failures>>
    BY <1>0, <1>1, EditType DEF UpsertWorkerSpec
  <2>5. GitTypeOK'
    BY <1>0, <2>3, <2>4 DEF GitTypeOK
  <2>6. QED
    BY <2>4, <2>5, Carries, TypedStep
<1>2. ASSUME NEW n \in Name, DeleteWorkerSpec(n) PROVE GitTyped'
  <2>1. edits' \in 0..MaxEdits /\ UNCHANGED <<conn, repo, sync, todo, lost, failures>>
    BY <1>0, <1>2, EditType DEF DeleteWorkerSpec
  <2>2. GitTypeOK'
    BY <1>0, <1>2, <2>1 DEF GitTypeOK, DeleteWorkerSpec
  <2>3. QED
    BY <2>1, <2>2, Carries, TypedStep
<1>3. ASSUME NEW r \in Repo, NEW b \in Base, PutGitConnection(r, b) PROVE GitTyped'
  <2>1. edits' \in 0..MaxEdits /\ UNCHANGED <<spec, repo, sync, todo, lost, failures>>
    BY <1>0, <1>3, EditType DEF PutGitConnection
  <2>2. GitTypeOK'
    BY <1>0, <1>3, <2>1 DEF GitTypeOK, PutGitConnection
  <2>3. QED
    BY <2>1, <2>2, Carries, TypedStep
<1>4. ASSUME NEW w \in Request, NEW n \in Name, SyncNow(w, n) PROVE GitTyped'
  <2>1. /\ w \in Syncer /\ At(w, "idle") /\ spec[n] \in Saved /\ Begin(w, n, spec[n])
        /\ edits' \in 0..MaxEdits /\ UNCHANGED <<spec, conn, repo, todo, lost>>
    BY <1>0, <1>4, EditType DEF SyncNow, Syncer, GitTypeOK
  <2>2. GitTypeOK'
    BY <1>0, <2>1, BeginFacts DEF GitTypeOK
  <2>3. (Rendered(w) /\ Upstream(w))'
    BY <1>0, <2>1, BeginFacts DEF Rendered, Upstream, At
  <2>4. QED
    BY <1>0, <2>1, <2>2, <2>3, BeginCarries, TypedStep
<1>5. QED
  BY <1>1, <1>2, <1>3, <1>4 DEF Operator

\* The reconciler.
LEMMA TickTyped ==
  ASSUME GitTyped, NEW w \in Syncer, ListSpecs(w)
  PROVE  GitTyped'
<1> DEFINE Item == [name : Name, row : Saved, hash : Hash]
<1>0. GitTypeOK /\ UNCHANGED <<spec, conn, repo, sync, lost, edits, failures>>
  BY DEF GitTyped, ListSpecs
<1>1. ASSUME NEW n \in Name, spec[n].auto PROVE ToSync(n) \in Item
  <2>1. spec[n] \in Saved
    BY <1>0, <1>1, SavedType DEF GitTypeOK
  <2>2. spec[n].body \in Body
    BY <2>1 DEF Saved
  <2>3. TreeHash(n, spec[n].body) \in Hash
    BY <1>0, <2>2, RenderedHash
  <2>4. QED
    BY <2>1, <2>3 DEF ToSync
<1> DEFINE items == {ToSync(n) : n \in {m \in Name : spec[m].auto}}
<1>2. items \subseteq Item
  BY <1>1
<1>3. todo' = [todo EXCEPT ![w] = items]
  BY DEF ListSpecs
<1> HIDE DEF items
<1>4. GitTypeOK'
  BY <1>0, <1>2, <1>3 DEF GitTypeOK
<1>5. QED
  BY <1>0, <1>4, Carries, TypedStep

LEMMA ConsiderTyped ==
  ASSUME GitTyped, NEW w \in Syncer, Consider(w)
  PROVE  GitTyped'
<1>0. GitTypeOK /\ At(w, "idle") /\ UNCHANGED <<spec, conn, repo, lost, edits>>
  BY DEF GitTyped, Consider
<1>1. PICK it \in todo[w] :
        /\ UNCHANGED <<sync, failures>> \/ Begin(w, it.name, it.row)
        /\ todo' = [todo EXCEPT ![w] = todo[w] \ {it}]
  BY DEF Consider
<1>2. it.name \in Name /\ it.row \in Saved
  BY <1>0, <1>1 DEF GitTypeOK
<1>3. todo' \in [Syncer -> SUBSET [name : Name, row : Saved, hash : Hash]]
  BY <1>0, <1>1 DEF GitTypeOK
<1>4. CASE UNCHANGED <<sync, failures>>
  <2>1. GitTypeOK'
    BY <1>0, <1>3, <1>4 DEF GitTypeOK
  <2>2. QED
    BY <1>0, <1>4, <2>1, Carries, TypedStep
<1>5. CASE Begin(w, it.name, it.row)
  <2>1. GitTypeOK'
    BY <1>0, <1>2, <1>3, <1>5, BeginFacts DEF GitTypeOK
  <2>2. (Rendered(w) /\ Upstream(w))'
    BY <1>0, <1>2, <1>5, BeginFacts DEF Rendered, Upstream, At
  <2>3. QED
    BY <1>0, <1>2, <1>5, <2>1, <2>2, BeginCarries, TypedStep
<1>6. QED
  BY <1>1, <1>4, <1>5

\* A sync.
LEMMA CloneTyped ==
  ASSUME GitTyped, NEW w \in Syncer, Clone(w)
  PROVE  GitTyped'
<1>0. GitTypeOK /\ UNCHANGED <<spec, conn, repo, todo, lost, edits>>
  BY DEF GitTyped, Clone
<1>1. GitTypeOK'
  BY <1>0, CloneFacts DEF GitTypeOK
<1>2. Rendered(w)'
  BY <1>0, CloneFacts DEF Rendered
<1>3. Upstream(w)'
  <2>1. sync'[w].head = repo[conn.repo].head /\ repo[conn.repo].head \in Nat
    BY <1>0, CloneFacts DEF GitTypeOK
  <2>2. /\ sync'[w].repo = conn.repo /\ repo' = repo
        /\ sync'[w].tree = [repo[conn.repo].tree EXCEPT ![sync'[w].hash[1]] = sync'[w].hash[2]]
    BY <1>0, CloneFacts
  <2>3. sync'[w].head <= repo'[sync'[w].repo].head
    BY <2>1, <2>2
  <2>4. sync'[w].tree = [repo'[sync'[w].repo].tree
                            EXCEPT ![sync'[w].hash[1]] = sync'[w].hash[2]]
    BY <2>2
  <2>5. QED
    BY <2>3, <2>4 DEF Upstream
<1>4. QED
  BY <1>0, <1>1, <1>2, <1>3, CloneFacts, Carries, TypedStep

LEMMA PushTyped ==
  ASSUME GitTyped, NEW w \in Syncer, Push(w)
  PROVE  GitTyped'
<1>0. GitTypeOK /\ At(w, "push") /\ UNCHANGED <<spec, conn, todo, lost, edits>>
  BY DEF GitTyped, Push
<1>1. /\ repo' \in [Repo -> [head : Nat, tree : Tree]]
      /\ \A r \in Repo : repo'[r] = repo[r] \/ repo'[r].head = repo[r].head + 1
  <2>1. CASE repo' = repo
    BY <1>0, <2>1 DEF GitTypeOK
  <2>2. CASE Accepted(w) /\ Land(w)
    BY <1>0, <2>2, LandFacts
  <2>3. QED
    BY <1>0, <2>1, <2>2, PushFacts
<1>2. GitTypeOK'
  BY <1>0, <1>1, PushFacts DEF GitTypeOK
<1>3. Rendered(w)' /\ Upstream(w)'
  <2>1. Rendered(w)
    BY DEF GitTyped
  <2>2. QED
    BY <1>0, <2>1, PushFacts DEF Rendered, Upstream, At
<1>4. QED
  BY <1>0, <1>1, <1>2, <1>3, PushFacts, Carries, TypedStep

\* What is recorded of a sync goes to the row of its name, if it is still the same.
LEMMA RecordFacts ==
  ASSUME GitTyped, NEW w \in Syncer, Record(w)
  PROVE  /\ Done(w) /\ sync[w].name \in Name
         /\ UNCHANGED <<conn, repo, todo, edits>> /\ failures' \in 0..MaxFailures
         /\ spec' \in [Name -> Saved \cup {NoSpec}]
         /\ \A n \in Name \ {sync[w].name} : spec'[n] = spec[n]
         /\ \/ lost' = lost \cup {sync[w].name}
            \/ /\ lost' = lost \ {sync[w].name} /\ ~sync[w].beside
               /\ spec'[sync[w].name].state = sync[w].state
               /\ sync[w].state = "synced" => spec'[sync[w].name].hash = sync[w].hash
         /\ \/ spec' = spec
            \/ /\ spec'[sync[w].name].state = sync[w].state
               /\ sync[w].state = "synced" => spec'[sync[w].name].hash = sync[w].hash
<1> DEFINE n == sync[w].name
<1>0. GitTypeOK /\ sync[w] \in Flight /\ n \in Name /\ sync[w].hash \in Hash
  <2>1. GitTypeOK /\ sync[w] \in Flight /\ n \in Name
    BY FlightType DEF GitTyped, Record, At
  <2>2. sync[w].hash \in OwnHash(n)
    BY DEF GitTyped, Rendered, Record, At
  <2>3. QED
    BY <2>1, <2>2, OwnPath
<1>1. failures' \in 0..MaxFailures
  BY <1>0, FailsType DEF Record, GitTypeOK
<1>2. CASE /\ spec[n].id = sync[w].row.id
           /\ spec' = [spec EXCEPT ![n] = Recorded(w, spec[n])]
           /\ lost' = IF ~sync[w].beside THEN lost \ {n} ELSE lost \cup {n}
  <2>1. spec[n] \in Saved
    <3>1. sync[w].row.id # none
      BY <1>0 DEF Flight, Saved
    <3>2. QED
      BY <1>0, <1>2, <3>1, SavedType DEF GitTypeOK
  <2>2. sync[w].state \in {"synced", "error"}
    BY <1>0 DEF Flight, GitTyped, Rendered, Record, At
  <2>3. /\ Recorded(w, spec[n]) \in Saved /\ Recorded(w, spec[n]).state = sync[w].state
        /\ sync[w].state = "synced" => Recorded(w, spec[n]).hash = sync[w].hash
    BY <1>0, <2>1, <2>2 DEF Recorded, Saved
  <2>4. /\ spec' \in [Name -> Saved \cup {NoSpec}] /\ spec'[n] = Recorded(w, spec[n])
        /\ \A m \in Name \ {n} : spec'[m] = spec[m]
    BY <1>0, <1>2, <2>3 DEF GitTypeOK
  <2>5. QED
    BY <1>0, <1>1, <1>2, <2>3, <2>4 DEF Record
<1>3. CASE spec' = spec /\ lost' = lost \cup {n}
  BY <1>0, <1>1, <1>3 DEF Record, GitTypeOK
<1>4. QED
  BY <1>2, <1>3 DEF Record

LEMMA RecordTyped ==
  ASSUME GitTyped, NEW w \in Syncer, Record(w)
  PROVE  GitTyped'
<1>1. GitTypeOK'
  <2>1. /\ GitTypeOK /\ Done(w) /\ UNCHANGED <<conn, repo, todo, edits>>
        /\ failures' \in 0..MaxFailures /\ spec' \in [Name -> Saved \cup {NoSpec}]
        /\ lost' \subseteq lost \cup {sync[w].name} /\ sync[w].name \in Name
    BY RecordFacts DEF GitTyped, Record
  <2>2. sync' \in [Syncer -> Flight \cup {Idle}]
    BY <2>1, DoneFacts
  <2>3. QED
    BY <2>1, <2>2 DEF GitTypeOK
<1>2. (Rendered(w) /\ Upstream(w))'
  BY RecordFacts, DoneFacts DEF GitTyped, Rendered, Upstream, At
<1>3. QED
  BY <1>1, <1>2, RecordFacts, DoneFacts, Carries, TypedStep DEF GitTyped

LEMMA CrashFacts ==
  ASSUME GitTypeOK, NEW w \in Syncer, Crash(w)
  PROVE  /\ GitTypeOK' /\ Done(w) /\ UNCHANGED <<spec, conn, repo, edits>>
         /\ lost' = IF At(w, "record") THEN lost \cup {sync[w].name} ELSE lost
<1>1. /\ Done(w) /\ UNCHANGED <<spec, conn, repo, edits>>
      /\ lost' = IF At(w, "record") THEN lost \cup {sync[w].name} ELSE lost
      /\ todo' = [todo EXCEPT ![w] = {}] /\ failures' \in 0..MaxFailures
  BY FailsType DEF Crash
<1>2. lost' \subseteq Name
  BY <1>1, FlightType DEF GitTypeOK, At
<1>3. GitTypeOK'
  BY <1>1, <1>2, DoneFacts DEF GitTypeOK
<1>4. QED
  BY <1>1, <1>3

LEMMA CrashTyped ==
  ASSUME GitTyped, NEW w \in Syncer, Crash(w)
  PROVE  GitTyped'
<1>1. (Rendered(w) /\ Upstream(w))'
  BY CrashFacts, DoneFacts DEF GitTyped, Rendered, Upstream, At
<1>2. QED
  BY <1>1, CrashFacts, DoneFacts, Carries, TypedStep DEF GitTyped

LEMMA ForeignTyped ==
  ASSUME GitTyped, NEW r \in Repo, ForeignCommit(r)
  PROVE  GitTyped'
<1>1. failures' \in 0..MaxFailures /\ UNCHANGED <<spec, conn, sync, todo, lost, edits>>
  BY FailsType DEF ForeignCommit, GitTyped
<1>2. GitTypeOK'
  BY <1>1, ForeignFacts DEF GitTyped, GitTypeOK
<1>3. \A q \in Repo : repo'[q] = repo[q] \/ repo'[q].head = repo[q].head + 1
  BY ForeignFacts DEF GitTyped
<1>4. QED
  BY <1>1, <1>2, <1>3, Carries, TypedStep

LEMMA TypedInit == GitInit => GitTyped
<1> SUFFICES ASSUME GitInit PROVE GitTyped
  OBVIOUS
<1>1. \A n \in Name : spec[n] \in Saved \cup {NoSpec}
  <2>1. \A b \in Body : New(1, b, TRUE) \in Saved
    BY DEF New, Saved, none
  <2>2. QED
    BY <2>1 DEF GitInit
<1>2. spec \in [Name -> Saved \cup {NoSpec}]
  BY <1>1 DEF GitInit
<1>3. conn \in [repo : Repo, base : Base]
  BY GitSyncAssumption DEF GitInit, DefaultBase
<1>4. repo \in [Repo -> [head : Nat, tree : Tree]]
  <2>1. [p \in Paths |-> none] \in Tree
    BY DEF Tree, Paths, none
  <2>2. [head |-> 0, tree |-> [p \in Paths |-> none]] \in [head : Nat, tree : Tree]
    BY <2>1
  <2>3. repo = [r \in Repo |-> [head |-> 0, tree |-> [p \in Paths |-> none]]]
    BY DEF GitInit
  <2>4. QED
    BY <2>2, <2>3
<1>5. GitTypeOK
  <2>1. sync \in [Syncer -> Flight \cup {Idle}]
    BY DEF GitInit
  <2>2. /\ todo \in [Syncer -> SUBSET [name : Name, row : Saved, hash : Hash]]
        /\ lost \subseteq Name
    BY DEF GitInit
  <2>3. edits \in 0..MaxEdits /\ failures \in 0..MaxFailures
    BY GitSyncAssumption DEF GitInit
  <2>4. QED
    BY <1>2, <1>3, <1>4, <2>1, <2>2, <2>3 DEF GitTypeOK
<1>6. \A w \in Syncer : sync[w].pc = "idle"
  BY DEF GitInit, Idle
<1>7. QED
  BY <1>5, <1>6 DEF GitTyped, Rendered, Upstream, At

LEMMA TypedNext == GitTyped /\ [GitNext]_gitVars => GitTyped'
<1> SUFFICES ASSUME GitTyped, [GitNext]_gitVars PROVE GitTyped'
  OBVIOUS
<1>1. CASE Operator
  BY <1>1, OperatorTyped
<1>2. ASSUME NEW w \in Syncer, Work(w) PROVE GitTyped'
  BY <1>2, TickTyped, ConsiderTyped, CloneTyped, PushTyped, RecordTyped DEF Work
<1>3. ASSUME NEW w \in Syncer, Crash(w) PROVE GitTyped'
  BY <1>3, CrashTyped
<1>4. ASSUME NEW r \in Repo, ForeignCommit(r) PROVE GitTyped'
  BY <1>4, ForeignTyped
<1>5. CASE UNCHANGED gitVars
  <2>1. UNCHANGED <<spec, conn, repo, sync, todo, lost, edits, failures>>
    BY <1>5 DEF gitVars
  <2>2. QED
    BY <2>1 DEF GitTyped, GitTypeOK, Rendered, Upstream, At
<1>6. QED
  BY <1>1, <1>2, <1>3, <1>4, <1>5 DEF GitNext

\* Rows, branches and syncs are well typed.
THEOREM GitTypeCorrect == GitSpec => []GitTypeOK
<1>1. GitTyped => GitTypeOK
  BY DEF GitTyped
<1>2. QED
  BY <1>1, TypedInit, TypedNext, PTL DEF GitSpec

\* A step changes a path of a branch by a push, at the path of the spec that is
\* pushed, or by somebody else's commit, elsewhere.
LEMMA OwnFilesStep ==
  ASSUME GitTyped, [GitNext]_gitVars, NEW r \in Repo, NEW p \in Paths,
         repo'[r].tree[p] # repo[r].tree[p]
  PROVE  \/ \E w \in Syncer : At(w, "push") /\ sync[w].hash[1] = p
         \/ p = Elsewhere /\ repo'[r].tree[p] > repo[r].tree[p]
<1>1. CASE UNCHANGED repo
  BY <1>1
<1>2. ASSUME NEW w \in Syncer, Push(w), repo' # repo
      PROVE  \E v \in Syncer : At(v, "push") /\ sync[v].hash[1] = p
  <2>1. At(w, "push") /\ Accepted(w) /\ Land(w)
    BY <1>2, PushFacts DEF GitTyped, Push
  <2>2. r = sync[w].repo
    BY <2>1, LandFacts
  <2>3. p = sync[w].hash[1]
    BY <2>1, <2>2, LandFacts
  <2>4. QED
    BY <2>1, <2>3
<1>3. ASSUME NEW q \in Repo, ForeignCommit(q)
      PROVE  p = Elsewhere /\ repo'[r].tree[p] > repo[r].tree[p]
  <2>1. r = q /\ p = Elsewhere
    BY <1>3, ForeignFacts DEF GitTyped
  <2>2. QED
    BY <1>3, <2>1, ForeignFacts DEF GitTyped
<1>4. QED
  <2>1. \/ UNCHANGED repo
        \/ \E w \in Syncer : Push(w)
        \/ \E q \in Repo : ForeignCommit(q)
    BY DEF GitNext, gitVars, Operator, UpsertWorkerSpec, DeleteWorkerSpec, PutGitConnection, SyncNow, Work, ListSpecs,
           Consider, Clone, Record, Crash
  <2>2. QED
    BY <1>1, <1>2, <1>3, <2>1

\* A sync changes the files of its own spec and no others, whatever other syncs and
\* other people commit between its clone and its push, and whatever fails.
THEOREM OnlyItsOwnFilesAlways == GitSpec => OnlyItsOwnFiles
<1>1. GitTyped /\ [GitNext]_gitVars =>
        [\A r \in Repo, p \in Paths :
           repo'[r].tree[p] # repo[r].tree[p]
             => \/ \E w \in Syncer : At(w, "push") /\ sync[w].hash[1] = p
                \/ p = Elsewhere /\ repo'[r].tree[p] > repo[r].tree[p]]_gitVars
  BY OwnFilesStep
<1>2. QED
  BY <1>1, TypedInit, TypedNext, PTL DEF GitSpec, OnlyItsOwnFiles

-----------------------------------------------------------------------------
(***************************************************************************)
(* What is recorded and what is there.  A sync that nobody was beside has  *)
(* its own files in the branch by the time it records them, for nobody     *)
(* else pushes its paths; and what was recorded last stays there until     *)
(* another sync of the spec is about to record.  All this as long as the   *)
(* connection stays with one repository.                                   *)
(***************************************************************************)

\* A sync that nobody came beside is the only one of its spec in flight.
Alone(w) ==
  ~At(w, "idle") /\ ~sync[w].beside =>
    \A v \in Syncer \ {w} : At(v, "idle") \/ sync[v].name # sync[w].name

\* What is cloned is where the connection still points.
SameRepo(w) == sync[w].pc \in {"push", "record"} => sync[w].repo = conn.repo

\* A sync about to record success has its files in the branch.
Landed(w) ==
  At(w, "record") /\ ~sync[w].beside /\ sync[w].state = "synced" =>
    repo[sync[w].repo].tree[sync[w].hash[1]] = sync[w].hash[2]

\* The hash of a row is one of its own files.
OwnRecord(n) == spec[n].state = "synced" => spec[n].hash \in OwnHash(n)

\* What the row says is there, until a sync of the spec is about to say more.
Unrecorded(n) == \A w \in Syncer : At(w, "record") => sync[w].name # n

Kept(n) ==
  spec[n].state = "synced" /\ n \notin lost /\ Unrecorded(n) =>
    repo[conn.repo].tree[spec[n].hash[1]] = spec[n].hash[2]

SyncsInv == \A w \in Syncer : Alone(w) /\ SameRepo(w) /\ Landed(w)
RowsInv == \A n \in Name : OwnRecord(n) /\ Kept(n)
GitInv == GitTyped /\ SyncsInv /\ RowsInv

\* Where no sync begins, nobody comes beside anybody.
LEMMA AloneStep ==
  ASSUME SyncsInv,
         \A v \in Syncer : \/ At(v, "idle")'
                           \/ /\ ~At(v, "idle") /\ sync'[v].name = sync[v].name
                              /\ sync[v].beside => sync'[v].beside
  PROVE  \A w \in Syncer : Alone(w)'
<1> SUFFICES ASSUME NEW w \in Syncer, ~At(w, "idle")', ~sync'[w].beside,
                    NEW v \in Syncer \ {w}
             PROVE  At(v, "idle")' \/ sync'[v].name # sync'[w].name
  BY DEF Alone
<1>1. ~At(w, "idle") /\ sync'[w].name = sync[w].name /\ ~sync[w].beside
  OBVIOUS
<1>2. At(v, "idle") \/ sync[v].name # sync[w].name
  BY <1>1 DEF SyncsInv, Alone
<1>3. QED
  BY <1>1, <1>2

LEMMA BeginAlone ==
  ASSUME GitTypeOK, SyncsInv, NEW w \in Syncer, At(w, "idle"), NEW n \in Name, NEW row \in Saved,
         Begin(w, n, row)
  PROVE  \A v \in Syncer : Alone(v)'
<1>1. ASSUME NEW v \in Syncer, ~At(v, "idle")', ~sync'[v].beside, NEW u \in Syncer \ {v}
      PROVE  At(u, "idle")' \/ sync'[u].name # sync'[v].name
  <2>1. CASE v = w
    <3>1. InFlight(n) = {} /\ sync'[w].name = n
      BY <1>1, <2>1, BeginFacts
    <3>2. Carried(u)
      BY <2>1, BeginCarries
    <3>3. At(u, "idle") \/ sync[u].name # n
      BY <3>1 DEF InFlight
    <3>4. QED
      BY <2>1, <3>1, <3>2, <3>3 DEF Carried, At
  <2>2. CASE v # w
    <3>1. Carried(v) /\ v \notin InFlight(n) /\ ~sync[v].beside
      BY <1>1, <2>2, BeginCarries
    <3>2. ~At(v, "idle") /\ sync[v].name # n
      BY <1>1, <3>1 DEF Carried, At, InFlight
    <3>3. CASE u = w
      BY <3>1, <3>2, <3>3, BeginFacts DEF Carried
    <3>4. CASE u # w
      <4>1. Carried(u)
        BY <3>4, BeginCarries
      <4>2. At(u, "idle") \/ sync[u].name # sync[v].name
        BY <3>1, <3>2 DEF SyncsInv, Alone
      <4>3. QED
        BY <3>1, <4>1, <4>2 DEF Carried, At
    <3>5. QED
      BY <3>3, <3>4
  <2>3. QED
    BY <2>1, <2>2
<1>2. QED
  BY <1>1 DEF Alone

\* A sync that is carried over keeps its repository, and its files there if a
\* step leaves that path alone.
LEMMA SyncStep ==
  ASSUME GitTyped, NEW w \in Syncer, Alone(w), SameRepo(w), Landed(w), Carried(w),
         conn'.repo = conn.repo,
         ~sync[w].beside /\ At(w, "record") =>
           repo'[sync[w].repo].tree[sync[w].hash[1]] = repo[sync[w].repo].tree[sync[w].hash[1]]
  PROVE  SameRepo(w)' /\ Landed(w)'
<1>1. SameRepo(w)'
  BY DEF SameRepo, Carried
<1>2. Landed(w)'
  <2>1. SUFFICES ASSUME At(w, "record"), ~sync'[w].beside, sync[w].state = "synced"
                 PROVE  repo'[sync[w].repo].tree[sync[w].hash[1]] = sync[w].hash[2]
    BY DEF Landed, At, Carried
  <2>2. ~sync[w].beside
    BY <2>1 DEF Carried
  <2>3. QED
    BY <2>1, <2>2 DEF Landed
<1>3. QED
  BY <1>1, <1>2

\* What was recorded of a spec is still there after a step that leaves its record
\* and its paths alone.
LEMMA RowStep ==
  ASSUME GitInv, NEW n \in Name, conn'.repo = conn.repo,
         spec'[n].state = "synced" =>
           spec[n].state = "synced" /\ spec'[n].hash = spec[n].hash,
         n \in lost => n \in lost', Unrecorded(n)' => Unrecorded(n),
         \A h \in OwnHash(n) : repo'[conn.repo].tree[h[1]] = repo[conn.repo].tree[h[1]]
  PROVE  OwnRecord(n)' /\ Kept(n)'
<1>1. OwnRecord(n) /\ Kept(n)
  BY DEF GitInv, RowsInv
<1>2. OwnRecord(n)'
  BY <1>1 DEF OwnRecord
<1>3. Kept(n)'
  BY <1>1, <1>2 DEF OwnRecord, Kept
<1>4. QED
  BY <1>2, <1>3

\* A step outside the syncs.
LEMMA OutsideInv ==
  ASSUME GitInv, GitTyped', UNCHANGED <<sync, lost>>, conn'.repo = conn.repo,
         \A n \in Name : spec'[n].state = "synced" =>
           spec[n].state = "synced" /\ spec'[n].hash = spec[n].hash,
         \A r \in Repo : \A p \in Paths \ {Elsewhere} : repo'[r].tree[p] = repo[r].tree[p]
  PROVE  GitInv'
<1>1. ASSUME NEW n \in Name, NEW h \in OwnHash(n), NEW r \in Repo
      PROVE  repo'[r].tree[h[1]] = repo[r].tree[h[1]]
  BY OwnPath
<1>2. \A w \in Syncer : Alone(w)'
  BY DEF GitInv, SyncsInv, Alone, At
<1>3. ASSUME NEW w \in Syncer PROVE SameRepo(w)' /\ Landed(w)'
  <2>1. /\ GitTyped /\ Alone(w) /\ SameRepo(w) /\ Landed(w) /\ Carried(w)
    BY Carries DEF GitInv, SyncsInv
  <2>2. ASSUME At(w, "record")
        PROVE  repo'[sync[w].repo].tree[sync[w].hash[1]] = repo[sync[w].repo].tree[sync[w].hash[1]]
    <3>1. sync[w].repo \in Repo /\ sync[w].hash \in OwnHash(sync[w].name) /\ sync[w].name \in Name
      BY <2>2, FlightType DEF GitInv, GitTyped, Rendered, At
    <3>2. QED
      BY <1>1, <3>1
  <2>3. QED
    BY <2>1, <2>2, SyncStep
<1>4. ASSUME NEW n \in Name PROVE OwnRecord(n)' /\ Kept(n)'
  <2>1. Unrecorded(n)' => Unrecorded(n)
    BY DEF Unrecorded, At
  <2>2. conn.repo \in Repo
    BY DEF GitInv, GitTyped, GitTypeOK
  <2>3. QED
    BY <1>1, <2>1, <2>2, RowStep
<1>5. QED
  BY <1>2, <1>3, <1>4 DEF GitInv, SyncsInv, RowsInv

\* A sync begins.
LEMMA BeginInv ==
  ASSUME GitInv, GitTyped', NEW w \in Syncer, At(w, "idle"), NEW n \in Name, NEW row \in Saved,
         Begin(w, n, row), UNCHANGED <<spec, conn, repo, lost>>
  PROVE  GitInv'
<1>0. GitTypeOK /\ SyncsInv
  BY DEF GitInv, GitTyped
<1>1. \A v \in Syncer : Alone(v)'
  BY <1>0, BeginAlone
<1>2. sync'[w].pc = "clone"
  BY <1>0, BeginFacts
<1>3. \A v \in Syncer \ {w} : Carried(v)
  BY <1>0, BeginCarries
<1>4. ASSUME NEW v \in Syncer PROVE SameRepo(v)' /\ Landed(v)'
  <2>1. CASE v = w
    BY <1>2, <2>1 DEF SameRepo, Landed, At
  <2>2. CASE v # w
    <3>1. GitTyped /\ Alone(v) /\ SameRepo(v) /\ Landed(v)
      BY DEF GitInv, SyncsInv
    <3>2. QED
      BY <1>3, <2>2, <3>1, SyncStep
  <2>3. QED
    BY <2>1, <2>2
<1>5. ASSUME NEW m \in Name PROVE OwnRecord(m)' /\ Kept(m)'
  <2>1. Unrecorded(m)' => Unrecorded(m)
    BY <1>3 DEF Unrecorded, Carried, At
  <2>2. QED
    BY <2>1, RowStep
<1>6. QED
  BY <1>1, <1>4, <1>5 DEF GitInv, SyncsInv, RowsInv

LEMMA OperatorInv ==
  ASSUME GitInv, "reconnect" \notin Env, Operator
  PROVE  GitInv'
<1>0. GitTyped /\ GitTyped' /\ GitTypeOK
  BY OperatorTyped DEF GitInv, GitTyped
<1>1. ASSUME NEW n \in Name, NEW body \in Body, NEW auto \in BOOLEAN, UpsertWorkerSpec(n, body, auto)
      PROVE  GitInv'
  <2>1. ASSUME NEW m \in Name, spec'[m].state = "synced"
        PROVE  spec[m].state = "synced" /\ spec'[m].hash = spec[m].hash
    <3>1. CASE m # n
      BY <1>0, <1>1, <2>1, <3>1 DEF UpsertWorkerSpec, GitTypeOK
    <3>2. CASE m = n /\ spec[n] = NoSpec
      <4>1. spec'[n] = New(edits + 2, body, auto)
        BY <1>0, <1>1, <3>2 DEF UpsertWorkerSpec, GitTypeOK
      <4>2. QED
        BY <2>1, <3>2, <4>1 DEF New
    <3>3. CASE m = n /\ spec[n] # NoSpec
      <4>1. spec[n] \in Saved /\ spec'[n] = [spec[n] EXCEPT !.body = body, !.auto = auto]
        BY <1>0, <1>1, <3>3 DEF UpsertWorkerSpec, GitTypeOK
      <4>2. QED
        BY <2>1, <3>3, <4>1 DEF Saved
    <3>4. QED
      BY <3>1, <3>2, <3>3
  <2>2. UNCHANGED <<conn, repo, sync, lost>>
    BY <1>1 DEF UpsertWorkerSpec
  <2>3. QED
    BY <1>0, <2>1, <2>2, OutsideInv
<1>2. ASSUME NEW n \in Name, DeleteWorkerSpec(n) PROVE GitInv'
  <2>1. ASSUME NEW m \in Name, spec'[m].state = "synced" PROVE spec'[m] = spec[m]
    <3>1. m # n
      BY <1>0, <1>2, <2>1 DEF DeleteWorkerSpec, GitTypeOK, NoSpec
    <3>2. QED
      BY <1>0, <1>2, <3>1 DEF DeleteWorkerSpec, GitTypeOK
  <2>2. UNCHANGED <<conn, repo, sync, lost>>
    BY <1>2 DEF DeleteWorkerSpec
  <2>3. QED
    BY <1>0, <2>1, <2>2, OutsideInv
<1>3. ASSUME NEW r \in Repo, NEW b \in Base, PutGitConnection(r, b) PROVE GitInv'
  <2>1. conn'.repo = conn.repo /\ UNCHANGED <<spec, repo, sync, lost>>
    BY <1>3 DEF PutGitConnection
  <2>2. QED
    BY <1>0, <2>1, OutsideInv
<1>4. ASSUME NEW w \in Request, NEW n \in Name, SyncNow(w, n) PROVE GitInv'
  <2>1. /\ w \in Syncer /\ At(w, "idle") /\ spec[n] \in Saved /\ Begin(w, n, spec[n])
        /\ UNCHANGED <<spec, conn, repo, lost>>
    BY <1>0, <1>4 DEF SyncNow, Syncer, GitTypeOK
  <2>2. QED
    BY <1>0, <2>1, BeginInv
<1>5. QED
  BY <1>1, <1>2, <1>3, <1>4 DEF Operator

LEMMA ReconcilerInv ==
  ASSUME GitInv, NEW w \in Syncer, ListSpecs(w) \/ Consider(w)
  PROVE  GitInv'
<1>0. GitTyped /\ GitTyped' /\ GitTypeOK
  BY TickTyped, ConsiderTyped DEF GitInv, GitTyped
<1>1. CASE UNCHANGED sync
  <2>1. UNCHANGED <<spec, conn, repo, lost>>
    BY DEF ListSpecs, Consider
  <2>2. QED
    BY <1>0, <1>1, <2>1, OutsideInv
<1>2. CASE ~UNCHANGED sync
  <2>1. At(w, "idle") /\ UNCHANGED <<spec, conn, repo, lost>>
    BY <1>2 DEF ListSpecs, Consider
  <2>2. PICK it \in todo[w] : Begin(w, it.name, it.row)
    BY <1>2 DEF ListSpecs, Consider
  <2>3. it.name \in Name /\ it.row \in Saved
    BY <1>0, <2>2 DEF GitTypeOK
  <2>4. QED
    BY <1>0, <2>1, <2>2, <2>3, BeginInv
<1>3. QED
  BY <1>1, <1>2

LEMMA ForeignInv ==
  ASSUME GitInv, NEW r \in Repo, ForeignCommit(r)
  PROVE  GitInv'
<1>1. GitTyped' /\ UNCHANGED <<spec, conn, sync, lost>>
  BY ForeignTyped DEF GitInv, ForeignCommit
<1>2. \A q \in Repo : \A p \in Paths \ {Elsewhere} : repo'[q].tree[p] = repo[q].tree[p]
  BY ForeignFacts DEF GitInv, GitTyped
<1>3. QED
  BY <1>1, <1>2, OutsideInv

\* A clone renders the files under the connection of the moment; a worktree that is
\* clean has them already.
LEMMA CloneInv ==
  ASSUME GitInv, NEW w \in Syncer, Clone(w)
  PROVE  GitInv'
<1>0. /\ GitTyped /\ GitTyped' /\ GitTypeOK /\ SyncsInv
      /\ At(w, "clone") /\ UNCHANGED <<spec, conn, repo, lost>>
  BY CloneTyped DEF GitInv, GitTyped, Clone
<1>1. \A v \in Syncer : Alone(v)'
  BY <1>0, CloneFacts, AloneStep DEF At
<1>2. \A v \in Syncer \ {w} : Carried(v)
  BY <1>0, CloneFacts, Carries
<1>3. SameRepo(w)'
  BY <1>0, CloneFacts DEF SameRepo
<1>4. Landed(w)'
  <2>1. SUFFICES ASSUME sync'[w].pc = "record", sync'[w].state = "synced"
                 PROVE  repo[conn.repo].tree[sync'[w].hash[1]] = sync'[w].hash[2]
    BY <1>0, CloneFacts DEF Landed, At
  <2>2. sync'[w].tree = repo[conn.repo].tree
    BY <1>0, <2>1, CloneFacts
  <2>3. sync'[w].tree[sync'[w].hash[1]] = sync'[w].hash[2]
    BY <1>0, CloneFacts
  <2>4. QED
    BY <2>2, <2>3
<1>5. ASSUME NEW v \in Syncer \ {w} PROVE SameRepo(v)' /\ Landed(v)'
  BY <1>0, <1>2, SyncStep DEF SyncsInv
<1>6. ASSUME NEW n \in Name PROVE OwnRecord(n)' /\ Kept(n)'
  <2>1. Unrecorded(n)' => Unrecorded(n)
    BY <1>0, <1>2 DEF Unrecorded, Carried, At
  <2>2. QED
    BY <1>0, <2>1, RowStep
<1>7. QED
  BY <1>0, <1>1, <1>3, <1>4, <1>5, <1>6 DEF GitInv, SyncsInv, RowsInv

\* A push that lands puts the files of its spec into the branch, which no other sync
\* records as its own unless it is beside it, and which the spec will record.
LEMMA PushInv ==
  ASSUME GitInv, NEW w \in Syncer, Push(w)
  PROVE  GitInv'
<1>0. /\ GitTyped /\ GitTyped' /\ GitTypeOK /\ SyncsInv
      /\ At(w, "push") /\ UNCHANGED <<spec, conn, lost>> /\ sync[w].name \in Name
  BY PushTyped, FlightType DEF GitInv, GitTyped, Push, At
<1>1. \A v \in Syncer : Alone(v)'
  BY <1>0, PushFacts, AloneStep DEF At
<1>2. \A v \in Syncer \ {w} : Carried(v)
  BY <1>0, PushFacts, Carries
<1>3. ASSUME NEW n \in Name, n # sync[w].name, NEW h \in OwnHash(n), NEW r \in Repo
      PROVE  repo'[r].tree[h[1]] = repo[r].tree[h[1]]
  <2>1. CASE repo' = repo
    BY <2>1
  <2>2. CASE Accepted(w) /\ Land(w)
    <3>1. sync[w].name \in Name \ {n} /\ sync[w].hash \in OwnHash(sync[w].name)
      BY <1>0, <1>3, <2>2, LandFacts
    <3>2. h[1] \in Paths
      BY <1>3, OwnPath
    <3>3. h[1] # sync[w].hash[1]
      <4>1. \A m \in Name \ {n} : \A k \in OwnHash(m) : k[1] # h[1]
        BY <1>3, OwnPath
      <4>2. QED
        BY <3>1, <4>1
    <3>4. QED
      BY <1>0, <2>2, <3>2, <3>3, LandFacts
  <2>3. QED
    BY <1>0, <2>1, <2>2, PushFacts
<1>4. SameRepo(w)'
  BY <1>0, PushFacts DEF SyncsInv, SameRepo, At
<1>5. Landed(w)'
  <2>1. CASE sync'[w].state = "error"
    BY <2>1 DEF Landed
  <2>2. CASE Accepted(w) /\ Land(w)
    BY <1>0, <2>2, PushFacts, LandFacts DEF Landed
  <2>3. QED
    BY <1>0, <2>1, <2>2, PushFacts
<1>6. ASSUME NEW v \in Syncer \ {w} PROVE SameRepo(v)' /\ Landed(v)'
  <2>1. ASSUME ~sync[v].beside, At(v, "record")
        PROVE  repo'[sync[v].repo].tree[sync[v].hash[1]] = repo[sync[v].repo].tree[sync[v].hash[1]]
    <3>1. sync[w].name # sync[v].name
      BY <1>0, <2>1 DEF SyncsInv, Alone, At
    <3>2. sync[v].repo \in Repo /\ sync[v].hash \in OwnHash(sync[v].name) /\ sync[v].name \in Name
      BY <1>0, <2>1, FlightType DEF GitTyped, Rendered, At
    <3>3. QED
      BY <1>3, <3>1, <3>2
  <2>2. QED
    BY <1>0, <1>2, <2>1, SyncStep DEF SyncsInv
<1>7. ASSUME NEW n \in Name PROVE OwnRecord(n)' /\ Kept(n)'
  <2>1. CASE n = sync[w].name
    <3>1. ~Unrecorded(n)'
      BY <1>0, <2>1, PushFacts DEF Unrecorded, At
    <3>2. QED
      BY <1>0, <3>1 DEF GitInv, RowsInv, OwnRecord, Kept
  <2>2. CASE n # sync[w].name
    <3>1. Unrecorded(n)' => Unrecorded(n)
      BY <1>0, <1>2 DEF Unrecorded, Carried, At
    <3>2. conn.repo \in Repo
      BY <1>0 DEF GitTypeOK
    <3>3. QED
      BY <1>0, <1>3, <2>2, <3>1, <3>2, RowStep
  <2>3. QED
    BY <2>1, <2>2
<1>8. QED
  BY <1>0, <1>1, <1>4, <1>5, <1>6, <1>7 DEF GitInv, SyncsInv, RowsInv

\* A sync that nobody was beside records what is there; another one loses the record,
\* and so does a sync that dies or fails with its record to write.
LEMMA DoneInv ==
  ASSUME GitInv, NEW w \in Syncer, Record(w) \/ Crash(w)
  PROVE  GitInv'
<1>0. /\ GitTyped /\ GitTyped' /\ GitTypeOK /\ SyncsInv /\ Done(w) /\ UNCHANGED <<conn, repo>>
  BY RecordTyped, CrashTyped, RecordFacts, CrashFacts DEF GitInv, GitTyped
<1>1. \A v \in Syncer : Alone(v)'
  BY <1>0, DoneFacts, AloneStep DEF At
<1>2. \A v \in Syncer \ {w} : Carried(v)
  BY <1>0, DoneFacts, Carries
<1>3. SameRepo(w)' /\ Landed(w)'
  BY <1>0, DoneFacts DEF SameRepo, Landed, At
<1>4. ASSUME NEW v \in Syncer \ {w} PROVE SameRepo(v)' /\ Landed(v)'
  BY <1>0, <1>2, SyncStep DEF SyncsInv
<1>5. ASSUME NEW n \in Name, ~At(w, "record") \/ n # sync[w].name
      PROVE  Unrecorded(n)' => Unrecorded(n)
  BY <1>2, <1>5 DEF Unrecorded, Carried, At
<1>6. ASSUME NEW n \in Name PROVE OwnRecord(n)' /\ Kept(n)'
  <2>1. CASE Crash(w) /\ At(w, "record") /\ n = sync[w].name
    <3>1. n \in lost' /\ spec' = spec
      BY <1>0, <2>1, CrashFacts
    <3>2. QED
      BY <3>1 DEF GitInv, RowsInv, OwnRecord, Kept
  <2>2. CASE Crash(w) /\ ~(At(w, "record") /\ n = sync[w].name)
    <3>1. spec' = spec /\ (n \in lost => n \in lost')
      BY <1>0, <2>2, CrashFacts
    <3>2. QED
      BY <1>0, <1>5, <2>2, <3>1, RowStep
  <2>3. CASE Record(w) /\ n # sync[w].name
    <3>1. spec'[n] = spec[n] /\ (n \in lost => n \in lost')
      BY <1>0, <2>3, RecordFacts
    <3>2. QED
      BY <1>0, <1>5, <2>3, <3>1, RowStep
  <2>4. CASE Record(w) /\ n = sync[w].name
    <3>1. /\ At(w, "record") /\ sync[w].hash \in OwnHash(n)
      BY <1>0, <2>4 DEF Record, GitTyped, Rendered, At
    <3>2. OwnRecord(n)'
      <4>1. CASE spec' = spec
        BY <4>1 DEF GitInv, RowsInv, OwnRecord
      <4>2. CASE /\ spec'[n].state = sync[w].state
                 /\ sync[w].state = "synced" => spec'[n].hash = sync[w].hash
        BY <3>1, <4>2 DEF OwnRecord
      <4>3. QED
        BY <1>0, <2>4, <4>1, <4>2, RecordFacts
    <3>3. Kept(n)'
      <4>1. CASE n \in lost'
        BY <4>1 DEF Kept
      <4>2. CASE n \notin lost'
        <5>1. /\ ~sync[w].beside /\ spec'[n].state = sync[w].state
              /\ sync[w].state = "synced" => spec'[n].hash = sync[w].hash
          BY <1>0, <2>4, <4>2, RecordFacts
        <5>2. sync[w].repo = conn.repo /\ Landed(w)
          BY <1>0, <3>1 DEF SyncsInv, SameRepo, At
        <5>3. QED
          BY <1>0, <3>1, <5>1, <5>2 DEF Kept, Landed
      <4>3. QED
        BY <4>1, <4>2
    <3>4. QED
      BY <3>2, <3>3
  <2>5. QED
    BY <2>1, <2>2, <2>3, <2>4
<1>7. QED
  BY <1>0, <1>1, <1>3, <1>4, <1>6 DEF GitInv, SyncsInv, RowsInv

LEMMA GitInvInit == GitInit => GitInv
<1> SUFFICES ASSUME GitInit PROVE GitInv
  OBVIOUS
<1>1. \A w \in Syncer : At(w, "idle")
  BY DEF GitInit, At, Idle
<1>2. \A n \in Name : spec[n].state # "synced"
  BY DEF GitInit, New, NoSpec
<1>3. QED
  BY <1>1, <1>2, TypedInit
     DEF GitInv, SyncsInv, RowsInv, Alone, SameRepo, Landed, OwnRecord, Kept, At

LEMMA GitInvNext == "reconnect" \notin Env /\ GitInv /\ [GitNext]_gitVars => GitInv'
<1> SUFFICES ASSUME "reconnect" \notin Env, GitInv, [GitNext]_gitVars PROVE GitInv'
  OBVIOUS
<1>1. CASE Operator
  BY <1>1, OperatorInv
<1>2. ASSUME NEW w \in Syncer, Work(w) PROVE GitInv'
  BY <1>2, ReconcilerInv, CloneInv, PushInv, DoneInv DEF Work
<1>3. ASSUME NEW w \in Syncer, Crash(w) PROVE GitInv'
  BY <1>3, DoneInv
<1>4. ASSUME NEW r \in Repo, ForeignCommit(r) PROVE GitInv'
  BY <1>4, ForeignInv
<1>5. CASE UNCHANGED gitVars
  <2>1. GitTyped'
    BY <1>5, TypedNext DEF GitInv
  <2>2. QED
    BY <1>5, <2>1, OutsideInv DEF gitVars
<1>6. QED
  BY <1>1, <1>2, <1>3, <1>4, <1>5 DEF GitNext

LEMMA GitInvImplies == GitInv => SyncedIsInRepo
<1> SUFFICES ASSUME GitInv, NEW n \in Name,
                    spec[n].state = "synced", n \notin lost, InFlight(n) = {}
             PROVE  repo[conn.repo].tree[spec[n].hash[1]] = spec[n].hash[2]
  BY DEF SyncedIsInRepo
<1>1. Unrecorded(n)
  BY DEF Unrecorded, InFlight, At
<1>2. QED
  BY <1>1 DEF GitInv, RowsInv, Kept

\* As long as the connection stays with one repository, a spec that is `synced` has
\* in the branch the files its last sync recorded, unless that sync left no record or
\* ran beside another: whatever is saved, deleted, moved to another base path,
\* committed by others, refused, lost or killed in between.
THEOREM SyncedIsInRepoAlways == "reconnect" \notin Env => (GitSpec => []SyncedIsInRepo)
<1> SUFFICES ASSUME "reconnect" \notin Env PROVE GitSpec => []SyncedIsInRepo
  OBVIOUS
<1>1. GitInv /\ [GitNext]_gitVars => GitInv'
  BY GitInvNext
<1>2. QED
  BY <1>1, GitInvInit, GitInvImplies, PTL DEF GitSpec
=============================================================================
