----------------------------- MODULE Schedules ------------------------------
(***************************************************************************)
(* Leadership and schedules (internal/scheduler, pf_leader): the server    *)
(* replicas compete for a lease, and the one that holds it creates, at     *)
(* every tick, the runs its deployments call for up to a horizon.  A tick  *)
(* works on the rows it has listed and never asks again whether it leads.  *)
(*                                                                         *)
(* A tick that fails, a replica that dies and a leader that is slow are    *)
(* steps; what becomes of the runs is left to RunLifecycle and PushPool.   *)
(***************************************************************************)
EXTENDS Integers, FiniteSets

CONSTANTS
  Dep,          \* deployment ids
  Replica,      \* server replicas
  Kind,         \* schedules: [kind, every, catchup], see Instants
  Ttl,          \* Config.LeaderTTL
  Lookahead,    \* Config.Lookahead
  MaxPerCycle,  \* Config.MaxPerCycle
  MaxTime,      \* bound on the clock
  MaxOps,       \* bound on the operator's changes
  MaxFaults,    \* bound on crashes and failed statements
  NoReplica

Time == 0..MaxTime

ASSUME SchedulesAssumption ==
  /\ Ttl \in Nat \ {0} /\ Lookahead \in Nat /\ MaxPerCycle \in Nat \ {0}
  /\ MaxTime \in Nat /\ MaxOps \in Nat /\ MaxFaults \in Nat
  /\ Kind \subseteq [kind : {"interval", "cron"}, every : 1..MaxTime, catchup : BOOLEAN]
  /\ NoReplica \notin Replica

VARIABLES
  now,      \* the clock
  leader,   \* pf_leader
  dep,      \* pf_deployments
  run,      \* pf_flow_runs: the runs that schedules have created
  tick,     \* the tick of each replica
  handled,  \* history: the times of the ticks that went through for a deployment
            \* as it is now
  ops, faults

vars == <<now, leader, dep, run, tick, handled, ops, faults>>

Row == [state : {"absent", "present", "deleted"}, paused : BOOLEAN,
        schedule : Kind, created : Time, version : 0..MaxOps]

(***************************************************************************)
(* CreateRunInput: deployment, scheduled_at and idempotency key; and the   *)
(* row it becomes, with an id of its own: a row inserted beside one of the *)
(* same key would be its twin.                                             *)
(***************************************************************************)
Input == [dep : Dep, at : Time, key : Dep \X Time]
RunRow == [dep : Dep, at : Time, key : Dep \X Time, twin : BOOLEAN]

(***************************************************************************)
(* A tick: the time its leadership was won, its idea of now, the rows it   *)
(* has listed (by deployment and version, less those with a failed insert) *)
(* and the runs still to create.                                           *)
(***************************************************************************)
Tick == [pc : {"idle", "leading", "creating"}, won : Time, at : Time,
         rows : SUBSET (Dep \X (0..MaxOps)), todo : SUBSET Input]
IdleTick == [pc |-> "idle", won |-> 0, at |-> 0, rows |-> {}, todo |-> {}]

Fault == faults < MaxFaults /\ faults' = faults + 1
Busy(r) == tick[r].pc # "idle"

-----------------------------------------------------------------------------
(* NextRuns                                                                *)

\* The k-th instant after a time: on the phase of the creation for an interval,
\* on that of the clock for a cron expression.
Phase(p) == IF p.schedule.kind = "interval" THEN p.created ELSE 0
Nth(p, at, k) ==
  LET e == p.schedule.every IN Phase(p) + ((at - Phase(p)) \div e + k) * e

AtMost(p) == IF p.schedule.catchup THEN MaxPerCycle ELSE 1

\* Mutant: the first instant is skipped.
NextRunsLate(p, at) ==
  {t \in {Nth(p, at, k + 1) : k \in 1..AtMost(p)} :
     t <= at + Lookahead}
\* The instants in (at, at + Lookahead], the soonest alone without catch-up.
NextRuns(p, at) ==
  {t \in {Nth(p, at, k) : k \in 1..AtMost(p)} :
     t <= at + Lookahead}

-----------------------------------------------------------------------------
(* The ticks of a replica.                                                 *)

\* Mutant: the lease of another holder is taken over at once.
GrantsAny(r) == TRUE

\* AcquireLeadership: the row is taken when it is stale or one's own.
Grants(r) == leader.until < now \/ leader.holder = r

\* The start of a tick; a replica that does not get the lease skips its turn.
Elect(r) ==
  /\ ~Busy(r) /\ Grants(r)
  /\ leader' = [holder |-> r, until |-> now + Ttl]
  /\ tick' = [tick EXCEPT ![r] = [IdleTick EXCEPT !.pc = "leading", !.won = now]]
  /\ UNCHANGED <<now, dep, run, handled, ops, faults>>

\* The deployment and the instant, and nothing that an edit changes.
IdempotencyKey(d, t) == <<d, t>>

\* ListDeployments, and NextRuns of every row that is scheduled.
Materialise(r) ==
  /\ tick[r].pc = "leading"
  /\ LET live == {d \in Dep : dep[d].state = "present" /\ ~dep[d].paused} IN
       tick' = [tick EXCEPT ![r] = [@ EXCEPT
         !.pc = "creating", !.at = now,
         !.rows = {<<d, dep[d].version>> : d \in live},
         !.todo = UNION {{[dep |-> d, at |-> t, key |-> IdempotencyKey(d, t)] :
                            t \in NextRuns(dep[d], now) \cap Time} : d \in live}]]
  /\ UNCHANGED <<now, leader, dep, run, handled, ops, faults>>

\* The loops go through the rows one by one, the soonest instant first.
IsNext(r, in) ==
  /\ in \in tick[r].todo
  /\ \A p \in tick[r].todo : p.dep = in.dep => in.at <= p.at

Inserted(in) == [dep |-> in.dep, at |-> in.at, key |-> in.key,
                 twin |-> \E p \in run : p.key = in.key]

\* Mutant: an INSERT that asks for no unique key.
InsertsAny(in) == dep[in.dep].state = "present"

\* A key that is there already leaves the table alone; the foreign key refuses a
\* run of a deployment that has been deleted meanwhile.
Inserts(in) == dep[in.dep].state = "present" /\ \A p \in run : p.key # in.key

\* CreateFlowRun
Create(r, in) ==
  /\ IsNext(r, in)
  /\ tick' = [tick EXCEPT ![r].todo = @ \ {in}]
  /\ run' = IF Inserts(in) THEN run \cup {Inserted(in)} ELSE run
  /\ UNCHANGED <<now, leader, dep, handled, ops, faults>>

\* A failed insert is logged and the tick goes on.
CreateFails(r, in) ==
  /\ IsNext(r, in) /\ Fault
  /\ tick' = [tick EXCEPT ![r].todo = @ \ {in},
                          ![r].rows = {p \in @ : p[1] # in.dep}]
  /\ UNCHANGED <<now, leader, dep, run, handled, ops>>

EndTick(r) ==
  /\ tick[r].pc = "creating" /\ tick[r].todo = {}
  /\ handled' = [d \in Dep |-> handled[d] \cup
                   {t \in {tick[r].at} : <<d, dep[d].version>> \in tick[r].rows}]
  /\ tick' = [tick EXCEPT ![r] = IdleTick]
  /\ UNCHANGED <<now, leader, dep, run, ops, faults>>

\* ListDeployments fails, or the replica dies: the tick is over.
Abort(r) ==
  /\ Busy(r) /\ Fault
  /\ tick' = [tick EXCEPT ![r] = IdleTick]
  /\ UNCHANGED <<now, leader, dep, run, handled, ops>>

-----------------------------------------------------------------------------
(* The operator and the clock.                                             *)

Change(d, row) ==
  /\ ops < MaxOps /\ ops' = ops + 1
  /\ dep' = [dep EXCEPT ![d] = row]
  /\ handled' = [handled EXCEPT ![d] = {}]
  /\ UNCHANGED <<now, leader, run, tick, faults>>

\* UpsertDeployment: an insert, or an update that keeps created_at and paused.
Upsert(d) ==
  \/ /\ dep[d].state = "absent"
     /\ \E s \in Kind, p \in BOOLEAN :
          Change(d, [state |-> "present", paused |-> p, schedule |-> s,
                     created |-> now, version |-> 0])
  \/ /\ dep[d].state = "present"
     /\ \E s \in Kind : Change(d, [dep[d] EXCEPT !.schedule = s, !.version = @ + 1])

\* SetDeploymentPaused
SetPaused(d) ==
  /\ dep[d].state = "present"
  /\ Change(d, [dep[d] EXCEPT !.paused = ~@, !.version = @ + 1])

\* DeleteDeployment; the runs stay.
Delete(d) ==
  /\ dep[d].state = "present"
  /\ Change(d, [dep[d] EXCEPT !.state = "deleted", !.version = @ + 1])

Advance ==
  /\ now < MaxTime /\ now' = now + 1
  /\ UNCHANGED <<leader, dep, run, tick, handled, ops, faults>>

-----------------------------------------------------------------------------
Init ==
  /\ now = 0 /\ ops = 0 /\ faults = 0
  /\ leader = [holder |-> NoReplica, until |-> -1]
  /\ \E known \in SUBSET Dep, s \in Kind :
       dep = [d \in Dep |-> [state |-> IF d \in known THEN "present" ELSE "absent",
                             paused |-> FALSE, schedule |-> s, created |-> 0,
                             version |-> 0]]
  /\ run = {}
  /\ tick = [r \in Replica |-> IdleTick]
  /\ handled = [d \in Dep |-> {}]

Next ==
  \/ \E r \in Replica :
       \/ Elect(r) \/ Materialise(r) \/ EndTick(r) \/ Abort(r)
       \/ \E in \in tick[r].todo : Create(r, in) \/ CreateFails(r, in)
  \/ \E d \in Dep : Upsert(d) \/ SetPaused(d) \/ Delete(d)
  \/ Advance

Spec == Init /\ [][Next]_vars

-----------------------------------------------------------------------------
(* Properties.                                                             *)

TypeOK ==
  /\ now \in Time /\ ops \in 0..MaxOps /\ faults \in 0..MaxFaults
  /\ leader.holder \in Replica \cup {NoReplica} /\ leader.until \in -1..(MaxTime + Ttl)
  /\ dep \in [Dep -> Row] /\ tick \in [Replica -> Tick]
  /\ run \subseteq RunRow
  /\ handled \in [Dep -> SUBSET Time]

\* "safe to run from several replicas": however often, and by however many
\* leaders at once, an instant is materialised, it has one run.
OneRunPerInstant ==
  \A p, q \in run : p.dep = q.dep /\ p.at = q.at => p = q

\* Two replicas are in a tick at once only if one of them has outlived the
\* leadership it won.
OverlapIsSlow ==
  \A r, q \in Replica : r # q /\ Busy(r) /\ Busy(q) =>
    tick[r].won + Ttl < now \/ tick[q].won + Ttl < now

\* The instants of a deployment by the definition of its schedule.
Instants(p) ==
  {t \in Time : LET from == Phase(p) IN t > from /\ (t - from) % p.schedule.every = 0}

\* A tick that has gone through left a run for the next instant of a deployment,
\* with catch-up for all of its horizon up to the number a cycle may create: of the
\* instants within reach of such a tick none is missed, whatever crashes, takeovers
\* and edits come between.  An instant no tick reached is missed by an outage.
MissedOnlyInOutage ==
  \A d \in Dep : dep[d].state = "present" /\ ~dep[d].paused =>
    \A at \in handled[d], t \in Instants(dep[d]) :
      LET before == {u \in Instants(dep[d]) : at < u /\ u < t} IN
      /\ at < t /\ t <= at + Lookahead
      /\ dep[d].schedule.catchup \/ before = {}
      /\ Cardinality(before) < MaxPerCycle
      => \E p \in run : p.dep = d /\ p.at = t

=============================================================================
