# PrimeFlow in TLA+

PrimeFlow is a durable workflow orchestrator: server replicas, any number of
workers, and one PostgreSQL database that holds all state and is the queue. This
directory holds TLA+ specifications of it, the TLC configurations that check them
on small instances, and proofs that TLAPS checks for every value of the constants.
`PROJECT.json` lists components, runs, mutants, the lines each definition stands
for, findings, hazards and theorems. Paths below are relative to `src/`.

    tlc -workers 2 -config life_timely.cfg MCRunLifecycle.tla
    tlapm ReplayProofs.tla

## 1. The system

| Component | Code | State it keeps | Operations | Module |
|---|---|---|---|---|
| Run states | `internal/core/state.go` | none; the transition table | `CanTransition`, `IsTerminal` | `RunStates` |
| Run store | `internal/store/postgres/runs.go` | `pf_flow_runs`: state, worker_id, lease_expires_at, cancel_requested, run_count, pin, priority, scheduled_at, parent | create, set state, lease, renew, reclaim, cancel, reschedule | `RunLifecycle`, `Dispatch`, `Replay`, `PushPool` |
| Engine | `internal/engine/engine.go` | cancel functions of executing runs, by run id | `Execute`, `finish`, `settle`, `Cancel`, `cancelWatch`, wake a parent | `RunLifecycle`, `RunContract`, `Replay` |
| Worker | `internal/worker/worker.go` | slots, leases kept alive, its identity | dispatch, renew, control messages, catalogue, drain | `RunLifecycle`, `Dispatch` |
| Janitor | `scheduler.go` `reclaim` | none between ticks | reclaim, requeue or fail | `RunLifecycle` |
| Work queues | `store.go`, `runs.go`, `handlers.go` | `pf_work_queues`: paused, limit, envelope, pool type, secret | lease in order, pin, reprioritise, move, pause, save | `Dispatch`, `ExternalApi` |
| Tasks, sleeps, sub-flows | `pkg/sdk`, `internal/engine/runtime.go`, `obs.go` | `pf_task_runs`, parent_run_id, idempotency key | replay, attempts, cache, sleep, trigger, suspend, wake, recursion guard | `Replay` |
| Push pools | `internal/scheduler/pushdispatch.go`, `pkg/primeflow/app.go` | a dispatch hold in the lease columns | hold, POST, clear, claim, execute | `PushPool` |
| Leadership, schedules | `scheduler.go`, `store.go` | `pf_leader`, `pf_deployments` | acquire, materialise, NextRuns | `Schedules` |
| Automations, events | `internal/automations`, `internal/events`, `obs.go` | event log, cursor, last_fired_at | append, tick, match, fire | `Automations` |
| Users, sessions, throttle, OIDC login | `internal/server/auth.go`, `oidc.go`, `internal/authn` | accounts, sessions, reset links, counters | login, callback, update, delete, reset | `Access` |
| API keys, External API | `internal/server/apikeys.go`, `external.go`, `internal/apiauth`, `internal/ratelimit` | keys, settings, token buckets | create, edit, rotate, delete, call | `ExternalApi` |
| GitOps delivery | `internal/gitsync`, `workerspecs.go` | worker specs, their recorded sync | save, render, push, record | `GitSync` |
| Bus; logs and statistics; console, command line | `internal/bus`, `obs.go`, `ui.go`, `cmd` | | | not modelled, see section 6 |

**How they interact.** Everything goes through rows of Postgres. A worker leases
SCHEDULED runs, its engine moves them to RUNNING, calls the flow function and
settles the outcome; a loop in the worker extends its leases. The flow function
stores the results of its tasks, and is called from the top again when the run is
taken up once more. The server replica that holds the leadership creates the runs
of schedules, posts runs of push pools to their receivers, marks runs with a lapsed
lease CRASHED, and then requeues or fails each. Operators, automations and callers
of the External API write the same rows. The bus carries hints (work available,
cancel this run) that may be lost or late; polling stands in for them. A finished
child wakes its parent by moving its scheduled_at.

**What is hard.** Every state change is an UPDATE that somebody else may have
preceded: `SetFlowRunState` reads, decides and writes conditionally on the state
it read, and on nothing else. A worker may be dead, slow or cut off, and cannot
be told apart. The claim on a run is three columns that ten statements write. In
memory, engine and worker key their maps by run id, and one run may have two
goroutines. The decisions of the janitor and of a tick of the scheduler are spread
over several commits. Dispatch plans on a snapshot. Replay meets what an earlier
attempt left behind at any of its points. Handlers check in one statement and
write in the next. The list, with lines, is `hazards` in `PROJECT.json`.

**What makes each component correct.**

- Runs: one executor; a verdict is final, except for an operator's retry; a run
  at rest has no claim; a cancel reaches the executor, and no attempt starts after
  it; every run ends.
- Dispatch: no more claims than slots; a statement that sees its lane keeps the
  limit; a pause holds; the order is the operator's.
- Durable execution: a result, once stored, stays; a replay sees what the attempts
  before it saw; a sleep is slept; one child per call; cycles are refused.
- Push pools: one receiver executes, owns the row, and nobody replaces its verdict,
  as long as no lease lapses under it; every run ends.
- Schedules: one run per instant, none forgotten; ticks overlap only by slowness.
- Automations: one process fires a rule once for an event, and not again for the
  same burst; no event is passed over but a late one or one waiting at a start.
- Access: an active admin remains; what was revoked stays revoked.
- External API: a rotated secret is refused; a pool stays consistent; the rate.
- GitOps: "synced" means that the repository has it; everything gets there.

## 2. Modules

Each module declares its constants with a named assumption, and lists what the
environment may do in `Hazard`; the constant `Env` picks from it. Statements are
steps. Definitions marked *Mutant* are deliberately wrong variants for
`mutants` of `PROJECT.json`; no specification uses them. `TypeOK` gives the shape
of the state in every module, and each is a theorem (`TypeCorrect`, in `GitSync` `GitTypeCorrect`).

### RunStates
The nine states, `allowedTransitions`, and what `SetFlowRunState` decides on the
row it read: `Unchanged` (idempotent call), `Rejected`, `Writes`. Constants only.

### RunContract
What the documentation promises of a run: slots that are inside the flow function
of a run, and the verdict of every run. `Begin` needs that nobody is inside and the
run is open, `Decide` that nobody is inside and the run is open, `Reopen` is the
operator's. No row, lease or janitor. `RunLifecycle` implements `CSpec`.

### RunLifecycle
A run's row, the goroutine in each slot, and everybody who writes the row.

| Model | Code |
|---|---|
| `row[r]`: state, worker, lease, cancel, runCount | columns of `pf_flow_runs`; `lease` is NULL (`none`), `live` or `lapsed` |
| `slot[s]`: pc, run, attempt, seen, goal, outcome, cancelled | the goroutine started by `Worker.dispatch`; `seen` is the state `SetFlowRunState` has read; `cancelled` is the run's context |
| `leases`, `active` | `Worker.leases`, `Engine.active` |
| `todo`, `jan` | the slice `ReclaimExpiredLeases` returned, and the run `reclaim` is at |
| `control` | cancel messages not yet delivered |
| `LeaseRun`, `LeaseLost` | `LeaseFlowRuns` and the start of the goroutine; a flow the registry does not know goes straight to `settle(SCHEDULED)` |
| `StartRead`, `StartWrite` | the two halves of PENDING -> RUNNING in `Execute` |
| `UserReturns`, `Finish` | `invoke`; `finish` up to the choice of the state |
| `SettleRead`, `SettleWrite`, `SettleFailed` | `settle`: the call, its repetition with Force, giving up |
| `Leave`, `Forget`, `FreeSlot` | the way out: the row is settled and the goroutine tells events, wakes a parent, waits for its helpers and flushes (`leaving`); then `Execute` deletes its entry of `Engine.active` (`left`); then `dispatch` deletes that of `Worker.leases` and frees the slot |
| `CancelWatch`, `ControlMessage`, `RenewLease`, `Cancel` | the ways a context is cancelled |
| `Reclaim`, `JanitorRead`, `JanitorWrite`, `JanitorCrashes` | `reclaim`: one statement for all lapsed runs, then run by run |
| `RequestCancel`, `RescheduleRun` | `cancelRun`; `retryRun` and `rescheduleRun` |

Abstractions: time is a lease that may lapse and a run that may be due at any
moment; a batch of leases is leased one run at a time; a goroutine is overtaken on
its way out, when its own worker leases the run again on another slot, only if
`Env` has `overtake`; `RenewLease` and the
`Engine.Cancel` after it are one step; the janitor runs one loop at a time; PAUSED
is in the table, but nothing writes it. The run is in a pull pool.

`Contract` instantiates `RunContract`: a slot is in a run while its pc is `user`
(`Executed`), and a run's verdict is its terminal state, else "open"
(`VerdictOf`). `RefinesContract` says that every step is a step of the contract or
a stutter.

### Dispatch
What `RunLifecycle` leaves open: which runs a worker gets. `run[r]` has the columns
that `ORDER BY` and `WHERE` look at, `lane[l]` the settings of `pf_work_queues`,
`worker[w]` the progress of one call of `LeaseFlowRuns` through its lanes. Each
lane's statement is two steps: `Begin`/`Scan` take the snapshot (candidates in
order, room under the limit), `Take` locks and updates, with the `WHERE` checked
again on each row and the room not, as READ COMMITTED does. `LeaseFails` is an
error in the middle of the lanes, `Restart` a worker that dies and whose successor
publishes its lanes. `PENDING` stands for RUNNING as well, `OUT` for every state no
lane dispatches from. Operators may move a run in any state (`MoveRunToQueue`), and
runs are created with any priority. `quiet` and `stale` are history variables: the
lanes paused long enough that no statement in flight began before the pause, and
the workers whose statement has missed a run that became active in its lane.
`Born` stands for created_at, the last column of `ORDER BY`; the module takes it to
be different for every run, since SQL leaves the order of equal rows open.

### Replay
Durable execution and sub-flows. A flow is a sequence of steps (task, sleep, wait
for a sub-flow, start of one); `KeyAt` is the ordinal key of `nextKey`.

| Model | Code |
|---|---|
| `run[i]`, `cp[i][k]` | `pf_flow_runs`; `pf_task_runs`, status and result |
| `slot[s]` | the goroutine: which step, and where in it |
| `Load`, `Open`, `FnSucceeds`, `FnFails`, `SaveResult` | `sdk.Task`: own checkpoint, cached result, attempts, the stored result |
| `Wake`, `SleepEnds` | `WaitUntil`, and the wake time of the first attempt |
| `StartChild`, `Create`, `Trigger`, `Link`, `Poll` | `RunDeployment`; `CreateFlowRun` under an idempotency key; `RunDeploymentAndWait` up to its suspension |
| `Refuses`, `Ancestors` | `guardSubflow`, `AncestorDeploymentIDs` |
| `Finish`, `CountChildren`, `ResumeParent` | `settle`, then `resumeParentIfReady` statement by statement |
| `Lease`, `Reclaim`, `Cancel`, `Reschedule` | as in `RunLifecycle`, each one step |
| `StatementFails`, `Crash` | an error the flow sees; the end of a worker at any point |

A value names the success that produced it, so that a repeated task shows as
another value. PENDING and RUNNING are one state here, and CRASHED is decided as
it is set. `passed`, `given`, `work`, `lapsed` and `unsaved` are history; the last
has the calls that were given a cached result and could not store it, an error the
code drops (`task.go:123-126`): the next attempt may be given another value, so
`ReplayIsStable` leaves them out. `StepsAssumption` says which flows a program can
write: the keys of waits and sleeps carry the prefixes "subflow:" (`sdk.go:381`) and
"wait:" (`task.go:283`), so a task and a wait never meet under one key.

### PushPool
`disp[d]` is `dispatchOne` of each leader (`List`, `Mark`, POST, `Clear`), `req[p]`
the handler of a POST and then its `executePushRun`: `Read`, `Claim` and `Renew` are
`ClaimPushRun`, a state change with its read and its write, and a renewal that may
fail by itself; `Start` begins the flow function, `Return` chooses the state by its
outcome and the budget, `Poll` is the look at cancel_requested in `finish`, `Settle`
the write with Force, `PutBack` the unknown flow and the suspension. `KeepAlive` is a
later renewal. `LeaseLapses` may come under a receiver that executes (`renewFails`,
since `executePushRun` ignores the errors of its renewals); `lapsed` is the history of
it. A POST is refused, answered late or never (`PostFails`, `Answer`), leaders and
receivers die. The two calls of `settle` and the janitor's loop are one step each.

### Schedules
`leader` is `pf_leader`, `tick[r]` a replica's tick: `Elect`, `Materialise` (which
lists the deployments and computes `NextRuns`), one `Create` per instant in order,
`EndTick`; `CreateFails` and `Abort` are failures, `Upsert`, `SetPaused` and
`Delete` the operator. Time is an integer; an interval counts from creation, a cron
expression from zero. `run` holds the rows with their idempotency keys, so a second
run for an instant would show (`twin`: the row was inserted beside one of its key).
`handled` is the history `MissedOnlyInOutage` speaks of.

### Automations
`log` is `pf_events` with the sequence number taken before the commit (`Emit`,
`Commit`); `ev[e]` an evaluator: cursor and the tick it is in, event by event and
rule by rule (`StartTick`, `Decide`, `Act`, `Touch`). Actions append the events the
real ones emit, which are read in turn. `Restart` and `LeaseLapses` change leaders.
The batch in hand is the set of what is left of it, taken in the order of `Seq`; a
firing records which firings had ended when its rules were listed (`known`). `seen`
and `skipped` are history: the events somebody took through all his rules, and those
that committed behind a cursor or waited when an evaluator started at the head;
`Passed` says that an event is behind a cursor and done with.

### Access
`user`, `session`, `link` are the tables, `req[q]` a request between two of its
statements. `Login`, `Verify`, `Open`; `Resolve`, `Touch`; `UpdateUser` (and
`deleteUser`), `Write`, `Revoke`; `CreateResetLink`, `ResetPassword`; `Callback`,
`Provision`, `Claims`, `Sync` for single sign-on; `BootstrapAdmin`, `Seed`. The
epoch of an account counts the changes that are to log it out. `sso` is its
auth_provider, `password` whether it has a hash: an administrator may set one on a
single sign-on account, which can then log in by it.

### ExternalApi
`key`, `setting`, `pool` are rows, `bucket` the limiter. Every form is a read
(`ReadAPIKey`, `ReadSettings`, `ReadPool`, `ReadToRotate`), a merge, and a write of
the whole row (`SaveAPIKey`, `PutSettings`, `UpsertWorkQueue`, `SetAPIKeySecret`).
A call is `Arrive`, `Lookup`, `Allow` (or `AllowBlind`, when the shared limiter
fails). `Publish` and `Mention` are the workers and deployments that name a pool,
`DesiredWorkers` what the autoscaler is told. A form has any of the fields of its
table, with values of the right kind (`Fills`): what the JSON decoder lets through.

### GitSync
`spec[n]` is a row of `pf_worker_specs`, `repo` the branch, `sync[w]` one
`Engine.Sync` with its caller: `Clone`, `Push`, `Record`. `ListSpecs` and `Consider` are
the reconciler, `SyncNow` the handler, `ForeignCommit` other people. `todo[w]` is
what a tick has listed and not yet seen to, taken in the order of the names (which
are numbers); each carries the hash it was rendered to. `lost` is history: a sync
that left no record, or ran beside another of its spec. Its `Init`, `Next` and `Spec`
are `GitInit`, `GitNext` and `GitSpec`, so that one module can extend it and
`Schedules`.

### MC modules and Proofs modules
`MC...` has model values and definitions for the configurations. `RunLifecycleProofs`,
`DispatchProofs`, `ReplayProofs`, `PushPoolProofs`, `LeaderProofs` (of `Schedules`
and `GitSync`, the loops of a leader), `AutomationsProofs`, `AccessProofs` and
`ExternalApiProofs` have theorems and proofs, see section 5.

## 3. Runs

| Run | Instance | Question |
|---|---|---|
| `life_timely` | 2 runs, 2 workers, 3 slots; cancels, retries at rest, crashes, failed writes | While leases are renewed in time and nobody is overtaken on his way out: one executor, a cancel reaches it, no attempt starts on a run cancelled before, final verdicts, and the contract |
| `life_any` | 1 run, 2 workers of one slot, one without the flow; every hazard that one slot admits | Does anything leave a claim behind on a run at rest? |
| `life_live` | 2 runs; cancels, crashes, failed writes | Does every run end, or stay in one of two rows nobody looks at? |
| `late_unwind` | 1 run, 2 workers, 3 slots; `overtake` alone | expected violation, below |
| `dispatch` | 2 runs, 3 lanes, 2 workers with 1 and 2 slots | Slots, limit, pause and order |
| `replay` | 6 deployments, up to 4 runs, 2 slots, all nine faults, one at a time | Final and stable results, kept sleeps, one child per call, COMPLETED children, refused cycles, and that every run ends |
| `push` | 1 run, 2 leaders, 3 POSTs, 3 faults of all seven kinds | Is a lease that lapsed under a receiver the only way to a second one, to a row taken away, to a replaced verdict? Does the run end? |
| `schedules` | 1 deployment, 3 schedules, 2 replicas, 5 instants | One run per instant, no overlap but by slowness, no instant missed |
| `automations` | 2 rules, 2 evaluators, 3 events | Once per process and event, debounce, which events are skipped, progress |
| `access` | 2 accounts, 2 requests at a time, 3 requests in all | The last admin, revocation, ended sessions |
| `external` | 1 key, 1 pool, 3 requests at a time | Rotation, consistent pools, the rate, the secret |
| `gitsync` | 2 specs, 1 reconciler, 1 Sync now, 2 base paths | Only its own files, "synced", convergence |

**The expected violation.** `late_unwind`: `settle` commits the row before its goroutine
has deleted its entries in `Engine.active` and `Worker.leases`, which are keyed by
run id. In between come events, the parent's wake-up, `helpers.Wait` and
`bridge.Flush`. A run that is due again at once (a suspension whose time has come) is
leased by another slot of the same worker; the old goroutine then deletes the new
copy's entries (`engine.go:148-152`, `worker.go:179`), so that its lease is not
renewed, lapses under the live worker, and a second worker executes the run beside
it. `worker.go:321-323` says that the renewal loop keeps the claims alive and cancels
a copy rather than let two workers execute the same run.

### Bounds
- `MaxLeases` bounds run_count; it exceeds the budget plus the janitor's extra
  attempt in `life_live`, so the bound is not what ends a run there. Two claims per
  run in `life_timely` are a first copy and the one that follows it. One run is
  enough where the property is about one row, two where the janitor's loop handles
  several. Three slots give two copies of one run on one worker and a third
  elsewhere. A worker crashes or drains only while another is up (`OtherUp`);
  a process that comes back has a new identity.
- `dispatch`: `MaxOps = 2` operator steps, failures and restarts: two pins, two
  moves, a pause and a restart. One lane is shared, one has no limit, one is served
  by the worker with two slots alone, so each limit is what stops some lease.
- `replay`: `MaxRuns = 4` holds a parent, its child, a retried or recursive chain
  and the sub-flow of the sub-flow; `MaxDepth = 2` lets the depth limit and the
  cycle test each refuse first. One fault already meets every point of the two
  goroutines; `MaxWork = 3` bounds repetitions of a task.
- `push`: three requests give a late POST beside its repetition and a third. A row
  without retries of its own and a flow with one make the two budgets differ. With
  three faults run_count reaches 5, so that `MaxLeases = 6` never stops a run.
- `schedules`: `MaxPerCycle = 2` cuts off a schedule for every instant with
  catch-up, a horizon of 3 one for every fourth; a leadership ends after one
  instant, so that a tick may outlive it and the next overlap.
- `automations`: a threshold of 2 in 3 events gives a burst that reaches into a
  second batch of size 2; firings append events within the same bound. With
  `MaxTime = 1` every window reaches back to the beginning; the theorems cover
  windows that do not.
- `access`: `MaxOps = 3` requests, as many as an overlap of two with one before it;
  `Ttl = 1`, so that sessions and links expire within `MaxTime`.
- `external`: half-minute ticks; one tick refills half a limit, so a burst, a
  refill and an edit of the limit meet.
- `gitsync`: three edits (create, change, change back, move the base path, delete,
  Sync now) and one fault, an overlap of two syncs of a spec counted as one.
  `reconnect` stays off: with it `SyncedIsInRepo` fails, see the observations.
- Symmetry (slots of one worker, replicas, requests) is used only in runs without
  liveness.

### Deadlock
`CHECK_DEADLOCK FALSE` stands where all runs may have ended, or where a bound on
operations, time or faults is used up. `life_timely` and `life_any` check it.

## 4. Fairness
No module assumes that a fault ever happens, or that an operator acts.

- `RunLifecycle.FairSpec`: the flow function returns and the goroutine around it
  goes on (`WF` of `SlotStep` per slot); workers poll on a ticker, so that a run
  that stays available is leased by one of them; leases nobody renews lapse; the
  leader ticks. `life_live` holds although writes may fail for ever, because what
  is left to fail ends in giving up, and then the lease lapses.
- `Replay`: the same for goroutines, the clock and the janitor; `SF` of the lease
  of each run. A due run may be passed over while slots are busy, but leasing is by
  scheduled_at within a priority, so a run that stays due comes first in the end.
- `PushPool`: the leader ticks, time passes, a receiver serves what reached it.
- `Automations`: the ticker of each replica; a replica without leadership does
  nothing at its tick.
- `GitSync`: the ticker of the reconciler, and requests run to their end.

## 5. Proofs
Every safety property that a passing run checks is a theorem for all values of the
constants that satisfy the module's assumption. Where a theorem has a hypothesis
besides, it is in the third column. In `LeaderProofs` the theorems on `GitSync` are
about `GitSpec`.

| Module | Theorem, of `Spec` | Hypothesis | Inductive invariant |
|---|---|---|---|
| `RunLifecycleProofs` | `TypeCorrect`, `NoClaimIsLeft` | | `TypeOK`, `NoStaleClaim` |
| | `OneExecutor`, `ExecutorIsOwner`, `CancelReaches`, `Reclaimable`, `VerdictsStand` | `Timely` | `IInv` |
| | `CancelIsObeyed` | `Timely` | `IInv`, `NoneAsked` |
| | `ContractIsKept` (`Spec => RefinesContract`) | `Timely` | `IInv` |
| `DispatchProofs` | `TypeCorrect`, `SlotsSufficeAlways`, `PauseWithholdsAlways`, `FrontIsFirstAlways`, `ViewIsDispatchOrderAlways`, `LimitIsKeptAlways` | | `Typed`; `SlotsLeft`, `QuietIsPaused`, `FirstIsHead`, `RoomIsCurrent` |
| `ReplayProofs` | `TypeCorrect`, `RecordedIsFinalAlways`, `ReplayIsStableAlways`, `SleepIsKeptAlways`, `OneChildAlways`, `AwaitedIsCompletedAlways`, `CyclesAreRefusedAlways` | | `IInv`, below |
| `PushPoolProofs` | `TypeCorrect`, `OneReceiverAlways`, `ReceiverOwnsRunAlways`, `VerdictsStand` | | `HeldIsLive`, `BusyIsLive`, `ClaimantOwns` |
| `LeaderProofs` | `TypeCorrect`, `OneRunPerInstantAlways`, `OverlapIsSlowAlways`, `MissedOnlyInOutageAlways`; `NextRunsComplete`, `NextRunsSound` | | `KeysAreInstants`; `TicksLead`; `RowsAreKnown`, `TickCovers`, `HandledCovered` |
| | `GitTypeCorrect`, `OnlyItsOwnFilesAlways` | | `GitTyped` |
| | `SyncedIsInRepoAlways` | `"reconnect" \notin Env` | `GitInv` |
| `AutomationsProofs` | `TypeCorrect`, `OncePerProcessAlways`, `DebouncedAlways`, `NothingElseIsSkippedAlways` | | `BatchesAreAhead`, `FiringsAreBehind`; `RowsCover`, `ListsCover`, `FirersAreCalm`; `PassedIsAccounted` |
| `ExternalApiProofs` | `TypeCorrect`, `RevokedIsRefusedAlways`, `PoolIsSoundAlways`, `SecretIsKeptAlways`, `RateIsBoundedAlways` | | `SecretsAreOwn`, `CallersKnowTheDead`; `PoolsAreValid`; `BucketsAreWithin` |
| `AccessProofs` | `TypeCorrect`, `AdminRemainsAlways`, `SessionsAreCurrentAlways`, `EndedIsEndedAlways` | | `GuardsHold`; `EpochsAreRead` |

`Timely` is `Env` without `split`, `drain`, `retryLive`, `lostAck` and `overtake`.
Crashes of workers and of the janitor, failing writes, cancels, retries of runs at
rest, late messages, timeouts and failing renewals are all allowed. It is the
condition under which the lease protocol works: nobody's lease lapses while he is
alive and renewing, nobody takes a run from its executor, and no worker leases a run
again that a goroutine of its own has put back and not yet left. The last is not
something the code ensures: `late_unwind` shows what follows without it, and the other
four members of `Hazard` break the conclusions too (section 7). `NoClaimIsLeft` and
the theorems of the other modules allow all of `Hazard`, with the one exception of
the table; where the code does not keep a promise under some fault, the property
itself says so (`lapsed`, `stale`, `skipped`, `lost`).

**The run lifecycle.** `AtMostOneExecutor` is not inductive: that a goroutine is
alone in the flow function follows from who may have got there. `IInv` adds that
every slot that has not had its last word *holds* its run (`Holding`): the row is
claimed by the slot's worker and the pair is in the worker's `leases` (`Held`); that
what the goroutine has read still agrees with the row, up to a cancellation, and
that it is registered as active (`InStep`); that no two slots hold one run
(`OneCopy`), and that a slot on its way out shares its run with no slot of its
worker, so that what it deletes is its own (`NotOvertaken`); that a run the janitor
is about to decide is at rest (`JanitorOwns`); and `NoStaleClaim` and
`ClaimIsReclaimable`. After a settlement the row may be leased by *another* worker
while the old goroutine unwinds, which the invariant allows and the maps, kept per
worker, survive. A lease that is kept alive does not lapse under `Timely`, so
`Reclaim` touches no held run; a run is leased only from SCHEDULED, which no held
run is. Each action has a lemma; most speak of one slot and one row and use that no
other slot is busy with that row.

The refinement uses `IInv` on both sides of a step. Its lemmas follow the mapping:
a step that starts the flow function is a `Begin`, since the run's only copy is the
one that starts it and its row is in a claimed state, thus open; one that leaves it
is an `End`; a write of a terminal state is a `Decide`, since whoever writes it
(the settling copy, the janitor, the operator on a SCHEDULED row) knows that no
copy executes; a reschedule from a terminal state is a `Reopen`; the rest stutters.

**Cancellations.** `NoneAsked`: every statement that sets cancel_requested takes the
row out of PENDING and RUNNING, and none brings it back there with the flag on. A
start writes RUNNING over the PENDING it has read, so that it fails on a cancelled
row; that the row is still the one that was read is `InStep`.

**Dispatch.** The plan of a lane's statement is a list in the order of dispatch. The
module gives it as the run of each rank, so the first lemmas show that ranks are a
bijection (the order is total, as `Born` differs). `SlotsLeft` says that what a call
has claimed, and what it may still claim, fits what its worker had free.
`RoomIsCurrent`: a statement that has missed no run becoming active in its lane
(`stale`) has no more room than the active runs leave, and whatever settles or moves
away only adds to it. `ListsAgree`: the
list of fewer runs of a lane is within the list of more, in the same order.

**Replay.** `RowsInOrder`, `ChildrenAreAwaited`, `OneChildPerCall` and
`LinksAreChildren` tie rows to the calls that made them: a child has a greater id
than its parent, its key and deployment are those of a wait of the parent's flow,
and no two rows of a parent share a key, by the unique index under the idempotency
key. `OwnersWork`: who works on a run is the row's owner, unless its lease lapsed.
`SlotsInStep` and `StepsAreOpen` say where in the flow a goroutine is, and that a step
is executed only while it has no result. `GivenIsStored` (what any attempt was given
is stored, or is the child that was awaited, or a sleep that has passed) and
`WaitsAreOver` (the waits before the current step have COMPLETED children) carry
this from one attempt to the next; the four properties of replay follow.
`CyclesAreRefused` rests on `RowsInOrder`: the chain of ancestors descends in the ids,
so the recursive function `Ancestors` is unfolded once per step, and a statement
about all chains is proved by its least counterexample (`LeastNat`).

**Push pools.** `HeldIsLive` and `BusyIsLive`: the lease of a run does not lapse under
a dispatcher that waits for its POST, nor, unless the run is in `lapsed`, under a
request. Hence the janitor leaves its row alone. `ClaimantOwns`: a receiver past its
claim owns the row, which is no longer SCHEDULED, as every hold, release and claim
asks. The three properties follow: two claimants would own one row; and whoever
settles with Force writes over a claimed row of his own, never over a verdict.

**Delivery through Git.** `GitTyped` adds to the types that the path of a sync is its
spec's own (`Rendered`), and that a tree about to be pushed onto the head it was
cloned from is the tree there with that path written (`Upstream`). Hence a push that
is accepted changes one path (`OnlyItsOwnFiles`). `GitInv` follows a success to the
record. `Alone`: a sync nobody came beside has its spec to itself; `Landed`: when
it is about to record success, its files are in the branch, where only a sync of its
spec could overwrite them; `Kept`: what was recorded last is there, as long as no
sync of the spec stands between push and record. `OwnRecord` keeps the recorded path
apart from those of the other specs, also after the base path moved. `SameRepo` is
what a reconnection breaks, and the property with it (section 7).

**Schedules.** `KeysAreInstants`: the key of a row is its deployment and instant, and
no row has a twin. `TicksLead`: a replica in a tick has won the leadership no
earlier than it says, and two leaderships are a `Ttl` apart. `TickCovers` and
`HandledCovered` follow the list of a tick: what is no longer to be created has been
created. `NextRunsComplete` and `NextRunsSound` state what the operator computes.

**External API.** `CallersKnowTheDead`: a caller remembers which secrets were dead
when he came, so a `Lookup` can find none of them in a row (`SecretsAreOwn`).
`BucketsAreWithin` is the account of a bucket: what was served and what is left
never exceed a burst and the refill.

**Automations.** `BatchesAreAhead`: what is left of a batch is in the log and after
the cursor. `FiringsAreBehind`: what this life of an evaluator has fired lies behind
its position, in the order of events and then of rules; the position only moves
forward, and a restart begins a new life. A late commit adds an event that this
process may skip, never one that it repeats. `PassedIsAccounted`: an event before a
cursor, or before one that an evaluator has in hand, was taken through the rules, is
in hand itself, or came late or waited at a start; a batch takes the first events
after the cursor, so it leaves none out between. For the debounce, `RowsCover` says that
the row of a rule is at least as late as every recorded firing of it, `ListsCover`
says so of the rows a tick has listed and the firings before it, and `FirersAreCalm`
that who is about to fire a rule with a threshold has compared that row with the
window. `Debounced` therefore speaks of earlier batches only: within one batch the
listed row is stale.

**Access.** `GuardsHold`: as long as the accounts are as a request's guard saw them
(the version it read is current), the account it is about to change is not the last
active admin; any write outdates the guards of all others, so of two overlapping
demotions the second is the write that `AdminRemains` excepts. `EpochsAreRead`: a
sign-in that read the current accounts carries the epoch of its account.
`SessionsAreCurrent` is then inductive: the epoch moves with the write that owes the
revocation, and the request that wrote is in the way (`Revoking`) until the sessions
are gone or the statement has failed.

The provers have no induction over data here. Where a proof needs one (the least
instant after a time, the first ancestor that breaks a claim), it takes a least
element by the well-founded order of `Nat`.

**Only model-checked:** liveness, which the prover does not handle (`RunsEnd` and
its like in `life_live`, `replay`, `push`, `automations`, `gitsync`).

## 6. Not modelled, and what comes next
- The bus (`internal/bus`): hints beside polling. Liveness assumes none of them,
  and late and duplicate cancel messages are in `RunLifecycle`. Its fan-out in
  memory, where the end of one subscription drops the topic's others, changes
  latency only.
- Log partitions and the statistics: deletions and aggregates of rows that no
  other component reads. OpenTelemetry, metrics endpoints, heartbeats: the same.
- The console and the command line: pages, flags, wiring.
- Inside modelled components: task timeouts and backoff delays, cache expiry, time
  zones and daylight saving of schedules, backfills, payload filters of
  automations, scopes, address lists and redaction of API keys, password hashing,
  the text of rendered manifests, and the Redis variant of the login throttle.

Next: backfills and time zones in `Schedules`, cache expiry in `Replay`.

## 7. Further observations
Behaviour met while modelling, for a reader who changes this code.

*Runs.*
- A goroutine that unwinds late deletes its successor's entries (`late_unwind`). The
  newer copy is out of reach of `Engine.Cancel`, and its lease runs out. `life_live`
  leaves `overtake` out: what follows may go on for ever, as the copy whose lease is
  lost may start late on a row that was requeued, and if it dies leave it RUNNING
  under a NULL lease, which nobody reclaims.
- When a lease lapses under a live worker, another one executes the run beside it until
  the first one's next renewal fails (`engine.go:157`), although
  `ARCHITECTURE.md:136-138` says that a network split does not produce two workers
  running the same flow. `settle` repeats a refused write with Force
  (`engine.go:298`), so the second verdict replaces the first, although
  `ARCHITECTURE.md:193-196` and `runs.go:362-363` say that two cannot both win.
- A draining worker renews nothing, so a run that outlives its lease is crashed
  under it (`worker.go:144-145` means to avoid this).
- A PENDING run that is cancelled is reclaimed and requeued as SCHEDULED with
  cancel_requested set, where no worker leases it (`runs.go:615-618`); likewise when
  the cancel comes between the poll of `finish` and its write.
- The leader can die between marking runs CRASHED and deciding them, and nobody
  selects CRASHED rows again (`scheduler.go:199`, `ARCHITECTURE.md:134-135`). This
  row and the one before are `Left`, which `RunsSettle` excuses.
- One failed renewal ends a run as CANCELLED although its claim stands and nobody
  asked (`worker.go:321-323`, `341`); so do a flow timeout and a late cancel message.
- The janitor and the engine count differently. The janitor compares run_count with the
  row's retries, the engine with the flow's when the row has none (`engine.go:263-266`,
  `scheduler.go:211`): with a budget from the flow definition only, the janitor fails
  a run the engine would retry. A suspension raises run_count like any other lease,
  although it "does not count against the retry budget" (`engine.go:230-231`; `runs.go:467`),
  so a crash after some suspensions is not given the extra attempt of
  `ARCHITECTURE.md:142-143`. No property states the budget for that reason.
- `RescheduleRun` on an executing run gives it a second executor.

*Dispatch.* A starting worker upserts its lanes by name and thereby resumes a
paused one and removes its limit (`worker.go:290`, `store.go:218-229`). Workers that
poll a lane at once each see the same room, and together exceed its limit, which
`README.md:98-99` presents as a cap; `LimitIsKept` is what remains of it. A
CANCELLING run still executes and is not counted. `MoveRunToQueue` asks for no state:
an active run that is moved fills its new lane beyond the limit. Runs are created
with any priority, only later changes are bounded (`handlers.go:156-159`, `248-251`,
`380-386`).

*Replay.* The error of saving a cache hit is ignored (`task.go:125`): an attempt
that comes after the cached result has expired executes the task. Two runs that both
miss the cache both execute. A deployment may start itself once, as the chain of
ancestors leaves the caller's own out (`runs.go:145`), although `runtime.go:225-227`
and `ARCHITECTURE.md:155-159` refuse recursion; `CyclesAreRefused` excepts that. A
retried parent whose child FAILED does not start the child again. Two copies of a
run whose lease lapsed may undo each other's checkpoints for as long as they both
run; `RecordedIsFinal`, `ReplayIsStable` and `RunsEnd` except such runs.

*Push pools.* A receiver ignores the errors of its renewals and keeps executing
(`app.go:547-548`). When its lease lapses, the janitor requeues the run and a second
receiver executes it beside the first: `Start` moves the worker of the new claim,
and whoever settles last replaces the other's verdict by Force. The three safety
properties except runs for as long as a request is at them after such a lapse
(`lapsed`), and show that nothing else leads there. `ClaimPushRun` is two statements
(`runs.go:339`): if the hold has been cleared and the second fails, or the receiver
dies before it, the run is PENDING under a NULL lease, which nobody reclaims
(`Lost`). `MarkPushDispatched` tests neither scheduled_at nor cancel_requested.

*Schedules.* An interval shorter than the tick skips instants without catch-up. The
backfill of `models.go:66-67` is not in `NextRuns`, which starts from now. Runs
already created keep the parameters of their creation and survive the deployment.

*Automations.* The debounce looks at last_fired_at as read for the batch, so one
batch may fire a burst twice (`evaluator.go:105`, `122-128`). A leader that takes
over fires again for the events since its own start. A restart begins at the head of
the log and skips what waited there, although the evaluator "simply resumes where
it left off" (`evaluator.go:3-5`, `ARCHITECTURE.md:272-274`). A late commit behind
the cursor is never evaluated. `OncePerProcess` and `NothingElseIsSkipped` say what
is left. A failing `MaxEventSeq` leaves the cursor at 0 and replays the log. A
rule that matches everything feeds itself. `CountEvents` ignores payload filters.

*Access.* Two overlapping demotions, or a failing `ListUsers`, leave no admin. A
login that overlaps a change of password keeps its session. The error of
`DeleteUserSessions` is ignored. `AdminRemains` and `SessionsAreCurrent` except
these. The role that a single sign-on brings along ends no session. An administrator
may set a password on a single sign-on account (`auth.go:226-241`), which then logs
in by it. The throttle counts per replica, and its Redis variant sets the expiry in
a second command (`redis.go:38`).

*External API.* Overlapping saves of settings, or of one key, re-enable what the
other disabled. A rate of 0 means unlimited on creation and the default on update.
A late caller makes a deleted key's bucket anew. The shared limiter fails open.

*GitOps.* Two syncs of one spec at once may leave the older content recorded as
synced. Connecting another repository leaves specs synced (`worker_spec.go:10`). A
push that left no record, followed by an edit back, is not pushed again. Specs may
share a path. Files of deleted or moved specs stay. SyncDrift is never set.
