---------------------------- MODULE RunLifecycle ----------------------------
(***************************************************************************)
(* The life of a flow run: a row of pf_flow_runs shared by the workers     *)
(* that lease and execute it (internal/worker, internal/engine), the       *)
(* janitor that reclaims it (internal/scheduler) and the operator who      *)
(* cancels or retries it (internal/server).  Every statement on the row is *)
(* one step, as it is in Postgres; SetFlowRunState is two, the SELECT and  *)
(* the UPDATE conditional on the state that was read.                      *)
(*                                                                         *)
(* Time is abstract: a lease is live until it lapses, and a SCHEDULED run  *)
(* may be due at any moment.                                               *)
(***************************************************************************)
EXTENDS Naturals, FiniteSets, RunStates

CONSTANTS
  Run,          \* the flow runs
  Worker,       \* worker processes; a restarted process has a new identity
  Slot,         \* the execution slots of all the workers (Worker.slots)
  Host,         \* Host[s] is the worker slot s belongs to
  Registered,   \* the workers whose registry knows the flow
  Retries,      \* run.Retries
  FlowRetries,  \* FlowDef.Retries, the budget of a run whose own is 0
  Outcomes,     \* what the flow function may return
  MaxLeases,    \* bound on run_count
  Env,          \* what the environment may do, a subset of Hazard
  NoWorker, NoRun

(***************************************************************************)
(* cancel       the operator cancels runs                                  *)
(* retry        the operator retries or reschedules finished and waiting   *)
(*              runs                                                       *)
(* retryLive    ... and any other run: neither handler tests the state     *)
(* crash        a worker process dies                                      *)
(* janitorCrash the leader dies, or a write of its requeue loop fails      *)
(* drain        a worker is told to stop and drains                        *)
(* split        a lease lapses although its worker is alive                *)
(* dbError      a state write fails and changes nothing                    *)
(* lostAck      a state write succeeds and its caller sees an error        *)
(* bus          a cancel message of the control topic arrives late         *)
(* timeout      the flow timeout fires                                     *)
(* renewError   a lease renewal fails although the claim stands            *)
(* overtake     a run comes due and its worker leases it once more while   *)
(*              the goroutine that put it back is still on its way out     *)
(***************************************************************************)
Hazard == {"cancel", "retry", "retryLive", "crash", "janitorCrash", "drain",
           "split", "dbError", "lostAck", "bus", "timeout", "renewError",
           "overtake"}

Outcome == {"ok", "error", "permanent", "suspend", "cancelled"}

ASSUME ConstantsAssumption ==
  /\ Host \in [Slot -> Worker]
  /\ Registered \subseteq Worker
  /\ Retries \in Nat /\ FlowRetries \in Nat /\ MaxLeases \in Nat
  /\ Outcomes \subseteq Outcome
  /\ Env \subseteq Hazard
  /\ NoWorker \notin Worker /\ NoRun \notin Run

VARIABLES
  row,      \* pf_flow_runs
  slot,     \* the goroutine occupying each slot, from Worker.dispatch
  leases,   \* Worker.leases: the <<w, r>> that w's renew loop keeps alive
  active,   \* Engine.active: the slots whose cancel function is registered
  status,   \* of a worker process
  todo,     \* the runs reclaim has crashed and not yet decided, with RunCount
  jan,      \* the run the janitor is deciding and the state it read
  control   \* cancel messages in flight to each worker, as <<w, r>>

vars == <<row, slot, leases, active, status, todo, jan, control>>

Lease == {"none", "live", "lapsed"}

Row == [state: State, worker: Worker \cup {NoWorker}, lease: Lease,
        cancel: BOOLEAN, runCount: Nat]

(***************************************************************************)
(* Where a goroutine is:                                                   *)
(*   leased    in Execute, about to read the row for PENDING -> RUNNING    *)
(*   starting  has read it, about to write                                 *)
(*   user      in the flow function                                        *)
(*   returned  has its outcome, about to poll cancelRequested              *)
(*   settle, settling   the first SetFlowRunState of settle: read, write   *)
(*   force, forcing     the second one, with Force                         *)
(*   leaving  its last word on the row is said; the events of settle, the  *)
(*            parent's wake-up, helpers.Wait and bridge.Flush are ahead    *)
(*   left     Execute has returned; the deferred function of dispatch is   *)
(*            ahead                                                        *)
(***************************************************************************)
Pc == {"idle", "leased", "starting", "user", "returned",
       "settle", "settling", "force", "forcing", "leaving", "left"}

Copy == [pc: Pc, run: Run \cup {NoRun}, attempt: Nat,
         seen: State \cup {NoState}, goal: State \cup {NoState},
         outcome: Outcome \cup {"-"}, cancelled: BOOLEAN]

IdleCopy == [pc |-> "idle", run |-> NoRun, attempt |-> 0, seen |-> NoState,
             goal |-> NoState, outcome |-> "-", cancelled |-> FALSE]

IdleJanitor == [run |-> NoRun, seen |-> NoState]

Busy(s) == slot[s].pc # "idle"
RunOf(s) == row[slot[s].run]
Executing(s) == slot[s].pc = "user"
Unwinding(s) == slot[s].pc \in {"leaving", "left"}

\* The budget of finish, the run's own or else the flow's default.
Budget == IF Retries = 0 THEN FlowRetries ELSE Retries

-----------------------------------------------------------------------------
(* Rows before and after the statements of runs.go. *)

\* What CreateFlowRun inserts.
NewRow == [state |-> "SCHEDULED", worker |-> NoWorker, lease |-> "none",
           cancel |-> FALSE, runCount |-> 0]

\* Mutant: the claim forgets to leave SCHEDULED.
LentScheduled(p, w) == [p EXCEPT !.worker = w, !.lease = "live",
                                 !.runCount = p.runCount + 1]

\* LeaseFlowRuns
Lent(p, w) == [p EXCEPT !.state = "PENDING", !.worker = w, !.lease = "live",
                        !.runCount = p.runCount + 1]

\* SetFlowRunState with ClearLease, which every caller but Execute passes.
Released(p, to) == [p EXCEPT !.state = to, !.worker = NoWorker,
                             !.lease = "none"]

\* Mutants: a finished run is cancelled too; a claimed one is left to its
\* flag until it runs; a running one is cancelled at once.
CancelStateFinished(st) == CASE st = "SCHEDULED" -> "CANCELLED"
                             [] OTHER            -> "CANCELLING"
CancelStateRunning(st) == CASE st = "SCHEDULED" -> "CANCELLED"
                            [] st = "RUNNING"   -> "CANCELLING"
                            [] OTHER            -> st
CancelStateAtOnce(st) == IF st \in {"SCHEDULED", "RUNNING", "PENDING"}
                           THEN "CANCELLED" ELSE st

\* RequestCancel
CancelState(st) == CASE st = "SCHEDULED"             -> "CANCELLED"
                     [] st \in {"RUNNING", "PENDING"} -> "CANCELLING"
                     [] OTHER                         -> st

\* Mutant: worker_id and lease_expires_at are kept.
RescheduledWithLease(p) == [p EXCEPT !.state = "SCHEDULED", !.cancel = FALSE]

\* RescheduleRun
Rescheduled(p) == [Released(p, "SCHEDULED") EXCEPT !.cancel = FALSE]

\* cancelRequested
CancelRequested(p) == p.cancel \/ p.state \in {"CANCELLING", "CANCELLED"}

-----------------------------------------------------------------------------
(* The goroutine of a slot. *)

\* Mutant: a return forgets every copy of its worker.
AllCopies(s) == {t \in Slot : Host[t] = Host[s]}

SameCopies(s) == {t \in Slot : Host[t] = Host[s] /\ slot[t].run = slot[s].run}

Continue(s, copy) ==
  /\ slot' = [slot EXCEPT ![s] = copy]
  /\ UNCHANGED <<leases, active>>

\* Nothing of Execute is left but its way out.
Leave(s) == Continue(s, [IdleCopy EXCEPT !.pc = "leaving", !.run = slot[s].run])

(***************************************************************************)
(* The deferred functions of Execute, then the one dispatch gave the       *)
(* goroutine.  Both maps are keyed by run id, so each delete also drops    *)
(* the entry of another copy this worker has since started of the run.     *)
(***************************************************************************)
Forget(s) ==
  /\ slot[s].pc = "leaving"
  /\ slot' = [slot EXCEPT ![s].pc = "left"]
  /\ active' = active \ SameCopies(s)
  /\ UNCHANGED <<row, leases, status, todo, jan, control>>

FreeSlot(s) ==
  /\ slot[s].pc = "left"
  /\ slot' = [slot EXCEPT ![s] = IdleCopy]
  /\ leases' = leases \ {<<Host[s], slot[s].run>>}
  /\ UNCHANGED <<row, active, status, todo, jan, control>>

(***************************************************************************)
(* dispatch: LeaseFlowRuns claims a due run and a goroutine is started on  *)
(* it.  A worker that does not know the flow puts it back at once.         *)
(* Nothing in the code keeps a worker from a run that one of its own       *)
(* goroutines is on its way out of: only the due time of the row does.     *)
(***************************************************************************)
LeaseRun(s, r) ==
  LET w == Host[s] IN
  /\ status[w] = "up" /\ ~Busy(s)
  /\ row[r].state = "SCHEDULED" /\ ~row[r].cancel
  /\ row[r].runCount < MaxLeases
  /\ \/ "overtake" \in Env
     \/ \A t \in Slot : Host[t] = w /\ slot[t].run = r => ~Unwinding(t)
  /\ row' = [row EXCEPT ![r] = Lent(row[r], w)]
  /\ leases' = leases \cup {<<w, r>>}
  /\ \/ /\ w \in Registered
        /\ slot' = [slot EXCEPT ![s] = [IdleCopy EXCEPT
              !.pc = "leased", !.run = r, !.attempt = row[r].runCount + 1]]
        /\ active' = (active \ {t \in Slot : Host[t] = w /\ slot[t].run = r})
                       \cup {s}
     \/ /\ w \notin Registered
        /\ slot' = [slot EXCEPT ![s] = [IdleCopy EXCEPT
              !.pc = "settle", !.run = r, !.attempt = row[r].runCount + 1,
              !.goal = "SCHEDULED"]]
        /\ UNCHANGED active
  /\ UNCHANGED <<status, todo, jan, control>>

\* The claim commits and the worker never learns of it.
LeaseLost(s, r) ==
  /\ "lostAck" \in Env
  /\ status[Host[s]] = "up" /\ ~Busy(s)
  /\ row[r].state = "SCHEDULED" /\ ~row[r].cancel
  /\ row[r].runCount < MaxLeases
  /\ row' = [row EXCEPT ![r] = Lent(row[r], Host[s])]
  /\ UNCHANGED <<slot, leases, active, status, todo, jan, control>>

(***************************************************************************)
(* Execute, PENDING -> RUNNING: the read.  A row that is RUNNING already   *)
(* is returned as it is, whoever holds it; a cancelled context fails the   *)
(* query.  When the call fails Execute returns and leaves the row alone.   *)
(***************************************************************************)
StartRead(s) ==
  LET c == slot[s]  cur == RunOf(s).state IN
  /\ c.pc = "leased"
  /\ \/ /\ c.cancelled \/ Rejected(cur, "RUNNING", FALSE)
        /\ Leave(s)
     \/ /\ ~c.cancelled /\ Unchanged(cur, "RUNNING")
        /\ Continue(s, [c EXCEPT !.pc = "user",
                                 !.attempt = RunOf(s).runCount])
     \/ /\ ~c.cancelled /\ Writes(cur, "RUNNING", FALSE)
        /\ Continue(s, [c EXCEPT !.pc = "starting", !.seen = cur])
  /\ UNCHANGED <<row, status, todo, jan, control>>

Started(p, w) == [p EXCEPT !.state = "RUNNING", !.worker = w]

\* Execute, PENDING -> RUNNING: the conditional write.  It sets no lease.
StartWrite(s) ==
  LET c == slot[s] IN
  /\ c.pc = "starting"
  /\ \/ /\ ~c.cancelled /\ RunOf(s).state = c.seen
        /\ row' = [row EXCEPT ![c.run] = Started(RunOf(s), Host[s])]
        /\ Continue(s, [c EXCEPT !.pc = "user", !.seen = NoState,
                                 !.attempt = RunOf(s).runCount])
     \/ /\ c.cancelled \/ RunOf(s).state # c.seen
        /\ Leave(s)
        /\ UNCHANGED row
  /\ UNCHANGED <<status, todo, jan, control>>

\* invoke: the flow function returns.  Only finish is left, whose context
\* cannot be cancelled; a suspension skips the cancellation poll.
UserReturns(s, o) ==
  LET c == [slot[s] EXCEPT !.cancelled = FALSE] IN
  /\ Executing(s)
  /\ \/ o \in Outcomes \ {"cancelled"}
     \/ o = "cancelled" /\ (slot[s].cancelled \/ "timeout" \in Env)
  /\ Continue(s, IF o = "suspend"
                   THEN [c EXCEPT !.pc = "settle", !.goal = "SCHEDULED"]
                   ELSE [c EXCEPT !.pc = "returned", !.outcome = o])
  /\ UNCHANGED <<row, status, todo, jan, control>>

\* The state finish settles for.
Goal(c, requested) ==
  CASE requested \/ c.outcome = "cancelled"            -> "CANCELLED"
    [] ~requested /\ c.outcome = "ok"                  -> "COMPLETED"
    [] ~requested /\ c.outcome = "error" /\ c.attempt <= Budget -> "SCHEDULED"
    [] OTHER                                           -> "FAILED"

\* finish: poll the row for a cancellation, then choose the transition.  A
\* failed poll counts as no cancellation.
Finish(s) ==
  /\ slot[s].pc = "returned"
  /\ \E requested \in {CancelRequested(RunOf(s))}
                        \cup {b \in {FALSE} : "dbError" \in Env} :
       Continue(s, [slot[s] EXCEPT !.pc = "settle", !.outcome = "-",
                                   !.goal = Goal(slot[s], requested)])
  /\ UNCHANGED <<row, status, todo, jan, control>>

\* finish passes Force for CANCELLED, settle adds it on its second call.
Forced(c) == c.pc = "force" \/ c.goal = "CANCELLED"

\* settle: the read of SetFlowRunState.
SettleRead(s) ==
  LET c == slot[s]  cur == RunOf(s).state IN
  /\ c.pc \in {"settle", "force"}
  /\ \/ Unchanged(cur, c.goal) /\ Leave(s)
     \/ /\ Writes(cur, c.goal, Forced(c))
        /\ Continue(s, [c EXCEPT !.seen = cur,
             !.pc = IF c.pc = "settle" THEN "settling" ELSE "forcing"])
     \/ /\ Rejected(cur, c.goal, Forced(c))
        /\ Continue(s, [c EXCEPT !.pc = "force"])
  /\ UNCHANGED <<row, status, todo, jan, control>>

\* A failed call of settle: once more with Force, then give up.
SettleFailed(s) ==
  \/ /\ slot[s].pc \in {"settle", "settling"}
     /\ Continue(s, [slot[s] EXCEPT !.pc = "force", !.seen = NoState])
  \/ /\ slot[s].pc \in {"force", "forcing"}
     /\ Leave(s)

\* settle: the conditional write of SetFlowRunState.
SettleWrite(s) ==
  LET c == slot[s] IN
  /\ c.pc \in {"settling", "forcing"}
  /\ \/ /\ RunOf(s).state = c.seen
        /\ row' = [row EXCEPT ![c.run] = Released(RunOf(s), c.goal)]
        /\ Leave(s)
     \/ /\ RunOf(s).state # c.seen
        /\ SettleFailed(s)
        /\ UNCHANGED row
  /\ UNCHANGED <<status, todo, jan, control>>

\* A state write of Execute or settle fails before it reaches the row.
StoreFails(s) ==
  /\ "dbError" \in Env
  /\ \/ slot[s].pc \in {"leased", "starting"} /\ Leave(s)
     \/ SettleFailed(s)
  /\ UNCHANGED <<row, status, todo, jan, control>>

\* The conditional write commits but the answer is lost.
AckLost(s) ==
  LET c == slot[s] IN
  /\ "lostAck" \in Env
  /\ c.pc \in {"starting", "settling", "forcing"}
  /\ RunOf(s).state = c.seen
  /\ \/ /\ c.pc = "starting" /\ ~c.cancelled
        /\ row' = [row EXCEPT ![c.run] = Started(RunOf(s), Host[s])]
        /\ Leave(s)
     \/ /\ c.pc # "starting"
        /\ row' = [row EXCEPT ![c.run] = Released(RunOf(s), c.goal)]
        /\ SettleFailed(s)
  /\ UNCHANGED <<status, todo, jan, control>>

-----------------------------------------------------------------------------
(* The worker's helpers, and the end of a worker. *)

\* Engine.Cancel.  From "returned" on, a cancelled context changes nothing.
Cancel(w, r) ==
  slot' = [s \in Slot |->
             IF /\ s \in active /\ Host[s] = w /\ slot[s].run = r
                /\ slot[s].pc \in {"leased", "starting", "user"}
               THEN [slot[s] EXCEPT !.cancelled = TRUE] ELSE slot[s]]

\* cancelWatch sees the operator's flag and cancels the context.
CancelWatch(s) ==
  /\ Executing(s) /\ CancelRequested(RunOf(s))
  /\ Continue(s, [slot[s] EXCEPT !.cancelled = TRUE])
  /\ UNCHANGED <<row, status, todo, jan, control>>

\* subscribe: a cancel message reaches worker w.
ControlMessage(w, r) ==
  /\ <<w, r>> \in control
  /\ control' = control \ {<<w, r>>}
  /\ Cancel(w, r)
  /\ UNCHANGED <<row, leases, active, status, todo, jan>>

\* leaseRenewLoop: RenewLease extends the claim, or the copy is abandoned, on
\* any error.
RenewLease(w, r) ==
  /\ status[w] = "up" /\ <<w, r>> \in leases
  /\ \/ /\ row[r].worker = w /\ row[r].state \in Claimed
        /\ row' = [row EXCEPT ![r].lease = "live"]
        /\ UNCHANGED slot
     \/ /\ \/ ~(row[r].worker = w /\ row[r].state \in Claimed)
           \/ "renewError" \in Env
        /\ Cancel(w, r)
        /\ UNCHANGED row
  /\ UNCHANGED <<leases, active, status, todo, jan, control>>

\* Somebody's renew loop extends the claim on r.
KeptAlive(r) == /\ <<row[r].worker, r>> \in leases
                /\ status[row[r].worker] = "up"

\* lease_expires_at passes.
LeaseLapses(r) ==
  /\ row[r].lease = "live"
  /\ "split" \in Env \/ ~KeptAlive(r)
  /\ row' = [row EXCEPT ![r].lease = "lapsed"]
  /\ UNCHANGED <<slot, leases, active, status, todo, jan, control>>

OtherUp(w) == \E v \in Worker \ {w} : status[v] = "up"

\* The process dies with all it holds in memory.
WorkerCrashes(w) ==
  /\ "crash" \in Env
  /\ status[w] # "down" /\ OtherUp(w)
  /\ status' = [status EXCEPT ![w] = "down"]
  /\ slot' = [s \in Slot |-> IF Host[s] = w THEN IdleCopy ELSE slot[s]]
  /\ leases' = {l \in leases : l[1] # w}
  /\ active' = {s \in active : Host[s] # w}
  /\ UNCHANGED <<row, todo, jan, control>>

\* Run after ctx.Done: nothing is leased, renewed or heard any more, and the
\* slots run on until they are done.
WorkerDrains(w) ==
  /\ "drain" \in Env
  /\ status[w] = "up" /\ OtherUp(w)
  /\ status' = [status EXCEPT ![w] = "draining"]
  /\ control' = {m \in control : m[1] # w}
  /\ UNCHANGED <<row, slot, leases, active, todo, jan>>

-----------------------------------------------------------------------------
(* The operator. *)

RequestCancel(r) ==
  /\ "cancel" \in Env
  /\ row' = [row EXCEPT ![r].cancel = TRUE,
                        ![r].state = CancelState(row[r].state)]
  /\ control' = control \cup {m \in Worker \X {r} :
                                "bus" \in Env /\ status[m[1]] = "up"}
  /\ UNCHANGED <<slot, leases, active, status, todo, jan>>

RescheduleRun(r) ==
  /\ \/ "retryLive" \in Env
     \/ "retry" \in Env /\ row[r].state \in Terminal \cup {"SCHEDULED"}
  /\ row' = [row EXCEPT ![r] = Rescheduled(row[r])]
  /\ UNCHANGED <<slot, leases, active, status, todo, jan, control>>

-----------------------------------------------------------------------------
(* The janitor. *)

\* Mutant: expired claims that never got to RUNNING are forgotten.
ReclaimRunning ==
  LET dead == {r \in Run : row[r].state = "RUNNING" /\ row[r].lease = "lapsed"}
  IN
  /\ dead # {}
  /\ jan = IdleJanitor /\ todo = [r \in Run |-> 0]
  /\ row' = [r \in Run |-> IF r \in dead THEN Released(row[r], "CRASHED")
                                         ELSE row[r]]
  /\ todo' = [r \in Run |-> IF r \in dead THEN row[r].runCount ELSE 0]
  /\ UNCHANGED <<slot, leases, active, status, jan, control>>

\* ReclaimExpiredLeases, one statement over all rows.
Reclaim ==
  LET dead == {r \in Run : row[r].state \in Claimed /\ row[r].lease = "lapsed"}
  IN
  /\ dead # {}
  /\ jan = IdleJanitor /\ todo = [r \in Run |-> 0]
  /\ row' = [r \in Run |-> IF r \in dead THEN Released(row[r], "CRASHED")
                                         ELSE row[r]]
  /\ todo' = [r \in Run |-> IF r \in dead THEN row[r].runCount ELSE 0]
  /\ UNCHANGED <<slot, leases, active, status, jan, control>>

\* reclaim: one attempt beyond run.Retries, then FAILED.
JanitorGoal(r) == IF todo[r] <= Retries + 1 THEN "SCHEDULED" ELSE "FAILED"

JanitorRead(r) ==
  /\ jan.run = NoRun /\ todo[r] > 0
  /\ \/ /\ Unchanged(row[r].state, JanitorGoal(r))
        /\ todo' = [todo EXCEPT ![r] = 0]
        /\ UNCHANGED jan
     \/ /\ Writes(row[r].state, JanitorGoal(r), TRUE)
        /\ jan' = [run |-> r, seen |-> row[r].state]
        /\ UNCHANGED todo
  /\ UNCHANGED <<row, slot, leases, active, status, control>>

JanitorWrite ==
  LET r == jan.run IN
  /\ r # NoRun
  /\ \/ /\ row[r].state = jan.seen
        /\ row' = [row EXCEPT ![r] = Released(row[r], JanitorGoal(r))]
     \/ /\ row[r].state # jan.seen \/ "janitorCrash" \in Env
        /\ UNCHANGED row
  /\ todo' = [todo EXCEPT ![r] = 0]
  /\ jan' = IdleJanitor
  /\ UNCHANGED <<slot, leases, active, status, control>>

\* The leader dies in the loop; its successor's reclaim returns none of the
\* runs that are CRASHED already.
JanitorCrashes ==
  /\ "janitorCrash" \in Env
  /\ todo' = [r \in Run |-> 0]
  /\ jan' = IdleJanitor
  /\ UNCHANGED <<row, slot, leases, active, status, control>>

-----------------------------------------------------------------------------
Init ==
  /\ row = [r \in Run |-> NewRow]
  /\ slot = [s \in Slot |-> IdleCopy]
  /\ leases = {} /\ active = {} /\ control = {}
  /\ status = [w \in Worker |-> "up"]
  /\ todo = [r \in Run |-> 0]
  /\ jan = IdleJanitor

\* The steps a goroutine takes by itself.
SlotStep(s) ==
  \/ StartRead(s) \/ StartWrite(s)
  \/ \E o \in Outcome : UserReturns(s, o)
  \/ Finish(s) \/ SettleRead(s) \/ SettleWrite(s)
  \/ Forget(s) \/ FreeSlot(s)

JanitorStep == Reclaim \/ JanitorWrite \/ \E r \in Run : JanitorRead(r)

Next ==
  \/ \E s \in Slot :
       \/ SlotStep(s) \/ StoreFails(s) \/ AckLost(s) \/ CancelWatch(s)
       \/ \E r \in Run : LeaseRun(s, r) \/ LeaseLost(s, r)
  \/ \E w \in Worker :
       \/ WorkerCrashes(w) \/ WorkerDrains(w)
       \/ \E r \in Run : RenewLease(w, r) \/ ControlMessage(w, r)
  \/ \E r \in Run : RequestCancel(r) \/ RescheduleRun(r) \/ LeaseLapses(r)
  \/ JanitorStep \/ JanitorCrashes

Spec == Init /\ [][Next]_vars

-----------------------------------------------------------------------------
(* Properties *)

\* A goroutine has a run, and what it read or aims at once it needs it.
CopyOK(c) ==
  /\ c.pc = "idle" <=> c.run = NoRun
  /\ c.pc \in {"starting", "settling", "forcing"} => c.seen # NoState
  /\ c.pc \in {"settle", "settling", "force", "forcing"} => c.goal # NoState

\* Every variable is in its set, and no goroutine writes a state it has not
\* chosen or conditions a write on one it has not read.
TypeOK ==
  /\ row \in [Run -> Row]
  /\ slot \in [Slot -> Copy]
  /\ leases \subseteq Worker \X Run
  /\ active \subseteq Slot
  /\ status \in [Worker -> {"up", "draining", "down"}]
  /\ todo \in [Run -> Nat]
  /\ jan \in [run: Run \cup {NoRun}, seen: State \cup {NoState}]
  /\ control \subseteq Worker \X Run
  /\ \A s \in Slot : CopyOK(slot[s])

\* A run at rest, waiting or finished or crashed, carries no claim of anybody,
\* and a lease always has an owner: no statement that takes a run out of a
\* worker's hands leaves worker_id or lease_expires_at behind, where a late
\* RenewLease or the janitor would find it.
NoStaleClaim ==
  \A r \in Run :
    /\ row[r].state \notin Claimed
         => row[r].worker = NoWorker /\ row[r].lease = "none"
    /\ row[r].lease # "none" => row[r].worker # NoWorker

\* A claimed run can be reclaimed: worker_id is set and the lease is not NULL,
\* the value ReclaimExpiredLeases skips.
ClaimIsReclaimable ==
  \A r \in Run : row[r].state \in Claimed
                   => row[r].worker # NoWorker /\ row[r].lease # "none"

\* No two workers, nor two slots of one, are inside the flow function of a run
\* (docs/ARCHITECTURE.md section 4).
AtMostOneExecutor ==
  \A s, t \in Slot :
    Executing(s) /\ Executing(t) /\ slot[s].run = slot[t].run => s = t

\* The worker that executes a run is the one its row names, which is what
\* RenewLease goes by.
ExecutorOwnsRow ==
  \A s \in Slot : Executing(s) => /\ RunOf(s).worker = Host[s]
                                  /\ RunOf(s).state \in {"RUNNING", "CANCELLING"}

\* Engine.Cancel stops a run this engine is executing: its cancel function is
\* the one registered for the run.
CancelReachesExecutor == \A s \in Slot : Executing(s) => s \in active

\* No attempt starts on a run whose cancellation has been requested, however
\* the request falls between the claim, the read and the write by which the
\* worker starts it.
CancelStopsStart ==
  [][\A s \in Slot : ~Executing(s) /\ slot'[s].pc = "user"
                       => ~row[slot[s].run].cancel]_vars

\* Nothing but an operator takes a run out of a terminal state.
TerminalIsFinal ==
  [][\A r \in Run : row[r].state \in Terminal /\ row'[r].state # row[r].state
                      => RescheduleRun(r)]_vars

-----------------------------------------------------------------------------
(* The contract this module implements while leases are renewed in time    *)
(* and no goroutine is overtaken on its way out.                           *)

Executed(s) == IF Executing(s) THEN slot[s].run ELSE NoRun
VerdictOf(r) == IF row[r].state \in Terminal THEN row[r].state ELSE "open"

Contract == INSTANCE RunContract
  WITH Verdict <- Terminal, Open <- "open",
       at <- [s \in Slot |-> Executed(s)], verdict <- [r \in Run |-> VerdictOf(r)]

\* Every step of the lifecycle is a step of the contract or changes nothing in
\* it: no start beside another executor or after a verdict, no verdict under an
\* executor, and no way from one verdict to another but the operator's retry.
RefinesContract == Contract!CSpec

-----------------------------------------------------------------------------
(***************************************************************************)
(* Fairness.  The flow function returns and the goroutine around it runs   *)
(* on; every worker polls, so a run that may be leased is leased by one of *)
(* them; leases lapse with time; a leader ticks.  Nothing is assumed of    *)
(* the operator or of any failure.                                         *)
(***************************************************************************)
Fairness ==
  /\ \A s \in Slot : WF_vars(SlotStep(s))
  /\ \A r \in Run : WF_vars(\E s \in Slot : LeaseRun(s, r))
  /\ \A r \in Run : WF_vars(LeaseLapses(r))
  /\ WF_vars(JanitorStep)

FairSpec == Spec /\ Fairness

\* Where a run is left for good: cancel_requested is set when it comes back to
\* SCHEDULED (the cancel met a PENDING run whose worker gave up, or came after
\* finish's poll), and LeaseFlowRuns skips it; or the leader died, or a write
\* failed, between ReclaimExpiredLeases and the decision in reclaim.
Left(r) ==
  \/ row[r].state = "SCHEDULED" /\ row[r].cancel
  \/ row[r].state = "CRASHED" /\ "janitorCrash" \in Env

\* Every run is finished in the end, or left in one of these two ways: no
\* interleaving of crashes, failed writes, lapsed leases and cancellations
\* keeps it in a worker's hands or in the janitor's for ever.
RunsSettle == <>[](\A r \in Run : row[r].state \in Terminal \/ Left(r))
=============================================================================
