----------------------------- MODULE PushPool ------------------------------
(***************************************************************************)
(* A push pool (internal/scheduler/pushdispatch.go, ServePushWorker of     *)
(* pkg/primeflow/app.go): the leader holds a ready run, posts it to the    *)
(* pool's endpoint, and the receiver claims it there and executes it.      *)
(* Leaders overlap, see Schedules, so that there may be two dispatchers.   *)
(*                                                                         *)
(* Every statement on the row is a step.  The engine's reads and           *)
(* conditional writes, which RunLifecycle has one by one, are taken        *)
(* together here, and so are the two calls of settle, the second of which  *)
(* is forced.                                                              *)
(***************************************************************************)
EXTENDS Naturals, FiniteSets, RunStates

CONSTANTS
  Run,
  Leader,       \* the replicas that dispatch
  Request,      \* the POST requests a receiver may be serving
  Retries,      \* run.Retries
  FlowRetries,  \* flow.Retries, what counts when run.Retries is 0
  MaxLeases,    \* bound on run_count
  MaxFaults,    \* bound on what Env does
  Env,          \* the faults, a subset of Hazard
  Nobody, PushDispatch   \* NULL and 'push-dispatch', values of worker_id

(***************************************************************************)
(* crash        a receiver dies or cannot write any more, a leader dies    *)
(* refuse       a POST does not arrive, or is refused: a wrong secret, a   *)
(*              failed query                                               *)
(* timeout      the dispatcher gives up on a POST that has arrived         *)
(* renewError   the first renewal of a claim fails                         *)
(* renewFails   later renewals fail, which a receiver ignores: a lease     *)
(*              lapses under it                                            *)
(* requeue      the flow suspends, or the receiver does not know it        *)
(* cancel       the operator cancels the run                               *)
(***************************************************************************)
Hazard == {"crash", "refuse", "timeout", "renewError", "renewFails", "requeue", "cancel"}

ASSUME PushAssumption ==
  /\ Retries \in Nat /\ FlowRetries \in Nat /\ MaxLeases \in Nat /\ MaxFaults \in Nat /\ Env \subseteq Hazard
  /\ Nobody # PushDispatch /\ {Nobody, PushDispatch} \cap (Request \cup Run) = {}

VARIABLES
  row,      \* pf_flow_runs
  disp,     \* the dispatchOne of each leader
  req,      \* the handler of POST /run, then executePushRun
  lapsed,   \* history: the runs whose lease has lapsed under a request, as long
            \* as a request is at them
  faults

vars == <<row, disp, req, lapsed, faults>>

Row == [state : State, worker : Request \cup {Nobody, PushDispatch},
        lease : {"none", "live", "lapsed"}, due : BOOLEAN, cancel : BOOLEAN,
        runCount : 0..MaxLeases]

(***************************************************************************)
(* A dispatcher has listed a run, waits for the answer of its POST, or is  *)
(* about to release its hold; by "to" it knows the request it waits for.   *)
(***************************************************************************)
Idle == [pc |-> "idle"]
Dispatcher == {Idle} \cup [pc : {"listed", "clearing"}, run : Run]
                     \cup [pc : {"posting"}, run : Run, to : Request \cup {Nobody}]

(***************************************************************************)
(* A request has arrived, has read the row as SCHEDULED (claiming), has    *)
(* written PENDING (claimed), has its lease (held), runs the flow in the   *)
(* attempt the row showed, has its result, and knows the state to settle   *)
(* for, which a cancellation may still turn into CANCELLED (returned) or   *)
(* not any more (settling).                                                *)
(***************************************************************************)
Handler == {Idle}
  \cup [pc : {"arrived", "claiming", "claimed", "held"}, run : Run]
  \cup [pc : {"running"}, run : Run, attempt : 0..MaxLeases]
  \cup [pc : {"returned", "settling"}, run : Run, goal : State]

Fault(kind) == kind \in Env /\ faults < MaxFaults /\ faults' = faults + 1

Claimant(p) == req[p].pc \notin {"idle", "arrived", "claiming"}
Busy(r) == \E p \in Request : req[p] # Idle /\ req[p].run = r
Owns(p) == row[req[p].run].worker = p /\ row[req[p].run].state \in Claimed

\* Nothing holds the row: the guard of PushReadyRuns and of MarkPushDispatched.
Free(r) == row[r].worker = Nobody \/ row[r].lease # "live"

Released(r, to) == [row[r] EXCEPT !.state = to, !.worker = Nobody, !.lease = "none"]
\* Back to the queue, for a later time.
Requeued(r) == [Released(r, "SCHEDULED") EXCEPT !.due = FALSE]

-----------------------------------------------------------------------------
(* The dispatcher.                                                         *)

\* PushReadyRuns
List(d, r) ==
  /\ disp[d] = Idle
  /\ row[r].state = "SCHEDULED" /\ row[r].due /\ ~row[r].cancel /\ Free(r)
  /\ row[r].runCount < MaxLeases
  /\ disp' = [disp EXCEPT ![d] = [pc |-> "listed", run |-> r]]
  /\ UNCHANGED <<row, req, lapsed, faults>>

\* MarkPushDispatched: the hold, if the row is still SCHEDULED and free.
Mark(d) ==
  LET r == disp[d].run IN
  /\ disp[d].pc = "listed"
  /\ IF row[r].state = "SCHEDULED" /\ Free(r)
     THEN /\ row' = [row EXCEPT ![r].worker = PushDispatch, ![r].lease = "live"]
          /\ disp' = [disp EXCEPT ![d] = [pc |-> "posting", run |-> r, to |-> Nobody]]
     ELSE /\ disp' = [disp EXCEPT ![d] = Idle]
          /\ UNCHANGED row
  /\ UNCHANGED <<req, lapsed, faults>>

\* The POST does not arrive, its signature is refused, or it is given up.
PostFails(d) ==
  /\ disp[d].pc = "posting"
  /\ IF disp[d].to = Nobody THEN Fault("refuse") ELSE Fault("timeout")
  /\ disp' = [disp EXCEPT ![d] = [pc |-> "clearing", run |-> disp[d].run]]
  /\ UNCHANGED <<row, req, lapsed>>

\* Mutant: whoever holds the run is put out.
ClearAny(d) ==
  LET r == disp[d].run IN
  /\ disp[d].pc = "clearing"
  /\ row' = [row EXCEPT ![r].worker = Nobody, ![r].lease = "none"]
  /\ disp' = [disp EXCEPT ![d] = Idle]
  /\ UNCHANGED <<req, lapsed, faults>>

\* ClearPushDispatch
Clear(d) ==
  LET r == disp[d].run IN
  /\ disp[d].pc = "clearing"
  /\ row' = [row EXCEPT ![r] = IF @.state = "SCHEDULED" /\ @.worker = PushDispatch
                                 THEN Released(r, "SCHEDULED") ELSE @]
  /\ disp' = [disp EXCEPT ![d] = Idle]
  /\ UNCHANGED <<req, lapsed, faults>>

\* The leader dies; its hold stays.
LeaderDies(d) ==
  /\ disp[d] # Idle /\ Fault("crash")
  /\ disp' = [disp EXCEPT ![d] = Idle]
  /\ UNCHANGED <<row, req, lapsed>>

-----------------------------------------------------------------------------
(* The receiver.                                                           *)

\* The answer goes to the dispatcher that still waits for this request.
Answer(p, accepted) ==
  disp' = [d \in Leader |->
    IF disp[d].pc = "posting" /\ disp[d].to = p
      THEN IF accepted THEN Idle ELSE [pc |-> "clearing", run |-> disp[d].run]
      ELSE disp[d]]

Enter(p, next) == req' = [req EXCEPT ![p] = next] /\ UNCHANGED lapsed
Goes(p, pc) == Enter(p, [pc |-> pc, run |-> req[p].run])
Settles(p, pc, goal) == Enter(p, [pc |-> pc, run |-> req[p].run, goal |-> goal])

Leave(p) ==
  /\ req' = [req EXCEPT ![p] = Idle]
  /\ lapsed' = {r \in lapsed : \E q \in Request \ {p} : req[q] # Idle /\ req[q].run = r}

\* POST /run.  Every claim is made under an identity of its own.
Arrive(d, p) ==
  /\ disp[d].pc = "posting" /\ disp[d].to = Nobody
  /\ req[p] = Idle /\ \A r \in Run : row[r].worker # p
  /\ req' = [req EXCEPT ![p] = [pc |-> "arrived", run |-> disp[d].run]]
  /\ disp' = [disp EXCEPT ![d].to = p]
  /\ UNCHANGED <<row, lapsed, faults>>

\* ClaimPushRun, SELECT: a row that is PENDING is returned as it is, and the
\* renewal under one's own name fails; any other but SCHEDULED is refused.
Read(p) ==
  LET cur == row[req[p].run].state IN
  /\ req[p].pc = "arrived"
  /\ \/ /\ Writes(cur, "PENDING", FALSE)
        /\ Goes(p, "claiming") /\ UNCHANGED disp
     \/ /\ ~Writes(cur, "PENDING", FALSE)
        /\ Leave(p) /\ Answer(p, FALSE)
  /\ UNCHANGED <<row, faults>>

\* Mutant: the UPDATE does not ask for the state that was read.
ClaimUnconditional(p) ==
  LET r == req[p].run IN
  /\ req[p].pc = "claiming"
  /\ row' = [row EXCEPT ![r].state = "PENDING", ![r].worker = p,
                        ![r].runCount = IF @ < MaxLeases THEN @ + 1 ELSE @]
  /\ Goes(p, "claimed")
  /\ UNCHANGED <<disp, faults>>

\* ClaimPushRun, UPDATE: the lease is left as it is.
Claim(p) ==
  LET r == req[p].run IN
  /\ req[p].pc = "claiming"
  /\ \/ /\ row[r].state = "SCHEDULED" /\ row[r].runCount < MaxLeases
        /\ row' = [row EXCEPT ![r].state = "PENDING", ![r].worker = p, ![r].runCount = @ + 1]
        /\ Goes(p, "claimed") /\ UNCHANGED disp
     \/ /\ row[r].state # "SCHEDULED" \/ row[r].runCount = MaxLeases
        /\ Leave(p) /\ Answer(p, FALSE) /\ UNCHANGED row
  /\ UNCHANGED faults

\* ClaimPushRun, RenewLease: without it the receiver lets go of its claim.
Renew(p) ==
  LET r == req[p].run IN
  /\ req[p].pc = "claimed"
  /\ \/ /\ Owns(p)
        /\ row' = [row EXCEPT ![r].lease = "live"]
        /\ Goes(p, "held") /\ Answer(p, TRUE) /\ UNCHANGED faults
     \/ /\ IF Owns(p) THEN Fault("renewError") ELSE UNCHANGED faults
        /\ Leave(p) /\ Answer(p, FALSE) /\ UNCHANGED row

\* Execute, PENDING -> RUNNING.
Start(p) ==
  LET r == req[p].run  cur == row[r].state
      executing == [pc |-> "running", run |-> r, attempt |-> row[r].runCount] IN
  /\ req[p].pc = "held"
  /\ \/ /\ Unchanged(cur, "RUNNING") /\ Enter(p, executing) /\ UNCHANGED row
     \/ /\ Writes(cur, "RUNNING", FALSE) /\ Enter(p, executing)
        /\ row' = [row EXCEPT ![r].state = "RUNNING", ![r].worker = p]
     \/ /\ Rejected(cur, "RUNNING", FALSE) /\ Leave(p) /\ UNCHANGED row
  /\ UNCHANGED <<disp, faults>>

Budget == IF Retries = 0 THEN FlowRetries ELSE Retries

\* Execute finds no such flow, or invoke suspends: back to the queue, without
\* a look at a cancellation.
PutBack(p) ==
  /\ req[p].pc \in {"held", "running"} /\ Fault("requeue")
  /\ Settles(p, "settling", "SCHEDULED")
  /\ UNCHANGED <<row, disp>>

\* invoke: the flow function is over.  A success, a permanent error, or one
\* without a retry left, the flow's timeout, an error with a retry left.
Return(p) ==
  /\ req[p].pc = "running"
  /\ \E goal \in {"COMPLETED", "FAILED", "CANCELLED"}
                   \cup (IF req[p].attempt <= Budget THEN {"SCHEDULED"} ELSE {}) :
       Settles(p, "returned", goal)
  /\ UNCHANGED <<row, disp, faults>>

\* finish: the poll for a cancellation.
Poll(p) ==
  /\ req[p].pc = "returned"
  /\ Settles(p, "settling", IF row[req[p].run].cancel THEN "CANCELLED" ELSE req[p].goal)
  /\ UNCHANGED <<row, disp, faults>>

\* settle: whatever the row is, whoever holds it, unless it is what it should be.
Settle(p) ==
  LET r == req[p].run  goal == req[p].goal IN
  /\ req[p].pc = "settling"
  /\ row' = [row EXCEPT ![r] = IF Unchanged(@.state, goal) THEN @
                               ELSE IF goal = "SCHEDULED" THEN Requeued(r)
                               ELSE Released(r, goal)]
  /\ Leave(p)
  /\ UNCHANGED <<disp, faults>>

\* executePushRun: a later renewal, which nobody looks at the result of, finds
\* the claim still its own.
KeepAlive(p) ==
  /\ req[p].pc \in {"held", "running", "returned", "settling"} /\ Owns(p)
  /\ row[req[p].run].lease = "lapsed"
  /\ row' = [row EXCEPT ![req[p].run].lease = "live"]
  /\ UNCHANGED <<disp, req, lapsed, faults>>

\* The receiver dies; a dispatcher that waits for it sees the connection drop.
ReceiverDies(p) ==
  /\ req[p] # Idle /\ Fault("crash")
  /\ Leave(p) /\ Answer(p, FALSE)
  /\ UNCHANGED row

-----------------------------------------------------------------------------
(* Time, the janitor and the operator.                                     *)

\* A hold outlasts the POST.
Held(r) == \E d \in Leader : disp[d].pc \in {"posting", "clearing"} /\ disp[d].run = r

\* The lease of a hold, or of a claim.  It takes failed renewals for a claim to
\* lapse under its receiver.
LeaseLapses(r) ==
  /\ row[r].lease = "live" /\ ~Held(r)
  /\ row' = [row EXCEPT ![r].lease = "lapsed"]
  /\ \/ ~Busy(r) /\ UNCHANGED <<lapsed, faults>>
     \/ Busy(r) /\ Fault("renewFails") /\ lapsed' = lapsed \cup {r}
  /\ UNCHANGED <<disp, req>>

\* Mutant: only executing runs are looked for.
AbandonedRunning(r) == row[r].state = "RUNNING" /\ row[r].lease = "lapsed"

\* The runs ReclaimExpiredLeases selects.
Abandoned(r) == row[r].state \in Claimed /\ row[r].lease = "lapsed"

\* reclaim: an attempt beyond the budget, else FAILED.
Reclaim(r) ==
  /\ Abandoned(r)
  /\ row' = [row EXCEPT ![r] = IF @.runCount <= Retries + 1
                                 THEN Requeued(r) ELSE Released(r, "FAILED")]
  /\ UNCHANGED <<disp, req, lapsed, faults>>

ComesDue(r) ==
  /\ row[r].state = "SCHEDULED" /\ ~row[r].due
  /\ row' = [row EXCEPT ![r].due = TRUE]
  /\ UNCHANGED <<disp, req, lapsed, faults>>

\* Mutant: a run that is being executed is CANCELLED at once, too.
CancelAtOnce(r) ==
  /\ ~row[r].cancel /\ row[r].state \notin Terminal /\ Fault("cancel")
  /\ row' = [row EXCEPT ![r].cancel = TRUE, ![r].state = "CANCELLED"]
  /\ UNCHANGED <<disp, req, lapsed>>

\* RequestCancel
Cancel(r) ==
  /\ ~row[r].cancel /\ row[r].state \notin Terminal /\ Fault("cancel")
  /\ row' = [row EXCEPT ![r].cancel = TRUE,
                        ![r].state = IF @ = "SCHEDULED" THEN "CANCELLED" ELSE "CANCELLING"]
  /\ UNCHANGED <<disp, req, lapsed>>

-----------------------------------------------------------------------------
Init ==
  /\ row = [r \in Run |-> [state |-> "SCHEDULED", worker |-> Nobody, lease |-> "none",
                           due |-> FALSE, cancel |-> FALSE, runCount |-> 0]]
  /\ disp = [d \in Leader |-> Idle]
  /\ req = [p \in Request |-> Idle]
  /\ lapsed = {}
  /\ faults = 0

Dispatch(d) == Mark(d) \/ Clear(d) \/ \E r \in Run : List(d, r)
Receive(p) ==
  \/ Read(p) \/ Claim(p) \/ Renew(p) \/ Start(p)
  \/ PutBack(p) \/ Return(p) \/ Poll(p) \/ Settle(p)
Leaders == \E d \in Leader : Dispatch(d) \/ \E p \in Request : Arrive(d, p)
Time == \E r \in Run : LeaseLapses(r) \/ Reclaim(r) \/ ComesDue(r)

Next ==
  \/ Leaders \/ Time
  \/ \E d \in Leader : PostFails(d) \/ LeaderDies(d)
  \/ \E p \in Request : Receive(p) \/ KeepAlive(p) \/ ReceiverDies(p)
  \/ \E r \in Run : Cancel(r)

Spec == Init /\ [][Next]_vars

\* The leader ticks, a receiver serves what reached it, time passes.
Fairness ==
  /\ WF_vars(Leaders) /\ WF_vars(Time)
  /\ \A p \in Request : WF_vars(Receive(p))

FairSpec == Spec /\ Fairness

-----------------------------------------------------------------------------
(* Properties.                                                             *)

TypeOK ==
  /\ row \in [Run -> Row] /\ disp \in [Leader -> Dispatcher]
  /\ req \in [Request -> Handler] /\ lapsed \subseteq Run /\ faults \in 0..MaxFaults

\* However many dispatchers post a run, and however late, one receiver has it and
\* the others are refused, unless its lease has lapsed under a receiver: a receiver
\* ignores failed renewals (executePushRun), so that the janitor and the next
\* dispatcher bring a second one.  Nothing else does.
OneReceiver ==
  \A p, q \in Request :
    /\ Claimant(p) /\ Claimant(q) /\ p # q
    /\ req[p].run = req[q].run
    => req[p].run \in lapsed

\* A receiver that executes a run is its owner, so that its renewals count and no
\* answer or release that comes late puts it out, unless, again, a lease of the
\* run has lapsed under a receiver.
ReceiverOwnsRun ==
  \A p \in Request :
    req[p].pc \in {"held", "running", "returned", "settling"} =>
      Owns(p) \/ req[p].run \in lapsed

\* settle writes whatever the row is by then (Force), yet a verdict once given
\* stays, whichever dispatchers and receivers are late, unless a lease of the run
\* has lapsed under a receiver.
VerdictIsFinal ==
  [][\A r \in Run : row[r].state \in Terminal => \/ row'[r].state = row[r].state
                                                 \/ r \in lapsed]_vars

\* The two rows that nobody looks at: claimed under a lease that is NULL, and
\* back in the queue after a cancellation.
Lost(r) ==
  \/ row[r].state \in Claimed /\ row[r].lease = "none"
  \/ row[r].state = "SCHEDULED" /\ row[r].cancel

\* Every run of the pool ends, but for those: a hold that nobody claims lapses and
\* is posted again, a claim that nobody finishes is reclaimed, and receivers whose
\* leases have lapsed under them do not keep the run going for ever.
RunsEnd == \A r \in Run : <>[](row[r].state \in Terminal \/ Lost(r))

=============================================================================
