------------------------------- MODULE Replay -------------------------------
(***************************************************************************)
(* Durable execution (pkg/sdk, internal/engine/runtime.go): a flow function*)
(* is called from the top at every attempt, and its tasks, waits and       *)
(* sub-flows find what earlier attempts left in pf_task_runs.  Runs start  *)
(* children through the same store and are woken when these end.           *)
(*                                                                         *)
(* A flow is a sequence of steps, executed by a slot of some worker.  The  *)
(* claim is one step here, PENDING and RUNNING are one state, and CRASHED  *)
(* is decided as it is set: RunLifecycle has them apart.  Time is abstract:*)
(* what is scheduled for later comes due at any moment after.              *)
(***************************************************************************)
EXTENDS Naturals, FiniteSets, Sequences, RunStates

CONSTANTS
  Dep,        \* deployments
  Flow,       \* Flow[d]: the steps of d's flow function, a sequence of Step
  Tops,       \* the deployments the first run may be of
  Name,       \* names of tasks and waits
  MaxRuns,    \* bound on the runs
  Slot,       \* execution slots of the workers
  Retries,    \* run.Retries, of every run
  MaxDepth,   \* Config.MaxSubflowDepth
  Env,        \* what may go wrong, a subset of Hazard
  MaxFaults,  \* bound on the steps of Env
  MaxWork,    \* bound on the successes of one task of a run
  NoDep, NoSlot, NoCache

(***************************************************************************)
(* crash     a worker dies             dbError  a statement fails          *)
(* lostAck   a trigger commits and its answer is lost                      *)
(* error, permanent, suspend           what a task's function may return   *)
(* split     a lease lapses under a live worker                            *)
(* cancel    the operator cancels a waiting run                            *)
(* retry     the operator reschedules a waiting or failed run              *)
(***************************************************************************)
Hazard == {"crash", "dbError", "lostAck", "error", "permanent", "suspend",
           "split", "cancel", "retry"}

Run == 1..MaxRuns
Ids == 0..MaxRuns        \* 0 is no run

(***************************************************************************)
(* task   Task, under an explicit key (TaskKey) or the next of its name    *)
(* start  RunDeployment inside a Task                                      *)
(* sleep  Sleep                                                            *)
(* wait   RunDeploymentAndWait                                             *)
(***************************************************************************)
Step == [op: {"task", "start", "sleep", "wait"}, name: Name, keyed: BOOLEAN,
         retries: Nat, cache: Name \cup {NoCache}, dep: Dep \cup {NoDep}]

ASSUME ReplayAssumption ==
  /\ Flow \in [Dep -> Seq(Step)]
  /\ \A d \in Dep : Flow[d] # <<>>
  /\ Tops \subseteq Dep
  /\ MaxRuns \in Nat \ {0} /\ Retries \in Nat /\ MaxDepth \in Nat
  /\ Env \subseteq Hazard /\ MaxFaults \in Nat /\ MaxWork \in Nat
  /\ NoDep \notin Dep /\ NoSlot \notin Slot /\ NoCache \notin Name
  /\ Name \cap {"none", "now", "later"} = {}

(***************************************************************************)
(* The key of a wait is nextKey("subflow:" + name) and that of a sleep     *)
(* "wait:" + key: the flow's own tasks use neither prefix.  Waits are not  *)
(* keyed by the flow, and neither takes a cached result.                   *)
(***************************************************************************)
ASSUME StepsAssumption ==
  \A d \in Dep : \A k, l \in DOMAIN Flow[d] :
    LET f == Flow[d] IN
    /\ f[k].op \in {"start", "wait"} => f[k].dep \in Dep
    /\ f[k].op = "wait" => ~f[k].keyed
    /\ f[k].op \in {"wait", "sleep"} =>
         /\ f[k].cache = NoCache
         /\ f[l].name = f[k].name => f[l].op = f[k].op

VARIABLES
  run,     \* pf_flow_runs
  cp,      \* pf_task_runs, by run and key
  slot,    \* the goroutine in each slot
  passed,  \* the <<run, key, value>> of the sleeps whose wake time has come
  work,    \* history: how often the function of a <<run, key>> has succeeded
  given,   \* history: <<run, key, value>> handed to the flow function
  lapsed,  \* history: the runs whose lease ended while their worker was alive
  unsaved, \* history: the <<run, key>> that got a cached result and no checkpoint
  faults   \* the steps of Env so far

vars == <<run, cp, slot, passed, work, given, lapsed, unsaved, faults>>

\* nextKey, or the key of TaskKey: the ordinal of a call among those of its name.
KeyAt(d, k) ==
  LET f == Flow[d] IN
  <<f[k].name, IF f[k].keyed THEN 0
               ELSE Cardinality({j \in 1..k : f[j].name = f[k].name /\ ~f[j].keyed})>>

Key == UNION {{KeyAt(d, k) : k \in DOMAIN Flow[d]} : d \in Dep}
NoKey == <<"none", 0>>

\* When a waiting run is scheduled: due, at some later time, or at the wake
\* time of the sleep with a key.
Now == <<"now", 0>>
Later == <<"later", 0>>
Time == {Now, Later} \cup Key

(***************************************************************************)
(* A value names its origin: the n-th success of the function of run i's   *)
(* task is <<i, n>>, and the child c of a sub-flow <<c, 0>>.               *)
(***************************************************************************)
Value == Ids \X Nat
NoValue == <<0, 0>>

RunRow == [state: State \cup {NoState}, dep: Dep \cup {NoDep}, parent: Ids,
           key: Key \cup {NoKey}, at: Time,
           count: 0..(Retries + 2), owner: Slot \cup {NoSlot}]
NoRow == [state |-> NoState, dep |-> NoDep, parent |-> 0, key |-> NoKey,
          at |-> Now, count |-> 0, owner |-> NoSlot]

Checkpoint == [status: {"none", "RUNNING", "FAILED", "COMPLETED"}, value: Value]
NoCheckpoint == [status |-> "none", value |-> NoValue]

Outcome == {"-", "ok", "error", "permanent", "suspend"}

\* The goroutine of a slot: where it is in which step of its run's flow.
Goroutine == [run: Ids,
              pc: {"idle", "load", "open", "body", "started", "save", "wake",
                   "block", "trigger", "link", "poll", "finish", "count", "resume"},
              step: Nat, attempt: Nat, child: Ids,
              outcome: Outcome, until: Time]
Idle == [run |-> 0, pc |-> "idle", step |-> 0, attempt |-> 0, child |-> 0,
         outcome |-> "-", until |-> Now]

-----------------------------------------------------------------------------
(* Readings.                                                               *)

Exists(i) == run[i].state # NoState
StepOf(s) == Flow[run[slot[s].run].dep][slot[s].step]
At(s, pc) == slot[s].pc = pc

KeyOf(s) == KeyAt(run[slot[s].run].dep, slot[s].step)
Stored(s) == cp[slot[s].run][KeyOf(s)]

\* Parent links point to older runs.
Ancestors[i \in Ids] ==
  IF i = 0 \/ run[i].parent = 0 THEN {}
  ELSE {run[i].parent} \cup Ancestors[run[i].parent]

\* Mutant: only the depth is limited.
RefusesDepth(i, d) == Cardinality(Ancestors[i]) >= MaxDepth

\* guardSubflow: the ancestors of the run that triggers, not the run itself.
Refuses(i, d) == \/ Cardinality(Ancestors[i]) >= MaxDepth
                 \/ \E a \in Ancestors[i] : run[a].dep = d

\* FindCachedResult, without expiry.
Cached(name) == {cp[q[1]][q[2]].value : q \in
                  {q \in Run \X Key : /\ name # NoCache
                                      /\ cp[q[1]][q[2]].status = "COMPLETED"
                                      /\ Exists(q[1])
                                      /\ \E k \in DOMAIN Flow[run[q[1]].dep] :
                                           /\ KeyAt(run[q[1]].dep, k) = q[2]
                                           /\ Flow[run[q[1]].dep][k].cache = name}}

\* CountUnfinishedChildren
Unfinished(p) == {i \in Run : /\ Exists(i) /\ run[i].parent = p
                              /\ run[i].state \notin Terminal}

May(h) == h \in Env /\ faults < MaxFaults
Fault == faults' = faults + 1
More(n) == IF n <= Retries + 1 THEN n + 1 ELSE n    \* saturates above the budgets

-----------------------------------------------------------------------------
(* What a step of a flow does to its goroutine.                            *)

Goto(s, pc) == slot' = [slot EXCEPT ![s].pc = pc]

\* The flow function returns.
Returns(s, outcome, until) ==
  slot' = [slot EXCEPT ![s].pc = "finish", ![s].outcome = outcome,
                       ![s].until = until]

\* The call returns v and the flow goes on to its next step.
Advance(s, v) ==
  /\ given' = given \cup {<<slot[s].run, KeyOf(s), v>>}
  /\ slot' = [slot EXCEPT
       ![s] = IF slot[s].step = Len(Flow[run[slot[s].run].dep])
                THEN [slot[s] EXCEPT !.pc = "finish", !.outcome = "ok"]
                ELSE [slot[s] EXCEPT !.pc = "load", !.step = slot[s].step + 1]]

Save(s, status, value) ==
  cp' = [cp EXCEPT ![slot[s].run][KeyOf(s)] = [status |-> status, value |-> value]]

\* A task's value goes to the flow, a wake time to the rest of WaitUntil.
Deliver(s, v) == IF StepOf(s).op = "sleep"
                   THEN Goto(s, "wake") /\ UNCHANGED given
                   ELSE Advance(s, v)

-----------------------------------------------------------------------------
(* Task and RunDeploymentAndWait.                                          *)

\* Mutant: a step is executed without looking for its checkpoint.
LoadNothing(s) ==
  /\ At(s, "load")
  /\ Goto(s, IF StepOf(s).op = "wait" THEN "trigger" ELSE "open")
  /\ UNCHANGED <<run, cp, passed, work, given, lapsed, unsaved, faults>>

\* LoadCheckpoint: a completed step is not executed again, a started sub-flow
\* not triggered again.
Load(s) ==
  /\ At(s, "load")
  /\ IF StepOf(s).op = "wait"
       THEN /\ slot' = [slot EXCEPT ![s].child = Stored(s).value[1],
                          ![s].pc = IF Stored(s).value[1] = 0 THEN "trigger" ELSE "poll"]
            /\ UNCHANGED given
       ELSE IF Stored(s).status = "COMPLETED"
              THEN Deliver(s, Stored(s).value)
              ELSE Goto(s, "open") /\ UNCHANGED given
  /\ UNCHANGED <<run, cp, passed, work, lapsed, unsaved, faults>>

\* The cache lookup, or the checkpoint RUNNING and the first attempt.  A failed
\* lookup is a miss, and a cached result is handed out even if its checkpoint
\* cannot be stored.  (RUNNING and FAILED are one to Load: that a save of either
\* is ignored when it fails makes no difference.)
Open(s) ==
  /\ At(s, "open")
  /\ \/ \E v \in Cached(StepOf(s).cache) :
          /\ Advance(s, v)
          /\ \/ Save(s, "COMPLETED", v) /\ UNCHANGED <<unsaved, faults>>
             \/ /\ May("dbError") /\ Fault /\ UNCHANGED cp
                /\ unsaved' = unsaved \cup {<<slot[s].run, KeyOf(s)>>}
     \/ /\ \/ Cached(StepOf(s).cache) = {} /\ UNCHANGED faults
           \/ May("dbError") /\ Fault
        /\ Save(s, "RUNNING", NoValue)
        /\ slot' = [slot EXCEPT ![s].pc = "body", ![s].attempt = 0]
        /\ UNCHANGED <<given, unsaved>>
  /\ UNCHANGED <<run, passed, work, lapsed>>

\* runAttempts: the function succeeds; a start has triggered its run by then.
FnSucceeds(s) ==
  /\ \/ At(s, "started")
     \/ At(s, "body") /\ StepOf(s).op # "start"
  /\ work[slot[s].run][KeyOf(s)] < MaxWork
  /\ work' = [work EXCEPT ![slot[s].run][KeyOf(s)] = @ + 1]
  /\ Goto(s, "save")
  /\ UNCHANGED <<run, cp, passed, given, lapsed, unsaved, faults>>

\* A plain error is retried within the task, everything else leaves it.
FnFails(s, kind) ==
  /\ At(s, "body") \/ At(s, "started")
  /\ StepOf(s).op # "sleep"
  /\ May(kind) /\ Fault
  /\ IF kind = "error" /\ slot[s].attempt < StepOf(s).retries
       THEN slot' = [slot EXCEPT ![s].pc = "body", ![s].attempt = @ + 1] /\ UNCHANGED cp
       ELSE /\ Returns(s, kind, Later)
            /\ IF kind = "suspend" THEN UNCHANGED cp ELSE Save(s, "FAILED", NoValue)
  /\ UNCHANGED <<run, passed, work, given, lapsed, unsaved>>

\* Mutant: a result that could not be stored is handed out all the same.
SaveResultIgnored(s) ==
  /\ At(s, "save")
  /\ LET v == <<slot[s].run, work[slot[s].run][KeyOf(s)]>> IN
     \/ /\ Save(s, "COMPLETED", v) /\ Deliver(s, v)
        /\ UNCHANGED <<run, passed, work, lapsed, unsaved, faults>>
     \/ /\ May("dbError") /\ Fault /\ Deliver(s, v)
        /\ UNCHANGED <<run, cp, passed, work, lapsed, unsaved>>

\* The checkpoint COMPLETED; a result that cannot be stored fails the attempt.
SaveResult(s) ==
  /\ At(s, "save")
  /\ LET v == <<slot[s].run, work[slot[s].run][KeyOf(s)]>> IN
       Save(s, "COMPLETED", v) /\ Deliver(s, v)
  /\ UNCHANGED <<run, passed, work, lapsed, unsaved, faults>>

\* Any other statement of a call fails, and with it the attempt.
StatementFails(s) ==
  /\ \E pc \in {"load", "save", "trigger", "link", "poll"} : At(s, pc)
  /\ May("dbError") /\ Fault
  /\ Returns(s, "error", Now)
  /\ UNCHANGED <<run, cp, passed, work, given, lapsed, unsaved>>

\* Mutant: the wake time is not compared with the clock.
WakeAnyway(s) ==
  /\ At(s, "wake")
  /\ Advance(s, Stored(s).value)
  /\ UNCHANGED <<run, cp, passed, work, lapsed, unsaved, faults>>

\* The rest of WaitUntil: over, too long to hold the slot, or a short wait.
Wake(s) ==
  /\ At(s, "wake") \/ At(s, "block")
  /\ LET w == <<slot[s].run, KeyOf(s), Stored(s).value>> IN
     \/ w \in passed /\ Advance(s, w[3])
     \/ /\ w \notin passed /\ At(s, "wake")
        /\ \/ Returns(s, "suspend", KeyOf(s))
           \/ Goto(s, "block")
        /\ UNCHANGED given
  /\ UNCHANGED <<run, cp, passed, work, lapsed, unsaved, faults>>

SleepEnds(i, key) ==
  LET w == <<i, key, cp[i][key].value>> IN
  /\ cp[i][key].status = "COMPLETED" /\ w \notin passed
  /\ \E k \in DOMAIN Flow[run[i].dep] : /\ Flow[run[i].dep][k].op = "sleep"
                                        /\ KeyAt(run[i].dep, k) = key
  /\ passed' = passed \cup {w}
  /\ run' = [run EXCEPT ![i].at = IF @ = key THEN Now ELSE @]
  /\ UNCHANGED <<cp, slot, work, given, lapsed, unsaved, faults>>

\* Mutant: the child is created without an idempotency key.
ChildWithoutKey(s) == {}

\* The child a former attempt has triggered from this call, by idempotency key.
ChildOf(s) == {c \in Run : /\ Exists(c) /\ run[c].parent = slot[s].run
                           /\ run[c].key = KeyOf(s)}

\* CreateFlowRun inserts the next run.
Create(s, c, key) ==
  /\ ~Exists(c) /\ \A i \in Run : i < c => Exists(i)
  /\ run' = [run EXCEPT ![c] = [NoRow EXCEPT
       !.state = "SCHEDULED", !.dep = StepOf(s).dep, !.parent = slot[s].run, !.key = key]]

\* RunDeployment within a task: each execution of the task starts one more.
StartChild(s) ==
  /\ At(s, "body") /\ StepOf(s).op = "start"
  /\ IF Refuses(slot[s].run, StepOf(s).dep)
       THEN /\ Returns(s, "permanent", Now) /\ Save(s, "FAILED", NoValue)
            /\ UNCHANGED run
       ELSE \E c \in Run : Create(s, c, NoKey) /\ Goto(s, "started") /\ UNCHANGED cp
  /\ UNCHANGED <<passed, work, given, lapsed, unsaved, faults>>

\* TriggerDeployment for a sub-flow: guard, then create or find the child.
Trigger(s) ==
  /\ At(s, "trigger")
  /\ \/ /\ Refuses(slot[s].run, StepOf(s).dep)
        /\ Returns(s, "permanent", Now)
        /\ UNCHANGED <<run, faults>>
     \/ /\ ~Refuses(slot[s].run, StepOf(s).dep)
        /\ \/ /\ ChildOf(s) # {} /\ UNCHANGED <<run, faults>>
              /\ \E c \in ChildOf(s) :
                   slot' = [slot EXCEPT ![s].pc = "link", ![s].child = c]
           \/ /\ ChildOf(s) = {}
              /\ \E c \in Run : /\ Create(s, c, KeyOf(s))
                                /\ \/ /\ slot' = [slot EXCEPT ![s].pc = "link", ![s].child = c]
                                      /\ UNCHANGED faults
                                   \/ May("lostAck") /\ Fault /\ Returns(s, "error", Now)
  /\ UNCHANGED <<cp, passed, work, given, lapsed, unsaved>>

\* The child's id goes into the checkpoint.
Link(s) ==
  /\ At(s, "link")
  /\ Save(s, "RUNNING", <<slot[s].child, 0>>) /\ Goto(s, "poll")
  /\ UNCHANGED <<run, passed, work, given, lapsed, unsaved, faults>>

\* Mutant: the wait ends with any finished child.
PollFinished(s) ==
  /\ At(s, "poll")
  /\ IF run[slot[s].child].state \in Terminal
       THEN Advance(s, <<slot[s].child, 0>>)
       ELSE Returns(s, "suspend", Later) /\ UNCHANGED given
  /\ UNCHANGED <<run, cp, passed, work, lapsed, unsaved, faults>>

\* Mutant: the suspension has no time to re-poll, the child has to wake its parent.
PollNever(s) ==
  /\ At(s, "poll")
  /\ LET c == slot[s].child IN
     CASE run[c].state = "COMPLETED" -> Advance(s, <<c, 0>>)
       [] run[c].state \in {"FAILED", "CANCELLED"} ->
            Returns(s, "permanent", Now) /\ UNCHANGED given
       [] OTHER -> Returns(s, "suspend", KeyOf(s)) /\ UNCHANGED given
  /\ UNCHANGED <<run, cp, passed, work, lapsed, unsaved, faults>>

\* GetRunState: the child's result, its failure, or a suspension.
Poll(s) ==
  /\ At(s, "poll")
  /\ LET c == slot[s].child IN
     CASE run[c].state = "COMPLETED" -> Advance(s, <<c, 0>>)
       [] run[c].state \in {"FAILED", "CANCELLED"} ->
            Returns(s, "permanent", Now) /\ UNCHANGED given
       [] OTHER -> Returns(s, "suspend", Later) /\ UNCHANGED given
  /\ UNCHANGED <<run, cp, passed, work, lapsed, unsaved, faults>>

-----------------------------------------------------------------------------
(* The run around its flow function.                                       *)

\* LeaseFlowRuns and the start of Execute.
Lease(s, i) ==
  /\ At(s, "idle") /\ run[i].state = "SCHEDULED" /\ run[i].at = Now
  /\ run' = [run EXCEPT ![i].state = "RUNNING", ![i].owner = s,
                        ![i].count = More(@)]
  /\ slot' = [slot EXCEPT ![s] = [Idle EXCEPT !.run = i, !.pc = "load", !.step = 1]]
  /\ UNCHANGED <<cp, passed, work, given, lapsed, unsaved, faults>>

\* finish: the state that follows from an outcome.
Verdict(s) ==
  CASE slot[s].outcome = "suspend" -> "SCHEDULED"
    [] slot[s].outcome = "ok" -> "COMPLETED"
    [] slot[s].outcome = "error" /\ run[slot[s].run].count <= Retries -> "SCHEDULED"
    [] OTHER -> "FAILED"

\* The time a run is scheduled for; a wake time may be over by now.
ResumesAt(s) ==
  LET i == slot[s].run  u == slot[s].until IN
  CASE slot[s].outcome = "error" -> Later
    [] u \in Key /\ <<i, u, cp[i][u].value>> \in passed -> Now
    [] OTHER -> u

\* finish and settle: the statement, with Force when the first try is refused.
Finish(s) ==
  /\ At(s, "finish")
  /\ LET i == slot[s].run  to == Verdict(s) IN
     /\ run' = [run EXCEPT ![i].state = to, ![i].owner = NoSlot,
                           ![i].at = IF to = "SCHEDULED" THEN ResumesAt(s) ELSE @]
     /\ slot' = [slot EXCEPT ![s] =
                   IF to \in Terminal /\ run[i].parent # 0
                     THEN [@ EXCEPT !.pc = "count"] ELSE Idle]
  /\ UNCHANGED <<cp, passed, work, given, lapsed, unsaved, faults>>

\* resumeParentIfReady: CountUnfinishedChildren ...
CountChildren(s) ==
  /\ At(s, "count")
  /\ slot' = [slot EXCEPT ![s] = IF Unfinished(run[slot[s].run].parent) = {}
                                   THEN [@ EXCEPT !.pc = "resume"] ELSE Idle]
  /\ UNCHANGED <<run, cp, passed, work, given, lapsed, unsaved, faults>>

\* ... then ResumeSuspendedRun, for a parent that is SCHEDULED by now.
ResumeParent(s) ==
  /\ At(s, "resume")
  /\ LET p == run[slot[s].run].parent IN
       run' = IF run[p].state = "SCHEDULED" THEN [run EXCEPT ![p].at = Now] ELSE run
  /\ slot' = [slot EXCEPT ![s] = Idle]
  /\ UNCHANGED <<cp, passed, work, given, lapsed, unsaved, faults>>

\* The scheduled time of a retry or a re-poll comes.
ComesDue(i) ==
  /\ run[i].at = Later
  /\ run' = [run EXCEPT ![i].at = Now]
  /\ UNCHANGED <<cp, slot, passed, work, given, lapsed, unsaved, faults>>

-----------------------------------------------------------------------------
(* Failures and the operator.                                              *)

Crash(s) ==
  /\ ~At(s, "idle") /\ May("crash") /\ Fault
  /\ slot' = [slot EXCEPT ![s] = Idle]
  /\ UNCHANGED <<run, cp, passed, work, given, lapsed, unsaved>>

Abandoned(i) == /\ run[i].state = "RUNNING"
                /\ \/ slot[run[i].owner].run # i
                   \/ slot[run[i].owner].pc \in {"count", "resume"}

\* The lease ends and reclaim decides the run: one attempt beyond Retries.
Reclaim(i) ==
  /\ \/ Abandoned(i) /\ UNCHANGED <<lapsed, faults>>
     \/ /\ run[i].state = "RUNNING" /\ ~Abandoned(i)
        /\ May("split") /\ Fault /\ lapsed' = lapsed \cup {i}
  /\ run' = [run EXCEPT ![i].owner = NoSlot, ![i].at = Later,
       ![i].state = IF run[i].count <= Retries + 1 THEN "SCHEDULED" ELSE "FAILED"]
  /\ UNCHANGED <<cp, slot, passed, work, given, unsaved>>

\* RequestCancel of a run that waits; nobody wakes its parent.
Cancel(i) ==
  /\ run[i].state = "SCHEDULED" /\ May("cancel") /\ Fault
  /\ run' = [run EXCEPT ![i].state = "CANCELLED"]
  /\ UNCHANGED <<cp, slot, passed, work, given, lapsed, unsaved>>

\* RescheduleRun of a run that waits or has failed.
Reschedule(i) ==
  /\ run[i].state \in {"SCHEDULED", "FAILED"} /\ May("retry") /\ Fault
  /\ run' = [run EXCEPT ![i].state = "SCHEDULED", ![i].at = Now]
  /\ UNCHANGED <<cp, slot, passed, work, given, lapsed, unsaved>>

-----------------------------------------------------------------------------
Init ==
  /\ \E d \in Tops : run = [i \in Run |-> IF i = 1
                              THEN [NoRow EXCEPT !.state = "SCHEDULED", !.dep = d]
                              ELSE NoRow]
  /\ cp = [i \in Run |-> [k \in Key |-> NoCheckpoint]]
  /\ slot = [s \in Slot |-> Idle]
  /\ passed = {} /\ given = {} /\ lapsed = {} /\ unsaved = {} /\ faults = 0
  /\ work = [i \in Run |-> [k \in Key |-> 0]]

FlowStep(s) ==
  \/ Load(s) \/ Open(s) \/ FnSucceeds(s) \/ SaveResult(s) \/ Wake(s)
  \/ StartChild(s) \/ Trigger(s) \/ Link(s) \/ Poll(s)
  \/ Finish(s) \/ CountChildren(s) \/ ResumeParent(s)

Next ==
  \/ \E s \in Slot : \/ FlowStep(s) \/ StatementFails(s) \/ Crash(s)
                     \/ \E kind \in {"error", "permanent", "suspend"} : FnFails(s, kind)
                     \/ \E i \in Run : Lease(s, i)
  \/ \E i \in Run : \/ ComesDue(i) \/ Reclaim(i) \/ Cancel(i) \/ Reschedule(i)
                    \/ \E key \in Key : SleepEnds(i, key)

(***************************************************************************)
(* Goroutines run, the clock moves, the janitor ticks; a due run is        *)
(* dispatched in the end because leasing goes by scheduled_at.             *)
(***************************************************************************)
Fairness ==
  /\ \A s \in Slot : WF_vars(FlowStep(s))
  /\ WF_vars(\E i \in Run : Abandoned(i) /\ Reclaim(i))
  /\ \A i \in Run : /\ WF_vars(ComesDue(i) \/ \E key \in Key : SleepEnds(i, key))
                    /\ SF_vars(\E s \in Slot : Lease(s, i))

Spec == Init /\ [][Next]_vars /\ Fairness

-----------------------------------------------------------------------------
(* Properties.                                                             *)

\* Rows, checkpoints and goroutines have the fields the code gives them, and a
\* run that executes has an owner.
TypeOK ==
  /\ run \in [Run -> RunRow] /\ cp \in [Run -> [Key -> Checkpoint]]
  /\ slot \in [Slot -> Goroutine]
  /\ passed \subseteq Run \X Key \X Value /\ given \subseteq Run \X Key \X Value
  /\ work \in [Run -> [Key -> 0..MaxWork]]
  /\ lapsed \subseteq Run /\ unsaved \subseteq Run \X Key /\ faults \in 0..MaxFaults
  /\ \A i \in Run : run[i].state = "RUNNING" <=> run[i].owner # NoSlot

\* "Expensive work is never repeated": once a task's result is stored it stays
\* as it is, and the task's function does not succeed again, whatever fails,
\* unless a worker goes on with a run whose lease it has lost.
RecordedIsFinal ==
  [][\A i \in Run \ lapsed, k \in Key :
       cp[i][k].status = "COMPLETED" => /\ cp'[i][k] = cp[i][k]
                                        /\ work'[i][k] = work[i][k]]_vars

\* Every attempt of a run sees the same result from the same call, so that the
\* code between the tasks takes the same way again; with the same exception, and
\* that of a cached result whose checkpoint Task failed to store.
ReplayIsStable ==
  \A p, q \in given :
    /\ p[1] = q[1] /\ p[2] = q[2]
    /\ p[1] \notin lapsed /\ <<p[1], p[2]>> \notin unsaved
    => p[3] = q[3]

\* A flow goes past a sleep only when the wake time of its first attempt at it
\* has come, however often a child or an operator wakes the run before.
SleepIsKept ==
  \A w \in given :
    (\E k \in DOMAIN Flow[run[w[1]].dep] : /\ Flow[run[w[1]].dep][k].op = "sleep"
                                           /\ KeyAt(run[w[1]].dep, k) = w[2])
    => w \in passed

\* "The trigger fires exactly once": a call of RunDeploymentAndWait has one
\* child, although the worker can die, or the answer of the insert be lost,
\* between the insert and the checkpoint that names the child.
OneChildPerCall ==
  \A c, d \in Run : (/\ Exists(c) /\ Exists(d) /\ run[c].key # NoKey
                     /\ run[c].key = run[d].key /\ run[c].parent = run[d].parent)
                    => c = d

\* A run that is COMPLETED has a COMPLETED child for each of its waits (a child
\* whose lease lapsed may be settled a second time by its first worker).
AwaitedIsCompleted ==
  \A i \in Run : run[i].state = "COMPLETED" =>
    \A k \in DOMAIN Flow[run[i].dep] : Flow[run[i].dep][k].op = "wait" =>
      \E c \in Run : /\ run[c].parent = i /\ run[c].key = KeyAt(run[i].dep, k)
                     /\ run[c].dep = Flow[run[i].dep][k].dep
                     /\ run[c].state = "COMPLETED" \/ c \in lapsed

\* No deployment is started again by way of another one, and no chain gets
\* deeper than the limit ("a bounded DAG", ARCHITECTURE.md:155-159).  A run that
\* starts its own deployment passes the guard once: AncestorDeploymentIDs leaves
\* out the run that triggers, although guardSubflow promises to refuse it.
CyclesAreRefused ==
  \A i \in Run : Exists(i) =>
    /\ \A a \in Ancestors[i] : run[a].dep = run[i].dep => a = run[i].parent
    /\ Cardinality(Ancestors[i]) <= MaxDepth

\* Every run ends: a parent that waits is woken by its last child or looks
\* itself, and a run whose worker died is taken up again.  Two copies of a run
\* whose lease lapsed can undo each other's checkpoints for ever.
RunsEnd ==
  <>[](lapsed # {} \/ \A i \in Run : Exists(i) => run[i].state \in Terminal)
=============================================================================
