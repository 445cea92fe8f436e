------------------------------ MODULE Dispatch ------------------------------
(***************************************************************************)
(* Work queues ("lanes") and the order of dispatch: Worker.dispatch and    *)
(* Store.LeaseFlowRuns, the operator's queue controls, and the settings of *)
(* a lane, which operators and starting workers write.                     *)
(*                                                                         *)
(* LeaseFlowRuns runs one statement per lane.  Each is two steps here:     *)
(* under READ COMMITTED the CTEs cap and cand are computed on a snapshot,  *)
(* and every row is checked again when its lock is taken, while the room   *)
(* and the order are not.  What happens to a claimed run beyond holding a  *)
(* slot is the subject of RunLifecycle.                                    *)
(***************************************************************************)
EXTENDS Integers, FiniteSets, Sequences, FiniteSetsExt, Functions

CONSTANTS
  Run, Lane, Worker,
  Lanes,        \* Lanes[w]: WorkerConfig.Queues, in the worker's order
  Concurrency,  \* Concurrency[w]: the execution slots of w
  Home,         \* Home[r]: the lane r is created in
  Weight,       \* Weight[r]: the priority r is created with
  Born,         \* Born[r]: created_at, no two alike
  Limit,        \* Limit[l]: the concurrency limit the operator configured
  NoLimit,      \* concurrency_limit IS NULL
  NoPin,        \* queue_position IS NULL
  Priorities,   \* the priorities an operator chooses from
  MaxOps,       \* bound on operator steps, failed statements and restarts
  MaxTime,      \* bound on now
  MaxLeases     \* MaxLeases[r]: bound on the run_count of r

PriorityMin == 0
PriorityMax == 100

ASSUME DispatchAssumption ==
  /\ IsFiniteSet(Run) /\ IsFiniteSet(Worker)
  /\ Lanes \in [Worker -> Seq(Lane)]
  /\ Concurrency \in [Worker -> Nat \ {0}]
  /\ Home \in [Run -> Lane]
  /\ Weight \in [Run -> Int]
  /\ Born \in [Run -> Nat] /\ \A r, q \in Run : Born[r] = Born[q] => r = q
  /\ Limit \in [Lane -> Nat \cup {NoLimit}] /\ NoLimit \notin Nat
  /\ NoPin \notin Int
  /\ Priorities \subseteq Int
  /\ MaxOps \in Nat /\ MaxTime \in Nat
  /\ MaxLeases \in [Run -> Nat]

VARIABLES
  run,     \* pf_flow_runs, the columns dispatch looks at
  lane,    \* pf_work_queues
  worker,  \* Worker.dispatch and the slots of each worker
  now,
  ops,     \* environment steps taken
  quiet,   \* history: the lanes paused since before any statement in flight
  stale    \* history: the workers whose statement in flight has not seen all the
           \* active runs of its lane

vars == <<run, lane, worker, now, ops, quiet, stale>>

\* PENDING stands for RUNNING too: cap counts both.  OUT is every state no
\* lane dispatches from, SCHEDULED with cancel_requested among them.  Nothing
\* bounds the priority a run is created with.
RunRow == [state: {"SCHEDULED", "PENDING", "CANCELLING", "OUT"}, lane: Lane,
           pin: Int \cup {NoPin}, prio: Int,
           at: Nat, runCount: Nat]

LaneRow == [paused: BOOLEAN, limit: Nat \cup {NoLimit}]

(***************************************************************************)
(* pc    idle   between two calls of dispatch                              *)
(*       scan   in LeaseFlowRuns, before the statement for Head(lanes)     *)
(*       take   the statement has its snapshot: plan, room                 *)
(* got   the runs of the lanes before Head(lanes)                          *)
(* held  the runs that have a goroutine                                    *)
(***************************************************************************)
WorkerState == [pc: {"idle", "scan", "take"}, lanes: Seq(Lane),
                left: Nat, plan: Seq(Run), room: Nat,
                got: SUBSET Run, held: SUBSET Run]

IdleWorker == [pc |-> "idle", lanes |-> <<>>, left |-> 0, plan |-> <<>>,
               room |-> 0, got |-> {}, held |-> {}]

Mine(w) == worker[w].held \cup worker[w].got

-----------------------------------------------------------------------------
(* The order of dispatch. *)

\* queue_position ASC NULLS LAST
PinBefore(p, q) == \/ p \in Int /\ q \notin Int
                   \/ p \in Int /\ q \in Int /\ p < q

\* Mutant: FIFO first, priority second.
FifoBefore(a, b) ==
  \/ PinBefore(run[a].pin, run[b].pin)
  \/ /\ run[a].pin = run[b].pin
     /\ \/ run[a].at < run[b].at
        \/ /\ run[a].at = run[b].at
           /\ \/ run[a].prio > run[b].prio
              \/ run[a].prio = run[b].prio /\ Born[a] < Born[b]

\* ORDER BY queue_position NULLS LAST, priority DESC, scheduled_at, created_at
Before(a, b) ==
  \/ PinBefore(run[a].pin, run[b].pin)
  \/ /\ run[a].pin = run[b].pin
     /\ \/ run[a].prio > run[b].prio
        \/ /\ run[a].prio = run[b].prio
           /\ \/ run[a].at < run[b].at
              \/ run[a].at = run[b].at /\ Born[a] < Born[b]

Waiting(l) == {r \in Run : run[r].state = "SCHEDULED" /\ run[r].lane = l}
Due(r) == run[r].at <= now

\* The runs of S by a total order: r comes after those that are less.
InOrder(S, Less(_, _)) ==
  [i \in 1..Cardinality(S) |->
     CHOOSE r \in S : Cardinality({q \in S : Less(q, r)}) = i - 1]

\* PendingInQueue: what the operator sees.
PendingInQueue(l) == InOrder(Waiting(l), Before)

\* Mutant: the lease has an ORDER BY of its own.
CandidatesFifo(l) ==
  IF lane[l].paused THEN <<>>
  ELSE InOrder({r \in Waiting(l) : Due(r)}, FifoBefore)

\* Mutant: a paused lane dispatches.
CandidatesPaused(l) == InOrder({r \in Waiting(l) : Due(r)}, Before)

\* cand, before its LIMIT.
Candidates(l) ==
  IF lane[l].paused THEN <<>>
  ELSE InOrder({r \in Waiting(l) : Due(r)}, Before)

\* cap.active; a CANCELLING run still holds its slot and is not counted.
Active(l) == {r \in Run : run[r].state = "PENDING" /\ run[r].lane = l}

\* Mutant: what is active already is not deducted.
RoomGross(l, left) ==
  IF lane[l].limit = NoLimit \/ lane[l].limit > left THEN left
  ELSE lane[l].limit

\* LIMIT GREATEST(LEAST($3, concurrency_limit - active), 0)
Room(l, left) ==
  LET open == lane[l].limit - Cardinality(Active(l)) IN
  CASE lane[l].limit = NoLimit                -> left
    [] lane[l].limit # NoLimit /\ open < 0    -> 0
    [] lane[l].limit # NoLimit /\ open \in 0..left -> open
    [] OTHER                                  -> left

-----------------------------------------------------------------------------
(* A worker. *)

\* A statement that may still take runs from l.
InFlight(w, l) == worker[w].pc = "take" /\ Head(worker[w].lanes) = l

\* History, part of every step.
Observe ==
  /\ quiet' = {l \in Lane :
                 /\ lane'[l].paused
                 /\ l \in quiet \/ \A w \in Worker : ~InFlight(w, l)'}
  /\ stale' = {w \in Worker :
                 /\ worker[w].pc = "take" /\ worker'[w].pc = "take"
                 /\ \/ w \in stale
                    \/ \E l \in Lane : InFlight(w, l) /\ ~(Active(l)' \subseteq Active(l))}

\* The statement for lane l gets its snapshot, with room for at most n runs.
Snapshot(w, l, n) ==
  [worker[w] EXCEPT !.pc = "take", !.plan = Candidates(l), !.room = Room(l, n),
                    !.left = n]

\* dispatch asks for as many runs as there are free slots.
Begin(w) ==
  LET free == Concurrency[w] - Cardinality(worker[w].held) IN
  /\ worker[w].pc = "idle" /\ free > 0 /\ Lanes[w] # <<>>
  /\ worker' = [worker EXCEPT ![w] =
        [Snapshot(w, Head(Lanes[w]), free) EXCEPT !.lanes = Lanes[w]]]
  /\ UNCHANGED <<run, lane, now, ops>>
  /\ Observe

\* LeaseFlowRuns goes on to the next lane.
Scan(w) ==
  /\ worker[w].pc = "scan"
  /\ worker' = [worker EXCEPT ![w] =
        Snapshot(w, Head(worker[w].lanes), worker[w].left)]
  /\ UNCHANGED <<run, lane, now, ops>>
  /\ Observe

\* The first n of the positions in I.
First(I, n) == {i \in I : Cardinality({j \in I : j <= i}) <= n}

\* The rows locked and updated: WHERE holds of them now as well.
Taken(w) ==
  LET plan  == worker[w].plan
      Still == {i \in DOMAIN plan : /\ plan[i] \in Waiting(Head(worker[w].lanes))
                                    /\ Due(plan[i])}
  IN {plan[i] : i \in First(Still, worker[w].room)}

\* Mutant: every lane is asked for all the free slots.
LeftGross(w) == worker[w].left

\* remaining
Left(w) == worker[w].left - Cardinality(Taken(w))

\* The statement updates what it has locked.  With slots left, the next lane;
\* else LeaseFlowRuns returns and dispatch starts a goroutine on every run.
Take(w) ==
  LET rest == Tail(worker[w].lanes)
      mine == Taken(w) \cup Mine(w)
  IN
  /\ worker[w].pc = "take"
  /\ run' = [r \in Run |-> IF r \in Taken(w)
               THEN [run[r] EXCEPT !.state = "PENDING", !.runCount = @ + 1]
               ELSE run[r]]
  /\ \/ /\ rest = <<>> \/ Left(w) <= 0
        /\ worker' = [worker EXCEPT ![w] = [IdleWorker EXCEPT !.held = mine]]
     \/ /\ rest # <<>> /\ Left(w) > 0
        /\ worker' = [worker EXCEPT ![w] =
             [IdleWorker EXCEPT !.pc = "scan", !.lanes = rest,
                                !.left = Left(w), !.held = worker[w].held,
                                !.got = mine \ worker[w].held]]
  /\ UNCHANGED <<lane, now, ops>>
  /\ Observe

\* A statement fails: LeaseFlowRuns returns the runs of the lanes before it
\* together with the error, and dispatch looks at the error alone.
LeaseFails(w) ==
  /\ ops < MaxOps /\ ops' = ops + 1
  /\ worker[w].pc \in {"scan", "take"}
  /\ worker' = [worker EXCEPT ![w] = [IdleWorker EXCEPT !.held = worker[w].held]]
  /\ UNCHANGED <<run, lane, now>>
  /\ Observe

\* What a settlement leaves: a verdict, or a retry or a suspension some time
\* from now, with the pin and the priority it had.
Settled(r) ==
  {[run[r] EXCEPT !.state = "OUT"]} \cup
  {[run[r] EXCEPT !.state = "SCHEDULED", !.at = t] :
     t \in {n \in now..MaxTime :
             run[r].state = "PENDING" /\ run[r].runCount < MaxLeases[r]}}

\* The goroutine of r settles it and gives up its slot.
Finish(w, r) ==
  /\ r \in worker[w].held
  /\ \E row \in Settled(r) : run' = [run EXCEPT ![r] = row]
  /\ worker' = [worker EXCEPT ![w].held = @ \ {r}]
  /\ UNCHANGED <<lane, now, ops>>
  /\ Observe

\* The janitor takes back a claim that nobody keeps alive.
Reclaim(r) ==
  /\ run[r].state \in {"PENDING", "CANCELLING"}
  /\ \A w \in Worker : r \notin Mine(w)
  /\ run' = [run EXCEPT ![r] =
       IF @.state = "PENDING" /\ @.runCount < MaxLeases[r]
         THEN [@ EXCEPT !.state = "SCHEDULED", !.at = now]
         ELSE [@ EXCEPT !.state = "OUT"]]
  /\ UNCHANGED <<lane, worker, now, ops>>
  /\ Observe

\* UpsertWorkQueue with a name and nothing else: ON CONFLICT overwrites the row
\* with the defaults of the fields that were left out.
Upserted == [paused |-> FALSE, limit |-> NoLimit]

\* The process dies and its successor starts: Run calls publishCatalogue,
\* which upserts every lane of the worker by name alone.
Restart(w) ==
  /\ ops < MaxOps /\ ops' = ops + 1
  /\ worker' = [worker EXCEPT ![w] = IdleWorker]
  /\ lane' = [l \in Lane |-> IF l \in Range(Lanes[w])
                               THEN Upserted ELSE lane[l]]
  /\ UNCHANGED <<run, now>>
  /\ Observe

-----------------------------------------------------------------------------
(* The operator.  None of the controls asks for the state of the run, *)
(* MoveRunToQueue included, which is meant for waiting ones.          *)

Operate == ops < MaxOps /\ ops' = ops + 1

Control(r, row) ==
  /\ Operate
  /\ run' = [run EXCEPT ![r] = row]
  /\ UNCHANGED <<lane, worker, now>>
  /\ Observe

Clamp(p) == CASE p < PriorityMin                -> PriorityMin
              [] p \in PriorityMin..PriorityMax -> p
              [] p > PriorityMax                -> PriorityMax

\* The API refuses a priority out of range; the store clamps it, for automations.
SetRunPriority(r, p) == Control(r, [run[r] EXCEPT !.prio = Clamp(p)])

\* Mutant: every pin is pin 0.
FrontPinZero(l) == 0

\* MIN(queue_position) - 1 over the runs of the lane in any state, or 0.
FrontPin(l) ==
  LET pins == {run[r].pin : r \in {x \in Run : run[x].lane = l}} \ {NoPin}
  IN IF pins = {} THEN 0 ELSE Min(pins) - 1

MoveRunToFront(r) == Control(r, [run[r] EXCEPT !.pin = FrontPin(run[r].lane)])

\* GREATEST(priority - 25, 0)
MoveRunToBack(r) ==
  Control(r, [run[r] EXCEPT !.pin = NoPin, !.at = now,
                            !.prio = Max({run[r].prio - 25, 0})])

ClearRunPin(r) == Control(r, [run[r] EXCEPT !.pin = NoPin])

MoveRunToQueue(r, l) == Control(r, [run[r] EXCEPT !.pin = NoPin, !.lane = l])

RequestCancel(r) ==
  Control(r, [run[r] EXCEPT !.state = CASE @ = "SCHEDULED" -> "OUT"
                                        [] @ = "PENDING"   -> "CANCELLING"
                                        [] OTHER           -> @])

SetQueuePaused(l, b) ==
  /\ Operate
  /\ lane' = [lane EXCEPT ![l].paused = b]
  /\ UNCHANGED <<run, worker, now>>
  /\ Observe

-----------------------------------------------------------------------------
Init ==
  /\ run = [r \in Run |-> [state |-> "SCHEDULED", lane |-> Home[r],
                           pin |-> NoPin, prio |-> Weight[r], at |-> 0,
                           runCount |-> 0]]
  /\ lane = [l \in Lane |-> [paused |-> FALSE, limit |-> Limit[l]]]
  /\ worker = [w \in Worker |-> IdleWorker]
  /\ now = 0 /\ ops = 0 /\ quiet = {} /\ stale = {}

Tick == /\ now < MaxTime /\ now' = now + 1
        /\ UNCHANGED <<run, lane, worker, ops>>
        /\ Observe

WorkerStep(w) == Begin(w) \/ Scan(w) \/ Take(w)

RunControl(r) ==
  \/ \E p \in Priorities : SetRunPriority(r, p)
  \/ MoveRunToFront(r) \/ MoveRunToBack(r) \/ ClearRunPin(r)
  \/ \E l \in Lane : MoveRunToQueue(r, l)
  \/ RequestCancel(r)

Next ==
  \/ \E w \in Worker :
       \/ WorkerStep(w) \/ LeaseFails(w) \/ Restart(w)
       \/ \E r \in Run : Finish(w, r)
  \/ \E r \in Run : RunControl(r) \/ Reclaim(r)
  \/ \E l \in Lane : \E b \in BOOLEAN : SetQueuePaused(l, b)
  \/ Tick

Spec == Init /\ [][Next]_vars

-----------------------------------------------------------------------------
(* Properties *)

TypeOK ==
  /\ run \in [Run -> RunRow]
  /\ lane \in [Lane -> LaneRow]
  /\ worker \in [Worker -> WorkerState]
  /\ now \in 0..MaxTime /\ ops \in 0..MaxOps
  /\ quiet \subseteq Lane /\ stale \subseteq Worker

\* dispatch never has more runs on its hands than it has slots, however many
\* lanes the calls of LeaseFlowRuns went through: its loop over the runs never
\* waits for a slot while leases it has not tracked run out.
SlotsSuffice ==
  \A w \in Worker : Cardinality(Mine(w)) <= Concurrency[w]

\* The concurrency limit of a lane: a statement that has seen all its active runs
\* leaves it within its limit, after whatever settlements, reclaims, moves and
\* failed calls.  It does not hold of a statement that another one has overtaken,
\* nor of a lane that a starting worker has upserted: the limit is no cap across
\* workers, although README.md:98-99 presents it as one.
LimitIsKept ==
  [][\A w \in Worker, l \in Lane :
       InFlight(w, l) /\ Take(w) /\ w \notin stale /\ Taken(w) # {}
         /\ lane[l].limit # NoLimit
         => Cardinality(Active(l)') <= lane[l].limit]_vars

\* A paused lane withholds new leases (SetQueuePaused): once the statements in
\* flight when it was paused are over, no worker claims a run of the lane.
PauseWithholds ==
  [][\A r \in Run : run[r].lane \in quiet
                       => ~(run[r].state = "SCHEDULED" /\ run'[r].state = "PENDING")]_vars

\* "Run this one next" (MoveRunToFront): the run becomes the first of its lane,
\* whatever pins and priorities there are.
FrontIsFirst ==
  [][\A r \in Run : MoveRunToFront(r) /\ run[r].state = "SCHEDULED"
                       => Head(PendingInQueue(run[r].lane)') = r]_vars

\* Two entries of plan stand in view too, in the same order.
Follows(plan, view) ==
  \A i, j \in DOMAIN plan :
    i < j => \E a, b \in DOMAIN view : a < b /\ view[a] = plan[i] /\ view[b] = plan[j]

\* What an operator sees is what will actually happen next (PendingInQueue): a
\* statement plans to take the due runs of the list, in the order of the list.
ViewIsDispatchOrder ==
  [][\A w \in Worker :
       LET l    == Head(worker'[w].lanes)
           view == PendingInQueue(l)
           plan == worker'[w].plan
       IN
       worker[w].pc # "take" /\ worker'[w].pc = "take" /\ ~lane[l].paused
         => /\ Range(plan) = {r \in Range(view) : Due(r)}
            /\ Follows(plan, view)]_vars

=============================================================================
