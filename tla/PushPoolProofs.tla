--------------------------- MODULE PushPoolProofs ---------------------------
(* What holds of PushPool for every number of runs, leaders and requests,  *)
(* and whatever the faults.                                                *)
EXTENDS PushPool, TLAPS

-----------------------------------------------------------------------------
(* Rows, dispatchers and handlers are well typed. *)

\* A dispatcher or a handler that is not idle works on a run of the table.
LEMMA BusyType ==
  ASSUME TypeOK
  PROVE  /\ \A d \in Leader : disp[d].pc # "idle" => disp[d].run \in Run
         /\ \A d \in Leader : disp[d].pc = "posting" =>
              disp[d] \in [pc : {"posting"}, run : Run, to : Request \cup {Nobody}]
         /\ \A p \in Request : req[p].pc # "idle" =>
              req[p] # Idle /\ req[p].run \in Run /\ row[req[p].run] \in Row
         /\ \A p \in Request : req[p] # Idle => req[p].pc # "idle"
BY DEF TypeOK, Dispatcher, Handler, Idle

\* What becomes of a row that is let go.
LEMMA ReleasedType ==
  ASSUME TypeOK, NEW r \in Run
  PROVE  /\ \A to \in State : Released(r, to) \in Row
         /\ Requeued(r) \in Row
<1>1. row[r] \in Row
  BY DEF TypeOK
<1>2. \A to \in State : Released(r, to) \in Row
  BY <1>1 DEF Released, Row
<1>3. Released(r, "SCHEDULED") \in Row
  BY <1>2 DEF State
<1>4. QED
  BY <1>2, <1>3 DEF Requeued, Row

LEMMA FaultType ==
  ASSUME TypeOK, NEW kind, Fault(kind) PROVE faults' \in 0..MaxFaults
BY PushAssumption DEF TypeOK, Fault

\* The answer to a request leaves its dispatcher idle, or to let go of its hold.
LEMMA AnswerType ==
  ASSUME TypeOK, NEW p \in Request, NEW accepted \in BOOLEAN, Answer(p, accepted)
  PROVE  disp' \in [Leader -> Dispatcher]
<1>1. ASSUME NEW d \in Leader, disp[d].pc = "posting"
      PROVE  [pc |-> "clearing", run |-> disp[d].run] \in Dispatcher
  BY <1>1, BusyType DEF Dispatcher
<1>2. Idle \in Dispatcher /\ disp \in [Leader -> Dispatcher]
  BY DEF TypeOK, Dispatcher
<1>3. QED
  BY <1>1, <1>2 DEF Answer

\* Where a step leaves the handler of a request that is at a run.
LEMMA EnterType ==
  ASSUME TypeOK, NEW p \in Request
  PROVE  /\ \A next \in Handler : Enter(p, next) => req' \in [Request -> Handler] /\ lapsed' \subseteq Run
         /\ Leave(p) => req' \in [Request -> Handler] /\ lapsed' \subseteq Run
<1>1. Idle \in Handler
  BY DEF Handler
<1>2. QED
  BY <1>1 DEF TypeOK, Enter, Leave

LEMMA GoesType ==
  ASSUME TypeOK, NEW p \in Request, req[p].pc # "idle"
  PROVE  /\ \A pc \in {"arrived", "claiming", "claimed", "held"} :
              Goes(p, pc) => req' \in [Request -> Handler] /\ lapsed' \subseteq Run
         /\ \A pc \in {"returned", "settling"}, goal \in State :
              Settles(p, pc, goal) => req' \in [Request -> Handler] /\ lapsed' \subseteq Run
<1>1. req[p].run \in Run
  BY BusyType
<1>2. \A pc \in {"arrived", "claiming", "claimed", "held"} :
        [pc |-> pc, run |-> req[p].run] \in Handler
  BY <1>1 DEF Handler
<1>3. \A pc \in {"returned", "settling"}, goal \in State :
        [pc |-> pc, run |-> req[p].run, goal |-> goal] \in Handler
  BY <1>1 DEF Handler
<1>4. QED
  BY <1>2, <1>3, EnterType DEF Goes, Settles

\* A handler that has its result has the state to settle for.
LEMMA GoalType ==
  ASSUME TypeOK, NEW p \in Request, req[p].pc \in {"returned", "settling"}
  PROVE  req[p].goal \in State
BY DEF TypeOK, Handler, Idle

LEMMA TypeInit == Init => TypeOK
<1> SUFFICES ASSUME Init PROVE TypeOK
  OBVIOUS
<1>1. row \in [Run -> Row]
  BY PushAssumption DEF Init, Row, State
<1>2. Idle \in Dispatcher /\ Idle \in Handler
  BY DEF Dispatcher, Handler
<1>3. disp \in [Leader -> Dispatcher] /\ req \in [Request -> Handler]
  BY <1>2 DEF Init
<1>4. faults \in 0..MaxFaults /\ lapsed \subseteq Run
  BY PushAssumption DEF Init
<1>5. QED
  BY <1>1, <1>3, <1>4 DEF TypeOK

LEMMA DispatchType ==
  ASSUME TypeOK, NEW d \in Leader, Dispatch(d)
  PROVE  TypeOK'
<1>1. ASSUME NEW r \in Run, List(d, r)
      PROVE  TypeOK'
  BY <1>1 DEF List, TypeOK, Dispatcher
<1>2. CASE Mark(d)
  <2>1. disp[d].pc = "listed" /\ disp[d].run \in Run
    BY <1>2, BusyType DEF Mark
  <2>2. row' \in [Run -> Row]
    BY <1>2, <2>1 DEF Mark, TypeOK, Row
  <2>3. disp' \in [Leader -> Dispatcher]
    BY <1>2, <2>1 DEF Mark, TypeOK, Dispatcher
  <2>4. QED
    BY <1>2, <2>2, <2>3 DEF Mark, TypeOK
<1>3. CASE Clear(d)
  <2>1. disp[d].run \in Run
    BY <1>3, BusyType DEF Clear
  <2>2. Released(disp[d].run, "SCHEDULED") \in Row
    BY <2>1, ReleasedType DEF State
  <2>3. row' \in [Run -> Row]
    BY <1>3, <2>1, <2>2 DEF Clear, TypeOK
  <2>4. QED
    BY <1>3, <2>3 DEF Clear, TypeOK, Dispatcher
<1>4. QED
  BY <1>1, <1>2, <1>3 DEF Dispatch

LEMMA ArriveType ==
  ASSUME TypeOK, NEW d \in Leader, NEW p \in Request, Arrive(d, p)
  PROVE  TypeOK'
<1>1. disp[d] \in [pc : {"posting"}, run : Run, to : Request \cup {Nobody}]
  BY BusyType DEF Arrive
<1>2. [disp[d] EXCEPT !.to = p] \in Dispatcher
  BY <1>1 DEF Dispatcher
<1>3. disp' \in [Leader -> Dispatcher]
  BY <1>2 DEF Arrive, TypeOK
<1>4. req' \in [Request -> Handler]
  <2>1. [pc |-> "arrived", run |-> disp[d].run] \in Handler
    BY <1>1 DEF Handler
  <2>2. QED
    BY <2>1 DEF Arrive, TypeOK
<1>5. QED
  BY <1>3, <1>4 DEF Arrive, TypeOK

LEMMA ReceiveType ==
  ASSUME TypeOK, NEW p \in Request, Receive(p)
  PROVE  TypeOK'
<1> DEFINE r == req[p].run
<1>1. ASSUME req[p].pc # "idle" PROVE r \in Run /\ row[r] \in Row
  BY <1>1, BusyType
<1>2. CASE Read(p)
  <2>1. req' \in [Request -> Handler] /\ lapsed' \subseteq Run
    BY <1>2, EnterType, GoesType DEF Read
  <2>2. QED
    BY <1>2, <2>1, AnswerType DEF Read, TypeOK
<1>3. CASE Claim(p)
  <2>1. row' \in [Run -> Row]
    <3>1. r \in Run /\ row[r] \in Row
      BY <1>1, <1>3 DEF Claim
    <3>2. CASE row[r].state = "SCHEDULED" /\ row[r].runCount < MaxLeases
      <4>1. row[r].runCount + 1 \in 0..MaxLeases
        BY <3>1, <3>2, PushAssumption DEF Row
      <4>2. [row[r] EXCEPT !.state = "PENDING", !.worker = p, !.runCount = @ + 1] \in Row
        BY <3>1, <4>1 DEF Row, State
      <4>3. QED
        BY <1>3, <3>1, <3>2, <4>2 DEF Claim, TypeOK
    <3>3. CASE ~(row[r].state = "SCHEDULED" /\ row[r].runCount < MaxLeases)
      BY <1>3, <3>3 DEF Claim, TypeOK
    <3>4. QED
      BY <3>2, <3>3
  <2>2. req' \in [Request -> Handler] /\ lapsed' \subseteq Run
    BY <1>3, EnterType, GoesType DEF Claim
  <2>3. QED
    BY <1>3, <2>1, <2>2, AnswerType DEF Claim, TypeOK
<1>4. CASE Renew(p)
  <2>1. row' \in [Run -> Row]
    <3>1. r \in Run /\ [row[r] EXCEPT !.lease = "live"] \in Row
      BY <1>1, <1>4 DEF Renew, Row
    <3>2. QED
      BY <1>4, <3>1 DEF Renew, TypeOK
  <2>2. faults' \in 0..MaxFaults
    BY <1>4, FaultType DEF Renew, TypeOK
  <2>3. req' \in [Request -> Handler] /\ lapsed' \subseteq Run
    BY <1>4, EnterType, GoesType DEF Renew
  <2>4. QED
    BY <1>4, <2>1, <2>2, <2>3, AnswerType DEF Renew, TypeOK
<1>5. CASE Start(p)
  <2>1. row' \in [Run -> Row]
    <3>1. [row[r] EXCEPT !.state = "RUNNING", !.worker = p] \in Row
      BY <1>1, <1>5 DEF Start, Row, State
    <3>2. QED
      BY <1>1, <1>5, <3>1 DEF Start, TypeOK
  <2>2. [pc |-> "running", run |-> r, attempt |-> row[r].runCount] \in Handler
    BY <1>1, <1>5 DEF Start, Handler, Row
  <2>3. req' \in [Request -> Handler] /\ lapsed' \subseteq Run
    BY <1>5, <2>2, EnterType DEF Start
  <2>4. QED
    BY <1>5, <2>1, <2>3 DEF Start, TypeOK
<1>6. CASE PutBack(p) \/ Return(p) \/ Poll(p)
  <2>1. /\ req[p].pc # "idle" /\ UNCHANGED <<row, disp>> /\ faults' \in 0..MaxFaults
    BY <1>6, FaultType DEF PutBack, Return, Poll, TypeOK
  <2>2. \E pc \in {"returned", "settling"}, goal \in State : Settles(p, pc, goal)
    <3>1. CASE PutBack(p)
      BY <3>1 DEF PutBack, State
    <3>2. CASE Return(p)
      BY <3>2 DEF Return, State
    <3>3. CASE Poll(p)
      BY <3>3, GoalType DEF Poll, State
    <3>4. QED
      BY <1>6, <3>1, <3>2, <3>3
  <2>3. req' \in [Request -> Handler] /\ lapsed' \subseteq Run
    BY <2>1, <2>2, GoesType
  <2>4. QED
    BY <2>1, <2>3 DEF TypeOK
<1>7. CASE Settle(p)
  <2>1. r \in Run /\ row[r] \in Row /\ Requeued(r) \in Row /\ Released(r, req[p].goal) \in Row
    BY <1>1, <1>7, ReleasedType, GoalType DEF Settle
  <2>2. row' \in [Run -> Row]
    BY <1>7, <2>1 DEF Settle, TypeOK
  <2>3. QED
    BY <1>7, <2>2, EnterType DEF Settle, TypeOK
<1>8. QED
  BY <1>2, <1>3, <1>4, <1>5, <1>6, <1>7 DEF Receive

\* The faults, time, the janitor and the operator.
LEMMA EnvironmentType ==
  ASSUME TypeOK,
         \/ \E d \in Leader : PostFails(d) \/ LeaderDies(d)
         \/ \E p \in Request : KeepAlive(p) \/ ReceiverDies(p)
         \/ Time
         \/ \E r \in Run : Cancel(r)
  PROVE  TypeOK'
<1>1. ASSUME NEW d \in Leader, PostFails(d) PROVE TypeOK'
  <2>1. disp[d].run \in Run
    BY <1>1, BusyType DEF PostFails
  <2>2. faults' \in 0..MaxFaults
    BY <1>1, FaultType DEF PostFails
  <2>3. disp' \in [Leader -> Dispatcher]
    BY <1>1, <2>1 DEF PostFails, TypeOK, Dispatcher
  <2>4. QED
    BY <1>1, <2>2, <2>3 DEF PostFails, TypeOK
<1>2. ASSUME NEW d \in Leader, LeaderDies(d) PROVE TypeOK'
  BY <1>2, FaultType DEF LeaderDies, TypeOK, Dispatcher
<1>3. ASSUME NEW p \in Request, ReceiverDies(p) PROVE TypeOK'
  BY <1>3, FaultType, EnterType, AnswerType DEF ReceiverDies, TypeOK
<1>8. ASSUME NEW p \in Request, KeepAlive(p) PROVE TypeOK'
  <2>1. req[p].run \in Run /\ [row[req[p].run] EXCEPT !.lease = "live"] \in Row
    BY <1>8, BusyType DEF KeepAlive, Row
  <2>2. QED
    BY <1>8, <2>1 DEF KeepAlive, TypeOK
<1>4. ASSUME NEW r \in Run, LeaseLapses(r) \/ ComesDue(r) PROVE TypeOK'
  <2>1. row[r] \in Row
    BY DEF TypeOK
  <2>2. [row[r] EXCEPT !.lease = "lapsed"] \in Row /\ [row[r] EXCEPT !.due = TRUE] \in Row
    BY <2>1 DEF Row
  <2>3. row' \in [Run -> Row]
    BY <1>4, <2>2 DEF LeaseLapses, ComesDue, TypeOK
  <2>4. faults' \in 0..MaxFaults /\ lapsed' \subseteq Run
    BY <1>4, FaultType DEF LeaseLapses, ComesDue, TypeOK
  <2>5. QED
    BY <1>4, <2>3, <2>4 DEF LeaseLapses, ComesDue, TypeOK
<1>5. ASSUME NEW r \in Run, Reclaim(r) PROVE TypeOK'
  <2>1. Requeued(r) \in Row /\ Released(r, "FAILED") \in Row
    BY ReleasedType DEF State
  <2>2. QED
    BY <1>5, <2>1 DEF Reclaim, TypeOK
<1>6. ASSUME NEW r \in Run, Cancel(r) PROVE TypeOK'
  <2>1. \A to \in State : [row[r] EXCEPT !.cancel = TRUE, !.state = to] \in Row
    BY DEF TypeOK, Row
  <2>2. row' \in [Run -> Row]
    <3>1. "CANCELLED" \in State /\ "CANCELLING" \in State
      BY DEF State
    <3>2. QED
      BY <1>6, <2>1, <3>1 DEF Cancel, TypeOK
  <2>3. QED
    BY <1>6, <2>2, FaultType DEF Cancel, TypeOK
<1>7. QED
  BY <1>1, <1>2, <1>3, <1>4, <1>5, <1>6, <1>8 DEF Time

LEMMA TypeNext == TypeOK /\ [Next]_vars => TypeOK'
<1> SUFFICES ASSUME TypeOK, [Next]_vars PROVE TypeOK'
  OBVIOUS
<1>1. CASE Leaders
  BY <1>1, DispatchType, ArriveType DEF Leaders
<1>2. ASSUME NEW p \in Request, Receive(p) PROVE TypeOK'
  BY <1>2, ReceiveType
<1>3. CASE UNCHANGED vars
  BY <1>3 DEF vars, TypeOK
<1>4. QED
  BY <1>1, <1>2, <1>3, EnvironmentType DEF Next

\* Every row, dispatcher and handler keeps its shape.
THEOREM TypeCorrect == Spec => []TypeOK
BY TypeInit, TypeNext, PTL DEF Spec

-----------------------------------------------------------------------------
(***************************************************************************)
(* One receiver.  As long as no lease of a run has lapsed under a request, *)
(* the janitor leaves its row alone; and a row that is claimed is no       *)
(* longer SCHEDULED, which every hold, release and claim asks for.         *)
(***************************************************************************)

HeldIsLive == \A r \in Run : Held(r) => row[r].lease # "lapsed"
BusyIsLive == \A r \in Run : Busy(r) /\ r \notin lapsed => row[r].lease # "lapsed"
ClaimantOwns == \A p \in Request : Claimant(p) /\ req[p].run \notin lapsed => Owns(p)
IInv == TypeOK /\ HeldIsLive /\ BusyIsLive /\ ClaimantOwns

LEMMA ClaimantRun ==
  ASSUME TypeOK, NEW p \in Request, Claimant(p)
  PROVE  /\ req[p].run \in Run /\ row[req[p].run] \in Row
         /\ req[p].pc # "idle" /\ req[p] # Idle /\ p # PushDispatch
BY BusyType, PushAssumption DEF Claimant

\* The row of a run that is claimed is out of reach of dispatchers and janitor.
LEMMA ClaimIsOut ==
  ASSUME IInv, NEW p \in Request, Claimant(p), req[p].run \notin lapsed
  PROVE  /\ row[req[p].run].worker = p
         /\ row[req[p].run].state \in Claimed /\ row[req[p].run].state # "SCHEDULED"
         /\ row[req[p].run].state \notin Terminal
         /\ Busy(req[p].run) /\ row[req[p].run].lease # "lapsed"
<1>1. Owns(p)
  BY DEF IInv, ClaimantOwns
<1>2. Busy(req[p].run)
  BY ClaimantRun DEF IInv, Busy
<1>3. QED
  BY <1>1, <1>2, ClaimantRun DEF IInv, BusyIsLive, Owns, Claimed, Terminal

\* A step that leaves the handlers alone, holds no run but under a live lease, and
\* keeps out of the rows that are claimed.
LEMMA OutsideStep ==
  ASSUME IInv, TypeOK', UNCHANGED <<req, lapsed>>,
         \A r \in Run : /\ Held(r)' => row'[r].lease # "lapsed"
                        /\ row'[r].lease = "lapsed" => row[r].lease = "lapsed"
                        /\ row[r].state \in Claimed =>
                             \/ row'[r].worker = row[r].worker /\ row'[r].state \in Claimed
                             \/ row[r].lease = "lapsed"
  PROVE  IInv'
<1>1. ASSUME NEW p \in Request, Claimant(p)', req'[p].run \notin lapsed' PROVE Owns(p)'
  <2>1. Claimant(p) /\ req'[p] = req[p] /\ req[p].run \notin lapsed
    BY <1>1 DEF Claimant
  <2>2. req[p].run \in Run
    BY <2>1, ClaimantRun DEF IInv
  <2>3. QED
    BY <2>1, <2>2, ClaimIsOut DEF Owns
<1>2. BusyIsLive'
  BY DEF IInv, BusyIsLive, Busy
<1>3. QED
  BY <1>1, <1>2 DEF IInv, HeldIsLive, ClaimantOwns

\* Dispatchers that go on without a hold, or keep theirs.
LEMMA DispatchOwns ==
  ASSUME IInv, NEW d \in Leader, Dispatch(d)
  PROVE  IInv'
<1> USE DEF Claimed
<1>0. TypeOK /\ TypeOK' /\ row \in [Run -> Row]
  BY DispatchType DEF IInv, TypeOK
<1>1. ASSUME NEW r \in Run, List(d, r)
      PROVE  IInv'
  <2>1. \A q \in Run : Held(q)' => Held(q)
    BY <1>1, <1>0 DEF List, Held, TypeOK, Idle
  <2>2. QED
    BY <1>0, <1>1, <2>1, OutsideStep DEF List, IInv, HeldIsLive
<1>2. CASE Mark(d)
  <2>1. disp[d].run \in Run
    BY <1>0, <1>2, BusyType DEF Mark
  <2>2. ASSUME NEW r \in Run
        PROVE  /\ Held(r)' => row'[r].lease # "lapsed"
               /\ row'[r].lease = "lapsed" => row[r].lease = "lapsed"
               /\ row[r].state \in Claimed => row'[r] = row[r]
    <3>1. CASE r = disp[d].run /\ row[r].state = "SCHEDULED" /\ Free(r)
      <4>1. row'[r] = [row[r] EXCEPT !.worker = PushDispatch, !.lease = "live"]
        BY <1>0, <1>2, <2>1, <3>1 DEF Mark
      <4>2. row'[r].lease = "live"
        BY <1>0, <4>1 DEF Row
      <4>3. QED
        BY <3>1, <4>2
    <3>2. CASE ~(r = disp[d].run /\ row[r].state = "SCHEDULED" /\ Free(r))
      <4>1. row'[r] = row[r] /\ (Held(r)' => Held(r))
        BY <1>0, <1>2, <2>1, <3>2 DEF Mark, TypeOK, Held, Idle
      <4>2. QED
        BY <4>1 DEF IInv, HeldIsLive
    <3>3. QED
      BY <3>1, <3>2
  <2>3. QED
    BY <1>0, <1>2, <2>2, OutsideStep DEF Mark
<1>3. CASE Clear(d)
  <2>1. disp[d].run \in Run
    BY <1>0, <1>3, BusyType DEF Clear
  <2>2. ASSUME NEW r \in Run
        PROVE  /\ Held(r)' => row'[r].lease # "lapsed"
               /\ row'[r].lease = "lapsed" => row[r].lease = "lapsed"
               /\ row[r].state \in Claimed => row'[r] = row[r]
    <3>1. Held(r)' => Held(r)
      BY <1>0, <1>3 DEF Clear, TypeOK, Held, Idle
    <3>2. row'[r] = row[r] \/ (row'[r].lease = "none" /\ row[r].state = "SCHEDULED")
      <4>1. row[r] \in Row /\ Released(r, "SCHEDULED").lease = "none"
        BY <1>0 DEF TypeOK, Released, Row
      <4>2. CASE r = disp[d].run
        <5>1. row'[r] = IF row[r].state = "SCHEDULED" /\ row[r].worker = PushDispatch
                          THEN Released(r, "SCHEDULED") ELSE row[r]
          BY <1>0, <1>3, <4>2 DEF Clear, TypeOK
        <5>2. QED
          BY <4>1, <5>1
      <4>3. CASE r # disp[d].run
        BY <1>0, <1>3, <4>3 DEF Clear, TypeOK
      <4>4. QED
        BY <4>2, <4>3
    <3>3. QED
      BY <3>1, <3>2 DEF IInv, HeldIsLive
  <2>3. QED
    BY <1>0, <1>3, <2>2, OutsideStep DEF Clear
<1>4. QED
  BY <1>1, <1>2, <1>3 DEF Dispatch

\* A request that arrives is at a run that its dispatcher holds.
LEMMA ArriveOwns ==
  ASSUME IInv, NEW d \in Leader, NEW p \in Request, Arrive(d, p)
  PROVE  IInv'
<1>0. TypeOK /\ TypeOK' /\ row' = row /\ lapsed' = lapsed
  BY ArriveType DEF IInv, Arrive
<1>1. disp[d].run \in Run /\ Held(disp[d].run)
  BY <1>0, BusyType DEF Arrive, Held
<1>2. ASSUME NEW r \in Run, Held(r)' PROVE Held(r)
  BY <1>0, <1>1, <1>2 DEF Arrive, TypeOK, Held
<1>3. ASSUME NEW r \in Run, Busy(r)' PROVE Busy(r) \/ Held(r)
  BY <1>0, <1>1, <1>3 DEF Arrive, TypeOK, Busy
<1>4. ASSUME NEW q \in Request, Claimant(q)' PROVE Claimant(q) /\ req'[q] = req[q]
  BY <1>0, <1>4 DEF Arrive, TypeOK, Claimant
<1>5. HeldIsLive' /\ BusyIsLive'
  BY <1>0, <1>2, <1>3 DEF IInv, HeldIsLive, BusyIsLive
<1>6. ClaimantOwns'
  BY <1>0, <1>4 DEF IInv, ClaimantOwns, Owns
<1>7. QED
  BY <1>0, <1>5, <1>6 DEF IInv

\* A step of one handler: it stays at its run or leaves, and the dispatchers hold
\* no other.
HandlerStep(p) ==
  /\ req[p].pc # "idle"
  /\ \/ Leave(p)
     \/ \E next \in Handler : Enter(p, next) /\ next # Idle /\ next.run = req[p].run
  /\ \A d \in Leader :
       \/ disp'[d] = disp[d]
       \/ disp'[d] = Idle
       \/ /\ disp[d].pc = "posting"
          /\ disp'[d] = [pc |-> "clearing", run |-> disp[d].run]

\* What Goes and Settles make of a handler.
LEMMA StaysAtRun ==
  ASSUME TypeOK, NEW p \in Request, req[p].pc # "idle"
  PROVE  /\ \A pc \in {"arrived", "claiming", "claimed", "held"} : Goes(p, pc) =>
              \E next \in Handler : Enter(p, next) /\ next # Idle /\ next.run = req[p].run
         /\ \A pc \in {"returned", "settling"}, goal \in State : Settles(p, pc, goal) =>
              \E next \in Handler : Enter(p, next) /\ next # Idle /\ next.run = req[p].run
<1>1. req[p].run \in Run
  BY BusyType
<1>2. \A pc \in {"arrived", "claiming", "claimed", "held"} :
        [pc |-> pc, run |-> req[p].run] \in Handler \ {Idle}
  BY <1>1 DEF Handler, Idle
<1>3. \A pc \in {"returned", "settling"}, goal \in State :
        [pc |-> pc, run |-> req[p].run, goal |-> goal] \in Handler \ {Idle}
  BY <1>1 DEF Handler, Idle
<1>4. QED
  BY <1>2, <1>3 DEF Goes, Settles

LEMMA HandlerSteps ==
  ASSUME TypeOK, NEW p \in Request, Receive(p) \/ ReceiverDies(p)
  PROVE  HandlerStep(p)
<1>1. req[p].pc # "idle"
  BY BusyType DEF Receive, Read, Claim, Renew, Start, PutBack, Return, Poll, Settle, ReceiverDies
<1>2. disp' = disp \/ \E accepted \in BOOLEAN : Answer(p, accepted)
  BY DEF Receive, Read, Claim, Renew, Start, PutBack, Return, Poll, Settle, ReceiverDies
<1>3. \/ Leave(p)
      \/ \E next \in Handler : Enter(p, next) /\ next # Idle /\ next.run = req[p].run
  <2>1. CASE Read(p) \/ Claim(p) \/ Renew(p)
    BY <1>1, <2>1, StaysAtRun DEF Read, Claim, Renew
  <2>2. CASE Start(p)
    <3>1. req[p].run \in Run /\ row[req[p].run].runCount \in 0..MaxLeases
      BY <1>1, BusyType DEF Row
    <3>2. [pc |-> "running", run |-> req[p].run, attempt |-> row[req[p].run].runCount]
            \in Handler \ {Idle}
      BY <3>1 DEF Handler, Idle
    <3>3. QED
      BY <2>2, <3>2 DEF Start
  <2>3. CASE PutBack(p) \/ Return(p)
    BY <1>1, <2>3, StaysAtRun DEF PutBack, Return, State
  <2>4. CASE Poll(p)
    BY <1>1, <2>4, StaysAtRun, GoalType DEF Poll, State
  <2>5. CASE Settle(p) \/ ReceiverDies(p)
    BY <2>5 DEF Settle, ReceiverDies
  <2>6. QED
    BY <2>1, <2>2, <2>3, <2>4, <2>5 DEF Receive
<1>4. QED
  <2>1. ASSUME NEW d \in Leader
        PROVE  \/ disp'[d] = disp[d]
               \/ disp'[d] = Idle
               \/ /\ disp[d].pc = "posting"
                  /\ disp'[d] = [pc |-> "clearing", run |-> disp[d].run]
    BY <1>2 DEF Answer
  <2>2. QED
    BY <1>1, <1>3, <2>1 DEF HandlerStep

LEMMA HandlerHolds ==
  ASSUME TypeOK, NEW p \in Request, HandlerStep(p), NEW r \in Run
  PROVE  /\ Held(r)' => Held(r)
         /\ Busy(r)' /\ r \notin lapsed' => Busy(r) /\ r \notin lapsed
<1>1. ASSUME Held(r)' PROVE Held(r)
  <2>1. PICK d \in Leader : disp'[d].pc \in {"posting", "clearing"} /\ disp'[d].run = r
    BY <1>1 DEF Held
  <2>2. disp'[d] # Idle
    BY <2>1 DEF Idle
  <2>3. \/ disp'[d] = disp[d]
        \/ /\ disp[d].pc = "posting"
           /\ disp'[d] = [pc |-> "clearing", run |-> disp[d].run]
    BY <2>2 DEF HandlerStep
  <2>4. QED
    BY <2>1, <2>3 DEF Held
<1>2. ASSUME Busy(r)', r \notin lapsed' PROVE Busy(r) /\ r \notin lapsed
  <2>1. PICK q \in Request : req'[q] # Idle /\ req'[q].run = r
    BY <1>2 DEF Busy
  <2>2. CASE Leave(p)
    <3>1. q # p /\ req'[q] = req[q]
      BY <2>1, <2>2 DEF Leave, TypeOK
    <3>2. QED
      BY <1>2, <2>1, <2>2, <3>1 DEF Leave, Busy
  <2>3. CASE \E next \in Handler : Enter(p, next) /\ next # Idle /\ next.run = req[p].run
    <3>1. lapsed' = lapsed /\ req[q] # Idle /\ req[q].run = r
      <4>1. CASE q = p
        BY <2>1, <2>3, <4>1, BusyType DEF Enter, TypeOK, HandlerStep
      <4>2. CASE q # p
        BY <2>1, <2>3, <4>2 DEF Enter, TypeOK
      <4>3. QED
        BY <4>1, <4>2
    <3>2. QED
      BY <1>2, <3>1 DEF Busy
  <2>4. QED
    BY <2>2, <2>3 DEF HandlerStep
<1>3. QED
  BY <1>1, <1>2

\* Another request is where it was.
LEMMA OthersStay ==
  ASSUME TypeOK, NEW p \in Request, HandlerStep(p), NEW q \in Request, q # p
  PROVE  req'[q] = req[q]
BY DEF HandlerStep, Enter, Leave, TypeOK

\* A handler that leaves the rows of the others alone, and its own claimed if it stays.
LEMMA InsideStep ==
  ASSUME IInv, TypeOK', NEW p \in Request, HandlerStep(p),
         \A r \in Run \ {req[p].run} : row'[r] = row[r],
         row'[req[p].run].lease # "lapsed" \/ row'[req[p].run].lease = row[req[p].run].lease,
         (Claimant(p) /\ req[p].run \notin lapsed)' =>
           row'[req[p].run].worker = p /\ row'[req[p].run].state \in Claimed,
         Claimant(p) \/ row[req[p].run].state = "SCHEDULED" \/ row' = row
  PROVE  IInv'
<1>1. TypeOK /\ req[p].run \in Run
  BY BusyType DEF IInv, HandlerStep
<1>2. ASSUME NEW r \in Run PROVE row'[r].lease # "lapsed" \/ row'[r].lease = row[r].lease
  BY <1>1
<1>3. HeldIsLive' /\ BusyIsLive'
  BY <1>1, <1>2, HandlerHolds DEF IInv, HeldIsLive, BusyIsLive
<1>4. ASSUME NEW q \in Request, Claimant(q)', req'[q].run \notin lapsed' PROVE Owns(q)'
  <2>1. CASE q = p
    <3>1. req'[p] # Idle
      BY <1>4, <2>1 DEF Claimant, Idle
    <3>2. req'[p].run = req[p].run
      BY <1>1, <3>1 DEF HandlerStep, Enter, Leave, TypeOK
    <3>3. QED
      BY <1>4, <2>1, <3>2 DEF Owns
  <2>2. CASE q # p
    <3>1. Claimant(q) /\ req'[q] = req[q]
      BY <1>1, <1>4, <2>2, OthersStay DEF Claimant
    <3>2. req[q].run \in Run /\ req'[q] # Idle
      BY <1>1, <3>1, ClaimantRun
    <3>3. req[q].run \notin lapsed
      BY <1>1, <1>4, <3>1, <3>2, HandlerHolds DEF Busy
    <3>4. /\ row[req[q].run].worker = q /\ row[req[q].run].state \in Claimed
          /\ row[req[q].run].state # "SCHEDULED"
      BY <3>1, <3>3, ClaimIsOut
    <3>5. req[q].run # req[p].run \/ row' = row
      BY <2>2, <3>3, <3>4, ClaimIsOut
    <3>6. QED
      BY <3>1, <3>2, <3>4, <3>5 DEF Owns
  <2>3. QED
    BY <2>1, <2>2
<1>5. QED
  BY <1>3, <1>4 DEF IInv, ClaimantOwns

\* Who leaves, or has only read the row, has no claim.
LEMMA NoClaim ==
  ASSUME TypeOK, NEW p \in Request, Leave(p) \/ Goes(p, "claiming")
  PROVE  ~Claimant(p)'
BY DEF Leave, Goes, Enter, Claimant, TypeOK, Idle

\* A step of a claimant that stays, and at most renews its lease or sets RUNNING
\* under its own name.
LEMMA ClaimStays ==
  ASSUME IInv, TypeOK', NEW p \in Request, HandlerStep(p), Claimant(p),
         \/ row' = row
         \/ row' = [row EXCEPT ![req[p].run].lease = "live"]
         \/ row' = [row EXCEPT ![req[p].run].state = "RUNNING", ![req[p].run].worker = p]
  PROVE  IInv'
<1> DEFINE r == req[p].run
<1>0. TypeOK /\ r \in Run /\ row[r] \in Row /\ row \in [Run -> Row] /\ req[p] # Idle
  BY ClaimantRun DEF IInv, TypeOK
<1>1. /\ \A q \in Run \ {r} : row'[q] = row[q]
      /\ row'[r].lease # "lapsed" \/ row'[r].lease = row[r].lease
      /\ \/ row'[r].worker = row[r].worker /\ row'[r].state = row[r].state
         \/ row'[r].worker = p /\ row'[r].state = "RUNNING"
  BY <1>0 DEF Row
<1>2. ASSUME (Claimant(p) /\ req[p].run \notin lapsed)'
      PROVE  row'[r].worker = p /\ row'[r].state \in Claimed
  <2>1. req'[p] # Idle
    BY <1>2 DEF Claimant, Idle
  <2>2. req'[p].run = r /\ lapsed' = lapsed
    BY <1>0, <2>1 DEF HandlerStep, Enter, Leave, TypeOK
  <2>3. row[r].worker = p /\ row[r].state \in Claimed
    BY <1>2, <2>2, ClaimIsOut
  <2>4. QED
    BY <1>1, <2>3 DEF Claimed
<1>3. QED
  BY <1>0, <1>1, <1>2, InsideStep

LEMMA ReceiveOwns ==
  ASSUME IInv, NEW p \in Request, Receive(p)
  PROVE  IInv'
<1> DEFINE r == req[p].run
<1>0. /\ TypeOK /\ TypeOK' /\ HandlerStep(p)
      /\ r \in Run /\ row[r] \in Row /\ row \in [Run -> Row]
  BY ReceiveType, HandlerSteps, BusyType DEF IInv, HandlerStep, TypeOK
<1>1. CASE Read(p)
  BY <1>0, <1>1, NoClaim, InsideStep DEF Read
<1>2. CASE Claim(p)
  <2>1. CASE Leave(p) /\ row' = row
    BY <1>0, <2>1, NoClaim, InsideStep
  <2>2. CASE /\ row[r].state = "SCHEDULED"
             /\ row' = [row EXCEPT ![r].state = "PENDING", ![r].worker = p, ![r].runCount = @ + 1]
    <3>1. /\ row'[r].state = "PENDING" /\ row'[r].worker = p /\ row'[r].lease = row[r].lease
          /\ \A q \in Run \ {r} : row'[q] = row[q]
      BY <1>0, <2>2 DEF Row
    <3>2. QED
      BY <1>0, <2>2, <3>1, InsideStep DEF Claimed
  <2>3. QED
    BY <1>2, <2>1, <2>2 DEF Claim
<1>3. CASE Renew(p) \/ Start(p)
  BY <1>0, <1>3, ClaimStays DEF Renew, Start, Claimant
<1>4. CASE PutBack(p) \/ Return(p) \/ Poll(p)
  BY <1>0, <1>4, ClaimStays DEF PutBack, Return, Poll, Claimant
<1>5. CASE Settle(p)
  <2>1. Claimant(p) /\ ~Claimant(p)'
    BY <1>0, <1>5, NoClaim DEF Settle, Claimant
  <2>2. Requeued(r).lease = "none" /\ \A to \in State : Released(r, to).lease = "none"
    BY <1>0 DEF Requeued, Released, Row
  <2>3. \/ row'[r] = row[r]
        \/ row'[r] = Requeued(r)
        \/ row'[r] = Released(r, req[p].goal)
    BY <1>0, <1>5 DEF Settle
  <2>4. /\ row'[r].lease # "lapsed" \/ row'[r].lease = row[r].lease
        /\ \A q \in Run \ {r} : row'[q] = row[q]
    BY <1>0, <1>5, <2>2, <2>3, GoalType DEF Settle
  <2>5. QED
    BY <1>0, <2>1, <2>4, InsideStep
<1>6. QED
  BY <1>1, <1>2, <1>3, <1>4, <1>5 DEF Receive

\* A lease that lapses: of a run that nobody is at, or the run is noted.
LEMMA LapseOwns ==
  ASSUME IInv, NEW r \in Run, LeaseLapses(r)
  PROVE  IInv'
<1>0. TypeOK /\ TypeOK' /\ row[r] \in Row /\ row \in [Run -> Row]
  BY EnvironmentType DEF IInv, TypeOK, Time
<1>1. /\ UNCHANGED <<disp, req>> /\ ~Held(r)
      /\ row' = [row EXCEPT ![r].lease = "lapsed"]
      /\ lapsed \subseteq lapsed' /\ (Busy(r) => r \in lapsed')
  BY DEF LeaseLapses
<1>2. /\ \A q \in Run \ {r} : row'[q] = row[q]
      /\ row'[r].worker = row[r].worker /\ row'[r].state = row[r].state
  BY <1>0, <1>1 DEF Row
<1>3. /\ \A q \in Run : (Held(q)' <=> Held(q)) /\ (Busy(q)' <=> Busy(q))
      /\ \A p \in Request : Claimant(p)' <=> Claimant(p)
  BY <1>1 DEF Held, Busy, Claimant
<1>4. HeldIsLive' /\ BusyIsLive'
  BY <1>1, <1>2, <1>3 DEF IInv, HeldIsLive, BusyIsLive
<1>5. ClaimantOwns'
  <2>1. ASSUME NEW p \in Request, Claimant(p), req[p].run \notin lapsed' PROVE Owns(p)'
    <3>1. Owns(p) /\ req[p].run \in Run
      BY <1>0, <1>1, <2>1, ClaimantRun DEF IInv, ClaimantOwns
    <3>2. QED
      BY <1>1, <1>2, <3>1 DEF Owns
  <2>2. QED
    BY <1>1, <1>3, <2>1 DEF ClaimantOwns
<1>6. QED
  BY <1>0, <1>4, <1>5 DEF IInv

LEMMA EnvironmentOwns ==
  ASSUME IInv,
         \/ \E d \in Leader : PostFails(d) \/ LeaderDies(d)
         \/ \E p \in Request : KeepAlive(p) \/ ReceiverDies(p)
         \/ Time
         \/ \E r \in Run : Cancel(r)
  PROVE  IInv'
<1> USE DEF Claimed
<1>0. TypeOK /\ TypeOK' /\ row \in [Run -> Row]
  BY EnvironmentType DEF IInv, TypeOK
<1>1. ASSUME NEW d \in Leader, PostFails(d) \/ LeaderDies(d) PROVE IInv'
  <2>1. ASSUME NEW r \in Run, Held(r)' PROVE Held(r)
    BY <1>0, <1>1, <2>1 DEF PostFails, LeaderDies, TypeOK, Held, Idle
  <2>2. UNCHANGED <<row, req, lapsed>>
    BY <1>1 DEF PostFails, LeaderDies
  <2>3. QED
    BY <1>0, <2>1, <2>2, OutsideStep DEF IInv, HeldIsLive
<1>2. ASSUME NEW p \in Request, ReceiverDies(p) PROVE IInv'
  <2>1. row' = row /\ HandlerStep(p) /\ ~Claimant(p)'
    BY <1>0, <1>2, HandlerSteps, NoClaim DEF ReceiverDies
  <2>2. QED
    BY <1>0, <2>1, InsideStep
<1>3. ASSUME NEW p \in Request, KeepAlive(p) PROVE IInv'
  <2>1. /\ UNCHANGED <<disp, req, lapsed>> /\ req[p].run \in Run
        /\ row' = [row EXCEPT ![req[p].run].lease = "live"]
    BY <1>0, <1>3, BusyType DEF KeepAlive
  <2>2. /\ \A q \in Run \ {req[p].run} : row'[q] = row[q]
        /\ row'[req[p].run].worker = row[req[p].run].worker
        /\ row'[req[p].run].state = row[req[p].run].state
        /\ row'[req[p].run].lease = "live"
    BY <1>0, <2>1 DEF Row
  <2>3. \A q \in Run : Held(q)' <=> Held(q)
    BY <2>1 DEF Held
  <2>4. QED
    BY <1>0, <2>1, <2>2, <2>3, OutsideStep DEF IInv, HeldIsLive
<1>4. ASSUME NEW r \in Run, Reclaim(r) \/ ComesDue(r) \/ Cancel(r)
      PROVE  IInv'
  <2>1. UNCHANGED <<disp, req, lapsed>> /\ \A q \in Run \ {r} : row'[q] = row[q]
    BY <1>0, <1>4 DEF Reclaim, ComesDue, Cancel
  <2>2. \A q \in Run : Held(q)' <=> Held(q)
    BY <2>1 DEF Held
  <2>3. row'[r].lease = row[r].lease \/ row'[r].lease = "none"
    <3>1. Requeued(r).lease = "none" /\ Released(r, "FAILED").lease = "none"
      BY <1>0 DEF Requeued, Released, Row
    <3>2. CASE Reclaim(r)
      BY <1>0, <3>1, <3>2 DEF Reclaim
    <3>3. CASE ComesDue(r) \/ Cancel(r)
      BY <1>0, <3>3 DEF ComesDue, Cancel, Row
    <3>4. QED
      BY <1>4, <3>2, <3>3
  <2>4. row[r].state \in Claimed =>
          \/ row'[r].worker = row[r].worker /\ row'[r].state \in Claimed
          \/ row[r].lease = "lapsed"
    <3>1. CASE Reclaim(r)
      BY <3>1 DEF Reclaim, Abandoned
    <3>2. CASE ComesDue(r) \/ Cancel(r)
      BY <1>0, <3>2 DEF ComesDue, Cancel, Row
    <3>3. QED
      BY <1>4, <3>1, <3>2
  <2>5. QED
    BY <1>0, <2>1, <2>2, <2>3, <2>4, OutsideStep DEF IInv, HeldIsLive
<1>5. QED
  BY <1>1, <1>2, <1>3, <1>4, LapseOwns DEF Time

LEMMA OwnerInit == Init => IInv
<1> SUFFICES ASSUME Init PROVE IInv
  OBVIOUS
<1>1. \A r \in Run : row[r].lease = "none"
  BY DEF Init
<1>2. \A p \in Request : ~Claimant(p)
  BY DEF Init, Claimant, Idle
<1>3. QED
  BY <1>1, <1>2, TypeInit DEF IInv, HeldIsLive, BusyIsLive, ClaimantOwns

LEMMA OwnerNext == IInv /\ [Next]_vars => IInv'
<1> SUFFICES ASSUME IInv, [Next]_vars PROVE IInv'
  OBVIOUS
<1>1. CASE Leaders
  BY <1>1, DispatchOwns, ArriveOwns DEF Leaders
<1>2. ASSUME NEW p \in Request, Receive(p) PROVE IInv'
  BY <1>2, ReceiveOwns
<1>3. CASE UNCHANGED vars
  BY <1>3 DEF vars, IInv, TypeOK, HeldIsLive, BusyIsLive, Held, Busy, ClaimantOwns, Claimant, Owns
<1>4. QED
  BY <1>1, <1>2, <1>3, EnvironmentOwns DEF Next

LEMMA OwnerImplies == IInv => OneReceiver /\ ReceiverOwnsRun
BY DEF IInv, ClaimantOwns, OneReceiver, ReceiverOwnsRun, Claimant, Owns

\* However many leaders post a run, and however late: two receivers have claimed it
\* only if a lease of it has lapsed under a receiver.
THEOREM OneReceiverAlways == Spec => []OneReceiver
BY OwnerInit, OwnerNext, OwnerImplies, PTL DEF Spec

\* A receiver that executes a run is its owner, whatever release, refusal or reclaim
\* comes late, unless a lease of the run has lapsed under a receiver.
THEOREM ReceiverOwnsRunAlways == Spec => []ReceiverOwnsRun
BY OwnerInit, OwnerNext, OwnerImplies, PTL DEF Spec

-----------------------------------------------------------------------------
(***************************************************************************)
(* Verdicts.  Only Start and Settle write a row without asking who has it  *)
(* or what state it is in, and they are steps of its owner.                *)
(***************************************************************************)

LEMMA VerdictStays ==
  ASSUME IInv, Next, NEW r \in Run, row[r].state \in Terminal, r \notin lapsed
  PROVE  row'[r].state = row[r].state
<1>0. TypeOK /\ row \in [Run -> Row] /\ row[r] \in Row
      /\ row[r].state # "SCHEDULED" /\ row[r].state \notin Claimed
  BY DEF IInv, TypeOK, Terminal, Claimed
<1>1. ASSUME NEW p \in Request, Receive(p) PROVE row'[r].state = row[r].state
  <2>1. req[p].run \in Run
    BY <1>0, <1>1, HandlerSteps, BusyType DEF HandlerStep
  <2>2. ASSUME Claimant(p) PROVE req[p].run # r
    BY <2>2, ClaimIsOut
  <2>3. CASE Read(p) \/ PutBack(p) \/ Return(p) \/ Poll(p)
    BY <2>3 DEF Read, PutBack, Return, Poll
  <2>4. CASE Claim(p)
    BY <1>0, <2>1, <2>4 DEF Claim
  <2>5. CASE Renew(p) \/ Start(p) \/ Settle(p)
    BY <1>0, <2>1, <2>2, <2>5 DEF Renew, Start, Settle, Claimant
  <2>6. QED
    BY <1>1, <2>3, <2>4, <2>5 DEF Receive
<1>2. ASSUME NEW d \in Leader, Dispatch(d) PROVE row'[r].state = row[r].state
  <2>1. CASE \E q \in Run : List(d, q)
    BY <2>1 DEF List
  <2>2. CASE Mark(d)
    BY <1>0, <2>2 DEF Mark
  <2>3. CASE Clear(d)
    BY <1>0, <2>3 DEF Clear
  <2>4. QED
    BY <1>2, <2>1, <2>2, <2>3 DEF Dispatch
<1>3. ASSUME NEW q \in Run, LeaseLapses(q) \/ Reclaim(q) \/ ComesDue(q) \/ Cancel(q)
      PROVE  row'[r].state = row[r].state
  BY <1>0, <1>3 DEF LeaseLapses, Reclaim, Abandoned, ComesDue, Cancel, Row
<1>4. ASSUME NEW p \in Request, KeepAlive(p) PROVE row'[r].state = row[r].state
  BY <1>0, <1>4 DEF KeepAlive, Row
<1>5. CASE \/ \E d \in Leader : PostFails(d) \/ LeaderDies(d) \/ \E p \in Request : Arrive(d, p)
           \/ \E p \in Request : ReceiverDies(p)
  BY <1>5 DEF PostFails, LeaderDies, Arrive, ReceiverDies
<1>6. QED
  BY <1>1, <1>2, <1>3, <1>4, <1>5 DEF Next, Leaders, Time

\* A verdict is neither replaced nor withdrawn, unless a lease of the run has lapsed
\* under a receiver.
THEOREM VerdictsStand == Spec => VerdictIsFinal
<1>1. IInv /\ [Next]_vars =>
        [\A r \in Run : row[r].state \in Terminal => \/ row'[r].state = row[r].state
                                                     \/ r \in lapsed]_vars
  BY VerdictStays
<1>2. QED
  BY <1>1, OwnerInit, OwnerNext, PTL DEF Spec, VerdictIsFinal
=============================================================================
