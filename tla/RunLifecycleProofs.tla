------------------------- MODULE RunLifecycleProofs -------------------------
(* What holds of RunLifecycle for every set of runs, workers and slots.    *)
EXTENDS RunLifecycle, TLAPS

-----------------------------------------------------------------------------
(* Rows and goroutines are well typed. *)

LEMMA ClaimedType ==
  ASSUME NEW p \in Row, NEW w \in Worker
  PROVE  Lent(p, w) \in Row /\ Started(p, w) \in Row
<1>1. p.runCount + 1 \in Nat
  BY DEF Row
<1>2. "PENDING" \in State /\ "RUNNING" \in State /\ "live" \in Lease
  BY DEF State, Lease
<1>3. QED
  BY <1>1, <1>2 DEF Lent, Started, Row

LEMMA ReleasedType ==
  ASSUME NEW p \in Row
  PROVE  /\ \A to \in State : Released(p, to) \in Row
         /\ Rescheduled(p) \in Row
<1>1. \A to \in State : Released(p, to) \in Row
  BY DEF Released, Row, Lease
<1>2. Released(p, "SCHEDULED") \in Row
  BY <1>1 DEF State
<1>3. QED
  BY <1>1, <1>2 DEF Rescheduled, Row

LEMMA IdleType == IdleCopy \in Copy /\ CopyOK(IdleCopy)
BY DEF IdleCopy, Copy, Pc, CopyOK

LEMMA TypeInit == Init => TypeOK
<1> SUFFICES ASSUME Init PROVE TypeOK
  OBVIOUS
<1>1. NewRow \in Row
  BY DEF NewRow, Row, State, Lease
<1>2. IdleJanitor \in [run: Run \cup {NoRun}, seen: State \cup {NoState}]
  BY DEF IdleJanitor
<1>3. QED
  BY <1>1, <1>2, IdleType DEF Init, TypeOK

\* What a step of one goroutine does to the table of slots.
SlotsOK ==
  /\ slot \in [Slot -> Copy]
  /\ \A s \in Slot : CopyOK(slot[s])
  /\ leases \subseteq Worker \X Run
  /\ active \subseteq Slot

LEMMA ContinueType ==
  ASSUME TypeOK, NEW s \in Slot, NEW c \in Copy, CopyOK(c), Continue(s, c)
  PROVE  SlotsOK'
BY DEF TypeOK, Continue, SlotsOK

\* The goroutine of a busy slot works on a run of the table.
LEMMA BusyType ==
  ASSUME TypeOK, NEW s \in Slot, slot[s].pc # "idle"
  PROVE  /\ slot[s] \in Copy /\ CopyOK(slot[s])
         /\ slot[s].run \in Run /\ row[slot[s].run] \in Row
<1>1. slot[s] \in Copy /\ CopyOK(slot[s])
  BY DEF TypeOK
<1>2. slot[s].run \in Run
  BY <1>1 DEF Copy, CopyOK
<1>3. QED
  BY <1>1, <1>2 DEF TypeOK

LEMMA LeaveType ==
  ASSUME TypeOK, NEW s \in Slot, slot[s].pc # "idle", Leave(s)
  PROVE  SlotsOK'
<1> DEFINE c == [IdleCopy EXCEPT !.pc = "leaving", !.run = slot[s].run]
<1>1. slot[s].run \in Run /\ slot[s].run # NoRun
  BY BusyType, ConstantsAssumption
<1>2. c \in Copy /\ CopyOK(c)
  BY <1>1, IdleType DEF IdleCopy, Copy, CopyOK, Pc
<1>3. Continue(s, c)
  BY DEF Leave
<1> HIDE DEF c
<1>4. QED
  BY <1>2, <1>3, ContinueType

LEMMA ForgetType ==
  ASSUME TypeOK, NEW s \in Slot, Forget(s) \/ FreeSlot(s) PROVE TypeOK'
<1> DEFINE c == [slot[s] EXCEPT !.pc = "left"]
<1>1. slot[s].pc # "idle" /\ slot[s] \in Copy /\ CopyOK(slot[s])
  BY BusyType DEF Forget, FreeSlot
<1>2. CASE Forget(s)
  <2>1. c \in Copy /\ CopyOK(c)
    BY <1>1, <1>2 DEF Forget, Copy, CopyOK, Pc
  <2>2. slot' = [slot EXCEPT ![s] = c]
    BY <1>2 DEF Forget
  <2> HIDE DEF c
  <2>3. SlotsOK'
    BY <1>2, <2>1, <2>2 DEF Forget, TypeOK, SlotsOK
  <2>4. QED
    BY <1>2, <2>3 DEF Forget, TypeOK, SlotsOK
<1>3. CASE FreeSlot(s)
  <2>1. SlotsOK'
    BY <1>3, IdleType DEF FreeSlot, TypeOK, SlotsOK
  <2>2. QED
    BY <1>3, <2>1 DEF FreeSlot, TypeOK, SlotsOK
<1>4. QED
  BY <1>2, <1>3

LEMMA GoalType == ASSUME NEW c, NEW b \in BOOLEAN PROVE Goal(c, b) \in State
BY DEF Goal, State

LEMMA LeaseRunType ==
  ASSUME TypeOK, NEW s \in Slot, NEW r \in Run, LeaseRun(s, r)
  PROVE  TypeOK'
<1> DEFINE n == row[r].runCount + 1
           c == [IdleCopy EXCEPT !.pc = "leased", !.run = r, !.attempt = n]
           d == [IdleCopy EXCEPT !.pc = "settle", !.run = r, !.attempt = n,
                                 !.goal = "SCHEDULED"]
<1>1. Host[s] \in Worker /\ row[r] \in Row /\ n \in Nat /\ r # NoRun
  BY ConstantsAssumption DEF TypeOK, Row
<1>2. row' \in [Run -> Row]
  BY <1>1, ClaimedType DEF LeaseRun, TypeOK
<1>3. c \in Copy /\ CopyOK(c) /\ d \in Copy /\ CopyOK(d)
  <2> HIDE DEF n
  <2>1. QED
    BY <1>1, IdleType DEF Copy, CopyOK, Pc, State, NoState
<1>4. SlotsOK'
  <2>1. slot' = [slot EXCEPT ![s] = c] \/ slot' = [slot EXCEPT ![s] = d]
    BY DEF LeaseRun
  <2>2. leases' \subseteq Worker \X Run /\ active' \subseteq Slot
    BY <1>1 DEF LeaseRun, TypeOK
  <2> HIDE DEF c, d
  <2>3. QED
    BY <1>3, <2>1, <2>2 DEF TypeOK, SlotsOK
<1>5. QED
  BY <1>2, <1>4 DEF LeaseRun, TypeOK, SlotsOK

LEMMA StartReadType ==
  ASSUME TypeOK, NEW s \in Slot, StartRead(s) PROVE TypeOK'
<1> DEFINE c == [slot[s] EXCEPT !.pc = "user", !.attempt = RunOf(s).runCount]
           d == [slot[s] EXCEPT !.pc = "starting", !.seen = RunOf(s).state]
<1>1. /\ slot[s].pc # "idle" /\ slot[s] \in Copy /\ CopyOK(slot[s])
      /\ RunOf(s).runCount \in Nat
      /\ RunOf(s).state \in State \ {NoState}
  BY BusyType DEF StartRead, RunOf, Row, State, NoState
<1>2. c \in Copy /\ CopyOK(c) /\ d \in Copy /\ CopyOK(d)
  BY <1>1 DEF Copy, CopyOK, Pc
<1>3. Leave(s) \/ Continue(s, c) \/ Continue(s, d)
  BY DEF StartRead
<1> HIDE DEF c, d
<1>4. SlotsOK'
  BY <1>1, <1>2, <1>3, LeaveType, ContinueType
<1>5. QED
  BY <1>4 DEF StartRead, TypeOK, SlotsOK

\* What the two conditional writes of a goroutine make of its row.
LEMMA WrittenRow ==
  ASSUME TypeOK, NEW s \in Slot, slot[s].pc # "idle"
  PROVE  /\ [row EXCEPT ![slot[s].run] = Started(RunOf(s), Host[s])]
              \in [Run -> Row]
         /\ slot[s].goal # NoState =>
              [row EXCEPT ![slot[s].run] = Released(RunOf(s), slot[s].goal)]
                \in [Run -> Row]
<1>1. /\ slot[s] \in Copy /\ RunOf(s) \in Row /\ Host[s] \in Worker
  BY BusyType, ConstantsAssumption DEF RunOf
<1>2. \A st \in State : Released(RunOf(s), st) \in Row
  BY <1>1, ReleasedType
<1>3. slot[s].goal # NoState => slot[s].goal \in State
  BY <1>1 DEF Copy
<1>4. Started(RunOf(s), Host[s]) \in Row
  BY <1>1, ClaimedType
<1>5. QED
  BY <1>2, <1>3, <1>4 DEF TypeOK

LEMMA StartWriteType ==
  ASSUME TypeOK, NEW s \in Slot, StartWrite(s) PROVE TypeOK'
<1> DEFINE c == [slot[s] EXCEPT !.pc = "user", !.seen = NoState,
                                !.attempt = RunOf(s).runCount]
<1>1. /\ slot[s].pc # "idle" /\ slot[s] \in Copy /\ CopyOK(slot[s])
      /\ RunOf(s) \in Row /\ RunOf(s).runCount \in Nat
      /\ Host[s] \in Worker
  BY BusyType, ConstantsAssumption DEF StartWrite, RunOf, Row
<1>2. c \in Copy /\ CopyOK(c)
  BY <1>1 DEF Copy, CopyOK, Pc
<1>3. Leave(s) \/ Continue(s, c)
  BY DEF StartWrite
<1> HIDE DEF c
<1>4. SlotsOK'
  BY <1>1, <1>2, <1>3, LeaveType, ContinueType
<1>5. row' \in [Run -> Row]
  BY <1>1, WrittenRow DEF StartWrite, TypeOK
<1>6. QED
  BY <1>4, <1>5 DEF StartWrite, TypeOK, SlotsOK

LEMMA UserReturnsType ==
  ASSUME TypeOK, NEW s \in Slot, NEW o \in Outcome, UserReturns(s, o)
  PROVE  TypeOK'
<1> DEFINE c == [slot[s] EXCEPT !.cancelled = FALSE]
           d == [c EXCEPT !.pc = "settle", !.goal = "SCHEDULED"]
           e == [c EXCEPT !.pc = "returned", !.outcome = o]
<1>1. slot[s].pc # "idle" /\ slot[s] \in Copy /\ CopyOK(slot[s])
  BY BusyType DEF UserReturns, Executing
<1>2. c \in Copy /\ CopyOK(c) /\ c.run # NoRun
  BY <1>1 DEF Copy, CopyOK
<1> HIDE DEF c
<1>3. d \in Copy /\ CopyOK(d) /\ e \in Copy /\ CopyOK(e)
  BY <1>2 DEF Copy, CopyOK, Pc, State, NoState
<1>4. Continue(s, d) \/ Continue(s, e)
  BY DEF UserReturns, c
<1> HIDE DEF d, e
<1>5. SlotsOK'
  BY <1>3, <1>4, ContinueType
<1>6. QED
  BY <1>5 DEF UserReturns, TypeOK, SlotsOK

LEMMA FinishType == ASSUME TypeOK, NEW s \in Slot, Finish(s) PROVE TypeOK'
<1>1. slot[s].pc # "idle" /\ slot[s] \in Copy /\ CopyOK(slot[s])
  BY BusyType DEF Finish
<1>2. PICK b \in BOOLEAN :
        Continue(s, [slot[s] EXCEPT !.pc = "settle", !.outcome = "-",
                                    !.goal = Goal(slot[s], b)])
  BY DEF Finish, CancelRequested
<1> DEFINE c == [slot[s] EXCEPT !.pc = "settle", !.outcome = "-",
                                !.goal = Goal(slot[s], b)]
<1>3. Goal(slot[s], b) \in State \ {NoState}
  BY GoalType DEF State, NoState
<1>4. c \in Copy /\ CopyOK(c)
  BY <1>1, <1>3 DEF Copy, CopyOK, Pc
<1> HIDE DEF c
<1>5. SlotsOK'
  BY <1>2, <1>4, ContinueType DEF c
<1>6. QED
  BY <1>5 DEF Finish, TypeOK, SlotsOK

LEMMA SettleReadType ==
  ASSUME TypeOK, NEW s \in Slot, SettleRead(s) PROVE TypeOK'
<1> DEFINE c == [slot[s] EXCEPT !.seen = RunOf(s).state,
             !.pc = IF slot[s].pc = "settle" THEN "settling" ELSE "forcing"]
           d == [slot[s] EXCEPT !.pc = "force"]
<1>1. /\ slot[s].pc # "idle" /\ slot[s] \in Copy /\ CopyOK(slot[s])
      /\ RunOf(s).state \in State \ {NoState}
  BY BusyType DEF SettleRead, RunOf, Row, State, NoState
<1>2. c \in Copy /\ CopyOK(c) /\ d \in Copy /\ CopyOK(d)
  BY <1>1 DEF SettleRead, Copy, CopyOK, Pc
<1>3. Leave(s) \/ Continue(s, c) \/ Continue(s, d)
  BY DEF SettleRead
<1> HIDE DEF c, d
<1>4. SlotsOK'
  BY <1>1, <1>2, <1>3, LeaveType, ContinueType
<1>5. QED
  BY <1>4 DEF SettleRead, TypeOK, SlotsOK

LEMMA SettleFailedType ==
  ASSUME TypeOK, NEW s \in Slot, SettleFailed(s) PROVE SlotsOK'
<1> DEFINE c == [slot[s] EXCEPT !.pc = "force", !.seen = NoState]
<1>1. slot[s].pc # "idle" /\ slot[s] \in Copy /\ CopyOK(slot[s])
  BY BusyType DEF SettleFailed
<1>2. CASE slot[s].pc \in {"settle", "settling"}
  <2>1. c \in Copy /\ CopyOK(c)
    BY <1>1, <1>2 DEF Copy, CopyOK, Pc
  <2>2. Continue(s, c)
    BY <1>2 DEF SettleFailed
  <2> HIDE DEF c
  <2>3. QED
    BY <2>1, <2>2, ContinueType
<1>3. CASE slot[s].pc \in {"force", "forcing"}
  BY <1>1, <1>3, LeaveType DEF SettleFailed
<1>4. QED
  BY <1>2, <1>3 DEF SettleFailed

LEMMA SettleWriteType ==
  ASSUME TypeOK, NEW s \in Slot, SettleWrite(s) PROVE TypeOK'
<1>1. slot[s].pc # "idle" /\ slot[s].goal # NoState
  BY BusyType DEF SettleWrite, CopyOK
<1>2. row' \in [Run -> Row]
  BY <1>1, WrittenRow DEF SettleWrite, TypeOK
<1>3. SlotsOK'
  BY <1>1, LeaveType, SettleFailedType DEF SettleWrite
<1>4. QED
  BY <1>2, <1>3 DEF SettleWrite, TypeOK, SlotsOK

LEMMA StoreFailsType ==
  ASSUME TypeOK, NEW s \in Slot, StoreFails(s) PROVE TypeOK'
<1>1. SlotsOK'
  BY LeaveType, SettleFailedType DEF StoreFails
<1>2. QED
  BY <1>1 DEF StoreFails, TypeOK, SlotsOK

LEMMA AckLostType ==
  ASSUME TypeOK, NEW s \in Slot, AckLost(s) PROVE TypeOK'
<1>1. /\ slot[s].pc # "idle"
      /\ slot[s].pc # "starting" => slot[s].goal # NoState
  BY BusyType DEF AckLost, CopyOK
<1>2. row' \in [Run -> Row]
  BY <1>1, WrittenRow DEF AckLost
<1>3. SlotsOK'
  BY <1>1, LeaveType, SettleFailedType DEF AckLost
<1>4. QED
  BY <1>2, <1>3 DEF AckLost, TypeOK, SlotsOK
\* Engine.Cancel changes nothing of the table but the cancelled flags.
LEMMA CancelType ==
  ASSUME TypeOK, NEW w \in Worker, NEW r \in Run, Cancel(w, r)
  PROVE  slot' \in [Slot -> Copy] /\ \A s \in Slot : CopyOK(slot'[s])
<1>1. ASSUME NEW s \in Slot
      PROVE  LET c == [slot[s] EXCEPT !.cancelled = TRUE]
             IN  c \in Copy /\ CopyOK(c)
  BY DEF TypeOK, Copy, CopyOK
<1>2. QED
  BY <1>1 DEF Cancel, TypeOK

LEMMA CancelWatchType ==
  ASSUME TypeOK, NEW s \in Slot, CancelWatch(s) PROVE TypeOK'
<1> DEFINE c == [slot[s] EXCEPT !.cancelled = TRUE]
<1>1. c \in Copy /\ CopyOK(c)
  BY DEF TypeOK, Copy, CopyOK
<1> HIDE DEF c
<1>2. SlotsOK'
  BY <1>1, ContinueType DEF CancelWatch, c
<1>3. QED
  BY <1>2 DEF CancelWatch, TypeOK, SlotsOK

LEMMA RenewLeaseType ==
  ASSUME TypeOK, NEW w \in Worker, NEW r \in Run, RenewLease(w, r)
  PROVE  TypeOK'
<1>1. [row EXCEPT ![r].lease = "live"] \in [Run -> Row]
  BY DEF TypeOK, Row, Lease
<1>2. row' \in [Run -> Row]
  BY <1>1 DEF RenewLease, TypeOK
<1>3. slot' \in [Slot -> Copy] /\ \A s \in Slot : CopyOK(slot'[s])
  BY CancelType DEF RenewLease, TypeOK
<1>4. QED
  BY <1>2, <1>3 DEF RenewLease, TypeOK

LEMMA RequestCancelType ==
  ASSUME TypeOK, NEW r \in Run, RequestCancel(r) PROVE TypeOK'
<1>1. row[r] \in Row
  BY DEF TypeOK
<1>2. CancelState(row[r].state) \in State
  BY <1>1 DEF CancelState, State, Row
<1>3. row' \in [Run -> Row]
  BY <1>1, <1>2 DEF RequestCancel, TypeOK, Row
<1>4. control' \subseteq Worker \X Run
  BY DEF RequestCancel, TypeOK
<1>5. QED
  BY <1>3, <1>4 DEF RequestCancel, TypeOK

LEMMA WorkerCrashesType ==
  ASSUME TypeOK, NEW w \in Worker, WorkerCrashes(w) PROVE TypeOK'
<1>1. SlotsOK'
  BY IdleType DEF WorkerCrashes, TypeOK, SlotsOK
<1>2. QED
  BY <1>1 DEF WorkerCrashes, TypeOK, SlotsOK

LEMMA JanitorType ==
  ASSUME TypeOK, JanitorStep \/ JanitorCrashes PROVE TypeOK'
<1>1. CASE Reclaim
  <2>1. \A r \in Run : /\ row[r] \in Row /\ row[r].runCount \in Nat
                       /\ Released(row[r], "CRASHED") \in Row
    BY ReleasedType DEF TypeOK, Row, State
  <2>2. row' \in [Run -> Row] /\ todo' \in [Run -> Nat]
    BY <1>1, <2>1 DEF Reclaim
  <2>3. QED
    BY <1>1, <2>2 DEF Reclaim, TypeOK
<1>2. ASSUME NEW r \in Run, JanitorRead(r) PROVE TypeOK'
  <2>1. row[r].state \in State
    BY DEF TypeOK, Row
  <2>2. [run |-> r, seen |-> row[r].state]
          \in [run: Run \cup {NoRun}, seen: State \cup {NoState}]
    BY <2>1
  <2>3. jan' \in [run: Run \cup {NoRun}, seen: State \cup {NoState}]
    BY <1>2, <2>2 DEF JanitorRead, TypeOK
  <2>4. todo' \in [Run -> Nat]
    <3>1. todo \in [Run -> Nat] /\ 0 \in Nat
      BY DEF TypeOK
    <3>2. todo' = [todo EXCEPT ![r] = 0] \/ todo' = todo
      BY <1>2 DEF JanitorRead
    <3>3. QED
      BY <3>1, <3>2
  <2>5. QED
    BY <1>2, <2>3, <2>4 DEF JanitorRead, TypeOK
<1>3. CASE JanitorWrite
  <2>1. jan.run \in Run
    BY <1>3 DEF JanitorWrite, TypeOK
  <2>2. Released(row[jan.run], JanitorGoal(jan.run)) \in Row
    BY <2>1, ReleasedType DEF TypeOK, JanitorGoal, State
  <2>3. row' \in [Run -> Row]
    BY <1>3, <2>1, <2>2 DEF JanitorWrite, TypeOK
  <2>4. QED
    BY <1>3, <2>1, <2>3 DEF JanitorWrite, TypeOK, IdleJanitor
<1>4. CASE JanitorCrashes
  BY <1>4 DEF JanitorCrashes, TypeOK, IdleJanitor
<1>5. QED
  BY <1>1, <1>2, <1>3, <1>4 DEF JanitorStep

LEMMA TypeStep == TypeOK /\ [Next]_vars => TypeOK'
<1> SUFFICES ASSUME TypeOK, [Next]_vars PROVE TypeOK'
  OBVIOUS
<1>1. ASSUME NEW s \in Slot, SlotStep(s) PROVE TypeOK'
  BY <1>1, StartReadType, StartWriteType, UserReturnsType, FinishType,
     SettleReadType, SettleWriteType, ForgetType DEF SlotStep
<1>2. ASSUME NEW s \in Slot, StoreFails(s) \/ AckLost(s) \/ CancelWatch(s)
      PROVE  TypeOK'
  BY <1>2, StoreFailsType, AckLostType, CancelWatchType
<1>3. ASSUME NEW s \in Slot, NEW r \in Run, LeaseRun(s, r) PROVE TypeOK'
  BY <1>3, LeaseRunType
<1>4. ASSUME NEW s \in Slot, NEW r \in Run, LeaseLost(s, r) PROVE TypeOK'
  <2>1. Lent(row[r], Host[s]) \in Row
    BY ClaimedType, ConstantsAssumption DEF TypeOK
  <2>2. QED
    BY <1>4, <2>1 DEF LeaseLost, TypeOK
<1>5. ASSUME NEW w \in Worker, WorkerCrashes(w) \/ WorkerDrains(w)
      PROVE  TypeOK'
  BY <1>5, WorkerCrashesType DEF WorkerDrains, TypeOK
<1>6. ASSUME NEW w \in Worker, NEW r \in Run, RenewLease(w, r) PROVE TypeOK'
  BY <1>6, RenewLeaseType
<1>7. ASSUME NEW w \in Worker, NEW r \in Run, ControlMessage(w, r)
      PROVE  TypeOK'
  BY <1>7, CancelType DEF ControlMessage, TypeOK
<1>8. ASSUME NEW r \in Run, RequestCancel(r) PROVE TypeOK'
  BY <1>8, RequestCancelType
<1>9. ASSUME NEW r \in Run, RescheduleRun(r) PROVE TypeOK'
  <2>1. Rescheduled(row[r]) \in Row
    BY ReleasedType DEF TypeOK
  <2>2. QED
    BY <1>9, <2>1 DEF RescheduleRun, TypeOK
<1>10. ASSUME NEW r \in Run, LeaseLapses(r) PROVE TypeOK'
  BY <1>10 DEF LeaseLapses, TypeOK, Row, Lease
<1>11. CASE JanitorStep \/ JanitorCrashes
  BY <1>11, JanitorType
<1>12. CASE UNCHANGED vars
  BY <1>12 DEF vars, TypeOK
<1>13. QED
  BY <1>1, <1>2, <1>3, <1>4, <1>5, <1>6, <1>7, <1>8, <1>9, <1>10, <1>11,
     <1>12 DEF Next

\* Type correctness, whatever the environment does.
THEOREM TypeCorrect == Spec => []TypeOK
BY TypeInit, TypeStep, PTL DEF Spec
-----------------------------------------------------------------------------
(* No claim is left behind, whatever the environment does. *)

Unclaimed(p) ==
  /\ p.state \notin Claimed => p.worker = NoWorker /\ p.lease = "none"
  /\ p.lease # "none" => p.worker # NoWorker

\* The statements of runs.go, one by one.
LEMMA ClaimingStatements ==
  ASSUME NEW p \in Row, Unclaimed(p), NEW w \in Worker
  PROVE  /\ Unclaimed(Lent(p, w)) /\ Unclaimed(Started(p, w))
         /\ p.worker = w /\ p.state \in Claimed
              => Unclaimed([p EXCEPT !.lease = "live"])
<1>1. w # NoWorker
  BY ConstantsAssumption
<1>2. QED
  BY <1>1 DEF Lent, Started, Unclaimed, Row, Claimed

LEMMA OtherStatements ==
  ASSUME NEW p \in Row, Unclaimed(p)
  PROVE  /\ \A to \in State : Unclaimed(Released(p, to))
         /\ Unclaimed(Rescheduled(p))
         /\ Unclaimed([p EXCEPT !.cancel = TRUE,
                                !.state = CancelState(p.state)])
         /\ p.lease = "live" => Unclaimed([p EXCEPT !.lease = "lapsed"])
<1>1. \A to \in State : Unclaimed(Released(p, to))
  BY DEF Released, Unclaimed, Row
<1>2. Unclaimed(Rescheduled(p))
  BY DEF Rescheduled, Released, Unclaimed, Row
<1>3. Unclaimed([p EXCEPT !.cancel = TRUE, !.state = CancelState(p.state)])
  BY DEF CancelState, Unclaimed, Row, Claimed
<1>4. p.lease = "live" => Unclaimed([p EXCEPT !.lease = "lapsed"])
  BY DEF Unclaimed, Row
<1>5. QED
  BY <1>1, <1>2, <1>3, <1>4

LEMMA NoStaleClaimStep ==
  TypeOK /\ NoStaleClaim /\ [Next]_vars => NoStaleClaim'
<1> SUFFICES ASSUME TypeOK, NoStaleClaim, [Next]_vars,
                    NEW r \in Run
             PROVE  Unclaimed(row'[r])
  BY DEF NoStaleClaim, Unclaimed
<1>1. row[r] \in Row /\ Unclaimed(row[r])
  BY DEF TypeOK, NoStaleClaim, Unclaimed
<1>2. ASSUME NEW s \in Slot, SlotStep(s) \/ StoreFails(s) \/ AckLost(s)
                                \/ CancelWatch(s)
      PROVE  Unclaimed(row'[r])
  <2>1. \/ row'[r] = row[r]
        \/ row'[r] = Started(row[r], Host[s])
        \/ /\ slot[s].goal # NoState
           /\ row'[r] = Released(row[r], slot[s].goal)
    <3>1. CASE StartWrite(s) \/ AckLost(s) \/ SettleWrite(s)
      <4>1. slot[s].run \in Run /\ CopyOK(slot[s])
        BY <3>1, BusyType DEF StartWrite, AckLost, SettleWrite
      <4>2. QED
        BY <3>1, <4>1
           DEF StartWrite, AckLost, SettleWrite, RunOf, TypeOK, CopyOK
    <3>2. CASE ~(StartWrite(s) \/ AckLost(s) \/ SettleWrite(s))
      BY <1>2, <3>2
         DEF SlotStep, StartRead, UserReturns, Finish, SettleRead, StoreFails,
             CancelWatch, Forget, FreeSlot
    <3>3. QED
      BY <3>1, <3>2
  <2>2. slot[s].goal # NoState => slot[s].goal \in State
    BY DEF TypeOK, Copy
  <2>3. QED
    BY <1>1, <2>1, <2>2, ClaimingStatements, OtherStatements,
       ConstantsAssumption
<1>3. ASSUME NEW s \in Slot, NEW q \in Run, LeaseRun(s, q) \/ LeaseLost(s, q)
      PROVE  Unclaimed(row'[r])
  <2>1. row'[r] = row[r] \/ row'[r] = Lent(row[r], Host[s])
    BY <1>3 DEF LeaseRun, LeaseLost, TypeOK
  <2>2. QED
    BY <1>1, <2>1, ClaimingStatements, ConstantsAssumption
<1>4. ASSUME NEW w \in Worker, WorkerCrashes(w) \/ WorkerDrains(w)
      PROVE  Unclaimed(row'[r])
  BY <1>1, <1>4 DEF WorkerCrashes, WorkerDrains
<1>5. ASSUME NEW w \in Worker, NEW q \in Run,
             RenewLease(w, q) \/ ControlMessage(w, q)
      PROVE  Unclaimed(row'[r])
  <2>1. \/ row'[r] = row[r]
        \/ /\ row[r].worker = w /\ row[r].state \in Claimed
           /\ row'[r] = [row[r] EXCEPT !.lease = "live"]
    BY <1>5 DEF RenewLease, ControlMessage, TypeOK
  <2>2. QED
    BY <1>1, <2>1, ClaimingStatements
<1>6. ASSUME NEW q \in Run,
             RequestCancel(q) \/ RescheduleRun(q) \/ LeaseLapses(q)
      PROVE  Unclaimed(row'[r])
  <2>1. \/ row'[r] = row[r]
        \/ row'[r] = [row[r] EXCEPT !.cancel = TRUE,
                                    !.state = CancelState(row[r].state)]
        \/ row'[r] = Rescheduled(row[r])
        \/ /\ row[r].lease = "live"
           /\ row'[r] = [row[r] EXCEPT !.lease = "lapsed"]
    BY <1>6 DEF RequestCancel, RescheduleRun, LeaseLapses, TypeOK
  <2>2. QED
    BY <1>1, <2>1, OtherStatements
<1>7. CASE JanitorStep \/ JanitorCrashes
  <2>1. \/ row'[r] = row[r]
        \/ row'[r] = Released(row[r], "CRASHED")
        \/ row'[r] = Released(row[r], JanitorGoal(r))
    BY <1>7 DEF JanitorStep, JanitorCrashes, Reclaim, JanitorRead,
                JanitorWrite, TypeOK
  <2>2. "CRASHED" \in State /\ JanitorGoal(r) \in State
    BY DEF JanitorGoal, State
  <2>3. QED
    BY <1>1, <2>1, <2>2, OtherStatements
<1>8. CASE UNCHANGED vars
  BY <1>1, <1>8 DEF vars
<1>9. QED
  BY <1>2, <1>3, <1>4, <1>5, <1>6, <1>7, <1>8 DEF Next

\* No statement leaves worker_id or lease_expires_at on a run that nobody
\* holds, even when leases lapse under a live worker and answers are lost.
THEOREM NoClaimIsLeft == Spec => []NoStaleClaim
<1>1. Init => NoStaleClaim
  BY DEF Init, NewRow, NoStaleClaim, Claimed
<1>2. QED
  BY <1>1, NoStaleClaimStep, TypeCorrect, PTL DEF Spec
-----------------------------------------------------------------------------
(***************************************************************************)
(* One executor.  The hypothesis: a worker that is up renews its leases in *)
(* time and keeps renewing them until it dies, operators retry only runs   *)
(* at rest, no claim is made that its worker does not learn of, and no     *)
(* worker leases a run once more that one of its own goroutines has put    *)
(* back and is still on its way out of.                                    *)
(***************************************************************************)
Timely == Env \cap {"split", "drain", "retryLive", "lostAck", "overtake"} = {}

\* A goroutine that has not had its last word on the row.
Holding(s) == slot[s].pc \notin {"idle", "leaving", "left"}

\* A goroutine's worker is alive, renews its claim, and holds the row.
Held(s) ==
  /\ status[Host[s]] = "up"
  /\ <<Host[s], slot[s].run>> \in leases
  /\ RunOf(s).state \in Claimed
  /\ RunOf(s).worker = Host[s]
  /\ RunOf(s).lease = "live"

\* How far the row has come with the goroutine.
InStep(s) ==
  /\ slot[s].pc \in {"leased", "starting"}
       => RunOf(s).state \in {"PENDING", "CANCELLING"}
  /\ slot[s].pc = "starting" => slot[s].seen = "PENDING"
  /\ slot[s].pc = "user" => RunOf(s).state \in {"RUNNING", "CANCELLING"}
  /\ slot[s].pc \in {"leased", "starting", "user"} => s \in active
  /\ slot[s].goal \notin Claimed

CopiesHold == \A s \in Slot : Holding(s) => Held(s) /\ InStep(s)

OneCopy == \A s, t \in Slot :
             Holding(s) /\ Holding(t) /\ slot[s].run = slot[t].run => s = t

\* What a goroutine deletes on its way out is its own entry.
NotOvertaken ==
  \A s, t \in Slot :
    /\ slot[s].pc # "idle" /\ slot[t].pc # "idle"
    /\ Host[s] = Host[t] /\ slot[s].run = slot[t].run
    => s = t

\* The janitor decides only runs that nobody has touched since it took them.
JanitorOwns ==
  /\ \A r \in Run : todo[r] > 0 => row[r].state = "CRASHED"
  /\ jan.run # NoRun => todo[jan.run] > 0 /\ jan.seen = "CRASHED"

IInv == TypeOK /\ NoStaleClaim /\ CopiesHold /\ OneCopy /\ NotOvertaken
          /\ JanitorOwns /\ ClaimIsReclaimable

\* The part of the invariant that the steps of one goroutine disturb.
Copies == CopiesHold /\ OneCopy /\ NotOvertaken

\* The rows other goroutines work on are the same after a step of s.
OnlyRowOf(s) == \A r \in Run : r # slot[s].run => row'[r] = row[r]

LEMMA LeaveKeepsCopies ==
  ASSUME IInv, NEW s \in Slot, Holding(s), Leave(s), OnlyRowOf(s),
         status' = status
  PROVE  Copies'
<1>1. /\ slot'[s].pc = "leaving" /\ slot'[s].run = slot[s].run
      /\ \A t \in Slot : t # s => slot'[t] = slot[t]
      /\ leases' = leases /\ active' = active
  BY DEF Leave, Continue, IdleCopy, IInv, TypeOK
<1>2. ASSUME NEW t \in Slot, Holding(t)'
      PROVE  Held(t)' /\ InStep(t)'
  <2>1. t # s /\ slot'[t] = slot[t] /\ Holding(t)
    BY <1>1, <1>2 DEF Holding
  <2>2. slot[t].run # slot[s].run
    BY <2>1 DEF IInv, OneCopy
  <2>3. slot[t].run \in Run /\ row'[slot[t].run] = row[slot[t].run]
    BY <2>1, <2>2, BusyType DEF OnlyRowOf, IInv, Holding
  <2>4. Held(t) /\ InStep(t)
    BY <2>1 DEF IInv, CopiesHold
  <2>5. QED
    BY <1>1, <2>1, <2>2, <2>3, <2>4 DEF Held, InStep, RunOf
<1>3. OneCopy'
  BY <1>1 DEF IInv, OneCopy, Holding
<1>4. NotOvertaken'
  BY <1>1 DEF IInv, NotOvertaken, Holding
<1>5. QED
  BY <1>2, <1>3, <1>4 DEF Copies, CopiesHold

LEMMA ContinueKeepsCopies ==
  ASSUME IInv, NEW s \in Slot, Holding(s), NEW c, Continue(s, c),
         c.run = slot[s].run, OnlyRowOf(s), status' = status,
         Held(s)', InStep(s)'
  PROVE  Copies'
<1>1. /\ slot'[s] = c
      /\ \A t \in Slot : t # s => slot'[t] = slot[t]
      /\ leases' = leases /\ active' = active
  BY DEF Continue, IInv, TypeOK
<1>2. ASSUME NEW t \in Slot, Holding(t)', t # s
      PROVE  Held(t)' /\ InStep(t)'
  <2>1. slot'[t] = slot[t] /\ Holding(t)
    BY <1>1, <1>2 DEF Holding
  <2>2. slot[t].run # slot[s].run
    BY <1>2, <2>1 DEF IInv, OneCopy
  <2>3. slot[t].run \in Run /\ row'[slot[t].run] = row[slot[t].run]
    BY <2>1, <2>2, BusyType DEF OnlyRowOf, IInv, Holding
  <2>4. Held(t) /\ InStep(t)
    BY <2>1 DEF IInv, CopiesHold
  <2>5. QED
    BY <1>1, <2>1, <2>3, <2>4 DEF Held, InStep, RunOf
<1>3. OneCopy'
  BY <1>1 DEF IInv, OneCopy, Holding
<1>4. NotOvertaken'
  BY <1>1 DEF IInv, NotOvertaken, Holding
<1>5. QED
  BY <1>2, <1>3, <1>4 DEF Copies, CopiesHold

\* Everybody else: the slots stay as they are but for cancelled flags, and a
\* run in somebody's hands may only become CANCELLING.
SlotsStay ==
  /\ \A s \in Slot : /\ slot'[s].pc = slot[s].pc /\ slot'[s].run = slot[s].run
                      /\ slot'[s].seen = slot[s].seen
                      /\ slot'[s].goal = slot[s].goal
  /\ leases' = leases /\ active' = active /\ status' = status

LEMMA OthersKeepCopies ==
  ASSUME IInv, SlotsStay,
         \A s \in Slot : Holding(s) =>
           LET r == slot[s].run IN
           /\ row'[r].worker = row[r].worker /\ row'[r].lease = "live"
           /\ row'[r].state \in {row[r].state, "CANCELLING"}
  PROVE  Copies'
<1>1. ASSUME NEW s \in Slot, Holding(s)'
      PROVE  Held(s)' /\ InStep(s)'
  <2>1. Holding(s)
    BY <1>1 DEF SlotsStay, Holding
  <2>2. Held(s) /\ InStep(s)
    BY <2>1 DEF IInv, CopiesHold
  <2>3. QED
    BY <2>1, <2>2 DEF SlotsStay, Held, InStep, RunOf, Claimed
<1>2. OneCopy'
  BY DEF SlotsStay, IInv, OneCopy, Holding
<1>3. NotOvertaken'
  BY DEF SlotsStay, IInv, NotOvertaken
<1>4. QED
  BY <1>1, <1>2, <1>3 DEF Copies, CopiesHold

\* A goroutine's run is none of the janitor's.
LEMMA JanitorApart ==
  ASSUME IInv, NEW s \in Slot, Holding(s), OnlyRowOf(s),
         todo' = todo, jan' = jan
  PROVE  JanitorOwns'
<1>1. slot[s].run \in Run /\ row[slot[s].run].state \in Claimed
  BY BusyType DEF IInv, CopiesHold, Held, RunOf, Holding
<1>2. ~(todo[slot[s].run] > 0)
  BY <1>1 DEF IInv, JanitorOwns, Claimed
<1>3. QED
  BY <1>1, <1>2 DEF IInv, JanitorOwns, OnlyRowOf
\* What each action has to establish besides its types.
Kept == Copies' /\ JanitorOwns' /\ ClaimIsReclaimable'

LEMMA BusyFacts ==
  ASSUME IInv, NEW s \in Slot, slot[s].pc \notin {"idle", "leaving", "left"}
  PROVE  /\ Holding(s) /\ Held(s) /\ InStep(s)
         /\ slot[s] \in Copy /\ slot[s].run \in Run /\ RunOf(s) \in Row
BY BusyType DEF IInv, CopiesHold, Holding, RunOf

\* A step of a goroutine that leaves its row alone.
LEMMA QuietStep ==
  ASSUME IInv, NEW s \in Slot, slot[s].pc \notin {"idle", "leaving", "left"}, row' = row,
         status' = status, todo' = todo, jan' = jan,
         \/ Leave(s)
         \/ \E c \in Copy : /\ Continue(s, c) /\ c.run = slot[s].run
                            /\ Held(s)' /\ InStep(s)'
  PROVE  Kept
<1>1. Holding(s) /\ OnlyRowOf(s)
  BY BusyFacts DEF OnlyRowOf
<1>2. Copies'
  BY <1>1, LeaveKeepsCopies, ContinueKeepsCopies
<1>3. JanitorOwns'
  BY <1>1, JanitorApart
<1>4. ClaimIsReclaimable'
  BY DEF IInv, ClaimIsReclaimable
<1>5. QED
  BY <1>2, <1>3, <1>4 DEF Kept

\* A goroutine still holds its row after a step that leaves the row alone.
LEMMA StillHeld ==
  ASSUME IInv, NEW s \in Slot, slot[s].pc \notin {"idle", "leaving", "left"}, row' = row,
         status' = status, NEW c, Continue(s, c), c.run = slot[s].run
  PROVE  Held(s)' /\ slot'[s] = c /\ RunOf(s)' = RunOf(s) /\ active' = active
<1>1. slot'[s] = c /\ leases' = leases /\ active' = active
  BY DEF Continue, IInv, TypeOK
<1>2. QED
  BY <1>1, BusyFacts DEF Held, RunOf

LEMMA StartReadKeeps ==
  ASSUME IInv, NEW s \in Slot, StartRead(s) PROVE Kept
<1> DEFINE cur == RunOf(s).state
           d == [slot[s] EXCEPT !.pc = "starting", !.seen = cur]
<1>1. /\ slot[s].pc = "leased" /\ row' = row /\ status' = status
      /\ todo' = todo /\ jan' = jan
  BY DEF StartRead
<1>2. /\ InStep(s) /\ slot[s] \in Copy /\ cur \in {"PENDING", "CANCELLING"}
      /\ cur \in State
  BY <1>1, BusyFacts DEF InStep, State
<1>3. ~Unchanged(cur, "RUNNING")
  BY <1>2 DEF Unchanged
<1>4. Writes(cur, "RUNNING", FALSE) => cur = "PENDING"
  BY <1>2 DEF Writes, CanTransition, allowedTransitions, Terminal
<1> HIDE DEF cur
<1>5. Leave(s) \/ (Continue(s, d) /\ cur = "PENDING")
  BY <1>3, <1>4 DEF StartRead, cur
<1>6. CASE Leave(s)
  BY <1>1, <1>6, QuietStep
<1>7. CASE Continue(s, d) /\ cur = "PENDING"
  <2>1. /\ d \in Copy /\ d.run = slot[s].run /\ d.pc = "starting"
        /\ d.seen = cur /\ d.goal = slot[s].goal
    BY <1>2 DEF Copy, Pc
  <2> HIDE DEF d
  <2>2. Held(s)' /\ slot'[s] = d /\ RunOf(s)' = RunOf(s) /\ active' = active
    BY <1>1, <1>7, <2>1, StillHeld
  <2>3. InStep(s)'
    BY <1>1, <1>2, <1>7, <2>1, <2>2 DEF InStep, cur
  <2>4. QED
    BY <1>1, <1>7, <2>1, <2>2, <2>3, QuietStep
<1>8. QED
  BY <1>5, <1>6, <1>7

LEMMA StartWriteKeeps ==
  ASSUME IInv, NEW s \in Slot, StartWrite(s) PROVE Kept
<1>1. /\ slot[s].pc = "starting" /\ status' = status
      /\ todo' = todo /\ jan' = jan
  BY DEF StartWrite
<1>2. /\ Holding(s) /\ Held(s) /\ InStep(s) /\ slot[s] \in Copy
      /\ slot[s].run \in Run /\ RunOf(s) \in Row
  BY <1>1, BusyFacts
<1>3. CASE Leave(s) /\ row' = row
  BY <1>1, <1>3, QuietStep
<1>4. CASE /\ RunOf(s).state = slot[s].seen
           /\ row' = [row EXCEPT ![slot[s].run] = Started(RunOf(s), Host[s])]
           /\ Continue(s, [slot[s] EXCEPT !.pc = "user", !.seen = NoState,
                                          !.attempt = RunOf(s).runCount])
  <2> DEFINE c == [slot[s] EXCEPT !.pc = "user", !.seen = NoState,
                                  !.attempt = RunOf(s).runCount]
             q == Started(RunOf(s), Host[s])
  <2>1. c.run = slot[s].run /\ c.pc = "user" /\ c.goal = slot[s].goal
    BY <1>2 DEF Copy
  <2>2. /\ q.state = "RUNNING" /\ q.worker = Host[s] /\ q.lease = "live"
    BY <1>2 DEF Started, Held, Row
  <2>3. OnlyRowOf(s) /\ row'[slot[s].run] = q
    BY <1>2, <1>4 DEF OnlyRowOf, IInv, TypeOK
  <2> HIDE DEF c, q
  <2>4. slot'[s] = c /\ leases' = leases /\ active' = active
    BY <1>4 DEF Continue, IInv, TypeOK, c
  <2>5. Held(s)' /\ InStep(s)'
    BY <1>1, <1>2, <2>1, <2>2, <2>3, <2>4
       DEF Held, InStep, RunOf, Claimed
  <2>6. Copies'
    BY <1>1, <1>2, <1>4, <2>1, <2>3, <2>5, ContinueKeepsCopies DEF c
  <2>7. JanitorOwns'
    BY <1>1, <1>2, <2>3, JanitorApart
  <2>8. ClaimIsReclaimable'
    BY <2>2, <2>3, ConstantsAssumption
       DEF IInv, ClaimIsReclaimable, OnlyRowOf
  <2>9. QED
    BY <2>6, <2>7, <2>8 DEF Kept
<1>5. QED
  BY <1>3, <1>4 DEF StartWrite
\* A step of a goroutine past the flow function, or inside it: only its goal
\* and what it has read change.
LEMMA LateStep ==
  ASSUME IInv, NEW s \in Slot, slot[s].pc \notin {"idle", "leaving", "left"}, row' = row,
         status' = status, todo' = todo, jan' = jan,
         NEW c \in Copy, Continue(s, c), c.run = slot[s].run,
         c.pc \notin {"leased", "starting", "user"}, c.goal \notin Claimed
  PROVE  Kept
<1>1. Held(s)' /\ slot'[s] = c
  BY StillHeld
<1>2. InStep(s)'
  BY <1>1 DEF InStep
<1>3. QED
  BY <1>1, <1>2, QuietStep

LEMMA UserReturnsKeeps ==
  ASSUME IInv, NEW s \in Slot, NEW o \in Outcome, UserReturns(s, o)
  PROVE  Kept
<1> DEFINE c == [slot[s] EXCEPT !.cancelled = FALSE]
           d == [c EXCEPT !.pc = "settle", !.goal = "SCHEDULED"]
           e == [c EXCEPT !.pc = "returned", !.outcome = o]
<1>1. /\ slot[s].pc = "user" /\ row' = row /\ status' = status
      /\ todo' = todo /\ jan' = jan
  BY DEF UserReturns, Executing
<1>2. slot[s] \in Copy /\ slot[s].goal \notin Claimed
  BY <1>1, BusyFacts DEF InStep
<1>3. c \in Copy /\ c.run = slot[s].run /\ c.goal = slot[s].goal
  BY <1>2 DEF Copy
<1> HIDE DEF c
<1>4. /\ d \in Copy /\ d.run = slot[s].run /\ d.pc = "settle"
      /\ d.goal \notin Claimed
      /\ e \in Copy /\ e.run = slot[s].run /\ e.pc = "returned"
      /\ e.goal \notin Claimed
  BY <1>2, <1>3 DEF Copy, Pc, State, Claimed
<1>5. Continue(s, d) \/ Continue(s, e)
  BY DEF UserReturns, c
<1> HIDE DEF d, e
<1>6. QED
  BY <1>1, <1>4, <1>5, LateStep

LEMMA FinishKeeps ==
  ASSUME IInv, NEW s \in Slot, Finish(s) PROVE Kept
<1>1. /\ slot[s].pc = "returned" /\ row' = row /\ status' = status
      /\ todo' = todo /\ jan' = jan
  BY DEF Finish
<1>2. PICK b \in BOOLEAN :
        Continue(s, [slot[s] EXCEPT !.pc = "settle", !.outcome = "-",
                                    !.goal = Goal(slot[s], b)])
  BY DEF Finish, CancelRequested
<1> DEFINE g == Goal(slot[s], b)
           c == [slot[s] EXCEPT !.pc = "settle", !.outcome = "-", !.goal = g]
<1>3. g \in State /\ g \notin Claimed
  BY DEF Goal, State, Claimed
<1> HIDE DEF g
<1>4. /\ c \in Copy /\ c.run = slot[s].run /\ c.pc = "settle"
      /\ c.goal \notin Claimed
  BY <1>1, <1>3, BusyFacts DEF Copy, Pc
<1>5. Continue(s, c)
  BY <1>2 DEF g
<1> HIDE DEF c
<1>6. QED
  BY <1>1, <1>4, <1>5, LateStep

LEMMA SettleReadKeeps ==
  ASSUME IInv, NEW s \in Slot, SettleRead(s) PROVE Kept
<1> DEFINE c == [slot[s] EXCEPT !.seen = RunOf(s).state,
             !.pc = IF slot[s].pc = "settle" THEN "settling" ELSE "forcing"]
           d == [slot[s] EXCEPT !.pc = "force"]
<1>1. /\ slot[s].pc \in {"settle", "force"} /\ row' = row
      /\ status' = status /\ todo' = todo /\ jan' = jan
  BY DEF SettleRead
<1>2. /\ slot[s] \in Copy /\ slot[s].goal \notin Claimed
      /\ RunOf(s).state \in State
  BY <1>1, BusyFacts DEF InStep, Row
<1>3. /\ c \in Copy /\ c.run = slot[s].run /\ c.pc \in {"settling", "forcing"}
      /\ c.goal \notin Claimed
      /\ d \in Copy /\ d.run = slot[s].run /\ d.pc = "force"
      /\ d.goal \notin Claimed
  BY <1>1, <1>2 DEF Copy, Pc
<1>4. Leave(s) \/ Continue(s, c) \/ Continue(s, d)
  BY DEF SettleRead
<1> HIDE DEF c, d
<1>5. CASE Leave(s)
  BY <1>1, <1>5, QuietStep
<1>6. QED
  BY <1>1, <1>3, <1>4, <1>5, LateStep

LEMMA SettleFailedKeeps ==
  ASSUME IInv, NEW s \in Slot, SettleFailed(s), row' = row,
         status' = status, todo' = todo, jan' = jan
  PROVE  Kept
<1> DEFINE c == [slot[s] EXCEPT !.pc = "force", !.seen = NoState]
<1>1. slot[s].pc \notin {"idle", "leaving", "left"}
  BY DEF SettleFailed
<1>2. /\ c \in Copy /\ c.run = slot[s].run /\ c.pc = "force"
      /\ c.goal \notin Claimed
  BY <1>1, BusyFacts DEF Copy, Pc, InStep
<1>3. Continue(s, c) \/ Leave(s)
  BY DEF SettleFailed
<1> HIDE DEF c
<1>4. CASE Leave(s)
  BY <1>1, <1>4, QuietStep
<1>5. QED
  BY <1>1, <1>2, <1>3, <1>4, LateStep

LEMMA SettleWriteKeeps ==
  ASSUME IInv, NEW s \in Slot, SettleWrite(s) PROVE Kept
<1>1. /\ slot[s].pc \in {"settling", "forcing"} /\ status' = status
      /\ todo' = todo /\ jan' = jan
  BY DEF SettleWrite
<1>2. /\ Holding(s) /\ slot[s].goal \notin Claimed /\ slot[s].run \in Run
      /\ RunOf(s) \in Row
  BY <1>1, BusyFacts DEF InStep
<1>3. CASE SettleFailed(s) /\ row' = row
  BY <1>1, <1>3, SettleFailedKeeps
<1>4. CASE /\ row' = [row EXCEPT ![slot[s].run]
                             = Released(RunOf(s), slot[s].goal)]
           /\ Leave(s)
  <2>1. /\ OnlyRowOf(s)
        /\ row'[slot[s].run] = Released(RunOf(s), slot[s].goal)
    BY <1>2, <1>4 DEF OnlyRowOf, IInv, TypeOK
  <2>2. row'[slot[s].run].state \notin Claimed
    BY <1>2, <2>1 DEF Released, Row
  <2>3. Copies' /\ JanitorOwns'
    BY <1>1, <1>2, <1>4, <2>1, LeaveKeepsCopies, JanitorApart
  <2>4. ClaimIsReclaimable'
    BY <2>1, <2>2 DEF IInv, ClaimIsReclaimable, OnlyRowOf
  <2>5. QED
    BY <2>3, <2>4 DEF Kept
<1>5. QED
  BY <1>3, <1>4 DEF SettleWrite

LEMMA StoreFailsKeeps ==
  ASSUME IInv, NEW s \in Slot, StoreFails(s) PROVE Kept
<1>1. /\ row' = row /\ status' = status /\ todo' = todo /\ jan' = jan
      /\ \/ slot[s].pc \notin {"idle", "leaving", "left"} /\ Leave(s)
         \/ SettleFailed(s)
  BY DEF StoreFails
<1>2. QED
  BY <1>1, QuietStep, SettleFailedKeeps

LEMMA CancelWatchKeeps ==
  ASSUME IInv, NEW s \in Slot, CancelWatch(s) PROVE Kept
<1> DEFINE c == [slot[s] EXCEPT !.cancelled = TRUE]
<1>1. /\ slot[s].pc = "user" /\ row' = row /\ status' = status
      /\ todo' = todo /\ jan' = jan /\ Continue(s, c)
  BY DEF CancelWatch, Executing
<1>2. InStep(s) /\ slot[s] \in Copy
  BY <1>1, BusyFacts
<1>3. /\ c \in Copy /\ c.run = slot[s].run /\ c.pc = "user"
      /\ c.goal = slot[s].goal
  BY <1>1, <1>2 DEF Copy
<1> HIDE DEF c
<1>4. /\ Held(s)' /\ slot'[s] = c /\ RunOf(s)' = RunOf(s)
      /\ active' = active
  BY <1>1, <1>3, StillHeld
<1>5. InStep(s)'
  BY <1>1, <1>2, <1>3, <1>4 DEF InStep
<1>6. QED
  BY <1>1, <1>3, <1>4, <1>5, QuietStep

\* On its way out a goroutine deletes what is registered of its run and worker,
\* which is nobody else's.
LEMMA ForgetKeeps ==
  ASSUME IInv, NEW s \in Slot, Forget(s) \/ FreeSlot(s) PROVE Kept
<1>1. /\ slot[s].pc \in {"leaving", "left"} /\ row' = row
      /\ status' = status /\ todo' = todo /\ jan' = jan
      /\ slot'[s].pc \in {"left", "idle"}
      /\ slot'[s].pc # "idle" => slot'[s].run = slot[s].run
      /\ \A t \in Slot : t # s => slot'[t] = slot[t]
  BY DEF Forget, FreeSlot, IdleCopy, IInv, TypeOK, Copy
<1>2. /\ active \ SameCopies(s) \subseteq active'
      /\ leases \ {<<Host[s], slot[s].run>>} \subseteq leases'
      /\ active' \subseteq active
  BY DEF Forget, FreeSlot
<1>3. ASSUME NEW t \in Slot, Holding(t)' PROVE Held(t)' /\ InStep(t)'
  <2>1. t # s /\ slot'[t] = slot[t] /\ Holding(t)
    BY <1>1, <1>3 DEF Holding
  <2>2. ~(Host[t] = Host[s] /\ slot[t].run = slot[s].run)
    BY <1>1, <2>1 DEF IInv, NotOvertaken, Holding
  <2>3. Held(t) /\ InStep(t)
    BY <2>1 DEF IInv, CopiesHold
  <2>4. t \in active => t \in active'
    BY <1>2, <2>2 DEF SameCopies
  <2>5. <<Host[t], slot[t].run>> \in leases'
    BY <1>2, <2>2, <2>3 DEF Held
  <2>6. QED
    BY <1>1, <2>1, <2>3, <2>4, <2>5 DEF Held, InStep, RunOf
<1>4. OneCopy' /\ NotOvertaken'
  BY <1>1 DEF IInv, OneCopy, NotOvertaken, Holding
<1>5. JanitorOwns' /\ ClaimIsReclaimable'
  BY <1>1 DEF IInv, JanitorOwns, ClaimIsReclaimable
<1>6. QED
  BY <1>3, <1>4, <1>5 DEF Kept, Copies, CopiesHold

\* Only a run that nobody works on is leased.
LEMMA LeaseRunKeeps ==
  ASSUME Timely, IInv, NEW s \in Slot, NEW r \in Run, LeaseRun(s, r) PROVE Kept
<1> DEFINE n == row[r].runCount + 1
           c == [IdleCopy EXCEPT !.pc = "leased", !.run = r, !.attempt = n]
           d == [IdleCopy EXCEPT !.pc = "settle", !.run = r, !.attempt = n,
                                 !.goal = "SCHEDULED"]
           q == Lent(row[r], Host[s])
<1>1. /\ row[r].state = "SCHEDULED" /\ status' = status
      /\ status[Host[s]] = "up" /\ slot[s].pc = "idle"
      /\ todo' = todo /\ jan' = jan
      /\ leases' = leases \cup {<<Host[s], r>>}
  BY DEF LeaseRun, Busy
<1>2. /\ row[r] \in Row /\ Host[s] \in Worker /\ row'[r] = q
      /\ \A x \in Run : x # r => row'[x] = row[x]
  BY ConstantsAssumption DEF LeaseRun, IInv, TypeOK
<1>3. q.state = "PENDING" /\ q.worker = Host[s] /\ q.lease = "live"
  BY <1>2 DEF Lent, Row
<1>4. \A t \in Slot : Holding(t) => slot[t].run # r
  BY <1>1 DEF IInv, CopiesHold, Held, RunOf, Claimed
<1>5. slot'[s].run = r /\ slot'[s].goal \notin Claimed
      /\ \/ slot'[s].pc = "leased" /\ s \in active'
         \/ slot'[s].pc = "settle"
  <2>1. /\ c.run = r /\ c.pc = "leased" /\ c.goal \notin Claimed
        /\ d.run = r /\ d.pc = "settle" /\ d.goal \notin Claimed
    BY DEF IdleCopy, Claimed, NoState
  <2>2. \/ slot'[s] = c /\ s \in active'
        \/ slot'[s] = d
    BY DEF LeaseRun, IInv, TypeOK
  <2> HIDE DEF c, d
  <2>3. QED
    BY <2>1, <2>2
<1>6. ASSUME NEW t \in Slot, t # s
      PROVE  /\ slot'[t] = slot[t]
             /\ Holding(t) /\ t \in active => t \in active'
  BY <1>4, <1>6 DEF LeaseRun, IInv, TypeOK
<1> HIDE DEF c, d, q
<1>7. Held(s)' /\ InStep(s)'
  BY <1>1, <1>2, <1>3, <1>5 DEF Held, InStep, RunOf, Claimed
<1>8. ASSUME NEW t \in Slot, t # s, Holding(t)'
      PROVE  /\ Holding(t) /\ slot'[t] = slot[t] /\ slot[t].run # r
             /\ Held(t)' /\ InStep(t)'
  <2>1. Holding(t) /\ slot'[t] = slot[t] /\ slot[t].run # r
    BY <1>4, <1>6, <1>8 DEF Holding
  <2>2. /\ Held(t) /\ InStep(t) /\ slot[t].run \in Run
        /\ row'[slot[t].run] = row[slot[t].run]
    BY <1>2, <2>1, BusyFacts DEF Holding
  <2>3. Held(t)'
    BY <1>1, <2>1, <2>2 DEF Held, RunOf
  <2>4. InStep(t)'
    BY <1>6, <1>8, <2>1, <2>2 DEF InStep, RunOf
  <2>5. QED
    BY <2>1, <2>3, <2>4
<1>9. Copies'
  <2>1. CopiesHold'
    BY <1>7, <1>8 DEF CopiesHold
  <2>2. OneCopy'
    BY <1>5, <1>8 DEF IInv, OneCopy
  <2>3. ASSUME NEW t \in Slot, t # s, slot[t].pc # "idle", Host[t] = Host[s]
        PROVE  slot[t].run # r
    BY <1>4, <2>3 DEF LeaseRun, Timely, Unwinding, Holding
  <2>4. NotOvertaken'
    BY <1>5, <1>6, <2>3 DEF IInv, NotOvertaken
  <2>5. QED
    BY <2>1, <2>2, <2>4 DEF Copies
<1>10. JanitorOwns'
  BY <1>1, <1>2 DEF IInv, JanitorOwns
<1>11. ClaimIsReclaimable'
  BY <1>2, <1>3, ConstantsAssumption DEF IInv, ClaimIsReclaimable
<1>12. QED
  BY <1>9, <1>10, <1>11 DEF Kept

LEMMA WorkerCrashesKeeps ==
  ASSUME IInv, NEW w \in Worker, WorkerCrashes(w) PROVE Kept
<1>1. /\ row' = row /\ todo' = todo /\ jan' = jan
      /\ \A l \in leases : l[1] # w => l \in leases'
      /\ \A s \in Slot : Host[s] = w => slot'[s].pc = "idle"
      /\ \A s \in Slot : Host[s] # w =>
           /\ slot'[s] = slot[s] /\ status'[Host[s]] = status[Host[s]]
           /\ s \in active => s \in active'
  BY ConstantsAssumption DEF WorkerCrashes, IInv, TypeOK, IdleCopy
<1>2. ASSUME NEW s \in Slot, Holding(s)' PROVE Held(s)' /\ InStep(s)'
  <2>1. Host[s] # w /\ slot'[s] = slot[s] /\ Holding(s)
    BY <1>1, <1>2 DEF Holding
  <2>2. Held(s) /\ InStep(s)
    BY <2>1 DEF IInv, CopiesHold
  <2>3. QED
    BY <1>1, <2>1, <2>2 DEF Held, InStep, RunOf
<1>3. OneCopy' /\ NotOvertaken'
  BY <1>1 DEF IInv, OneCopy, NotOvertaken, Holding
<1>4. JanitorOwns' /\ ClaimIsReclaimable'
  BY <1>1 DEF IInv, JanitorOwns, ClaimIsReclaimable
<1>5. QED
  BY <1>2, <1>3, <1>4 DEF Kept, Copies, CopiesHold

\* Engine.Cancel touches nothing but flags.
LEMMA CancelStays ==
  ASSUME IInv, NEW w, NEW r, Cancel(w, r), leases' = leases,
         active' = active, status' = status
  PROVE  SlotsStay
<1>1. \A s \in Slot : \/ slot'[s] = slot[s]
                      \/ slot'[s] = [slot[s] EXCEPT !.cancelled = TRUE]
  BY DEF Cancel, IInv, TypeOK
<1>2. \A s \in Slot : slot[s] \in Copy
  BY DEF IInv, TypeOK
<1>3. QED
  BY <1>1, <1>2 DEF SlotsStay, Copy

LEMMA RenewLeaseKeeps ==
  ASSUME IInv, NEW w \in Worker, NEW r \in Run, RenewLease(w, r)
  PROVE  Kept
<1>1. SlotsStay
  BY CancelStays DEF RenewLease, SlotsStay
<1>2. \A x \in Run : /\ row'[x].worker = row[x].worker
                     /\ row'[x].state = row[x].state
                     /\ row'[x].lease \in {row[x].lease, "live"}
  BY DEF RenewLease, IInv, TypeOK, Row
<1>3. Copies'
  <2>1. ASSUME NEW s \in Slot, Holding(s)
        PROVE  slot[s].run \in Run /\ row[slot[s].run].lease = "live"
    BY <2>1, BusyFacts DEF Holding, Held, RunOf
  <2>2. QED
    BY <1>1, <1>2, <2>1, OthersKeepCopies
<1>4. JanitorOwns' /\ ClaimIsReclaimable'
  BY <1>2 DEF RenewLease, IInv, JanitorOwns, ClaimIsReclaimable, TypeOK
<1>5. QED
  BY <1>3, <1>4 DEF Kept

\* Steps of nobody in particular that change no run in a worker's hands,
\* except for a cancellation.
LEMMA OtherStep ==
  ASSUME IInv, SlotsStay,
         \A s \in Slot : Holding(s) =>
           LET r == slot[s].run IN
           /\ row'[r].worker = row[r].worker /\ row'[r].lease = "live"
           /\ row'[r].state \in {row[r].state, "CANCELLING"},
         JanitorOwns',
         \A r \in Run : row'[r].state \in Claimed =>
           /\ row[r].state \in Claimed
           /\ row'[r].worker = row[r].worker
           /\ row'[r].lease = "none" => row[r].lease = "none"
  PROVE  Kept
<1>1. ClaimIsReclaimable'
  BY DEF IInv, ClaimIsReclaimable
<1>2. QED
  BY <1>1, OthersKeepCopies DEF Kept

LEMMA RequestCancelKeeps ==
  ASSUME IInv, NEW r \in Run, RequestCancel(r) PROVE Kept
<1>1. SlotsStay /\ todo' = todo /\ jan' = jan
  BY DEF RequestCancel, SlotsStay
<1>2. \A x \in Run : /\ row'[x].worker = row[x].worker
                     /\ row'[x].lease = row[x].lease
                     /\ \/ row'[x].state = row[x].state
                        \/ row'[x].state = CancelState(row[x].state)
  BY DEF RequestCancel, IInv, TypeOK, Row
<1>3. \A st \in State :
        /\ st \in Claimed => CancelState(st) \in {st, "CANCELLING"}
        /\ CancelState(st) \in Claimed => st \in Claimed
        /\ st = "CRASHED" => CancelState(st) = "CRASHED"
  BY DEF CancelState, Claimed, State
<1>4. \A x \in Run : row[x].state \in State
  BY DEF IInv, TypeOK, Row
<1>5. ASSUME NEW s \in Slot, Holding(s)
      PROVE  /\ slot[s].run \in Run /\ RunOf(s).lease = "live"
             /\ RunOf(s).state \in Claimed
  BY <1>5, BusyFacts DEF Holding, Held
<1>6. JanitorOwns'
  BY <1>1, <1>2, <1>3, <1>4 DEF IInv, JanitorOwns, TypeOK
<1>7. QED
  BY <1>1, <1>2, <1>3, <1>4, <1>5, <1>6, OtherStep DEF RunOf

LEMMA RescheduleRunKeeps ==
  ASSUME IInv, Timely, NEW r \in Run, RescheduleRun(r) PROVE Kept
<1>1. /\ SlotsStay /\ todo' = todo /\ jan' = jan
      /\ row[r].state \in Terminal \cup {"SCHEDULED"}
  BY DEF RescheduleRun, SlotsStay, Timely
<1>2. /\ row'[r].state = "SCHEDULED"
      /\ \A x \in Run : x # r => row'[x] = row[x]
  BY DEF RescheduleRun, Rescheduled, Released, IInv, TypeOK, Row
<1>3. ASSUME NEW s \in Slot, Holding(s)
      PROVE  /\ slot[s].run \in Run \ {r} /\ RunOf(s).lease = "live"
  BY <1>1, <1>3, BusyFacts DEF Holding, Held, RunOf, Claimed, Terminal
<1>4. JanitorOwns'
  BY <1>1, <1>2 DEF IInv, JanitorOwns, TypeOK, Terminal
<1>5. QED
  BY <1>1, <1>2, <1>3, <1>4, OtherStep DEF RunOf, Claimed

LEMMA LeaseLapsesKeeps ==
  ASSUME IInv, Timely, NEW r \in Run, LeaseLapses(r) PROVE Kept
<1>1. SlotsStay /\ todo' = todo /\ jan' = jan /\ ~KeptAlive(r)
  BY DEF LeaseLapses, SlotsStay, Timely
<1>2. \A x \in Run : /\ row'[x].state = row[x].state
                     /\ row'[x].worker = row[x].worker
                     /\ x # r => row'[x] = row[x]
                     /\ row'[x].lease = "none" => row[x].lease = "none"
  BY DEF LeaseLapses, IInv, TypeOK, Row
<1>3. ASSUME NEW s \in Slot, Holding(s)
      PROVE  /\ slot[s].run \in Run \ {r} /\ RunOf(s).lease = "live"
  <2>1. Held(s) /\ slot[s].run \in Run
    BY <1>3, BusyFacts DEF Holding
  <2>2. KeptAlive(slot[s].run)
    BY <2>1 DEF Held, RunOf, KeptAlive
  <2>3. QED
    BY <1>1, <2>1, <2>2 DEF Held
<1>4. JanitorOwns'
  BY <1>1, <1>2 DEF IInv, JanitorOwns, TypeOK
<1>5. QED
  BY <1>1, <1>2, <1>3, <1>4, OtherStep DEF RunOf

LEMMA JanitorKeeps ==
  ASSUME IInv, JanitorStep \/ JanitorCrashes PROVE Kept
<1>1. SlotsStay
  BY DEF JanitorStep, JanitorCrashes, Reclaim, JanitorRead, JanitorWrite,
         SlotsStay
<1>2. ASSUME NEW s \in Slot, Holding(s)
      PROVE  /\ slot[s].run \in Run /\ RunOf(s).lease = "live"
             /\ RunOf(s).state \in Claimed
  BY <1>2, BusyFacts DEF Holding, Held
<1>3. CASE Reclaim
  <2>1. \A r \in Run :
          \/ row'[r] = row[r] /\ todo'[r] = 0
          \/ /\ row'[r].state = "CRASHED" /\ row[r].lease = "lapsed"
    BY <1>3 DEF Reclaim, Released, IInv, TypeOK, Row
  <2>2. JanitorOwns'
    BY <1>3, <2>1 DEF Reclaim, JanitorOwns, IdleJanitor
  <2>3. QED
    BY <1>1, <1>2, <2>1, <2>2, OtherStep DEF RunOf, Claimed
<1>4. ASSUME NEW r \in Run, JanitorRead(r) PROVE Kept
  <2>1. row' = row /\ row[r].state = "CRASHED" /\ todo[r] > 0 /\ jan.run = NoRun
    BY <1>4 DEF JanitorRead, IInv, JanitorOwns
  <2>2. ~Unchanged("CRASHED", JanitorGoal(r))
    BY DEF Unchanged, JanitorGoal
  <2>3. todo' = todo /\ jan' = [run |-> r, seen |-> "CRASHED"]
    BY <1>4, <2>1, <2>2 DEF JanitorRead
  <2>4. JanitorOwns'
    BY <2>1, <2>3 DEF IInv, JanitorOwns
  <2>5. QED
    BY <1>1, <1>2, <2>1, <2>4, OtherStep DEF RunOf
<1>5. CASE JanitorWrite
  <2>1. /\ jan.run \in Run /\ row[jan.run].state = "CRASHED"
        /\ row[jan.run] \in Row
    BY <1>5 DEF JanitorWrite, IInv, JanitorOwns, TypeOK
  <2>2. /\ \A r \in Run : r # jan.run => row'[r] = row[r]
        /\ row'[jan.run].state \in {"CRASHED", "SCHEDULED", "FAILED"}
    <3>1. Released(row[jan.run], JanitorGoal(jan.run)).state
            \in {"SCHEDULED", "FAILED"}
      BY <2>1 DEF Released, JanitorGoal, Row
    <3>2. QED
      BY <1>5, <2>1, <3>1 DEF JanitorWrite, IInv, TypeOK
  <2>3. JanitorOwns'
    BY <1>5, <2>1, <2>2 DEF JanitorWrite, IInv, JanitorOwns, TypeOK, IdleJanitor
  <2>4. QED
    BY <1>1, <1>2, <2>1, <2>2, <2>3, OtherStep DEF RunOf, Claimed
<1>6. CASE JanitorCrashes
  <2>1. JanitorOwns' /\ row' = row
    BY <1>6 DEF JanitorCrashes, JanitorOwns, IdleJanitor
  <2>2. QED
    BY <1>1, <1>2, <2>1, OtherStep DEF RunOf
<1>7. QED
  BY <1>3, <1>4, <1>5, <1>6 DEF JanitorStep
LEMMA IInit == Init => IInv
<1> SUFFICES ASSUME Init PROVE IInv
  OBVIOUS
<1>1. /\ \A s \in Slot : slot[s].pc = "idle"
      /\ \A r \in Run : /\ row[r].state = "SCHEDULED" /\ row[r].lease = "none"
                        /\ row[r].worker = NoWorker /\ todo[r] = 0
      /\ jan.run = NoRun
  BY DEF Init, IdleCopy, NewRow, IdleJanitor
<1>2. NoStaleClaim /\ CopiesHold /\ OneCopy /\ NotOvertaken
  BY <1>1 DEF NoStaleClaim, CopiesHold, OneCopy, NotOvertaken, Holding
<1>3. JanitorOwns /\ ClaimIsReclaimable
  BY <1>1 DEF JanitorOwns, ClaimIsReclaimable, Claimed
<1>4. QED
  BY <1>2, <1>3, TypeInit DEF IInv

LEMMA IStep == Timely /\ IInv /\ [Next]_vars => IInv'
<1> SUFFICES ASSUME Timely, IInv, [Next]_vars PROVE IInv'
  OBVIOUS
<1>1. TypeOK' /\ NoStaleClaim'
  BY TypeStep, NoStaleClaimStep DEF IInv
<1>2. ASSUME NEW s \in Slot, SlotStep(s) PROVE Kept
  BY <1>2, StartReadKeeps, StartWriteKeeps, UserReturnsKeeps, FinishKeeps,
     SettleReadKeeps, SettleWriteKeeps, ForgetKeeps DEF SlotStep
<1>3. ASSUME NEW s \in Slot, StoreFails(s) \/ CancelWatch(s) PROVE Kept
  BY <1>3, StoreFailsKeeps, CancelWatchKeeps
<1>4. ASSUME NEW s \in Slot, NEW r \in Run, LeaseRun(s, r) PROVE Kept
  BY <1>4, LeaseRunKeeps
<1>5. ASSUME NEW w \in Worker, WorkerCrashes(w) PROVE Kept
  BY <1>5, WorkerCrashesKeeps
<1>6. ASSUME NEW w \in Worker, NEW r \in Run, RenewLease(w, r) PROVE Kept
  BY <1>6, RenewLeaseKeeps
<1>7. ASSUME NEW w \in Worker, NEW r \in Run, ControlMessage(w, r)
      PROVE  Kept
  <2>1. SlotsStay /\ row' = row /\ todo' = todo /\ jan' = jan
    BY <1>7, CancelStays DEF ControlMessage
  <2>2. JanitorOwns'
    BY <2>1 DEF IInv, JanitorOwns
  <2>3. ASSUME NEW s \in Slot, Holding(s) PROVE RunOf(s).lease = "live"
    BY <2>3 DEF IInv, CopiesHold, Held
  <2>4. QED
    BY <2>1, <2>2, <2>3, OtherStep DEF RunOf
<1>8. ASSUME NEW r \in Run,
             RequestCancel(r) \/ RescheduleRun(r) \/ LeaseLapses(r)
      PROVE  Kept
  BY <1>8, RequestCancelKeeps, RescheduleRunKeeps, LeaseLapsesKeeps
<1>9. ASSUME JanitorStep \/ JanitorCrashes PROVE Kept
  BY <1>9, JanitorKeeps
<1>10. CASE UNCHANGED vars
  <2>1. CopiesHold' /\ OneCopy' /\ NotOvertaken'
    BY <1>10 DEF vars, IInv, CopiesHold, OneCopy, NotOvertaken, Held, InStep,
                 RunOf, Holding
  <2>2. JanitorOwns' /\ ClaimIsReclaimable'
    BY <1>10 DEF vars, IInv, JanitorOwns, ClaimIsReclaimable
  <2>3. QED
    BY <1>1, <2>1, <2>2 DEF IInv
<1>11. CASE Kept
  BY <1>1, <1>11 DEF Kept, Copies, IInv
<1>12. QED
  <2>1. Next \/ UNCHANGED vars
    OBVIOUS
  <2>2. CASE \E s \in Slot :
               \/ SlotStep(s) \/ StoreFails(s) \/ AckLost(s) \/ CancelWatch(s)
               \/ \E r \in Run : LeaseRun(s, r) \/ LeaseLost(s, r)
    BY <2>2, <1>2, <1>3, <1>4, <1>11 DEF AckLost, LeaseLost, Timely
  <2>3. CASE \E w \in Worker :
               \/ WorkerCrashes(w) \/ WorkerDrains(w)
               \/ \E r \in Run : RenewLease(w, r) \/ ControlMessage(w, r)
    BY <2>3, <1>5, <1>6, <1>7, <1>11 DEF WorkerDrains, Timely
  <2>4. CASE \E r \in Run :
               RequestCancel(r) \/ RescheduleRun(r) \/ LeaseLapses(r)
    BY <2>4, <1>8, <1>11
  <2>5. CASE JanitorStep \/ JanitorCrashes
    BY <2>5, <1>9, <1>11
  <2>6. QED
    BY <2>1, <2>2, <2>3, <2>4, <2>5, <1>10 DEF Next

LEMMA Invariance == ASSUME Timely PROVE Spec => []IInv
<1>1. Init => IInv
  BY IInit
<1>2. IInv /\ [Next]_vars => IInv'
  BY IStep, Timely
<1>3. QED
  BY <1>1, <1>2, PTL DEF Spec

\* While leases are renewed in time, and no goroutine is overtaken by its own
\* worker on its way out, a run is inside the flow function of at most one slot
\* of one worker, whatever crashes, fails or is cancelled.
THEOREM OneExecutor == ASSUME Timely PROVE Spec => []AtMostOneExecutor
<1>1. IInv => AtMostOneExecutor
  BY DEF IInv, OneCopy, AtMostOneExecutor, Executing, Holding
<1>2. QED
  BY <1>1, Invariance, PTL

\* ... its row names that worker, and is RUNNING or CANCELLING ...
THEOREM ExecutorIsOwner == ASSUME Timely PROVE Spec => []ExecutorOwnsRow
<1>1. IInv => ExecutorOwnsRow
  BY DEF IInv, CopiesHold, Held, InStep, ExecutorOwnsRow, Executing, Holding
<1>2. QED
  BY <1>1, Invariance, PTL

\* ... Engine.Cancel finds it ...
THEOREM CancelReaches == ASSUME Timely PROVE Spec => []CancelReachesExecutor
<1>1. IInv => CancelReachesExecutor
  BY DEF IInv, CopiesHold, InStep, CancelReachesExecutor, Executing, Holding
<1>2. QED
  BY <1>1, Invariance, PTL

\* ... and the janitor can take back every claim.
THEOREM Reclaimable == ASSUME Timely PROVE Spec => []ClaimIsReclaimable
<1>1. IInv => ClaimIsReclaimable
  BY DEF IInv
<1>2. QED
  BY <1>1, Invariance, PTL
\* Nobody but an operator takes a run out of a terminal state, and two workers
\* never write two verdicts.
THEOREM VerdictsStand == ASSUME Timely PROVE Spec => TerminalIsFinal
<1>1. ASSUME IInv, [Next]_vars, NEW r \in Run, row[r].state \in Terminal,
             row'[r].state # row[r].state
      PROVE  RescheduleRun(r)
  <2>1. ASSUME NEW s \in Slot, Holding(s)
        PROVE  slot[s].run # r
    BY <1>1, <2>1, BusyFacts DEF Holding, Held, RunOf, Claimed, Terminal
  <2>2. ASSUME NEW s \in Slot,
               SlotStep(s) \/ StoreFails(s) \/ CancelWatch(s)
        PROVE  row'[r] = row[r]
    <3>1. Holding(s) \/ row' = row
      BY <2>2 DEF SlotStep, StartRead, StartWrite, UserReturns, Finish,
                  SettleRead, SettleWrite, StoreFails, CancelWatch, Forget,
                  FreeSlot, Holding
    <3>2. slot[s].run # r \/ row' = row
      BY <2>1, <3>1
    <3>3. row' = row \/ \E p : row' = [row EXCEPT ![slot[s].run] = p]
      BY <2>2 DEF SlotStep, StartRead, StartWrite, UserReturns, Finish,
                  SettleRead, SettleWrite, StoreFails, CancelWatch, Forget,
                  FreeSlot
    <3>4. QED
      BY <1>1, <3>2, <3>3 DEF IInv, TypeOK
  <2>3. ASSUME NEW s \in Slot, NEW q \in Run, LeaseRun(s, q)
        PROVE  row'[r] = row[r]
    BY <1>1, <2>3 DEF LeaseRun, IInv, TypeOK, Terminal
  <2>4. ASSUME NEW w \in Worker, NEW q \in Run,
               WorkerCrashes(w) \/ RenewLease(w, q) \/ ControlMessage(w, q)
        PROVE  row'[r].state = row[r].state
    BY <1>1, <2>4
       DEF WorkerCrashes, RenewLease, ControlMessage, IInv, TypeOK, Row
  <2>5. ASSUME NEW q \in Run, RequestCancel(q) \/ LeaseLapses(q)
        PROVE  row'[r].state = row[r].state
    BY <1>1, <2>5
       DEF RequestCancel, CancelState, LeaseLapses, Terminal, IInv, TypeOK, Row
  <2>6. ASSUME NEW q \in Run, RescheduleRun(q)
        PROVE  RescheduleRun(r)
    BY <1>1, <2>6 DEF RescheduleRun, IInv, TypeOK
  <2>7. ASSUME JanitorStep \/ JanitorCrashes PROVE row'[r] = row[r]
    <3>1. jan.run \in Run => row[jan.run].state = "CRASHED"
      BY <1>1, ConstantsAssumption DEF IInv, JanitorOwns
    <3>2. QED
      BY <1>1, <2>7, <3>1
         DEF JanitorStep, JanitorCrashes, Reclaim, JanitorRead, JanitorWrite,
             IInv, TypeOK, Terminal, Claimed
  <2>8. ~(row' = row)
    BY <1>1
  <2>9. QED
    <3>1. Timely
      OBVIOUS
    <3>2. \A s \in Slot : ~AckLost(s)
      BY <3>1 DEF AckLost, Timely
    <3>3. \A s \in Slot, q \in Run : ~LeaseLost(s, q)
      BY <3>1 DEF LeaseLost, Timely
    <3>4. \A w \in Worker : ~WorkerDrains(w)
      BY <3>1 DEF WorkerDrains, Timely
    <3>5. Next
      BY <1>1, <2>8 DEF vars
    <3>6. QED
      BY <1>1, <2>2, <2>3, <2>4, <2>5, <2>6, <2>7, <3>2, <3>3, <3>4, <3>5
         DEF Next
<1>2. IInv /\ [Next]_vars
        => [\A r \in Run : row[r].state \in Terminal
                             /\ row'[r].state # row[r].state
                           => RescheduleRun(r)]_vars
  BY <1>1
<1>3. QED
  BY <1>2, Invariance, PTL DEF Spec, TerminalIsFinal

-----------------------------------------------------------------------------
(***************************************************************************)
(* RunLifecycle implements RunContract, for every set of runs and workers. *)
(***************************************************************************)

\* The contract sees nothing of a step that leaves the states of the rows and
\* the slots inside a flow function alone.
LEMMA Stutter ==
  ASSUME \A s \in Slot : Executed(s)' = Executed(s),
         \A r \in Run : VerdictOf(r)' = VerdictOf(r)
  PROVE  UNCHANGED Contract!cvars
BY DEF Contract!cvars

\* A run in a goroutine's hands is open, and the goroutine is alone with it.
LEMMA HeldIsOpen ==
  ASSUME IInv, NEW s \in Slot, slot[s].pc \notin {"idle", "leaving", "left"}
  PROVE  /\ slot[s].run \in Run /\ slot[s].run # NoRun
         /\ VerdictOf(slot[s].run) = "open"
         /\ \A t \in Slot : Executed(t) = slot[s].run => t = s
<1>1. slot[s].run \in Run /\ slot[s].run # NoRun
  BY BusyFacts, ConstantsAssumption
<1>2. VerdictOf(slot[s].run) = "open"
  BY BusyFacts DEF Held, RunOf, VerdictOf, Claimed, Terminal
<1>3. ASSUME NEW t \in Slot, Executed(t) = slot[s].run PROVE t = s
  <2>1. slot[t].pc = "user" /\ slot[t].run = slot[s].run
    BY <1>1, <1>3 DEF Executed, Executing
  <2>2. QED
    BY <2>1 DEF IInv, OneCopy, Holding
<1>4. QED
  BY <1>1, <1>2, <1>3

\* A run that nobody claims is in nobody's flow function.
LEMMA UnclaimedIsIdle ==
  ASSUME IInv, NEW r \in Run, row[r].state \notin Claimed
  PROVE  \A s \in Slot : Executed(s) # r
<1>1. SUFFICES ASSUME NEW s \in Slot, Executed(s) = r PROVE FALSE
  OBVIOUS
<1>2. slot[s].pc = "user" /\ slot[s].run = r
  BY <1>1, ConstantsAssumption DEF Executed, Executing
<1>3. QED
  BY <1>2, BusyFacts DEF Held, RunOf

\* A step of one goroutine that leaves every row alone ends its execution or
\* changes nothing, unless it enters the flow function.
LEMMA LeaveOrStay ==
  ASSUME IInv, NEW s \in Slot, slot[s].pc # "idle", row' = row,
         \A t \in Slot \ {s} : slot'[t] = slot[t],
         slot'[s].pc = "user" => slot[s].pc = "user" /\ slot'[s].run = slot[s].run
  PROVE  [Contract!CNext]_(Contract!cvars)
<1>1. \A t \in Slot \ {s} : Executed(t)' = Executed(t)
  BY DEF Executed, Executing
<1>2. \A r \in Run : VerdictOf(r)' = VerdictOf(r)
  BY DEF VerdictOf
<1>3. CASE slot'[s].pc = "user"
  <2>1. Executed(s)' = Executed(s)
    BY <1>3 DEF Executed, Executing
  <2>2. QED
    BY <1>1, <1>2, <2>1, Stutter
<1>4. CASE slot'[s].pc # "user"
  <2>1. Executed(s)' = NoRun
    BY <1>4 DEF Executed, Executing
  <2>2. Contract!End({s})
    BY <1>1, <1>2, <2>1 DEF Contract!End
  <2>3. QED
    BY <2>2 DEF Contract!CNext, Contract!Proceed
<1>5. QED
  BY <1>3, <1>4

\* A step that keeps every slot where it is, and gives a run its verdict while
\* nobody executes it, or takes it back.
LEMMA RowStep ==
  ASSUME NEW r \in Run, \A s \in Slot : Executed(s)' = Executed(s),
         \A q \in Run \ {r} : VerdictOf(q)' = VerdictOf(q),
         \/ VerdictOf(r)' = VerdictOf(r)
         \/ VerdictOf(r) = "open" /\ \A s \in Slot : Executed(s) # r
         \/ VerdictOf(r)' = "open"
  PROVE  [Contract!CNext]_(Contract!cvars)
<1>1. CASE VerdictOf(r)' = VerdictOf(r)
  BY <1>1, Stutter
<1>2. CASE /\ VerdictOf(r) = "open" /\ \A s \in Slot : Executed(s) # r
           /\ VerdictOf(r)' # VerdictOf(r)
  <2>1. VerdictOf(r)' \in Terminal
    BY <1>2 DEF VerdictOf
  <2>2. PICK v \in Terminal : VerdictOf(r)' = v
    BY <2>1
  <2>3. \A q \in Run : VerdictOf(q)' = IF q = r THEN v ELSE VerdictOf(q)
    BY <2>2
  <2>4. [q \in Run |-> VerdictOf(q)]' = [[q \in Run |-> VerdictOf(q)] EXCEPT ![r] = v]
    BY <2>3
  <2>5. Contract!Decide(r, v)
    BY <1>2, <2>4 DEF Contract!Decide, Contract!Idle
  <2>6. QED
    BY <2>5 DEF Contract!CNext, Contract!Proceed
<1>3. CASE VerdictOf(r) # "open" /\ VerdictOf(r)' = "open"
  <2>1. Contract!Reopen(r)
    BY <1>3 DEF Contract!Reopen
  <2>2. QED
    BY <2>1 DEF Contract!CNext, Contract!Proceed
<1>4. QED
  BY <1>1, <1>2, <1>3

\* Slots that stay where they are execute what they executed.
LEMMA StayExecuting ==
  ASSUME SlotsStay PROVE \A s \in Slot : Executed(s)' = Executed(s)
BY DEF SlotsStay, Executed, Executing

\* What the steps of a goroutine do to the table of slots.
LEMMA OneSlot ==
  ASSUME IInv, NEW s \in Slot
  PROVE  /\ Leave(s) => /\ slot'[s].pc # "user"
                         /\ \A t \in Slot \ {s} : slot'[t] = slot[t]
         /\ \A c : Continue(s, c) => /\ slot'[s] = c
                                     /\ \A t \in Slot \ {s} : slot'[t] = slot[t]
BY DEF Leave, Continue, IdleCopy, IInv, TypeOK

\* A goroutine that goes on outside the flow function, or stays in it, with its
\* run, or returns.
LEMMA MovesOn ==
  ASSUME IInv, NEW s \in Slot, slot[s].pc \notin {"idle", "leaving", "left"}, row' = row,
         NEW c, Continue(s, c), c.run = slot[s].run,
         c.pc = "user" => slot[s].pc = "user"
  PROVE  [Contract!CNext]_(Contract!cvars)
BY OneSlot, LeaveOrStay

LEMMA GivesUp ==
  ASSUME IInv, NEW s \in Slot, slot[s].pc \notin {"idle", "leaving", "left"}, row' = row, Leave(s)
  PROVE  [Contract!CNext]_(Contract!cvars)
BY OneSlot, LeaveOrStay

\* The goroutine's step starts the run ...
LEMMA StartSteps ==
  ASSUME IInv, NEW s \in Slot, StartRead(s) \/ StartWrite(s)
  PROVE  [Contract!CNext]_(Contract!cvars)
<1>1. /\ slot[s].pc \in {"leased", "starting"} /\ slot[s] \in Copy
      /\ RunOf(s).state \in {"PENDING", "CANCELLING"}
  BY BusyFacts DEF StartRead, StartWrite, InStep
<1>2. CASE StartRead(s)
  <2>1. ~Unchanged(RunOf(s).state, "RUNNING")
    BY <1>1 DEF Unchanged
  <2>2. /\ row' = row
        /\ \/ Leave(s)
           \/ Continue(s, [slot[s] EXCEPT !.pc = "starting", !.seen = RunOf(s).state])
    BY <1>2, <2>1 DEF StartRead
  <2>3. [slot[s] EXCEPT !.pc = "starting", !.seen = RunOf(s).state].pc = "starting"
    BY <1>1 DEF Copy
  <2>4. QED
    BY <1>1, <2>2, <2>3, OneSlot, LeaveOrStay
<1>3. CASE StartWrite(s) /\ Leave(s) /\ row' = row
  <2>1. slot'[s].pc # "user" /\ \A t \in Slot \ {s} : slot'[t] = slot[t]
    BY <1>3, OneSlot
  <2>2. QED
    BY <1>1, <1>3, <2>1, LeaveOrStay
<1>4. CASE /\ row' = [row EXCEPT ![slot[s].run] = Started(RunOf(s), Host[s])]
           /\ Continue(s, [slot[s] EXCEPT !.pc = "user", !.seen = NoState,
                                          !.attempt = RunOf(s).runCount])
  <2> DEFINE r == slot[s].run
  <2>1. /\ r \in Run /\ r # NoRun /\ VerdictOf(r) = "open"
        /\ \A t \in Slot : Executed(t) # r
    <3>1. Executed(s) = NoRun
      BY <1>1 DEF Executed, Executing
    <3>2. QED
      BY <1>1, <3>1, HeldIsOpen
  <2>2. /\ slot'[s].pc = "user" /\ slot'[s].run = r
        /\ \A t \in Slot \ {s} : slot'[t] = slot[t]
    BY <1>1, <1>4 DEF Continue, IInv, TypeOK, Copy
  <2>3. /\ Executed(s)' = r
        /\ \A t \in Slot \ {s} : Executed(t)' = Executed(t)
    BY <2>2 DEF Executed, Executing
  <2>4. \A q \in Run : VerdictOf(q)' = VerdictOf(q)
    <3>1. row'[r].state = "RUNNING" /\ \A q \in Run \ {r} : row'[q] = row[q]
      BY <1>1, <1>4, <2>1, BusyFacts DEF Started, IInv, TypeOK, Row
    <3>2. QED
      BY <2>1, <3>1 DEF VerdictOf, Terminal
  <2>5. Executed(s) = NoRun
    BY <1>1 DEF Executed, Executing
  <2>6. Contract!Begin(s, r)
    BY <2>1, <2>3, <2>4, <2>5 DEF Contract!Begin, Contract!Idle
  <2>7. QED
    BY <2>1, <2>6 DEF Contract!CNext, Contract!Proceed
<1>5. QED
  BY <1>2, <1>3, <1>4 DEF StartWrite

\* ... or is past the start, or fails, and writes no row ...
LEMMA LaterSteps ==
  ASSUME IInv, NEW s \in Slot,
         \/ \E o \in Outcome : UserReturns(s, o)
         \/ Finish(s) \/ SettleRead(s) \/ StoreFails(s) \/ CancelWatch(s)
         \/ SettleWrite(s) /\ row' = row
  PROVE  [Contract!CNext]_(Contract!cvars)
<1>1. slot[s].pc \notin {"idle", "leaving", "left"} /\ row' = row
  BY DEF UserReturns, Executing, Finish, SettleRead, SettleWrite, StoreFails, SettleFailed,
         CancelWatch
<1>2. slot[s] \in Copy
  BY <1>1, BusyFacts
<1>3. CASE \E o \in Outcome : UserReturns(s, o)
  <2> PICK o \in Outcome : UserReturns(s, o)
    BY <1>3
  <2> DEFINE c == [slot[s] EXCEPT !.cancelled = FALSE]
             d == [c EXCEPT !.pc = "settle", !.goal = "SCHEDULED"]
             e == [c EXCEPT !.pc = "returned", !.outcome = o]
  <2>1. d.run = slot[s].run /\ d.pc = "settle" /\ e.run = slot[s].run /\ e.pc = "returned"
    BY <1>2 DEF Copy
  <2>2. Continue(s, d) \/ Continue(s, e)
    BY DEF UserReturns
  <2> HIDE DEF d, e
  <2>3. QED
    BY <1>1, <2>1, <2>2, MovesOn
<1>4. CASE Finish(s)
  <2> PICK b \in BOOLEAN :
        Continue(s, [slot[s] EXCEPT !.pc = "settle", !.outcome = "-", !.goal = Goal(slot[s], b)])
    BY <1>4 DEF Finish, CancelRequested
  <2> DEFINE c == [slot[s] EXCEPT !.pc = "settle", !.outcome = "-", !.goal = Goal(slot[s], b)]
  <2>1. c.run = slot[s].run /\ c.pc = "settle"
    BY <1>2 DEF Copy
  <2> HIDE DEF c
  <2>2. QED
    BY <1>1, <2>1, MovesOn DEF c
<1>5. CASE SettleRead(s)
  <2> DEFINE c == [slot[s] EXCEPT !.seen = RunOf(s).state,
                     !.pc = IF slot[s].pc = "settle" THEN "settling" ELSE "forcing"]
             d == [slot[s] EXCEPT !.pc = "force"]
  <2>1. c.run = slot[s].run /\ c.pc # "user" /\ d.run = slot[s].run /\ d.pc = "force"
    BY <1>2 DEF Copy
  <2>2. Leave(s) \/ Continue(s, c) \/ Continue(s, d)
    BY <1>5 DEF SettleRead
  <2> HIDE DEF c, d
  <2>3. QED
    BY <1>1, <2>1, <2>2, MovesOn, GivesUp
<1>6. CASE StoreFails(s) \/ SettleWrite(s)
  <2> DEFINE c == [slot[s] EXCEPT !.pc = "force", !.seen = NoState]
  <2>1. c.run = slot[s].run /\ c.pc = "force"
    BY <1>2 DEF Copy
  <2>2. Leave(s) \/ Continue(s, c)
    BY <1>6 DEF StoreFails, SettleWrite, SettleFailed
  <2> HIDE DEF c
  <2>3. QED
    BY <1>1, <2>1, <2>2, MovesOn, GivesUp
<1>7. CASE CancelWatch(s)
  <2> DEFINE c == [slot[s] EXCEPT !.cancelled = TRUE]
  <2>1. c.run = slot[s].run /\ c.pc = slot[s].pc /\ Continue(s, c)
    BY <1>2, <1>7 DEF CancelWatch, Copy
  <2> HIDE DEF c
  <2>2. QED
    BY <1>1, <2>1, MovesOn
<1>8. QED
  BY <1>3, <1>4, <1>5, <1>6, <1>7

\* ... or cleans up after itself ...
LEMMA OutSteps ==
  ASSUME IInv, NEW s \in Slot, Forget(s) \/ FreeSlot(s)
  PROVE  [Contract!CNext]_(Contract!cvars)
<1>1. /\ slot[s].pc # "idle" /\ row' = row /\ slot'[s].pc # "user"
      /\ \A t \in Slot \ {s} : slot'[t] = slot[t]
  BY DEF Forget, FreeSlot, IdleCopy, IInv, TypeOK, Copy
<1>2. QED
  BY <1>1, LeaveOrStay

\* ... or settles it, with nobody else inside ...
LEMMA SettleSteps ==
  ASSUME IInv, NEW s \in Slot, SettleWrite(s) PROVE [Contract!CNext]_(Contract!cvars)
<1> DEFINE r == slot[s].run
<1>1. CASE row' = row
  BY <1>1, LaterSteps
<1>2. CASE Leave(s) /\ row' = [row EXCEPT ![r] = Released(RunOf(s), slot[s].goal)]
  <2>1. slot[s].pc \in {"settling", "forcing"}
    BY DEF SettleWrite
  <2>2. Executed(s) = NoRun /\ r \in Run
    BY <2>1, BusyFacts DEF Executed, Executing
  <2>3. VerdictOf(r) = "open" /\ \A t \in Slot : Executed(t) # r
    BY <2>1, <2>2, HeldIsOpen
  <2>4. Executed(s)' = NoRun /\ \A t \in Slot \ {s} : Executed(t)' = Executed(t)
    BY <1>2, OneSlot DEF Executed, Executing
  <2>5. \A q \in Run \ {r} : VerdictOf(q)' = VerdictOf(q)
    BY <1>2, <2>2 DEF VerdictOf, IInv, TypeOK
  <2>6. QED
    BY <2>2, <2>3, <2>4, <2>5, RowStep
<1>3. QED
  BY <1>1, <1>2 DEF SettleWrite

\* ... or takes up a waiting run.
LEMMA LeaseSteps ==
  ASSUME IInv, NEW s \in Slot, NEW r \in Run, LeaseRun(s, r)
  PROVE  [Contract!CNext]_(Contract!cvars)
<1>1. /\ slot[s].pc = "idle" /\ slot'[s].pc # "user"
      /\ \A t \in Slot \ {s} : slot'[t] = slot[t]
  <2> DEFINE c == [IdleCopy EXCEPT !.pc = "leased", !.run = r, !.attempt = row[r].runCount + 1]
             d == [IdleCopy EXCEPT !.pc = "settle", !.run = r, !.attempt = row[r].runCount + 1,
                                   !.goal = "SCHEDULED"]
  <2>1. c.pc = "leased" /\ d.pc = "settle"
    BY DEF IdleCopy
  <2>2. slot' = [slot EXCEPT ![s] = c] \/ slot' = [slot EXCEPT ![s] = d]
    BY DEF LeaseRun
  <2>3. slot[s].pc = "idle"
    BY DEF LeaseRun, Busy
  <2>4. slot \in [Slot -> Copy]
    BY DEF IInv, TypeOK
  <2> HIDE DEF c, d
  <2>5. slot'[s] \in {c, d} /\ \A t \in Slot \ {s} : slot'[t] = slot[t]
    BY <2>2, <2>4
  <2>6. QED
    BY <2>1, <2>3, <2>5
<1>2. \A t \in Slot : Executed(t)' = Executed(t)
  BY <1>1 DEF Executed, Executing
<1>3. row[r].state = "SCHEDULED" /\ row' = [row EXCEPT ![r] = Lent(row[r], Host[s])]
  BY DEF LeaseRun
<1>4. row'[r].state = "PENDING" /\ \A q \in Run \ {r} : row'[q] = row[q]
  BY <1>3 DEF Lent, IInv, TypeOK, Row
<1>5. \A q \in Run : VerdictOf(q)' = VerdictOf(q)
  BY <1>3, <1>4 DEF VerdictOf, Terminal
<1>6. QED
  BY <1>2, <1>5, Stutter

\* A process dies: everything it executes ends at once.
LEMMA CrashSteps ==
  ASSUME IInv, NEW w \in Worker, WorkerCrashes(w) PROVE [Contract!CNext]_(Contract!cvars)
<1> DEFINE S == {s \in Slot : Host[s] = w}
<1>1. \A s \in Slot : slot'[s] = IF s \in S THEN IdleCopy ELSE slot[s]
  BY DEF WorkerCrashes
<1>2. \A s \in Slot : Executed(s)' = IF s \in S THEN NoRun ELSE Executed(s)
  BY <1>1 DEF Executed, Executing, IdleCopy
<1>3. \A r \in Run : VerdictOf(r)' = VerdictOf(r)
  BY DEF WorkerCrashes, VerdictOf
<1>4. Contract!End(S)
  BY <1>2, <1>3 DEF Contract!End
<1>5. QED
  BY <1>4 DEF Contract!CNext, Contract!Proceed

\* Renewals and hints change no state of a row and end no execution.
LEMMA HelperSteps ==
  ASSUME IInv, NEW w \in Worker, NEW r \in Run, RenewLease(w, r) \/ ControlMessage(w, r)
  PROVE  [Contract!CNext]_(Contract!cvars)
<1>1. SlotsStay
  BY CancelStays DEF RenewLease, ControlMessage, SlotsStay
<1>2. \A q \in Run : row'[q].state = row[q].state
  BY DEF RenewLease, ControlMessage, IInv, TypeOK, Row
<1>3. QED
  BY <1>1, <1>2, StayExecuting, Stutter DEF VerdictOf

\* The operator decides a run only while it waits, and reopens one that has its
\* verdict; a lease that lapses changes nothing yet.
LEMMA OperatorSteps ==
  ASSUME Timely, IInv, NEW r \in Run,
         RequestCancel(r) \/ RescheduleRun(r) \/ LeaseLapses(r)
  PROVE  [Contract!CNext]_(Contract!cvars)
<1>1. SlotsStay
  BY DEF RequestCancel, RescheduleRun, LeaseLapses, SlotsStay
<1>2. \A q \in Run \ {r} : VerdictOf(q)' = VerdictOf(q)
  BY DEF RequestCancel, RescheduleRun, LeaseLapses, VerdictOf, IInv, TypeOK
<1>3. CASE RequestCancel(r)
  <2>1. row'[r].state = CancelState(row[r].state)
    BY <1>3 DEF RequestCancel, IInv, TypeOK, Row
  <2>2. CASE row[r].state = "SCHEDULED"
    <3>1. VerdictOf(r) = "open" /\ \A s \in Slot : Executed(s) # r
      BY <2>2, UnclaimedIsIdle DEF VerdictOf, Terminal, Claimed
    <3>2. QED
      BY <1>1, <1>2, <3>1, StayExecuting, RowStep
  <2>3. CASE row[r].state # "SCHEDULED"
    <3>1. VerdictOf(r)' = VerdictOf(r)
      BY <2>1, <2>3 DEF CancelState, VerdictOf, Terminal
    <3>2. QED
      BY <1>1, <1>2, <3>1, StayExecuting, RowStep
  <2>4. QED
    BY <2>2, <2>3
<1>4. CASE RescheduleRun(r)
  <2>1. row'[r].state = "SCHEDULED"
    BY <1>4 DEF RescheduleRun, Rescheduled, Released, IInv, TypeOK, Row
  <2>2. VerdictOf(r)' = "open"
    BY <2>1 DEF VerdictOf, Terminal
  <2>3. QED
    BY <1>1, <1>2, <2>2, StayExecuting, RowStep
<1>5. CASE LeaseLapses(r)
  <2>1. row'[r].state = row[r].state
    BY <1>5 DEF LeaseLapses, IInv, TypeOK, Row
  <2>2. QED
    BY <1>1, <1>2, <2>1, StayExecuting, RowStep DEF VerdictOf
<1>6. QED
  BY <1>3, <1>4, <1>5

\* The janitor decides runs that are CRASHED, and crashes runs that are open.
LEMMA JanitorSteps ==
  ASSUME IInv, JanitorStep \/ JanitorCrashes PROVE [Contract!CNext]_(Contract!cvars)
<1>1. SlotsStay
  BY DEF JanitorStep, JanitorCrashes, Reclaim, JanitorRead, JanitorWrite, SlotsStay
<1>2. CASE Reclaim
  <2>1. \A r \in Run : \/ row'[r] = row[r]
                       \/ row[r].state \in Claimed /\ row'[r].state = "CRASHED"
    BY <1>2 DEF Reclaim, Released, IInv, TypeOK, Row
  <2>2. \A r \in Run : VerdictOf(r)' = VerdictOf(r)
    BY <2>1 DEF VerdictOf, Claimed, Terminal
  <2>3. QED
    BY <1>1, <2>2, StayExecuting, Stutter
<1>3. CASE JanitorWrite
  <2> DEFINE r == jan.run
  <2>1. r \in Run /\ row[r].state = "CRASHED"
    BY <1>3 DEF JanitorWrite, IInv, JanitorOwns, TypeOK
  <2>2. VerdictOf(r) = "open" /\ \A s \in Slot : Executed(s) # r
    BY <2>1, UnclaimedIsIdle DEF VerdictOf, Terminal, Claimed
  <2>3. \A q \in Run \ {r} : VerdictOf(q)' = VerdictOf(q)
    BY <1>3 DEF JanitorWrite, VerdictOf, IInv, TypeOK
  <2>4. QED
    BY <1>1, <2>1, <2>2, <2>3, StayExecuting, RowStep
<1>4. CASE JanitorCrashes \/ \E r \in Run : JanitorRead(r)
  <2>1. row' = row
    BY <1>4 DEF JanitorCrashes, JanitorRead
  <2>2. QED
    BY <1>1, <2>1, StayExecuting, Stutter DEF VerdictOf
<1>5. QED
  BY <1>2, <1>3, <1>4 DEF JanitorStep

LEMMA ContractStep ==
  ASSUME Timely, IInv, [Next]_vars PROVE [Contract!CNext]_(Contract!cvars)
<1>1. CASE UNCHANGED vars
  <2>1. /\ \A s \in Slot : Executed(s)' = Executed(s)
        /\ \A r \in Run : VerdictOf(r)' = VerdictOf(r)
    BY <1>1 DEF vars, Executed, Executing, VerdictOf
  <2>2. QED
    BY <2>1, Stutter
<1>2. ASSUME NEW s \in Slot,
             \/ SlotStep(s) \/ StoreFails(s) \/ AckLost(s) \/ CancelWatch(s)
             \/ \E r \in Run : LeaseRun(s, r) \/ LeaseLost(s, r)
      PROVE  [Contract!CNext]_(Contract!cvars)
  BY <1>2, StartSteps, LaterSteps, SettleSteps, OutSteps, LeaseSteps
     DEF SlotStep, AckLost, LeaseLost, Timely
<1>3. ASSUME NEW w \in Worker,
             \/ WorkerCrashes(w) \/ WorkerDrains(w)
             \/ \E r \in Run : RenewLease(w, r) \/ ControlMessage(w, r)
      PROVE  [Contract!CNext]_(Contract!cvars)
  BY <1>3, CrashSteps, HelperSteps DEF WorkerDrains, Timely
<1>4. ASSUME NEW r \in Run, RequestCancel(r) \/ RescheduleRun(r) \/ LeaseLapses(r)
      PROVE  [Contract!CNext]_(Contract!cvars)
  BY <1>4, OperatorSteps
<1>5. CASE JanitorStep \/ JanitorCrashes
  BY <1>5, JanitorSteps
<1>6. QED
  BY <1>1, <1>2, <1>3, <1>4, <1>5 DEF Next

LEMMA ContractInit == Init => Contract!CInit
<1> SUFFICES ASSUME Init PROVE Contract!CInit
  OBVIOUS
<1>1. \A s \in Slot : Executed(s) = NoRun
  BY DEF Init, Executed, Executing, IdleCopy
<1>2. \A r \in Run : VerdictOf(r) = "open"
  BY DEF Init, NewRow, VerdictOf, Terminal
<1>3. QED
  BY <1>1, <1>2 DEF Contract!CInit

\* While leases are renewed in time, and no goroutine is overtaken by its own
\* worker on its way out, the lifecycle, with its leases, races,
\* failed writes and restarts, is an implementation of the contract: one
\* executor, none after a verdict, no verdict under an executor, and no verdict
\* replaced by another.
THEOREM ContractIsKept == ASSUME Timely PROVE Spec => RefinesContract
<1>1. Init => Contract!CInit
  BY ContractInit
<1>2. IInv /\ [Next]_vars => [Contract!CNext]_(Contract!cvars)
  BY ContractStep, Timely
<1>3. QED
  BY <1>1, <1>2, Invariance, PTL DEF Spec, RefinesContract, Contract!CSpec

-----------------------------------------------------------------------------
(***************************************************************************)
(* A requested cancellation stops the start.  The invariant: every         *)
(* statement that sets the flag takes the row out of the states from which *)
(* an attempt starts, and none brings it back there with the flag on.      *)
(***************************************************************************)
MayRun(p) == p.state \in {"PENDING", "RUNNING"} => ~p.cancel

NoneAsked == \A r \in Run : MayRun(row[r])

\* What RequestCancel makes of a row.
Flagged(p) == [p EXCEPT !.cancel = TRUE, !.state = CancelState(p.state)]

\* The statements of runs.go, one by one.
LEMMA AskedStatements ==
  ASSUME NEW p \in Row, MayRun(p)
  PROVE  /\ \A w : ~p.cancel => MayRun(Lent(p, w))
         /\ \A w : p.state = "PENDING" => MayRun(Started(p, w))
         /\ \A to \in State \ Claimed : MayRun(Released(p, to))
         /\ MayRun(Rescheduled(p))
         /\ MayRun(Flagged(p))
         /\ \A l : MayRun([p EXCEPT !.lease = l])
<1>1. /\ \A w : ~p.cancel => MayRun(Lent(p, w))
      /\ \A w : p.state = "PENDING" => MayRun(Started(p, w))
  BY DEF Lent, Started, MayRun, Row
<1>2. /\ \A to \in State \ Claimed : MayRun(Released(p, to))
      /\ MayRun(Rescheduled(p))
  BY DEF Released, Rescheduled, MayRun, Row, Claimed
<1>3. MayRun(Flagged(p))
  BY DEF Flagged, CancelState, MayRun, Row
<1>4. \A l : MayRun([p EXCEPT !.lease = l])
  BY DEF MayRun, Row
<1>5. QED
  BY <1>1, <1>2, <1>3, <1>4

\* A goroutine starts a run that is PENDING, and leaves it at rest.
LEMMA GoroutineWrites ==
  ASSUME IInv, NEW s \in Slot, SlotStep(s) \/ StoreFails(s) \/ CancelWatch(s),
         NEW r \in Run
  PROVE  \/ row'[r] = row[r]
         \/ row'[r] = Started(row[r], Host[s]) /\ row[r].state = "PENDING"
         \/ \E to \in State \ Claimed : row'[r] = Released(row[r], to)
<1>1. CASE StartWrite(s)
  <2>1. slot[s].run \in Run /\ slot[s].seen = "PENDING"
    BY <1>1, BusyFacts DEF StartWrite, InStep
  <2>2. QED
    BY <1>1, <2>1 DEF StartWrite, RunOf, IInv, TypeOK
<1>2. CASE SettleWrite(s)
  <2>1. slot[s].run \in Run /\ slot[s].goal \in State \ Claimed
    BY <1>2, BusyFacts DEF SettleWrite, InStep, CopyOK, Copy, IInv, TypeOK
  <2>2. QED
    BY <1>2, <2>1 DEF SettleWrite, RunOf, IInv, TypeOK
<1>3. CASE ~(StartWrite(s) \/ SettleWrite(s))
  BY <1>3 DEF SlotStep, StartRead, UserReturns, Finish, SettleRead, StoreFails,
              CancelWatch, Forget, FreeSlot
<1>4. QED
  BY <1>1, <1>2, <1>3

LEMMA NoneAskedStep ==
  ASSUME Timely, IInv, NoneAsked, [Next]_vars PROVE NoneAsked'
<1> SUFFICES ASSUME NEW r \in Run PROVE MayRun(row'[r])
  BY DEF NoneAsked
<1>1. row[r] \in Row /\ MayRun(row[r])
  BY DEF IInv, TypeOK, NoneAsked
<1>2. ASSUME NEW s \in Slot, SlotStep(s) \/ StoreFails(s) \/ CancelWatch(s)
      PROVE  MayRun(row'[r])
  BY <1>1, <1>2, GoroutineWrites, AskedStatements
<1>3. ASSUME NEW s \in Slot, NEW q \in Run, LeaseRun(s, q)
      PROVE  MayRun(row'[r])
  <2>1. row'[r] = row[r] \/ (row'[r] = Lent(row[r], Host[s]) /\ ~row[r].cancel)
    BY <1>3 DEF LeaseRun, IInv, TypeOK
  <2>2. QED
    BY <1>1, <2>1, AskedStatements
<1>4. ASSUME NEW w \in Worker, WorkerCrashes(w) PROVE MayRun(row'[r])
  BY <1>1, <1>4 DEF WorkerCrashes
<1>5. ASSUME NEW w \in Worker, NEW q \in Run,
             RenewLease(w, q) \/ ControlMessage(w, q)
      PROVE  MayRun(row'[r])
  <2>1. row'[r] = row[r] \/ row'[r] = [row[r] EXCEPT !.lease = "live"]
    BY <1>5 DEF RenewLease, ControlMessage, IInv, TypeOK
  <2>2. QED
    BY <1>1, <2>1, AskedStatements
<1>6. ASSUME NEW q \in Run,
             RequestCancel(q) \/ RescheduleRun(q) \/ LeaseLapses(q)
      PROVE  MayRun(row'[r])
  <2>1. \/ row'[r] = row[r]
        \/ row'[r] = Flagged(row[r])
        \/ row'[r] = Rescheduled(row[r])
        \/ row'[r] = [row[r] EXCEPT !.lease = "lapsed"]
    BY <1>6 DEF RequestCancel, RescheduleRun, LeaseLapses, Flagged, IInv, TypeOK
  <2>2. QED
    BY <1>1, <2>1, AskedStatements
<1>7. CASE JanitorStep \/ JanitorCrashes
  <2>1. \/ row'[r] = row[r]
        \/ row'[r] = Released(row[r], "CRASHED")
        \/ row'[r] = Released(row[r], JanitorGoal(r))
    BY <1>7 DEF JanitorStep, JanitorCrashes, Reclaim, JanitorRead,
                JanitorWrite, IInv, TypeOK
  <2>2. "CRASHED" \in State \ Claimed /\ JanitorGoal(r) \in State \ Claimed
    BY DEF JanitorGoal, State, Claimed
  <2>3. QED
    BY <1>1, <2>1, <2>2, AskedStatements
<1>8. CASE UNCHANGED vars
  BY <1>1, <1>8 DEF vars
<1>9. QED
  BY <1>2, <1>3, <1>4, <1>5, <1>6, <1>7, <1>8
     DEF Next, AckLost, LeaseLost, WorkerDrains, Timely

\* A goroutine enters the flow function by one write only.
LEMMA StartsByWrite ==
  ASSUME Timely, IInv, [Next]_vars, NEW s \in Slot, ~Executing(s),
         slot'[s].pc = "user"
  PROVE  StartWrite(s) /\ RunOf(s).state = "PENDING"
<1>1. slot[s].pc # "user"
  BY DEF Executing
<1>2. ASSUME NEW t \in Slot, t # s,
             SlotStep(t) \/ StoreFails(t) \/ CancelWatch(t)
      PROVE  FALSE
  <2>1. slot'[s] = slot[s]
    BY <1>2 DEF SlotStep, StartRead, StartWrite, UserReturns, Finish,
                SettleRead, SettleWrite, SettleFailed, StoreFails, CancelWatch,
                Forget, FreeSlot, Leave, Continue, IInv, TypeOK
  <2>2. QED
    BY <1>1, <2>1
<1>3. SlotsStay => FALSE
  BY <1>1 DEF SlotsStay
<1>4. ASSUME StartRead(s) PROVE FALSE
  <2>1. RunOf(s).state \in {"PENDING", "CANCELLING"} /\ slot[s] \in Copy
    BY <1>4, BusyFacts DEF StartRead, InStep
  <2> DEFINE d == [slot[s] EXCEPT !.pc = "starting", !.seen = RunOf(s).state]
  <2>2. Leave(s) \/ Continue(s, d)
    BY <1>4, <2>1 DEF StartRead, Unchanged
  <2>3. d.pc = "starting"
    BY <2>1 DEF Copy
  <2> HIDE DEF d
  <2>4. QED
    BY <2>2, <2>3, OneSlot
<1>5. ASSUME ~StartWrite(s),
             \/ \E o \in Outcome : UserReturns(s, o)
             \/ Finish(s) \/ SettleRead(s) \/ SettleWrite(s) \/ Forget(s)
             \/ FreeSlot(s) \/ StoreFails(s) \/ CancelWatch(s)
      PROVE  FALSE
  <2>1. slot[s] \in Copy
    BY DEF IInv, TypeOK
  <2>2. CASE Forget(s) \/ FreeSlot(s)
    BY <2>1, <2>2 DEF Forget, FreeSlot, IdleCopy, IInv, TypeOK, Copy
  <2>3. CASE CancelWatch(s) \/ \E o \in Outcome : UserReturns(s, o)
    BY <1>1, <2>3 DEF CancelWatch, UserReturns, Executing
  <2>4. CASE Finish(s)
    <3>1. PICK b \in BOOLEAN :
            Continue(s, [slot[s] EXCEPT !.pc = "settle", !.outcome = "-",
                                        !.goal = Goal(slot[s], b)])
      BY <2>4 DEF Finish, CancelRequested
    <3> DEFINE c == [slot[s] EXCEPT !.pc = "settle", !.outcome = "-",
                                    !.goal = Goal(slot[s], b)]
    <3>2. c.pc = "settle"
      BY <2>1 DEF Copy
    <3> HIDE DEF c
    <3>3. QED
      BY <3>1, <3>2, OneSlot DEF c
  <2>5. CASE SettleRead(s) \/ SettleWrite(s) \/ StoreFails(s)
    <3> DEFINE c == [slot[s] EXCEPT !.seen = RunOf(s).state,
                 !.pc = IF slot[s].pc = "settle" THEN "settling" ELSE "forcing"]
               d == [slot[s] EXCEPT !.pc = "force"]
               e == [slot[s] EXCEPT !.pc = "force", !.seen = NoState]
    <3>1. c.pc # "user" /\ d.pc # "user" /\ e.pc # "user"
      BY <2>1 DEF Copy
    <3>2. Leave(s) \/ Continue(s, c) \/ Continue(s, d) \/ Continue(s, e)
      BY <2>5 DEF SettleRead, SettleWrite, SettleFailed, StoreFails
    <3> HIDE DEF c, d, e
    <3>3. QED
      BY <3>1, <3>2, OneSlot
  <2>6. QED
    BY <1>5, <2>2, <2>3, <2>4, <2>5
<1>6. ASSUME NEW t \in Slot, NEW r \in Run, LeaseRun(t, r) PROVE FALSE
  <2> DEFINE n == row[r].runCount + 1
             c == [IdleCopy EXCEPT !.pc = "leased", !.run = r, !.attempt = n]
             d == [IdleCopy EXCEPT !.pc = "settle", !.run = r, !.attempt = n,
                                   !.goal = "SCHEDULED"]
  <2>1. c.pc = "leased" /\ d.pc = "settle"
    BY DEF IdleCopy
  <2>2. slot' = [slot EXCEPT ![t] = c] \/ slot' = [slot EXCEPT ![t] = d]
    BY <1>6 DEF LeaseRun
  <2> HIDE DEF c, d
  <2>3. QED
    BY <1>1, <2>1, <2>2 DEF IInv, TypeOK
<1>7. ASSUME NEW w \in Worker, WorkerCrashes(w) PROVE FALSE
  BY <1>1, <1>7 DEF WorkerCrashes, IdleCopy
<1>8. ASSUME NEW w \in Worker, NEW r \in Run,
             RenewLease(w, r) \/ ControlMessage(w, r)
      PROVE  FALSE
  BY <1>3, <1>8, CancelStays DEF RenewLease, ControlMessage, SlotsStay
<1>9. ASSUME NEW r \in Run,
             RequestCancel(r) \/ RescheduleRun(r) \/ LeaseLapses(r)
      PROVE  FALSE
  BY <1>3, <1>9 DEF RequestCancel, RescheduleRun, LeaseLapses, SlotsStay
<1>10. ASSUME JanitorStep \/ JanitorCrashes \/ UNCHANGED vars PROVE FALSE
  BY <1>3, <1>10 DEF JanitorStep, JanitorCrashes, Reclaim, JanitorRead,
                     JanitorWrite, SlotsStay, vars
<1>11. StartWrite(s)
  BY <1>2, <1>4, <1>5, <1>6, <1>7, <1>8, <1>9, <1>10
     DEF Next, SlotStep, AckLost, LeaseLost, WorkerDrains, Timely
<1>12. RunOf(s).state = "PENDING"
  <2>1. slot[s].seen = "PENDING"
    BY <1>11, BusyFacts DEF StartWrite, InStep
  <2>2. ~Leave(s)
    BY OneSlot
  <2>3. QED
    BY <1>11, <2>1, <2>2 DEF StartWrite
<1>13. QED
  BY <1>11, <1>12

\* Under the same hypothesis no attempt starts on a run whose cancellation has
\* been requested, wherever the request falls between claim, read and write.
THEOREM CancelIsObeyed == ASSUME Timely PROVE Spec => CancelStopsStart
<1>1. Init => NoneAsked
  BY DEF Init, NewRow, NoneAsked, MayRun
<1>2. IInv /\ NoneAsked /\ [Next]_vars => NoneAsked'
  BY NoneAskedStep, Timely
<1>3. ASSUME IInv, NoneAsked, [Next]_vars, NEW s \in Slot, ~Executing(s),
             slot'[s].pc = "user"
      PROVE  ~row[slot[s].run].cancel
  <2>1. StartWrite(s) /\ RunOf(s).state = "PENDING"
    BY <1>3, StartsByWrite
  <2>2. slot[s].run \in Run
    BY <1>3, <2>1, BusyFacts DEF StartWrite
  <2>3. QED
    BY <1>3, <2>1, <2>2 DEF NoneAsked, MayRun, RunOf
<1>4. IInv /\ NoneAsked /\ [Next]_vars
        => [\A s \in Slot : ~Executing(s) /\ slot'[s].pc = "user"
                             => ~row[slot[s].run].cancel]_vars
  BY <1>3
<1>5. QED
  BY <1>1, <1>2, <1>4, Invariance, PTL DEF Spec, CancelStopsStart
=============
