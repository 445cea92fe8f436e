---------------------------- MODULE ReplayProofs ----------------------------
(* What holds of Replay for all flows, however many runs, slots and faults.*)
EXTENDS Replay, FiniteSetTheorems, WellFoundedInduction, TLAPS

-----------------------------------------------------------------------------
(***************************************************************************)
(* The inductive invariant.                                                *)
(***************************************************************************)

\* Where a goroutine is inside the flow function, and where the run is its.
InFlow(s) == slot[s].pc \in {"load", "open", "body", "started", "save", "wake",
                             "block", "trigger", "link", "poll"}
Works(s) == InFlow(s) \/ At(s, "finish")

\* Rows are inserted one after the other, and below a run that exists.
RowsInOrder ==
  /\ \A i, j \in Run : Exists(i) /\ j < i => Exists(j)
  /\ \A i \in Run : Exists(i) => run[i].dep \in Dep
  /\ \A i \in Run : run[i].parent # 0 => /\ Exists(i) /\ Exists(run[i].parent)
                                         /\ run[i].parent < i

\* A row with a key is the child of a wait that has this key.
ChildIsAwaited(i) ==
  run[i].key # NoKey =>
    /\ run[i].parent # 0
    /\ \E k \in DOMAIN Flow[run[run[i].parent].dep] :
         LET d == run[run[i].parent].dep IN
         /\ Flow[d][k].op = "wait" /\ KeyAt(d, k) = run[i].key
         /\ Flow[d][k].dep = run[i].dep

ChildrenAreAwaited == \A i \in Run : Exists(i) => ChildIsAwaited(i)

\* A goroutine is at a step of its run's flow that has the place it is at.
InStep(s) ==
  /\ ~At(s, "idle") => slot[s].run \in Run /\ Exists(slot[s].run)
  /\ InFlow(s) => slot[s].step \in DOMAIN Flow[run[slot[s].run].dep]
  /\ slot[s].pc \in {"trigger", "link", "poll"} => StepOf(s).op = "wait"
  /\ slot[s].pc \in {"open", "body", "started", "save", "wake", "block"}
       => StepOf(s).op # "wait"
  /\ slot[s].pc \in {"wake", "block"} => StepOf(s).op = "sleep"

SlotsInStep == \A s \in Slot : InStep(s)

\* Nobody but its owner works on a run whose lease has not lapsed.
OwnersWork ==
  \A s \in Slot : Works(s) /\ slot[s].run \notin lapsed =>
    run[slot[s].run].state = "RUNNING" /\ run[slot[s].run].owner = s

IsChild(c, i, key) == /\ c \in Run /\ Exists(c)
                      /\ run[c].parent = i /\ run[c].key = key

Awaits(i, key) == \E k \in DOMAIN Flow[run[i].dep] :
                    Flow[run[i].dep][k].op = "wait" /\ KeyAt(run[i].dep, k) = key
Sleeps(i, key) == \E k \in DOMAIN Flow[run[i].dep] :
                    Flow[run[i].dep][k].op = "sleep" /\ KeyAt(run[i].dep, k) = key

\* The checkpoint of a wait names its child and is never COMPLETED.
LinksAreChildren ==
  /\ \A i \in Run, key \in Key : ~Exists(i) => cp[i][key] = NoCheckpoint
  /\ \A i \in Run, key \in Key : Exists(i) /\ Awaits(i, key) =>
       /\ cp[i][key].status # "COMPLETED"
       /\ cp[i][key].value[1] # 0 => IsChild(cp[i][key].value[1], i, key)
  /\ \A s \in Slot : slot[s].pc \in {"link", "poll"}
       => IsChild(slot[s].child, slot[s].run, KeyOf(s))

\* A step is executed only while it has no result.
StepIsOpen(s) ==
  slot[s].run \notin lapsed =>
    /\ slot[s].pc \in {"open", "body", "started", "save"}
         => Stored(s).status # "COMPLETED"
    /\ slot[s].pc \in {"wake", "block"} => Stored(s).status = "COMPLETED"

StepsAreOpen == \A s \in Slot : StepIsOpen(s)

\* What the flow function was given is what is stored, or the child it awaited.
GivenIsStored ==
  \A w \in given :
    /\ Exists(w[1])
    /\ Awaits(w[1], w[2]) => w[3][2] = 0 /\ IsChild(w[3][1], w[1], w[2])
    /\ Sleeps(w[1], w[2]) => w \in passed
    /\ ~Awaits(w[1], w[2]) /\ w[1] \notin lapsed /\ <<w[1], w[2]>> \notin unsaved =>
         /\ cp[w[1]][w[2]].status = "COMPLETED"
         /\ cp[w[1]][w[2]].value = w[3]

\* The waits of run i before its n-th step have their children COMPLETED.
Awaited(i, k) ==
  \E c \in Run : /\ run[c].parent = i /\ run[c].key = KeyAt(run[i].dep, k)
                 /\ run[c].dep = Flow[run[i].dep][k].dep
                 /\ run[c].state = "COMPLETED" \/ c \in lapsed

AwaitedBefore(i, n) ==
  \A k \in DOMAIN Flow[run[i].dep] :
    k < n /\ Flow[run[i].dep][k].op = "wait" => Awaited(i, k)

AllAwaited(i) ==
  \A k \in DOMAIN Flow[run[i].dep] :
    Flow[run[i].dep][k].op = "wait" => Awaited(i, k)

WaitsAreOver ==
  /\ \A s \in Slot : InFlow(s) => AwaitedBefore(slot[s].run, slot[s].step)
  /\ \A s \in Slot : At(s, "finish") /\ slot[s].outcome = "ok"
                       => AllAwaited(slot[s].run)
  /\ \A i \in Run : run[i].state = "COMPLETED" => AllAwaited(i)

IInv ==
  /\ TypeOK /\ RowsInOrder /\ ChildrenAreAwaited /\ OneChildPerCall
  /\ SlotsInStep /\ OwnersWork /\ LinksAreChildren /\ StepsAreOpen
  /\ GivenIsStored /\ WaitsAreOver /\ CyclesAreRefused

-----------------------------------------------------------------------------
(***************************************************************************)
(* Keys.                                                                   *)
(***************************************************************************)

LEMMA FlowType ==
  ASSUME NEW d \in Dep
  PROVE  /\ Len(Flow[d]) \in Nat \ {0} /\ DOMAIN Flow[d] = 1..Len(Flow[d])
         /\ \A k \in DOMAIN Flow[d] : Flow[d][k] \in Step
<1>1. Flow[d] \in Seq(Step) /\ Flow[d] # <<>>
  BY ReplayAssumption
<1>2. QED
  BY <1>1

\* The calls of the same name up to the k-th, without those the flow has keyed.
Calls(d, k) == {j \in 1..k : Flow[d][j].name = Flow[d][k].name /\ ~Flow[d][j].keyed}

LEMMA CallsType ==
  ASSUME NEW d \in Dep, NEW k \in DOMAIN Flow[d]
  PROVE  /\ k \in Nat \ {0} /\ IsFiniteSet(Calls(d, k))
         /\ Cardinality(Calls(d, k)) \in Nat
         /\ k \in Calls(d, k) <=> ~Flow[d][k].keyed
<1>1. k \in Nat \ {0}
  BY FlowType
<1>2. IsFiniteSet(1..k)
  BY <1>1, FS_Interval
<1>3. Calls(d, k) \subseteq 1..k
  BY DEF Calls
<1>4. k \in 1..k
  BY <1>1
<1>5. QED
  BY <1>1, <1>2, <1>3, <1>4, FS_Subset, FS_CardinalityType DEF Calls

LEMMA KeyParts ==
  ASSUME NEW d \in Dep, NEW k \in DOMAIN Flow[d]
  PROVE  KeyAt(d, k) = <<Flow[d][k].name, IF Flow[d][k].keyed THEN 0
                                         ELSE Cardinality(Calls(d, k))>>
BY DEF KeyAt, Calls

LEMMA KeyType ==
  ASSUME NEW d \in Dep, NEW k \in DOMAIN Flow[d] PROVE KeyAt(d, k) \in Key
BY DEF Key

\* A key is none of the other marks of its fields.
LEMMA KeysApart == NoKey \notin Key /\ Now \notin Key /\ Later \notin Key
<1>1. ASSUME NEW key \in Key PROVE key[1] \in Name
  <2>1. PICK d \in Dep : \E k \in DOMAIN Flow[d] : key = KeyAt(d, k)
    BY DEF Key
  <2>2. PICK k \in DOMAIN Flow[d] : key = KeyAt(d, k)
    BY <2>1
  <2>3. Flow[d][k].name \in Name
    BY FlowType DEF Step
  <2>4. QED
    BY <2>2, <2>3, KeyParts
<1>2. "none" \notin Name /\ "now" \notin Name /\ "later" \notin Name
  BY ReplayAssumption
<1>3. NoKey[1] = "none" /\ Now[1] = "now" /\ Later[1] = "later"
  BY DEF NoKey, Now, Later
<1>4. QED
  BY <1>1, <1>2, <1>3

\* Two calls of a name that the flow does not key have different ordinals.
LEMMA OrdinalsGrow ==
  ASSUME NEW d \in Dep, NEW k \in DOMAIN Flow[d], NEW l \in DOMAIN Flow[d],
         ~Flow[d][l].keyed, Flow[d][k].name = Flow[d][l].name, k < l
  PROVE  Cardinality(Calls(d, k)) < Cardinality(Calls(d, l))
<1>1. k \in Nat /\ l \in Nat /\ k < l
  BY CallsType
<1>2. Calls(d, k) \subseteq Calls(d, l)
  BY <1>1 DEF Calls
<1>3. l \in Calls(d, l) /\ l \notin Calls(d, k)
  BY <1>1, CallsType DEF Calls
<1>4. /\ Cardinality(Calls(d, k)) <= Cardinality(Calls(d, l))
      /\ Cardinality(Calls(d, k)) # Cardinality(Calls(d, l))
  BY <1>2, <1>3, CallsType, FS_Subset
<1>5. QED
  BY <1>4, CallsType

LEMMA KeysOfWaits ==
  ASSUME NEW d \in Dep, NEW k \in DOMAIN Flow[d], NEW l \in DOMAIN Flow[d],
         Flow[d][k].op = "wait", KeyAt(d, k) = KeyAt(d, l)
  PROVE  k = l
<1>1. Flow[d][k].name = Flow[d][l].name
  BY KeyParts
<1>2. Flow[d][l].op = "wait"
  BY <1>1, StepsAssumption
<1>3. ~Flow[d][k].keyed /\ ~Flow[d][l].keyed
  BY <1>2, StepsAssumption
<1>4. Cardinality(Calls(d, k)) = Cardinality(Calls(d, l))
  BY <1>3, KeyParts
<1>5. ~(k < l) /\ ~(l < k)
  BY <1>1, <1>3, <1>4, OrdinalsGrow, CallsType
<1>6. QED
  BY <1>5, CallsType

LEMMA KeysOfSleeps ==
  ASSUME NEW d \in Dep, NEW k \in DOMAIN Flow[d], NEW l \in DOMAIN Flow[d],
         Flow[d][k].op = "sleep", KeyAt(d, k) = KeyAt(d, l)
  PROVE  Flow[d][l].op = "sleep"
<1>1. Flow[d][k].name = Flow[d][l].name
  BY KeyParts
<1>2. QED
  BY <1>1, StepsAssumption

-----------------------------------------------------------------------------
(***************************************************************************)
(* What an action does to the goroutines.                                  *)
(***************************************************************************)

Typed == TypeOK /\ RowsInOrder /\ SlotsInStep

Only(s) == /\ slot' \in [Slot -> Goroutine]
           /\ \A t \in Slot : t # s => slot'[t] = slot[t]

\* The goroutine goes on at another place of the same step.
Moves(s, pc) ==
  /\ Only(s) /\ slot'[s].pc = pc
  /\ slot'[s].run = slot[s].run /\ slot'[s].step = slot[s].step
  /\ slot'[s].child = slot[s].child

\* The flow function returns.
Ends(s, outcome) ==
  /\ Only(s) /\ slot'[s].pc = "finish"
  /\ slot'[s].run = slot[s].run /\ slot'[s].outcome = outcome

\* A call of the flow function returns.
Passes(s) ==
  /\ Only(s) /\ slot'[s].run = slot[s].run
  /\ \/ /\ slot[s].step = Len(Flow[run[slot[s].run].dep])
        /\ slot'[s].pc = "finish" /\ slot'[s].outcome = "ok"
     \/ /\ slot[s].step # Len(Flow[run[slot[s].run].dep])
        /\ slot'[s].pc = "load" /\ slot'[s].step = slot[s].step + 1

\* The goroutine is gone, or has left its run to look after the parent.
Leaves(s) == Only(s) /\ slot'[s].pc \in {"idle", "count", "resume"}
               /\ (slot'[s].pc # "idle" => slot'[s].run = slot[s].run)

Pcs == {"idle", "load", "open", "body", "started", "save", "wake",
        "block", "trigger", "link", "poll", "finish", "count", "resume"}

\* The same, with the places as one set.
LEMMA GoroutineForm ==
  /\ Goroutine = [run: Ids, pc: Pcs, step: Nat, attempt: Nat, child: Ids,
                  outcome: Outcome, until: Time]
  /\ "finish" \in Pcs /\ "load" \in Pcs /\ "body" \in Pcs /\ "idle" \in Pcs
  /\ "poll" \in Pcs /\ "trigger" \in Pcs /\ "link" \in Pcs
  /\ "count" \in Pcs /\ "resume" \in Pcs
BY DEF Goroutine, Pcs

LEMMA GotoMoves ==
  ASSUME TypeOK, NEW s \in Slot, NEW pc \in Pcs, Goto(s, pc)
  PROVE  Moves(s, pc)
BY DEF TypeOK, Goto, Moves, Only, Goroutine, Pcs

LEMMA ReturnsEnds ==
  ASSUME TypeOK, NEW s \in Slot, NEW o \in Outcome, NEW u \in Time,
         Returns(s, o, u)
  PROVE  Ends(s, o)
<1> DEFINE q == [slot[s] EXCEPT !.pc = "finish", !.outcome = o, !.until = u]
<1>1. slot[s] \in Goroutine
  BY DEF TypeOK
<1>2. q \in Goroutine /\ q.run = slot[s].run /\ q.pc = "finish" /\ q.outcome = o
  BY <1>1, GoroutineForm
<1>3. slot' = [slot EXCEPT ![s] = q]
  BY DEF Returns, TypeOK
<1> HIDE DEF q
<1>4. QED
  BY <1>2, <1>3 DEF TypeOK, Only, Ends

LEMMA AdvancePasses ==
  ASSUME TypeOK, NEW s \in Slot, NEW v, Advance(s, v)
  PROVE  Passes(s) /\ given' = given \cup {<<slot[s].run, KeyOf(s), v>>}
<1> DEFINE a == [slot[s] EXCEPT !.pc = "finish", !.outcome = "ok"]
           b == [slot[s] EXCEPT !.pc = "load", !.step = slot[s].step + 1]
           c == IF slot[s].step = Len(Flow[run[slot[s].run].dep]) THEN a ELSE b
<1>1. slot[s] \in Goroutine /\ slot[s].step + 1 \in Nat
  BY DEF TypeOK, Goroutine
<1>2. /\ a \in Goroutine /\ a.run = slot[s].run /\ a.pc = "finish" /\ a.outcome = "ok"
      /\ b \in Goroutine /\ b.run = slot[s].run /\ b.pc = "load"
      /\ b.step = slot[s].step + 1
  <2>1. "ok" \in Outcome
    BY DEF Outcome
  <2>2. /\ a \in Goroutine /\ a.run = slot[s].run
        /\ a.pc = "finish" /\ a.outcome = "ok"
    BY <1>1, <2>1, GoroutineForm
  <2>3. /\ b \in Goroutine /\ b.run = slot[s].run /\ b.pc = "load"
        /\ b.step = slot[s].step + 1
    BY <1>1, GoroutineForm
  <2>4. QED
    BY <2>2, <2>3
<1>3. slot' = [slot EXCEPT ![s] = c]
  BY DEF Advance
<1> HIDE DEF a, b
<1>4. c \in Goroutine
  BY <1>2
<1> HIDE DEF c
<1>5. Only(s) /\ slot'[s] = c
  BY <1>3, <1>4 DEF TypeOK, Only
<1>6. QED
  BY <1>2, <1>5 DEF c, Passes, Advance

\* A goroutine at work has a step, with a key.
LEMMA AtStep ==
  ASSUME Typed, NEW s \in Slot, ~At(s, "idle")
  PROVE  /\ slot[s].run \in Run /\ Exists(slot[s].run) /\ run[slot[s].run].dep \in Dep
         /\ InFlow(s) =>
              /\ slot[s].step \in DOMAIN Flow[run[slot[s].run].dep]
              /\ slot[s].step \in 1..Len(Flow[run[slot[s].run].dep])
              /\ StepOf(s) \in Step /\ KeyOf(s) \in Key /\ KeyOf(s) # NoKey
              /\ Stored(s) \in Checkpoint
<1>1. slot[s].run \in Run /\ Exists(slot[s].run) /\ run[slot[s].run].dep \in Dep
  BY DEF Typed, SlotsInStep, InStep, RowsInOrder
<1>2. ASSUME InFlow(s)
      PROVE  /\ slot[s].step \in DOMAIN Flow[run[slot[s].run].dep]
             /\ slot[s].step \in 1..Len(Flow[run[slot[s].run].dep])
             /\ StepOf(s) \in Step /\ KeyOf(s) \in Key
  <2>1. slot[s].step \in DOMAIN Flow[run[slot[s].run].dep]
    BY <1>2 DEF Typed, SlotsInStep, InStep
  <2>2. /\ slot[s].step \in 1..Len(Flow[run[slot[s].run].dep])
        /\ Flow[run[slot[s].run].dep][slot[s].step] \in Step
    BY <1>1, <2>1, FlowType
  <2>3. KeyAt(run[slot[s].run].dep, slot[s].step) \in Key
    BY <1>1, <2>1, KeyType
  <2>4. QED
    BY <2>1, <2>2, <2>3 DEF StepOf, KeyOf
<1>3. ASSUME InFlow(s) PROVE Stored(s) \in Checkpoint
  BY <1>1, <1>2, <1>3 DEF Stored, Typed, TypeOK
<1>4. QED
  BY <1>1, <1>2, <1>3, KeysApart

LEMMA SaveType ==
  ASSUME Typed, NEW s \in Slot, InFlow(s), NEW v \in Value,
         NEW st \in {"RUNNING", "FAILED", "COMPLETED"}, Save(s, st, v)
  PROVE  /\ cp' \in [Run -> [Key -> Checkpoint]]
         /\ cp'[slot[s].run][KeyOf(s)] = [status |-> st, value |-> v]
         /\ \A i \in Run, k \in Key :
              i # slot[s].run \/ k # KeyOf(s) => cp'[i][k] = cp[i][k]
<1>1. slot[s].run \in Run /\ KeyOf(s) \in Key
  BY AtStep DEF InFlow, At
<1>2. [status |-> st, value |-> v] \in Checkpoint
  BY DEF Checkpoint
<1>3. cp \in [Run -> [Key -> Checkpoint]]
  BY DEF Typed, TypeOK
<1> DEFINE q == [status |-> st, value |-> v]
<1> HIDE DEF q
<1>4. cp' = [cp EXCEPT ![slot[s].run][KeyOf(s)] = q]
  BY DEF Save, q
<1>5. q \in Checkpoint
  BY <1>2 DEF q
<1>6. QED
  BY <1>1, <1>3, <1>4, <1>5 DEF q

-----------------------------------------------------------------------------
(***************************************************************************)
(* What an action does to the rows: it inserts one, or leaves all what they*)
(* are of and for.                                                         *)
(***************************************************************************)

RowsTyped == /\ run \in [Run -> RunRow]
             /\ \A i \in Run : run[i].state = "RUNNING" <=> run[i].owner # NoSlot

SameRows ==
  \A i \in Run : /\ run'[i].dep = run[i].dep /\ run'[i].parent = run[i].parent
                 /\ run'[i].key = run[i].key
                 /\ (run'[i].state = NoState <=> run[i].state = NoState)

\* Create, by the goroutine s.
Born(s, c, key) ==
  /\ ~Exists(c) /\ \A i \in Run : i < c => Exists(i)
  /\ run'[c].state = "SCHEDULED" /\ run'[c].parent = slot[s].run
  /\ run'[c].dep = StepOf(s).dep /\ run'[c].key = key
  /\ \A i \in Run : i # c => run'[i] = run[i]

RowInserted ==
  \E s \in Slot, c \in Run :
    /\ InFlow(s) /\ StepOf(s).op \in {"start", "wait"}
    /\ ~Refuses(slot[s].run, StepOf(s).dep)
    /\ \/ Born(s, c, NoKey)
       \/ StepOf(s).op = "wait" /\ ChildOf(s) = {} /\ Born(s, c, KeyOf(s))

LEMMA RowChange ==
  ASSUME RowsTyped, NEW i \in Run, NEW q \in RunRow, run' = [run EXCEPT ![i] = q],
         q.dep = run[i].dep, q.parent = run[i].parent, q.key = run[i].key,
         q.state = NoState <=> run[i].state = NoState,
         q.state = "RUNNING" <=> q.owner # NoSlot
  PROVE  RowsTyped' /\ SameRows
BY DEF RowsTyped, SameRows

LEMMA LeaseRow ==
  ASSUME Typed, NEW s \in Slot, NEW i \in Run, Lease(s, i)
  PROVE  RowsTyped' /\ SameRows
<1> DEFINE q == [run[i] EXCEPT !.state = "RUNNING", !.owner = s,
                               !.count = More(run[i].count)]
<1>1. run[i] \in RunRow /\ RowsTyped
  BY DEF Typed, TypeOK, RowsTyped
<1>2. More(run[i].count) \in 0..(Retries + 2)
  <2>1. run[i].count \in 0..(Retries + 2) /\ Retries \in Nat
    BY <1>1, ReplayAssumption DEF RunRow
  <2>2. QED
    BY <2>1 DEF More
<1>3. q \in RunRow
  <2>1. "RUNNING" \in State
    BY DEF State
  <2>2. QED
    BY <1>1, <1>2, <2>1 DEF RunRow
<1>4. /\ q.state = "RUNNING" /\ q.owner = s /\ q.dep = run[i].dep
      /\ q.parent = run[i].parent /\ q.key = run[i].key
  BY <1>1 DEF RunRow
<1>5. run' = [run EXCEPT ![i] = q]
  BY <1>1 DEF Lease, RowsTyped
<1>6. s # NoSlot /\ "RUNNING" # NoState /\ run[i].state # NoState
  BY ReplayAssumption DEF NoState, Lease
<1> HIDE DEF q
<1>7. QED
  BY <1>1, <1>3, <1>4, <1>5, <1>6, RowChange

LEMMA VerdictType ==
  ASSUME Typed, NEW s \in Slot
  PROVE  /\ Verdict(s) \in State \ {"RUNNING"}
         /\ ResumesAt(s) \in Time
<1>1. Verdict(s) \in {"SCHEDULED", "COMPLETED", "FAILED"}
  BY DEF Verdict
<1>2. ResumesAt(s) \in Time
  <2>1. slot[s].until \in Time
    BY DEF Typed, TypeOK, Goroutine
  <2>2. Now \in Time /\ Later \in Time
    BY DEF Time
  <2>3. QED
    BY <2>1, <2>2 DEF ResumesAt
<1>3. QED
  BY <1>1, <1>2 DEF State

LEMMA FinishRow ==
  ASSUME Typed, NEW s \in Slot, Finish(s) PROVE RowsTyped' /\ SameRows
<1> DEFINE i == slot[s].run
           at == IF Verdict(s) = "SCHEDULED" THEN ResumesAt(s) ELSE run[i].at
           q == [run[i] EXCEPT !.state = Verdict(s), !.owner = NoSlot, !.at = at]
<1>1. i \in Run /\ Exists(i) /\ run[i] \in RunRow /\ RowsTyped
  BY AtStep DEF Typed, TypeOK, RowsTyped, Finish, At
<1>2. at \in Time
  BY <1>1, VerdictType DEF RunRow
<1>3. run' = [run EXCEPT ![i] = q]
  BY <1>1 DEF Finish, RowsTyped
<1> HIDE DEF at
<1>4. q \in RunRow
  <2>1. Verdict(s) \in State
    BY VerdictType
  <2>2. QED
    BY <1>1, <1>2, <2>1 DEF RunRow
<1>5. /\ q.state = Verdict(s) /\ q.owner = NoSlot /\ q.dep = run[i].dep
      /\ q.parent = run[i].parent /\ q.key = run[i].key
  BY <1>1 DEF RunRow
<1>6. Verdict(s) # NoState /\ Verdict(s) # "RUNNING" /\ run[i].state # NoState
  BY <1>1, VerdictType DEF State, NoState, Exists
<1> HIDE DEF q, i
<1>7. QED
  BY <1>1, <1>3, <1>4, <1>5, <1>6, RowChange

\* A change of the time a run is scheduled for.
LEMMA TimeRow ==
  ASSUME Typed, NEW i \in Run, NEW at \in Time, run' = [run EXCEPT ![i].at = at]
  PROVE  RowsTyped' /\ SameRows
<1> DEFINE q == [run[i] EXCEPT !.at = at]
<1>1. run[i] \in RunRow /\ RowsTyped
  BY DEF Typed, TypeOK, RowsTyped
<1>2. /\ q \in RunRow /\ q.state = run[i].state /\ q.owner = run[i].owner
      /\ q.dep = run[i].dep /\ q.parent = run[i].parent /\ q.key = run[i].key
  BY <1>1 DEF RunRow
<1>3. /\ q.state = "RUNNING" <=> q.owner # NoSlot
      /\ q.state = NoState <=> run[i].state = NoState
  BY <1>1, <1>2 DEF RowsTyped
<1>4. run' = [run EXCEPT ![i] = q]
  BY <1>1 DEF RowsTyped
<1> HIDE DEF q
<1>5. QED
  BY <1>1, <1>2, <1>3, <1>4, RowChange

LEMMA ReclaimRow ==
  ASSUME Typed, NEW i \in Run, Reclaim(i) PROVE RowsTyped' /\ SameRows
<1> DEFINE st == IF run[i].count <= Retries + 1 THEN "SCHEDULED" ELSE "FAILED"
           q == [run[i] EXCEPT !.owner = NoSlot, !.at = Later, !.state = st]
<1>1. run[i] \in RunRow /\ RowsTyped
  BY DEF Typed, TypeOK, RowsTyped
<1>2. run[i].state = "RUNNING"
  BY DEF Reclaim, Abandoned
<1>3. st \in {"SCHEDULED", "FAILED"}
  OBVIOUS
<1>4. run' = [run EXCEPT ![i] = q]
  BY <1>1 DEF Reclaim, RowsTyped
<1> HIDE DEF st
<1>5. st \in State /\ st # "RUNNING" /\ st # NoState /\ "RUNNING" # NoState
  BY <1>3 DEF State, NoState
<1>6. Later \in Time
  BY DEF Time
<1>7. q \in RunRow
  BY <1>1, <1>5, <1>6 DEF RunRow
<1>8. /\ q.state = st /\ q.owner = NoSlot /\ q.dep = run[i].dep
      /\ q.parent = run[i].parent /\ q.key = run[i].key
  BY <1>1 DEF RunRow
<1> HIDE DEF q
<1>9. QED
  BY <1>1, <1>2, <1>4, <1>5, <1>7, <1>8, RowChange

LEMMA OperatorRow ==
  ASSUME Typed, NEW i \in Run, Cancel(i) \/ Reschedule(i)
  PROVE  RowsTyped' /\ SameRows
<1> DEFINE p == [run[i] EXCEPT !.state = "CANCELLED"]
           q == [run[i] EXCEPT !.state = "SCHEDULED", !.at = Now]
<1>1. run[i] \in RunRow /\ RowsTyped
  BY DEF Typed, TypeOK, RowsTyped
<1>2. run[i].state \in {"SCHEDULED", "FAILED"}
  BY DEF Cancel, Reschedule
<1>3. run[i].state # NoState /\ run[i].owner = NoSlot
  BY <1>1, <1>2 DEF RowsTyped, NoState
<1>4. run' = [run EXCEPT ![i] = p] \/ run' = [run EXCEPT ![i] = q]
  BY <1>1 DEF Cancel, Reschedule, RowsTyped
<1>5. Now \in Time
  BY DEF Time
<1>6. p \in RunRow /\ q \in RunRow
  <2>1. "CANCELLED" \in State /\ "SCHEDULED" \in State
    BY DEF State
  <2>2. QED
    BY <1>1, <1>5, <2>1 DEF RunRow
<1>7. /\ p.state = "CANCELLED" /\ p.owner = NoSlot /\ p.dep = run[i].dep
      /\ p.parent = run[i].parent /\ p.key = run[i].key
      /\ q.state = "SCHEDULED" /\ q.owner = NoSlot /\ q.dep = run[i].dep
      /\ q.parent = run[i].parent /\ q.key = run[i].key
  BY <1>1, <1>3 DEF RunRow
<1>8. "CANCELLED" # NoState /\ "SCHEDULED" # NoState
  BY DEF NoState
<1> HIDE DEF p, q
<1>9. QED
  BY <1>1, <1>3, <1>4, <1>6, <1>7, <1>8, RowChange

LEMMA CreateRow ==
  ASSUME Typed, NEW s \in Slot, InFlow(s), StepOf(s).op \in {"start", "wait"},
         NEW c \in Run, NEW key \in Key \cup {NoKey}, Create(s, c, key)
  PROVE  RowsTyped' /\ Born(s, c, key)
<1> DEFINE q == [NoRow EXCEPT !.state = "SCHEDULED", !.dep = StepOf(s).dep,
                              !.parent = slot[s].run, !.key = key]
<1>1. slot[s].run \in Run /\ run[slot[s].run].dep \in Dep
  BY AtStep DEF InFlow, At
<1>2. StepOf(s).dep \in Dep
  <2>1. slot[s].step \in DOMAIN Flow[run[slot[s].run].dep]
    BY AtStep DEF InFlow, At
  <2>2. QED
    BY <1>1, <2>1, StepsAssumption DEF StepOf
<1>3. slot[s].run \in Ids /\ 0 \in Ids /\ Now \in Time /\ 0 \in 0..(Retries + 2)
  BY <1>1, ReplayAssumption DEF Run, Ids, Time
<1>4. NoRow \in RunRow /\ NoRow.owner = NoSlot
  BY <1>3 DEF NoRow, RunRow
<1>5. "SCHEDULED" \in State
  BY DEF State
<1>6. q \in RunRow
  BY <1>2, <1>3, <1>4, <1>5 DEF RunRow
<1>7. /\ q.state = "SCHEDULED" /\ q.dep = StepOf(s).dep /\ q.parent = slot[s].run
      /\ q.key = key /\ q.owner = NoSlot
  BY <1>4 DEF RunRow
<1>8. /\ run' = [run EXCEPT ![c] = q] /\ ~Exists(c)
      /\ \A i \in Run : i < c => Exists(i)
  BY DEF Create
<1> HIDE DEF q
<1>9. RowsTyped
  BY DEF Typed, TypeOK, RowsTyped
<1>10. QED
  BY <1>6, <1>7, <1>8, <1>9 DEF RowsTyped, Born

LEMMA InsertRow ==
  ASSUME Typed, NEW s \in Slot, StartChild(s) \/ Trigger(s)
  PROVE  RowsTyped' /\ (run' = run \/ RowInserted)
<1>0. RowsTyped
  BY DEF Typed, TypeOK, RowsTyped
<1>1. CASE run' = run
  BY <1>0, <1>1 DEF RowsTyped
<1>2. CASE StartChild(s) /\ run' # run
  <2>1. InFlow(s) /\ StepOf(s).op = "start" /\ ~Refuses(slot[s].run, StepOf(s).dep)
    BY <1>2 DEF StartChild, InFlow, At
  <2>2. PICK c \in Run : Create(s, c, NoKey)
    BY <1>2, <2>1 DEF StartChild
  <2>3. RowsTyped' /\ Born(s, c, NoKey)
    BY <2>1, <2>2, CreateRow
  <2>4. QED
    BY <2>1, <2>3 DEF RowInserted
<1>3. CASE Trigger(s) /\ run' # run
  <2>1. InFlow(s) /\ At(s, "trigger") /\ ~Refuses(slot[s].run, StepOf(s).dep)
    BY <1>3 DEF Trigger, InFlow, At
  <2>2. StepOf(s).op = "wait" /\ KeyOf(s) \in Key
    BY <2>1, AtStep DEF At, Typed, SlotsInStep, InStep
  <2>3. ChildOf(s) = {}
    BY <1>3 DEF Trigger
  <2>4. PICK c \in Run : Create(s, c, KeyOf(s))
    BY <1>3 DEF Trigger
  <2>5. RowsTyped' /\ Born(s, c, KeyOf(s))
    BY <2>1, <2>2, <2>4, CreateRow
  <2>6. QED
    BY <2>1, <2>2, <2>3, <2>5 DEF RowInserted
<1>4. QED
  BY <1>1, <1>2, <1>3

\* The steps of a goroutine that leave every row alone.
Apart(s) ==
  \/ Load(s) \/ Open(s) \/ FnSucceeds(s) \/ SaveResult(s) \/ Wake(s)
  \/ Link(s) \/ Poll(s) \/ CountChildren(s) \/ StatementFails(s) \/ Crash(s)
  \/ \E kind \in {"error", "permanent", "suspend"} : FnFails(s, kind)

LEMMA ApartRows == ASSUME NEW s \in Slot, Apart(s) PROVE run' = run
BY DEF Apart, Load, Open, FnSucceeds, SaveResult, Wake, Link, Poll,
       CountChildren, StatementFails, Crash, FnFails

LEMMA SleepEndsRow ==
  ASSUME Typed, NEW i \in Run, NEW key \in Key, SleepEnds(i, key)
  PROVE  RowsTyped' /\ SameRows
<1> DEFINE at == IF run[i].at = key THEN Now ELSE run[i].at
<1>1. run \in [Run -> RunRow] /\ Now \in Time
  BY DEF Typed, TypeOK, Time
<1>2. at \in Time
  BY <1>1 DEF RunRow
<1>3. run' = [run EXCEPT ![i].at = at]
  BY <1>1 DEF SleepEnds
<1> HIDE DEF at
<1>4. QED
  BY <1>2, <1>3, TimeRow

LEMMA ResumeRow ==
  ASSUME Typed, NEW s \in Slot, ResumeParent(s) PROVE RowsTyped' /\ SameRows
<1> DEFINE p == run[slot[s].run].parent
<1>1. RowsTyped
  BY DEF Typed, TypeOK, RowsTyped
<1>2. CASE run' = run
  BY <1>1, <1>2 DEF RowsTyped, SameRows
<1>3. CASE run' # run
  <2>1. run' = [run EXCEPT ![p].at = Now]
    BY <1>3 DEF ResumeParent
  <2>2. p \in Run
    BY <1>3, <2>1, <1>1 DEF RowsTyped
  <2>3. Now \in Time
    BY DEF Time
  <2> HIDE DEF p
  <2>4. QED
    BY <2>1, <2>2, <2>3, TimeRow
<1>4. QED
  BY <1>2, <1>3

LEMMA RowsStep ==
  ASSUME Typed, [Next]_vars PROVE RowsTyped' /\ (SameRows \/ RowInserted)
<1>1. RowsTyped
  BY DEF Typed, TypeOK, RowsTyped
<1>2. CASE run' = run
  BY <1>1, <1>2 DEF RowsTyped, SameRows
<1>3. ASSUME NEW s \in Slot, StartChild(s) \/ Trigger(s)
      PROVE  RowsTyped' /\ (SameRows \/ RowInserted)
  BY <1>2, <1>3, InsertRow
<1>4. ASSUME NEW s \in Slot, Finish(s) \/ ResumeParent(s)
      PROVE  RowsTyped' /\ SameRows
  BY <1>4, FinishRow, ResumeRow
<1>5. ASSUME NEW s \in Slot, NEW i \in Run, Lease(s, i)
      PROVE  RowsTyped' /\ SameRows
  BY <1>5, LeaseRow
<1>6. ASSUME NEW i \in Run, ComesDue(i) PROVE RowsTyped' /\ SameRows
  BY <1>6, TimeRow DEF ComesDue, Time
<1>7. ASSUME NEW i \in Run,
             Reclaim(i) \/ Cancel(i) \/ Reschedule(i)
               \/ \E key \in Key : SleepEnds(i, key)
      PROVE  RowsTyped' /\ SameRows
  BY <1>7, ReclaimRow, OperatorRow, SleepEndsRow
<1>8. CASE \E s \in Slot : Apart(s)
  BY <1>2, <1>8, ApartRows
<1>9. CASE UNCHANGED vars
  BY <1>2, <1>9 DEF vars
<1>10. QED
  BY <1>3, <1>4, <1>5, <1>6, <1>7, <1>8, <1>9 DEF Next, FlowStep, Apart

-----------------------------------------------------------------------------
(***************************************************************************)
(* The tree of the runs.                                                   *)
(***************************************************************************)

LEMMA InsertedFacts ==
  ASSUME Typed, RowInserted
  PROVE  \E s \in Slot, c \in Run, key \in Key \cup {NoKey} :
           /\ InFlow(s) /\ ~Refuses(slot[s].run, StepOf(s).dep)
           /\ slot[s].run \in Run /\ Exists(slot[s].run) /\ slot[s].run < c
           /\ StepOf(s).dep \in Dep
           /\ Born(s, c, key)
           /\ \/ key = NoKey
              \/ key = KeyOf(s) /\ StepOf(s).op = "wait" /\ ChildOf(s) = {}
<1>1. PICK s \in Slot, c \in Run :
        /\ InFlow(s) /\ StepOf(s).op \in {"start", "wait"}
        /\ ~Refuses(slot[s].run, StepOf(s).dep)
        /\ \/ Born(s, c, NoKey)
           \/ StepOf(s).op = "wait" /\ ChildOf(s) = {} /\ Born(s, c, KeyOf(s))
  BY DEF RowInserted
<1>2. /\ slot[s].run \in Run /\ Exists(slot[s].run)
      /\ run[slot[s].run].dep \in Dep /\ KeyOf(s) \in Key
      /\ slot[s].step \in DOMAIN Flow[run[slot[s].run].dep]
  BY <1>1, AtStep DEF InFlow, At
<1>3. StepOf(s).dep \in Dep
  BY <1>1, <1>2, StepsAssumption DEF StepOf
<1>4. ~Exists(c)
  BY <1>1 DEF Born
<1>5. slot[s].run < c
  <2>1. slot[s].run \in Nat /\ c \in Nat /\ slot[s].run # c
    BY <1>2, <1>4 DEF Run
  <2>2. ~(c < slot[s].run)
    BY <1>2, <1>4 DEF Typed, RowsInOrder
  <2>3. QED
    BY <2>1, <2>2
<1>6. QED
  BY <1>1, <1>2, <1>3, <1>5

\* No row is ever taken away or becomes another's.
LEMMA RowsStay ==
  ASSUME Typed, [Next]_vars
  PROVE  \A i \in Run : Exists(i) => /\ run'[i].state # NoState
                                     /\ run'[i].dep = run[i].dep
                                     /\ run'[i].parent = run[i].parent
                                     /\ run'[i].key = run[i].key
<1>1. CASE SameRows
  BY <1>1 DEF SameRows, Exists
<1>2. CASE RowInserted
  BY <1>2, InsertedFacts DEF Born, Exists
<1>3. QED
  BY <1>1, <1>2, RowsStep

LEMMA RowsInOrderStep ==
  ASSUME Typed, [Next]_vars PROVE RowsInOrder'
<1>1. RowsInOrder
  BY DEF Typed
<1>2. CASE SameRows
  <2>1. ASSUME NEW i \in Run, run'[i].parent # 0 PROVE run[i].parent \in Run
    <3>1. run[i] \in RunRow /\ run[i].parent # 0
      BY <1>2, <2>1 DEF SameRows, Typed, TypeOK
    <3>2. QED
      BY <3>1, ReplayAssumption DEF RunRow, Ids, Run
  <2>2. QED
    BY <1>1, <1>2, <2>1 DEF SameRows, RowsInOrder, Exists
<1>3. CASE RowInserted
  <2>1. PICK s \in Slot, c \in Run, key \in Key \cup {NoKey} :
          /\ slot[s].run \in Run /\ Exists(slot[s].run) /\ slot[s].run < c
          /\ StepOf(s).dep \in Dep /\ Born(s, c, key)
    BY <1>3, InsertedFacts
  <2>2. /\ ~Exists(c) /\ run'[c].state # NoState /\ run'[c].dep \in Dep
        /\ run'[c].parent = slot[s].run
        /\ \A i \in Run : i < c => Exists(i)
        /\ \A i \in Run : i # c => run'[i] = run[i]
    BY <2>1 DEF Born, NoState
  <2>3. \A i, j \in Run : Exists(i)' /\ j < i => Exists(j)'
    <3>1. \A i, j \in Run : Exists(i) /\ j < i => Exists(j)
      BY <1>1 DEF RowsInOrder
    <3>2. QED
      BY <2>2, <3>1 DEF Exists
  <2>4. \A i \in Run : Exists(i)' => run'[i].dep \in Dep
    BY <1>1, <2>2 DEF RowsInOrder, Exists
  <2>5. ASSUME NEW i \in Run, run'[i].parent # 0
        PROVE  /\ Exists(i)' /\ run'[i].parent < i
               /\ run'[run'[i].parent].state # NoState
    <3>1. CASE i = c
      BY <2>1, <2>2, <3>1 DEF Exists
    <3>2. CASE i # c
      <4>1. run'[i] = run[i] /\ run[i].parent \in Ids
        BY <2>2, <3>2 DEF Typed, TypeOK, RunRow
      <4>2. run[i].parent \in Run
        BY <2>5, <4>1, ReplayAssumption DEF Ids, Run
      <4>3. Exists(i) /\ Exists(run[i].parent) /\ run[i].parent < i
        BY <1>1, <2>5, <4>1 DEF RowsInOrder
      <4>4. QED
        BY <2>2, <4>1, <4>2, <4>3 DEF Exists
    <3>3. QED
      BY <3>1, <3>2
  <2>6. QED
    BY <2>3, <2>4, <2>5 DEF RowsInOrder, Exists
<1>4. QED
  BY <1>2, <1>3, RowsStep

LEMMA ParentType ==
  ASSUME Typed, NEW i \in Run, run[i].parent # 0
  PROVE  run[i].parent \in Run /\ Exists(i) /\ Exists(run[i].parent)
<1>1. run[i].parent \in Ids
  BY DEF Typed, TypeOK, RunRow
<1>2. QED
  BY <1>1, ReplayAssumption DEF Ids, Run, Typed, RowsInOrder

LEMMA ChildrenAreAwaitedStep ==
  ASSUME Typed, ChildrenAreAwaited, [Next]_vars PROVE ChildrenAreAwaited'
<1> SUFFICES ASSUME NEW i \in Run, Exists(i)', run'[i].key # NoKey
             PROVE  ChildIsAwaited(i)'
  BY DEF ChildrenAreAwaited, ChildIsAwaited
<1>1. CASE Exists(i)
  <2>1. /\ run'[i].parent = run[i].parent /\ run'[i].key = run[i].key
        /\ run'[i].dep = run[i].dep
    BY <1>1, RowsStay
  <2>2. ChildIsAwaited(i) /\ run[i].key # NoKey
    BY <1>1, <2>1 DEF ChildrenAreAwaited
  <2>3. run[i].parent # 0
    BY <2>2 DEF ChildIsAwaited
  <2>4. run'[run[i].parent].dep = run[run[i].parent].dep
    BY <2>3, ParentType, RowsStay
  <2>5. QED
    BY <2>1, <2>2, <2>4 DEF ChildIsAwaited
<1>2. CASE ~Exists(i)
  <2>1. RowInserted
    BY <1>2, RowsStep DEF SameRows, Exists
  <2>2. PICK s \in Slot, c \in Run, key \in Key \cup {NoKey} :
          /\ InFlow(s) /\ slot[s].run \in Run /\ Exists(slot[s].run)
          /\ Born(s, c, key)
          /\ \/ key = NoKey
             \/ key = KeyOf(s) /\ StepOf(s).op = "wait"
    BY <2>1, InsertedFacts
  <2>3. i = c
    BY <1>2, <2>2 DEF Born, Exists
  <2>4. /\ run'[i].parent = slot[s].run /\ run'[i].key = KeyOf(s)
        /\ run'[i].dep = StepOf(s).dep /\ StepOf(s).op = "wait"
    BY <2>2, <2>3 DEF Born
  <2>5. slot[s].step \in DOMAIN Flow[run[slot[s].run].dep]
    BY <2>2, AtStep DEF InFlow, At
  <2>6. run'[slot[s].run].dep = run[slot[s].run].dep /\ slot[s].run # 0
    BY <2>2, RowsStay DEF Run
  <2>7. QED
    BY <2>4, <2>5, <2>6 DEF ChildIsAwaited, StepOf, KeyOf
<1>3. QED
  BY <1>1, <1>2

\* The trigger finds the child of a former attempt by its key.
LEMMA OneChildStep ==
  ASSUME Typed, OneChildPerCall, [Next]_vars PROVE OneChildPerCall'
<1>1. CASE SameRows
  BY <1>1 DEF SameRows, OneChildPerCall, Exists
<1>2. CASE RowInserted
  <2>1. PICK s \in Slot, c \in Run, key \in Key \cup {NoKey} :
          /\ Born(s, c, key)
          /\ \/ key = NoKey
             \/ key = KeyOf(s) /\ StepOf(s).op = "wait" /\ ChildOf(s) = {}
    BY <1>2, InsertedFacts
  <2>2. /\ run'[c].parent = slot[s].run /\ run'[c].key = key
        /\ \A i \in Run : i # c => run'[i] = run[i]
    BY <2>1 DEF Born
  <2>3. ASSUME NEW d \in Run, d # c, Exists(d), run'[c].key # NoKey,
               run[d].key = run'[c].key, run[d].parent = run'[c].parent
        PROVE  FALSE
    BY <2>1, <2>2, <2>3 DEF ChildOf
  <2>4. QED
    BY <2>2, <2>3 DEF OneChildPerCall, Exists
<1>3. QED
  BY <1>1, <1>2, RowsStep

-----------------------------------------------------------------------------
(***************************************************************************)
(* The depth of the tree.  A least run that has a property stands in for   *)
(* induction along the parents.                                            *)
(***************************************************************************)

LEMMA LeastNat ==
  ASSUME NEW T \in SUBSET Nat, T # {}
  PROVE  \E x \in T : \A y \in T : x <= y
<1> DEFINE R == OpToRel(<, Nat)
<1>1. IsWellFoundedOn(R, Nat)
  BY NatLessThanWellFounded
<1>2. \A x, y \in Nat : <<x, y>> \in R <=> x < y
  BY DEF OpToRel
<1> HIDE DEF R
<1>3. PICK x \in T : \A y \in T : ~(<<y, x>> \in R)
  BY <1>1, WFMin
<1>4. \A y \in T : ~(y < x)
  BY <1>2, <1>3
<1>5. QED
  BY <1>4

LEMMA IdsAreNat == Ids \subseteq Nat /\ 0 \in Ids /\ MaxRuns \in Ids /\ Run = Ids \ {0}
BY ReplayAssumption DEF Ids, Run

\* The recursive definition of Ancestors is one, since parents are older.
LEMMA AncestorsExist ==
  ASSUME NEW p, \A i \in Run : p[i].parent \in Ids,
         \A i \in Run : p[i].parent # 0 => p[i].parent < i
  PROVE  \E f : f = [i \in Ids |-> IF i = 0 \/ p[i].parent = 0 THEN {}
                                   ELSE {p[i].parent} \cup f[p[i].parent]]
<1> DEFINE Body(f, i) == IF i = 0 \/ p[i].parent = 0 THEN {}
                         ELSE {p[i].parent} \cup f[p[i].parent]
           Good(n) == \E f : /\ f = [i \in 0..n |-> f[i]]
                             /\ \A i \in 0..n : f[i] = Body(f, i)
<1>1. Good(0)
  <2>1. [i \in 0..0 |-> {}] = [j \in 0..0 |-> [i \in 0..0 |-> {}][j]]
    OBVIOUS
  <2>2. \A i \in 0..0 : [j \in 0..0 |-> {}][i] = Body([j \in 0..0 |-> {}], i)
    OBVIOUS
  <2>3. QED
    BY <2>1, <2>2
<1>2. ASSUME NEW n \in Ids, n # 0, Good(n - 1) PROVE Good(n)
  <2>1. n \in Nat /\ n \in Run /\ n - 1 \in Nat
    BY <1>2, IdsAreNat
  <2>2. PICK f : \A i \in 0..(n - 1) : f[i] = Body(f, i)
    BY <1>2
  <2> DEFINE g == [i \in 0..n |-> IF i = n THEN Body(f, n) ELSE f[i]]
  <2>3. g = [i \in 0..n |-> g[i]]
    OBVIOUS
  <2>4. ASSUME NEW i \in 0..n PROVE g[i] = Body(g, i)
    <3>1. CASE i = 0 \/ p[i].parent = 0
      <4>1. i # n => i \in 0..(n - 1)
        BY <2>1, <2>4
      <4>2. QED
        BY <2>1, <2>2, <2>4, <3>1, <4>1
    <3>2. CASE i # 0 /\ p[i].parent # 0
      <4>1. i \in Nat /\ i <= n /\ i \in Run
        BY <2>1, <2>4, <3>2, ReplayAssumption DEF Run, Ids
      <4>2. p[i].parent \in Nat /\ p[i].parent < i
        BY <3>2, <4>1, IdsAreNat
      <4>3. p[i].parent \in 0..n /\ p[i].parent # n
        BY <2>1, <4>1, <4>2
      <4>4. g[p[i].parent] = f[p[i].parent]
        BY <4>3
      <4>5. g[i] = Body(f, i)
        BY <2>1, <2>2, <2>4, <4>1
      <4>6. QED
        BY <3>2, <4>4, <4>5
    <3>3. QED
      BY <3>1, <3>2
  <2> HIDE DEF g
  <2>5. QED
    BY <2>3, <2>4
<1>3. \A n \in Ids : Good(n)
  <2> DEFINE T == {n \in Ids : ~Good(n)}
  <2> HIDE DEF Good
  <2>1. SUFFICES ASSUME T # {} PROVE FALSE
    OBVIOUS
  <2>2. PICK n \in T : \A m \in T : n <= m
    BY <2>1, LeastNat, IdsAreNat
  <2>3. n \in Nat /\ n # 0 /\ n <= MaxRuns
    BY <1>1, <2>2, IdsAreNat DEF Ids
  <2>4. n - 1 \in Ids /\ n - 1 \notin T
    BY <2>2, <2>3, ReplayAssumption DEF Ids
  <2>5. QED
    BY <1>2, <2>2, <2>3, <2>4
<1>4. PICK f : f = [i \in Ids |-> f[i]] /\ \A i \in Ids : f[i] = Body(f, i)
  BY <1>3, IdsAreNat DEF Ids
<1>5. f = [i \in Ids |-> Body(f, i)]
  BY <1>4
<1>6. QED
  BY <1>5

AncestorsUnfold ==
  \A i \in Ids : Ancestors[i] = IF i = 0 \/ run[i].parent = 0 THEN {}
                               ELSE {run[i].parent} \cup Ancestors[run[i].parent]

LEMMA AncestorsAre == Typed => AncestorsUnfold
<1> SUFFICES ASSUME Typed PROVE AncestorsUnfold
  OBVIOUS
<1>1. /\ \A i \in Run : run[i].parent \in Ids
      /\ \A i \in Run : run[i].parent # 0 => run[i].parent < i
  BY DEF Typed, TypeOK, RunRow, RowsInOrder
<1>2. \E f : f = [i \in Ids |-> IF i = 0 \/ run[i].parent = 0 THEN {}
                               ELSE {run[i].parent} \cup f[run[i].parent]]
  BY <1>1, AncestorsExist
<1>3. Ancestors = [i \in Ids |-> IF i = 0 \/ run[i].parent = 0 THEN {}
                                ELSE {run[i].parent} \cup Ancestors[run[i].parent]]
  BY <1>2 DEF Ancestors
<1>4. QED
  BY <1>3 DEF AncestorsUnfold

\* Ancestors are older, and there.
LEMMA AncestorsAreOlder ==
  ASSUME Typed, NEW i \in Ids
  PROVE  /\ IsFiniteSet(Ancestors[i])
         /\ \A a \in Ancestors[i] : a \in Run /\ a < i /\ Exists(a)
<1> DEFINE Ok(n) == /\ IsFiniteSet(Ancestors[n])
                    /\ \A a \in Ancestors[n] : a \in Run /\ a < n /\ Exists(a)
           T == {n \in Ids : ~Ok(n)}
<1>1. SUFFICES ASSUME T # {} PROVE FALSE
  BY <1>1
<1>2. PICK n \in T : \A m \in T : n <= m
  BY <1>1, LeastNat, IdsAreNat
<1>3. CASE n = 0 \/ run[n].parent = 0
  <2>1. Ancestors[n] = {}
    BY <1>2, <1>3, AncestorsAre DEF AncestorsUnfold
  <2>2. QED
    BY <1>2, <2>1, FS_EmptySet
<1>4. CASE n # 0 /\ run[n].parent # 0
  <2> DEFINE q == run[n].parent
  <2>1. n \in Run /\ n \in Nat
    BY <1>2, <1>4, IdsAreNat
  <2>2. q \in Run /\ Exists(q) /\ q < n /\ q \in Nat /\ q \in Ids
    BY <1>4, <2>1, ParentType, IdsAreNat DEF Typed, RowsInOrder
  <2>3. Ancestors[n] = {q} \cup Ancestors[q]
    BY <1>2, <1>4, AncestorsAre DEF AncestorsUnfold
  <2> HIDE DEF q
  <2>4. q \notin T
    BY <1>2, <2>1, <2>2
  <2>5. Ok(q)
    BY <2>2, <2>4
  <2>6. IsFiniteSet({q} \cup Ancestors[q])
    BY <2>5, FS_AddElement
  <2>7. \A a \in Ancestors[q] : a < n
    <3>1. \A a \in Ancestors[q] : a \in Nat /\ a < q
      BY <2>5, IdsAreNat
    <3>2. QED
      BY <2>1, <2>2, <3>1
  <2>8. Ok(n)
    BY <2>2, <2>3, <2>5, <2>6, <2>7
  <2>9. QED
    BY <1>2, <2>8
<1>5. QED
  BY <1>3, <1>4

\* The way up from a run is the same for ever.
LEMMA AncestorsStay ==
  ASSUME Typed, Typed', [Next]_vars, NEW i \in Run, Exists(i)
  PROVE  Ancestors'[i] = Ancestors[i]
<1> DEFINE T == {n \in Run : Exists(n) /\ Ancestors'[n] # Ancestors[n]}
<1>1. SUFFICES ASSUME T # {} PROVE FALSE
  OBVIOUS
<1>2. PICK n \in T : \A m \in T : n <= m
  BY <1>1, LeastNat, IdsAreNat
<1>3. n \in Ids /\ n # 0 /\ run'[n].parent = run[n].parent
  BY <1>2, RowsStay, IdsAreNat
<1>4. /\ Ancestors[n] = IF run[n].parent = 0 THEN {}
                        ELSE {run[n].parent} \cup Ancestors[run[n].parent]
      /\ Ancestors'[n] = IF run[n].parent = 0 THEN {}
                         ELSE {run[n].parent} \cup Ancestors'[run[n].parent]
  <2>1. Typed' => AncestorsUnfold'
    BY AncestorsAre, PTL
  <2>2. AncestorsUnfold /\ AncestorsUnfold'
    BY <2>1, AncestorsAre
  <2>3. QED
    BY <1>3, <2>2 DEF AncestorsUnfold
<1>5. run[n].parent # 0
  BY <1>2, <1>4
<1> DEFINE q == run[n].parent
<1>6. q \in Run /\ Exists(q) /\ q < n /\ q \in Nat /\ n \in Nat
  BY <1>2, <1>5, ParentType, IdsAreNat DEF Typed, RowsInOrder
<1> HIDE DEF q
<1>7. q \notin T
  BY <1>2, <1>6
<1>8. Ancestors'[q] = Ancestors[q]
  BY <1>6, <1>7
<1>9. QED
  BY <1>2, <1>4, <1>8 DEF q

LEMMA CyclesStep ==
  ASSUME Typed, Typed', CyclesAreRefused, [Next]_vars PROVE CyclesAreRefused'
<1>1. ASSUME NEW i \in Run, Exists(i)
      PROVE  /\ \A a \in Ancestors'[i] : run'[a].dep = run'[i].dep => a = run'[i].parent
             /\ Cardinality(Ancestors'[i]) <= MaxDepth
  <2>1. Ancestors'[i] = Ancestors[i]
    BY <1>1, AncestorsStay
  <2>2. \A a \in Ancestors[i] : run'[a].dep = run[a].dep
    BY AncestorsAreOlder, RowsStay, IdsAreNat
  <2>3. run'[i].dep = run[i].dep /\ run'[i].parent = run[i].parent
    BY <1>1, RowsStay
  <2>4. QED
    BY <1>1, <2>1, <2>2, <2>3 DEF CyclesAreRefused
<1>2. CASE RowInserted
  <2>1. PICK s \in Slot, c \in Run, key \in Key \cup {NoKey} :
          /\ ~Refuses(slot[s].run, StepOf(s).dep)
          /\ slot[s].run \in Run /\ Exists(slot[s].run) /\ Born(s, c, key)
    BY <1>2, InsertedFacts
  <2> DEFINE q == slot[s].run
             new == Ancestors[q]
  <2>2. /\ run'[c].parent = q /\ run'[c].dep = StepOf(s).dep
        /\ \A i \in Run : i # c => run'[i] = run[i]
        /\ q \in Ids /\ q # 0 /\ c \in Ids /\ c # 0
    BY <2>1, IdsAreNat DEF Born
  <2>3. Ancestors'[c] = {q} \cup Ancestors'[q]
    <3>1. Typed' => AncestorsUnfold'
      BY AncestorsAre, PTL
    <3>2. QED
      BY <2>2, <3>1 DEF AncestorsUnfold
  <2>4. Ancestors'[q] = new
    BY <2>1, AncestorsStay
  <2>5. /\ ~(Cardinality(new) >= MaxDepth)
        /\ \A a \in new : run[a].dep # StepOf(s).dep
    BY <2>1 DEF Refuses
  <2>6. IsFiniteSet(new) /\ \A a \in new : a \in Run /\ Exists(a) /\ a # q
    <3>1. q \in Nat /\ Run \subseteq Nat
      BY <2>2, IdsAreNat
    <3>2. QED
      BY <2>2, <3>1, AncestorsAreOlder
  <2>7. Cardinality({q} \cup new) <= MaxDepth
    <3>1. Cardinality(new) \in Nat /\ MaxDepth \in Nat
      BY <2>6, FS_CardinalityType, ReplayAssumption
    <3>2. Cardinality({q} \cup new) = Cardinality(new) + 1
      <4>1. new \cup {q} = {q} \cup new /\ q \notin new
        BY <2>6
      <4> HIDE DEF q, new
      <4>2. QED
        BY <2>6, <4>1, FS_AddElement
    <3>3. QED
      BY <2>5, <3>1, <3>2
  <2>8. \A a \in new : run'[a].dep # run'[c].dep
    BY <2>2, <2>5, <2>6, RowsStay
  <2>9. \A a \in Ancestors'[c] : run'[a].dep = run'[c].dep => a = run'[c].parent
    BY <2>2, <2>3, <2>4, <2>8
  <2>10. ASSUME NEW i \in Run, Exists(i)', ~Exists(i) PROVE i = c
    BY <2>2, <2>10 DEF Exists
  <2>11. Cardinality(Ancestors'[c]) <= MaxDepth
    BY <2>3, <2>4, <2>7
  <2>12. QED
    BY <1>1, <2>9, <2>10, <2>11 DEF CyclesAreRefused
<1>3. CASE SameRows
  BY <1>1, <1>3 DEF SameRows, CyclesAreRefused, Exists
<1>4. QED
  BY <1>2, <1>3, RowsStep

-----------------------------------------------------------------------------
(***************************************************************************)
(* The way of a goroutine: on within its step, out of the flow function,   *)
(* to the next step, away from its run, or to a run it has leased.         *)
(***************************************************************************)

Fits(pc, op) == /\ pc \in {"trigger", "link", "poll"} => op = "wait"
                /\ pc \in {"open", "body", "started", "save", "wake", "block"}
                     => op # "wait"
                /\ pc \in {"wake", "block"} => op = "sleep"

GoesOn(s) == /\ InFlow(s) /\ Only(s)
             /\ slot'[s].run = slot[s].run /\ slot'[s].step = slot[s].step
             /\ slot'[s].pc \in {"open", "body", "started", "save", "wake",
                                 "block", "trigger", "link", "poll"}
             /\ Fits(slot'[s].pc, StepOf(s).op)

GoesOut(s) == InFlow(s) /\ \E o \in {"error", "permanent", "suspend"} : Ends(s, o)

Takes(s, i) == /\ At(s, "idle") /\ run[i].state = "SCHEDULED"
               /\ Only(s) /\ slot'[s].run = i
               /\ slot'[s].pc = "load" /\ slot'[s].step = 1
               /\ run'[i].state = "RUNNING" /\ run'[i].owner = s

Walks(s) == \/ GoesOn(s) \/ GoesOut(s)
            \/ InFlow(s) /\ Passes(s)
            \/ ~At(s, "idle") /\ Leaves(s)

LEMMA PlaceFits ==
  ASSUME Typed, NEW s \in Slot, InFlow(s)
  PROVE  Fits(slot[s].pc, StepOf(s).op)
BY DEF Typed, SlotsInStep, InStep, Fits

LEMMA LoadWalks ==
  ASSUME Typed, NEW s \in Slot, Load(s)
  PROVE  /\ InFlow(s)
         /\ \/ /\ GoesOn(s) /\ StepOf(s).op = "wait" /\ given' = given
               /\ slot'[s].pc = IF Stored(s).value[1] = 0 THEN "trigger" ELSE "poll"
               /\ slot'[s].child = Stored(s).value[1]
            \/ /\ GoesOn(s) /\ StepOf(s).op = "sleep" /\ given' = given
               /\ slot'[s].pc = "wake" /\ Stored(s).status = "COMPLETED"
            \/ /\ GoesOn(s) /\ StepOf(s).op # "wait" /\ given' = given
               /\ slot'[s].pc = "open" /\ Stored(s).status # "COMPLETED"
            \/ /\ Passes(s) /\ StepOf(s).op \notin {"wait", "sleep"}
               /\ Stored(s).status = "COMPLETED"
               /\ given' = given \cup {<<slot[s].run, KeyOf(s), Stored(s).value>>}
<1>1. InFlow(s) /\ TypeOK /\ At(s, "load")
  BY DEF Load, InFlow, At, Typed
<1>2. CASE StepOf(s).op = "wait"
  <2> DEFINE v == Stored(s).value[1]
             pc == IF v = 0 THEN "trigger" ELSE "poll"
             q == [slot[s] EXCEPT !.child = v, !.pc = pc]
  <2>1. v \in Ids
    BY <1>1, AtStep DEF Checkpoint, Value, InFlow, At
  <2>2. slot' = [slot EXCEPT ![s] = q] /\ given' = given
    BY <1>1, <1>2 DEF Load, TypeOK
  <2>3. slot[s] \in Goroutine /\ pc \in {"trigger", "poll"}
    BY <1>1 DEF TypeOK
  <2> HIDE DEF v, pc
  <2>4. pc \in Pcs
    BY <2>3 DEF Pcs
  <2>5. q \in Goroutine /\ q.child = v /\ q.pc = pc /\ q.run = slot[s].run
          /\ q.step = slot[s].step
    BY <2>1, <2>3, <2>4, GoroutineForm
  <2> HIDE DEF q
  <2>6. Only(s) /\ slot'[s] = q
    BY <1>1, <2>2, <2>5 DEF TypeOK, Only
  <2>7. GoesOn(s)
    BY <1>1, <1>2, <2>3, <2>5, <2>6 DEF GoesOn, Fits
  <2>8. QED
    BY <1>1, <1>2, <2>2, <2>5, <2>6, <2>7 DEF v, pc
<1>3. CASE StepOf(s).op # "wait" /\ Stored(s).status # "COMPLETED"
  <2>1. Goto(s, "open") /\ given' = given
    BY <1>3 DEF Load
  <2>2. Moves(s, "open")
    BY <1>1, <2>1, GotoMoves DEF Pcs
  <2>3. QED
    BY <1>1, <1>3, <2>1, <2>2 DEF Moves, GoesOn, Fits
<1>4. CASE StepOf(s).op = "sleep" /\ Stored(s).status = "COMPLETED"
  <2>1. Goto(s, "wake") /\ given' = given
    BY <1>4 DEF Load, Deliver
  <2>2. Moves(s, "wake")
    BY <1>1, <2>1, GotoMoves DEF Pcs
  <2>3. QED
    BY <1>1, <1>4, <2>1, <2>2 DEF Moves, GoesOn, Fits
<1>5. CASE StepOf(s).op \notin {"wait", "sleep"} /\ Stored(s).status = "COMPLETED"
  <2>1. Advance(s, Stored(s).value)
    BY <1>5 DEF Load, Deliver
  <2>2. QED
    BY <1>1, <1>5, <2>1, AdvancePasses
<1>6. QED
  BY <1>2, <1>3, <1>4, <1>5

LEMMA OpenWalks ==
  ASSUME Typed, NEW s \in Slot, Open(s)
  PROVE  /\ InFlow(s) /\ At(s, "open") /\ StepOf(s).op # "wait"
         /\ \/ /\ GoesOn(s) /\ slot'[s].pc = "body"
               /\ given' = given /\ unsaved' = unsaved
               /\ Save(s, "RUNNING", NoValue)
            \/ /\ Passes(s) /\ StepOf(s).op # "sleep"
               /\ \E v \in Value :
                    /\ given' = given \cup {<<slot[s].run, KeyOf(s), v>>}
                    /\ \/ Save(s, "COMPLETED", v) /\ unsaved' = unsaved
                       \/ cp' = cp
                            /\ unsaved' = unsaved \cup {<<slot[s].run, KeyOf(s)>>}
<1>1. InFlow(s) /\ TypeOK /\ At(s, "open") /\ StepOf(s).op # "wait"
  BY PlaceFits DEF Open, InFlow, At, Typed, Fits
<1>2. CASE Save(s, "RUNNING", NoValue)
             /\ slot' = [slot EXCEPT ![s].pc = "body", ![s].attempt = 0]
             /\ UNCHANGED <<given, unsaved>>
  <2> DEFINE q == [slot[s] EXCEPT !.pc = "body", !.attempt = 0]
  <2>1. slot[s] \in Goroutine
    BY <1>1 DEF TypeOK
  <2>2. slot' = [slot EXCEPT ![s] = q]
    BY <1>1, <1>2 DEF TypeOK
  <2>3. q \in Goroutine /\ q.pc = "body" /\ q.run = slot[s].run /\ q.step = slot[s].step
    BY <2>1, GoroutineForm
  <2> HIDE DEF q
  <2>4. Only(s) /\ slot'[s] = q
    BY <1>1, <2>2, <2>3 DEF TypeOK, Only
  <2>5. QED
    BY <1>1, <1>2, <2>3, <2>4 DEF GoesOn, Fits
<1>3. CASE \E v \in Cached(StepOf(s).cache) :
             /\ Advance(s, v)
             /\ \/ Save(s, "COMPLETED", v) /\ UNCHANGED <<unsaved, faults>>
                \/ /\ May("dbError") /\ Fault /\ UNCHANGED cp
                   /\ unsaved' = unsaved \cup {<<slot[s].run, KeyOf(s)>>}
  <2>1. PICK v \in Cached(StepOf(s).cache) :
             /\ Advance(s, v)
             /\ \/ Save(s, "COMPLETED", v) /\ UNCHANGED <<unsaved, faults>>
                \/ /\ May("dbError") /\ Fault /\ UNCHANGED cp
                   /\ unsaved' = unsaved \cup {<<slot[s].run, KeyOf(s)>>}
    BY <1>3
  <2>2. Passes(s) /\ given' = given \cup {<<slot[s].run, KeyOf(s), v>>}
    BY <1>1, <2>1, AdvancePasses
  <2>3. v \in Value
    BY <1>1, <2>1 DEF Cached, TypeOK, Checkpoint
  <2>4. StepOf(s).cache # NoCache
    BY <2>1 DEF Cached
  <2>5. StepOf(s).op # "sleep"
    <3>1. /\ run[slot[s].run].dep \in Dep
          /\ slot[s].step \in DOMAIN Flow[run[slot[s].run].dep]
      BY <1>1, AtStep DEF InFlow, At
    <3>2. QED
      BY <2>4, <3>1, StepsAssumption DEF StepOf
  <2>6. QED
    BY <1>1, <2>1, <2>2, <2>3, <2>5
<1>4. QED
  BY <1>1, <1>2, <1>3 DEF Open

LEMMA FnSucceedsWalks ==
  ASSUME Typed, NEW s \in Slot, FnSucceeds(s)
  PROVE  /\ InFlow(s) /\ slot[s].pc \in {"body", "started"}
         /\ GoesOn(s) /\ slot'[s].pc = "save"
<1>1. /\ InFlow(s) /\ TypeOK /\ slot[s].pc \in {"body", "started"}
      /\ StepOf(s).op # "wait"
  BY PlaceFits DEF FnSucceeds, InFlow, At, Typed, Fits
<1>2. Moves(s, "save")
  BY <1>1, GotoMoves DEF FnSucceeds, Pcs
<1>3. QED
  BY <1>1, <1>2 DEF Moves, GoesOn, Fits

LEMMA FnFailsWalks ==
  ASSUME Typed, NEW s \in Slot, NEW kind \in {"error", "permanent", "suspend"},
         FnFails(s, kind)
  PROVE  /\ InFlow(s) /\ slot[s].pc \in {"body", "started"} /\ StepOf(s).op # "wait"
         /\ \/ GoesOn(s) /\ slot'[s].pc = "body" /\ cp' = cp
            \/ GoesOut(s) /\ (cp' = cp \/ Save(s, "FAILED", NoValue))
<1>1. /\ InFlow(s) /\ TypeOK /\ slot[s].pc \in {"body", "started"}
      /\ StepOf(s).op # "wait"
  BY PlaceFits DEF FnFails, InFlow, At, Typed, Fits
<1>2. CASE slot' = [slot EXCEPT ![s].pc = "body", ![s].attempt = @ + 1] /\ UNCHANGED cp
  <2> DEFINE q == [slot[s] EXCEPT !.pc = "body", !.attempt = slot[s].attempt + 1]
  <2>1. slot[s] \in Goroutine
    BY <1>1 DEF TypeOK
  <2>2. slot' = [slot EXCEPT ![s] = q]
    BY <1>1, <1>2, <2>1 DEF TypeOK
  <2>3. slot[s].attempt + 1 \in Nat
    BY <2>1 DEF Goroutine
  <2>4. q \in Goroutine /\ q.pc = "body" /\ q.run = slot[s].run /\ q.step = slot[s].step
    BY <2>1, <2>3, GoroutineForm
  <2> HIDE DEF q
  <2>5. Only(s) /\ slot'[s] = q
    BY <1>1, <2>2, <2>4 DEF TypeOK, Only
  <2>6. QED
    BY <1>1, <1>2, <2>4, <2>5 DEF GoesOn, Fits
<1>3. CASE /\ Returns(s, kind, Later)
           /\ IF kind = "suspend" THEN UNCHANGED cp ELSE Save(s, "FAILED", NoValue)
  <2>1. Ends(s, kind)
    BY <1>1, <1>3, ReturnsEnds DEF Outcome, Time
  <2>2. QED
    BY <1>1, <1>3, <2>1 DEF GoesOut
<1>4. QED
  BY <1>1, <1>2, <1>3 DEF FnFails

LEMMA SaveResultWalks ==
  ASSUME Typed, NEW s \in Slot, SaveResult(s)
  PROVE  /\ InFlow(s) /\ At(s, "save") /\ StepOf(s).op # "wait"
         /\ \E v \in Value :
              /\ Save(s, "COMPLETED", v)
              /\ \/ /\ GoesOn(s) /\ slot'[s].pc = "wake" /\ given' = given
                 \/ /\ Passes(s) /\ StepOf(s).op # "sleep"
                    /\ given' = given \cup {<<slot[s].run, KeyOf(s), v>>}
<1> DEFINE v == <<slot[s].run, work[slot[s].run][KeyOf(s)]>>
<1>1. InFlow(s) /\ TypeOK /\ At(s, "save") /\ StepOf(s).op # "wait"
  BY PlaceFits DEF SaveResult, InFlow, At, Typed, Fits
<1>2. v \in Value
  <2>1. slot[s].run \in Run /\ KeyOf(s) \in Key
    BY <1>1, AtStep DEF InFlow, At
  <2>2. work[slot[s].run][KeyOf(s)] \in 0..MaxWork /\ slot[s].run \in Ids
    BY <1>1, <2>1, IdsAreNat DEF TypeOK
  <2>3. QED
    BY <2>2 DEF Value
<1>3. Save(s, "COMPLETED", v) /\ Deliver(s, v)
  BY DEF SaveResult
<1> HIDE DEF v
<1>4. CASE StepOf(s).op = "sleep"
  <2>1. Goto(s, "wake") /\ given' = given
    BY <1>3, <1>4 DEF Deliver
  <2>2. Moves(s, "wake")
    BY <1>1, <2>1, GotoMoves DEF Pcs
  <2>3. GoesOn(s) /\ slot'[s].pc = "wake"
    BY <1>1, <1>4, <2>2 DEF Moves, GoesOn, Fits
  <2>4. QED
    BY <1>1, <1>2, <1>3, <2>1, <2>3
<1>5. CASE StepOf(s).op # "sleep"
  <2>1. Advance(s, v)
    BY <1>3, <1>5 DEF Deliver
  <2>2. Passes(s) /\ given' = given \cup {<<slot[s].run, KeyOf(s), v>>}
    BY <1>1, <2>1, AdvancePasses
  <2>3. QED
    BY <1>1, <1>2, <1>3, <1>5, <2>2
<1>6. QED
  BY <1>4, <1>5

LEMMA StatementFailsWalks ==
  ASSUME Typed, NEW s \in Slot, StatementFails(s) PROVE GoesOut(s)
<1>1. InFlow(s) /\ TypeOK
  BY DEF StatementFails, InFlow, At, Typed
<1>2. Ends(s, "error")
  BY <1>1, ReturnsEnds DEF StatementFails, Outcome, Time
<1>3. QED
  BY <1>1, <1>2 DEF GoesOut

LEMMA WakeWalks ==
  ASSUME Typed, NEW s \in Slot, Wake(s)
  PROVE  /\ InFlow(s) /\ slot[s].pc \in {"wake", "block"} /\ StepOf(s).op = "sleep"
         /\ \/ /\ Passes(s) /\ <<slot[s].run, KeyOf(s), Stored(s).value>> \in passed
               /\ given' = given \cup {<<slot[s].run, KeyOf(s), Stored(s).value>>}
            \/ GoesOut(s) /\ given' = given
            \/ GoesOn(s) /\ slot'[s].pc = "block" /\ given' = given
<1>1. /\ InFlow(s) /\ TypeOK /\ slot[s].pc \in {"wake", "block"}
      /\ StepOf(s).op = "sleep"
  BY PlaceFits DEF Wake, InFlow, At, Typed, Fits
<1>2. CASE /\ <<slot[s].run, KeyOf(s), Stored(s).value>> \in passed
           /\ Advance(s, Stored(s).value)
  BY <1>1, <1>2, AdvancePasses
<1>3. CASE Returns(s, "suspend", KeyOf(s)) /\ UNCHANGED given
  <2>1. KeyOf(s) \in Time
    BY <1>1, AtStep DEF InFlow, At, Time
  <2>2. Ends(s, "suspend")
    BY <1>1, <1>3, <2>1, ReturnsEnds DEF Outcome
  <2>3. QED
    BY <1>1, <1>3, <2>2 DEF GoesOut
<1>4. CASE Goto(s, "block") /\ UNCHANGED given
  <2>1. Moves(s, "block")
    BY <1>1, <1>4, GotoMoves DEF Pcs
  <2>2. QED
    BY <1>1, <1>4, <2>1 DEF Moves, GoesOn, Fits
<1>5. QED
  BY <1>1, <1>2, <1>3, <1>4 DEF Wake

LEMMA StartChildWalks ==
  ASSUME Typed, NEW s \in Slot, StartChild(s)
  PROVE  /\ InFlow(s) /\ At(s, "body") /\ StepOf(s).op # "wait"
         /\ \/ GoesOut(s) /\ Save(s, "FAILED", NoValue)
            \/ GoesOn(s) /\ slot'[s].pc = "started" /\ cp' = cp
<1>1. InFlow(s) /\ TypeOK /\ At(s, "body") /\ StepOf(s).op = "start"
  BY DEF StartChild, InFlow, At, Typed
<1>2. CASE Returns(s, "permanent", Now) /\ Save(s, "FAILED", NoValue)
  <2>1. Ends(s, "permanent")
    BY <1>1, <1>2, ReturnsEnds DEF Outcome, Time
  <2>2. QED
    BY <1>1, <1>2, <2>1 DEF GoesOut
<1>3. CASE Goto(s, "started") /\ cp' = cp
  <2>1. Moves(s, "started")
    BY <1>1, <1>3, GotoMoves DEF Pcs
  <2>2. QED
    BY <1>1, <1>3, <2>1 DEF Moves, GoesOn, Fits
<1>4. QED
  BY <1>2, <1>3 DEF StartChild

LEMMA TriggerWalks ==
  ASSUME Typed, NEW s \in Slot, Trigger(s)
  PROVE  /\ InFlow(s) /\ At(s, "trigger") /\ StepOf(s).op = "wait"
         /\ \/ GoesOut(s)
            \/ /\ GoesOn(s) /\ slot'[s].pc = "link"
               /\ slot'[s].child \in Run
               /\ run'[slot'[s].child].state # NoState
               /\ run'[slot'[s].child].parent = slot[s].run
               /\ run'[slot'[s].child].key = KeyOf(s)
<1>1. InFlow(s) /\ TypeOK /\ At(s, "trigger") /\ StepOf(s).op = "wait"
  BY PlaceFits DEF Trigger, InFlow, At, Typed, SlotsInStep, InStep
<1>2. ASSUME NEW c \in Run, slot' = [slot EXCEPT ![s].pc = "link", ![s].child = c]
      PROVE  GoesOn(s) /\ slot'[s].pc = "link" /\ slot'[s].child = c
  <2> DEFINE q == [slot[s] EXCEPT !.pc = "link", !.child = c]
  <2>1. slot[s] \in Goroutine /\ c \in Ids
    BY <1>1, IdsAreNat DEF TypeOK
  <2>2. slot' = [slot EXCEPT ![s] = q]
    BY <1>1, <1>2, <2>1 DEF TypeOK
  <2>3. q \in Goroutine /\ q.pc = "link" /\ q.run = slot[s].run
          /\ q.step = slot[s].step /\ q.child = c
    BY <2>1, GoroutineForm
  <2> HIDE DEF q
  <2>4. Only(s) /\ slot'[s] = q
    BY <1>1, <2>2, <2>3 DEF TypeOK, Only
  <2>5. QED
    BY <1>1, <2>3, <2>4 DEF GoesOn, Fits
<1>3. ASSUME NEW o \in {"error", "permanent"}, Returns(s, o, Now) PROVE GoesOut(s)
  <2>1. Ends(s, o)
    BY <1>1, <1>3, ReturnsEnds DEF Outcome, Time
  <2>2. QED
    BY <1>1, <2>1 DEF GoesOut
<1>4. ASSUME NEW c \in ChildOf(s), run' = run,
             slot' = [slot EXCEPT ![s].pc = "link", ![s].child = c]
      PROVE  /\ GoesOn(s) /\ slot'[s].pc = "link"
             /\ slot'[s].child \in Run
             /\ run'[slot'[s].child].state # NoState
             /\ run'[slot'[s].child].parent = slot[s].run
             /\ run'[slot'[s].child].key = KeyOf(s)
  BY <1>2, <1>4 DEF ChildOf, Exists
<1>5. ASSUME NEW c \in Run, Create(s, c, KeyOf(s)),
             slot' = [slot EXCEPT ![s].pc = "link", ![s].child = c]
      PROVE  /\ GoesOn(s) /\ slot'[s].pc = "link"
             /\ slot'[s].child \in Run
             /\ run'[slot'[s].child].state # NoState
             /\ run'[slot'[s].child].parent = slot[s].run
             /\ run'[slot'[s].child].key = KeyOf(s)
  <2>1. KeyOf(s) \in Key
    BY <1>1, AtStep DEF InFlow, At
  <2>2. Born(s, c, KeyOf(s))
    BY <1>1, <1>5, <2>1, CreateRow
  <2>3. QED
    BY <1>2, <1>5, <2>2 DEF Born, NoState
<1>6. CASE Returns(s, "permanent", Now) \/ Returns(s, "error", Now)
  BY <1>1, <1>3, <1>6
<1>7. QED
  BY <1>1, <1>4, <1>5, <1>6 DEF Trigger

LEMMA LinkWalks ==
  ASSUME Typed, NEW s \in Slot, Link(s)
  PROVE  /\ InFlow(s) /\ At(s, "link") /\ StepOf(s).op = "wait"
         /\ Save(s, "RUNNING", <<slot[s].child, 0>>) /\ <<slot[s].child, 0>> \in Value
         /\ GoesOn(s) /\ slot'[s].pc = "poll" /\ slot'[s].child = slot[s].child
<1>1. InFlow(s) /\ TypeOK /\ At(s, "link") /\ StepOf(s).op = "wait"
  BY DEF Link, InFlow, At, Typed, SlotsInStep, InStep
<1>2. <<slot[s].child, 0>> \in Value
  BY <1>1 DEF TypeOK, Goroutine, Value
<1>3. Moves(s, "poll")
  BY <1>1, GotoMoves DEF Link, Pcs
<1>4. QED
  BY <1>1, <1>2, <1>3 DEF Link, Moves, GoesOn, Fits

LEMMA PollWalks ==
  ASSUME Typed, NEW s \in Slot, Poll(s)
  PROVE  /\ InFlow(s) /\ At(s, "poll") /\ StepOf(s).op = "wait"
         /\ \/ /\ Passes(s) /\ run[slot[s].child].state = "COMPLETED"
               /\ given' = given \cup {<<slot[s].run, KeyOf(s), <<slot[s].child, 0>>>>}
            \/ GoesOut(s) /\ given' = given
<1>1. InFlow(s) /\ TypeOK /\ At(s, "poll") /\ StepOf(s).op = "wait"
  BY DEF Poll, InFlow, At, Typed, SlotsInStep, InStep
<1>2. CASE run[slot[s].child].state = "COMPLETED" /\ Advance(s, <<slot[s].child, 0>>)
  BY <1>1, <1>2, AdvancePasses
<1>3. CASE Returns(s, "permanent", Now) /\ UNCHANGED given
  <2>1. Ends(s, "permanent")
    BY <1>1, <1>3, ReturnsEnds DEF Outcome, Time
  <2>2. QED
    BY <1>1, <1>3, <2>1 DEF GoesOut
<1>4. CASE Returns(s, "suspend", Later) /\ UNCHANGED given
  <2>1. Ends(s, "suspend")
    BY <1>1, <1>4, ReturnsEnds DEF Outcome, Time
  <2>2. QED
    BY <1>1, <1>4, <2>1 DEF GoesOut
<1>5. QED
  BY <1>1, <1>2, <1>3, <1>4 DEF Poll

LEMMA IdleType == Idle \in Goroutine /\ Idle.pc = "idle"
<1>1. 0 \in Ids /\ 0 \in Nat
  BY IdsAreNat
<1>2. "-" \in Outcome /\ Now \in Time
  BY DEF Outcome, Time
<1>3. QED
  BY <1>1, <1>2, GoroutineForm DEF Idle

LEMMA LeavesWalk ==
  ASSUME Typed, NEW s \in Slot,
         Finish(s) \/ CountChildren(s) \/ ResumeParent(s) \/ Crash(s)
  PROVE  ~At(s, "idle") /\ Leaves(s) /\ (Finish(s) => At(s, "finish"))
<1>1. slot \in [Slot -> Goroutine] /\ slot[s] \in Goroutine
  BY DEF Typed, TypeOK
<1>2. ASSUME NEW pc \in {"count", "resume"}
      PROVE  LET q == [slot[s] EXCEPT !.pc = pc] IN
             q \in Goroutine /\ q.pc = pc /\ q.run = slot[s].run
  <2>1. pc \in Pcs
    BY DEF Pcs
  <2>2. QED
    BY <1>1, <2>1, GoroutineForm
<1>3. \E q \in Goroutine :
        /\ slot' = [slot EXCEPT ![s] = q]
        /\ q = Idle \/ (q.pc \in {"count", "resume"} /\ q.run = slot[s].run)
  <2> DEFINE a == [slot[s] EXCEPT !.pc = "count"]
             b == [slot[s] EXCEPT !.pc = "resume"]
  <2>1. /\ a \in Goroutine /\ a.pc = "count" /\ a.run = slot[s].run
        /\ b \in Goroutine /\ b.pc = "resume" /\ b.run = slot[s].run
    BY <1>2
  <2>2. \/ slot' = [slot EXCEPT ![s] = a] \/ slot' = [slot EXCEPT ![s] = b]
        \/ slot' = [slot EXCEPT ![s] = Idle]
    BY <1>1 DEF Finish, CountChildren, ResumeParent, Crash
  <2> HIDE DEF a, b
  <2>3. QED
    BY <2>1, <2>2, IdleType
<1>4. PICK q \in Goroutine :
        /\ slot' = [slot EXCEPT ![s] = q]
        /\ q = Idle \/ (q.pc \in {"count", "resume"} /\ q.run = slot[s].run)
  BY <1>3
<1>5. Only(s) /\ slot'[s] = q
  BY <1>1, <1>4 DEF Only
<1>6. ~At(s, "idle") /\ (Finish(s) => At(s, "finish"))
  BY DEF Finish, CountChildren, ResumeParent, Crash, At
<1>7. QED
  BY <1>4, <1>5, <1>6, IdleType DEF Leaves

LEMMA LeaseWalks ==
  ASSUME Typed, NEW s \in Slot, NEW i \in Run, Lease(s, i) PROVE Takes(s, i)
<1> DEFINE q == [Idle EXCEPT !.run = i, !.pc = "load", !.step = 1]
<1>1. slot \in [Slot -> Goroutine] /\ i \in Ids /\ 1 \in Nat
  BY IdsAreNat DEF Typed, TypeOK
<1>2. q \in Goroutine /\ q.run = i /\ q.pc = "load" /\ q.step = 1
  BY <1>1, IdleType, GoroutineForm
<1>3. slot' = [slot EXCEPT ![s] = q]
  BY DEF Lease
<1> HIDE DEF q
<1>4. run'[i].state = "RUNNING" /\ run'[i].owner = s
  BY DEF Lease, Typed, TypeOK, RunRow
<1>5. QED
  BY <1>1, <1>2, <1>3, <1>4 DEF Lease, Takes, Only

\* A step within a call: to the function of a task, to its result, to the child.
Proceeds(s) ==
  /\ GoesOn(s)
  /\ LET pc == slot[s].pc  to == slot'[s].pc  c == slot'[s].child IN
     \/ to = "open" /\ Stored(s).status # "COMPLETED" /\ cp' = cp
     \/ to = "body" /\ Save(s, "RUNNING", NoValue)
     \/ to \in {"body", "started", "save"} /\ pc \in {"body", "started"} /\ cp' = cp
     \/ to = "wake" /\ Stored(s).status = "COMPLETED" /\ cp' = cp
     \/ to = "wake" /\ \E v \in Value : Save(s, "COMPLETED", v)
     \/ to = "block" /\ pc \in {"wake", "block"} /\ cp' = cp
     \/ to = "trigger"
     \/ to = "poll" /\ c = Stored(s).value[1] /\ c # 0 /\ StepOf(s).op = "wait"
     \/ /\ to = "link" /\ c \in Run /\ run'[c].state # NoState
        /\ run'[c].parent = slot[s].run /\ run'[c].key = KeyOf(s)
     \/ to = "poll" /\ pc = "link" /\ c = slot[s].child

\* A call of the flow function returns v, from where the code takes it.
Gives(s, v) ==
  LET w == <<slot[s].run, KeyOf(s), v>> IN
  /\ InFlow(s) /\ Passes(s) /\ given' = given \cup {w} /\ v \in Value
  /\ \/ /\ At(s, "load") /\ StepOf(s).op \notin {"wait", "sleep"}
        /\ Stored(s).status = "COMPLETED" /\ v = Stored(s).value /\ cp' = cp
     \/ /\ slot[s].pc \in {"open", "save"} /\ StepOf(s).op \notin {"wait", "sleep"}
        /\ \/ Save(s, "COMPLETED", v)
           \/ cp' = cp /\ <<slot[s].run, KeyOf(s)>> \in unsaved'
     \/ /\ slot[s].pc \in {"wake", "block"} /\ StepOf(s).op = "sleep"
        /\ v = Stored(s).value /\ w \in passed /\ cp' = cp
     \/ /\ At(s, "poll") /\ StepOf(s).op = "wait" /\ v = <<slot[s].child, 0>>
        /\ run[slot[s].child].state = "COMPLETED" /\ cp' = cp

Given == \E s \in Slot, v \in Value : Gives(s, v)

Proceeding == \E s \in Slot : \/ Proceeds(s) \/ GoesOut(s)
                              \/ ~At(s, "idle") /\ Leaves(s)

LEMMA NoValueType == NoValue \in Value
BY IdsAreNat DEF NoValue, Value

LEMMA CallSteps ==
  ASSUME Typed, NEW s \in Slot,
         Load(s) \/ Open(s) \/ FnSucceeds(s) \/ SaveResult(s) \/ Wake(s)
           \/ StartChild(s) \/ Trigger(s) \/ Link(s) \/ Poll(s)
  PROVE  Given \/ (given' = given /\ Proceeding)
<1>1. CASE Load(s)
  <2>1. InFlow(s) /\ At(s, "load") /\ cp' = cp
    BY <1>1 DEF Load, InFlow, At
  <2>2. Stored(s).value \in Value
    BY <2>1, AtStep DEF Checkpoint, InFlow, At
  <2>3. CASE /\ Passes(s) /\ StepOf(s).op \notin {"wait", "sleep"}
             /\ Stored(s).status = "COMPLETED"
             /\ given' = given \cup {<<slot[s].run, KeyOf(s), Stored(s).value>>}
    BY <2>1, <2>2, <2>3 DEF Given, Gives
  <2>4. CASE /\ GoesOn(s) /\ StepOf(s).op = "wait" /\ given' = given
             /\ slot'[s].pc = IF Stored(s).value[1] = 0 THEN "trigger" ELSE "poll"
             /\ slot'[s].child = Stored(s).value[1]
    BY <2>4 DEF Proceeding, Proceeds
  <2>5. QED
    BY <1>1, <2>1, <2>3, <2>4, LoadWalks DEF Proceeding, Proceeds
<1>2. CASE Open(s)
  <2>1. InFlow(s) /\ At(s, "open") /\ StepOf(s).op # "wait"
    BY <1>2, OpenWalks
  <2>2. CASE GoesOn(s)
    <3>1. /\ slot'[s].pc = "body" /\ given' = given
          /\ Save(s, "RUNNING", NoValue)
      BY <1>2, <2>2, OpenWalks DEF GoesOn, Passes
    <3>2. QED
      BY <2>2, <3>1 DEF Proceeding, Proceeds
  <2>3. CASE ~GoesOn(s)
    <3>1. Passes(s) /\ StepOf(s).op # "sleep"
      BY <1>2, <2>3, OpenWalks
    <3>2. PICK v \in Value :
            /\ given' = given \cup {<<slot[s].run, KeyOf(s), v>>}
            /\ \/ Save(s, "COMPLETED", v) /\ unsaved' = unsaved
               \/ cp' = cp
                    /\ unsaved' = unsaved \cup {<<slot[s].run, KeyOf(s)>>}
      BY <1>2, <2>3, OpenWalks
    <3>3. Gives(s, v)
      BY <2>1, <3>1, <3>2 DEF Gives, At
    <3>4. QED
      BY <3>3 DEF Given
  <2>4. QED
    BY <2>2, <2>3
<1>3. CASE FnSucceeds(s)
  BY <1>3, FnSucceedsWalks DEF FnSucceeds, Proceeding, Proceeds
<1>4. CASE SaveResult(s)
  <2>1. InFlow(s) /\ At(s, "save") /\ StepOf(s).op # "wait"
    BY <1>4, SaveResultWalks
  <2>2. PICK v \in Value :
          /\ Save(s, "COMPLETED", v)
          /\ \/ /\ GoesOn(s) /\ slot'[s].pc = "wake" /\ given' = given
             \/ /\ Passes(s) /\ StepOf(s).op # "sleep"
                /\ given' = given \cup {<<slot[s].run, KeyOf(s), v>>}
    BY <1>4, SaveResultWalks
  <2>3. CASE GoesOn(s) /\ slot'[s].pc = "wake" /\ given' = given
    BY <2>2, <2>3 DEF Proceeding, Proceeds
  <2>4. CASE /\ Passes(s) /\ StepOf(s).op # "sleep"
             /\ given' = given \cup {<<slot[s].run, KeyOf(s), v>>}
    <3>1. Gives(s, v)
      BY <2>1, <2>2, <2>4 DEF Gives, At
    <3>2. QED
      BY <3>1 DEF Given
  <2>5. QED
    BY <2>2, <2>3, <2>4
<1>5. CASE Wake(s)
  <2>1. InFlow(s) /\ slot[s].pc \in {"wake", "block"} /\ StepOf(s).op = "sleep"
          /\ cp' = cp
    BY <1>5, WakeWalks DEF Wake
  <2>2. Stored(s).value \in Value
    BY <2>1, AtStep DEF Checkpoint, InFlow, At
  <2>3. QED
    BY <1>5, <2>1, <2>2, WakeWalks DEF Given, Gives, Proceeding, Proceeds
<1>6. CASE StartChild(s)
  BY <1>6, StartChildWalks DEF StartChild, Proceeding, Proceeds, At
<1>7. CASE Trigger(s)
  BY <1>7, TriggerWalks DEF Trigger, Proceeding, Proceeds
<1>8. CASE Link(s)
  BY <1>8, LinkWalks DEF Link, Proceeding, Proceeds, At
<1>9. CASE Poll(s)
  <2>1. InFlow(s) /\ At(s, "poll") /\ StepOf(s).op = "wait" /\ cp' = cp
    BY <1>9, PollWalks DEF Poll
  <2>2. <<slot[s].child, 0>> \in Value
    BY DEF Typed, TypeOK, Goroutine, Value
  <2>3. QED
    BY <1>9, <2>1, <2>2, PollWalks DEF Given, Gives, Proceeding
<1>10. QED
  BY <1>1, <1>2, <1>3, <1>4, <1>5, <1>6, <1>7, <1>8, <1>9

LEMMA GoroutinesStep ==
  ASSUME Typed, [Next]_vars
  PROVE  \/ /\ given' = given
            /\ slot' = slot \/ Proceeding \/ \E s \in Slot, i \in Run : Takes(s, i)
         \/ Given
<1>1. CASE \E s \in Slot : FlowStep(s)
  <2>1. PICK s \in Slot : FlowStep(s)
    BY <1>1
  <2>2. CASE Finish(s) \/ CountChildren(s) \/ ResumeParent(s)
    <3>1. given' = given
      BY <2>2 DEF Finish, CountChildren, ResumeParent
    <3>2. QED
      BY <2>2, <3>1, LeavesWalk DEF Proceeding
  <2>3. QED
    BY <2>1, <2>2, CallSteps DEF FlowStep
<1>2. CASE \E s \in Slot : StatementFails(s) \/ Crash(s)
  BY <1>2, StatementFailsWalks, LeavesWalk DEF StatementFails, Crash, Proceeding
<1>3. CASE \E s \in Slot, kind \in {"error", "permanent", "suspend"} : FnFails(s, kind)
  <2>1. PICK s \in Slot, kind \in {"error", "permanent", "suspend"} : FnFails(s, kind)
    BY <1>3
  <2>2. given' = given
    BY <2>1 DEF FnFails
  <2>3. QED
    BY <2>1, <2>2, FnFailsWalks DEF Proceeding, Proceeds
<1>4. CASE \E s \in Slot, i \in Run : Lease(s, i)
  BY <1>4, LeaseWalks DEF Lease
<1>5. CASE \E i \in Run : \/ ComesDue(i) \/ Reclaim(i) \/ Cancel(i) \/ Reschedule(i)
                          \/ \E key \in Key : SleepEnds(i, key)
  BY <1>5 DEF ComesDue, Reclaim, Cancel, Reschedule, SleepEnds
<1>6. CASE UNCHANGED vars
  BY <1>6 DEF vars
<1>7. QED
  BY <1>1, <1>2, <1>3, <1>4, <1>5, <1>6 DEF Next

LEMMA SlotsWalk ==
  ASSUME Typed, [Next]_vars
  PROVE  \/ slot' = slot
         \/ \E s \in Slot : Walks(s)
         \/ \E s \in Slot, i \in Run : Takes(s, i)
BY GoroutinesStep DEF Given, Gives, Proceeding, Proceeds, Walks

\* A goroutine that stays in its run stays in the same flow.
LEMMA StepStays ==
  ASSUME Typed, [Next]_vars, NEW t \in Slot, ~At(t, "idle"),
         slot'[t].run = slot[t].run
  PROVE  /\ run'[slot'[t].run].dep = run[slot[t].run].dep
         /\ slot'[t].run \in Run /\ Exists(slot[t].run)
         /\ run'[slot'[t].run].state # NoState
         /\ slot'[t].step = slot[t].step => /\ StepOf(t)' = StepOf(t)
                                           /\ KeyOf(t)' = KeyOf(t)
<1>1. slot[t].run \in Run /\ Exists(slot[t].run)
  BY AtStep
<1>2. /\ run'[slot[t].run].dep = run[slot[t].run].dep
      /\ run'[slot[t].run].state # NoState
  BY <1>1, RowsStay
<1>3. QED
  BY <1>1, <1>2 DEF StepOf, KeyOf

LEMMA SlotsInStepStep ==
  ASSUME Typed, [Next]_vars PROVE SlotsInStep'
<1> SUFFICES ASSUME NEW t \in Slot PROVE InStep(t)'
  BY DEF SlotsInStep
<1>0. InStep(t)
  BY DEF Typed, SlotsInStep
<1>1. CASE slot'[t] = slot[t]
  <2>1. CASE At(t, "idle")
    BY <1>1, <2>1 DEF InStep, InFlow, At
  <2>2. CASE ~At(t, "idle")
    BY <1>0, <1>1, <2>2, StepStays DEF InStep, InFlow, At, Exists
  <2>3. QED
    BY <2>1, <2>2
<1>2. CASE GoesOn(t)
  <2>1. ~At(t, "idle") /\ slot'[t].run = slot[t].run /\ slot'[t].step = slot[t].step
    BY <1>2 DEF GoesOn, InFlow, At
  <2>2. slot[t].step \in DOMAIN Flow[run[slot[t].run].dep]
    BY <1>2, <2>1, AtStep DEF GoesOn
  <2>3. /\ run'[slot'[t].run].dep = run[slot[t].run].dep /\ slot'[t].run \in Run
        /\ run'[slot'[t].run].state # NoState /\ StepOf(t)' = StepOf(t)
    BY <2>1, StepStays
  <2>5. /\ slot'[t].pc \in {"trigger", "link", "poll"} => StepOf(t).op = "wait"
        /\ slot'[t].pc \in {"open", "body", "started", "save", "wake", "block"}
             => StepOf(t).op # "wait"
        /\ slot'[t].pc \in {"wake", "block"} => StepOf(t).op = "sleep"
    BY <1>2 DEF GoesOn, Fits
  <2>6. QED
    BY <2>1, <2>2, <2>3, <2>5 DEF InStep, InFlow, At, Exists
<1>3. CASE InFlow(t) /\ (Passes(t) \/ \E o \in Outcome : Ends(t, o))
  <2>1. ~At(t, "idle") /\ slot'[t].run = slot[t].run
    BY <1>3 DEF Passes, Ends, InFlow, At
  <2>2. /\ run'[slot'[t].run].dep = run[slot[t].run].dep /\ slot'[t].run \in Run
        /\ run'[slot'[t].run].state # NoState
    BY <2>1, StepStays
  <2>3. CASE slot'[t].pc = "finish"
    BY <2>2, <2>3 DEF InStep, InFlow, At, Exists
  <2>4. CASE slot'[t].pc # "finish"
    <3>1. /\ slot[t].step # Len(Flow[run[slot[t].run].dep])
          /\ slot'[t].pc = "load" /\ slot'[t].step = slot[t].step + 1
      BY <1>3, <2>4 DEF Passes, Ends
    <3>2. /\ slot[t].step \in 1..Len(Flow[run[slot[t].run].dep])
          /\ run[slot[t].run].dep \in Dep
      BY <1>3, <2>1, AtStep
    <3>3. slot[t].step + 1 \in DOMAIN Flow[run[slot[t].run].dep]
      BY <3>1, <3>2, FlowType
    <3>4. QED
      BY <2>2, <3>1, <3>3 DEF InStep, InFlow, At, Exists
  <2>5. QED
    BY <2>3, <2>4
<1>4. CASE ~At(t, "idle") /\ Leaves(t)
  <2>1. CASE slot'[t].pc = "idle"
    BY <2>1 DEF InStep, InFlow, At
  <2>2. CASE slot'[t].pc # "idle"
    <3>1. slot'[t].run = slot[t].run /\ slot'[t].pc \in {"count", "resume"}
      BY <1>4, <2>2 DEF Leaves
    <3>2. slot'[t].run \in Run /\ run'[slot'[t].run].state # NoState
      BY <1>4, <3>1, StepStays
    <3>3. QED
      BY <3>1, <3>2 DEF InStep, InFlow, At, Exists
  <2>3. QED
    BY <2>1, <2>2
<1>5. ASSUME NEW i \in Run, Takes(t, i) PROVE InStep(t)'
  <2>1. /\ slot'[t].run = i /\ slot'[t].pc = "load" /\ slot'[t].step = 1
        /\ Exists(i)
    BY <1>5 DEF Takes, Exists, NoState
  <2>2. run'[i].state # NoState /\ run'[i].dep = run[i].dep
    BY <2>1, RowsStay
  <2>3. run[i].dep \in Dep
    BY <2>1 DEF Typed, RowsInOrder
  <2>4. 1 \in DOMAIN Flow[run[i].dep]
    BY <2>3, FlowType
  <2>5. QED
    BY <2>1, <2>2, <2>4 DEF InStep, InFlow, At, Exists
<1>6. CASE \E s \in Slot : Walks(s)
  <2>1. PICK s \in Slot : Walks(s)
    BY <1>6
  <2>2. CASE s # t
    <3>1. slot'[t] = slot[t]
      BY <2>1, <2>2 DEF Walks, GoesOn, GoesOut, Ends, Passes, Leaves, Only
    <3>2. QED
      BY <1>1, <3>1
  <2>3. CASE s = t
    BY <1>2, <1>3, <1>4, <2>1, <2>3 DEF Walks, GoesOut, Outcome
  <2>4. QED
    BY <2>2, <2>3
<1>7. CASE \E s \in Slot, i \in Run : Takes(s, i)
  <2>1. PICK s \in Slot, i \in Run : Takes(s, i)
    BY <1>7
  <2>2. CASE s # t
    BY <1>1, <2>1, <2>2 DEF Takes, Only
  <2>3. CASE s = t
    BY <1>5, <2>1, <2>3
  <2>4. QED
    BY <2>2, <2>3
<1>8. QED
  BY <1>1, <1>6, <1>7, SlotsWalk

-----------------------------------------------------------------------------
(***************************************************************************)
(* What an action writes to the checkpoints.                               *)
(***************************************************************************)

Records(s, st, v) ==
  /\ InFlow(s) /\ Save(s, st, v) /\ slot'[s].pc # slot[s].pc
  /\ \/ st = "RUNNING" /\ At(s, "open") /\ StepOf(s).op # "wait"
     \/ st = "FAILED" /\ slot[s].pc \in {"body", "started"} /\ StepOf(s).op # "wait"
     \/ st = "COMPLETED" /\ slot[s].pc \in {"open", "save"} /\ StepOf(s).op # "wait"
     \/ /\ st = "RUNNING" /\ At(s, "link") /\ StepOf(s).op = "wait"
        /\ v = <<slot[s].child, 0>>

Recorded == \E s \in Slot, st \in {"RUNNING", "FAILED", "COMPLETED"}, v \in Value :
             Records(s, st, v)

LEMMA CheckpointsStep ==
  ASSUME Typed, [Next]_vars PROVE cp' = cp \/ Recorded
<1>1. CASE \E s \in Slot : FlowStep(s)
  <2>1. PICK s \in Slot : FlowStep(s)
    BY <1>1
  <2>2. CASE Open(s)
    <3>1. InFlow(s) /\ At(s, "open") /\ StepOf(s).op # "wait"
      BY <2>2, OpenWalks
    <3>2. \/ cp' = cp \/ Save(s, "RUNNING", NoValue)
          \/ \E v \in Value : Save(s, "COMPLETED", v)
      BY <2>2, OpenWalks
    <3>3. slot'[s].pc # "open"
      BY <2>2, OpenWalks DEF Passes
    <3>4. QED
      BY <3>1, <3>2, <3>3, NoValueType DEF Recorded, Records, At
  <2>3. CASE SaveResult(s)
    BY <2>3, SaveResultWalks DEF Recorded, Records, At, Passes
  <2>4. CASE StartChild(s)
    BY <2>4, StartChildWalks, NoValueType DEF Recorded, Records, At, GoesOut, Ends
  <2>5. CASE Link(s)
    BY <2>5, LinkWalks DEF Recorded, Records, At
  <2>6. CASE \/ Load(s) \/ FnSucceeds(s) \/ Wake(s) \/ Trigger(s) \/ Poll(s)
             \/ Finish(s) \/ CountChildren(s) \/ ResumeParent(s)
    BY <2>6 DEF Load, FnSucceeds, Wake, Trigger, Poll, Finish, CountChildren,
       ResumeParent
  <2>7. QED
    BY <2>1, <2>2, <2>3, <2>4, <2>5, <2>6 DEF FlowStep
<1>2. CASE \E s \in Slot, kind \in {"error", "permanent", "suspend"} : FnFails(s, kind)
  <2>1. PICK s \in Slot, kind \in {"error", "permanent", "suspend"} : FnFails(s, kind)
    BY <1>2
  <2>2. /\ InFlow(s) /\ slot[s].pc \in {"body", "started"} /\ StepOf(s).op # "wait"
        /\ cp' = cp \/ (GoesOut(s) /\ Save(s, "FAILED", NoValue))
    BY <2>1, FnFailsWalks
  <2>3. GoesOut(s) => slot'[s].pc = "finish"
    BY DEF GoesOut, Ends
  <2>4. QED
    BY <2>2, <2>3, NoValueType DEF Recorded, Records
<1>3. CASE \E s \in Slot : \/ StatementFails(s) \/ Crash(s)
                           \/ \E i \in Run : Lease(s, i)
  BY <1>3 DEF StatementFails, Crash, Lease
<1>4. CASE \E i \in Run : \/ ComesDue(i) \/ Reclaim(i) \/ Cancel(i) \/ Reschedule(i)
                          \/ \E key \in Key : SleepEnds(i, key)
  BY <1>4 DEF ComesDue, Reclaim, Cancel, Reschedule, SleepEnds
<1>5. CASE UNCHANGED vars
  BY <1>5 DEF vars
<1>6. QED
  BY <1>1, <1>2, <1>3, <1>4, <1>5 DEF Next

\* A recorded checkpoint, by its place.
LEMMA RecordedAt ==
  ASSUME Typed, NEW s \in Slot, NEW st \in {"RUNNING", "FAILED", "COMPLETED"},
         NEW v \in Value, Records(s, st, v)
  PROVE  /\ cp' \in [Run -> [Key -> Checkpoint]]
         /\ slot[s].run \in Run /\ Exists(slot[s].run) /\ KeyOf(s) \in Key
         /\ cp'[slot[s].run][KeyOf(s)].status = st
         /\ cp'[slot[s].run][KeyOf(s)].value = v
         /\ \A i \in Run, k \in Key :
              i # slot[s].run \/ k # KeyOf(s) => cp'[i][k] = cp[i][k]
<1>1. InFlow(s) /\ Save(s, st, v)
  BY DEF Records
<1>2. /\ cp' \in [Run -> [Key -> Checkpoint]]
      /\ cp'[slot[s].run][KeyOf(s)] = [status |-> st, value |-> v]
      /\ \A i \in Run, k \in Key :
           i # slot[s].run \/ k # KeyOf(s) => cp'[i][k] = cp[i][k]
  BY <1>1, SaveType
<1>3. slot[s].run \in Run /\ Exists(slot[s].run) /\ KeyOf(s) \in Key
  BY <1>1, AtStep DEF InFlow, At
<1>4. QED
  BY <1>2, <1>3

-----------------------------------------------------------------------------
(***************************************************************************)
(* Types.                                                                  *)
(***************************************************************************)

HistoryTyped ==
  /\ passed \subseteq Run \X Key \X Value /\ given \subseteq Run \X Key \X Value
  /\ work \in [Run -> [Key -> 0..MaxWork]]
  /\ lapsed \subseteq Run /\ unsaved \subseteq Run \X Key /\ faults \in 0..MaxFaults

\* What is over, lapsed or not saved stays so.
HistoryGrows == /\ passed \subseteq passed' /\ lapsed \subseteq lapsed'
                /\ unsaved \subseteq unsaved' /\ given \subseteq given'

LEMMA FaultType ==
  ASSUME faults \in 0..MaxFaults, NEW h, May(h), Fault
  PROVE  faults' \in 0..MaxFaults
BY ReplayAssumption DEF May, Fault

LEMMA GivenType ==
  ASSUME Typed, [Next]_vars
  PROVE  given' \subseteq Run \X Key \X Value /\ given \subseteq given'
<1>1. given \subseteq Run \X Key \X Value
  BY DEF Typed, TypeOK
<1>2. ASSUME NEW s \in Slot, NEW v \in Value, Gives(s, v)
      PROVE  given' \subseteq Run \X Key \X Value /\ given \subseteq given'
  <2>1. slot[s].run \in Run /\ KeyOf(s) \in Key
    BY <1>2, AtStep DEF Gives, InFlow, At
  <2>2. given' = given \cup {<<slot[s].run, KeyOf(s), v>>}
    BY <1>2 DEF Gives
  <2>3. QED
    BY <1>1, <2>1, <2>2
<1>3. QED
  BY <1>1, <1>2, GoroutinesStep DEF Given

LEMMA HistoryStep ==
  ASSUME Typed, [Next]_vars PROVE HistoryTyped' /\ HistoryGrows
<1>0. HistoryTyped /\ TypeOK
  BY DEF Typed, TypeOK, HistoryTyped
<1>1. given' \subseteq Run \X Key \X Value /\ given \subseteq given'
  BY GivenType
<1>2. faults' \in 0..MaxFaults
  <2>1. ASSUME NEW s \in Slot, FlowStep(s)
        PROVE  faults' = faults \/ \E h : May(h) /\ Fault
    <3>1. CASE Load(s) \/ Open(s) \/ FnSucceeds(s) \/ SaveResult(s) \/ Wake(s)
      BY <3>1 DEF Load, Open, FnSucceeds, SaveResult, Wake
    <3>2. CASE StartChild(s) \/ Trigger(s) \/ Link(s) \/ Poll(s)
      BY <3>2 DEF StartChild, Trigger, Link, Poll
    <3>3. CASE Finish(s) \/ CountChildren(s) \/ ResumeParent(s)
      BY <3>3 DEF Finish, CountChildren, ResumeParent
    <3>4. QED
      BY <2>1, <3>1, <3>2, <3>3 DEF FlowStep
  <2>2. ASSUME NEW s \in Slot,
               \/ StatementFails(s) \/ Crash(s)
               \/ \E kind \in {"error", "permanent", "suspend"} : FnFails(s, kind)
               \/ \E i \in Run : Lease(s, i)
        PROVE  faults' = faults \/ \E h : May(h) /\ Fault
    BY <2>2 DEF StatementFails, Crash, FnFails, Lease
  <2>3. ASSUME NEW i \in Run,
               \/ ComesDue(i) \/ Reclaim(i) \/ Cancel(i) \/ Reschedule(i)
               \/ \E key \in Key : SleepEnds(i, key)
        PROVE  faults' = faults \/ \E h : May(h) /\ Fault
    BY <2>3 DEF ComesDue, Reclaim, Cancel, Reschedule, SleepEnds
  <2>4. UNCHANGED vars => faults' = faults
    BY DEF vars
  <2>5. QED
    BY <1>0, <2>1, <2>2, <2>3, <2>4, FaultType DEF HistoryTyped, Next
<1>3. CASE \E s \in Slot : FnSucceeds(s)
  <2>1. PICK s \in Slot : FnSucceeds(s)
    BY <1>3
  <2> DEFINE i == slot[s].run
             k == KeyOf(s)
             n == work[i][k] + 1
  <2>2. i \in Run /\ k \in Key
    BY <2>1, FnSucceedsWalks, AtStep DEF InFlow, At
  <2>3. work[i][k] \in 0..MaxWork /\ work[i][k] < MaxWork
    BY <1>0, <2>1, <2>2 DEF HistoryTyped, FnSucceeds
  <2>4. n \in 0..MaxWork
    BY <2>3, ReplayAssumption
  <2>5. work' = [work EXCEPT ![i][k] = n]
    BY <1>0, <2>1, <2>2 DEF FnSucceeds, HistoryTyped
  <2> HIDE DEF i, k, n
  <2>6. work' \in [Run -> [Key -> 0..MaxWork]]
    BY <1>0, <2>2, <2>4, <2>5 DEF HistoryTyped
  <2>7. UNCHANGED <<passed, lapsed, unsaved>>
    BY <2>1 DEF FnSucceeds
  <2>8. QED
    BY <1>0, <1>1, <1>2, <2>6, <2>7 DEF HistoryTyped, HistoryGrows
<1>4. CASE \E s \in Slot : Open(s)
  <2>1. PICK s \in Slot : Open(s)
    BY <1>4
  <2>2. slot[s].run \in Run /\ KeyOf(s) \in Key
    BY <2>1, OpenWalks, AtStep DEF InFlow, At
  <2>3. \/ unsaved' = unsaved \/ unsaved' = unsaved \cup {<<slot[s].run, KeyOf(s)>>}
    BY <2>1, OpenWalks
  <2>4. UNCHANGED <<passed, lapsed, work>>
    BY <2>1 DEF Open
  <2>5. QED
    BY <1>0, <1>1, <1>2, <2>2, <2>3, <2>4 DEF HistoryTyped, HistoryGrows
<1>5. CASE \E i \in Run, key \in Key : SleepEnds(i, key)
  <2>1. PICK i \in Run, key \in Key : SleepEnds(i, key)
    BY <1>5
  <2>2. cp[i][key].value \in Value
    BY <1>0 DEF TypeOK, Checkpoint
  <2>3. passed' = passed \cup {<<i, key, cp[i][key].value>>}
          /\ UNCHANGED <<work, lapsed, unsaved>>
    BY <2>1 DEF SleepEnds
  <2>4. QED
    BY <1>0, <1>1, <1>2, <2>2, <2>3 DEF HistoryTyped, HistoryGrows
<1>6. CASE \E i \in Run : Reclaim(i)
  <2>1. PICK i \in Run : Reclaim(i)
    BY <1>6
  <2>2. /\ lapsed' = lapsed \/ lapsed' = lapsed \cup {i}
        /\ UNCHANGED <<passed, work>>
    BY <2>1 DEF Reclaim
  <2>3. unsaved' = unsaved
    BY <2>1 DEF Reclaim
  <2>4. QED
    BY <1>0, <1>1, <1>2, <2>2, <2>3 DEF HistoryTyped, HistoryGrows
<1>7. CASE UNCHANGED <<passed, work, lapsed, unsaved>>
  BY <1>0, <1>1, <1>2, <1>7 DEF HistoryTyped, HistoryGrows
<1>8. QED
  <2>1. ASSUME NEW s \in Slot,
               \/ Load(s) \/ SaveResult(s) \/ Wake(s) \/ StartChild(s) \/ Trigger(s)
               \/ Link(s) \/ Poll(s) \/ Finish(s) \/ CountChildren(s)
               \/ ResumeParent(s) \/ StatementFails(s) \/ Crash(s)
        PROVE  UNCHANGED <<passed, work, lapsed, unsaved>>
    BY <2>1 DEF Load, SaveResult, Wake, StartChild, Trigger, Link, Poll, Finish,
       CountChildren, ResumeParent, StatementFails, Crash
  <2>2. ASSUME NEW s \in Slot,
               \/ \E kind \in {"error", "permanent", "suspend"} : FnFails(s, kind)
               \/ \E i \in Run : Lease(s, i)
        PROVE  UNCHANGED <<passed, work, lapsed, unsaved>>
    BY <2>2 DEF FnFails, Lease
  <2>3. ASSUME NEW i \in Run, ComesDue(i) \/ Cancel(i) \/ Reschedule(i)
        PROVE  UNCHANGED <<passed, work, lapsed, unsaved>>
    BY <2>3 DEF ComesDue, Cancel, Reschedule
  <2>4. UNCHANGED vars => UNCHANGED <<passed, work, lapsed, unsaved>>
    BY DEF vars
  <2>5. QED
    BY <1>3, <1>4, <1>5, <1>6, <1>7, <2>1, <2>2, <2>3, <2>4 DEF Next, FlowStep

LEMMA TypedStep == ASSUME Typed, [Next]_vars PROVE Typed'
<1>1. HistoryTyped' /\ RowsTyped'
  BY HistoryStep, RowsStep
<1>2. cp' \in [Run -> [Key -> Checkpoint]]
  <2>1. cp \in [Run -> [Key -> Checkpoint]]
    BY DEF Typed, TypeOK
  <2>2. QED
    BY <2>1, CheckpointsStep, RecordedAt DEF Recorded
<1>3. slot' \in [Slot -> Goroutine]
  <2>1. slot \in [Slot -> Goroutine]
    BY DEF Typed, TypeOK
  <2>2. QED
    BY <2>1, SlotsWalk DEF Walks, GoesOn, GoesOut, Ends, Passes, Leaves, Takes, Only
<1>4. TypeOK'
  BY <1>1, <1>2, <1>3 DEF TypeOK, HistoryTyped, RowsTyped
<1>5. QED
  BY <1>4, RowsInOrderStep, SlotsInStepStep DEF Typed

-----------------------------------------------------------------------------
(***************************************************************************)
(* Who may change the state of a run.                                      *)
(***************************************************************************)

StateStays(i) == run'[i].state = run[i].state /\ run'[i].owner = run[i].owner

Settles(s, i) == At(s, "finish") /\ slot[s].run = i /\ Leaves(s)
                   /\ run'[i].state = Verdict(s)

Decides(i) == /\ \/ Reclaim(i)
                 \/ run[i].state = "SCHEDULED"
                 \/ run[i].state = "FAILED"
              /\ run'[i].state # "COMPLETED"

\* A change of the scheduled time alone.
LEMMA TimeStays ==
  ASSUME run \in [Run -> RunRow], NEW i \in Run, NEW j, NEW at,
         run' = [run EXCEPT ![j].at = at]
  PROVE  StateStays(i)
<1>1. run[i] \in RunRow
  OBVIOUS
<1> DEFINE q == [run[j] EXCEPT !.at = at]
<1>2. i = j => q.state = run[i].state /\ q.owner = run[i].owner
  BY <1>1 DEF RunRow
<1>3. i = j => run'[i] = q
  BY <1>1
<1>4. i # j => run'[i] = run[i]
  OBVIOUS
<1> HIDE DEF q
<1>5. QED
  BY <1>2, <1>3, <1>4 DEF StateStays

LEMMA StatesStep ==
  ASSUME Typed, [Next]_vars, NEW i \in Run, Exists(i)
  PROVE  \/ StateStays(i)
         \/ \E s \in Slot : Takes(s, i) \/ Settles(s, i)
         \/ Decides(i)
<1>1. run \in [Run -> RunRow] /\ run[i] \in RunRow
  BY DEF Typed, TypeOK
<1>2. CASE run' = run
  BY <1>2 DEF StateStays
<1>3. ASSUME NEW s \in Slot, StartChild(s) \/ Trigger(s) PROVE StateStays(i)
  <2>1. run' = run \/ RowInserted
    BY <1>3, InsertRow
  <2>2. RowInserted => run'[i] = run[i]
    BY DEF RowInserted, Born
  <2>3. QED
    BY <2>1, <2>2 DEF StateStays
<1>4. ASSUME NEW s \in Slot, Finish(s) PROVE StateStays(i) \/ Settles(s, i)
  <2> DEFINE j == slot[s].run
             at == IF Verdict(s) = "SCHEDULED" THEN ResumesAt(s) ELSE run[j].at
             q == [run[j] EXCEPT !.state = Verdict(s), !.owner = NoSlot, !.at = at]
  <2>1. At(s, "finish") /\ Leaves(s)
    BY <1>4, LeavesWalk
  <2>2. j \in Run
    BY <2>1, AtStep DEF At
  <2>3. run' = [run EXCEPT ![j] = q]
    BY <1>1, <1>4, <2>2 DEF Finish
  <2> HIDE DEF at
  <2>4. q.state = Verdict(s)
    BY <1>1, <2>2 DEF RunRow
  <2> HIDE DEF q
  <2>5. i = j => run'[i] = q
    BY <1>1, <2>3
  <2>6. i # j => run'[i] = run[i]
    BY <1>1, <2>3
  <2>7. QED
    BY <2>1, <2>4, <2>5, <2>6 DEF StateStays, Settles
<1>5. ASSUME NEW s \in Slot, ResumeParent(s) PROVE StateStays(i)
  <2> DEFINE p == run[slot[s].run].parent
             q == [run EXCEPT ![p].at = Now]
  <2>1. run' = run \/ run' = q
    BY <1>5 DEF ResumeParent
  <2> HIDE DEF p
  <2>2. run' = q => StateStays(i)
    BY <1>1, TimeStays
  <2> HIDE DEF q
  <2>3. run' = run => StateStays(i)
    BY DEF StateStays
  <2>4. QED
    BY <2>1, <2>2, <2>3
<1>6. ASSUME NEW s \in Slot, NEW j \in Run, Lease(s, j)
      PROVE  StateStays(i) \/ Takes(s, i)
  <2>1. CASE j = i
    BY <1>6, <2>1, LeaseWalks
  <2>2. CASE j # i
    BY <1>1, <1>6, <2>2 DEF Lease, StateStays
  <2>3. QED
    BY <2>1, <2>2
<1>7. ASSUME NEW j \in Run, ComesDue(j) PROVE StateStays(i)
  BY <1>1, <1>7, TimeStays DEF ComesDue
<1>8. ASSUME NEW j \in Run, NEW key \in Key, SleepEnds(j, key) PROVE StateStays(i)
  BY <1>1, <1>8, TimeStays DEF SleepEnds
<1>9. ASSUME NEW j \in Run, Reclaim(j) \/ Cancel(j) \/ Reschedule(j)
      PROVE  StateStays(i) \/ Decides(i)
  <2>1. CASE j # i
    <3>1. run'[i] = run[i]
      BY <1>1, <1>9, <2>1 DEF Reclaim, Cancel, Reschedule
    <3>2. QED
      BY <3>1 DEF StateStays
  <2>2. CASE j = i /\ Reclaim(j)
    <3>1. run'[i].state \in {"SCHEDULED", "FAILED"}
      BY <1>1, <2>2 DEF Reclaim, RunRow
    <3>2. QED
      BY <2>2, <3>1 DEF Decides
  <2>3. CASE j = i /\ (Cancel(j) \/ Reschedule(j))
    <3>1. run'[i].state \in {"SCHEDULED", "CANCELLED"}
      BY <1>1, <2>3 DEF Cancel, Reschedule, RunRow
    <3>2. QED
      BY <2>3, <3>1 DEF Decides, Cancel, Reschedule
  <2>4. QED
    BY <1>9, <2>1, <2>2, <2>3
<1>10. CASE \E s \in Slot : Apart(s)
  BY <1>2, <1>10, ApartRows
<1>11. CASE UNCHANGED vars
  BY <1>2, <1>11 DEF vars
<1>12. QED
  BY <1>3, <1>4, <1>5, <1>6, <1>7, <1>8, <1>9, <1>10, <1>11
     DEF Next, FlowStep, Apart

\* A goroutine that works after a step has worked on the run before, or leased it.
LEMMA WorkersStay ==
  ASSUME Typed, [Next]_vars, NEW t \in Slot, Works(t)'
  PROVE  \/ Works(t) /\ slot'[t].run = slot[t].run
         \/ \E i \in Run : Takes(t, i)
<1>1. CASE slot'[t] = slot[t]
  BY <1>1 DEF Works, InFlow, At
<1>2. ASSUME NEW s \in Slot, Walks(s)
      PROVE  Works(t) /\ slot'[t].run = slot[t].run
  <2>1. CASE s # t
    <3>1. slot'[t] = slot[t]
      BY <1>2, <2>1 DEF Walks, GoesOn, GoesOut, Ends, Passes, Leaves, Only
    <3>2. QED
      BY <1>1, <3>1 DEF Works, InFlow, At
  <2>2. CASE s = t
    <3>1. ~Leaves(t)
      BY DEF Works, InFlow, At, Leaves
    <3>2. QED
      BY <1>2, <2>2, <3>1 DEF Walks, GoesOn, GoesOut, Ends, Passes, Works
  <2>3. QED
    BY <2>1, <2>2
<1>3. ASSUME NEW s \in Slot, NEW i \in Run, Takes(s, i), s # t
      PROVE  slot'[t] = slot[t]
  BY <1>3 DEF Takes, Only
<1>4. QED
  BY <1>1, <1>2, <1>3, SlotsWalk DEF Works, InFlow, At

\* The owner of a run whose lease holds keeps it until it has settled the run.
LEMMA OwnersWorkStep ==
  ASSUME Typed, OwnersWork, [Next]_vars PROVE OwnersWork'
<1> SUFFICES ASSUME NEW t \in Slot, Works(t)', slot'[t].run \notin lapsed'
             PROVE  run'[slot'[t].run].state = "RUNNING" /\ run'[slot'[t].run].owner = t
  BY DEF OwnersWork
<1>1. CASE \E i \in Run : Takes(t, i)
  BY <1>1 DEF Takes
<1>2. CASE Works(t) /\ slot'[t].run = slot[t].run
  <2> DEFINE i == slot[t].run
  <2>1. i \in Run /\ Exists(i) /\ ~At(t, "idle")
    BY <1>2, AtStep DEF Works, InFlow, At
  <2>2. i \notin lapsed
    BY <1>2, HistoryStep DEF HistoryGrows
  <2>3. run[i].state = "RUNNING" /\ run[i].owner = t
    BY <1>2, <2>2 DEF OwnersWork
  <2>4. ~\E s \in Slot : Takes(s, i)
    BY <2>3 DEF Takes
  <2>5. ASSUME NEW s \in Slot, Settles(s, i) PROVE FALSE
    <3>1. Works(s) /\ slot[s].run = i
      BY <2>5 DEF Settles, Works
    <3>2. s = t
      BY <2>2, <2>3, <3>1 DEF OwnersWork
    <3>3. QED
      BY <2>5, <3>2 DEF Settles, Leaves, Works, InFlow, At
  <2>6. ASSUME Decides(i) PROVE FALSE
    <3>1. Reclaim(i)
      BY <2>3, <2>6 DEF Decides
    <3>2. ~Abandoned(i)
      BY <1>2, <2>3 DEF Abandoned, Works, InFlow, At
    <3>3. i \in lapsed'
      BY <3>1, <3>2 DEF Reclaim
    <3>4. QED
      BY <1>2, <3>3
  <2>7. QED
    BY <1>2, <2>1, <2>3, <2>4, <2>5, <2>6, StatesStep DEF StateStays
<1>3. QED
  BY <1>1, <1>2, WorkersStay

\* What has become of one goroutine.
LEMMA WhatNext ==
  ASSUME Typed, [Next]_vars, NEW t \in Slot
  PROVE  \/ slot'[t] = slot[t]
         \/ Proceeds(t) \/ GoesOut(t)
         \/ ~At(t, "idle") /\ Leaves(t)
         \/ \E i \in Run : Takes(t, i)
         \/ \E v \in Value : Gives(t, v)
<1>1. ASSUME NEW s \in Slot, s # t, Proceeds(s) \/ GoesOut(s) \/ Leaves(s)
      PROVE  slot'[t] = slot[t]
  BY <1>1 DEF Proceeds, GoesOn, GoesOut, Ends, Leaves, Only
<1>2. ASSUME NEW s \in Slot, s # t, NEW i \in Run, Takes(s, i)
      PROVE  slot'[t] = slot[t]
  BY <1>2 DEF Takes, Only
<1>3. ASSUME NEW s \in Slot, s # t, NEW v \in Value, Gives(s, v)
      PROVE  slot'[t] = slot[t]
  BY <1>3 DEF Gives, Passes, Only
<1>4. QED
  BY <1>1, <1>2, <1>3, GoroutinesStep DEF Proceeding, Given

-----------------------------------------------------------------------------
(***************************************************************************)
(* The checkpoints of the waits.                                           *)
(***************************************************************************)

\* IsChild, after the step.
IsChildNext(c, i, key) == /\ c \in Run /\ run'[c].state # NoState
                          /\ run'[c].parent = i /\ run'[c].key = key

LEMMA ChildStays ==
  ASSUME Typed, [Next]_vars, NEW c, NEW i, NEW key, IsChild(c, i, key)
  PROVE  IsChildNext(c, i, key)
BY RowsStay DEF IsChild, IsChildNext

LEMMA AwaitsStays ==
  ASSUME Typed, [Next]_vars, NEW i \in Run, Exists(i), NEW key
  PROVE  /\ Awaits(i, key)' = Awaits(i, key)
         /\ Sleeps(i, key)' = Sleeps(i, key)
<1>1. run'[i].dep = run[i].dep
  BY RowsStay
<1>2. QED
  BY <1>1 DEF Awaits, Sleeps

\* The key of a call tells whether the call is a wait, or a sleep.
LEMMA OpOfKey ==
  ASSUME Typed, NEW s \in Slot, InFlow(s)
  PROVE  /\ Awaits(slot[s].run, KeyOf(s)) <=> StepOf(s).op = "wait"
         /\ Sleeps(slot[s].run, KeyOf(s)) <=> StepOf(s).op = "sleep"
<1> DEFINE d == run[slot[s].run].dep
           k == slot[s].step
<1>1. d \in Dep /\ k \in DOMAIN Flow[d]
  BY AtStep DEF InFlow, At
<1>2. ASSUME NEW l \in DOMAIN Flow[d], Flow[d][l].op = "wait",
             KeyAt(d, l) = KeyAt(d, k)
      PROVE  Flow[d][k].op = "wait"
  BY <1>1, <1>2, KeysOfWaits
<1>3. ASSUME NEW l \in DOMAIN Flow[d], Flow[d][l].op = "sleep",
             KeyAt(d, l) = KeyAt(d, k)
      PROVE  Flow[d][k].op = "sleep"
  BY <1>1, <1>3, KeysOfSleeps
<1>4. QED
  BY <1>1, <1>2, <1>3 DEF Awaits, Sleeps, StepOf, KeyOf

LEMMA LinksAreChildrenStep ==
  ASSUME Typed, LinksAreChildren, [Next]_vars PROVE LinksAreChildren'
<1>0. cp \in [Run -> [Key -> Checkpoint]]
  BY DEF Typed, TypeOK
<1>1. ASSUME NEW i \in Run, NEW key \in Key, ~Exists(i)
      PROVE  cp'[i][key] = NoCheckpoint
  <2>1. cp[i][key] = NoCheckpoint
    BY <1>1 DEF LinksAreChildren
  <2>2. QED
    BY <1>1, <2>1, CheckpointsStep, RecordedAt DEF Recorded
<1>2. ASSUME NEW i \in Run, NEW key \in Key, ~Exists(i)'
      PROVE  cp'[i][key] = NoCheckpoint
  BY <1>1, <1>2, RowsStay DEF Exists
<1>3. ASSUME NEW i \in Run, NEW key \in Key, Exists(i)', Awaits(i, key)'
      PROVE  /\ cp'[i][key].status # "COMPLETED"
             /\ cp'[i][key].value[1] # 0 => IsChildNext(cp'[i][key].value[1], i, key)
  <2>1. CASE ~Exists(i)
    BY <1>1, <2>1 DEF NoCheckpoint, NoValue
  <2>2. CASE Exists(i)
    <3>1. Awaits(i, key)
      BY <1>3, <2>2, AwaitsStays
    <3>2. CASE cp'[i][key] = cp[i][key]
      <4>1. /\ cp[i][key].status # "COMPLETED"
            /\ cp[i][key].value[1] # 0 => IsChild(cp[i][key].value[1], i, key)
        BY <2>2, <3>1 DEF LinksAreChildren
      <4>2. QED
        BY <3>2, <4>1, ChildStays
    <3>3. CASE cp'[i][key] # cp[i][key]
      <4>1. PICK s \in Slot, st \in {"RUNNING", "FAILED", "COMPLETED"}, v \in Value :
              Records(s, st, v)
        BY <3>3, CheckpointsStep DEF Recorded
      <4>2. /\ i = slot[s].run /\ key = KeyOf(s)
            /\ cp'[i][key].status = st /\ cp'[i][key].value = v
        BY <3>3, <4>1, RecordedAt
      <4>3. StepOf(s).op = "wait" /\ InFlow(s)
        BY <3>1, <4>1, <4>2, OpOfKey DEF Records
      <4>4. st = "RUNNING" /\ At(s, "link") /\ v = <<slot[s].child, 0>>
        BY <4>1, <4>3 DEF Records, At
      <4>5. IsChild(slot[s].child, i, key)
        BY <4>2, <4>4 DEF LinksAreChildren, At
      <4>6. cp'[i][key].value[1] = slot[s].child
        BY <4>2, <4>4
      <4>7. QED
        BY <4>2, <4>4, <4>5, <4>6, ChildStays
    <3>4. QED
      BY <3>2, <3>3
  <2>3. QED
    BY <2>1, <2>2
<1>4. ASSUME NEW t \in Slot, slot'[t].pc \in {"link", "poll"}
      PROVE  IsChildNext(slot'[t].child, slot'[t].run, KeyOf(t)')
  <2>1. ~At(t, "idle") /\ slot'[t].run = slot[t].run /\ slot'[t].step = slot[t].step
          /\ (slot'[t] = slot[t] \/ Proceeds(t))
    BY <1>4, WhatNext DEF At, Proceeds, GoesOn, InFlow, GoesOut, Ends, Leaves, Takes,
       Gives, Passes
  <2>2. KeyOf(t)' = KeyOf(t)
    BY <2>1, StepStays
  <2> DEFINE c == slot'[t].child
             i == slot[t].run
             key == KeyOf(t)
  <2>3. IsChild(c, i, key) \/ IsChildNext(c, i, key)
    <3>1. CASE slot'[t] = slot[t]
      BY <1>4, <3>1 DEF LinksAreChildren
    <3>2. CASE Proceeds(t) /\ slot'[t].pc = "link"
      BY <3>2 DEF Proceeds, IsChildNext
    <3>3. CASE Proceeds(t) /\ slot'[t].pc = "poll" /\ slot[t].pc = "link"
                /\ c = slot[t].child
      BY <3>3 DEF LinksAreChildren
    <3>4. CASE Proceeds(t) /\ c = Stored(t).value[1] /\ c # 0 /\ StepOf(t).op = "wait"
      <4>1. i \in Run /\ Exists(i) /\ key \in Key /\ InFlow(t)
        BY <3>4, AtStep DEF Proceeds, GoesOn, InFlow, At
      <4>2. Awaits(i, key)
        BY <3>4, <4>1, OpOfKey
      <4>3. QED
        BY <3>4, <4>1, <4>2 DEF LinksAreChildren, Stored
    <3>5. QED
      BY <1>4, <2>1, <3>1, <3>2, <3>3, <3>4 DEF Proceeds
  <2>4. IsChildNext(c, i, key)
    BY <2>3, ChildStays
  <2>5. QED
    BY <2>1, <2>2, <2>4
<1>5. QED
  BY <1>2, <1>3, <1>4 DEF LinksAreChildren, IsChild, IsChildNext, Exists

-----------------------------------------------------------------------------
(***************************************************************************)
(* Results are final.                                                      *)
(***************************************************************************)

LEMMA OneWorker ==
  ASSUME OwnersWork, NEW s \in Slot, NEW t \in Slot, InFlow(s), InFlow(t),
         slot[s].run = slot[t].run, slot[s].run \notin lapsed
  PROVE  s = t
BY DEF OwnersWork, Works

\* While its lease holds, a run's results are not written over.
LEMMA FinalStays ==
  ASSUME Typed, StepsAreOpen, LinksAreChildren, [Next]_vars,
         NEW i \in Run \ lapsed, NEW k \in Key, cp[i][k].status = "COMPLETED"
  PROVE  cp'[i][k] = cp[i][k]
<1> SUFFICES ASSUME cp'[i][k] # cp[i][k] PROVE FALSE
  OBVIOUS
<1>1. PICK s \in Slot, st \in {"RUNNING", "FAILED", "COMPLETED"}, v \in Value :
        Records(s, st, v)
  BY CheckpointsStep DEF Recorded
<1>2. i = slot[s].run /\ k = KeyOf(s)
  BY <1>1, RecordedAt
<1>3. InFlow(s) /\ Stored(s).status = "COMPLETED"
  BY <1>1, <1>2 DEF Records, Stored
<1>4. CASE StepOf(s).op = "wait"
  <2>1. Awaits(i, k) /\ Exists(i)
    BY <1>2, <1>3, <1>4, OpOfKey, AtStep DEF InFlow, At
  <2>2. QED
    BY <2>1 DEF LinksAreChildren
<1>5. CASE StepOf(s).op # "wait"
  <2>1. slot[s].pc \in {"open", "body", "started", "save"}
    BY <1>1, <1>5 DEF Records, At
  <2>2. QED
    BY <1>2, <1>3, <2>1 DEF StepsAreOpen, StepIsOpen
<1>6. QED
  BY <1>4, <1>5

LEMMA StepsAreOpenStep ==
  ASSUME Typed, OwnersWork, StepsAreOpen, [Next]_vars PROVE StepsAreOpen'
<1> SUFFICES ASSUME NEW t \in Slot, slot'[t].run \notin lapsed',
                    slot'[t].pc \in {"open", "body", "started", "save", "wake", "block"}
             PROVE  /\ slot'[t].pc \in {"open", "body", "started", "save"}
                         => Stored(t)'.status # "COMPLETED"
                    /\ slot'[t].pc \in {"wake", "block"}
                         => Stored(t)'.status = "COMPLETED"
  BY DEF StepsAreOpen, StepIsOpen
<1> DEFINE i == slot[t].run
           k == KeyOf(t)
<1>1. /\ InFlow(t) /\ slot'[t].run = i /\ slot'[t].step = slot[t].step
      /\ slot'[t] = slot[t] \/ Proceeds(t)
  BY WhatNext DEF Proceeds, GoesOn, InFlow, At, GoesOut, Ends, Leaves, Takes,
     Gives, Passes
<1>2. i \in Run /\ k \in Key /\ ~At(t, "idle")
  BY <1>1, AtStep DEF InFlow, At
<1>3. Stored(t)' = cp'[i][k]
  BY <1>1, <1>2, StepStays DEF Stored
<1>4. i \notin lapsed
  BY <1>1, HistoryStep DEF HistoryGrows
<1>5. /\ slot[t].pc \in {"open", "body", "started", "save"}
           => cp[i][k].status # "COMPLETED"
      /\ slot[t].pc \in {"wake", "block"} => cp[i][k].status = "COMPLETED"
  BY <1>4 DEF StepsAreOpen, StepIsOpen, Stored
<1>6. CASE slot'[t] = slot[t]
  <2>1. cp'[i][k] = cp[i][k]
    <3>1. SUFFICES ASSUME cp'[i][k] # cp[i][k] PROVE FALSE
      OBVIOUS
    <3>2. PICK s \in Slot, st \in {"RUNNING", "FAILED", "COMPLETED"}, v \in Value :
            Records(s, st, v)
      BY <3>1, CheckpointsStep DEF Recorded
    <3>3. i = slot[s].run
      BY <1>2, <3>1, <3>2, RecordedAt
    <3>4. s = t
      BY <1>1, <1>4, <3>2, <3>3, OneWorker DEF Records
    <3>5. QED
      BY <1>6, <3>2, <3>4 DEF Records
  <2>2. QED
    BY <1>3, <1>5, <1>6, <2>1
<1>7. CASE Proceeds(t)
  <2>1. ASSUME NEW st \in {"RUNNING", "COMPLETED"}, NEW v \in Value, Save(t, st, v)
        PROVE  cp'[i][k].status = st
    <3>1. Typed /\ InFlow(t) /\ st \in {"RUNNING", "FAILED", "COMPLETED"}
      BY <1>1
    <3>2. cp'[slot[t].run][KeyOf(t)] = [status |-> st, value |-> v]
      BY <2>1, <3>1, SaveType
    <3>3. QED
      BY <3>2
  <2>2. CASE slot'[t].pc = "open" /\ Stored(t).status # "COMPLETED" /\ cp' = cp
    BY <1>3, <2>2 DEF Stored
  <2>3. CASE slot'[t].pc = "body" /\ Save(t, "RUNNING", NoValue)
    <3>1. cp'[i][k].status = "RUNNING"
      BY <2>1, <2>3, NoValueType
    <3>2. QED
      BY <1>3, <2>3, <3>1
  <2>4. CASE /\ slot'[t].pc \in {"body", "started", "save"}
             /\ slot[t].pc \in {"body", "started"} /\ cp' = cp
    BY <1>3, <1>5, <2>4
  <2>5. CASE slot'[t].pc = "wake" /\ Stored(t).status = "COMPLETED" /\ cp' = cp
    BY <1>3, <2>5 DEF Stored
  <2>6. CASE slot'[t].pc = "wake" /\ \E v \in Value : Save(t, "COMPLETED", v)
    <3>1. cp'[i][k].status = "COMPLETED"
      BY <2>1, <2>6
    <3>2. QED
      BY <1>3, <2>6, <3>1
  <2>7. CASE slot'[t].pc = "block" /\ slot[t].pc \in {"wake", "block"} /\ cp' = cp
    BY <1>3, <1>5, <2>7
  <2>8. QED
    BY <1>7, <2>2, <2>3, <2>4, <2>5, <2>6, <2>7 DEF Proceeds
<1>8. QED
  BY <1>1, <1>6, <1>7

LEMMA GivenIsStoredStep ==
  ASSUME Typed, StepsAreOpen, LinksAreChildren, GivenIsStored, [Next]_vars
  PROVE  GivenIsStored'
<1> SUFFICES ASSUME NEW w \in given'
      PROVE  /\ Exists(w[1])'
             /\ Awaits(w[1], w[2])' => w[3][2] = 0 /\ IsChildNext(w[3][1], w[1], w[2])
             /\ Sleeps(w[1], w[2])' => w \in passed'
             /\ ~Awaits(w[1], w[2])' /\ w[1] \notin lapsed'
                  /\ <<w[1], w[2]>> \notin unsaved' =>
                  /\ cp'[w[1]][w[2]].status = "COMPLETED"
                  /\ cp'[w[1]][w[2]].value = w[3]
  BY DEF GivenIsStored, IsChild, IsChildNext, Exists
<1>1. /\ w[1] \in Run /\ w[2] \in Key /\ w[3] \in Value /\ w = <<w[1], w[2], w[3]>>
  BY GivenType
<1>2. passed \subseteq passed' /\ lapsed \subseteq lapsed' /\ unsaved \subseteq unsaved'
  BY HistoryStep DEF HistoryGrows
<1>3. CASE w \in given
  <2>1. Exists(w[1]) /\ Exists(w[1])'
    BY <1>1, <1>3, RowsStay DEF GivenIsStored, Exists
  <2>2. /\ Awaits(w[1], w[2])' = Awaits(w[1], w[2])
        /\ Sleeps(w[1], w[2])' = Sleeps(w[1], w[2])
    BY <1>1, <2>1, AwaitsStays
  <2>3. /\ Awaits(w[1], w[2]) => w[3][2] = 0 /\ IsChild(w[3][1], w[1], w[2])
        /\ Sleeps(w[1], w[2]) => w \in passed
        /\ ~Awaits(w[1], w[2]) /\ w[1] \notin lapsed /\ <<w[1], w[2]>> \notin unsaved =>
             /\ cp[w[1]][w[2]].status = "COMPLETED"
             /\ cp[w[1]][w[2]].value = w[3]
    BY <1>3 DEF GivenIsStored
  <2>4. Awaits(w[1], w[2]) => w[3][2] = 0 /\ IsChildNext(w[3][1], w[1], w[2])
    BY <2>3, ChildStays
  <2>5. w[1] \notin lapsed /\ cp[w[1]][w[2]].status = "COMPLETED"
          => cp'[w[1]][w[2]] = cp[w[1]][w[2]]
    BY <1>1, FinalStays
  <2>6. QED
    BY <1>2, <2>1, <2>2, <2>3, <2>4, <2>5
<1>4. CASE w \notin given
  <2>1. PICK s \in Slot, v \in Value : Gives(s, v)
    BY <1>4, GoroutinesStep DEF Given
  <2>2. w = <<slot[s].run, KeyOf(s), v>> /\ InFlow(s)
    BY <1>4, <2>1 DEF Gives
  <2>3. w[1] = slot[s].run /\ w[2] = KeyOf(s) /\ w[3] = v
    BY <2>2
  <2>4. Exists(w[1]) /\ Exists(w[1])'
    BY <1>1, <2>2, <2>3, AtStep, RowsStay DEF InFlow, At, Exists
  <2>5. /\ Awaits(w[1], w[2])' <=> StepOf(s).op = "wait"
        /\ Sleeps(w[1], w[2])' <=> StepOf(s).op = "sleep"
    BY <1>1, <2>2, <2>3, <2>4, AwaitsStays, OpOfKey
  <2>6. ASSUME StepOf(s).op = "wait"
        PROVE  w[3][2] = 0 /\ IsChildNext(w[3][1], w[1], w[2])
    <3>1. At(s, "poll") /\ v = <<slot[s].child, 0>>
      BY <2>1, <2>6 DEF Gives
    <3>2. IsChild(slot[s].child, slot[s].run, KeyOf(s))
      BY <3>1 DEF LinksAreChildren, At
    <3>3. v[1] = slot[s].child /\ v[2] = 0
      BY <3>1
    <3>4. QED
      BY <2>3, <3>2, <3>3, ChildStays
  <2>7. StepOf(s).op = "sleep" => w \in passed'
    BY <1>2, <2>1, <2>2 DEF Gives
  <2>8. ASSUME StepOf(s).op # "wait", w[1] \notin lapsed',
               <<w[1], w[2]>> \notin unsaved'
        PROVE  /\ cp'[w[1]][w[2]].status = "COMPLETED"
               /\ cp'[w[1]][w[2]].value = v
    <3>1. CASE Save(s, "COMPLETED", v)
      <4>1. cp'[w[1]][w[2]] = [status |-> "COMPLETED", value |-> v]
        BY <2>2, <2>3, <3>1, SaveType
      <4>2. QED
        BY <4>1
    <3>2. CASE At(s, "load") /\ Stored(s).status = "COMPLETED"
                 /\ v = Stored(s).value /\ cp' = cp
      BY <2>3, <3>2 DEF Stored
    <3>3. CASE slot[s].pc \in {"wake", "block"} /\ v = Stored(s).value /\ cp' = cp
      <4>1. Stored(s).status = "COMPLETED"
        BY <1>2, <2>3, <2>8, <3>3 DEF StepsAreOpen, StepIsOpen
      <4>2. QED
        BY <2>3, <3>3, <4>1 DEF Stored
    <3>4. ~(<<slot[s].run, KeyOf(s)>> \in unsaved')
      BY <2>3, <2>8
    <3>5. QED
      BY <2>1, <2>8, <3>1, <3>2, <3>3, <3>4 DEF Gives
  <2>9. QED
    BY <2>3, <2>4, <2>5, <2>6, <2>7, <2>8
<1>5. QED
  BY <1>3, <1>4

-----------------------------------------------------------------------------
(***************************************************************************)
(* The waits behind a flow are over.                                       *)
(***************************************************************************)

\* Awaited, after the step.
AwaitedNext(i, k) ==
  \E c \in Run : /\ run'[c].parent = i /\ run'[c].key = KeyAt(run'[i].dep, k)
                 /\ run'[c].dep = Flow[run'[i].dep][k].dep
                 /\ run'[c].state = "COMPLETED" \/ c \in lapsed'

\* A run that is COMPLETED remains so, while its lease has never lapsed.
LEMMA CompletedStays ==
  ASSUME Typed, OwnersWork, [Next]_vars, NEW c \in Run,
         run[c].state = "COMPLETED" \/ c \in lapsed
  PROVE  run'[c].state = "COMPLETED" \/ c \in lapsed'
<1>1. CASE c \in lapsed
  BY <1>1, HistoryStep DEF HistoryGrows
<1>2. CASE run[c].state = "COMPLETED" /\ c \notin lapsed
  <2>1. Exists(c)
    BY <1>2 DEF Exists, NoState
  <2>2. ~\E s \in Slot : Takes(s, c)
    BY <1>2 DEF Takes
  <2>3. ~\E s \in Slot : Settles(s, c)
    BY <1>2 DEF OwnersWork, Works, Settles
  <2>4. ~Decides(c)
    BY <1>2 DEF Decides, Reclaim, Abandoned
  <2>5. QED
    BY <1>2, <2>1, <2>2, <2>3, <2>4, StatesStep DEF StateStays
<1>3. QED
  BY <1>1, <1>2

LEMMA AwaitedStays ==
  ASSUME Typed, OwnersWork, [Next]_vars, NEW i \in Run, Exists(i), NEW k,
         Awaited(i, k)
  PROVE  AwaitedNext(i, k)
<1>1. PICK c \in Run :
        /\ run[c].parent = i /\ run[c].key = KeyAt(run[i].dep, k)
        /\ run[c].dep = Flow[run[i].dep][k].dep
        /\ run[c].state = "COMPLETED" \/ c \in lapsed
  BY DEF Awaited
<1>2. i # 0
  BY DEF Run
<1>3. Exists(c)
  BY <1>1, <1>2, ParentType
<1>4. /\ run'[c].parent = i /\ run'[c].key = run[c].key /\ run'[c].dep = run[c].dep
      /\ run'[i].dep = run[i].dep
  BY <1>1, <1>3, RowsStay
<1>5. run'[c].state = "COMPLETED" \/ c \in lapsed'
  BY <1>1, CompletedStays
<1>6. QED
  BY <1>1, <1>4, <1>5 DEF AwaitedNext

\* A call that returns to the flow has, if it is a wait, its child COMPLETED.
LEMMA GivesAwaited ==
  ASSUME Typed, ChildrenAreAwaited, LinksAreChildren, NEW s \in Slot, NEW v \in Value,
         Gives(s, v), StepOf(s).op = "wait"
  PROVE  Awaited(slot[s].run, slot[s].step)
<1> DEFINE c == slot[s].child
           i == slot[s].run
           d == run[i].dep
           k == slot[s].step
<1>1. At(s, "poll") /\ run[c].state = "COMPLETED" /\ InFlow(s)
  BY DEF Gives
<1>2. c \in Run /\ Exists(c) /\ run[c].parent = i /\ run[c].key = KeyOf(s)
  BY <1>1 DEF LinksAreChildren, IsChild, At
<1>3. d \in Dep /\ k \in DOMAIN Flow[d] /\ KeyOf(s) # NoKey /\ KeyOf(s) = KeyAt(d, k)
  BY <1>1, AtStep DEF InFlow, At, KeyOf
<1>4. PICK l \in DOMAIN Flow[d] :
        /\ Flow[d][l].op = "wait" /\ KeyAt(d, l) = KeyAt(d, k)
        /\ Flow[d][l].dep = run[c].dep
  <2>1. ChildIsAwaited(c)
    BY <1>2 DEF ChildrenAreAwaited
  <2>2. \E l \in DOMAIN Flow[run[run[c].parent].dep] :
          /\ Flow[run[run[c].parent].dep][l].op = "wait"
          /\ KeyAt(run[run[c].parent].dep, l) = run[c].key
          /\ Flow[run[run[c].parent].dep][l].dep = run[c].dep
    <3> HIDE DEF c
    <3>1. QED
      BY <1>2, <1>3, <2>1 DEF ChildIsAwaited
  <2>3. QED
    BY <1>2, <1>3, <2>2
<1>5. l = k
  BY <1>3, <1>4, KeysOfWaits
<1>6. QED
  BY <1>1, <1>2, <1>3, <1>4, <1>5 DEF Awaited

LEMMA WaitsAreOverStep ==
  ASSUME Typed, OwnersWork, ChildrenAreAwaited, LinksAreChildren, WaitsAreOver,
         [Next]_vars
  PROVE  WaitsAreOver'
<1>1. ASSUME NEW t \in Slot, ~At(t, "idle"), slot'[t].run = slot[t].run,
             NEW k \in DOMAIN Flow[run'[slot'[t].run].dep],
             Flow[run'[slot'[t].run].dep][k].op = "wait"
      PROVE  /\ Awaited(slot[t].run, k) => AwaitedNext(slot'[t].run, k)
             /\ k \in DOMAIN Flow[run[slot[t].run].dep]
             /\ Flow[run[slot[t].run].dep][k].op = "wait"
  <2>1. slot[t].run \in Run /\ Exists(slot[t].run)
    BY <1>1, AtStep
  <2>2. run'[slot'[t].run].dep = run[slot[t].run].dep
    BY <1>1, StepStays
  <2>3. QED
    BY <1>1, <2>1, <2>2, AwaitedStays
<1>2. ASSUME NEW t \in Slot, InFlow(t)',
             NEW k \in DOMAIN Flow[run'[slot'[t].run].dep], k < slot'[t].step,
             Flow[run'[slot'[t].run].dep][k].op = "wait"
      PROVE  AwaitedNext(slot'[t].run, k)
  <2>1. CASE slot'[t] = slot[t] \/ Proceeds(t)
    <3>1. /\ InFlow(t) /\ ~At(t, "idle") /\ slot'[t].run = slot[t].run
          /\ slot'[t].step = slot[t].step
      BY <1>2, <2>1 DEF Proceeds, GoesOn, InFlow, At
    <3>2. Awaited(slot[t].run, k)
      BY <1>1, <1>2, <3>1 DEF WaitsAreOver, AwaitedBefore
    <3>3. QED
      BY <1>1, <1>2, <3>1, <3>2
  <2>2. ASSUME NEW v \in Value, Gives(t, v) PROVE AwaitedNext(slot'[t].run, k)
    <3>1. /\ InFlow(t) /\ ~At(t, "idle") /\ slot'[t].run = slot[t].run
          /\ slot'[t].step = slot[t].step + 1
      BY <1>2, <2>2 DEF Gives, Passes, InFlow, At
    <3>2. k \in DOMAIN Flow[run[slot[t].run].dep]
            /\ Flow[run[slot[t].run].dep][k].op = "wait"
      BY <1>1, <1>2, <3>1
    <3>3. k \in Nat /\ slot[t].step \in Nat
      <4>1. /\ run[slot[t].run].dep \in Dep
            /\ slot[t].step \in DOMAIN Flow[run[slot[t].run].dep]
        BY <3>1, AtStep
      <4>2. QED
        BY <3>2, <4>1, FlowType
    <3>4. k < slot[t].step \/ k = slot[t].step
      BY <1>2, <3>1, <3>3
    <3>5. CASE k < slot[t].step
      <4>1. Awaited(slot[t].run, k)
        BY <3>1, <3>2, <3>5 DEF WaitsAreOver, AwaitedBefore
      <4>2. QED
        BY <1>1, <1>2, <3>1, <4>1
    <3>6. CASE k = slot[t].step
      <4>1. Awaited(slot[t].run, k)
        BY <2>2, <3>2, <3>6, GivesAwaited DEF StepOf
      <4>2. QED
        BY <1>1, <1>2, <3>1, <4>1
    <3>7. QED
      BY <3>4, <3>5, <3>6
  <2>3. ASSUME NEW i \in Run, Takes(t, i) PROVE FALSE
    <3>1. slot'[t].step = 1 /\ slot'[t].run = i /\ run[i].state = "SCHEDULED"
      BY <2>3 DEF Takes
    <3>2. Exists(i)
      BY <3>1 DEF Exists, NoState
    <3>3. run'[i].dep = run[i].dep /\ run[i].dep \in Dep
      BY <3>2, RowsStay DEF Typed, RowsInOrder
    <3>4. k \in Nat \ {0}
      BY <1>2, <3>1, <3>3, FlowType
    <3>5. QED
      BY <1>2, <3>1, <3>4
  <2>4. ~GoesOut(t) /\ ~Leaves(t)
    BY <1>2 DEF InFlow, At, GoesOut, Ends, Leaves
  <2>5. QED
    BY <2>1, <2>2, <2>3, <2>4, WhatNext
<1>3. ASSUME NEW t \in Slot, slot'[t].pc = "finish", slot'[t].outcome = "ok",
             NEW k \in DOMAIN Flow[run'[slot'[t].run].dep],
             Flow[run'[slot'[t].run].dep][k].op = "wait"
      PROVE  AwaitedNext(slot'[t].run, k)
  <2>1. CASE slot'[t] = slot[t]
    <3>1. At(t, "finish") /\ ~At(t, "idle") /\ slot[t].outcome = "ok"
      BY <1>3, <2>1 DEF At
    <3>2. Awaited(slot[t].run, k)
      BY <1>1, <1>3, <2>1, <3>1 DEF WaitsAreOver, AllAwaited
    <3>3. QED
      BY <1>1, <1>3, <2>1, <3>1, <3>2
  <2>2. ASSUME NEW v \in Value, Gives(t, v) PROVE AwaitedNext(slot'[t].run, k)
    <3>1. /\ InFlow(t) /\ ~At(t, "idle") /\ slot'[t].run = slot[t].run
          /\ slot[t].step = Len(Flow[run[slot[t].run].dep])
      BY <1>3, <2>2 DEF Gives, Passes, InFlow, At
    <3>2. k \in DOMAIN Flow[run[slot[t].run].dep]
            /\ Flow[run[slot[t].run].dep][k].op = "wait"
      BY <1>1, <1>3, <3>1
    <3>3. k \in Nat /\ slot[t].step \in Nat /\ k <= slot[t].step
      <4>1. run[slot[t].run].dep \in Dep
        BY <3>1, AtStep
      <4>2. QED
        BY <3>1, <3>2, <4>1, FlowType
    <3>4. k < slot[t].step \/ k = slot[t].step
      BY <3>3
    <3>5. CASE k < slot[t].step
      BY <3>1, <3>2, <3>5, <1>1, <1>3 DEF WaitsAreOver, AwaitedBefore
    <3>6. CASE k = slot[t].step
      <4>1. Awaited(slot[t].run, k)
        BY <2>2, <3>2, <3>6, GivesAwaited DEF StepOf
      <4>2. QED
        BY <1>1, <1>3, <3>1, <4>1
    <3>7. QED
      BY <3>4, <3>5, <3>6
  <2>3. /\ ~Proceeds(t) /\ ~GoesOut(t) /\ ~Leaves(t)
        /\ ~\E i \in Run : Takes(t, i)
    BY <1>3 DEF Proceeds, GoesOn, GoesOut, Ends, Leaves, Takes
  <2>4. QED
    BY <2>1, <2>2, <2>3, WhatNext
<1>4. ASSUME NEW i \in Run, run'[i].state = "COMPLETED",
             NEW k \in DOMAIN Flow[run'[i].dep], Flow[run'[i].dep][k].op = "wait"
      PROVE  AwaitedNext(i, k)
  <2>1. Exists(i)
    <3>1. SameRows => Exists(i)
      BY <1>4 DEF SameRows, Exists, NoState
    <3>2. RowInserted => Exists(i)
      BY <1>4 DEF RowInserted, Born, Exists, NoState
    <3>3. QED
      BY <3>1, <3>2, RowsStep
  <2>2. run'[i].dep = run[i].dep
    BY <2>1, RowsStay
  <2>3. Awaited(i, k)
    <3>1. CASE StateStays(i)
      BY <1>4, <2>2, <3>1 DEF StateStays, WaitsAreOver, AllAwaited
    <3>2. ASSUME NEW s \in Slot, Settles(s, i) PROVE Awaited(i, k)
      <4>1. At(s, "finish") /\ slot[s].run = i /\ Verdict(s) = "COMPLETED"
        BY <1>4, <3>2 DEF Settles
      <4>2. slot[s].outcome = "ok"
        BY <4>1 DEF Verdict
      <4>3. AllAwaited(i)
        BY <4>1, <4>2 DEF WaitsAreOver
      <4>4. QED
        BY <1>4, <2>2, <4>3 DEF AllAwaited
    <3>3. ~Decides(i) /\ ~\E s \in Slot : Takes(s, i)
      BY <1>4 DEF Decides, Takes
    <3>4. QED
      BY <2>1, <3>1, <3>2, <3>3, StatesStep
  <2>4. QED
    BY <2>1, <2>3, AwaitedStays
<1>5. QED
  BY <1>2, <1>3, <1>4 DEF WaitsAreOver, AwaitedBefore, AllAwaited, Awaited,
     AwaitedNext, At

-----------------------------------------------------------------------------
(***************************************************************************)
(* The initial states.                                                     *)
(***************************************************************************)

LEMMA InitRows ==
  ASSUME Init
  PROVE  /\ RowsTyped /\ RowsInOrder
         /\ \A i \in Run : run[i].parent = 0 /\ run[i].key = NoKey
                             /\ run[i].state \in {"SCHEDULED", NoState}
<1>1. PICK d \in Tops : run = [i \in Run |-> IF i = 1
                                 THEN [NoRow EXCEPT !.state = "SCHEDULED", !.dep = d]
                                 ELSE NoRow]
  BY DEF Init
<1> DEFINE q == [NoRow EXCEPT !.state = "SCHEDULED", !.dep = d]
<1>2. d \in Dep
  BY <1>1, ReplayAssumption
<1>3. NoRow \in RunRow /\ NoRow.parent = 0 /\ NoRow.key = NoKey
        /\ NoRow.owner = NoSlot /\ NoRow.state = NoState
  <2>1. 0 \in Ids /\ Now \in Time /\ 0 \in 0..(Retries + 2)
    BY ReplayAssumption, IdsAreNat DEF Time
  <2>2. QED
    BY <2>1 DEF NoRow, RunRow
<1>4. "SCHEDULED" \in State
  BY DEF State
<1>5. q \in RunRow /\ q.parent = 0 /\ q.key = NoKey /\ q.owner = NoSlot
        /\ q.state = "SCHEDULED" /\ q.dep = d
  BY <1>2, <1>3, <1>4 DEF RunRow
<1>6. run = [i \in Run |-> IF i = 1 THEN q ELSE NoRow]
  BY <1>1
<1> HIDE DEF q
<1>7. /\ run \in [Run -> RunRow]
      /\ \A i \in Run : run[i] = IF i = 1 THEN q ELSE NoRow
  BY <1>3, <1>5, <1>6
<1>8. RowsTyped
  BY <1>3, <1>5, <1>7 DEF RowsTyped, NoState
<1>9. RowsInOrder
  <2>1. \A i \in Run : Exists(i) <=> i = 1
    BY <1>3, <1>5, <1>7 DEF Exists, NoState
  <2>2. ~\E j \in Run : j < 1
    BY DEF Run
  <2>3. QED
    BY <1>2, <1>3, <1>5, <1>7, <2>1, <2>2 DEF RowsInOrder
<1>10. QED
  BY <1>3, <1>5, <1>7, <1>8, <1>9

LEMMA InitTyped == Init => Typed
<1> SUFFICES ASSUME Init PROVE Typed
  OBVIOUS
<1>1. RowsTyped /\ RowsInOrder
  BY InitRows
<1>2. slot = [s \in Slot |-> Idle] /\ slot \in [Slot -> Goroutine]
        /\ \A s \in Slot : slot[s].pc = "idle"
  BY IdleType DEF Init
<1>3. SlotsInStep
  BY <1>2 DEF SlotsInStep, InStep, InFlow, At
<1>4. NoCheckpoint \in Checkpoint
  BY NoValueType DEF NoCheckpoint, Checkpoint
<1>5. cp \in [Run -> [Key -> Checkpoint]]
  BY <1>4 DEF Init
<1>6. /\ work \in [Run -> [Key -> 0..MaxWork]] /\ faults \in 0..MaxFaults
      /\ passed = {} /\ given = {} /\ lapsed = {} /\ unsaved = {}
  BY ReplayAssumption DEF Init
<1>7. QED
  BY <1>1, <1>2, <1>3, <1>5, <1>6 DEF Typed, TypeOK, RowsTyped

LEMMA InitIInv == Init => IInv
<1> SUFFICES ASSUME Init PROVE IInv
  OBVIOUS
<1>1. Typed
  BY InitTyped
<1>2. \A i \in Run : /\ run[i].parent = 0 /\ run[i].key = NoKey
                     /\ run[i].state \in {"SCHEDULED", NoState}
  BY InitRows
<1>3. \A s \in Slot : slot[s].pc = "idle"
  BY IdleType DEF Init
<1>4. ChildrenAreAwaited /\ OneChildPerCall
  BY <1>2 DEF ChildrenAreAwaited, ChildIsAwaited, OneChildPerCall
<1>5. OwnersWork /\ StepsAreOpen
  BY <1>3 DEF OwnersWork, Works, InFlow, At, StepsAreOpen, StepIsOpen
<1>6. LinksAreChildren
  <2>1. \A i \in Run, key \in Key : cp[i][key] = NoCheckpoint
    BY DEF Init
  <2>2. NoCheckpoint.status = "none" /\ NoCheckpoint.value[1] = 0
    BY DEF NoCheckpoint, NoValue
  <2>3. QED
    BY <1>3, <2>1, <2>2 DEF LinksAreChildren
<1>7. GivenIsStored
  BY DEF Init, GivenIsStored
<1>8. WaitsAreOver
  BY <1>2, <1>3 DEF WaitsAreOver, InFlow, At, NoState
<1>9. CyclesAreRefused
  <2>1. ASSUME NEW i \in Run PROVE Ancestors[i] = {}
    BY <1>1, <1>2, AncestorsAre, IdsAreNat DEF AncestorsUnfold
  <2>2. Cardinality({}) = 0 /\ 0 <= MaxDepth
    BY FS_EmptySet, ReplayAssumption
  <2>3. QED
    BY <2>1, <2>2 DEF CyclesAreRefused
<1>10. QED
  BY <1>1, <1>4, <1>5, <1>6, <1>7, <1>8, <1>9 DEF IInv, Typed

-----------------------------------------------------------------------------
(***************************************************************************)
(* The invariant.                                                          *)
(***************************************************************************)

LEMMA IInvStep == ASSUME IInv, [Next]_vars PROVE IInv'
<1>1. Typed
  BY DEF IInv, Typed
<1>2. Typed'
  BY <1>1, TypedStep
<1>3. ChildrenAreAwaited' /\ OneChildPerCall'
  BY <1>1, ChildrenAreAwaitedStep, OneChildStep DEF IInv
<1>4. OwnersWork' /\ StepsAreOpen'
  BY <1>1, OwnersWorkStep, StepsAreOpenStep DEF IInv
<1>5. LinksAreChildren' /\ GivenIsStored'
  BY <1>1, LinksAreChildrenStep, GivenIsStoredStep DEF IInv
<1>6. WaitsAreOver'
  BY <1>1, WaitsAreOverStep DEF IInv
<1>7. CyclesAreRefused'
  BY <1>1, <1>2, CyclesStep DEF IInv
<1>8. QED
  BY <1>2, <1>3, <1>4, <1>5, <1>6, <1>7 DEF IInv, Typed

LEMMA Invariance == Spec => []IInv
<1>1. Init => IInv
  BY InitIInv
<1>2. IInv /\ [Next]_vars => IInv'
  BY IInvStep
<1>3. QED
  BY <1>1, <1>2, PTL DEF Spec

-----------------------------------------------------------------------------
(***************************************************************************)
(* The properties.                                                         *)
(***************************************************************************)

\* Rows, checkpoints and goroutines keep their types, and the runs that execute
\* are those with an owner, for all flows, slots and faults.
THEOREM TypeCorrect == Spec => []TypeOK
<1>1. IInv => TypeOK
  BY DEF IInv
<1>2. QED
  BY <1>1, Invariance, PTL

\* A call of RunDeploymentAndWait has one child (sdk.go, runSubflow): whoever
\* triggers it again finds the first one by its idempotency key.
THEOREM OneChildAlways == Spec => []OneChildPerCall
<1>1. IInv => OneChildPerCall
  BY DEF IInv
<1>2. QED
  BY <1>1, Invariance, PTL

\* The guard of sub-flows lets no deployment come back by way of another one and
\* bounds the way to the top, whichever flows start each other.
THEOREM CyclesAreRefusedAlways == Spec => []CyclesAreRefused
<1>1. IInv => CyclesAreRefused
  BY DEF IInv
<1>2. QED
  BY <1>1, Invariance, PTL

\* No attempt goes past a sleep before the wake time of the first one.
THEOREM SleepIsKeptAlways == Spec => []SleepIsKept
<1>1. IInv => SleepIsKept
  BY DEF IInv, GivenIsStored, Sleeps, SleepIsKept
<1>2. QED
  BY <1>1, Invariance, PTL

\* What a flow was given once by a call it is given by this call in all attempts:
\* of a wait the one child, of the others the result that is stored.
LEMMA GivenOnce == IInv => ReplayIsStable
<1> SUFFICES ASSUME IInv, NEW p \in given, NEW q \in given,
                    p[1] = q[1], p[2] = q[2],
                    p[1] \notin lapsed, <<p[1], p[2]>> \notin unsaved
             PROVE  p[3] = q[3]
  BY DEF ReplayIsStable
<1>1. CASE ~Awaits(p[1], p[2])
  <2>1. cp[p[1]][p[2]].value = p[3] /\ cp[p[1]][p[2]].value = q[3]
    BY <1>1 DEF IInv, GivenIsStored
  <2>2. QED
    BY <2>1
<1>2. CASE Awaits(p[1], p[2])
  <2>1. /\ p[3][2] = 0 /\ IsChild(p[3][1], p[1], p[2])
        /\ q[3][2] = 0 /\ IsChild(q[3][1], p[1], p[2])
    BY <1>2 DEF IInv, GivenIsStored
  <2>2. p[2] # NoKey
    <3>1. p[2] \in Key
      BY DEF IInv, TypeOK
    <3>2. QED
      BY <3>1, KeysApart
  <2>3. p[3][1] = q[3][1]
    BY <2>1, <2>2 DEF IsChild, IInv, OneChildPerCall
  <2>4. p[3] \in Value /\ q[3] \in Value
    BY DEF IInv, TypeOK
  <2>5. QED
    BY <2>1, <2>3, <2>4 DEF Value
<1>3. QED
  BY <1>1, <1>2

THEOREM ReplayIsStableAlways == Spec => []ReplayIsStable
BY GivenOnce, Invariance, PTL

\* A flow that has COMPLETED has the children COMPLETED that it waited for.
THEOREM AwaitedIsCompletedAlways == Spec => []AwaitedIsCompleted
<1>1. IInv => AwaitedIsCompleted
  BY DEF IInv, WaitsAreOver, AllAwaited, Awaited, AwaitedIsCompleted
<1>2. QED
  BY <1>1, Invariance, PTL

\* The work behind a stored result is not done again.
LEMMA WorkIsDone ==
  ASSUME IInv, [Next]_vars, NEW i \in Run \ lapsed, NEW k \in Key,
         cp[i][k].status = "COMPLETED"
  PROVE  work'[i][k] = work[i][k]
<1>1. Typed /\ work \in [Run -> [Key -> 0..MaxWork]]
  BY DEF IInv, Typed, TypeOK
<1>2. ASSUME NEW s \in Slot, FnSucceeds(s) PROVE work'[i][k] = work[i][k]
  <2>1. InFlow(s) /\ slot[s].pc \in {"body", "started"}
    BY <1>1, <1>2, FnSucceedsWalks
  <2>2. i # slot[s].run \/ k # KeyOf(s)
    BY <2>1 DEF IInv, StepsAreOpen, StepIsOpen, Stored
  <2>3. QED
    BY <1>1, <1>2, <2>2 DEF FnSucceeds
<1>3. CASE work' = work
  BY <1>3
<1>4. QED
  <2>1. ASSUME NEW s \in Slot,
               \/ Load(s) \/ Open(s) \/ SaveResult(s) \/ Wake(s) \/ StartChild(s)
               \/ Trigger(s) \/ Link(s) \/ Poll(s) \/ Finish(s)
               \/ CountChildren(s) \/ ResumeParent(s) \/ StatementFails(s) \/ Crash(s)
        PROVE  work' = work
    BY <2>1 DEF Load, Open, SaveResult, Wake, StartChild, Trigger, Link, Poll,
       Finish, CountChildren, ResumeParent, StatementFails, Crash
  <2>2. ASSUME NEW s \in Slot,
               \/ \E kind \in {"error", "permanent", "suspend"} : FnFails(s, kind)
               \/ \E j \in Run : Lease(s, j)
        PROVE  work' = work
    BY <2>2 DEF FnFails, Lease
  <2>3. ASSUME NEW j \in Run,
               \/ ComesDue(j) \/ Reclaim(j) \/ Cancel(j) \/ Reschedule(j)
               \/ \E key \in Key : SleepEnds(j, key)
        PROVE  work' = work
    BY <2>3 DEF ComesDue, Reclaim, Cancel, Reschedule, SleepEnds
  <2>4. UNCHANGED vars => work' = work
    BY DEF vars
  <2>5. QED
    BY <1>2, <1>3, <2>1, <2>2, <2>3, <2>4 DEF Next, FlowStep

\* A stored result is final, and its task's function does not succeed again
\* (task.go: the checkpoint is read before the function is called), unless the
\* run's lease has lapsed under a live worker.
THEOREM RecordedIsFinalAlways == Spec => RecordedIsFinal
<1>1. IInv /\ [Next]_vars =>
        [\A i \in Run \ lapsed, k \in Key :
           cp[i][k].status = "COMPLETED" => /\ cp'[i][k] = cp[i][k]
                                            /\ work'[i][k] = work[i][k]]_vars
  <2> SUFFICES ASSUME IInv, [Next]_vars, NEW i \in Run \ lapsed, NEW k \in Key,
                      cp[i][k].status = "COMPLETED"
               PROVE  cp'[i][k] = cp[i][k] /\ work'[i][k] = work[i][k]
    OBVIOUS
  <2>1. Typed /\ StepsAreOpen /\ LinksAreChildren
    BY DEF IInv, Typed
  <2>2. QED
    BY <2>1, FinalStays, WorkIsDone
<1>2. QED
  BY <1>1, Invariance, PTL DEF Spec, RecordedIsFinal
=============================================================================
