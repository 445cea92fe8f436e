-------------------------- MODULE AutomationsProofs --------------------------
(* What holds of Automations for any rules, replicas and batch size, under *)
(* every failure, takeover and late commit.                                *)
EXTENDS Automations, WellFoundedInduction, FiniteSetTheorems, TLAPS

-----------------------------------------------------------------------------
(***************************************************************************)
(* The inductive invariants.                                               *)
(***************************************************************************)

\* What is left of a batch lies ahead of the cursor.
Ahead(e) == Busy(e) => \A s \in ev[e].tick.batch : ev[e].cursor < s /\ s <= Len(log)
BatchesAreAhead == \A e \in Replica : Ahead(e)
Typed == TypeOK /\ BatchesAreAhead

\* A firing of this life of an evaluator lies behind it: its event is before the
\* cursor, or is the one at hand and its rule has had its turn.
Behind(e, f) ==
  f.by = <<e, ev[e].life>> =>
    \/ f.seq <= ev[e].cursor
    \/ Busy(e) /\ f.seq = At(e) /\ f.rule < ev[e].tick.r
FiringsAreBehind ==
  \A e \in Replica, i \in 1..Len(fired) :
    /\ Behind(e, fired[i])
    /\ fired[i].by[1] = e => fired[i].by[2] <= ev[e].life

\* A row of a rule accounts for the first n firings.
Covers(r, last, n) ==
  \A i \in 1..Len(fired) :
    i <= n /\ fired[i].rule = r /\ fired[i].touched => last # Never /\ fired[i].at <= last

\* The rows account for all firings, and what a tick has listed for those it
\* knows of.
RowsCover ==
  \A r \in Rule : /\ Covers(r, rule[r].last, Len(fired))
                  /\ rule[r].last # Never => rule[r].last <= now
Listed(e) ==
  Busy(e) => /\ ev[e].tick.known <= Len(fired)
             /\ \A r \in Rule : Covers(r, ev[e].tick.rules[r].last, ev[e].tick.known)
ListsCover ==
  /\ \A e \in Replica : Listed(e)
  /\ \A j \in 1..Len(fired) : fired[j].known <= Len(fired)

\* Who is about to fire a rule with a threshold has found no firing in the window.
Calm(e) ==
  Busy(e) /\ ev[e].tick.pc # "decide" /\ RuleAt(e).threshold > 1 =>
    LET last == ev[e].tick.rules[ev[e].tick.r].last IN last = Never \/ last <= Since(e)
FirersAreCalm == \A e \in Replica : Calm(e)

\* What an evaluator has passed is accounted for, or is in its hands.
WithinLog == \A e \in Replica : ev[e].cursor <= Len(log)
Accounted(e) ==
  \A s \in Visible : Passed(e, s) => \/ s \in seen \cup skipped
                                     \/ Busy(e) /\ s \in ev[e].tick.batch
PassedIsAccounted == WithinLog /\ \A e \in Replica : Accounted(e)
-----------------------------------------------------------------------------
(***************************************************************************)
(* Rules, events and evaluators.                                           *)
(***************************************************************************)

LEMMA RulesAreMany ==
  /\ Len(Def) \in Nat \ {0} /\ Rule = 1..Len(Def)
  /\ \A r \in Rule : Def[r].window \in Nat /\ Def[r].threshold \in Nat
<1> DEFINE D == [match : SUBSET Name, threshold : Nat \ {0}, window : Nat, action : Action]
<1>1. Def \in Seq(D) /\ Def # <<>>
  BY AutomationAssumption
<1>2. \A v \in D : v.window \in Nat /\ v.threshold \in Nat
  OBVIOUS
<1> HIDE DEF D
<1>3. Len(Def) \in Nat \ {0} /\ \A r \in 1..Len(Def) : Def[r] \in D
  BY <1>1
<1>4. QED
  BY <1>2, <1>3 DEF Rule

LEMMA NeverIsNoTime ==
  /\ Never \in Nat /\ \A t \in Clock : t \in Nat /\ t < Never
BY AutomationAssumption DEF Never, Clock

LEMMA LeastNat ==
  ASSUME NEW T \in SUBSET Nat, T # {}
  PROVE  \E x \in T : \A y \in T : x <= y
<1> DEFINE R == OpToRel(<, Nat)
<1>1. \A x, y \in Nat : <<x, y>> \in R <=> x < y
  BY DEF OpToRel
<1>2. IsWellFoundedOn(R, Nat)
  BY NatLessThanWellFounded
<1> HIDE DEF R
<1>3. PICK x \in T : \A y \in T : ~(<<y, x>> \in R)
  BY <1>2, WFMin
<1>4. \A y \in T : ~(y < x)
  BY <1>1, <1>3
<1>5. QED
  BY <1>4

\* An evaluator in a tick is at the earliest event left.
LEMMA BusyFacts ==
  ASSUME TypeOK, NEW e \in Replica, Busy(e)
  PROVE  /\ ev[e].tick \in Working
         /\ At(e) \in ev[e].tick.batch /\ At(e) \in 1..MaxEvents
         /\ \A s \in ev[e].tick.batch : At(e) <= s
<1> DEFINE B == ev[e].tick.batch
<1>1. ev[e].tick \in Working
  <2>1. ev[e] \in Evaluator
    BY DEF TypeOK
  <2>2. ev[e].tick \in {Idle} \cup Working
    BY <2>1 DEF Evaluator
  <2>3. QED
    BY <2>2 DEF Busy
<1>2. B \in SUBSET (1..MaxEvents) /\ B # {}
  <2>1. \A t \in Working : t.batch \in (SUBSET (1..MaxEvents)) \ {{}}
    BY DEF Working
  <2>2. QED
    BY <1>1, <2>1
<1>3. 1..MaxEvents \subseteq Nat
  BY AutomationAssumption
<1> HIDE DEF B
<1>4. \E s \in B : \A t \in B : s <= t
  <2>1. B \in SUBSET Nat
    BY <1>2, <1>3
  <2>2. QED
    BY <1>2, <2>1, LeastNat
<1>5. At(e) = CHOOSE s \in B : \A t \in B : s <= t
  BY DEF At, B
<1>6. At(e) \in B /\ \A t \in B : At(e) <= t
  BY <1>4, <1>5
<1>7. QED
  BY <1>1, <1>2, <1>6 DEF B

\* The time a window starts.
LEMMA SinceType ==
  ASSUME Typed, NEW e \in Replica, Busy(e)
  PROVE  Since(e) \in Clock /\ EventAt(e) \in Event
<1>1. At(e) \in 1..Len(log)
  <2>1. At(e) \in 1..MaxEvents /\ At(e) \in ev[e].tick.batch
    BY BusyFacts DEF Typed
  <2>2. At(e) <= Len(log) /\ Len(log) \in Nat
    BY <2>1 DEF Typed, BatchesAreAhead, Ahead, TypeOK
  <2>3. QED
    BY <2>1, <2>2, AutomationAssumption
<1>2. EventAt(e) \in Event /\ EventAt(e).at \in Clock
  <2>1. log[At(e)] \in Event
    BY <1>1 DEF Typed, TypeOK
  <2>2. QED
    BY <2>1 DEF EventAt, Event
<1>3. RuleAt(e).window \in Nat
  BY BusyFacts, RulesAreMany DEF Typed, Working, RuleAt
<1>4. QED
  BY <1>2, <1>3, AutomationAssumption DEF Since, Clock

\* An evaluator's next position: the next rule, or behind the event.
LEMMA AdvancedFacts ==
  ASSUME TypeOK, NEW e \in Replica, Busy(e)
  PROVE  /\ Advanced(e) \in Evaluator
         /\ Advanced(e).life = ev[e].life
         /\ Advanced(e).tick # Idle =>
              /\ Advanced(e).tick \in Working
              /\ Advanced(e).tick.pc = "decide"
              /\ Advanced(e).tick.rules = ev[e].tick.rules
              /\ Advanced(e).tick.known = ev[e].tick.known
         /\ \/ /\ Advanced(e).cursor = ev[e].cursor
               /\ ev[e].tick.r < Len(Def)
               /\ Advanced(e).tick # Idle
               /\ Advanced(e).tick.batch = ev[e].tick.batch
               /\ Advanced(e).tick.r = ev[e].tick.r + 1
            \/ /\ Advanced(e).cursor = At(e)
               /\ ~(ev[e].tick.r < Len(Def))
               /\ Advanced(e).tick # Idle
                    => Advanced(e).tick.batch = ev[e].tick.batch \ {At(e)}
               /\ Advanced(e).tick = Idle => ev[e].tick.batch = {At(e)}
<1> DEFINE t == ev[e].tick
           rest == t.batch \ {At(e)}
           next == [t EXCEPT !.pc = "decide", !.r = t.r + 1]
           after == [t EXCEPT !.pc = "decide", !.batch = rest, !.r = 1]
<1>1. t \in Working /\ At(e) \in 1..MaxEvents /\ ev[e] \in Evaluator
  BY BusyFacts DEF TypeOK
<1>2. CASE t.r < Len(Def)
  <2>1. Advanced(e) = [ev[e] EXCEPT !.tick = next]
    BY <1>2 DEF Advanced
  <2>2. t.r + 1 \in Rule
    BY <1>1, <1>2, RulesAreMany DEF Working
  <2>3. /\ next \in Working /\ next.pc = "decide" /\ next.rules = t.rules
        /\ next.known = t.known /\ next.batch = t.batch /\ next.r = t.r + 1
    BY <1>1, <2>2 DEF Working
  <2>4. next # Idle
    BY <2>3 DEF Idle
  <2> HIDE DEF next
  <2>5. /\ Advanced(e) \in Evaluator /\ Advanced(e).life = ev[e].life
        /\ Advanced(e).cursor = ev[e].cursor /\ Advanced(e).tick = next
    BY <1>1, <2>1, <2>3 DEF Evaluator
  <2>6. QED
    BY <1>2, <2>3, <2>4, <2>5
<1>3. CASE ~(t.r < Len(Def))
  <2>1. Advanced(e) = [ev[e] EXCEPT !.cursor = At(e), !.tick = IF rest = {} THEN Idle ELSE after]
    BY <1>3 DEF Advanced
  <2>2. 1 \in Rule
    BY RulesAreMany
  <2>3. rest # {} => /\ after \in Working /\ after.pc = "decide" /\ after.rules = t.rules
                     /\ after.known = t.known /\ after.batch = rest
    BY <1>1, <2>2 DEF Working
  <2>4. At(e) \in 0..MaxEvents
    BY <1>1, AutomationAssumption
  <2>5. rest = {} => t.batch = {At(e)}
    BY BusyFacts
  <2>6. rest # {} => after # Idle
    BY <2>3 DEF Idle
  <2> HIDE DEF after, rest
  <2>7. /\ Advanced(e) \in Evaluator /\ Advanced(e).life = ev[e].life
        /\ Advanced(e).cursor = At(e)
        /\ Advanced(e).tick = IF rest = {} THEN Idle ELSE after
    BY <1>1, <2>1, <2>3, <2>4 DEF Evaluator
  <2>8. QED
    BY <1>3, <2>3, <2>5, <2>6, <2>7 DEF rest
<1>4. QED
  BY <1>2, <1>3

-----------------------------------------------------------------------------
(***************************************************************************)
(* The log only grows, and its events stay as they are.                    *)
(***************************************************************************)

LogGrows ==
  /\ Len(log) <= Len(log')
  /\ \A s \in 1..Len(log) : log'[s].name = log[s].name /\ log'[s].at = log[s].at
LogTyped == log' \in Seq(Event) /\ Len(log') <= MaxEvents

LEMMA AppendGrows ==
  ASSUME TypeOK, NEW v \in Event, Len(log) < MaxEvents, log' = Append(log, v)
  PROVE  LogGrows /\ LogTyped
<1>1. Len(log) \in Nat /\ Len(log') = Len(log) + 1 /\ log' \in Seq(Event)
  BY DEF TypeOK
<1>2. \A s \in 1..Len(log) : log'[s] = log[s]
  BY DEF TypeOK
<1>3. QED
  BY <1>1, <1>2, AutomationAssumption DEF LogGrows, LogTyped

LEMMA StillGrows ==
  ASSUME TypeOK, log' = log
  PROVE  LogGrows /\ LogTyped
BY DEF TypeOK, LogGrows, LogTyped

LEMMA Append1Grows ==
  ASSUME TypeOK, NEW name \in Name, log' = Append1(log, name)
  PROVE  LogGrows /\ LogTyped
<1>1. [name |-> name, at |-> now, committed |-> TRUE] \in Event
  BY DEF TypeOK, Event
<1>2. QED
  BY <1>1, AppendGrows, StillGrows DEF Append1

LEMMA EmitGrows ==
  ASSUME TypeOK, NEW name \in Outside, Emit(name)
  PROVE  LogGrows /\ LogTyped
<1>1. name \in Name
  BY DEF Name
<1>2. [name |-> name, at |-> now, committed |-> FALSE] \in Event
  BY <1>1 DEF TypeOK, Event
<1>3. QED
  BY <1>1, <1>2, Append1Grows, AppendGrows DEF Emit

LEMMA CommitGrows ==
  ASSUME TypeOK, NEW s \in 1..MaxEvents, Commit(s)
  PROVE  LogGrows /\ LogTyped
<1> DEFINE v == [log[s] EXCEPT !.committed = TRUE]
<1>1. s \in 1..Len(log) /\ log' = [log EXCEPT ![s] = v]
  BY AutomationAssumption DEF Commit, TypeOK
<1>2. log[s] \in Event
  BY <1>1 DEF TypeOK
<1>3. v \in Event /\ v.name = log[s].name /\ v.at = log[s].at
  BY <1>2 DEF Event
<1> HIDE DEF v
<1>4. log' \in Seq(Event) /\ Len(log') = Len(log)
  BY <1>1, <1>3 DEF TypeOK
<1>5. QED
  BY <1>1, <1>3, <1>4 DEF LogGrows, LogTyped, TypeOK

LEMMA ActGrows ==
  ASSUME TypeOK, NEW e \in Replica, Act(e)
  PROVE  LogGrows /\ LogTyped
<1>1. "flow-run.SCHEDULED" \in Name /\ "flow-run.CANCELLED" \in Name
  BY DEF Name
<1>2. \/ log' = Append1(log, "flow-run.SCHEDULED")
      \/ log' = Append1(log, "flow-run.CANCELLED")
      \/ log' = log
  BY DEF Act
<1>3. QED
  BY <1>1, <1>2, Append1Grows, StillGrows

LEMMA TouchGrows ==
  ASSUME TypeOK, NEW e \in Replica, Touch(e)
  PROVE  LogGrows /\ LogTyped
BY Append1Grows DEF Touch, Name

\* A step neither shortens the log nor rewrites an event.
LEMMA GrowNext ==
  TypeOK /\ [Next]_vars => LogGrows /\ LogTyped
<1> SUFFICES ASSUME TypeOK, [Next]_vars PROVE LogGrows /\ LogTyped
  OBVIOUS
<1>1. ASSUME NEW e \in Replica, Act(e) PROVE LogGrows /\ LogTyped
  BY <1>1, ActGrows
<1>2. ASSUME NEW e \in Replica, Touch(e) PROVE LogGrows /\ LogTyped
  BY <1>2, TouchGrows
<1>3. ASSUME NEW name \in Outside, Emit(name) PROVE LogGrows /\ LogTyped
  BY <1>3, EmitGrows
<1>4. ASSUME NEW s \in 1..MaxEvents, Commit(s) PROVE LogGrows /\ LogTyped
  BY <1>4, CommitGrows
<1>5. ASSUME log' = log PROVE LogGrows /\ LogTyped
  BY <1>5, StillGrows
<1>6. QED
  BY <1>1, <1>2, <1>3, <1>4, <1>5
     DEF Next, Evaluate, StartTick, Decide, Restart, SetEnabled, LeaseLapses, Advance, vars

-----------------------------------------------------------------------------
(***************************************************************************)
(* How an evaluator moves.                                                 *)
(***************************************************************************)

\* The tick of an evaluator, when it has one, after a step of its own.
LEMMA TickSet ==
  ASSUME TypeOK, NEW e \in Replica, NEW t \in Working, SetTick(e, t)
  PROVE  /\ ev' \in [Replica -> Evaluator]
         /\ ev'[e].cursor = ev[e].cursor /\ ev'[e].life = ev[e].life
         /\ ev'[e].tick = t /\ t # Idle
         /\ \A f \in Replica : f # e => ev'[f] = ev[f]
<1>1. ev \in [Replica -> Evaluator]
  BY DEF TypeOK
<1>2. ev' = [ev EXCEPT ![e].tick = t]
  BY DEF SetTick
<1>3. ev[e] \in Evaluator
  BY <1>1
<1>4. [ev[e] EXCEPT !.tick = t] \in Evaluator
  BY <1>3 DEF Evaluator
<1>5. t # Idle
  BY DEF Idle, Working
<1>6. ev' = [ev EXCEPT ![e] = [ev[e] EXCEPT !.tick = t]]
  BY <1>1, <1>2
<1>7. QED
  BY <1>1, <1>3, <1>4, <1>5, <1>6 DEF Evaluator

LEMMA PairSet ==
  ASSUME TypeOK, NEW e \in Replica, Busy(e), NextPair(e)
  PROVE  /\ ev' \in [Replica -> Evaluator]
         /\ ev'[e] = Advanced(e)
         /\ \A f \in Replica : f # e => ev'[f] = ev[f]
<1>1. Advanced(e) \in Evaluator
  BY AdvancedFacts
<1>2. QED
  BY <1>1 DEF TypeOK, NextPair

LEMMA RestartSet ==
  ASSUME TypeOK, NEW e \in Replica, Restart(e)
  PROVE  /\ ev' \in [Replica -> Evaluator]
         /\ ev'[e].life = ev[e].life + 1 /\ ev'[e].tick = Idle
         /\ \A f \in Replica : f # e => ev'[f] = ev[f]
         /\ ev'[e].cursor <= Len(log)
         /\ \A s \in Visible : s <= ev'[e].cursor => s \in seen \cup skipped'
<1>1. MaxEventSeq \in 0..MaxEvents /\ MaxEventSeq <= Len(log)
  <2>1. Visible \in SUBSET (1..MaxEvents) /\ \A s \in Visible : s <= Len(log)
    BY AutomationAssumption DEF Visible, TypeOK
  <2>0. 0 <= Len(log)
    BY DEF TypeOK
  <2>2. Visible \in SUBSET Nat /\ \A s \in Visible : s <= MaxEvents
    BY <2>1, AutomationAssumption
  <2>3. CASE Visible = {}
    BY <2>0, <2>3, AutomationAssumption DEF MaxEventSeq
  <2>4. CASE Visible # {}
    <3> DEFINE T == {MaxEvents - s : s \in Visible}
    <3>0. \A s \in Visible : MaxEvents - s \in Nat
      BY <2>2, AutomationAssumption
    <3>1. T \in SUBSET Nat /\ T # {}
      BY <2>4, <3>0
    <3>2. PICK x \in T : \A y \in T : x <= y
      BY <3>1, LeastNat
    <3>3. PICK s \in Visible : x = MaxEvents - s
      BY <3>2
    <3>4. \A t \in Visible : MaxEvents - s <= MaxEvents - t
      BY <3>2, <3>3
    <3>5. \A t \in Visible : t <= s
      BY <2>2, <3>3, <3>4, AutomationAssumption
    <3>6. MaxEventSeq \in Visible
      BY <2>4, <3>3, <3>5 DEF MaxEventSeq
    <3>7. QED
      BY <2>1, <3>6, AutomationAssumption
  <2>5. QED
    BY <2>3, <2>4
<1>2. ev[e] \in Evaluator /\ ev \in [Replica -> Evaluator]
  BY DEF TypeOK
<1>3. PICK head \in 0..MaxEvents :
        /\ head <= Len(log)
        /\ ev' = [ev EXCEPT ![e] = [cursor |-> head, life |-> ev[e].life + 1, tick |-> Idle]]
        /\ skipped' = skipped \cup {s \in Visible : s <= head /\ s \notin seen}
  <2>1. PICK head \in {MaxEventSeq} \cup {z \in {0} : "seqFails" \in Env} :
          /\ ev' = [ev EXCEPT ![e] = [cursor |-> head, life |-> @.life + 1, tick |-> Idle]]
          /\ skipped' = skipped \cup {s \in Visible : s <= head /\ s \notin seen}
    BY DEF Restart
  <2>2. head \in 0..MaxEvents /\ head <= Len(log)
    BY <1>1, AutomationAssumption DEF TypeOK
  <2>3. QED
    BY <1>2, <2>1, <2>2
<1>4. [cursor |-> head, life |-> ev[e].life + 1, tick |-> Idle] \in Evaluator
  BY <1>2 DEF Evaluator
<1>5. QED
  BY <1>2, <1>3, <1>4

\* A tick that starts has a batch ahead of the cursor, or none.
LEMMA StartSet ==
  ASSUME TypeOK, NEW e \in Replica, StartTick(e)
  PROVE  \/ UNCHANGED ev
         \/ \E t \in Working :
              /\ SetTick(e, t) /\ t.pc = "decide" /\ t.rules = rule /\ t.known = Len(fired)
              /\ \A s \in t.batch : ev[e].cursor < s /\ s <= Len(log)
<1> DEFINE batch == ListEventsAfter(ev[e].cursor)
           t == [pc |-> "decide", batch |-> batch, rules |-> rule, r |-> 1,
                 known |-> Len(fired)]
<1>1. batch \subseteq {s \in 1..Len(log) : s > ev[e].cursor}
  BY DEF ListEventsAfter, Visible
<1>2. /\ Len(log) \in Nat /\ Len(log) <= MaxEvents /\ ev[e].cursor \in Nat
      /\ Len(fired) \in Nat /\ rule \in [Rule -> RuleRow]
  <2>1. ev[e] \in Evaluator
    BY DEF TypeOK
  <2>2. QED
    BY <2>1, AutomationAssumption DEF TypeOK, Evaluator
<1> HIDE DEF batch
<1>3. \A s \in batch : s \in 1..MaxEvents /\ ev[e].cursor < s /\ s <= Len(log)
  BY <1>1, <1>2, AutomationAssumption
<1>4. CASE batch = {}
  BY <1>4 DEF StartTick, batch
<1>5. CASE batch # {}
  <2>1. SetTick(e, t)
    BY <1>5 DEF StartTick, batch
  <2>2. batch \in (SUBSET (1..MaxEvents)) \ {{}}
    BY <1>3, <1>5
  <2>3. t \in Working
    BY <1>2, <2>2, RulesAreMany DEF Working
  <2>4. QED
    BY <1>3, <2>1, <2>3
<1>6. QED
  BY <1>4, <1>5

\* The steps of an evaluator inside a tick.
LEMMA TurnSet ==
  ASSUME TypeOK, NEW e \in Replica, Decide(e) \/ Act(e) \/ Touch(e)
  PROVE  /\ Busy(e)
         /\ \/ NextPair(e)
            \/ \E pc \in {"act", "touch"} :
                 /\ SetTick(e, [ev[e].tick EXCEPT !.pc = pc])
                 /\ [ev[e].tick EXCEPT !.pc = pc] \in Working
<1>1. Busy(e)
  BY DEF Decide, Act, Touch
<1>2. \A pc \in {"act", "touch"} : [ev[e].tick EXCEPT !.pc = pc] \in Working
  BY <1>1, BusyFacts DEF Working
<1>3. QED
  BY <1>1, <1>2 DEF Decide, Act, Touch

-----------------------------------------------------------------------------
(***************************************************************************)
(* Types.                                                                  *)
(***************************************************************************)

LEMMA EvaluatorsTyped ==
  TypeOK /\ [Next]_vars => ev' \in [Replica -> Evaluator]
<1> SUFFICES ASSUME TypeOK, [Next]_vars PROVE ev' \in [Replica -> Evaluator]
  OBVIOUS
<1>1. ASSUME NEW e \in Replica, StartTick(e) PROVE ev' \in [Replica -> Evaluator]
  BY <1>1, StartSet, TickSet DEF TypeOK
<1>2. ASSUME NEW e \in Replica, Decide(e) \/ Act(e) \/ Touch(e)
      PROVE  ev' \in [Replica -> Evaluator]
  BY <1>2, TurnSet, TickSet, PairSet
<1>3. ASSUME NEW e \in Replica, Restart(e) PROVE ev' \in [Replica -> Evaluator]
  BY <1>3, RestartSet
<1>4. ASSUME UNCHANGED ev PROVE ev' \in [Replica -> Evaluator]
  BY <1>4 DEF TypeOK
<1>5. QED
  BY <1>1, <1>2, <1>3, <1>4
     DEF Next, Evaluate, Emit, Commit, SetEnabled, LeaseLapses, Advance, vars

\* What a firing leaves behind.
LEMMA TouchFired ==
  ASSUME Typed, NEW e \in Replica, Touch(e)
  PROVE  /\ Busy(e) /\ ev[e].tick.pc = "touch" /\ NextPair(e) /\ UNCHANGED now
         /\ \E v \in Firing :
              /\ v.rule = ev[e].tick.r /\ v.seq = At(e) /\ v.by = <<e, ev[e].life>>
              /\ v.at = now /\ v.since = Since(e) /\ v.known = ev[e].tick.known
              /\ fired' = Append(fired, v)
              /\ IF v.touched THEN rule' = [rule EXCEPT ![v.rule].last = now]
                              ELSE rule' = rule
<1>1. Busy(e) /\ TypeOK
  BY DEF Touch, Typed
<1>2. ev[e].tick \in Working /\ At(e) \in 1..MaxEvents /\ Since(e) \in Clock /\ now \in Clock
  BY <1>1, BusyFacts, SinceType DEF TypeOK
<1>3. ev[e] \in Evaluator
  BY <1>1 DEF TypeOK
<1> DEFINE v(ok) == [rule |-> ev[e].tick.r, seq |-> At(e), by |-> <<e, ev[e].life>>,
                     at |-> now, since |-> Since(e), known |-> ev[e].tick.known,
                     touched |-> ok]
<1>4. \A ok \in BOOLEAN : v(ok) \in Firing
  BY <1>2, <1>3 DEF Firing, Working, Evaluator
<1>5. \/ fired' = Append(fired, v(TRUE)) /\ rule' = [rule EXCEPT ![ev[e].tick.r].last = now]
      \/ fired' = Append(fired, v(FALSE)) /\ rule' = rule
  BY DEF Touch, Ended
<1>6. Busy(e) /\ ev[e].tick.pc = "touch" /\ NextPair(e) /\ UNCHANGED now
  BY DEF Touch
<1>7. CASE fired' = Append(fired, v(TRUE)) /\ rule' = [rule EXCEPT ![ev[e].tick.r].last = now]
  <2>1. v(TRUE) \in Firing /\ v(TRUE).touched
    BY <1>4
  <2>2. QED
    BY <1>6, <1>7, <2>1
<1>8. CASE fired' = Append(fired, v(FALSE)) /\ rule' = rule
  <2>1. v(FALSE) \in Firing /\ ~v(FALSE).touched
    BY <1>4
  <2>2. QED
    BY <1>6, <1>8, <2>1
<1>9. QED
  BY <1>5, <1>7, <1>8

LEMMA RulesTyped ==
  ASSUME Typed, [Next]_vars
  PROVE  rule' \in [Rule -> RuleRow] /\ fired' \in Seq(Firing)
<1>1. rule \in [Rule -> RuleRow] /\ fired \in Seq(Firing) /\ now \in Clock
  BY DEF Typed, TypeOK
<1>2. \A r \in Rule : /\ [rule[r] EXCEPT !.last = now] \in RuleRow
                      /\ [rule[r] EXCEPT !.enabled = ~rule[r].enabled] \in RuleRow
  BY <1>1 DEF RuleRow
<1>3. ASSUME NEW e \in Replica, Touch(e)
      PROVE  rule' \in [Rule -> RuleRow] /\ fired' \in Seq(Firing)
  <2>1. PICK v \in Firing : /\ fired' = Append(fired, v)
                            /\ \/ rule' = [rule EXCEPT ![v.rule].last = now]
                               \/ rule' = rule
    BY <1>3, TouchFired
  <2>2. v.rule \in Rule
    BY DEF Firing
  <2>3. [rule EXCEPT ![v.rule].last = now] = [rule EXCEPT ![v.rule] = [rule[v.rule] EXCEPT !.last = now]]
    BY <1>1, <2>2
  <2>4. rule' \in [Rule -> RuleRow]
    BY <1>1, <1>2, <2>1, <2>2, <2>3
  <2>5. fired' \in Seq(Firing)
    BY <1>1, <2>1
  <2>6. QED
    BY <2>4, <2>5
<1>4. ASSUME NEW r \in Rule, SetEnabled(r)
      PROVE  rule' \in [Rule -> RuleRow] /\ fired' \in Seq(Firing)
  BY <1>1, <1>2, <1>4 DEF SetEnabled
<1>5. ASSUME UNCHANGED <<rule, fired>>
      PROVE  rule' \in [Rule -> RuleRow] /\ fired' \in Seq(Firing)
  BY <1>1, <1>5
<1>6. QED
  BY <1>3, <1>4, <1>5
     DEF Next, Evaluate, StartTick, Decide, Act, Restart, Emit, Commit, LeaseLapses,
         Advance, vars

\* What is left of a batch stays ahead of the cursor as it moves on.
LEMMA AheadNext ==
  ASSUME Typed, [Next]_vars
  PROVE  BatchesAreAhead'
<1>1. TypeOK /\ \A e \in Replica : Ahead(e)
  BY DEF Typed, BatchesAreAhead
<1>2. LogGrows /\ Len(log) \in Nat /\ Len(log') \in Nat
  BY <1>1, GrowNext DEF TypeOK, LogTyped
<1>3. ASSUME NEW f \in Replica, ev'[f] = ev[f] PROVE Ahead(f)'
  <2>1. CASE ~Busy(f)
    BY <1>3, <2>1 DEF Ahead, Busy
  <2>2. CASE Busy(f)
    <3>1. \A s \in ev[f].tick.batch : s \in Nat
      BY <1>1, <2>2, BusyFacts, AutomationAssumption DEF Working
    <3>2. QED
      BY <1>1, <1>2, <1>3, <2>2, <3>1 DEF Ahead, Busy, LogGrows
  <2>3. QED
    BY <2>1, <2>2
<1>4. ASSUME NEW e \in Replica, StartTick(e), NEW f \in Replica PROVE Ahead(f)'
  <2>1. CASE UNCHANGED ev
    BY <1>3, <2>1
  <2>2. CASE \E t \in Working : /\ SetTick(e, t)
                                /\ \A s \in t.batch : ev[e].cursor < s /\ s <= Len(log)
    <3>1. PICK t \in Working : /\ SetTick(e, t)
                               /\ \A s \in t.batch : ev[e].cursor < s /\ s <= Len(log)
      BY <2>2
    <3>2. /\ ev'[e].cursor = ev[e].cursor /\ ev'[e].tick = t
          /\ \A g \in Replica : g # e => ev'[g] = ev[g]
      BY <1>1, <3>1, TickSet
    <3>3. log' = log
      BY <1>4 DEF StartTick
    <3>4. QED
      BY <1>3, <3>1, <3>2, <3>3 DEF Ahead, Busy
  <2>3. QED
    BY <1>1, <1>4, <2>1, <2>2, StartSet
<1>5. ASSUME NEW e \in Replica, Decide(e) \/ Act(e) \/ Touch(e), NEW f \in Replica
      PROVE  Ahead(f)'
  <2>1. Busy(e) /\ ev[e].tick \in Working /\ At(e) \in ev[e].tick.batch
    BY <1>1, <1>5, TurnSet, BusyFacts
  <2>2. /\ \A s \in ev[e].tick.batch : s \in Nat /\ At(e) <= s
        /\ \A s \in ev[e].tick.batch : ev[e].cursor < s /\ s <= Len(log)
    BY <1>1, <2>1, BusyFacts, AutomationAssumption DEF Working, Ahead
  <2>3. CASE NextPair(e)
    <3>1. ev'[e] = Advanced(e) /\ \A g \in Replica : g # e => ev'[g] = ev[g]
      BY <1>1, <2>1, <2>3, PairSet
    <3>2. \/ ev'[e].cursor = ev[e].cursor /\ ev'[e].tick.batch = ev[e].tick.batch
          \/ /\ ev'[e].cursor = At(e)
             /\ ev'[e].tick # Idle => ev'[e].tick.batch = ev[e].tick.batch \ {At(e)}
      BY <1>1, <2>1, <3>1, AdvancedFacts
    <3>3. \A s \in ev[e].tick.batch \ {At(e)} : At(e) < s /\ s <= Len(log)
      BY <2>1, <2>2
    <3>4. Len(log) <= Len(log')
      BY <1>2 DEF LogGrows
    <3>5. ev'[e].tick # Idle => \A s \in ev'[e].tick.batch : ev'[e].cursor < s /\ s <= Len(log')
      BY <1>2, <2>2, <3>2, <3>3, <3>4
    <3>6. QED
      BY <1>3, <3>1, <3>5 DEF Ahead, Busy
  <2>4. CASE \E pc \in {"act", "touch"} :
               /\ SetTick(e, [ev[e].tick EXCEPT !.pc = pc])
               /\ [ev[e].tick EXCEPT !.pc = pc] \in Working
    <3>1. PICK pc \in {"act", "touch"} :
            /\ SetTick(e, [ev[e].tick EXCEPT !.pc = pc])
            /\ [ev[e].tick EXCEPT !.pc = pc] \in Working
      BY <2>4
    <3>2. /\ ev'[e].cursor = ev[e].cursor /\ ev'[e].tick = [ev[e].tick EXCEPT !.pc = pc]
          /\ \A g \in Replica : g # e => ev'[g] = ev[g]
      BY <1>1, <3>1, TickSet
    <3>3. ev'[e].tick.batch = ev[e].tick.batch
      BY <2>1, <3>2 DEF Working
    <3>4. Len(log) <= Len(log')
      BY <1>2 DEF LogGrows
    <3>5. \A s \in ev'[e].tick.batch : ev'[e].cursor < s /\ s <= Len(log')
      BY <1>2, <2>2, <3>2, <3>3, <3>4
    <3>6. QED
      BY <1>3, <3>2, <3>5 DEF Ahead, Busy
  <2>5. QED
    BY <1>1, <1>5, <2>3, <2>4, TurnSet
<1>6. ASSUME NEW e \in Replica, Restart(e), NEW f \in Replica PROVE Ahead(f)'
  BY <1>1, <1>3, <1>6, RestartSet DEF Ahead, Busy
<1>7. ASSUME UNCHANGED ev, NEW f \in Replica PROVE Ahead(f)'
  BY <1>3, <1>7
<1>8. QED
  BY <1>4, <1>5, <1>6, <1>7
     DEF Next, Evaluate, Emit, Commit, SetEnabled, LeaseLapses, Advance, vars,
         BatchesAreAhead

\* The histories of the events only grow.
LEMMA HistoryGrows ==
  ASSUME TypeOK, [Next]_vars
  PROVE  /\ seen \subseteq seen' /\ seen' \subseteq 1..MaxEvents
         /\ skipped \subseteq skipped' /\ skipped' \subseteq 1..MaxEvents
<1> DEFINE Good == /\ seen \subseteq seen' /\ seen' \subseteq 1..MaxEvents
                   /\ skipped \subseteq skipped' /\ skipped' \subseteq 1..MaxEvents
<1>1. seen \subseteq 1..MaxEvents /\ skipped \subseteq 1..MaxEvents
  BY DEF TypeOK
<1>2. ASSUME NEW e \in Replica, Decide(e) \/ Act(e) \/ Touch(e) PROVE Good
  <2>1. At(e) \in 1..MaxEvents
    BY <1>2, TurnSet, BusyFacts
  <2>2. skipped' = skipped /\ (seen' = seen \/ NextPair(e))
    BY <1>2 DEF Decide, Act, Touch
  <2>3. QED
    BY <1>1, <2>1, <2>2 DEF NextPair
<1>3. ASSUME NEW e \in Replica, Restart(e) PROVE Good
  <2>1. Visible \subseteq 1..MaxEvents
    BY AutomationAssumption DEF Visible, TypeOK
  <2>2. QED
    BY <1>1, <1>3, <2>1 DEF Restart
<1>4. ASSUME NEW s \in 1..MaxEvents, Commit(s) PROVE Good
  BY <1>1, <1>4 DEF Commit
<1>5. ASSUME UNCHANGED <<seen, skipped>> PROVE Good
  BY <1>1, <1>5
<1> HIDE DEF Good
<1>6. Good
  BY <1>2, <1>3, <1>4, <1>5
     DEF Next, Evaluate, StartTick, Emit, SetEnabled, LeaseLapses, Advance, vars
<1>7. QED
  BY <1>6 DEF Good

LEMMA TypeInit == Init => Typed
<1> SUFFICES ASSUME Init PROVE Typed
  OBVIOUS
<1>1. 0 \in Clock /\ Never \in Clock \cup {Never} /\ 0 \in 0..MaxFaults /\ 0 \in 0..MaxEvents
  BY AutomationAssumption DEF Clock
<1>2. [cursor |-> 0, life |-> 0, tick |-> Idle] \in Evaluator
  BY <1>1 DEF Evaluator
<1>3. [enabled |-> TRUE, last |-> Never] \in RuleRow
  BY DEF RuleRow
<1>4. leader \in [holder : Replica, live : BOOLEAN]
  BY DEF Init
<1>5. /\ log = <<>> /\ fired = <<>> /\ now = 0 /\ faults = 0
      /\ rule \in [Rule -> RuleRow] /\ ev \in [Replica -> Evaluator]
  BY <1>2, <1>3 DEF Init
<1>6. TypeOK
  <2>1. seen \subseteq 1..MaxEvents /\ skipped \subseteq 1..MaxEvents
    BY DEF Init
  <2>2. QED
    BY <1>1, <1>4, <1>5, <2>1, AutomationAssumption DEF TypeOK
<1>7. BatchesAreAhead
  BY DEF Init, BatchesAreAhead, Ahead, Busy
<1>8. QED
  BY <1>6, <1>7 DEF Typed

LEMMA TypeNext == Typed /\ [Next]_vars => Typed'
<1> SUFFICES ASSUME Typed, [Next]_vars PROVE Typed'
  OBVIOUS
<1>1. TypeOK
  BY DEF Typed
<1> DEFINE One == /\ now' = now \/ (now < MaxTime /\ now' = now + 1)
                  /\ faults' = faults \/ (faults < MaxFaults /\ faults' = faults + 1)
                  /\ leader' \in [holder : Replica, live : BOOLEAN]
<1>2. leader \in [holder : Replica, live : BOOLEAN]
  BY <1>1 DEF TypeOK
<1>3. ASSUME NEW e \in Replica, StartTick(e) PROVE One
  BY <1>3 DEF StartTick
<1>4. ASSUME NEW e \in Replica, Decide(e) \/ Act(e) \/ Touch(e) \/ Restart(e) PROVE One
  BY <1>2, <1>4 DEF Decide, Act, Touch, Restart, Fault
<1>5. ASSUME NEW name \in Outside, Emit(name) PROVE One
  BY <1>2, <1>5 DEF Emit, Fault
<1>6. ASSUME LeaseLapses PROVE One
  <2>1. [leader EXCEPT !.live = FALSE] \in [holder : Replica, live : BOOLEAN]
    BY <1>2
  <2>2. QED
    BY <1>6, <2>1 DEF LeaseLapses, Fault
<1>7. One
  <2>1. ASSUME NEW s \in 1..MaxEvents, Commit(s) PROVE One
    BY <1>2, <2>1 DEF Commit
  <2>2. ASSUME NEW r \in Rule, SetEnabled(r) PROVE One
    BY <1>2, <2>2 DEF SetEnabled, Fault
  <2>3. ASSUME Advance \/ UNCHANGED vars PROVE One
    BY <1>2, <2>3 DEF Advance, vars
  <2> HIDE DEF One
  <2>4. QED
    BY <1>3, <1>4, <1>5, <1>6, <2>1, <2>2, <2>3 DEF Next, Evaluate
<1>8. now' \in Clock /\ faults' \in 0..MaxFaults
  BY <1>1, <1>7, AutomationAssumption DEF TypeOK, Clock
<1>9. QED
  BY <1>1, <1>7, <1>8, GrowNext, EvaluatorsTyped, RulesTyped, AheadNext, HistoryGrows
     DEF Typed, TypeOK, LogTyped

\* TypeOK holds, and what is left of a batch lies ahead of the cursor.
THEOREM TypeCorrect == Spec => []TypeOK
<1>1. Typed => TypeOK
  BY DEF Typed
<1>2. QED
  BY <1>1, TypeInit, TypeNext, PTL DEF Spec

-----------------------------------------------------------------------------
(***************************************************************************)
(* One firing per process.                                                 *)
(***************************************************************************)

\* A firing that was behind an evaluator stays behind it, and so does one of the
\* rule and event at hand when the evaluator moves on.
LEMMA PairPasses ==
  ASSUME Typed, NEW e \in Replica, Busy(e), NextPair(e), NEW f \in Firing,
         \/ f.seq <= ev[e].cursor
         \/ f.seq = At(e) /\ f.rule <= ev[e].tick.r
  PROVE  Behind(e, f)'
<1>1. ev'[e] = Advanced(e)
  BY PairSet DEF Typed
<1>2. ev[e].tick \in Working /\ At(e) \in ev[e].tick.batch /\ At(e) \in Nat
  BY BusyFacts, AutomationAssumption DEF Typed
<1>3. ev[e].cursor < At(e) /\ ev[e].cursor \in Nat
  <2>1. ev[e] \in Evaluator
    BY DEF Typed, TypeOK
  <2>2. QED
    BY <1>2, <2>1, AutomationAssumption DEF Typed, BatchesAreAhead, Ahead, Evaluator
<1>4. f.seq \in Nat /\ f.rule \in Nat /\ ev[e].tick.r \in Nat
  <2>1. f.seq \in 1..MaxEvents /\ f.rule \in Rule /\ ev[e].tick.r \in Rule
    BY <1>2 DEF Firing, Working
  <2>2. \A r \in Rule : r \in Nat
    BY RulesAreMany
  <2>3. \A s \in 1..MaxEvents : s \in Nat
    BY AutomationAssumption
  <2>4. QED
    BY <2>1, <2>2, <2>3
<1>5. CASE /\ ev'[e].cursor = ev[e].cursor /\ ev'[e].tick # Idle
           /\ ev'[e].tick.batch = ev[e].tick.batch
           /\ ev'[e].tick.r = ev[e].tick.r + 1
  <2>1. At(e)' = At(e)
    BY <1>5 DEF At
  <2>2. f.rule <= ev[e].tick.r => f.rule < ev'[e].tick.r
    BY <1>4, <1>5
  <2>3. QED
    BY <1>5, <2>1, <2>2 DEF Behind, Busy
<1>6. CASE ev'[e].cursor = At(e)
  BY <1>2, <1>3, <1>4, <1>6 DEF Behind
<1>7. QED
  BY <1>1, <1>5, <1>6, AdvancedFacts DEF Typed

LEMMA StaysBehind ==
  ASSUME Typed, FiringsAreBehind, [Next]_vars, NEW e \in Replica, NEW i \in 1..Len(fired)
  PROVE  Behind(e, fired[i])' /\ ev[e].life <= ev'[e].life /\ ev'[e].life \in Nat
<1> DEFINE f == fired[i]
           Good == Behind(e, fired[i])' /\ ev[e].life <= ev'[e].life /\ ev'[e].life \in Nat
<1>1. /\ TypeOK /\ f \in Firing /\ Behind(e, f) /\ ev[e] \in Evaluator /\ ev[e].life \in Nat
      /\ f.by[1] = e => f.by[2] <= ev[e].life
  BY DEF Typed, TypeOK, FiringsAreBehind, Evaluator
<1>2. fired'[i] = fired[i]
  <2>1. fired' = fired \/ \E v : fired' = Append(fired, v)
    BY DEF Next, Evaluate, StartTick, Decide, Act, Touch, Ended, Restart, Emit, Commit,
           SetEnabled, LeaseLapses, Advance, vars
  <2>2. QED
    BY <1>1, <2>1 DEF TypeOK
<1>3. ASSUME ev'[e] = ev[e] PROVE Good
  BY <1>1, <1>2, <1>3 DEF Behind, Busy, At
<1>4. ASSUME NEW g \in Replica, StartTick(g) PROVE Good
  <2>1. ~Busy(g)
    BY <1>4 DEF StartTick
  <2>2. \/ UNCHANGED ev
        \/ \E t \in Working : SetTick(g, t)
    BY <1>1, <1>4, StartSet
  <2>3. CASE \E t \in Working : SetTick(g, t)
    <3>1. /\ ev'[g].cursor = ev[g].cursor /\ ev'[g].life = ev[g].life
          /\ g # e => ev'[e] = ev[e]
      BY <1>1, <2>3, TickSet
    <3>2. CASE g = e
      BY <1>1, <1>2, <2>1, <3>1, <3>2 DEF Behind
    <3>3. QED
      BY <1>3, <3>1, <3>2
  <2>4. QED
    BY <1>3, <2>2, <2>3
<1>5. ASSUME NEW g \in Replica, Decide(g) \/ Act(g) \/ Touch(g) PROVE Good
  <2>1. Busy(g) /\ ev[g].tick \in Working
    BY <1>1, <1>5, TurnSet, BusyFacts
  <2>2. CASE NextPair(g)
    <3>1. CASE g = e /\ f.by = <<e, ev[e].life>>
      <4>1. \/ f.seq <= ev[e].cursor
            \/ f.seq = At(e) /\ f.rule < ev[e].tick.r
        BY <1>1, <3>1 DEF Behind
      <4>2. f.rule \in Nat /\ ev[e].tick.r \in Nat
        BY <1>1, <2>1, <3>1, RulesAreMany DEF Firing, Working
      <4>3. \A h : h = f => Behind(e, h)'
        BY <1>1, <2>1, <2>2, <3>1, <4>1, <4>2, PairPasses
      <4>4. ev'[e].life = ev[e].life
        BY <1>1, <2>1, <2>2, <3>1, PairSet, AdvancedFacts
      <4>5. QED
        BY <1>1, <1>2, <4>3, <4>4 DEF Behind, Busy, At
    <3>2. CASE g = e /\ f.by # <<e, ev[e].life>>
      <4>1. ev'[e].life = ev[e].life
        BY <1>1, <2>1, <2>2, <3>2, PairSet, AdvancedFacts
      <4>2. QED
        BY <1>1, <1>2, <3>2, <4>1 DEF Behind
    <3>3. CASE g # e
      BY <1>1, <1>3, <2>1, <2>2, <3>3, PairSet
    <3>4. QED
      BY <3>1, <3>2, <3>3
  <2>3. CASE \E pc \in {"act", "touch"} :
               /\ SetTick(g, [ev[g].tick EXCEPT !.pc = pc])
               /\ [ev[g].tick EXCEPT !.pc = pc] \in Working
    <3>1. PICK pc \in {"act", "touch"} :
            /\ SetTick(g, [ev[g].tick EXCEPT !.pc = pc])
            /\ [ev[g].tick EXCEPT !.pc = pc] \in Working
      BY <2>3
    <3>2. /\ ev'[g].cursor = ev[g].cursor /\ ev'[g].life = ev[g].life
          /\ ev'[g].tick = [ev[g].tick EXCEPT !.pc = pc] /\ ev'[g].tick # Idle
          /\ g # e => ev'[e] = ev[e]
      BY <1>1, <3>1, TickSet
    <3>3. ev'[g].tick.batch = ev[g].tick.batch /\ ev'[g].tick.r = ev[g].tick.r
      BY <2>1, <3>2 DEF Working
    <3>4. At(g)' = At(g)
      BY <3>3 DEF At
    <3>5. CASE g = e
      <4>1. /\ ev'[e].cursor = ev[e].cursor /\ ev'[e].life = ev[e].life
            /\ ev'[e].tick # Idle /\ ev'[e].tick.r = ev[e].tick.r /\ At(e)' = At(e)
        BY <3>2, <3>3, <3>4, <3>5
      <4>2. QED
        BY <1>1, <1>2, <4>1 DEF Behind, Busy
    <3>6. QED
      BY <1>3, <3>2, <3>5
  <2>4. QED
    BY <1>1, <1>5, <2>2, <2>3, TurnSet
<1>6. ASSUME NEW g \in Replica, Restart(g) PROVE Good
  <2>1. ev'[g].life = ev[g].life + 1 /\ (g # e => ev'[e] = ev[e])
    BY <1>1, <1>6, RestartSet
  <2>2. CASE g = e
    <3>1. f.by # <<e, ev'[e].life>>
      BY <1>1, <2>1, <2>2
    <3>2. QED
      BY <1>1, <1>2, <2>1, <2>2, <3>1 DEF Behind
  <2>3. QED
    BY <1>3, <2>1, <2>2
<1>7. ASSUME UNCHANGED ev PROVE Good
  BY <1>3, <1>7
<1> HIDE DEF Good
<1>8. Good
  BY <1>4, <1>5, <1>6, <1>7
     DEF Next, Evaluate, Emit, Commit, SetEnabled, LeaseLapses, Advance, vars
<1>9. QED
  BY <1>8 DEF Good

LEMMA BehindNext ==
  Typed /\ FiringsAreBehind /\ [Next]_vars => FiringsAreBehind'
<1> SUFFICES ASSUME Typed, FiringsAreBehind, [Next]_vars,
                    NEW e \in Replica, NEW i \in 1..Len(fired')
             PROVE  /\ Behind(e, fired[i])'
                    /\ fired'[i].by[1] = e => fired'[i].by[2] <= ev'[e].life
  BY DEF FiringsAreBehind
<1>1. fired \in Seq(Firing) /\ \A j \in 1..Len(fired) : fired[j] \in Firing
  BY DEF Typed, TypeOK
<1>2. ASSUME i \in 1..Len(fired), fired'[i] = fired[i]
      PROVE  /\ Behind(e, fired[i])'
             /\ fired'[i].by[1] = e => fired'[i].by[2] <= ev'[e].life
  <2>1. Behind(e, fired[i])' /\ ev[e].life <= ev'[e].life /\ ev'[e].life \in Nat
    BY <1>2, StaysBehind
  <2>2. fired[i].by[1] = e => fired[i].by[2] <= ev[e].life
    BY <1>2 DEF FiringsAreBehind
  <2>3. fired[i].by[2] \in Nat /\ ev[e].life \in Nat
    <3>1. fired[i] \in Firing /\ ev[e] \in Evaluator
      BY <1>1, <1>2 DEF Typed, TypeOK
    <3>2. QED
      BY <3>1 DEF Firing, Evaluator
  <2>4. QED
    BY <1>2, <2>1, <2>2, <2>3
<1>3. ASSUME NEW g \in Replica, Touch(g)
      PROVE  /\ Behind(e, fired[i])'
             /\ fired'[i].by[1] = e => fired'[i].by[2] <= ev'[e].life
  <2>1. PICK v \in Firing :
          /\ v.rule = ev[g].tick.r /\ v.seq = At(g) /\ v.by = <<g, ev[g].life>>
          /\ fired' = Append(fired, v)
    BY <1>3, TouchFired
  <2>2. Busy(g) /\ NextPair(g) /\ ev[g].tick \in Working /\ TypeOK
    BY <1>3, TouchFired, BusyFacts DEF Typed
  <2>3. CASE i \in 1..Len(fired)
    BY <1>1, <1>2, <2>1, <2>3
  <2>4. CASE i \notin 1..Len(fired)
    <3>1. fired'[i] = v
      BY <1>1, <2>1, <2>4
    <3>2. CASE g = e
      <4>1. v.rule <= ev[e].tick.r
        BY <2>1, <2>2, <3>2, RulesAreMany DEF Working
      <4>2. \A h : h = v => Behind(e, h)'
        BY <2>1, <2>2, <3>2, <4>1, PairPasses
      <4>3. ev'[e].life = ev[e].life /\ ev[e].life \in Nat
        <5>1. ev[e] \in Evaluator
          BY <2>2 DEF TypeOK
        <5>2. QED
          BY <2>2, <3>2, <5>1, PairSet, AdvancedFacts DEF Evaluator
      <4>4. QED
        BY <2>1, <3>1, <3>2, <4>2, <4>3 DEF Behind, Busy, At
    <3>3. CASE g # e
      BY <2>1, <3>1, <3>3 DEF Behind
    <3>4. QED
      BY <3>2, <3>3
  <2>5. QED
    BY <2>3, <2>4
<1>4. CASE fired' = fired
  BY <1>2, <1>4
<1>5. QED
  BY <1>3, <1>4
     DEF Next, Evaluate, StartTick, Decide, Act, Restart, Emit, Commit, SetEnabled,
         LeaseLapses, Advance, vars

LEMMA OnceNext ==
  Typed /\ FiringsAreBehind /\ OncePerProcess /\ [Next]_vars => OncePerProcess'
<1> SUFFICES ASSUME Typed, FiringsAreBehind, OncePerProcess, [Next]_vars
             PROVE  OncePerProcess'
  OBVIOUS
<1>1. ASSUME NEW e \in Replica, Touch(e) PROVE OncePerProcess'
  <2>1. PICK v \in Firing :
          /\ v.rule = ev[e].tick.r /\ v.seq = At(e) /\ v.by = <<e, ev[e].life>>
          /\ fired' = Append(fired, v)
    BY <1>1, TouchFired
  <2>2. Busy(e) /\ ev[e].tick \in Working /\ At(e) \in ev[e].tick.batch /\ At(e) \in Nat
    BY <1>1, TouchFired, BusyFacts, AutomationAssumption DEF Typed
  <2>3. ev[e].cursor < At(e) /\ ev[e].cursor \in Nat
    <3>1. ev[e] \in Evaluator
      BY DEF Typed, TypeOK
    <3>2. QED
      BY <2>2, <3>1, AutomationAssumption DEF Typed, BatchesAreAhead, Ahead, Evaluator
  <2>4. fired \in Seq(Firing)
    BY DEF Typed, TypeOK
  <2>5. ASSUME NEW i \in 1..Len(fired), fired[i].rule = v.rule, fired[i].seq = v.seq,
               fired[i].by = v.by
        PROVE  FALSE
    <3>1. \/ fired[i].seq <= ev[e].cursor
          \/ fired[i].seq = At(e) /\ fired[i].rule < ev[e].tick.r
      BY <2>1, <2>5 DEF FiringsAreBehind, Behind
    <3>2. ev[e].tick.r \in Nat
      BY <2>2, RulesAreMany DEF Working
    <3>3. QED
      BY <2>1, <2>2, <2>3, <2>5, <3>1, <3>2
  <2>6. /\ Len(fired') = Len(fired) + 1 /\ Len(fired) \in Nat
        /\ fired'[Len(fired) + 1] = v
        /\ \A i \in 1..Len(fired) : fired'[i] = fired[i]
    BY <2>1, <2>4
  <2>7. QED
    BY <2>5, <2>6 DEF OncePerProcess
<1>2. CASE fired' = fired
  BY <1>2 DEF OncePerProcess
<1>3. QED
  BY <1>1, <1>2
     DEF Next, Evaluate, StartTick, Decide, Act, Restart, Emit, Commit, SetEnabled,
         LeaseLapses, Advance, vars

\* One process fires a rule for an event once: its firings lie behind it, and it
\* only moves forward.
THEOREM OncePerProcessAlways == Spec => []OncePerProcess
<1>1. Init => FiringsAreBehind /\ OncePerProcess
  BY DEF Init, FiringsAreBehind, OncePerProcess
<1>2. QED
  BY <1>1, TypeInit, TypeNext, BehindNext, OnceNext, PTL DEF Spec

-----------------------------------------------------------------------------
(***************************************************************************)
(* Debounce.                                                               *)
(***************************************************************************)

\* A firing that is added does not concern what has been known before.
LEMMA CoversEarlier ==
  ASSUME Typed, NEW v \in Firing, fired' = Append(fired, v),
         NEW r \in Rule, NEW last, NEW n \in Nat, n <= Len(fired), Covers(r, last, n)
  PROVE  \A i \in 1..Len(fired') :
           i <= n /\ fired'[i].rule = r /\ fired'[i].touched
             => last # Never /\ fired'[i].at <= last
<1>1. Len(fired) \in Nat /\ Len(fired') = Len(fired) + 1
      /\ \A i \in 1..Len(fired) : fired'[i] = fired[i]
  BY DEF Typed, TypeOK
<1>2. QED
  BY <1>1 DEF Covers

LEMMA RowsCoverNext ==
  Typed /\ RowsCover /\ [Next]_vars => RowsCover'
<1> SUFFICES ASSUME Typed, RowsCover, [Next]_vars, NEW r \in Rule
             PROVE  /\ \A i \in 1..Len(fired') :
                         fired'[i].rule = r /\ fired'[i].touched
                           => rule'[r].last # Never /\ fired'[i].at <= rule'[r].last
                    /\ rule'[r].last # Never => rule'[r].last <= now'
  BY DEF RowsCover, Covers
<1>1. /\ fired \in Seq(Firing) /\ Len(fired) \in Nat /\ now \in Clock
      /\ rule \in [Rule -> RuleRow] /\ rule[r].last \in Clock \cup {Never}
  BY DEF Typed, TypeOK, RuleRow
<1>2. /\ \A i \in 1..Len(fired) :
           fired[i].rule = r /\ fired[i].touched
             => rule[r].last # Never /\ fired[i].at <= rule[r].last
      /\ rule[r].last # Never => rule[r].last <= now
  BY <1>1 DEF RowsCover, Covers
<1>3. ASSUME NEW e \in Replica, Touch(e)
      PROVE  /\ \A i \in 1..Len(fired') :
                  fired'[i].rule = r /\ fired'[i].touched
                    => rule'[r].last # Never /\ fired'[i].at <= rule'[r].last
             /\ rule'[r].last # Never => rule'[r].last <= now'
  <2>1. PICK v \in Firing :
          /\ v.at = now /\ fired' = Append(fired, v)
          /\ IF v.touched THEN rule' = [rule EXCEPT ![v.rule].last = now] ELSE rule' = rule
    BY <1>3, TouchFired
  <2>2. now' = now /\ now \in Nat /\ now # Never
    BY <1>1, <1>3, TouchFired, NeverIsNoTime
  <2>3. /\ Len(fired') = Len(fired) + 1 /\ fired'[Len(fired) + 1] = v
        /\ \A i \in 1..Len(fired) : fired'[i] = fired[i] /\ fired[i].at \in Nat
    <3>1. \A h \in Firing : h.at \in Nat
      BY NeverIsNoTime DEF Firing
    <3>2. QED
      BY <1>1, <2>1, <3>1
  <2>4. CASE v.touched /\ v.rule = r
    <3>1. rule'[r].last = now
      BY <1>1, <2>1, <2>4 DEF RuleRow
    <3>2. \A i \in 1..Len(fired) : fired[i].rule = r /\ fired[i].touched => fired[i].at <= now
      <4>1. rule[r].last # Never => rule[r].last \in Nat
        BY <1>1, NeverIsNoTime
      <4>2. QED
        BY <1>2, <2>2, <2>3, <4>1
    <3>3. QED
      BY <1>1, <2>1, <2>2, <2>3, <3>1, <3>2
  <2>5. CASE ~(v.touched /\ v.rule = r)
    <3>1. rule'[r].last = rule[r].last
      <4>1. CASE v.touched
        <5>1. v.rule \in Rule /\ v.rule # r
          BY <2>5, <4>1 DEF Firing
        <5>2. QED
          BY <1>1, <2>1, <4>1, <5>1
      <4>2. CASE ~v.touched
        BY <2>1, <4>2
      <4>3. QED
        BY <4>1, <4>2
    <3>2. QED
      BY <1>1, <1>2, <2>2, <2>3, <2>5, <3>1
  <2>6. QED
    BY <2>4, <2>5
<1>4. ASSUME fired' = fired, rule'[r].last = rule[r].last, now <= now'
      PROVE  /\ \A i \in 1..Len(fired') :
                  fired'[i].rule = r /\ fired'[i].touched
                    => rule'[r].last # Never /\ fired'[i].at <= rule'[r].last
             /\ rule'[r].last # Never => rule'[r].last <= now'
  <2>1. now \in Nat /\ now' \in Nat /\ (rule[r].last # Never => rule[r].last \in Nat)
    BY <1>1, TypeNext, NeverIsNoTime DEF Typed, TypeOK
  <2>2. QED
    BY <1>2, <1>4, <2>1
<1>5. ASSUME NEW q \in Rule, SetEnabled(q)
      PROVE  fired' = fired /\ rule'[r].last = rule[r].last /\ now <= now'
  <2>1. rule' = [rule EXCEPT ![q] = [rule[q] EXCEPT !.enabled = ~rule[q].enabled]]
    BY <1>1, <1>5 DEF SetEnabled
  <2>2. rule'[r].last = rule[r].last
    <3>1. rule[q] \in RuleRow
      BY <1>1
    <3>2. QED
      BY <1>1, <2>1, <3>1 DEF RuleRow
  <2>3. now' = now /\ fired' = fired /\ now \in Nat
    BY <1>1, <1>5, NeverIsNoTime DEF SetEnabled
  <2>4. QED
    BY <2>2, <2>3
<1>6. ASSUME UNCHANGED <<rule, fired>>, now' = now \/ now' = now + 1
      PROVE  fired' = fired /\ rule'[r].last = rule[r].last /\ now <= now'
  BY <1>1, <1>6, NeverIsNoTime
<1>7. \/ \E e \in Replica : Touch(e)
      \/ \E q \in Rule : SetEnabled(q)
      \/ UNCHANGED <<rule, fired>> /\ (now' = now \/ now' = now + 1)
  BY DEF Next, Evaluate, StartTick, Decide, Act, Restart, Emit, Commit, LeaseLapses,
         Advance, vars
<1>8. QED
  BY <1>3, <1>4, <1>5, <1>6, <1>7

\* The history of firings grows at its end, by a firing that knows of no later one.
LEMMA FiredGrows ==
  ASSUME Typed, ListsCover, [Next]_vars
  PROVE  /\ Len(fired) <= Len(fired') /\ Len(fired) \in Nat
         /\ \A j \in 1..Len(fired') : fired'[j].known <= Len(fired)
         /\ fired' = fired \/ \E v \in Firing : fired' = Append(fired, v)
<1>1. fired \in Seq(Firing) /\ Len(fired) \in Nat
  BY DEF Typed, TypeOK
<1>2. ASSUME NEW e \in Replica, Touch(e)
      PROVE  \E v \in Firing : fired' = Append(fired, v) /\ v.known <= Len(fired)
  BY <1>2, TouchFired DEF ListsCover, Listed
<1>3. CASE fired' = fired
  BY <1>1, <1>3 DEF ListsCover
<1>4. CASE \E v \in Firing : fired' = Append(fired, v) /\ v.known <= Len(fired)
  <2>1. PICK v \in Firing : fired' = Append(fired, v) /\ v.known <= Len(fired)
    BY <1>4
  <2>2. /\ Len(fired') = Len(fired) + 1 /\ fired'[Len(fired) + 1] = v
        /\ \A j \in 1..Len(fired) : fired'[j] = fired[j]
    BY <1>1, <2>1
  <2>3. QED
    BY <1>1, <2>1, <2>2 DEF ListsCover
<1>5. QED
  BY <1>2, <1>3, <1>4
     DEF Next, Evaluate, StartTick, Decide, Act, Restart, Emit, Commit, SetEnabled,
         LeaseLapses, Advance, vars

\* A list that covers the firings it knows of does so after a step.
LEMMA StaysListed ==
  ASSUME Typed, ListsCover, [Next]_vars, NEW e \in Replica,
         Busy(e)' => /\ Busy(e)
                     /\ ev'[e].tick.rules = ev[e].tick.rules
                     /\ ev'[e].tick.known = ev[e].tick.known
  PROVE  Listed(e)'
<1>1. SUFFICES ASSUME Busy(e)'
               PROVE  /\ ev'[e].tick.known <= Len(fired')
                      /\ \A r \in Rule : Covers(r, ev[e].tick.rules[r].last, ev[e].tick.known)'
  BY DEF Listed
<1>2. /\ Busy(e) /\ ev'[e].tick.rules = ev[e].tick.rules
      /\ ev'[e].tick.known = ev[e].tick.known /\ ev[e].tick.known \in Nat
      /\ Listed(e)
  BY <1>1, BusyFacts DEF Typed, Working, ListsCover
<1>3. /\ Len(fired) <= Len(fired') /\ Len(fired) \in Nat
      /\ fired' = fired \/ \E v \in Firing : fired' = Append(fired, v)
  BY FiredGrows
<1>4. Len(fired') \in Nat
  BY TypeNext DEF Typed, TypeOK
<1>5. ASSUME NEW r \in Rule
      PROVE  \A i \in 1..Len(fired') :
               i <= ev[e].tick.known /\ fired'[i].rule = r /\ fired'[i].touched
                 => /\ ev[e].tick.rules[r].last # Never
                    /\ fired'[i].at <= ev[e].tick.rules[r].last
  BY <1>2, <1>3, CoversEarlier DEF Listed, Covers
<1>6. QED
  BY <1>2, <1>3, <1>4, <1>5 DEF Listed, Covers

LEMMA ListsCoverNext ==
  Typed /\ RowsCover /\ ListsCover /\ [Next]_vars => ListsCover'
<1> SUFFICES ASSUME Typed, RowsCover, ListsCover, [Next]_vars PROVE ListsCover'
  OBVIOUS
<1>1. TypeOK /\ Len(fired') \in Nat
  BY TypeNext DEF Typed, TypeOK
<1>2. ASSUME NEW e \in Replica, ev'[e] = ev[e] PROVE Listed(e)'
  BY <1>2, StaysListed DEF Busy
<1>3. ASSUME NEW e \in Replica, StartTick(e), NEW f \in Replica PROVE Listed(f)'
  <2>1. CASE UNCHANGED ev
    BY <1>2, <2>1
  <2>2. CASE \E t \in Working : SetTick(e, t) /\ t.rules = rule /\ t.known = Len(fired)
    <3>1. PICK t \in Working : SetTick(e, t) /\ t.rules = rule /\ t.known = Len(fired)
      BY <2>2
    <3>2. ev'[e].tick = t /\ \A g \in Replica : g # e => ev'[g] = ev[g]
      BY <1>1, <3>1, TickSet
    <3>3. fired' = fired /\ Len(fired) \in Nat
      BY <1>1, <1>3 DEF StartTick
    <3>4. CASE f = e
      BY <3>1, <3>2, <3>3, <3>4 DEF Listed, RowsCover, Covers
    <3>5. QED
      BY <1>2, <3>2, <3>4
  <2>3. QED
    BY <1>1, <1>3, <2>1, <2>2, StartSet
<1>4. ASSUME NEW e \in Replica, Decide(e) \/ Act(e) \/ Touch(e), NEW f \in Replica
      PROVE  Listed(f)'
  <2>1. Busy(e) /\ ev[e].tick \in Working
    BY <1>1, <1>4, TurnSet, BusyFacts
  <2>2. CASE NextPair(e)
    <3>1. ev'[e] = Advanced(e) /\ \A g \in Replica : g # e => ev'[g] = ev[g]
      BY <1>1, <2>1, <2>2, PairSet
    <3>2. ev'[e].tick # Idle => /\ ev'[e].tick.rules = ev[e].tick.rules
                                /\ ev'[e].tick.known = ev[e].tick.known
      BY <1>1, <2>1, <3>1, AdvancedFacts
    <3>3. CASE f = e
      BY <2>1, <3>2, <3>3, StaysListed DEF Busy
    <3>4. QED
      BY <1>2, <3>1, <3>3
  <2>3. CASE \E pc \in {"act", "touch"} :
               /\ SetTick(e, [ev[e].tick EXCEPT !.pc = pc])
               /\ [ev[e].tick EXCEPT !.pc = pc] \in Working
    <3>1. PICK pc \in {"act", "touch"} :
            /\ SetTick(e, [ev[e].tick EXCEPT !.pc = pc])
            /\ [ev[e].tick EXCEPT !.pc = pc] \in Working
      BY <2>3
    <3>2. /\ ev'[e].tick = [ev[e].tick EXCEPT !.pc = pc]
          /\ \A g \in Replica : g # e => ev'[g] = ev[g]
      BY <1>1, <3>1, TickSet
    <3>3. /\ ev'[e].tick.rules = ev[e].tick.rules
          /\ ev'[e].tick.known = ev[e].tick.known
      BY <2>1, <3>2 DEF Working
    <3>4. CASE f = e
      BY <2>1, <3>3, <3>4, StaysListed
    <3>5. QED
      BY <1>2, <3>2, <3>4
  <2>4. QED
    BY <1>1, <1>4, <2>2, <2>3, TurnSet
<1>5. ASSUME NEW e \in Replica, Restart(e), NEW f \in Replica PROVE Listed(f)'
  BY <1>1, <1>2, <1>5, RestartSet DEF Listed, Busy
<1>6. ASSUME UNCHANGED ev, NEW f \in Replica PROVE Listed(f)'
  BY <1>2, <1>6
<1>7. \A f \in Replica : Listed(f)'
  BY <1>3, <1>4, <1>5, <1>6
     DEF Next, Evaluate, Emit, Commit, SetEnabled, LeaseLapses, Advance, vars
<1>8. \A j \in 1..Len(fired') : fired'[j].known <= Len(fired')
  <2>1. /\ Len(fired) <= Len(fired') /\ Len(fired) \in Nat
        /\ \A j \in 1..Len(fired') : fired'[j].known <= Len(fired)
    BY FiredGrows
  <2>2. \A j \in 1..Len(fired') : fired'[j].known \in Nat
    <3>1. fired' \in Seq(Firing)
      BY TypeNext DEF Typed, TypeOK
    <3>2. \A j \in 1..Len(fired') : fired'[j] \in Firing
      BY <3>1
    <3>3. QED
      BY <3>2 DEF Firing
  <2>3. QED
    BY <1>1, <2>1, <2>2
<1>9. QED
  BY <1>7, <1>8 DEF ListsCover

\* The window of the event at hand starts where it did: the event is in the log.
LEMMA SinceStays ==
  ASSUME Typed, [Next]_vars, NEW e \in Replica, Busy(e),
         ev'[e].tick.batch = ev[e].tick.batch, ev'[e].tick.r = ev[e].tick.r
  PROVE  Since(e)' = Since(e) /\ RuleAt(e)' = RuleAt(e)
<1>1. At(e)' = At(e) /\ RuleAt(e)' = RuleAt(e)
  BY DEF At, RuleAt
<1>2. At(e) \in 1..Len(log)
  <2>1. At(e) \in 1..MaxEvents /\ At(e) \in ev[e].tick.batch /\ Len(log) \in Nat
    BY BusyFacts DEF Typed, TypeOK
  <2>2. At(e) <= Len(log)
    BY <2>1 DEF Typed, BatchesAreAhead, Ahead
  <2>3. QED
    BY <2>1, <2>2, AutomationAssumption
<1>3. log'[At(e)].at = log[At(e)].at
  BY <1>2, GrowNext DEF Typed, LogGrows
<1>4. EventAt(e)'.at = EventAt(e).at
  BY <1>1, <1>3 DEF EventAt
<1>5. QED
  BY <1>1, <1>4 DEF Since

LEMMA CalmNext ==
  Typed /\ FirersAreCalm /\ [Next]_vars => FirersAreCalm'
<1> SUFFICES ASSUME Typed, FirersAreCalm, [Next]_vars PROVE FirersAreCalm'
  OBVIOUS
<1>1. TypeOK /\ \A e \in Replica : Calm(e)
  BY DEF Typed, FirersAreCalm
<1>2. ASSUME NEW e \in Replica, ev'[e] = ev[e] PROVE Calm(e)'
  <2>1. CASE Busy(e)
    BY <1>1, <1>2, <2>1, SinceStays DEF Calm, Busy
  <2>2. CASE ~Busy(e)
    BY <1>2, <2>2 DEF Calm, Busy
  <2>3. QED
    BY <2>1, <2>2
<1>3. ASSUME NEW e \in Replica, StartTick(e), NEW f \in Replica PROVE Calm(f)'
  <2>1. \/ UNCHANGED ev
        \/ \E t \in Working : SetTick(e, t) /\ t.pc = "decide"
    BY <1>1, <1>3, StartSet
  <2>2. UNCHANGED ev
        \/ (ev'[e].tick.pc = "decide" /\ \A g \in Replica : g # e => ev'[g] = ev[g])
    BY <1>1, <2>1, TickSet
  <2>3. QED
    BY <1>2, <2>2 DEF Calm
<1>4. ASSUME NEW e \in Replica, Busy(e), NextPair(e), NEW f \in Replica PROVE Calm(f)'
  <2>1. ev'[e] = Advanced(e) /\ \A g \in Replica : g # e => ev'[g] = ev[g]
    BY <1>1, <1>4, PairSet
  <2>2. ev'[e].tick # Idle => ev'[e].tick.pc = "decide"
    BY <1>1, <1>4, <2>1, AdvancedFacts
  <2>3. QED
    BY <1>2, <2>1, <2>2 DEF Calm, Busy
<1>5. ASSUME NEW e \in Replica, NEW pc \in {"act", "touch"}, Busy(e),
             SetTick(e, [ev[e].tick EXCEPT !.pc = pc]),
             [ev[e].tick EXCEPT !.pc = pc] \in Working,
             RuleAt(e).threshold > 1 =>
               LET last == ev[e].tick.rules[ev[e].tick.r].last
               IN last = Never \/ last <= Since(e),
             NEW f \in Replica
      PROVE  Calm(f)'
  <2>1. /\ ev'[e].tick = [ev[e].tick EXCEPT !.pc = pc]
        /\ \A g \in Replica : g # e => ev'[g] = ev[g]
    BY <1>1, <1>5, TickSet
  <2>2. /\ ev'[e].tick.batch = ev[e].tick.batch /\ ev'[e].tick.r = ev[e].tick.r
        /\ ev'[e].tick.rules = ev[e].tick.rules
    BY <1>1, <1>5, <2>1, BusyFacts DEF Working
  <2>3. Since(e)' = Since(e) /\ RuleAt(e)' = RuleAt(e)
    BY <1>5, <2>2, SinceStays
  <2>4. CASE f = e
    BY <1>5, <2>2, <2>3, <2>4 DEF Calm
  <2>5. QED
    BY <1>2, <2>1, <2>4
<1>6. ASSUME NEW e \in Replica, Decide(e), NEW f \in Replica PROVE Calm(f)'
  <2>1. Busy(e)
    BY <1>6 DEF Decide
  <2>2. [ev[e].tick EXCEPT !.pc = "act"] \in Working
    BY <1>1, <2>1, BusyFacts DEF Working
  <2>3. CASE DuePair(e)
    <3>1. SetTick(e, [ev[e].tick EXCEPT !.pc = "act"])
      BY <1>6, <2>3 DEF Decide
    <3>2. RuleAt(e).threshold > 1 =>
            LET last == ev[e].tick.rules[ev[e].tick.r].last
            IN last = Never \/ last <= Since(e)
      BY <2>3 DEF DuePair
    <3>3. QED
      BY <1>5, <2>1, <2>2, <3>1, <3>2
  <2>4. CASE ~DuePair(e)
    BY <1>4, <1>6, <2>1, <2>4 DEF Decide
  <2>5. QED
    BY <2>3, <2>4
<1>7. ASSUME NEW e \in Replica, Act(e), NEW f \in Replica PROVE Calm(f)'
  <2>1. Busy(e) /\ ev[e].tick.pc = "act"
    BY <1>7 DEF Act
  <2>2. [ev[e].tick EXCEPT !.pc = "touch"] \in Working
    BY <1>1, <2>1, BusyFacts DEF Working
  <2>3. RuleAt(e).threshold > 1 =>
          LET last == ev[e].tick.rules[ev[e].tick.r].last
          IN last = Never \/ last <= Since(e)
    BY <1>1, <2>1 DEF Calm
  <2>4. NextPair(e) \/ SetTick(e, [ev[e].tick EXCEPT !.pc = "touch"])
    BY <1>7 DEF Act
  <2>5. QED
    BY <1>4, <1>5, <2>1, <2>2, <2>3, <2>4
<1>8. ASSUME NEW e \in Replica, Touch(e), NEW f \in Replica PROVE Calm(f)'
  BY <1>4, <1>8 DEF Touch
<1>9. ASSUME NEW e \in Replica, Restart(e), NEW f \in Replica PROVE Calm(f)'
  BY <1>1, <1>2, <1>9, RestartSet DEF Calm, Busy
<1>10. ASSUME UNCHANGED ev, NEW f \in Replica PROVE Calm(f)'
  BY <1>2, <1>10
<1>11. QED
  BY <1>3, <1>6, <1>7, <1>8, <1>9, <1>10
     DEF Next, Evaluate, Emit, Commit, SetEnabled, LeaseLapses, Advance, vars,
         FirersAreCalm

LEMMA DebouncedNext ==
  Typed /\ ListsCover /\ FirersAreCalm /\ Debounced /\ [Next]_vars => Debounced'
<1> SUFFICES ASSUME Typed, ListsCover, FirersAreCalm, Debounced, [Next]_vars
             PROVE  Debounced'
  OBVIOUS
<1>1. fired \in Seq(Firing) /\ Len(fired) \in Nat
  BY DEF Typed, TypeOK
<1>2. ASSUME NEW e \in Replica, Touch(e) PROVE Debounced'
  <2>1. PICK v \in Firing :
          /\ v.rule = ev[e].tick.r /\ v.since = Since(e) /\ v.known = ev[e].tick.known
          /\ fired' = Append(fired, v)
    BY <1>2, TouchFired
  <2>2. /\ Busy(e) /\ ev[e].tick.pc = "touch" /\ ev[e].tick \in Working
        /\ Listed(e) /\ Calm(e)
    BY <1>2, TouchFired, BusyFacts DEF Typed, ListsCover, FirersAreCalm
  <2>3. ASSUME NEW i \in 1..Len(fired), fired[i].rule = v.rule, Def[v.rule].threshold > 1,
               i <= v.known, fired[i].touched
        PROVE  fired[i].at <= v.since
    <3> DEFINE last == ev[e].tick.rules[v.rule].last
    <3>1. v.rule \in Rule /\ last \in Clock \cup {Never}
      <4>1. v.rule \in Rule /\ ev[e].tick.rules \in [Rule -> RuleRow]
        BY <2>1, <2>2 DEF Working
      <4>2. ev[e].tick.rules[v.rule] \in RuleRow
        BY <4>1
      <4>3. QED
        BY <4>1, <4>2 DEF RuleRow
    <3>2. last # Never /\ fired[i].at <= last
      BY <2>1, <2>2, <2>3, <3>1 DEF Listed, Covers
    <3>3. last = Never \/ last <= Since(e)
      BY <2>1, <2>2, <2>3 DEF Calm, RuleAt
    <3>4. last \in Nat /\ fired[i].at \in Nat /\ Since(e) \in Nat
      <4>1. fired[i] \in Firing
        BY <1>1
      <4>2. fired[i].at \in Clock /\ Since(e) \in Clock
        BY <2>2, <4>1, SinceType DEF Firing
      <4>3. QED
        BY <3>1, <3>2, <4>2, NeverIsNoTime
    <3> HIDE DEF last
    <3>5. QED
      BY <2>1, <3>2, <3>3, <3>4
  <2>4. /\ Len(fired') = Len(fired) + 1 /\ fired'[Len(fired) + 1] = v
        /\ \A i \in 1..Len(fired) : fired'[i] = fired[i]
    BY <1>1, <2>1
  <2>5. \A j \in 1..Len(fired') : fired'[j].known <= Len(fired)
    BY FiredGrows
  <2>6. \A j \in 1..Len(fired') : fired'[j].known \in Nat
    <3>1. \A h \in Firing : h.known \in Nat
      BY DEF Firing
    <3>2. fired' \in Seq(Firing)
      BY TypeNext DEF Typed, TypeOK
    <3>3. \A j \in 1..Len(fired') : fired'[j] \in Firing
      BY <3>2
    <3>4. QED
      BY <3>1, <3>3
  <2>7. SUFFICES ASSUME NEW i \in 1..Len(fired'), NEW j \in 1..Len(fired'),
                        fired'[i].rule = fired'[j].rule, Def[fired'[i].rule].threshold > 1,
                        i <= fired'[j].known, fired'[i].touched
                 PROVE  fired'[i].at <= fired'[j].since
    BY DEF Debounced
  <2>8. i \in 1..Len(fired)
    BY <1>1, <2>4, <2>5, <2>6, <2>7
  <2>9. CASE j \in 1..Len(fired)
    BY <2>4, <2>7, <2>8, <2>9 DEF Debounced
  <2>10. CASE j = Len(fired) + 1
    BY <2>3, <2>4, <2>7, <2>8, <2>10
  <2>11. QED
    BY <1>1, <2>4, <2>7, <2>9, <2>10
<1>3. CASE fired' = fired
  BY <1>3 DEF Debounced
<1>4. QED
  BY <1>2, <1>3
     DEF Next, Evaluate, StartTick, Decide, Act, Restart, Emit, Commit, SetEnabled,
         LeaseLapses, Advance, vars

\* A rule with a threshold does not fire for a window it has fired in by an
\* earlier batch, whoever led then: the row tells whoever lists it.
THEOREM DebouncedAlways == Spec => []Debounced
<1>1. Init => RowsCover
  BY DEF Init, RowsCover, Covers
<1>2. Init => ListsCover /\ FirersAreCalm /\ Debounced
  BY DEF Init, ListsCover, Listed, FirersAreCalm, Calm, Busy, Debounced
<1>3. QED
  BY <1>1, <1>2, TypeInit, TypeNext, RowsCoverNext, ListsCoverNext, CalmNext,
     DebouncedNext, PTL DEF Spec

-----------------------------------------------------------------------------
(***************************************************************************)
(* What is passed over.                                                    *)
(***************************************************************************)

\* Only a commit makes an event visible that is not new.
LEMMA BecomesVisible ==
  ASSUME TypeOK, [Next]_vars, NEW s \in Visible'
  PROVE  s \in Nat /\ (s \in Visible \/ s > Len(log) \/ Commit(s))
<1>1. s \in 1..Len(log') /\ log'[s].committed /\ Len(log') \in Nat /\ Len(log) \in Nat
  BY GrowNext DEF Visible, TypeOK, LogTyped
<1>2. ASSUME NEW v \in Event, log' = Append(log, v) \/ log' = log
      PROVE  s \in Visible \/ s > Len(log)
  BY <1>1, <1>2 DEF Visible, TypeOK
<1>3. ASSUME NEW name \in Name, log' = Append1(log, name) PROVE s \in Visible \/ s > Len(log)
  <2>1. [name |-> name, at |-> now, committed |-> TRUE] \in Event
    BY DEF TypeOK, Event
  <2>2. QED
    BY <1>2, <1>3, <2>1 DEF Append1
<1>4. ASSUME log' = log PROVE s \in Visible
  BY <1>1, <1>4 DEF Visible
<1>5. ASSUME NEW e \in Replica, Act(e) \/ Touch(e) PROVE s \in Visible \/ s > Len(log)
  <2>1. \A n \in {"flow-run.SCHEDULED", "flow-run.CANCELLED", "automation.fired"} : n \in Name
    BY DEF Name
  <2>2. QED
    BY <1>3, <1>4, <1>5, <2>1 DEF Act, Touch
<1>6. ASSUME NEW name \in Outside, Emit(name) PROVE s \in Visible \/ s > Len(log)
  <2>1. [name |-> name, at |-> now, committed |-> FALSE] \in Event /\ name \in Name
    BY DEF TypeOK, Event, Name
  <2>2. QED
    BY <1>2, <1>3, <1>6, <2>1 DEF Emit
<1>7. ASSUME NEW z \in 1..MaxEvents, Commit(z) PROVE s \in Visible \/ Commit(s)
  <2>1. \A x \in 1..Len(log) : x # z => log'[x] = log[x]
    BY <1>7 DEF Commit, TypeOK
  <2>2. Len(log') = Len(log)
    BY <1>7 DEF Commit, TypeOK
  <2>3. CASE s = z
    BY <1>7, <2>3
  <2>4. CASE s # z
    BY <1>1, <2>1, <2>2, <2>4 DEF Visible
  <2>5. QED
    BY <2>3, <2>4
<1>8. s \in Nat
  BY <1>1
<1>9. QED
  BY <1>4, <1>5, <1>6, <1>7, <1>8
     DEF Next, Evaluate, StartTick, Decide, Restart, SetEnabled, LeaseLapses, Advance, vars

\* The numbers an evaluator works with.
LEMMA EvaluatorFacts ==
  ASSUME Typed, WithinLog, NEW e \in Replica
  PROVE  /\ ev[e].cursor \in Nat /\ ev[e].cursor <= Len(log) /\ Len(log) \in Nat
         /\ Busy(e) => \A t \in ev[e].tick.batch : t \in Nat /\ ev[e].cursor < t /\ t <= Len(log)
<1>1. ev[e] \in Evaluator /\ Len(log) \in Nat
  BY DEF Typed, TypeOK
<1>2. Busy(e) => \A t \in ev[e].tick.batch : t \in Nat
  BY BusyFacts, AutomationAssumption DEF Typed, Working
<1>3. QED
  BY <1>1, <1>2, AutomationAssumption
     DEF Evaluator, Typed, BatchesAreAhead, Ahead, WithinLog

\* An evaluator that does not move: what becomes visible behind it is skipped.
LEMMA StandingAccounted ==
  ASSUME Typed, PassedIsAccounted, [Next]_vars, NEW e \in Replica, NEW s \in Visible',
         Passed(e, s)
  PROVE  s \in seen' \cup skipped' \/ (Busy(e) /\ s \in ev[e].tick.batch)
<1>1. s \in Nat /\ (s \in Visible \/ s > Len(log) \/ Commit(s))
  BY BecomesVisible DEF Typed
<1>2. ~(s > Len(log))
  BY <1>1, EvaluatorFacts DEF Passed, PassedIsAccounted
<1>3. CASE s \in Visible
  BY <1>3, HistoryGrows DEF Typed, PassedIsAccounted, Accounted
<1>4. CASE Commit(s)
  BY <1>4 DEF Commit
<1>5. QED
  BY <1>1, <1>2, <1>3, <1>4

\* Between two events of a list nothing is left out.
LEMMA ListIsDense ==
  ASSUME TypeOK, NEW c \in Nat, NEW t \in ListEventsAfter(c), NEW s \in Visible, c < s, s < t
  PROVE  s \in ListEventsAfter(c)
<1> DEFINE after == {x \in Visible : x > c}
           S == {x \in after : x <= s}
           T == {x \in after : x <= t}
<1>1. Visible \subseteq Nat /\ IsFiniteSet(Visible)
  <2>1. Len(log) \in Nat /\ Visible \in SUBSET (1..Len(log))
    BY DEF TypeOK, Visible
  <2>2. IsFiniteSet(1..Len(log))
    BY <2>1, FS_Interval
  <2>3. IsFiniteSet(Visible)
    BY <2>1, <2>2, FS_Subset
  <2>4. QED
    BY <2>1, <2>3
<1>2. t \in Nat /\ Cardinality(T) <= BatchSize /\ t \in Visible
  BY <1>1 DEF ListEventsAfter
<1>3. S \subseteq T /\ T \subseteq Visible
  <2>1. \A x \in after : x \in Nat /\ x \in Visible
    BY <1>1
  <2>2. s \in Nat
    BY <1>1
  <2> HIDE DEF after
  <2>3. QED
    BY <1>2, <2>1, <2>2
<1>4. IsFiniteSet(T) /\ Cardinality(T) \in Nat /\ Cardinality(S) \in Nat
      /\ Cardinality(S) <= Cardinality(T)
  <2> HIDE DEF S, T
  <2>1. QED
    BY <1>1, <1>3, FS_Subset, FS_CardinalityType
<1>5. Cardinality(S) <= BatchSize
  <2> HIDE DEF S, T
  <2>1. QED
    BY <1>2, <1>4, AutomationAssumption
<1>6. QED
  BY <1>5 DEF ListEventsAfter

\* The step of the evaluator that moves.
LEMMA StartAccounted ==
  ASSUME Typed, Typed', PassedIsAccounted, [Next]_vars, NEW e \in Replica, StartTick(e)
  PROVE  Accounted(e)' /\ ev'[e].cursor = ev[e].cursor /\ UNCHANGED log
<1> DEFINE B == ListEventsAfter(ev[e].cursor)
<1>1. ev[e].cursor \in Nat /\ ~Busy(e) /\ UNCHANGED log
  BY EvaluatorFacts DEF PassedIsAccounted, StartTick
<1>2. CASE UNCHANGED ev
  BY <1>1, <1>2, StandingAccounted DEF Accounted, Passed, Busy
<1>3. CASE B # {} /\ SetTick(e, [pc |-> "decide", batch |-> B, rules |-> rule, r |-> 1,
                                known |-> Len(fired)])
  <2>1. ev'[e].cursor = ev[e].cursor /\ ev'[e].tick.batch = B /\ Busy(e)'
    BY <1>3 DEF SetTick, Typed, TypeOK, Evaluator, Busy, Idle
  <2>2. ASSUME NEW s \in Visible', Passed(e, s)', s \notin B
        PROVE  s \in seen' \cup skipped'
    <3>1. s \in Visible /\ s \in Nat
      BY <1>1, BecomesVisible DEF Visible, Typed
    <3>2. s <= ev'[e].cursor \/ \E t \in B : s < t
      BY <2>1, <2>2 DEF Passed
    <3>3. s <= ev[e].cursor
      BY <1>1, <2>1, <2>2, <3>1, <3>2, ListIsDense DEF Typed
    <3>4. QED
      BY <1>1, <3>3, StandingAccounted DEF Passed
  <2>3. Accounted(e)'
    BY <2>1, <2>2 DEF Accounted
  <2>4. QED
    BY <1>1, <2>1, <2>3
<1>4. QED
  BY <1>1, <1>2, <1>3 DEF StartTick, Typed, TypeOK, SetTick

LEMMA PairAccounted ==
  ASSUME Typed, PassedIsAccounted, [Next]_vars, NEW e \in Replica, Busy(e), NextPair(e)
  PROVE  Accounted(e)' /\ ev'[e].cursor <= Len(log)
<1> DEFINE B == ev[e].tick.batch
<1>1. ev'[e] = Advanced(e) /\ ev[e].tick \in Working
  BY PairSet, BusyFacts DEF Typed
<1>2. At(e) \in B /\ \A t \in B : t \in Nat /\ At(e) <= t /\ t <= Len(log)
  BY BusyFacts, EvaluatorFacts DEF Typed, PassedIsAccounted
<1>3. ev[e].cursor \in Nat /\ ev[e].cursor <= Len(log) /\ Len(log) \in Nat
  BY EvaluatorFacts DEF PassedIsAccounted
<1>4. CASE ev[e].tick.r < Len(Def)
  <2>1. ev'[e].cursor = ev[e].cursor /\ Busy(e)' /\ ev'[e].tick.batch = B
    BY <1>1, <1>4, AdvancedFacts DEF Typed, Busy
  <2>2. \A s \in Visible' : Passed(e, s)' => Passed(e, s)
    BY <2>1 DEF Passed
  <2>3. QED
    BY <1>3, <2>1, <2>2, StandingAccounted DEF Accounted
<1>5. CASE ~(ev[e].tick.r < Len(Def))
  <2>1. /\ ev'[e].cursor = At(e) /\ At(e) \in seen'
        /\ \/ B = {At(e)} /\ ~Busy(e)'
           \/ Busy(e)' /\ ev'[e].tick.batch = B \ {At(e)}
    <3>1. ev[e].tick.r = Len(Def)
      BY <1>1, <1>5, RulesAreMany DEF Working
    <3>2. At(e) \in seen'
      BY <3>1 DEF NextPair
    <3>3. QED
      BY <1>1, <1>5, <3>2, AdvancedFacts DEF Typed, Busy
  <2>2. ASSUME NEW s \in Visible', Passed(e, s)', s # At(e)
        PROVE  s \in seen' \cup skipped' \/ (Busy(e)' /\ s \in ev'[e].tick.batch)
    <3>1. s \in Nat
      BY BecomesVisible DEF Typed
    <3>2. \E t \in B : s < t
      BY <1>2, <2>1, <2>2, <3>1 DEF Passed
    <3>3. s \in seen' \cup skipped' \/ s \in B
      BY <3>2, StandingAccounted DEF Passed
    <3>4. QED
      BY <2>1, <2>2, <3>3
  <2>3. QED
    BY <1>2, <2>1, <2>2 DEF Accounted
<1>6. QED
  BY <1>4, <1>5

LEMMA AccountedNext ==
  Typed /\ PassedIsAccounted /\ [Next]_vars => PassedIsAccounted'
<1> SUFFICES ASSUME Typed, PassedIsAccounted, [Next]_vars PROVE PassedIsAccounted'
  OBVIOUS
<1>1. Typed' /\ TypeOK
  BY TypeNext DEF Typed
<1>2. Len(log) \in Nat /\ Len(log') \in Nat /\ Len(log) <= Len(log')
  BY <1>1, GrowNext DEF TypeOK, LogTyped, LogGrows
<1> DEFINE Good(f) == Accounted(f)' /\ ev'[f].cursor <= Len(log)
<1>3. ASSUME NEW f \in Replica, ev'[f] = ev[f] PROVE Good(f)
  <2>1. \A s \in Visible' : Passed(f, s)' => Passed(f, s)
    BY <1>3 DEF Passed, Busy
  <2>2. Busy(f)' = Busy(f)
    BY <1>3 DEF Busy
  <2>3. ev[f].cursor <= Len(log)
    BY EvaluatorFacts DEF PassedIsAccounted
  <2>4. QED
    BY <1>3, <2>1, <2>2, <2>3, StandingAccounted DEF Accounted
<1>4. ASSUME NEW e \in Replica, StartTick(e), NEW f \in Replica PROVE Good(f)
  <2>1. f # e => ev'[f] = ev[f]
    BY <1>1, <1>4, StartSet, TickSet
  <2>2. Good(e)
    BY <1>1, <1>4, StartAccounted, EvaluatorFacts DEF PassedIsAccounted
  <2> HIDE DEF Good
  <2>3. QED
    BY <1>3, <2>1, <2>2
<1>5. ASSUME NEW e \in Replica, Decide(e) \/ Act(e) \/ Touch(e), NEW f \in Replica PROVE Good(f)
  <2>1. Busy(e)
    BY <1>1, <1>5, TurnSet
  <2>2. CASE NextPair(e)
    <3>1. Good(e) /\ (f # e => ev'[f] = ev[f])
      BY <1>1, <2>1, <2>2, PairAccounted, PairSet
    <3> HIDE DEF Good
    <3>2. QED
      BY <1>3, <3>1
  <2>3. CASE \E pc \in {"act", "touch"} :
               /\ SetTick(e, [ev[e].tick EXCEPT !.pc = pc])
               /\ [ev[e].tick EXCEPT !.pc = pc] \in Working
    <3>1. PICK pc \in {"act", "touch"} :
            /\ SetTick(e, [ev[e].tick EXCEPT !.pc = pc])
            /\ [ev[e].tick EXCEPT !.pc = pc] \in Working
      BY <2>3
    <3>2. /\ ev'[e].cursor = ev[e].cursor /\ ev'[e].tick = [ev[e].tick EXCEPT !.pc = pc]
          /\ ev'[e].tick # Idle /\ \A g \in Replica : g # e => ev'[g] = ev[g]
      BY <1>1, <3>1, TickSet
    <3>3. ev[e].tick \in Working
      BY <1>1, <2>1, BusyFacts
    <3>4. ev'[e].tick.batch = ev[e].tick.batch /\ Busy(e)'
      BY <3>2, <3>3 DEF Working, Busy
    <3>5. Good(e)
      <4>1. \A s \in Visible' : Passed(e, s)' => Passed(e, s)
        BY <2>1, <3>2, <3>4 DEF Passed
      <4>2. ev[e].cursor <= Len(log)
        BY EvaluatorFacts DEF PassedIsAccounted
      <4>3. QED
        BY <3>2, <3>4, <4>1, <4>2, StandingAccounted DEF Accounted
    <3> HIDE DEF Good
    <3>6. QED
      BY <1>3, <3>2, <3>5
  <2>4. QED
    BY <1>1, <1>5, <2>2, <2>3, TurnSet
<1>6. ASSUME NEW e \in Replica, Restart(e), NEW f \in Replica PROVE Good(f)
  <2>1. /\ ev'[e].tick = Idle /\ ev'[e].cursor <= Len(log)
        /\ \A s \in Visible : s <= ev'[e].cursor => s \in seen \cup skipped'
        /\ f # e => ev'[f] = ev[f]
    BY <1>1, <1>6, RestartSet
  <2>2. Visible' = Visible /\ seen' = seen
    BY <1>6 DEF Restart, Visible
  <2>3. Good(e)
    BY <2>1, <2>2 DEF Accounted, Passed, Busy
  <2> HIDE DEF Good
  <2>4. QED
    BY <1>3, <2>1, <2>3
<1>7. ASSUME UNCHANGED ev, NEW f \in Replica PROVE Good(f)
  BY <1>3, <1>7
<1> HIDE DEF Good
<1>8. \A f \in Replica : Good(f)
  BY <1>4, <1>5, <1>6, <1>7
     DEF Next, Evaluate, Emit, Commit, SetEnabled, LeaseLapses, Advance, vars
<1>9. \A f \in Replica : ev'[f].cursor \in Nat
  BY <1>1 DEF Typed, TypeOK, Evaluator
<1>10. QED
  BY <1>2, <1>8, <1>9 DEF Good, PassedIsAccounted, WithinLog

(* Whatever fails, restarts, takes over or commits late: an event behind a     *)
(* cursor has been evaluated, has committed behind one, or waited when an      *)
(* evaluator started.                                                          *)
THEOREM NothingElseIsSkippedAlways == Spec => []NothingElseIsSkipped
<1>1. Init => PassedIsAccounted
  <2>1. Init => log = <<>> /\ \A e \in Replica : ev[e].cursor = 0
    BY DEF Init
  <2>2. QED
    BY <2>1 DEF PassedIsAccounted, WithinLog, Accounted, Visible
<1>2. Typed /\ PassedIsAccounted => NothingElseIsSkipped
  <2> SUFFICES ASSUME Typed, PassedIsAccounted, NEW e \in Replica, NEW s \in Visible,
                      s <= ev[e].cursor
               PROVE  s \in seen \cup skipped
    BY DEF NothingElseIsSkipped
  <2>1. s \in Nat
    BY DEF Visible
  <2>2. ~(Busy(e) /\ s \in ev[e].tick.batch)
    BY <2>1, EvaluatorFacts DEF PassedIsAccounted
  <2>3. QED
    BY <2>2 DEF PassedIsAccounted, Accounted, Passed
<1>3. QED
  BY TypeInit, TypeNext, AccountedNext, <1>1, <1>2, PTL DEF Spec
=============================================================================
