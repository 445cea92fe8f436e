---------------------------- MODULE Automations ----------------------------
(***************************************************************************)
(* The event log and the automation rules (internal/events, the evaluator  *)
(* of internal/automations): whoever leads reads the log forward from a    *)
(* cursor it keeps in memory, matches every event against the rules it has *)
(* listed for the batch, and performs their actions, which add events of   *)
(* their own.                                                              *)
(*                                                                         *)
(* A rule matches by event name; the filters on the payload select a       *)
(* subset of the events of a name and are left out.  Of an action, the     *)
(* event it adds is kept: what it does to a run or a queue is what the     *)
(* operator does in RunLifecycle and Dispatch.                             *)
(***************************************************************************)
EXTENDS Naturals, Sequences, FiniteSets

CONSTANTS
  Replica,
  Def,          \* the rules in the order of ListAutomations, each a record
                \* [match, threshold, window, action], the window being the one
                \* in effect (an hour when a rule has none)
  Outside,      \* names of the events the rest of the system emits
  BatchSize,
  MaxEvents,    \* bound on the log
  MaxTime,      \* bound on the clock
  MaxFaults,    \* bound on the faults and on the operator's changes
  Env           \* what may go wrong, a subset of Hazard

(***************************************************************************)
(* crash        an evaluator dies, between any two statements, and restarts *)
(* lapse        a live leader is slow and its lease is taken               *)
(* actionFails  an action fails: a webhook is down, a deployment is gone   *)
(* touchFails   the statement after the action fails                       *)
(* late         a transaction commits after a later one                    *)
(* seqFails     a starting evaluator cannot read the head of the log       *)
(* edit         the operator disables and enables rules                    *)
(***************************************************************************)
Hazard == {"crash", "lapse", "actionFails", "touchFails", "late", "seqFails", "edit"}

Action == {"run", "cancel", "priority", "pause", "resume", "webhook"}
Name == Outside \cup {"automation.fired", "flow-run.SCHEDULED", "flow-run.CANCELLED"}
Clock == 0..MaxTime
Rule == 1..Len(Def)

ASSUME AutomationAssumption ==
  /\ Def \in Seq([match : SUBSET Name, threshold : Nat \ {0}, window : Nat, action : Action])
  /\ Def # <<>>
  /\ BatchSize \in Nat \ {0} /\ MaxEvents \in Nat /\ MaxTime \in Nat /\ MaxFaults \in Nat
  /\ Env \subseteq Hazard

VARIABLES
  now, log,
  leader,     \* pf_leader: the holder, and whether its lease is live
  rule,       \* pf_automations
  ev,         \* the evaluators
  fired,      \* history: the firings that came to an end, in their order
  seen,       \* history: the events somebody has taken through all rules
  skipped,    \* history: the events that committed behind a cursor, or waited
              \* when an evaluator started at the head of the log
  faults

vars == <<now, log, leader, rule, ev, fired, seen, skipped, faults>>

\* last_fired_at is NULL until the first firing.
Never == MaxTime + 1
RuleRow == [enabled : BOOLEAN, last : Clock \cup {Never}]
Event == [name : Name, at : Clock, committed : BOOLEAN]

(***************************************************************************)
(* An evaluator: the cursor it started from and the one it has reached,    *)
(* its incarnation, and during a tick what is left of the batch, the rules *)
(* as listed with it, the rule it is at, and how many firings had ended    *)
(* when the rules were listed (history).                                   *)
(***************************************************************************)
Idle == [pc |-> "idle"]
Working == [pc : {"decide", "act", "touch"}, batch : (SUBSET (1..MaxEvents)) \ {{}},
            rules : [Rule -> RuleRow], r : Rule, known : Nat]
Evaluator == [cursor : 0..MaxEvents, life : Nat, tick : {Idle} \cup Working]
Firing == [rule : Rule, seq : 1..MaxEvents, by : Replica \X Nat, at : Clock,
           since : Clock, known : Nat, touched : BOOLEAN]

Fault(kind) == kind \in Env /\ faults < MaxFaults /\ faults' = faults + 1
Busy(e) == ev[e].tick # Idle

\* The event the evaluator is at, the earliest that is left.
At(e) == CHOOSE s \in ev[e].tick.batch : \A t \in ev[e].tick.batch : s <= t
RuleAt(e) == Def[ev[e].tick.r]
EventAt(e) == log[At(e)]

-----------------------------------------------------------------------------
(* The log.                                                                *)

\* AppendEvent takes the next seq; a full log stands for an insert that fails,
\* which Emit logs and forgets.
Append1(l, name) ==
  IF Len(l) < MaxEvents THEN Append(l, [name |-> name, at |-> now, committed |-> TRUE])
                      ELSE l

\* An event of a run, a worker or an operator.
Emit(name) ==
  /\ Len(log) < MaxEvents
  /\ \/ log' = Append1(log, name) /\ UNCHANGED faults
     \/ /\ Fault("late")
        /\ log' = Append(log, [name |-> name, at |-> now, committed |-> FALSE])
  /\ UNCHANGED <<now, leader, rule, ev, fired, seen, skipped>>

\* An evaluator has passed s, or has listed later events and will.
Passed(e, s) ==
  \/ s <= ev[e].cursor
  \/ Busy(e) /\ \E t \in ev[e].tick.batch : s < t

\* The transaction that took an earlier seq commits.
Commit(s) ==
  /\ s <= Len(log) /\ ~log[s].committed
  /\ log' = [log EXCEPT ![s].committed = TRUE]
  /\ skipped' = skipped \cup {z \in {s} : \E e \in Replica : Passed(e, z)}
  /\ UNCHANGED <<now, leader, rule, ev, fired, seen, faults>>

Visible == {s \in 1..Len(log) : log[s].committed}
MaxEventSeq == IF Visible = {} THEN 0 ELSE CHOOSE s \in Visible : \A t \in Visible : t <= s

\* The first BatchSize events after the cursor.
ListEventsAfter(cursor) ==
  LET after == {s \in Visible : s > cursor}
  IN  {s \in after : Cardinality({t \in after : t <= s}) <= BatchSize}

\* CountEvents since a time, up to whatever has been committed by now.
CountEvents(match, since) ==
  Cardinality({s \in Visible : log[s].name \in match /\ log[s].at >= since})

-----------------------------------------------------------------------------
(* The evaluator.                                                          *)

SetTick(e, t) == ev' = [ev EXCEPT ![e].tick = t]

\* AcquireLeadership, ListEventsAfter and ListAutomations.
StartTick(e) ==
  LET batch == ListEventsAfter(ev[e].cursor) IN
  /\ ~Busy(e)
  /\ leader.holder = e \/ ~leader.live
  /\ leader' = [holder |-> e, live |-> TRUE]
  /\ IF batch = {} THEN UNCHANGED ev
     ELSE SetTick(e, [pc |-> "decide", batch |-> batch, rules |-> rule, r |-> 1,
                      known |-> Len(fired)])
  /\ UNCHANGED <<now, log, rule, fired, seen, skipped, faults>>

\* Mutant: the end of a tick moves the cursor to the head of the log.
AdvancedToHead(e) ==
  LET t == ev[e].tick  rest == t.batch \ {At(e)} IN
  IF t.r < Len(Def)
    THEN [ev[e] EXCEPT !.tick = [t EXCEPT !.pc = "decide", !.r = t.r + 1]]
    ELSE [ev[e] EXCEPT !.cursor = IF rest = {} THEN MaxEventSeq ELSE At(e),
            !.tick = IF rest = {} THEN Idle
                     ELSE [t EXCEPT !.pc = "decide", !.batch = rest, !.r = 1]]

\* Mutant: the cursor stays before the event.
AdvancedShort(e) ==
  LET t == ev[e].tick  rest == t.batch \ {At(e)} IN
  IF t.r < Len(Def)
    THEN [ev[e] EXCEPT !.tick = [t EXCEPT !.pc = "decide", !.r = t.r + 1]]
    ELSE [ev[e] EXCEPT !.cursor = At(e) - 1,
            !.tick = IF rest = {} THEN Idle
                     ELSE [t EXCEPT !.pc = "decide", !.batch = rest, !.r = 1]]

\* The next rule, or the next event, or the end of the tick.
Advanced(e) ==
  LET t == ev[e].tick  rest == t.batch \ {At(e)} IN
  IF t.r < Len(Def)
    THEN [ev[e] EXCEPT !.tick = [t EXCEPT !.pc = "decide", !.r = t.r + 1]]
    ELSE [ev[e] EXCEPT !.cursor = At(e),
            !.tick = IF rest = {} THEN Idle
                     ELSE [t EXCEPT !.pc = "decide", !.batch = rest, !.r = 1]]

NextPair(e) ==
  /\ ev' = [ev EXCEPT ![e] = Advanced(e)]
  /\ seen' = seen \cup {s \in {At(e)} : ev[e].tick.r = Len(Def)}

Since(e) == IF EventAt(e).at > RuleAt(e).window THEN EventAt(e).at - RuleAt(e).window ELSE 0

\* Mutant: nothing debounces a rule.
DuePairAlways(e) ==
  /\ ev[e].tick.rules[ev[e].tick.r].enabled
  /\ EventAt(e).name \in RuleAt(e).match
  /\ RuleAt(e).threshold > 1 => CountEvents(RuleAt(e).match, Since(e)) >= RuleAt(e).threshold

\* tick: enabled, matched, and with a threshold counted and not yet fired in the
\* window, by the rules as they were listed.
DuePair(e) ==
  LET row == ev[e].tick.rules[ev[e].tick.r] IN
  /\ row.enabled
  /\ EventAt(e).name \in RuleAt(e).match
  /\ RuleAt(e).threshold > 1 =>
       /\ CountEvents(RuleAt(e).match, Since(e)) >= RuleAt(e).threshold
       /\ row.last = Never \/ row.last <= Since(e)

Decide(e) ==
  /\ Busy(e) /\ ev[e].tick.pc = "decide"
  /\ \/ DuePair(e) /\ SetTick(e, [ev[e].tick EXCEPT !.pc = "act"]) /\ UNCHANGED seen
     \/ ~DuePair(e) /\ NextPair(e)
  /\ UNCHANGED <<now, log, leader, rule, fired, skipped, faults>>

\* Mutant: a failed action ends the tick.
ActGivesUp(e) ==
  LET a == RuleAt(e).action IN
  /\ Busy(e) /\ ev[e].tick.pc = "act"
  /\ \/ /\ log' = CASE a = "run"    -> Append1(log, "flow-run.SCHEDULED")
                    [] a = "cancel" -> Append1(log, "flow-run.CANCELLED")
                    [] OTHER        -> log
        /\ SetTick(e, [ev[e].tick EXCEPT !.pc = "touch"])
        /\ UNCHANGED <<seen, faults>>
     \/ /\ "actionFails" \in Env /\ SetTick(e, Idle)
        /\ UNCHANGED <<log, seen, faults>>
  /\ UNCHANGED <<now, leader, rule, fired, skipped>>

\* fire: the action.  A failed one is logged, and the evaluator goes on.
Act(e) ==
  LET a == RuleAt(e).action IN
  /\ Busy(e) /\ ev[e].tick.pc = "act"
  /\ \/ /\ log' = CASE a = "run"    -> Append1(log, "flow-run.SCHEDULED")
                    [] a = "cancel" -> Append1(log, "flow-run.CANCELLED")
                    [] OTHER        -> log
        /\ SetTick(e, [ev[e].tick EXCEPT !.pc = "touch"])
        /\ UNCHANGED <<seen, faults>>
     \/ /\ Fault("actionFails") /\ NextPair(e)
        /\ UNCHANGED log
  /\ UNCHANGED <<now, leader, rule, fired, skipped>>

Ended(e, ok) == Append(fired,
  [rule |-> ev[e].tick.r, seq |-> At(e), by |-> <<e, ev[e].life>>, at |-> now,
   since |-> Since(e), known |-> ev[e].tick.known, touched |-> ok])

\* fire: TouchAutomation, whose error is ignored, and the rule's own event.
Touch(e) ==
  /\ Busy(e) /\ ev[e].tick.pc = "touch"
  /\ \/ /\ rule' = [rule EXCEPT ![ev[e].tick.r].last = now]
        /\ fired' = Ended(e, TRUE) /\ UNCHANGED faults
     \/ /\ Fault("touchFails")
        /\ fired' = Ended(e, FALSE) /\ UNCHANGED rule
  /\ log' = Append1(log, "automation.fired")
  /\ NextPair(e)
  /\ UNCHANGED <<now, leader, skipped>>

\* The process dies and another one starts at the head of the log, or from its
\* beginning when the head cannot be read.
Restart(e) ==
  /\ Fault("crash")
  /\ \E head \in {MaxEventSeq} \cup {z \in {0} : "seqFails" \in Env} :
       /\ ev' = [ev EXCEPT ![e] = [cursor |-> head, life |-> @.life + 1,
                                   tick |-> Idle]]
       /\ skipped' = skipped \cup {s \in Visible : s <= head /\ s \notin seen}
  /\ UNCHANGED <<now, log, leader, rule, fired, seen>>

-----------------------------------------------------------------------------
(* Time and the operator.                                                  *)

\* The lease of a leader that does not get to its next tick.
LeaseLapses ==
  /\ leader.live /\ Fault("lapse")
  /\ leader' = [leader EXCEPT !.live = FALSE]
  /\ UNCHANGED <<now, log, rule, ev, fired, seen, skipped>>

\* UpsertAutomation: last_fired_at is kept.
SetEnabled(r) ==
  /\ Fault("edit")
  /\ rule' = [rule EXCEPT ![r].enabled = ~@]
  /\ UNCHANGED <<now, log, leader, ev, fired, seen, skipped>>

Advance ==
  /\ now < MaxTime /\ now' = now + 1
  /\ UNCHANGED <<log, leader, rule, ev, fired, seen, skipped, faults>>

Init ==
  /\ now = 0 /\ log = <<>> /\ fired = <<>> /\ faults = 0
  /\ seen = {} /\ skipped = {}
  /\ \E e \in Replica : leader = [holder |-> e, live |-> FALSE]
  /\ rule = [r \in Rule |-> [enabled |-> TRUE, last |-> Never]]
  /\ ev = [e \in Replica |-> [cursor |-> 0, life |-> 0, tick |-> Idle]]

Evaluate(e) == StartTick(e) \/ Decide(e) \/ Act(e) \/ Touch(e)

Next ==
  \/ \E e \in Replica : Evaluate(e) \/ Restart(e)
  \/ \E name \in Outside : Emit(name)
  \/ \E s \in 1..MaxEvents : Commit(s)
  \/ \E r \in Rule : SetEnabled(r)
  \/ LeaseLapses \/ Advance

Spec == Init /\ [][Next]_vars

\* The ticker of every replica that is up.
Fairness == \A e \in Replica : WF_vars(Evaluate(e))
FairSpec == Spec /\ Fairness

-----------------------------------------------------------------------------
(* Properties.                                                             *)

TypeOK ==
  /\ now \in Clock /\ faults \in 0..MaxFaults
  /\ log \in Seq(Event) /\ Len(log) <= MaxEvents
  /\ leader \in [holder : Replica, live : BOOLEAN]
  /\ rule \in [Rule -> RuleRow]
  /\ ev \in [Replica -> Evaluator]
  /\ fired \in Seq(Firing)
  /\ seen \subseteq 1..MaxEvents /\ skipped \subseteq 1..MaxEvents

\* "firing the same rule from three replicas would trigger three remediations":
\* one process fires a rule for an event once, whatever is read again, fails or
\* comes late.  (Two processes do so after a takeover, if the second is behind.)
OncePerProcess ==
  \A i, j \in 1..Len(fired) :
    /\ fired[i].rule = fired[j].rule
    /\ fired[i].seq = fired[j].seq /\ fired[i].by = fired[j].by
    => i = j

\* "Debounce: do not fire again for the same burst": a rule with a threshold does
\* not fire for a window it has fired in by an earlier batch, whoever led then.
Debounced ==
  \A i, j \in 1..Len(fired) :
    /\ fired[i].rule = fired[j].rule /\ Def[fired[i].rule].threshold > 1
    /\ i <= fired[j].known /\ fired[i].touched
    => fired[i].at <= fired[j].since

\* What lies behind a cursor has been evaluated: a failed action or firing, the
\* end of a batch, a takeover or events of the evaluator's own skip nothing.  Two
\* things do, and the code does both: an event that commits after a later one was
\* listed, and a start at the head of the log, where the package comment has the
\* evaluator resume where it left off.
NothingElseIsSkipped ==
  \A e \in Replica : \A s \in Visible :
    s <= ev[e].cursor => s \in seen \cup skipped

\* Every other event is evaluated in the end: no failure of an action, and no
\* lost leader, holds the log up.
EventsAreEvaluated ==
  \A s \in 1..MaxEvents : s \in Visible ~> s \in seen \cup skipped

=============================================================================
