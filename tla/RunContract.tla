----------------------------- MODULE RunContract -----------------------------
(***************************************************************************)
(* What the documentation promises of a flow run (docs/ARCHITECTURE.md,    *)
(* sections 4 and 5), whatever crashes, expires and is retried underneath: *)
(* one executor at a time, none once the run has a verdict, a verdict only *)
(* when nobody executes the run, and no second verdict unless an operator  *)
(* has reopened the run.  There are no leases, no row and no janitor here. *)
(***************************************************************************)
CONSTANTS Run, Slot, Verdict, NoRun, Open

VARIABLES
  at,       \* the run whose flow function slot s is inside, or NoRun
  verdict   \* of every run, Open as long as it has none

cvars == <<at, verdict>>

Idle(r) == \A s \in Slot : at[s] # r

CInit == at = [s \in Slot |-> NoRun] /\ verdict = [r \in Run |-> Open]

Begin(s, r) ==
  /\ at[s] = NoRun /\ Idle(r) /\ verdict[r] = Open
  /\ at' = [at EXCEPT ![s] = r]
  /\ UNCHANGED verdict

\* The slots of S stop: one returns, or a whole process dies.
End(S) ==
  /\ at' = [s \in Slot |-> IF s \in S THEN NoRun ELSE at[s]]
  /\ UNCHANGED verdict

Decide(r, v) ==
  /\ Idle(r) /\ verdict[r] = Open
  /\ verdict' = [verdict EXCEPT ![r] = v]
  /\ UNCHANGED at

\* The operator retries a run that has its verdict.
Reopen(r) ==
  /\ verdict[r] # Open
  /\ verdict' = [verdict EXCEPT ![r] = Open]
  /\ UNCHANGED at

Proceed ==
  \/ \E s \in Slot, r \in Run : Begin(s, r)
  \/ \E S \in SUBSET Slot : End(S)
  \/ \E r \in Run, v \in Verdict : Decide(r, v)

CNext == Proceed \/ \E r \in Run : Reopen(r)

CSpec == CInit /\ [][CNext]_cvars
=============================================================================
