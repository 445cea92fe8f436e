----------------------------- MODULE RunStates -----------------------------
(***************************************************************************)
(* The orchestration rule table of internal/core/state.go and the verdict  *)
(* SetFlowRunState (internal/store/postgres/runs.go) reaches from it.      *)
(* Everything here is constant: the modules about runs share it.           *)
(***************************************************************************)

State == {"SCHEDULED", "PENDING", "RUNNING", "COMPLETED", "FAILED",
          "CRASHED", "CANCELLING", "CANCELLED", "PAUSED"}

\* The field of a copy that has read no state yet.
NoState == "-"

\* StateType.IsTerminal
Terminal == {"COMPLETED", "FAILED", "CANCELLED"}

\* The states in which RenewLease and ReclaimExpiredLeases recognise a claim.
Claimed == {"RUNNING", "PENDING", "CANCELLING"}

allowedTransitions(from) ==
  CASE from = "SCHEDULED"  -> {"PENDING", "RUNNING", "CANCELLING", "CANCELLED",
                               "PAUSED", "SCHEDULED"}
    [] from = "PENDING"    -> {"RUNNING", "SCHEDULED", "CRASHED", "CANCELLING",
                               "CANCELLED", "FAILED"}
    [] from = "RUNNING"    -> {"COMPLETED", "FAILED", "CRASHED", "CANCELLING",
                               "CANCELLED", "SCHEDULED", "PAUSED"}
    [] from = "PAUSED"     -> {"SCHEDULED", "RUNNING", "CANCELLED", "CANCELLING"}
    [] from = "CANCELLING" -> {"CANCELLED", "COMPLETED", "FAILED", "CRASHED"}
    [] from = "CRASHED"    -> {"SCHEDULED", "FAILED", "CANCELLED"}
    [] from \in Terminal   -> {"SCHEDULED"}

CanTransition(from, to) == to \in allowedTransitions(from)

(***************************************************************************)
(* What SetFlowRunState decides from the row it has just read: return the  *)
(* row unchanged, reject the transition, or go on to the UPDATE, which is  *)
(* conditional on the state that was read.                                 *)
(***************************************************************************)
Unchanged(cur, to)       == cur = to /\ to # "SCHEDULED"
Rejected(cur, to, force) == /\ ~Unchanged(cur, to)
                            /\ ~force
                            /\ ~CanTransition(cur, to)
Writes(cur, to, force)   == /\ ~Unchanged(cur, to)
                            /\ force \/ CanTransition(cur, to)
=============================================================================
