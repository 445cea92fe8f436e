----------------------------- MODULE MCGitSync -----------------------------
(* Two specs, a reconciler and a request for the model checker.       *)
EXTENDS GitSync, TLC
=============================================================================
