---------------------------- MODULE MCPushPool -----------------------------
(* Two leaders and three requests for the model checker.                   *)
EXTENDS PushPool, TLC

CONSTANTS l1, l2, p1, p2, p3
=============================================================================
