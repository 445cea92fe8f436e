--------------------------- MODULE MCAutomations ---------------------------
(* Two rules for the model checker: one acts on every failure, one         *)
(* remedies a burst of two.                                                *)
EXTENDS Automations, TLC

CONSTANTS e1, e2

Failed == "flow-run.FAILED"
Definitions ==
  <<[match |-> {Failed}, threshold |-> 1, window |-> 1, action |-> "webhook"],
    [match |-> {Failed}, threshold |-> 2, window |-> 1, action |-> "run"]>>
OutsideNames == {Failed}
=============================================================================
