---------------------------- MODULE MCSchedules ----------------------------
(* Interval and cron schedules for the model checker, with and without     *)
(* catch-up.                                                               *)
EXTENDS Schedules, TLC

CONSTANTS d1, r1, r2

Schedule(k, e, c) == [kind |-> k, every |-> e, catchup |-> c]
Kinds == {Schedule("interval", 2, FALSE), Schedule("interval", 4, TRUE),
          Schedule("cron", 1, TRUE)}
Symmetry == Permutations({r1, r2})
=============================================================================
