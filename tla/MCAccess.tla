------------------------------ MODULE MCAccess ------------------------------
(* Two accounts and two requests at a time for the model checker.          *)
EXTENDS Access, TLC

CONSTANTS q1, q2

TwoRequests == {q1, q2}
Symmetry == Permutations(TwoRequests)
Bodies == {[Nothing EXCEPT !.role = "viewer"], [Nothing EXCEPT !.active = "no"],
           [Nothing EXCEPT !.role = "admin", !.active = "yes"],
           [Nothing EXCEPT !.role = "admin", !.active = "no"],
           [Nothing EXCEPT !.password = TRUE]}
=============================================================================
