---------------------------- MODULE MCExternalApi ----------------------------
(* One key, one pool and three requests at a time for the model checker.   *)
EXTENDS ExternalApi, TLC

CONSTANTS k1, q1, q2, q3

Requests == {q1, q2, q3}
Symmetry == Permutations(Requests)
OfKeys     == {[active |-> FALSE], [limit |-> 4], [limit |-> 0], [expires |-> 0]}
OfSettings == {[enabled |-> FALSE], [limit |-> 4]}
OfPools    == {[min |-> 2], [max |-> 1], [type |-> "push", endpoint |-> TRUE],
               [endpoint |-> FALSE], [secret |-> "s"], [secret |-> "t"], [max |-> Null]}
=============================================================================
