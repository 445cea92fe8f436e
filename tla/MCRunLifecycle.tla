--------------------------- MODULE MCRunLifecycle ---------------------------
(* Two workers for the model checker, the first with two slots.            *)
EXTENDS RunLifecycle, TLC

CONSTANTS w1, w2, s1, s2, s3

TwoWorkers == {w1, w2}
OnlyFirst  == {w1}
TwoSlots   == {s1, s3}
ThreeSlots == {s1, s2, s3}
OneEach    == s1 :> w1 @@ s3 :> w2
SlotHost   == s1 :> w1 @@ s2 :> w1 @@ s3 :> w2
Symmetry   == Permutations({s1, s2})
=============================================================================
