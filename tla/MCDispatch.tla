----------------------------- MODULE MCDispatch -----------------------------
(* Two workers for the model checker: w1 with one slot and two lanes, w2   *)
(* with two slots; they meet in lane a, where both runs are created.       *)
EXTENDS Dispatch, TLC

CONSTANTS a, b, c, w1, w2, r1, r2

ThreeLanes == {a, b, c}
TwoWorkers == {w1, w2}
TwoRuns == {r1, r2}
ServedLanes == w1 :> <<a, b>> @@ w2 :> <<a, c>>
Slots == w1 :> 1 @@ w2 :> 2
AllInA == [r \in TwoRuns |-> a]
Weights == r1 :> 50 @@ r2 :> 120
BirthOrder == r1 :> 1 @@ r2 :> 2
LeaseBounds == r1 :> 2 @@ r2 :> 1
Limits == a :> 1 @@ b :> NoLimit @@ c :> 1
=============================================================================
