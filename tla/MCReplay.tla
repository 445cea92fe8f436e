------------------------------ MODULE MCReplay ------------------------------
(* Flows for the model checker.  Top waits for a child and sleeps, Fan     *)
(* hands off a run, Self and the pair Ping, Pong recurse; the last task of *)
(* Fan shares its result with that of Leaf.                                *)
EXTENDS Replay, TLC

CONSTANTS Top, Leaf, Fan, Self, Ping, Pong, a, b, z, g, s1, s2

task(n, r)  == [op |-> "task", name |-> n, keyed |-> FALSE, retries |-> r,
                cache |-> NoCache, dep |-> NoDep]
keyed(n)    == [task(n, 0) EXCEPT !.keyed = TRUE]
cached(n)   == [task(n, 0) EXCEPT !.cache = n]
sleep(n)    == [keyed(n) EXCEPT !.op = "sleep"]
wait(d)     == [task(g, 0) EXCEPT !.op = "wait", !.dep = d]
start(d)    == [task(b, 0) EXCEPT !.op = "start", !.dep = d]

Flows == Top   :> <<task(a, 1), wait(Leaf), sleep(z), task(a, 0)>>
      @@ Leaf  :> <<cached(a)>>
      @@ Fan   :> <<start(Leaf), [cached(a) EXCEPT !.keyed = TRUE]>>
      @@ Self  :> <<wait(Self)>>
      @@ Ping  :> <<wait(Pong)>>
      @@ Pong  :> <<wait(Ping)>>
=============================================================================
