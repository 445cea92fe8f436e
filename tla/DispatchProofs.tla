---------------------------- MODULE DispatchProofs ----------------------------
(* What holds of Dispatch for every set of runs, lanes and workers.        *)
EXTENDS Dispatch, FiniteSetTheorems, WellFoundedInduction, TLAPS

-----------------------------------------------------------------------------
(***************************************************************************)
(* Finite sets.  The least element of a set of numbers stands in for       *)
(* induction.                                                              *)
(***************************************************************************)

LEMMA LeastNat ==
  ASSUME NEW T \in SUBSET Nat, T # {}
  PROVE  \E x \in T : \A y \in T : x <= y
<1> DEFINE R == OpToRel(<, Nat)
<1>1. IsWellFoundedOn(R, Nat)
  BY NatLessThanWellFounded
<1>2. \A x, y \in Nat : <<x, y>> \in R <=> x < y
  BY DEF OpToRel
<1> HIDE DEF R
<1>3. PICK x \in T : \A y \in T : ~(<<y, x>> \in R)
  BY <1>1, WFMin
<1>4. \A y \in T : ~(y < x)
  BY <1>2, <1>3
<1>5. QED
  BY <1>4

\* A finite set of integers has a least element: none is the smallest without.
LEMMA LeastInt ==
  ASSUME NEW S \in SUBSET Int, IsFiniteSet(S), S # {}
  PROVE  \E x \in S : \A y \in S : x <= y
<1> DEFINE Without == {n \in Nat : \E U \in SUBSET Int :
                         /\ IsFiniteSet(U) /\ Cardinality(U) = n /\ U # {}
                         /\ ~\E x \in U : \A y \in U : x <= y}
<1>1. SUFFICES ASSUME Without # {} PROVE FALSE
  BY FS_CardinalityType
<1>2. PICK n \in Without : \A m \in Without : n <= m
  BY <1>1, LeastNat
<1>3. PICK U \in SUBSET Int : /\ IsFiniteSet(U) /\ Cardinality(U) = n /\ U # {}
                              /\ ~\E x \in U : \A y \in U : x <= y
  BY <1>2
<1>4. PICK a \in U : TRUE
  BY <1>3
<1>5. IsFiniteSet(U \ {a}) /\ Cardinality(U \ {a}) = n - 1
  BY <1>3, <1>4, FS_RemoveElement
<1>6. n - 1 \in Nat
  BY <1>5, FS_CardinalityType
<1>7. n - 1 \notin Without
  BY <1>2, <1>6
<1>8. U \ {a} # {} => \E x \in U \ {a} : \A y \in U \ {a} : x <= y
  BY <1>3, <1>5, <1>6, <1>7
<1>9. QED
  BY <1>3, <1>4, <1>8

LEMMA MinInt ==
  ASSUME NEW S \in SUBSET Int, IsFiniteSet(S), S # {}
  PROVE  Min(S) \in Int /\ \A y \in S : Min(S) <= y
<1>1. Min(S) \in S /\ \A y \in S : Min(S) <= y
  BY LeastInt DEF Min
<1>2. QED
  BY <1>1

LEMMA GreatestUpTo ==
  ASSUME NEW n \in Nat, NEW S \in SUBSET (1..n), S # {}
  PROVE  \E x \in S : \A y \in S : y <= x
<1> DEFINE T == {n - x : x \in S}
<1>1. T \in SUBSET Nat /\ T # {}
  <2>1. \A x \in S : n - x \in Nat
    OBVIOUS
  <2>2. QED
    BY <2>1
<1> HIDE DEF T
<1>2. PICK t \in T : \A u \in T : t <= u
  BY <1>1, LeastNat
<1>3. PICK x \in S : t = n - x
  BY <1>2 DEF T
<1>4. \A y \in S : n - x <= n - y
  BY <1>2, <1>3 DEF T
<1>5. QED
  BY <1>3, <1>4

\* An image has no more members than its original.
LEMMA ImageCardinality ==
  ASSUME NEW S, IsFiniteSet(S), NEW f, NEW T, T = {f[x] : x \in S}
  PROVE  IsFiniteSet(T) /\ Cardinality(T) <= Cardinality(S)
<1> DEFINE g == [x \in S |-> f[x]]
<1>1. g \in Surjection(S, T)
  BY DEF Surjection
<1>2. QED
  BY <1>1, FS_Surjection

\* The first k of a set of positions are k at most.
LEMMA FirstCardinality ==
  ASSUME NEW n \in Nat, NEW I \in SUBSET (1..n), NEW k \in Nat
  PROVE  /\ First(I, k) \subseteq I /\ IsFiniteSet(First(I, k))
         /\ Cardinality(First(I, k)) <= k
<1> DEFINE F == First(I, k)
<1>1. F \subseteq I /\ F \subseteq 1..n
  BY DEF First
<1>2. IsFiniteSet(I)
  <2>1. IsFiniteSet(1..n)
    BY FS_Interval
  <2>2. QED
    BY <2>1, FS_Subset
<1>3. IsFiniteSet(F)
  BY <1>1, <1>2, FS_Subset
<1>4. CASE F = {}
  BY <1>1, <1>3, <1>4, FS_EmptySet
<1>5. CASE F # {}
  <2>1. PICK m \in F : \A j \in F : j <= m
    BY <1>1, <1>5, GreatestUpTo
  <2> DEFINE U == {j \in I : j <= m}
  <2>2. Cardinality(U) <= k
    BY <2>1 DEF First
  <2>3. F \subseteq U /\ IsFiniteSet(U)
    BY <1>1, <1>2, <2>1, FS_Subset
  <2>4. Cardinality(F) <= Cardinality(U)
    BY <2>3, FS_Subset
  <2>5. Cardinality(F) \in Nat /\ Cardinality(U) \in Nat
    BY <1>3, <2>3, FS_CardinalityType
  <2>6. QED
    BY <1>1, <1>3, <2>2, <2>4, <2>5
<1>6. QED
  BY <1>4, <1>5

-----------------------------------------------------------------------------
(***************************************************************************)
(* The order of dispatch: every set of runs has one list.                  *)
(***************************************************************************)

\* Before is a strict total order, created_at telling apart what is left equal.
LEMMA BeforeIsOrder ==
  ASSUME run \in [Run -> RunRow], NEW a \in Run, NEW b \in Run, NEW c \in Run
  PROVE  /\ ~Before(a, a)
         /\ a # b => Before(a, b) \/ Before(b, a)
         /\ Before(a, b) /\ Before(b, c) => Before(a, c)
<1>1. \A r \in Run : /\ run[r].pin \in Int \/ run[r].pin = NoPin
                     /\ run[r].prio \in Int /\ run[r].at \in Nat
  BY DEF RunRow
<1>2. /\ NoPin \notin Int /\ (Born[a] = Born[b] => a = b)
      /\ Born[a] \in Nat /\ Born[b] \in Nat /\ Born[c] \in Nat
  BY DispatchAssumption
<1>3. ~Before(a, a)
  BY <1>1, <1>2 DEF Before, PinBefore
<1>4. a # b => Before(a, b) \/ Before(b, a)
  BY <1>1, <1>2 DEF Before, PinBefore
<1>5. Before(a, b) /\ Before(b, c) => Before(a, c)
  BY <1>1, <1>2 DEF Before, PinBefore
<1>6. QED
  BY <1>3, <1>4, <1>5

Rank(S, r) == Cardinality({q \in S : Before(q, r)})

LEMMA RankType ==
  ASSUME run \in [Run -> RunRow], NEW S \in SUBSET Run, NEW r \in S
  PROVE  Rank(S, r) \in 0..(Cardinality(S) - 1)
<1>1. IsFiniteSet(S)
  BY DispatchAssumption, FS_Subset
<1>2. {q \in S : Before(q, r)} \subseteq S \ {r}
  BY BeforeIsOrder
<1>3. IsFiniteSet(S \ {r}) /\ Cardinality(S \ {r}) = Cardinality(S) - 1
  BY <1>1, FS_RemoveElement
<1>4. IsFiniteSet({q \in S : Before(q, r)}) /\ Rank(S, r) <= Cardinality(S) - 1
  BY <1>2, <1>3, FS_Subset DEF Rank
<1>5. Rank(S, r) \in Nat /\ Cardinality(S) \in Nat
  BY <1>1, <1>4, FS_CardinalityType DEF Rank
<1>6. QED
  BY <1>4, <1>5

LEMMA RankGrows ==
  ASSUME run \in [Run -> RunRow], NEW S \in SUBSET Run, NEW a \in S, NEW b \in S, Before(a, b)
  PROVE  Rank(S, a) < Rank(S, b)
<1> DEFINE A == {q \in S : Before(q, a)}
           B == {q \in S : Before(q, b)}
<1>1. A \subseteq B \ {a} /\ a \in B
  BY BeforeIsOrder
<1>2. IsFiniteSet(S)
  BY DispatchAssumption, FS_Subset
<1>3. IsFiniteSet(B)
  BY <1>2, FS_Subset
<1>4. IsFiniteSet(B \ {a}) /\ Cardinality(B \ {a}) = Cardinality(B) - 1
  BY <1>1, <1>3, FS_RemoveElement
<1>5. Cardinality(A) <= Cardinality(B \ {a}) /\ IsFiniteSet(A)
  BY <1>1, <1>4, FS_Subset
<1>6. Cardinality(A) \in Nat /\ Cardinality(B) \in Nat
  BY <1>3, <1>5, FS_CardinalityType
<1>7. QED
  BY <1>4, <1>5, <1>6 DEF Rank

\* Ranks are different and less than the number of runs, hence all taken.
LEMMA RankIsTaken ==
  ASSUME run \in [Run -> RunRow], NEW S \in SUBSET Run,
         NEW i \in 1..Cardinality(S)
  PROVE  \E r \in S : Rank(S, r) = i - 1
<1> DEFINE f == [r \in S |-> Rank(S, r)]
           n == Cardinality(S)
           T == {f[r] : r \in S}
           U == 0..(n - 1)
<1>1. IsFiniteSet(S) /\ n \in Nat
  BY DispatchAssumption, FS_Subset, FS_CardinalityType
<1>2. \A a, b \in S : f[a] = f[b] => a = b
  <2>1. \A a, b \in S : Before(a, b) => Rank(S, a) < Rank(S, b)
    BY RankGrows
  <2>2. \A a \in S : Rank(S, a) \in Nat
    BY <1>1, RankType
  <2>3. QED
    BY <2>1, <2>2, BeforeIsOrder
<1>3. T \subseteq U
  BY RankType
<1>4. f \in Bijection(S, T)
  BY <1>2 DEF Bijection, Injection, Surjection, IsInjective
<1>5. Cardinality(T) = n
  BY <1>1, <1>4, FS_Bijection DEF ExistsBijection
<1>6. IsFiniteSet(U) /\ Cardinality(U) = n
  <2>1. n - 1 \in Int /\ 0 \in Int
    BY <1>1
  <2>2. IsFiniteSet(U) /\ Cardinality(U) = IF 0 > n - 1 THEN 0 ELSE (n - 1) - 0 + 1
    BY <2>1, FS_Interval
  <2>3. QED
    BY <1>1, <2>2
<1>7. T = U
  BY <1>3, <1>5, <1>6, FS_Subset
<1>8. i - 1 \in U
  BY <1>1
<1>9. QED
  BY <1>7, <1>8

(* A list in the order of dispatch has every run of the set once, and each *)
(* before those that come after it.                                        *)
LEMMA Listed ==
  ASSUME run \in [Run -> RunRow], NEW S \in SUBSET Run
  PROVE  LET s == InOrder(S, Before) IN
         /\ s \in Seq(Run) /\ Len(s) = Cardinality(S) /\ Len(s) \in Nat
         /\ DOMAIN s = 1..Cardinality(S)
         /\ \A i \in DOMAIN s : s[i] \in S /\ Rank(S, s[i]) = i - 1
         /\ \A r \in S : Rank(S, r) + 1 \in DOMAIN s /\ s[Rank(S, r) + 1] = r
         /\ \A i, j \in DOMAIN s : i < j => Before(s[i], s[j])
<1> DEFINE s == InOrder(S, Before)
           n == Cardinality(S)
<1>1. IsFiniteSet(S) /\ n \in Nat
  BY DispatchAssumption, FS_Subset, FS_CardinalityType
<1>2. s = [i \in 1..n |-> CHOOSE r \in S : Rank(S, r) = i - 1]
  BY DEF InOrder, Rank
<1> HIDE DEF s
<1>3. \A i \in 1..n : s[i] \in S /\ Rank(S, s[i]) = i - 1
  BY <1>2, RankIsTaken
<1>4. s \in Seq(Run) /\ Len(s) = n /\ DOMAIN s = 1..n
  BY <1>1, <1>2, <1>3
<1>5. \A a, b \in S : Before(a, b) => Rank(S, a) < Rank(S, b)
  BY RankGrows
<1>6. \A a \in S : Rank(S, a) \in 0..(n - 1)
  BY RankType
<1>7. \A i, j \in 1..n : i < j => Before(s[i], s[j])
  BY <1>3, <1>5, <1>6, BeforeIsOrder
<1>8. \A r \in S : Rank(S, r) + 1 \in 1..n /\ s[Rank(S, r) + 1] = r
  <2> SUFFICES ASSUME NEW r \in S PROVE Rank(S, r) + 1 \in 1..n /\ s[Rank(S, r) + 1] = r
    OBVIOUS
  <2>1. Rank(S, r) + 1 \in 1..n
    BY <1>1, <1>6
  <2>2. s[Rank(S, r) + 1] \in S /\ Rank(S, s[Rank(S, r) + 1]) = Rank(S, r)
    BY <1>3, <1>6, <2>1
  <2>3. QED
    BY <1>5, <1>6, <2>1, <2>2, BeforeIsOrder
<1>9. QED
  BY <1>1, <1>3, <1>4, <1>7, <1>8 DEF s

-----------------------------------------------------------------------------
(***************************************************************************)
(* Types.                                                                  *)
(***************************************************************************)

\* A worker inside LeaseFlowRuns has a lane before it.
LanesLeft == \A w \in Worker : worker[w].pc # "idle" => worker[w].lanes # <<>>
Typed == TypeOK /\ LanesLeft

LEMMA RunsAreFinite ==
  ASSUME NEW S \in SUBSET Run PROVE IsFiniteSet(S) /\ Cardinality(S) \in Nat
BY DispatchAssumption, FS_Subset, FS_CardinalityType

LEMMA IdleType ==
  /\ IdleWorker \in WorkerState /\ IdleWorker.pc = "idle"
  /\ \A held \in SUBSET Run : /\ [IdleWorker EXCEPT !.held = held] \in WorkerState
                             /\ [IdleWorker EXCEPT !.held = held].pc = "idle"
                             /\ [IdleWorker EXCEPT !.held = held].held = held
                             /\ [IdleWorker EXCEPT !.held = held].got = {}
<1>1. <<>> \in Seq(Run) /\ <<>> \in Seq(Lane)
  OBVIOUS
<1>2. /\ IdleWorker \in WorkerState
      /\ IdleWorker.pc = "idle" /\ IdleWorker.got = {}
  BY <1>1 DEF IdleWorker, WorkerState
<1>3. QED
  BY <1>2 DEF WorkerState

\* A worker between two statements.
Scanning(rest, n, held, got) ==
  [IdleWorker EXCEPT !.pc = "scan", !.lanes = rest, !.left = n,
                     !.held = held, !.got = got]

LEMMA ScanningType ==
  ASSUME NEW rest \in Seq(Lane), NEW n \in Nat, NEW held \in SUBSET Run, NEW got \in SUBSET Run
  PROVE  /\ Scanning(rest, n, held, got) \in WorkerState
         /\ Scanning(rest, n, held, got).pc = "scan"
         /\ Scanning(rest, n, held, got).lanes = rest
         /\ Scanning(rest, n, held, got).left = n
         /\ Scanning(rest, n, held, got).held = held
         /\ Scanning(rest, n, held, got).got = got
BY IdleType DEF Scanning, WorkerState

LEMMA CandidatesType ==
  ASSUME TypeOK, NEW l \in Lane
  PROVE  Candidates(l) \in Seq(Run)
<1> DEFINE S == {r \in Waiting(l) : Due(r)}
<1>1. S \in SUBSET Run
  BY DEF Waiting
<1>2. InOrder(S, Before) \in Seq(Run)
  BY <1>1, Listed DEF TypeOK
<1>3. <<>> \in Seq(Run)
  OBVIOUS
<1>4. QED
  BY <1>2, <1>3 DEF Candidates

LEMMA RoomType ==
  ASSUME TypeOK, NEW l \in Lane, NEW n \in Nat
  PROVE  /\ Room(l, n) \in 0..n
         /\ lane[l].limit # NoLimit =>
              /\ lane[l].limit \in Nat
              /\ Cardinality(Active(l)) <= lane[l].limit
                    => Room(l, n) <= lane[l].limit - Cardinality(Active(l))
              /\ Cardinality(Active(l)) > lane[l].limit => Room(l, n) = 0
<1> DEFINE A == Cardinality(Active(l))
<1>1. A \in Nat
  BY RunsAreFinite DEF Active
<1>2. lane[l].limit \in Nat \cup {NoLimit}
  BY DEF TypeOK, LaneRow
<1> HIDE DEF A
<1>3. Room(l, n) = LET open == lane[l].limit - A IN
        CASE lane[l].limit = NoLimit                -> n
          [] lane[l].limit # NoLimit /\ open < 0    -> 0
          [] lane[l].limit # NoLimit /\ open \in 0..n -> open
          [] OTHER                                  -> n
  BY DEF Room, A
<1>4. CASE lane[l].limit = NoLimit
  BY <1>3, <1>4
<1>5. CASE lane[l].limit # NoLimit
  <2> DEFINE open == lane[l].limit - A
  <2>1. lane[l].limit \in Nat /\ open \in Int
    BY <1>1, <1>2, <1>5
  <2>2. Room(l, n) = IF open < 0 THEN 0 ELSE IF open \in 0..n THEN open ELSE n
    BY <1>3, <1>5
  <2>3. QED
    BY <1>1, <2>1, <2>2 DEF A
<1>6. QED
  BY <1>4, <1>5

LEMMA SnapshotType ==
  ASSUME TypeOK, NEW w \in Worker, NEW l \in Lane, NEW n \in Nat
  PROVE  Snapshot(w, l, n) \in WorkerState
<1>1. Candidates(l) \in Seq(Run) /\ Room(l, n) \in Nat
  BY CandidatesType, RoomType
<1>2. worker[w] \in WorkerState
  BY DEF TypeOK
<1>3. QED
  BY <1>1, <1>2 DEF Snapshot, WorkerState

\* What a statement takes waits in its lane, is due and planned; room bounds it.
LEMMA TakenType ==
  ASSUME TypeOK, NEW w \in Worker
  PROVE  /\ Taken(w) \subseteq Waiting(Head(worker[w].lanes))
         /\ Taken(w) \subseteq Run
         /\ Taken(w) \subseteq {worker[w].plan[i] : i \in DOMAIN worker[w].plan}
         /\ Cardinality(Taken(w)) \in Nat /\ Cardinality(Taken(w)) <= worker[w].room
<1> DEFINE plan  == worker[w].plan
           Still == {i \in DOMAIN plan : plan[i] \in Waiting(Head(worker[w].lanes)) /\ Due(plan[i])}
           F     == First(Still, worker[w].room)
<1>1. Taken(w) = {plan[i] : i \in F}
  BY DEF Taken
<1>2. plan \in Seq(Run) /\ worker[w].room \in Nat
  BY DEF TypeOK, WorkerState
<1>3. DOMAIN plan = 1..Len(plan) /\ Len(plan) \in Nat
  BY <1>2
<1>4. Still \in SUBSET (1..Len(plan))
  BY <1>3
<1> HIDE DEF Still
<1>5. /\ F \subseteq Still /\ IsFiniteSet(F) /\ Cardinality(F) <= worker[w].room
  BY <1>2, <1>3, <1>4, FirstCardinality
<1> HIDE DEF F
<1>6. Taken(w) \subseteq Waiting(Head(worker[w].lanes))
  BY <1>1, <1>5 DEF Still
<1>7. Cardinality(Taken(w)) <= Cardinality(F)
  BY <1>1, <1>5, ImageCardinality
<1>8. Taken(w) \subseteq Run
  BY <1>6 DEF Waiting
<1>9. Cardinality(Taken(w)) \in Nat /\ Cardinality(F) \in Nat
  BY <1>5, <1>8, RunsAreFinite, FS_CardinalityType
<1>10. Taken(w) \subseteq {plan[i] : i \in DOMAIN plan}
  BY <1>1, <1>5 DEF Still
<1> HIDE DEF plan
<1>11. QED
  BY <1>2, <1>5, <1>6, <1>7, <1>8, <1>9, <1>10 DEF plan

LEMMA BeginTyped ==
  ASSUME Typed, NEW w \in Worker, Begin(w) PROVE Typed'
<1> DEFINE free == Concurrency[w] - Cardinality(worker[w].held)
           new == [Snapshot(w, Head(Lanes[w]), free) EXCEPT !.lanes = Lanes[w]]
<1>1. Lanes[w] \in Seq(Lane) /\ Lanes[w] # <<>> /\ free > 0
  BY DispatchAssumption DEF Begin
<1>2. worker[w].held \in SUBSET Run
  BY DEF Typed, TypeOK, WorkerState
<1>3. free \in Nat
  <2>1. Concurrency[w] \in Nat
    BY DispatchAssumption
  <2>2. Cardinality(worker[w].held) \in Nat
    BY <1>2, RunsAreFinite
  <2>3. QED
    BY <1>1, <2>1, <2>2
<1>4. Head(Lanes[w]) \in Lane
  BY <1>1
<1>5. worker' = [worker EXCEPT ![w] = new]
  BY DEF Begin
<1> HIDE DEF free
<1>6. Snapshot(w, Head(Lanes[w]), free) \in WorkerState
  BY <1>3, <1>4, SnapshotType DEF Typed
<1>7. new \in WorkerState /\ new.lanes = Lanes[w]
  BY <1>1, <1>6 DEF WorkerState
<1> HIDE DEF new
<1>8. worker' \in [Worker -> WorkerState] /\ LanesLeft'
  BY <1>1, <1>5, <1>7 DEF Typed, TypeOK, LanesLeft
<1>9. QED
  BY <1>8 DEF Begin, Observe, Typed, TypeOK

LEMMA ScanTyped ==
  ASSUME Typed, NEW w \in Worker, Scan(w) PROVE Typed'
<1> DEFINE new == Snapshot(w, Head(worker[w].lanes), worker[w].left)
<1>1. worker[w].lanes \in Seq(Lane) /\ worker[w].lanes # <<>> /\ worker[w].left \in Nat
  BY DEF Scan, Typed, TypeOK, WorkerState, LanesLeft
<1>2. Head(worker[w].lanes) \in Lane
  BY <1>1
<1>3. new \in WorkerState
  BY <1>1, <1>2, SnapshotType DEF Typed
<1>4. new.lanes = worker[w].lanes
  BY DEF Snapshot, Typed, TypeOK, WorkerState
<1>5. worker' = [worker EXCEPT ![w] = new]
  BY DEF Scan
<1> HIDE DEF new
<1>6. worker' \in [Worker -> WorkerState] /\ LanesLeft'
  BY <1>1, <1>3, <1>4, <1>5 DEF Typed, TypeOK, LanesLeft
<1>7. QED
  BY <1>6 DEF Scan, Observe, Typed, TypeOK

LEMMA TakeTyped ==
  ASSUME Typed, NEW w \in Worker, Take(w) PROVE Typed'
<1> DEFINE rest == Tail(worker[w].lanes)
           mine == Taken(w) \cup Mine(w)
           over == [IdleWorker EXCEPT !.held = mine]
           more == Scanning(rest, Left(w), worker[w].held, mine \ worker[w].held)
<1>1. worker[w] \in WorkerState
  BY DEF Typed, TypeOK
<1>2. Taken(w) \subseteq Run /\ Cardinality(Taken(w)) \in Nat
  BY TakenType DEF Typed
<1>3. mine \subseteq Run
  BY <1>1, <1>2 DEF Mine, WorkerState
<1>4. rest \in Seq(Lane)
  <2>1. worker[w].lanes \in Seq(Lane) /\ worker[w].lanes # <<>>
    BY <1>1 DEF Typed, LanesLeft, Take, WorkerState
  <2>2. QED
    BY <2>1
<1>5. Left(w) \in Int
  BY <1>1, <1>2 DEF Left, WorkerState
<1>6. run' \in [Run -> RunRow]
  <2>1. ASSUME NEW row \in RunRow
        PROVE  [row EXCEPT !.state = "PENDING", !.runCount = @ + 1] \in RunRow
    <3>1. row.runCount + 1 \in Nat
      BY DEF RunRow
    <3>2. QED
      BY <3>1 DEF RunRow
  <2>2. \A r \in Run : run[r] \in RunRow
    BY DEF Typed, TypeOK
  <2>3. QED
    BY <2>1, <2>2 DEF Take
<1>7. \/ worker' = [worker EXCEPT ![w] = over]
      \/ rest # <<>> /\ Left(w) > 0 /\ worker' = [worker EXCEPT ![w] = more]
  BY DEF Take, Scanning
<1> HIDE DEF rest, mine
<1>8. over \in WorkerState /\ over.pc = "idle"
  BY <1>3, IdleType
<1>9. ASSUME Left(w) > 0 PROVE more \in WorkerState /\ more.lanes = rest
  <2>1. /\ Left(w) \in Nat
        /\ worker[w].held \in SUBSET Run /\ mine \ worker[w].held \in SUBSET Run
    BY <1>1, <1>3, <1>5, <1>9 DEF WorkerState
  <2>2. QED
    BY <1>4, <2>1, ScanningType
<1> HIDE DEF over, more
<1>10. worker' \in [Worker -> WorkerState] /\ LanesLeft'
  BY <1>7, <1>8, <1>9 DEF Typed, TypeOK, LanesLeft
<1>11. QED
  BY <1>6, <1>10 DEF Take, Observe, Typed, TypeOK

LEMMA StopTyped ==
  ASSUME Typed, NEW w \in Worker, LeaseFails(w) \/ Restart(w) PROVE Typed'
<1>1. ops' \in 0..MaxOps
  BY DispatchAssumption DEF LeaseFails, Restart, Typed, TypeOK
<1>2. /\ [IdleWorker EXCEPT !.held = worker[w].held] \in WorkerState
      /\ [IdleWorker EXCEPT !.held = worker[w].held].pc = "idle"
  BY IdleType DEF Typed, TypeOK, WorkerState
<1>a. PICK new \in WorkerState : new.pc = "idle" /\ worker' = [worker EXCEPT ![w] = new]
  BY <1>2, IdleType DEF LeaseFails, Restart
<1>3. worker' \in [Worker -> WorkerState] /\ LanesLeft'
  BY <1>a DEF Typed, TypeOK, LanesLeft
<1>4. Upserted \in LaneRow
  BY DEF Upserted, LaneRow
<1>5. lane' \in [Lane -> LaneRow]
  BY <1>4 DEF LeaseFails, Restart, Typed, TypeOK
<1>6. QED
  BY <1>1, <1>3, <1>5 DEF LeaseFails, Restart, Observe, Typed, TypeOK

LEMMA FinishTyped ==
  ASSUME Typed, NEW w \in Worker, NEW r \in Run, Finish(w, r) PROVE Typed'
<1>1. \A t \in now..MaxTime : t \in Nat
  BY DispatchAssumption DEF Typed, TypeOK
<1>2. \A row \in Settled(r) : row \in RunRow
  <2>1. run[r] \in RunRow
    BY DEF Typed, TypeOK
  <2>2. [run[r] EXCEPT !.state = "OUT"] \in RunRow
    BY <2>1 DEF RunRow
  <2>3. \A t \in now..MaxTime : [run[r] EXCEPT !.state = "SCHEDULED", !.at = t] \in RunRow
    BY <1>1, <2>1 DEF RunRow
  <2>4. QED
    BY <2>2, <2>3 DEF Settled
<1>3. run' \in [Run -> RunRow]
  BY <1>2 DEF Finish, Typed, TypeOK
<1>4. [worker[w] EXCEPT !.held = @ \ {r}] \in WorkerState
  BY DEF Typed, TypeOK, WorkerState
<1>5. worker' \in [Worker -> WorkerState] /\ LanesLeft'
  BY <1>4 DEF Finish, Typed, TypeOK, LanesLeft, WorkerState
<1>6. QED
  BY <1>3, <1>5 DEF Finish, Observe, Typed, TypeOK

LEMMA ReclaimTyped ==
  ASSUME Typed, NEW r \in Run, Reclaim(r) PROVE Typed'
<1>1. now \in Nat
  BY DispatchAssumption DEF Typed, TypeOK
<1>2. /\ [run[r] EXCEPT !.state = "SCHEDULED", !.at = now] \in RunRow
      /\ [run[r] EXCEPT !.state = "OUT"] \in RunRow
  BY <1>1 DEF Typed, TypeOK, RunRow
<1>3. run' \in [Run -> RunRow]
  BY <1>2 DEF Reclaim, Typed, TypeOK
<1>4. QED
  BY <1>3 DEF Reclaim, Observe, Typed, TypeOK, LanesLeft

LEMMA ClampType ==
  ASSUME NEW p \in Int PROVE Clamp(p) \in Int
BY DEF Clamp, PriorityMin, PriorityMax

\* The new pin is less than every pin of the lane.
LEMMA FrontPinType ==
  ASSUME TypeOK, NEW l \in Lane
  PROVE  /\ FrontPin(l) \in Int
         /\ \A r \in Run : run[r].lane = l /\ run[r].pin \in Int => FrontPin(l) < run[r].pin
<1> DEFINE here == {x \in Run : run[x].lane = l}
           all  == {run[r].pin : r \in here}
           pins == all \ {NoPin}
           f    == [r \in Run |-> run[r].pin]
<1>1. \A r \in Run : run[r].pin \in Int \cup {NoPin}
  BY DEF TypeOK, RunRow
<1>2. pins \in SUBSET Int
  BY <1>1
<1>3. IsFiniteSet(here)
  BY RunsAreFinite
<1>4. all = {f[r] : r \in here}
  OBVIOUS
<1> HIDE DEF f, all, here
<1>5. IsFiniteSet(all)
  BY <1>3, <1>4, ImageCardinality
<1>6. IsFiniteSet(pins)
  BY <1>5, FS_Difference
<1>7. FrontPin(l) = IF pins = {} THEN 0 ELSE Min(pins) - 1
  BY DEF FrontPin, all, here
<1>8. \A r \in Run : run[r].lane = l /\ run[r].pin \in Int => run[r].pin \in pins
  BY DispatchAssumption DEF all, here
<1> HIDE DEF pins
<1>9. CASE pins = {}
  BY <1>7, <1>8, <1>9
<1>10. CASE pins # {}
  BY <1>2, <1>6, <1>7, <1>8, <1>10, MinInt
<1>11. QED
  BY <1>9, <1>10

LEMMA MaxOfTwo ==
  ASSUME NEW a \in Int, NEW b \in Int PROVE Max({a, b}) \in Int
<1>1. \E x \in {a, b} : \A y \in {a, b} : x >= y
  OBVIOUS
<1>2. QED
  BY <1>1 DEF Max

\* The rows the controls make.
LEMMA ControlRow ==
  ASSUME TypeOK, NEW r \in Run
  PROVE  /\ \A p \in Int : [run[r] EXCEPT !.prio = Clamp(p)] \in RunRow
         /\ [run[r] EXCEPT !.pin = FrontPin(run[r].lane)] \in RunRow
         /\ [run[r] EXCEPT !.pin = NoPin, !.at = now,
                           !.prio = Max({run[r].prio - 25, 0})] \in RunRow
         /\ [run[r] EXCEPT !.pin = NoPin] \in RunRow
         /\ \A l \in Lane : [run[r] EXCEPT !.pin = NoPin, !.lane = l] \in RunRow
         /\ [run[r] EXCEPT !.state = CASE @ = "SCHEDULED" -> "OUT"
                                       [] @ = "PENDING"   -> "CANCELLING"
                                       [] OTHER           -> @] \in RunRow
<1>1. run[r] \in RunRow /\ now \in Nat
  BY DispatchAssumption DEF TypeOK
<1>2. \A p \in Int : [run[r] EXCEPT !.prio = Clamp(p)] \in RunRow
  <2> SUFFICES ASSUME NEW p \in Int PROVE [run[r] EXCEPT !.prio = Clamp(p)] \in RunRow
    OBVIOUS
  <2>1. QED
    BY <1>1, ClampType DEF RunRow
<1>3. FrontPin(run[r].lane) \in Int
  BY <1>1, FrontPinType DEF RunRow
<1>4. [run[r] EXCEPT !.pin = FrontPin(run[r].lane)] \in RunRow
  BY <1>1, <1>3 DEF RunRow
<1>5. Max({run[r].prio - 25, 0}) \in Int
  BY <1>1, MaxOfTwo DEF RunRow
<1>7. [run[r] EXCEPT !.pin = NoPin, !.at = now, !.prio = Max({run[r].prio - 25, 0})] \in RunRow
  BY <1>1, <1>5 DEF RunRow
<1>8. QED
  BY <1>1, <1>2, <1>4, <1>7 DEF RunRow

LEMMA ControlTyped ==
  ASSUME Typed, NEW r \in Run, NEW row \in RunRow, Control(r, row) PROVE Typed'
<1>1. ops' \in 0..MaxOps
  BY DispatchAssumption DEF Control, Operate, Typed, TypeOK
<1>2. QED
  BY <1>1 DEF Control, Observe, Typed, TypeOK, LanesLeft

\* Every control of a run writes a row.
LEMMA RunControlIsControl ==
  ASSUME TypeOK, NEW r \in Run, RunControl(r)
  PROVE  \E row \in RunRow : Control(r, row)
BY ControlRow, DispatchAssumption DEF RunControl, SetRunPriority, MoveRunToFront, MoveRunToBack,
   ClearRunPin, MoveRunToQueue, RequestCancel

LEMMA LaneTyped ==
  ASSUME Typed, NEW l \in Lane, NEW b \in BOOLEAN, SetQueuePaused(l, b) PROVE Typed'
<1>1. ops' \in 0..MaxOps
  BY DispatchAssumption DEF SetQueuePaused, Operate, Typed, TypeOK
<1>2. [lane[l] EXCEPT !.paused = b] \in LaneRow
  BY DEF Typed, TypeOK, LaneRow
<1>3. lane' \in [Lane -> LaneRow]
  BY <1>2 DEF SetQueuePaused, Typed, TypeOK
<1>4. QED
  BY <1>1, <1>3 DEF SetQueuePaused, Observe, Typed, TypeOK, LanesLeft

LEMMA InitTyped == Init => Typed
<1> SUFFICES ASSUME Init PROVE Typed
  OBVIOUS
<1>1. run \in [Run -> RunRow]
  BY DispatchAssumption DEF Init, RunRow
<1>2. lane \in [Lane -> LaneRow]
  BY DispatchAssumption DEF Init, LaneRow
<1>3. worker \in [Worker -> WorkerState] /\ LanesLeft
  BY IdleType DEF Init, IdleWorker, LanesLeft
<1>4. QED
  BY <1>1, <1>2, <1>3, DispatchAssumption DEF Init, Typed, TypeOK

LEMMA NextTyped == Typed /\ [Next]_vars => Typed'
<1> SUFFICES ASSUME Typed, [Next]_vars PROVE Typed'
  OBVIOUS
<1>1. ASSUME NEW w \in Worker, WorkerStep(w) PROVE Typed'
  BY <1>1, BeginTyped, ScanTyped, TakeTyped DEF WorkerStep
<1>2. ASSUME NEW w \in Worker, LeaseFails(w) \/ Restart(w) PROVE Typed'
  BY <1>2, StopTyped
<1>3. ASSUME NEW w \in Worker, NEW r \in Run, Finish(w, r) PROVE Typed'
  BY <1>3, FinishTyped
<1>4. ASSUME NEW r \in Run, RunControl(r) PROVE Typed'
  BY <1>4, RunControlIsControl, ControlTyped DEF Typed
<1>5. ASSUME NEW r \in Run, Reclaim(r) PROVE Typed'
  BY <1>5, ReclaimTyped
<1>6. ASSUME NEW l \in Lane, NEW b \in BOOLEAN, SetQueuePaused(l, b) PROVE Typed'
  BY <1>6, LaneTyped
<1>7. CASE Tick
  BY <1>7, DispatchAssumption DEF Tick, Observe, Typed, TypeOK, LanesLeft
<1>8. CASE UNCHANGED vars
  BY <1>8 DEF vars, Typed, TypeOK, LanesLeft
<1>9. QED
  BY <1>1, <1>2, <1>3, <1>4, <1>5, <1>6, <1>7, <1>8 DEF Next

(* The state keeps its types: the plan of a statement is a list of runs,    *)
(* which for the order of LeaseFlowRuns says that every rank among the      *)
(* candidates is taken.                                                     *)
THEOREM TypeCorrect == Spec => []TypeOK
<1>1. Typed => TypeOK
  BY DEF Typed
<1>2. QED
  BY InitTyped, NextTyped, <1>1, PTL DEF Spec

-----------------------------------------------------------------------------
(***************************************************************************)
(* The slots of a worker.                                                  *)
(***************************************************************************)

\* What a worker has, and what dispatch still asks for, fits in n slots.
Fits(s, n) ==
  /\ Cardinality(s.held \cup s.got) <= n
  /\ s.pc = "idle" => s.got = {}
  /\ s.pc # "idle" => Cardinality(s.held \cup s.got) + s.left <= n
  /\ s.pc = "take" => s.room <= s.left

SlotsLeft == \A w \in Worker : Fits(worker[w], Concurrency[w])

LEMMA OneWorkerMoves ==
  ASSUME TypeOK, SlotsLeft, NEW w \in Worker, NEW new, Fits(new, Concurrency[w]),
         worker' = [worker EXCEPT ![w] = new]
  PROVE  SlotsLeft'
BY DEF TypeOK, SlotsLeft

\* Fewer runs, and nothing more to ask for.
LEMMA FewerFit ==
  ASSUME TypeOK, SlotsLeft, NEW w \in Worker, NEW S \in SUBSET Mine(w)
  PROVE  /\ Cardinality(S) <= Cardinality(Mine(w))
         /\ Cardinality(S) \in Nat /\ Cardinality(Mine(w)) \in Nat
         /\ Concurrency[w] \in Nat /\ Cardinality(S) <= Concurrency[w]
<1>1. Mine(w) \subseteq Run
  BY DEF TypeOK, WorkerState, Mine
<1>2. IsFiniteSet(Mine(w)) /\ Cardinality(Mine(w)) \in Nat /\ Cardinality(S) \in Nat
  BY <1>1, RunsAreFinite
<1>3. Cardinality(S) <= Cardinality(Mine(w))
  BY <1>2, FS_Subset
<1>4. Cardinality(Mine(w)) <= Concurrency[w] /\ Concurrency[w] \in Nat
  BY DispatchAssumption DEF SlotsLeft, Fits, Mine
<1>5. QED
  BY <1>2, <1>3, <1>4

LEMMA StopFits ==
  ASSUME TypeOK, SlotsLeft, NEW w \in Worker, NEW S \in SUBSET Mine(w)
  PROVE  Fits([IdleWorker EXCEPT !.held = S], Concurrency[w])
<1>1. S \in SUBSET Run
  BY DEF TypeOK, WorkerState, Mine
<1>2. /\ [IdleWorker EXCEPT !.held = S].pc = "idle"
      /\ [IdleWorker EXCEPT !.held = S].held = S
      /\ [IdleWorker EXCEPT !.held = S].got = {}
  BY <1>1, IdleType
<1>3. QED
  BY <1>2, FewerFit DEF Fits

LEMMA BeginFits ==
  ASSUME TypeOK, SlotsLeft, NEW w \in Worker, Begin(w) PROVE SlotsLeft'
<1> DEFINE free == Concurrency[w] - Cardinality(worker[w].held)
           l    == Head(Lanes[w])
           new  == [Snapshot(w, l, free) EXCEPT !.lanes = Lanes[w]]
<1>1. worker[w].got = {} /\ Mine(w) = worker[w].held
  BY DEF Begin, SlotsLeft, Fits, Mine
<1>2. Lanes[w] \in Seq(Lane) /\ Lanes[w] # <<>> /\ l \in Lane
  BY DispatchAssumption DEF Begin
<1>3. /\ Cardinality(worker[w].held) \in Nat /\ Concurrency[w] \in Nat
      /\ Cardinality(worker[w].held) <= Concurrency[w]
  BY <1>1, FewerFit
<1>4. free \in Nat /\ Cardinality(worker[w].held) + free = Concurrency[w]
  BY <1>3
<1> HIDE DEF free, l
<1>5. Room(l, free) <= free
  BY <1>2, <1>4, RoomType
<1>6. /\ new.pc = "take" /\ new.held = worker[w].held /\ new.got = {}
      /\ new.left = free /\ new.room = Room(l, free)
  BY <1>1 DEF Snapshot, TypeOK, WorkerState
<1>7. worker' = [worker EXCEPT ![w] = new]
  BY DEF Begin, free, l
<1> HIDE DEF new
<1>8. Fits(new, Concurrency[w])
  BY <1>3, <1>4, <1>5, <1>6 DEF Fits
<1>9. QED
  BY <1>7, <1>8, OneWorkerMoves

LEMMA ScanFits ==
  ASSUME Typed, SlotsLeft, NEW w \in Worker, Scan(w) PROVE SlotsLeft'
<1> DEFINE l   == Head(worker[w].lanes)
           n   == worker[w].left
           new == Snapshot(w, l, n)
<1>1. worker[w].lanes \in Seq(Lane) /\ worker[w].lanes # <<>> /\ n \in Nat
  BY DEF Scan, Typed, TypeOK, WorkerState, LanesLeft
<1>2. l \in Lane
  BY <1>1
<1> HIDE DEF l, n
<1>3. Room(l, n) <= n
  BY <1>1, <1>2, RoomType DEF Typed
<1>4. /\ new.pc = "take" /\ new.held = worker[w].held /\ new.got = worker[w].got
      /\ new.left = n /\ new.room = Room(l, n)
  BY DEF Snapshot, Typed, TypeOK, WorkerState
<1>5. worker' = [worker EXCEPT ![w] = new]
  BY DEF Scan, l, n
<1> HIDE DEF new
<1>6. Fits(new, Concurrency[w])
  BY <1>3, <1>4 DEF Fits, SlotsLeft, Scan, n
<1>7. QED
  BY <1>5, <1>6, OneWorkerMoves DEF Typed

LEMMA TakeCount ==
  ASSUME NEW t \in Nat, NEW m \in Nat, NEW k \in Nat, NEW left \in Nat, NEW room \in Nat,
         NEW c \in Nat,
         k <= t + m, t <= room, m + left <= c, room <= left
  PROVE  left - t \in Nat /\ k + (left - t) <= c /\ k <= c
OBVIOUS

LEMMA TakeFits ==
  ASSUME Typed, SlotsLeft, NEW w \in Worker, Take(w) PROVE SlotsLeft'
<1> DEFINE rest == Tail(worker[w].lanes)
           mine == Taken(w) \cup Mine(w)
           over == [IdleWorker EXCEPT !.held = mine]
           more == Scanning(rest, Left(w), worker[w].held, mine \ worker[w].held)
<1>1. worker[w] \in WorkerState
  BY DEF Typed, TypeOK
<1>2. /\ Taken(w) \subseteq Run /\ Cardinality(Taken(w)) \in Nat
      /\ Cardinality(Taken(w)) <= worker[w].room
  BY TakenType DEF Typed
<1>3. Mine(w) \subseteq Run /\ mine \subseteq Run
  BY <1>1, <1>2 DEF Mine, WorkerState
<1>4. /\ Cardinality(Mine(w)) \in Nat /\ Cardinality(mine) \in Nat
      /\ Cardinality(mine) <= Cardinality(Taken(w)) + Cardinality(Mine(w))
  <2>1. /\ IsFiniteSet(Taken(w)) /\ IsFiniteSet(Mine(w))
        /\ Cardinality(Mine(w)) \in Nat /\ Cardinality(mine) \in Nat
        /\ Cardinality(Taken(w) \cap Mine(w)) \in Nat
    BY <1>2, <1>3, RunsAreFinite
  <2>2. Cardinality(mine) = Cardinality(Taken(w)) + Cardinality(Mine(w))
                              - Cardinality(Taken(w) \cap Mine(w))
    BY <2>1, FS_Union
  <2> HIDE DEF mine
  <2>3. QED
    BY <1>2, <2>1, <2>2
<1>5. /\ Cardinality(Mine(w)) + worker[w].left <= Concurrency[w]
      /\ worker[w].room <= worker[w].left
  BY DEF SlotsLeft, Fits, Take, Mine
<1>6. /\ worker[w].left \in Nat /\ worker[w].room \in Nat /\ Concurrency[w] \in Nat
      /\ worker[w].lanes \in Seq(Lane) /\ worker[w].lanes # <<>>
      /\ worker[w].held \subseteq Mine(w)
  BY <1>1, DispatchAssumption DEF WorkerState, Mine, Typed, LanesLeft, Take
<1>7. /\ Left(w) = worker[w].left - Cardinality(Taken(w)) /\ Left(w) \in Nat
      /\ Cardinality(mine) + Left(w) <= Concurrency[w]
      /\ Cardinality(mine) <= Concurrency[w]
  <2> DEFINE t == Cardinality(Taken(w))
             m == Cardinality(Mine(w))
             k == Cardinality(mine)
  <2>1. /\ t \in Nat /\ m \in Nat /\ k \in Nat /\ k <= t + m /\ t <= worker[w].room
        /\ m + worker[w].left <= Concurrency[w] /\ worker[w].room <= worker[w].left
    BY <1>2, <1>4, <1>5
  <2>2. Left(w) = worker[w].left - t
    BY DEF Left
  <2>3. worker[w].left \in Nat /\ worker[w].room \in Nat /\ Concurrency[w] \in Nat
    BY <1>6
  <2> HIDE DEF t, m, k
  <2>4. /\ worker[w].left - t \in Nat /\ k + (worker[w].left - t) <= Concurrency[w]
        /\ k <= Concurrency[w]
    BY <2>1, <2>3, TakeCount
  <2>5. QED
    BY <2>2, <2>4 DEF t, k
<1>8. \/ worker' = [worker EXCEPT ![w] = over]
      \/ worker' = [worker EXCEPT ![w] = more]
  BY DEF Take, Scanning
<1>9. rest \in Seq(Lane)
  BY <1>6
<1>10. worker[w].held \cup (mine \ worker[w].held) = mine
  BY <1>6
<1> HIDE DEF mine, rest
<1>11. Fits(over, Concurrency[w])
  <2>1. over.pc = "idle" /\ over.held = mine /\ over.got = {}
    BY <1>3, IdleType
  <2> HIDE DEF over
  <2>2. QED
    BY <1>7, <2>1 DEF Fits
<1>12. Fits(more, Concurrency[w])
  <2>1. worker[w].held \in SUBSET Run /\ mine \ worker[w].held \in SUBSET Run
    BY <1>1, <1>3 DEF WorkerState
  <2>2. /\ more.pc = "scan" /\ more.left = Left(w)
        /\ more.held = worker[w].held /\ more.got = mine \ worker[w].held
    BY <1>7, <1>9, <2>1, ScanningType
  <2> HIDE DEF more
  <2>3. QED
    BY <1>7, <1>10, <2>2 DEF Fits
<1> HIDE DEF over, more
<1>13. QED
  BY <1>8, <1>11, <1>12, OneWorkerMoves DEF Typed

LEMMA FinishFits ==
  ASSUME TypeOK, SlotsLeft, NEW w \in Worker, NEW r \in Run, Finish(w, r) PROVE SlotsLeft'
<1> DEFINE new == [worker[w] EXCEPT !.held = @ \ {r}]
<1>1. /\ new.pc = worker[w].pc /\ new.left = worker[w].left /\ new.room = worker[w].room
      /\ new.got = worker[w].got /\ new.held = worker[w].held \ {r}
  BY DEF TypeOK, WorkerState
<1>2. worker' = [worker EXCEPT ![w] = new]
  BY DEF Finish
<1> HIDE DEF new
<1>3. new.held \cup new.got \in SUBSET Mine(w)
  BY <1>1 DEF Mine
<1>4. /\ Cardinality(new.held \cup new.got) <= Cardinality(Mine(w))
      /\ Cardinality(new.held \cup new.got) \in Nat /\ Cardinality(Mine(w)) \in Nat
      /\ Cardinality(new.held \cup new.got) <= Concurrency[w]
  BY <1>3, FewerFit
<1>5. Fits(worker[w], Concurrency[w]) /\ worker[w].left \in Nat /\ Concurrency[w] \in Nat
  BY DispatchAssumption DEF SlotsLeft, TypeOK, WorkerState
<1>6. Fits(new, Concurrency[w])
  BY <1>1, <1>4, <1>5 DEF Fits, Mine
<1>7. QED
  BY <1>2, <1>6, OneWorkerMoves

LEMMA NextFits == Typed /\ SlotsLeft /\ [Next]_vars => SlotsLeft'
<1> SUFFICES ASSUME Typed, SlotsLeft, [Next]_vars PROVE SlotsLeft'
  OBVIOUS
<1>1. TypeOK
  BY DEF Typed
<1>2. ASSUME NEW w \in Worker, WorkerStep(w) PROVE SlotsLeft'
  BY <1>1, <1>2, BeginFits, ScanFits, TakeFits DEF WorkerStep
<1>3. ASSUME NEW w \in Worker, LeaseFails(w) PROVE SlotsLeft'
  <2>1. worker[w].held \in SUBSET Mine(w)
    BY DEF Mine
  <2>2. QED
    BY <1>1, <1>3, <2>1, StopFits, OneWorkerMoves DEF LeaseFails
<1>4. ASSUME NEW w \in Worker, Restart(w) PROVE SlotsLeft'
  <2>1. Fits(IdleWorker, Concurrency[w])
    <3>1. {} \in SUBSET Mine(w) /\ Concurrency[w] \in Nat
      BY DispatchAssumption
    <3>2. Cardinality({} \cup {}) <= Concurrency[w]
      BY <1>1, <3>1, FewerFit
    <3>3. QED
      BY <3>2 DEF Fits, IdleWorker
  <2>2. QED
    BY <1>1, <1>4, <2>1, OneWorkerMoves DEF Restart
<1>5. ASSUME NEW w \in Worker, NEW r \in Run, Finish(w, r) PROVE SlotsLeft'
  BY <1>1, <1>5, FinishFits
<1>6. ASSUME UNCHANGED worker PROVE SlotsLeft'
  BY <1>6 DEF SlotsLeft
<1>7. ASSUME NEW r \in Run, RunControl(r) \/ Reclaim(r) PROVE UNCHANGED worker
  BY <1>1, <1>7, RunControlIsControl DEF Control, Reclaim
<1>8. QED
  BY <1>2, <1>3, <1>4, <1>5, <1>6, <1>7 DEF Next, SetQueuePaused, Tick, vars

(* A worker never has more runs on its hands than slots, over all the lanes *)
(* its call of LeaseFlowRuns went through and while earlier runs finish:    *)
(* what the call still asks for is what the slots have left, and each       *)
(* statement takes no more than the room of its snapshot.                   *)
THEOREM SlotsSufficeAlways == Spec => []SlotsSuffice
<1>1. Init => SlotsLeft
  <2> SUFFICES ASSUME Init, NEW w \in Worker PROVE Fits(IdleWorker, Concurrency[w])
    BY DEF Init, SlotsLeft
  <2>1. Cardinality({} \cup {}) = 0
    BY FS_EmptySet
  <2>2. Concurrency[w] \in Nat
    BY DispatchAssumption
  <2>3. QED
    BY <2>1, <2>2 DEF Fits, IdleWorker
<1>2. SlotsLeft => SlotsSuffice
  BY DEF SlotsLeft, SlotsSuffice, Fits, Mine
<1>3. QED
  BY InitTyped, NextTyped, NextFits, <1>1, <1>2, PTL DEF Spec

-----------------------------------------------------------------------------
(***************************************************************************)
(* What a step does to a run and to a worker.                              *)
(***************************************************************************)

LEMMA InitQuiet == Init => /\ quiet = {} /\ stale = {}
                           /\ \A w \in Worker : worker[w].pc = "idle" /\ worker[w].lanes = <<>>
BY DEF Init, IdleWorker

\* No control makes a run active.
LEMMA ControlMoves ==
  ASSUME TypeOK, NEW r \in Run, RunControl(r)
  PROVE  /\ UNCHANGED worker /\ UNCHANGED lane
         /\ \A x \in Run : run'[x].state = "PENDING" => run[x].state = "PENDING"
<1>1. UNCHANGED worker /\ UNCHANGED lane
  BY DEF RunControl, SetRunPriority, MoveRunToFront, MoveRunToBack, ClearRunPin,
     MoveRunToQueue, RequestCancel, Control
<1>2. \A x \in Run : x # r => run'[x] = run[x]
  BY DEF RunControl, SetRunPriority, MoveRunToFront, MoveRunToBack, ClearRunPin,
     MoveRunToQueue, RequestCancel, Control, TypeOK
<1>3. CASE RequestCancel(r)
  BY <1>2, <1>3 DEF RequestCancel, Control, TypeOK, RunRow
<1>4. ASSUME NEW l \in Lane, MoveRunToQueue(r, l)
      PROVE  run'[r].state = "PENDING" => run[r].state = "PENDING"
  BY <1>4 DEF MoveRunToQueue, Control, TypeOK, RunRow
<1>5. CASE \/ \E p \in Priorities : SetRunPriority(r, p)
           \/ MoveRunToFront(r) \/ MoveRunToBack(r) \/ ClearRunPin(r)
  <2>1. run'[r].state = run[r].state
    BY <1>5 DEF SetRunPriority, MoveRunToFront, MoveRunToBack, ClearRunPin, Control,
       TypeOK, RunRow
  <2>2. QED
    BY <1>1, <1>2, <2>1
<1>6. QED
  BY <1>1, <1>2, <1>3, <1>4, <1>5 DEF RunControl

\* Only a statement that takes it makes a run active.
LEMMA ClaimsAreTaken ==
  ASSUME TypeOK, [Next]_vars, NEW r \in Run, run'[r].state = "PENDING"
  PROVE  \/ \E w \in Worker : Take(w) /\ r \in Taken(w)
         \/ run[r].state = "PENDING"
<1>1. ASSUME NEW w \in Worker, Take(w), r \notin Taken(w) PROVE run'[r] = run[r]
  BY <1>1 DEF Take
<1>2. ASSUME NEW w \in Worker, NEW x \in Run, Finish(w, x)
      PROVE  run'[r] = run[r]
  <2>1. \A row \in Settled(x) : row.state # "PENDING"
    BY DEF Settled, TypeOK, RunRow
  <2>2. QED
    BY <1>2, <2>1 DEF Finish, TypeOK
<1>3. ASSUME NEW x \in Run, Reclaim(x) PROVE run'[r] = run[r]
  BY <1>3 DEF Reclaim, TypeOK, RunRow
<1>4. ASSUME NEW x \in Run, RunControl(x)
      PROVE  run[r].state = "PENDING"
  BY <1>4, ControlMoves
<1>5. ASSUME UNCHANGED run PROVE run'[r] = run[r]
  BY <1>5
<1>6. ASSUME NEW w \in Worker, Begin(w) \/ Scan(w) \/ LeaseFails(w) \/ Restart(w)
      PROVE  UNCHANGED run
  BY <1>6 DEF Begin, Scan, LeaseFails, Restart
<1>7. QED
  BY <1>1, <1>2, <1>3, <1>4, <1>5, <1>6 DEF Next, WorkerStep, SetQueuePaused, Tick, vars

\* The statement of s is one that the step began, for lane l.
Fresh(s, l) ==
  /\ l \in Lane /\ s.pc = "take" /\ s.lanes # <<>> /\ Head(s.lanes) = l
  /\ s.plan = Candidates(l)
  /\ \E n \in Nat : s.room = Room(l, n)

LEMMA BeginIsFresh ==
  ASSUME Typed, NEW w \in Worker, Begin(w)
  PROVE  /\ worker' = [worker EXCEPT ![w] = worker'[w]]
         /\ Fresh(worker'[w], Head(Lanes[w])) /\ worker'[w].lanes = Lanes[w]
<1> DEFINE free == Concurrency[w] - Cardinality(worker[w].held)
           l    == Head(Lanes[w])
           new  == [Snapshot(w, l, free) EXCEPT !.lanes = Lanes[w]]
<1>1. Lanes[w] \in Seq(Lane) /\ Lanes[w] # <<>> /\ l \in Lane
  BY DispatchAssumption DEF Begin
<1>2. free \in Nat
  <2>1. Cardinality(worker[w].held) \in Nat
    BY RunsAreFinite DEF Typed, TypeOK, WorkerState
  <2>2. Concurrency[w] \in Nat /\ free > 0
    BY DispatchAssumption DEF Begin
  <2>3. QED
    BY <2>1, <2>2
<1> HIDE DEF free, l
<1>3. /\ new.pc = "take" /\ new.lanes = Lanes[w]
      /\ new.plan = Candidates(l) /\ new.room = Room(l, free)
  BY DEF Snapshot, Typed, TypeOK, WorkerState
<1>4. worker' = [worker EXCEPT ![w] = new]
  BY DEF Begin, free, l
<1> HIDE DEF new
<1>5. worker'[w] = new
  BY <1>4 DEF Typed, TypeOK
<1>6. QED
  BY <1>1, <1>2, <1>3, <1>4, <1>5 DEF Fresh, l

LEMMA ScanIsFresh ==
  ASSUME Typed, NEW w \in Worker, Scan(w)
  PROVE  /\ worker' = [worker EXCEPT ![w] = worker'[w]]
         /\ Fresh(worker'[w], Head(worker[w].lanes)) /\ worker'[w].lanes = worker[w].lanes
<1> DEFINE l   == Head(worker[w].lanes)
           n   == worker[w].left
           new == Snapshot(w, l, n)
<1>1. worker[w].lanes \in Seq(Lane) /\ worker[w].lanes # <<>> /\ n \in Nat
  BY DEF Scan, Typed, TypeOK, WorkerState, LanesLeft
<1>2. l \in Lane
  BY <1>1
<1> HIDE DEF l, n
<1>3. /\ new.pc = "take" /\ new.lanes = worker[w].lanes
      /\ new.plan = Candidates(l) /\ new.room = Room(l, n)
  BY DEF Snapshot, Typed, TypeOK, WorkerState
<1>4. worker' = [worker EXCEPT ![w] = new]
  BY DEF Scan, l, n
<1> HIDE DEF new
<1>5. worker'[w] = new
  BY <1>4 DEF Typed, TypeOK
<1>6. QED
  BY <1>1, <1>2, <1>3, <1>4, <1>5 DEF Fresh, l

\* Any other step leaves a statement alone or ends it.
LEMMA OthersStop ==
  ASSUME Typed, NEW w \in Worker,
         \/ Take(w) \/ LeaseFails(w) \/ Restart(w)
         \/ \E r \in Run : Finish(w, r)
  PROVE  /\ worker' = [worker EXCEPT ![w] = worker'[w]]
         /\ \/ worker'[w].pc # "take" /\ Range(worker'[w].lanes) \subseteq Range(worker[w].lanes)
            \/ /\ worker'[w].pc = worker[w].pc /\ worker'[w].lanes = worker[w].lanes
               /\ worker'[w].plan = worker[w].plan /\ worker'[w].room = worker[w].room
<1>1. \A held \in SUBSET Run : /\ [IdleWorker EXCEPT !.held = held].pc # "take"
                               /\ Range([IdleWorker EXCEPT !.held = held].lanes) = {}
  BY DEF IdleWorker, Range
<1>2. worker[w] \in WorkerState /\ Mine(w) \cup Taken(w) \subseteq Run
  BY TakenType DEF Typed, TypeOK, WorkerState, Mine
<1>3. CASE LeaseFails(w)
  <2>1. worker[w].held \in SUBSET Run
    BY <1>2 DEF WorkerState
  <2>2. QED
    BY <1>1, <1>3, <2>1 DEF LeaseFails, Typed, TypeOK
<1>4. CASE Restart(w)
  BY <1>4 DEF Restart, Typed, TypeOK, IdleWorker, Range
<1>5. CASE \E r \in Run : Finish(w, r)
  BY <1>2, <1>5 DEF Finish, Typed, TypeOK, WorkerState
<1>6. CASE Take(w)
  <2> DEFINE rest == Tail(worker[w].lanes)
             mine == Taken(w) \cup Mine(w)
             more == Scanning(rest, Left(w), worker[w].held, mine \ worker[w].held)
  <2>1. mine \in SUBSET Run /\ worker[w].lanes \in Seq(Lane) /\ worker[w].lanes # <<>>
    BY <1>2, <1>6 DEF WorkerState, Typed, LanesLeft, Take
  <2>2. Range(rest) \subseteq Range(worker[w].lanes)
    BY <2>1 DEF Range
  <2>3. more.pc # "take" /\ more.lanes = rest
    BY DEF Scanning, IdleWorker
  <2>4. \/ worker' = [worker EXCEPT ![w] = [IdleWorker EXCEPT !.held = mine]]
        \/ worker' = [worker EXCEPT ![w] = more]
    BY <1>6 DEF Take, Scanning
  <2> HIDE DEF mine, more, rest
  <2>5. QED
    BY <1>1, <2>1, <2>2, <2>3, <2>4 DEF Typed, TypeOK
<1>7. QED
  BY <1>3, <1>4, <1>5, <1>6

LEMMA WorkerMoves ==
  ASSUME Typed, [Next]_vars, NEW w \in Worker
  PROVE  \/ /\ worker'[w].pc # "take"
            /\ Range(worker'[w].lanes) \subseteq Range(worker[w].lanes)
         \/ /\ worker'[w].pc = worker[w].pc /\ worker'[w].lanes = worker[w].lanes
            /\ worker'[w].plan = worker[w].plan /\ worker'[w].room = worker[w].room
         \/ /\ UNCHANGED <<run, lane>> /\ worker[w].pc # "take"
            /\ \E l \in Lane : Fresh(worker'[w], l)
            /\ worker' = [worker EXCEPT ![w] = worker'[w]]
            /\ worker'[w].lanes \in {worker[w].lanes, Lanes[w]}
<1> DEFINE Same == /\ worker'[w].pc = worker[w].pc /\ worker'[w].lanes = worker[w].lanes
                   /\ worker'[w].plan = worker[w].plan /\ worker'[w].room = worker[w].room
<1>1. CASE Begin(w)
  <2>1. Lanes[w] \in Seq(Lane) /\ Lanes[w] # <<>>
    BY <1>1, DispatchAssumption DEF Begin
  <2>2. Head(Lanes[w]) \in Lane
    BY <2>1
  <2>3. UNCHANGED <<run, lane>> /\ worker[w].pc # "take"
    BY <1>1 DEF Begin
  <2>4. QED
    BY <1>1, <2>2, <2>3, BeginIsFresh
<1>2. CASE Scan(w)
  <2>1. UNCHANGED <<run, lane>> /\ worker[w].pc # "take"
    BY <1>2 DEF Scan
  <2>2. Head(worker[w].lanes) \in Lane
    BY <1>2, ScanIsFresh DEF Fresh
  <2>3. QED
    BY <1>2, <2>1, <2>2, ScanIsFresh
<1>3. CASE \/ Take(w) \/ LeaseFails(w) \/ Restart(w)
           \/ \E r \in Run : Finish(w, r)
  BY <1>3, OthersStop
<1>4. ASSUME NEW v \in Worker, v # w, WorkerStep(v) \/ LeaseFails(v) \/ Restart(v)
                                       \/ \E r \in Run : Finish(v, r)
      PROVE  Same
  <2>1. worker' = [worker EXCEPT ![v] = worker'[v]]
    BY <1>4, BeginIsFresh, ScanIsFresh, OthersStop DEF WorkerStep
  <2>2. worker'[w] = worker[w]
    BY <1>4, <2>1 DEF Typed, TypeOK
  <2>3. QED
    BY <2>2
<1>5. ASSUME UNCHANGED worker PROVE Same
  BY <1>5
<1>6. ASSUME NEW r \in Run, RunControl(r) \/ Reclaim(r) PROVE UNCHANGED worker
  BY <1>6, ControlMoves DEF Reclaim, Typed
<1>7. QED
  BY <1>1, <1>2, <1>3, <1>4, <1>5, <1>6 DEF Next, WorkerStep, SetQueuePaused, Tick, vars

LEMMA NextObserves == Next => Observe
BY DEF Next, WorkerStep, Begin, Scan, Take, LeaseFails, Restart, Finish, RunControl,
   SetRunPriority, MoveRunToFront, MoveRunToBack, ClearRunPin, MoveRunToQueue,
   RequestCancel, Control, Reclaim, SetQueuePaused, Tick

-----------------------------------------------------------------------------
(***************************************************************************)
(* A pause.                                                                *)
(***************************************************************************)

\* What is in flight for a quiet lane has an empty plan.
QuietIsPaused ==
  \A l \in quiet :
    /\ lane[l].paused
    /\ \A w \in Worker : InFlight(w, l) => worker[w].plan = <<>>

LEMMA NextQuiet == Typed /\ QuietIsPaused /\ [Next]_vars => QuietIsPaused'
<1> SUFFICES ASSUME Typed, QuietIsPaused, Next PROVE QuietIsPaused'
  BY DEF QuietIsPaused, InFlight, vars
<1> SUFFICES ASSUME NEW l \in quiet'
             PROVE  /\ lane'[l].paused
                    /\ \A w \in Worker : InFlight(w, l)' => worker'[w].plan = <<>>
  BY DEF QuietIsPaused
<1>1. /\ l \in Lane /\ lane'[l].paused
      /\ l \in quiet \/ \A w \in Worker : ~InFlight(w, l)'
  BY NextObserves DEF Observe
<1>2. ASSUME l \in quiet, NEW w \in Worker, InFlight(w, l)'
      PROVE  worker'[w].plan = <<>>
  <2>1. worker'[w].pc = "take" /\ Head(worker'[w].lanes) = l
    BY <1>2 DEF InFlight
  <2>2. CASE worker'[w].pc = worker[w].pc /\ worker'[w].lanes = worker[w].lanes
             /\ worker'[w].plan = worker[w].plan
    BY <1>2, <2>1, <2>2 DEF QuietIsPaused, InFlight
  <2>3. ASSUME NEW m \in Lane, Fresh(worker'[w], m) PROVE worker'[w].plan = <<>>
    BY <1>2, <2>1, <2>3 DEF Fresh, Candidates, QuietIsPaused
  <2>4. QED
    BY <2>1, <2>2, <2>3, WorkerMoves
<1>3. QED
  BY <1>1, <1>2

(* A paused lane withholds new leases: the snapshot of a statement begun    *)
(* after the pause is empty, and what was in flight before is over when the *)
(* lane is quiet.                                                           *)
THEOREM PauseWithholdsAlways == Spec => PauseWithholds
<1>1. Init => QuietIsPaused
  BY InitQuiet DEF QuietIsPaused
<1>2. ASSUME Typed, QuietIsPaused, [Next]_vars, NEW r \in Run, run[r].lane \in quiet,
             run[r].state = "SCHEDULED"
      PROVE  run'[r].state # "PENDING"
  <2>1. SUFFICES ASSUME NEW w \in Worker, Take(w), r \in Taken(w) PROVE FALSE
    BY <1>2, ClaimsAreTaken DEF Typed
  <2>2. /\ r \in Waiting(Head(worker[w].lanes))
        /\ r \in {worker[w].plan[i] : i \in DOMAIN worker[w].plan}
    BY <1>2, <2>1, TakenType DEF Typed
  <2>3. InFlight(w, run[r].lane)
    BY <2>1, <2>2 DEF Take, InFlight, Waiting
  <2>4. worker[w].plan = <<>>
    BY <1>2, <2>3 DEF QuietIsPaused
  <2>5. QED
    BY <2>2, <2>4
<1>3. Typed /\ QuietIsPaused /\ [Next]_vars =>
        [\A r \in Run : run[r].lane \in quiet
             => ~(run[r].state = "SCHEDULED" /\ run'[r].state = "PENDING")]_vars
  BY <1>2
<1>4. QED
  BY InitTyped, NextTyped, NextQuiet, <1>1, <1>3, PTL DEF Spec, PauseWithholds

-----------------------------------------------------------------------------
(***************************************************************************)
(* To the front.                                                           *)
(***************************************************************************)

\* The run that comes before every other of its lane is the head of the list.
FirstIsHead ==
  \A l \in Lane : \A r \in Waiting(l) :
    (\A q \in Waiting(l) \ {r} : Before(r, q)) => Head(PendingInQueue(l)) = r

LEMMA HeadOfList == TypeOK => FirstIsHead
<1> SUFFICES ASSUME TypeOK, NEW l \in Lane, NEW r \in Waiting(l),
                    \A q \in Waiting(l) \ {r} : Before(r, q)
             PROVE  Head(PendingInQueue(l)) = r
  BY DEF FirstIsHead
<1> DEFINE S == Waiting(l)
           s == InOrder(S, Before)
<1>1. S \in SUBSET Run /\ r \in Run /\ run \in [Run -> RunRow]
  BY DEF Waiting, TypeOK
<1>2. \A q \in S : ~Before(q, r)
  BY <1>1, BeforeIsOrder
<1>3. {q \in S : Before(q, r)} = {}
  BY <1>2
<1>4. Rank(S, r) = 0
  BY <1>3, FS_EmptySet DEF Rank
<1>5. s \in Seq(Run) /\ 0 + 1 \in DOMAIN s /\ s[0 + 1] = r
  BY <1>1, <1>4, Listed
<1> HIDE DEF s
<1>6. Head(s) = r
  BY <1>5
<1>7. QED
  BY <1>6 DEF PendingInQueue, s

(* "Run this one next": whatever pins and priorities the runs of the lane   *)
(* have, in whatever states, the new pin is less than all of them, and the  *)
(* list of the lane begins with the run.                                    *)
THEOREM FrontIsFirstAlways == Spec => FrontIsFirst
<1>1. ASSUME TypeOK, TypeOK', FirstIsHead', NEW r \in Run, MoveRunToFront(r),
             run[r].state = "SCHEDULED"
      PROVE  Head(PendingInQueue(run[r].lane)') = r
  <2>1. PICK l \in Lane : l = run[r].lane
    BY <1>1 DEF TypeOK, RunRow
  <2>2. /\ run'[r] = [run[r] EXCEPT !.pin = FrontPin(l)]
        /\ \A q \in Run : q # r => run'[q] = run[q]
    BY <1>1, <2>1 DEF MoveRunToFront, Control, TypeOK
  <2>3. run'[r].lane = l /\ run'[r].state = "SCHEDULED" /\ run'[r].pin = FrontPin(l)
    BY <1>1, <2>1, <2>2 DEF TypeOK, RunRow
  <2>4. FrontPin(l) \in Int /\ \A q \in Run : run[q].lane = l /\ run[q].pin \in Int
                                             => FrontPin(l) < run[q].pin
    BY <1>1, <2>1, FrontPinType
  <2>5. \A q \in Waiting(l)' \ {r} : PinBefore(run'[r].pin, run'[q].pin)
    BY <2>2, <2>3, <2>4 DEF Waiting, PinBefore
  <2>6. r \in Waiting(l)'
    BY <2>3 DEF Waiting
  <2>7. \A q \in Waiting(l)' \ {r} : Before(r, q)'
    BY <2>5 DEF Before
  <2>8. Head(PendingInQueue(l)') = r
    BY <1>1, <2>6, <2>7 DEF FirstIsHead
  <2>9. QED
    BY <2>3, <2>8
<1>2. TypeOK' => FirstIsHead'
  BY HeadOfList, PTL
<1>3. Typed /\ [Next]_vars =>
        [\A r \in Run : MoveRunToFront(r) /\ run[r].state = "SCHEDULED"
                       => Head(PendingInQueue(run[r].lane)') = r]_vars
  BY <1>1, <1>2, NextTyped DEF Typed
<1>4. QED
  BY InitTyped, NextTyped, <1>3, PTL DEF Spec, FrontIsFirst

-----------------------------------------------------------------------------
(***************************************************************************)
(* The view of the operator.                                               *)
(***************************************************************************)

\* The list of fewer runs is within the list of more, in the same order.
LEMMA ListsAgree ==
  ASSUME run \in [Run -> RunRow], NEW S \in SUBSET Run, NEW T \in SUBSET S
  PROVE  LET plan == InOrder(T, Before)  view == InOrder(S, Before) IN
         /\ Range(plan) = T /\ Range(view) = S
         /\ Follows(plan, view)
<1> DEFINE plan == InOrder(T, Before)
           view == InOrder(S, Before)
<1>1. /\ \A i \in DOMAIN plan : plan[i] \in T
      /\ \A r \in T : Rank(T, r) + 1 \in DOMAIN plan /\ plan[Rank(T, r) + 1] = r
      /\ \A i, j \in DOMAIN plan : i < j => Before(plan[i], plan[j])
  BY Listed
<1>2. /\ \A i \in DOMAIN view : view[i] \in S
      /\ \A r \in S : Rank(S, r) + 1 \in DOMAIN view /\ view[Rank(S, r) + 1] = r
  BY Listed
<1>3. \A r \in S : Rank(S, r) \in Int
  BY RankType
<1> HIDE DEF plan, view
<1>4. Range(plan) = T
  BY <1>1 DEF Range
<1>5. Range(view) = S
  BY <1>2 DEF Range
<1>6. ASSUME NEW i \in DOMAIN plan, NEW j \in DOMAIN plan, i < j
      PROVE  \E a, b \in DOMAIN view : a < b /\ view[a] = plan[i] /\ view[b] = plan[j]
  <2>1. plan[i] \in S /\ plan[j] \in S /\ Before(plan[i], plan[j])
    BY <1>1, <1>6
  <2>2. Rank(S, plan[i]) < Rank(S, plan[j])
    BY <2>1, RankGrows
  <2>3. Rank(S, plan[i]) + 1 < Rank(S, plan[j]) + 1
    BY <1>3, <2>1, <2>2
  <2>4. QED
    BY <1>2, <2>1, <2>3
<1>7. QED
  BY <1>4, <1>5, <1>6 DEF Follows, plan, view

(* What an operator sees of a lane is what a statement plans to take: the   *)
(* runs that are due, in the order of the list.                             *)
THEOREM ViewIsDispatchOrderAlways == Spec => ViewIsDispatchOrder
<1> DEFINE Agrees(w) ==
             LET l    == Head(worker'[w].lanes)
                 view == PendingInQueue(l)
                 plan == worker'[w].plan
             IN
             worker[w].pc # "take" /\ worker'[w].pc = "take" /\ ~lane[l].paused
               => /\ Range(plan) = {r \in Range(view) : Due(r)}
                  /\ Follows(plan, view)
<1>1. ASSUME Typed, [Next]_vars, NEW w \in Worker PROVE Agrees(w)
  <2>1. SUFFICES ASSUME NEW l \in Lane, Fresh(worker'[w], l), ~lane[l].paused
                 PROVE  LET view == PendingInQueue(l)  plan == worker'[w].plan IN
                        /\ Range(plan) = {r \in Range(view) : Due(r)}
                        /\ Follows(plan, view)
    BY <1>1, WorkerMoves DEF Fresh
  <2> DEFINE S == Waiting(l)
             T == {r \in S : Due(r)}
  <2>2. worker'[w].plan = InOrder(T, Before) /\ PendingInQueue(l) = InOrder(S, Before)
    BY <2>1 DEF Fresh, Candidates, PendingInQueue
  <2>3. run \in [Run -> RunRow] /\ S \in SUBSET Run /\ T \in SUBSET S
    BY <1>1 DEF Typed, TypeOK, Waiting
  <2> HIDE DEF S
  <2>4. /\ Range(worker'[w].plan) = T /\ Range(PendingInQueue(l)) = S
        /\ Follows(worker'[w].plan, PendingInQueue(l))
    BY <2>2, <2>3, ListsAgree
  <2>5. QED
    BY <2>4
<1>2. Typed /\ [Next]_vars => [\A w \in Worker : Agrees(w)]_vars
  BY <1>1
<1>3. QED
  BY InitTyped, NextTyped, <1>2, PTL DEF Spec, ViewIsDispatchOrder

-----------------------------------------------------------------------------
(***************************************************************************)
(* The limit of a lane.                                                    *)
(***************************************************************************)

\* A statement that has seen all the active runs has no room, or no more than
\* they leave.
RoomIsCurrent ==
  \A w \in Worker, l \in Lane :
    InFlight(w, l) /\ w \notin stale /\ lane[l].limit # NoLimit =>
      worker[w].room = 0 \/ Cardinality(Active(l)) + worker[w].room <= lane[l].limit

\* Nobody gives a lane a limit: an upsert takes it away.
LEMMA LimitStays ==
  ASSUME TypeOK, [Next]_vars, NEW l \in Lane, lane'[l].limit # NoLimit
  PROVE  lane'[l].limit = lane[l].limit /\ lane[l].limit \in Nat
<1>1. ASSUME NEW w \in Worker, Restart(w)
      PROVE  lane'[l] = lane[l]
  BY <1>1 DEF Restart, Upserted
<1>2. ASSUME NEW m \in Lane, NEW b \in BOOLEAN, SetQueuePaused(m, b)
      PROVE  lane'[l].limit = lane[l].limit
  BY <1>2 DEF SetQueuePaused, TypeOK, LaneRow
<1>3. ASSUME NEW r \in Run, RunControl(r) \/ Reclaim(r) PROVE UNCHANGED lane
  BY <1>3, ControlMoves DEF Reclaim
<1>4. ASSUME NEW w \in Worker, \/ WorkerStep(w) \/ LeaseFails(w)
                               \/ \E r \in Run : Finish(w, r)
      PROVE  UNCHANGED lane
  BY <1>4 DEF WorkerStep, Begin, Scan, Take, LeaseFails, Finish
<1>5. lane'[l].limit = lane[l].limit
  BY <1>1, <1>2, <1>3, <1>4 DEF Next, Tick, vars
<1>6. QED
  BY <1>5 DEF TypeOK, LaneRow

LEMMA RoomIsLimited ==
  ASSUME TypeOK, NEW l \in Lane, NEW n \in Nat, lane[l].limit # NoLimit
  PROVE  Room(l, n) = 0 \/ Cardinality(Active(l)) + Room(l, n) <= lane[l].limit
<1> DEFINE A == Cardinality(Active(l))
           m == Room(l, n)
           k == lane[l].limit
<1>1. A \in Nat
  BY RunsAreFinite DEF Active
<1>2. /\ k \in Nat /\ m \in 0..n
      /\ A <= k => m <= k - A
      /\ A > k => m = 0
  BY RoomType
<1> HIDE DEF A, m, k
<1>3. m = 0 \/ A + m <= k
  BY <1>1, <1>2
<1>4. QED
  BY <1>3 DEF A, m, k

\* What is active is no more than before.
LEMMA FewerActive ==
  ASSUME NEW l, Active(l)' \subseteq Active(l)
  PROVE  /\ Cardinality(Active(l)) \in Nat /\ Cardinality(Active(l)') \in Nat
         /\ Cardinality(Active(l)') <= Cardinality(Active(l))
<1>1. IsFiniteSet(Active(l)) /\ Cardinality(Active(l)) \in Nat /\ Cardinality(Active(l)') \in Nat
  BY RunsAreFinite DEF Active
<1>2. QED
  BY <1>1, FS_Subset

LEMMA NextCurrent == Typed /\ RoomIsCurrent /\ [Next]_vars => RoomIsCurrent'
<1>1. CASE UNCHANGED vars
  BY <1>1 DEF RoomIsCurrent, InFlight, Active, vars
<1>2. CASE Next
  <2> SUFFICES ASSUME Typed, RoomIsCurrent, NEW w \in Worker, NEW l \in Lane,
                      InFlight(w, l)', w \notin stale', lane'[l].limit # NoLimit
               PROVE  \/ worker'[w].room = 0
                      \/ Cardinality(Active(l)') + worker'[w].room <= lane'[l].limit
    BY DEF RoomIsCurrent
  <2>1. lane'[l].limit = lane[l].limit /\ lane[l].limit \in Nat /\ lane[l].limit # NoLimit
    BY <1>2, LimitStays DEF Typed
  <2>2. worker'[w].pc = "take" /\ Head(worker'[w].lanes) = l
    BY DEF InFlight
  <2>3. CASE worker'[w].pc = worker[w].pc /\ worker'[w].lanes = worker[w].lanes
             /\ worker'[w].room = worker[w].room
    <3>1. InFlight(w, l)
      BY <2>2, <2>3 DEF InFlight
    <3>2. w \notin stale /\ Active(l)' \subseteq Active(l)
      BY <1>2, <2>2, <3>1, NextObserves DEF Observe, InFlight
    <3>3. worker[w].room = 0 \/ Cardinality(Active(l)) + worker[w].room <= lane[l].limit
      BY <2>1, <3>1, <3>2 DEF RoomIsCurrent
    <3>4. worker[w].room \in Nat
      BY DEF Typed, TypeOK, WorkerState
    <3>5. /\ Cardinality(Active(l)) \in Nat /\ Cardinality(Active(l)') \in Nat
          /\ Cardinality(Active(l)') <= Cardinality(Active(l))
      BY <3>2, FewerActive
    <3>6. QED
      BY <2>1, <2>3, <3>3, <3>4, <3>5
  <2>4. ASSUME NEW m \in Lane, Fresh(worker'[w], m), UNCHANGED <<run, lane>>
        PROVE  worker'[w].room = 0 \/ Cardinality(Active(l)') + worker'[w].room <= lane'[l].limit
    <3>1. m = l /\ Active(l)' = Active(l)
      BY <2>2, <2>4 DEF Fresh, Active
    <3>2. PICK n \in Nat : worker'[w].room = Room(l, n)
      BY <2>4, <3>1 DEF Fresh
    <3>3. QED
      BY <2>1, <3>1, <3>2, RoomIsLimited DEF Typed
  <2>5. QED
    BY <1>2, <2>2, <2>3, <2>4, WorkerMoves
<1>3. QED
  BY <1>1, <1>2

(* The concurrency limit: what a statement takes is no more than its room,  *)
(* which is what the active runs leave, if it has seen all of them.         *)
THEOREM LimitIsKeptAlways == Spec => LimitIsKept
<1>1. Init => RoomIsCurrent
  BY DEF Init, IdleWorker, InFlight, RoomIsCurrent
<1>2. ASSUME Typed, RoomIsCurrent, NEW w \in Worker, NEW l \in Lane, InFlight(w, l),
             Take(w), w \notin stale, Taken(w) # {}, lane[l].limit # NoLimit
      PROVE  Cardinality(Active(l)') <= lane[l].limit
  <2> DEFINE A == Active(l)
             B == Active(l)'
             T == Taken(w)
             m == worker[w].room
  <2>1. /\ T \in SUBSET Run /\ Cardinality(T) \in Nat /\ Cardinality(T) <= m /\ T # {}
        /\ m \in Nat
    BY <1>2, TakenType DEF Typed, TypeOK, WorkerState
  <2>2. B \subseteq A \cup T
    BY <1>2 DEF Active, Take
  <2>3. /\ IsFiniteSet(A) /\ IsFiniteSet(T) /\ IsFiniteSet(A \cup T)
        /\ Cardinality(A) \in Nat /\ Cardinality(A \cap T) \in Nat
        /\ Cardinality(A \cup T) \in Nat /\ Cardinality(B) \in Nat
    BY <2>1, RunsAreFinite DEF Active
  <2>4. m = 0 \/ Cardinality(A) + m <= lane[l].limit
    BY <1>2 DEF RoomIsCurrent
  <2>5. lane[l].limit \in Nat
    BY <1>2 DEF Typed, TypeOK, LaneRow
  <2> HIDE DEF A, B, T, m
  <2>6. Cardinality(T) # 0
    BY <2>1, <2>3, FS_EmptySet
  <2>7. Cardinality(A \cup T) = Cardinality(A) + Cardinality(T) - Cardinality(A \cap T)
    BY <2>3, FS_Union
  <2>8. Cardinality(B) <= Cardinality(A \cup T)
    BY <2>2, <2>3, FS_Subset
  <2>9. Cardinality(B) <= lane[l].limit
    BY <2>1, <2>3, <2>4, <2>5, <2>6, <2>7, <2>8
  <2>10. QED
    BY <2>9 DEF B
<1>3. Typed /\ RoomIsCurrent /\ [Next]_vars =>
        [\A w \in Worker, l \in Lane :
           InFlight(w, l) /\ Take(w) /\ w \notin stale /\ Taken(w) # {}
             /\ lane[l].limit # NoLimit
             => Cardinality(Active(l)') <= lane[l].limit]_vars
  BY <1>2
<1>4. QED
  BY InitTyped, NextTyped, NextCurrent, <1>1, <1>3, PTL DEF Spec, LimitIsKept
=============================================================================
