---------------------------- MODULE AccessProofs ----------------------------
(* What holds of Access for any accounts, requests and bodies of changes,   *)
(* whatever the order of their statements and whichever of them fail.       *)
EXTENDS Access, FiniteSetTheorems, TLAPS

-----------------------------------------------------------------------------
(***************************************************************************)
(* The inductive invariants.                                               *)
(***************************************************************************)

\* The request's update may cost an account its place among the admins.
Updates(q) == req[q].pc \in {"update", "sync"} /\ Guarded(req[q].change)

\* Nothing was written since the guard let the request pass.
GuardStands(q) == req[q].guard = version /\ ~req[q].blind

\* While nobody writes, what the guard saw is still so.
GuardOK(q) == Updates(q) /\ GuardStands(q) => ~IsLastActiveAdmin(req[q].user)
GuardsHold == \A q \in Req : GuardOK(q)

\* A sign-in that has read the accounts as they are carries their epoch; an
\* account about to be provisioned starts with the first one.
SignsIn(q) == req[q].pc \in {"open", "claims", "sync"}
EpochOK(q) ==
  /\ SignsIn(q) /\ req[q].read = version => req[q].epoch = user[req[q].user].epoch
  /\ At(q, "provision") => req[q].epoch = 0
EpochsAreRead == \A q \in Req : EpochOK(q)

-----------------------------------------------------------------------------
(* Types. *)

LEMMA IdleType == Idle \in Call /\ Idle.pc = "idle"
BY AccessAssumption DEF Idle, Call, Change, Nothing, Role

LEMMA NothingType ==
  ASSUME NEW role \in Role
  PROVE  /\ [Nothing EXCEPT !.role = role] \in Change
         /\ [Nothing EXCEPT !.role = role].role = role
BY DEF Nothing, Change, Role

LEMMA AccountType ==
  ASSUME NEW role \in Role, NEW sso \in BOOLEAN
  PROVE  Account(role, sso) \in UserRow /\ Account(role, sso).epoch = 0
BY DEF Account, UserRow

LEMMA FaultType ==
  ASSUME TypeOK, NEW kind, Fault(kind) PROVE faults' \in 0..MaxFaults
BY AccessAssumption DEF TypeOK, Fault, May

\* The requests, and what TypeOK says of them.
CallOK(c, n) == /\ c \in Call
                /\ c.pc # "idle" => c.id # 0
                /\ c.read <= n /\ c.guard <= n
                /\ c.pc \in {"provision", "claims", "sync"} => c.change.role \in Role

LEMMA CallsTyped ==
  TypeOK => \A q \in Req : CallOK(req[q], version)
BY DEF TypeOK, CallOK, At

\* One request moves on, the others are as they were.
Moves(q, c) == req' = [req EXCEPT ![q] = c]

LEMMA CallsMove ==
  ASSUME TypeOK, NEW q \in Req, NEW c, CallOK(c, version'), Moves(q, c),
         version' \in Nat, version <= version'
  PROVE  /\ req' \in [Req -> Call] /\ req'[q] = c
         /\ \A p \in Req : p # q => req'[p] = req[p]
         /\ \A p \in Req : CallOK(req'[p], version')
<1>1. req' \in [Req -> Call] /\ req'[q] = c /\ \A p \in Req : p # q => req'[p] = req[p]
  BY DEF TypeOK, Moves, CallOK
<1>2. ASSUME NEW p \in Req PROVE CallOK(req'[p], version')
  <2>1. /\ CallOK(req[p], version) /\ version \in Nat
        /\ req[p].read \in Nat /\ req[p].guard \in Nat
    BY CallsTyped DEF TypeOK, Call
  <2>2. CASE p = q
    BY <1>1, <2>2
  <2>3. CASE p # q
    BY <1>1, <2>1, <2>3 DEF CallOK
  <2>4. QED
    BY <2>2, <2>3
<1>3. QED
  BY <1>1, <1>2

\* What a step leaves, besides the requests, in the form of TypeOK.
StoreOK ==
  /\ user \in [User -> UserRow] /\ version \in Nat
  /\ session \subseteq SessionRow /\ link \subseteq LinkRow
  /\ throttle \in [User -> Entry]
  /\ now \in 0..MaxTime /\ ops \in 0..MaxOps /\ faults \in 0..MaxFaults

LEMMA TypeParts ==
  /\ TypeOK => StoreOK
  /\ StoreOK /\ req \in [Req -> Call] /\ (\A q \in Req : CallOK(req[q], version)) => TypeOK
BY DEF TypeOK, StoreOK, CallOK, At

\* One request moves on, to a call of the right shape, and the accounts are
\* written at most once.
Steps(q, c) ==
  /\ Moves(q, c) /\ CallOK(c, version')
  /\ \/ user' = user /\ version' = version
     \/ version' = version + 1

LEMMA StepType ==
  ASSUME TypeOK, NEW q \in Req, NEW c, Steps(q, c), StoreOK'
  PROVE  TypeOK'
<1>1. version \in Nat /\ version' \in Nat /\ version <= version'
  BY DEF TypeOK, StoreOK, Steps
<1>2. req' \in [Req -> Call] /\ \A p \in Req : CallOK(req'[p], version')
  BY <1>1, CallsMove DEF Steps
<1>3. QED
  BY <1>2, TypeParts DEF TypeOK, StoreOK, CallOK, At

Pcs == {"idle", "verify", "open", "touch", "admin", "update", "revoke",
        "provision", "claims", "sync", "seed"}

LEMMA CallFields ==
  ASSUME TypeOK, NEW q \in Req
  PROVE  /\ req[q] \in Call /\ CallOK(req[q], version) /\ CallOK(Idle, version)
         /\ req[q].user \in User /\ req[q].change \in Change
         /\ req[q].read \in Nat /\ req[q].guard \in Nat /\ req[q].epoch \in Nat
         /\ req[q].id \in 0..MaxOps /\ version \in Nat /\ user \in [User -> UserRow]
         /\ ops \in 0..MaxOps /\ faults \in 0..MaxFaults
         /\ Idle.read = 0 /\ Idle.guard = 0
         /\ req[q].read <= version /\ req[q].guard <= version
<1>1. Idle.read = 0 /\ Idle.guard = 0 /\ Idle.pc = "idle"
  BY DEF Idle
<1>2. QED
  BY <1>1, IdleType, CallsTyped DEF TypeOK, Call, CallOK

\* A request before it is given its number.
Arriving(r) ==
  /\ r \in Call /\ r.read <= version /\ r.guard <= version
  /\ r.pc \in {"provision", "claims", "sync"} => r.change.role \in Role

LEMMA ArriveSteps ==
  ASSUME TypeOK, NEW q \in Req, NEW r, Arriving(r), Arrive(q, r),
         version' = version, user' = user
  PROVE  /\ Steps(q, [r EXCEPT !.id = ops + 1])
         /\ ops' \in 0..MaxOps /\ ops + 1 \in 1..MaxOps /\ req[q].pc = "idle"
<1>1. ops + 1 \in 1..MaxOps /\ ops' = ops + 1
  BY AccessAssumption DEF Arrive, TypeOK
<1>2. CallOK([r EXCEPT !.id = ops + 1], version)
  BY <1>1 DEF CallOK, Call, Arriving
<1>3. QED
  BY <1>1, <1>2 DEF Arrive, Steps, Moves, At

LEMMA GotoSteps ==
  ASSUME TypeOK, NEW q \in Req, NEW pc \in Pcs \ {"provision", "claims", "sync"},
         ~At(q, "idle"), Goto(q, pc),
         (user' = user /\ version' = version) \/ version' = version + 1
  PROVE  Steps(q, [req[q] EXCEPT !.pc = pc])
<1>1. CallOK([req[q] EXCEPT !.pc = pc], version)
  BY CallFields DEF CallOK, Call, At, Pcs
<1>2. CallOK([req[q] EXCEPT !.pc = pc], version')
  BY <1>1, CallFields DEF CallOK
<1>3. QED
  BY <1>2 DEF Goto, Moves, Steps

LEMMA DoneSteps ==
  ASSUME TypeOK, NEW q \in Req, Done(q),
         (user' = user /\ version' = version) \/ version' = version + 1
  PROVE  Steps(q, Idle)
<1>1. CallOK(Idle, version')
  BY CallFields, IdleType DEF CallOK
<1>2. QED
  BY <1>1 DEF Done, Moves, Steps

LEMMA ThrottleType ==
  ASSUME TypeOK, NEW u \in User, Fail(u) \/ Reset(u) PROVE throttle' \in [User -> Entry]
<1>1. /\ throttle \in [User -> Entry] /\ throttle[u].failures \in 0..(MaxFailures - 1)
      /\ now \in 0..MaxTime /\ throttle[u] \in Entry
  BY DEF TypeOK, Entry
<1>2. [failures |-> 0, until |-> now + LockFor] \in Entry
      /\ [failures |-> 0, until |-> 0] \in Entry
  BY <1>1, AccessAssumption DEF Entry
<1>3. CASE Reset(u)
  BY <1>1, <1>2, <1>3 DEF Reset
<1>4. CASE Fail(u)
  <2>1. CASE throttle[u].failures + 1 >= MaxFailures
    BY <1>1, <1>2, <1>4, <2>1 DEF Fail
  <2>2. CASE ~(throttle[u].failures + 1 >= MaxFailures)
    <3>1. throttle[u].failures + 1 \in 0..(MaxFailures - 1)
      BY <1>1, <2>2, AccessAssumption
    <3>2. throttle' = [throttle EXCEPT ![u] = [@ EXCEPT !.failures = throttle[u].failures + 1]]
      BY <1>4, <2>2 DEF Fail
    <3>3. [throttle[u] EXCEPT !.failures = throttle[u].failures + 1] \in Entry
      BY <1>1, <3>1 DEF Entry
    <3>4. QED
      BY <1>1, <3>2, <3>3
  <2>3. QED
    BY <2>1, <2>2
<1>5. QED
  BY <1>3, <1>4

LEMMA SessionsType ==
  ASSUME TypeOK
  PROVE  /\ \A q \in Req : Touched(q) \subseteq SessionRow
         /\ \A u \in User : Excused(u) \subseteq SessionRow
<1>1. now + Ttl \in 0..(MaxTime + Ttl)
  BY AccessAssumption DEF TypeOK
<1>2. \A s \in session : /\ [s EXCEPT !.expires = now + Ttl] \in SessionRow
                         /\ [s EXCEPT !.excused = TRUE] \in SessionRow
                         /\ s \in SessionRow
  BY <1>1 DEF TypeOK, SessionRow
<1>3. QED
  BY <1>2 DEF Touched, Excused

\* A request that goes on keeps its number.
LEMMA OnSteps ==
  ASSUME TypeOK, NEW q \in Req, ~At(q, "idle"), NEW c \in Call, c.id = req[q].id,
         c.read <= version', c.guard <= version',
         c.pc \in {"provision", "claims", "sync"} => c.change.role \in Role,
         req' = [req EXCEPT ![q] = c],
         (user' = user /\ version' = version) \/ version' = version + 1
  PROVE  Steps(q, c)
<1>1. req[q].id # 0
  BY CallFields DEF CallOK, At
<1>2. QED
  BY <1>1 DEF CallOK, Steps, Moves

LEMMA UpdatedType ==
  ASSUME NEW p \in UserRow, NEW c \in Change
  PROVE  /\ Updated(p, c) \in UserRow
         /\ Updated(p, c).role = IF c.role = "keep" THEN p.role ELSE c.role
         /\ Updated(p, c).active = IF c.active = "keep" THEN p.active ELSE c.active = "yes"
         /\ Updated(p, c).epoch = IF Revokes(c) THEN p.epoch + 1 ELSE p.epoch
<1> DEFINE e == IF Revokes(c) THEN p.epoch + 1 ELSE p.epoch
           a == IF c.active = "keep" THEN p.active ELSE c.active = "yes"
           o == IF c.role = "keep" THEN p.role ELSE c.role
           w == p.password \/ c.password
<1>1. e \in Nat /\ o \in Role \cup {"none"}
  BY DEF UserRow, Change
<1>2. a \in BOOLEAN /\ w \in BOOLEAN
  BY DEF UserRow
<1>3. Updated(p, c) = [p EXCEPT !.role = o, !.active = a, !.password = w, !.epoch = e]
  BY DEF Updated
<1> HIDE DEF e, a, o, w
<1>4. QED
  <2>1. /\ Updated(p, c) \in UserRow /\ Updated(p, c).role = o
        /\ Updated(p, c).active = a /\ Updated(p, c).epoch = e
    BY <1>1, <1>2, <1>3 DEF UserRow
  <2>2. QED
    BY <2>1 DEF e, a, o

LEMMA WrittenType ==
  ASSUME TypeOK, NEW u \in User, NEW c \in Change
  PROVE  Written(u, c) \in [User -> UserRow]
<1>1. user \in [User -> UserRow] /\ user[u] \in UserRow
  BY DEF TypeOK
<1>2. Updated(user[u], c) \in UserRow
  BY <1>1, UpdatedType
<1>3. QED
  BY <1>1, <1>2 DEF Written

\* The guard lets the request pass, having read the accounts or not.
LEMMA AskSteps ==
  ASSUME TypeOK, NEW q \in Req, ~At(q, "idle"), NEW u \in User, NEW c \in Change,
         NEW pc \in {"update", "sync"}, pc = "sync" => c.role \in Role,
         \/ Asks(q, u, c, pc) /\ UNCHANGED faults
         \/ AsksBlind(q, u, c, pc),
         Unchanged
  PROVE  StoreOK' /\ \E r : Steps(q, r)
<1>0. /\ req[q] \in Call /\ req \in [Req -> Call] /\ CallOK(req[q], version)
      /\ version \in Nat /\ pc \in Pcs /\ StoreOK
  BY CallFields, TypeParts DEF TypeOK, Pcs
<1>1. StoreOK'
  BY <1>0, FaultType DEF Unchanged, StoreOK, AsksBlind
<1>2. CASE Asks(q, u, c, pc)
  <2> DEFINE r == [req[q] EXCEPT !.pc = pc, !.user = u, !.change = c, !.guard = version]
  <2>1. req' = [req EXCEPT ![q] = r]
    BY <1>0, <1>2 DEF Asks, Call
  <2>2. /\ r \in Call /\ r.id = req[q].id /\ r.read = req[q].read /\ r.guard = version
        /\ r.pc = pc /\ r.change = c
    BY <1>0 DEF Call, Pcs
  <2> HIDE DEF r
  <2>3. Steps(q, r)
    <3>1. version' = version /\ user' = user
      BY DEF Unchanged
    <3>2. r.read <= version' /\ r.guard <= version'
      BY <2>2, <3>1, CallFields
    <3>3. QED
      BY <2>1, <2>2, <3>1, <3>2, OnSteps
  <2>4. QED
    BY <1>1, <2>3
<1>3. CASE AsksBlind(q, u, c, pc)
  <2> DEFINE r == [req[q] EXCEPT !.pc = pc, !.user = u, !.change = c, !.blind = TRUE]
  <2>1. req' = [req EXCEPT ![q] = r]
    BY <1>0, <1>3 DEF AsksBlind, Call
  <2>2. /\ r \in Call /\ r.id = req[q].id /\ r.read = req[q].read
        /\ r.guard = req[q].guard /\ r.pc = pc /\ r.change = c
    BY <1>0 DEF Call, Pcs
  <2> HIDE DEF r
  <2>3. Steps(q, r)
    BY <1>0, <2>1, <2>2, CallFields, OnSteps DEF Unchanged
  <2>4. QED
    BY <1>1, <2>3
<1>4. QED
  BY <1>2, <1>3

-----------------------------------------------------------------------------
(* Signing in. *)

LEMMA SignInType ==
  ASSUME TypeOK, NEW q \in Req, SignIn(q)
  PROVE  StoreOK' /\ \E c : Steps(q, c)
<1>0. StoreOK /\ req[q] \in Call /\ CallOK(req[q], version)
  BY TypeParts, CallFields
<1>1. ASSUME NEW u \in User, Login(q, u) PROVE StoreOK' /\ \E c : Steps(q, c)
  <2>1. Arriving([Idle EXCEPT !.pc = "verify", !.user = u])
    <3>1. /\ [Idle EXCEPT !.pc = "verify", !.user = u] \in Call
          /\ [Idle EXCEPT !.pc = "verify", !.user = u].pc = "verify"
          /\ [Idle EXCEPT !.pc = "verify", !.user = u].read = Idle.read
          /\ [Idle EXCEPT !.pc = "verify", !.user = u].guard = Idle.guard
      BY IdleType DEF Call
    <3>2. QED
      BY <3>1, CallFields DEF Arriving
  <2>2. QED
    BY <1>0, <1>1, <2>1, ArriveSteps DEF Login, StoreOK
<1>2. ASSUME NEW right \in BOOLEAN, Verify(q, right) PROVE StoreOK' /\ \E c : Steps(q, c)
  <2>1. user[req[q].user].epoch \in Nat /\ req[q].user \in User
    BY CallFields DEF UserRow
  <2>2. throttle' \in [User -> Entry]
    BY <1>2, <2>1, ThrottleType DEF Verify
  <2>3. StoreOK'
    BY <1>0, <1>2, <2>2 DEF Verify, StoreOK
  <2> DEFINE good == Exists(req[q].user) /\ user[req[q].user].active /\ right
  <2>4. CASE ~good
    BY <1>2, <2>3, <2>4, DoneSteps DEF Verify
  <2>5. CASE good
    <3> DEFINE c == [req[q] EXCEPT !.pc = "open", !.read = version,
                                   !.epoch = user[req[q].user].epoch]
    <3>1. CallOK(c, version)
      <4>1. /\ c \in Call /\ c.pc = "open" /\ c.read = version
            /\ c.id = req[q].id /\ c.guard = req[q].guard
        BY <1>0, <2>1, CallFields DEF Call
      <4>2. req[q].id # 0
        BY <1>0, <1>2 DEF Verify, At, CallOK
      <4>3. QED
        BY <1>0, <4>1, <4>2, CallFields DEF CallOK
    <3>2. req' = [req EXCEPT ![q] = c]
      <4>1. req' = [req EXCEPT ![q].pc = "open", ![q].read = version,
                               ![q].epoch = user[req[q].user].epoch]
        BY <1>2, <2>5 DEF Verify
      <4>2. req \in [Req -> Call]
        BY DEF TypeOK
      <4>3. QED
        BY <4>1, <4>2 DEF Call
    <3>3. Steps(q, c)
      BY <1>2, <3>1, <3>2 DEF Verify, Steps, Moves
    <3>4. QED
      BY <2>3, <3>3
  <2>6. QED
    BY <2>4, <2>5
<1>3. ASSUME NEW u \in User, NEW role \in Role, Callback(q, u, role)
      PROVE  StoreOK' /\ \E c : Steps(q, c)
  <2> DEFINE r == [Idle EXCEPT !.user = u, !.change = [Nothing EXCEPT !.role = role],
                               !.read = version, !.epoch = user[u].epoch]
             pc == IF ~Exists(u) THEN "provision"
                   ELSE IF user[u].sso /\ user[u].role # role THEN "claims" ELSE "open"
             a == [r EXCEPT !.pc = pc]
  <2>1. user[u].epoch \in Nat /\ version \in Nat
    BY CallFields DEF UserRow
  <2>2. r \in Call /\ r.read = version /\ r.guard = 0 /\ r.change.role \in Role
    BY <2>1, IdleType, NothingType DEF Call, Idle
  <2>3. pc \in {"provision", "claims", "open"}
    OBVIOUS
  <2> HIDE DEF r, pc
  <2>4. a \in Call /\ a.read = version /\ a.guard = 0 /\ a.change = r.change
    BY <2>2, <2>3 DEF Call
  <2> HIDE DEF a
  <2>5. Arriving(a)
    BY <2>2, <2>4, <2>1 DEF Arriving
  <2>6. Arrive(q, a)
    BY <1>3 DEF Callback, a, r, pc
  <2>7. QED
    BY <1>0, <1>3, <2>5, <2>6, ArriveSteps DEF Callback, StoreOK
<1>4. CASE Provision(q)
  <2>1. req[q].user \in User /\ req[q].change.role \in Role
    BY <1>0, <1>4, CallFields DEF Provision, At, CallOK
  <2>2. CASE Exists(req[q].user)
    BY <1>0, <1>4, <2>2, DoneSteps DEF Provision, StoreOK
  <2>3. CASE ~Exists(req[q].user)
    <3> DEFINE c == [req[q] EXCEPT !.pc = "open", !.read = version + 1]
    <3>1. /\ c \in Call /\ c.pc = "open" /\ c.read = version + 1
          /\ c.id = req[q].id /\ c.guard = req[q].guard
      <4>1. version + 1 \in Nat
        BY CallFields
      <4>2. QED
        BY <1>0, <4>1 DEF Call
    <3>2. req' = [req EXCEPT ![q] = c] /\ version' = version + 1 /\ ~At(q, "idle")
      BY <1>0, <1>4, <2>3 DEF Provision, TypeOK, Call, At
    <3> HIDE DEF c
    <3>3. Steps(q, c)
      <4>1. c.read <= version' /\ c.guard <= version'
        BY <3>1, <3>2, CallFields
      <4>2. QED
        BY <3>1, <3>2, <4>1, OnSteps
    <3>4. user' \in [User -> UserRow] /\ version' \in Nat
      <4>1. user' = [user EXCEPT ![req[q].user] = Account(req[q].change.role, TRUE)]
        BY <1>4, <2>3 DEF Provision
      <4>2. QED
        <5>1. Account(req[q].change.role, TRUE) \in UserRow
          BY <2>1, AccountType
        <5>2. user \in [User -> UserRow] /\ version + 1 \in Nat
          BY CallFields
        <5>3. QED
          BY <2>1, <3>2, <4>1, <5>1, <5>2
    <3>5. QED
      BY <1>0, <1>4, <3>3, <3>4 DEF Provision, StoreOK
  <2>4. QED
    BY <2>2, <2>3
<1>5. CASE Claims(q)
  <2>1. /\ req[q].user \in User /\ req[q].change \in Change /\ req[q].change.role \in Role
        /\ ~At(q, "idle")
    BY <1>0, <1>5, CallFields DEF Claims, At, CallOK
  <2>2. CASE Goto(q, "open") /\ UNCHANGED faults
    BY <1>0, <1>5, <2>1, <2>2, GotoSteps DEF Claims, Unchanged, StoreOK, Pcs
  <2>3. CASE ~(Goto(q, "open") /\ UNCHANGED faults)
    BY <1>5, <2>1, <2>3, AskSteps DEF Claims
  <2>4. QED
    BY <2>2, <2>3
<1>6. CASE Sync(q)
  <2>1. /\ req[q].user \in User /\ req[q].change.role \in Role
        /\ ~At(q, "idle") /\ version' = version + 1
    BY <1>0, <1>6, CallFields DEF Sync, At, CallOK
  <2> DEFINE n == IF req[q].read = version THEN req[q].read + 1 ELSE req[q].read
             c == [req[q] EXCEPT !.pc = "open", !.read = n]
  <2>2. n \in Nat /\ n <= version + 1
    BY <1>0, CallFields DEF CallOK
  <2>3. req' = [req EXCEPT ![q] = c]
    BY <1>0, <1>6 DEF Sync, TypeOK, Call
  <2> HIDE DEF n
  <2>4. /\ c \in Call /\ c.pc = "open" /\ c.read = n
        /\ c.id = req[q].id /\ c.guard = req[q].guard
    BY <1>0, <2>2, CallFields DEF Call
  <2> HIDE DEF c
  <2>5. Steps(q, c)
    <3>1. c.read <= version' /\ c.guard <= version'
      BY <2>1, <2>2, <2>4, CallFields
    <3>2. QED
      BY <2>1, <2>3, <2>4, <3>1, OnSteps
  <2>6. user' \in [User -> UserRow] /\ version' \in Nat
    BY <1>6, <2>1, CallFields DEF Sync, UserRow
  <2>7. QED
    BY <1>0, <1>6, <2>5, <2>6 DEF Sync, StoreOK
<1>7. CASE Open(q)
  <2>1. req[q].id \in 1..MaxOps
    BY <1>0, <1>7, CallFields DEF Open, At, CallOK
  <2>2. now + Ttl \in 0..(MaxTime + Ttl) /\ (req[q].read # version) \in BOOLEAN
    BY AccessAssumption DEF TypeOK
  <2>3. [id |-> req[q].id, user |-> req[q].user, expires |-> now + Ttl,
         epoch |-> req[q].epoch, excused |-> req[q].read # version] \in SessionRow
    BY <2>1, <2>2, CallFields DEF SessionRow
  <2>4. session' \subseteq SessionRow
    BY <1>0, <1>7, <2>3 DEF Open, StoreOK
  <2>5. QED
    BY <1>0, <1>7, <2>4, DoneSteps DEF Open, StoreOK
<1>8. QED
  BY <1>1, <1>2, <1>3, <1>4, <1>5, <1>6, <1>7 DEF SignIn

-----------------------------------------------------------------------------
(* Administration, and the other requests. *)

LEMMA AdministerType ==
  ASSUME TypeOK, NEW q \in Req, Administer(q)
  PROVE  StoreOK' /\ \E c : Steps(q, c)
<1>0. /\ StoreOK /\ req[q] \in Call /\ req[q].user \in User /\ req[q].change \in Change
      /\ version \in Nat /\ version + 1 \in Nat /\ user \in [User -> UserRow]
  BY TypeParts, CallFields
<1>1. ASSUME NEW u \in User, NEW role \in Role, CreateUser(q, u, role)
      PROVE  StoreOK' /\ \E c : Steps(q, c)
  <2>1. Account(role, FALSE) \in UserRow
    BY AccountType
  <2>2. user' \in [User -> UserRow] /\ version' \in Nat
    BY <1>0, <1>1, <2>1 DEF CreateUser
  <2>3. (user' = user /\ version' = version) \/ version' = version + 1
    BY <1>1 DEF CreateUser
  <2>4. QED
    BY <1>0, <1>1, <2>2, <2>3, DoneSteps DEF CreateUser, StoreOK
<1>2. ASSUME NEW u \in User, NEW c \in Changes, UpdateUser(q, u, c)
      PROVE  StoreOK' /\ \E r : Steps(q, r)
  <2>1. c \in Change /\ ~At(q, "idle")
    BY <1>2, AccessAssumption DEF UpdateUser, At
  <2>2. QED
    BY <1>2, <2>1, AskSteps DEF UpdateUser
<1>3. ASSUME NEW u \in User, NEW c \in Changes, Refused(q, u, c)
      PROVE  StoreOK' /\ \E r : Steps(q, r)
  BY <1>0, <1>3, DoneSteps DEF Refused, Unchanged, StoreOK
<1>4. ASSUME NEW u \in User, CreateResetLink(q, u)
      PROVE  StoreOK' /\ \E r : Steps(q, r)
  <2>1. req[q].id \in 1..MaxOps
    BY <1>4, CallFields DEF CreateResetLink, At, CallOK
  <2>2. now + Ttl \in 0..(MaxTime + Ttl)
    BY AccessAssumption DEF TypeOK
  <2>3. link' \subseteq LinkRow
    <3>1. [id |-> req[q].id, user |-> u, used |-> FALSE, expires |-> now + Ttl] \in LinkRow
      BY <2>1, <2>2 DEF LinkRow
    <3>2. QED
      BY <1>0, <1>4, <3>1 DEF CreateResetLink, StoreOK
  <2>4. QED
    BY <1>0, <1>4, <2>3, DoneSteps DEF CreateResetLink, StoreOK
<1>5. CASE Write(q)
  <2>1. user' \in [User -> UserRow] /\ version' \in Nat
    BY <1>0, <1>5, WrittenType DEF Write
  <2>2. StoreOK'
    BY <1>0, <1>5, <2>1 DEF Write, StoreOK
  <2>3. /\ ~At(q, "idle") /\ "revoke" \in Pcs \ {"provision", "claims", "sync"}
        /\ (user' = user /\ version' = version) \/ version' = version + 1
        /\ Goto(q, "revoke") \/ Done(q)
    BY <1>5 DEF Write, At, Pcs
  <2>4. QED
    BY <2>2, <2>3, GotoSteps, DoneSteps
<1>6. CASE Revoke(q)
  <2>1. session' \subseteq SessionRow /\ faults' \in 0..MaxFaults
    BY <1>0, <1>6, SessionsType, FaultType DEF Revoke, StoreOK
  <2>2. QED
    BY <1>0, <1>6, <2>1, DoneSteps DEF Revoke, StoreOK
<1>7. QED
  BY <1>1, <1>2, <1>3, <1>4, <1>5, <1>6 DEF Administer

LEMMA RequestType ==
  ASSUME TypeOK, NEW q \in Req, Request(q)
  PROVE  StoreOK' /\ \E c : Steps(q, c)
<1>0. /\ StoreOK /\ req[q] \in Call /\ req[q].user \in User /\ req[q].change \in Change
      /\ version \in Nat /\ version + 1 \in Nat /\ user \in [User -> UserRow]
      /\ Idle \in Call /\ Idle.read = 0 /\ Idle.guard = 0
  BY TypeParts, CallFields DEF CallOK
<1>1. ASSUME NEW s \in session, Resolve(q, s) PROVE StoreOK' /\ \E c : Steps(q, c)
  <2> DEFINE r == [Idle EXCEPT !.pc = "touch", !.session = s.id,
                               !.user = s.user, !.role = user[s.user].role]
  <2>1. s.id \in 0..MaxOps /\ s.user \in User /\ user[s.user].role \in Role \cup {"none"}
    BY <1>0 DEF StoreOK, SessionRow, UserRow
  <2>2. r \in Call /\ r.pc = "touch" /\ r.read = 0 /\ r.guard = 0
    BY <1>0, <2>1 DEF Call
  <2>3. Arrive(q, r)
    BY <1>1 DEF Resolve
  <2> HIDE DEF r
  <2>4. Arriving(r)
    BY <1>0, <2>2 DEF Arriving
  <2>5. QED
    BY <1>0, <1>1, <2>3, <2>4, ArriveSteps DEF Resolve, StoreOK
<1>2. CASE Touch(q)
  <2>1. session' \subseteq SessionRow
    BY <1>2, SessionsType DEF Touch
  <2>2. StoreOK'
    BY <1>0, <1>2, <2>1 DEF Touch, StoreOK
  <2>3. /\ ~At(q, "idle") /\ "admin" \in Pcs \ {"provision", "claims", "sync"}
        /\ user' = user /\ version' = version
        /\ Goto(q, "admin") \/ Done(q)
    BY <1>2 DEF Touch, At, Pcs
  <2>4. QED
    BY <2>2, <2>3, GotoSteps, DoneSteps
<1>3. CASE MachineCall(q)
  <2> DEFINE r == [Idle EXCEPT !.pc = "admin"]
  <2>1. r \in Call /\ r.pc = "admin" /\ r.read = 0 /\ r.guard = 0
    BY <1>0 DEF Call
  <2>2. Arrive(q, r)
    BY <1>3 DEF MachineCall
  <2> HIDE DEF r
  <2>3. Arriving(r)
    BY <1>0, <2>1 DEF Arriving
  <2>4. QED
    BY <1>0, <1>3, <2>2, <2>3, ArriveSteps DEF MachineCall, StoreOK
<1>4. ASSUME NEW l \in link, ResetPassword(q, l) PROVE StoreOK' /\ \E c : Steps(q, c)
  <2> DEFINE r == [Idle EXCEPT !.pc = "update", !.user = l.user,
                               !.change = [Nothing EXCEPT !.password = TRUE]]
  <2>1. l \in LinkRow /\ l.user \in User /\ [l EXCEPT !.used = TRUE] \in LinkRow
    BY <1>0 DEF StoreOK, LinkRow
  <2>2. [Nothing EXCEPT !.password = TRUE] \in Change
    BY DEF Nothing, Change
  <2>3. r \in Call /\ r.pc = "update" /\ r.read = 0 /\ r.guard = 0
    BY <1>0, <2>1, <2>2 DEF Call
  <2>4. Arrive(q, r)
    BY <1>4 DEF ResetPassword
  <2> HIDE DEF r
  <2>5. Arriving(r)
    BY <1>0, <2>3 DEF Arriving
  <2>6. link' \subseteq LinkRow
    BY <1>0, <1>4, <2>1 DEF ResetPassword, StoreOK
  <2>7. QED
    BY <1>0, <1>4, <2>4, <2>5, <2>6, ArriveSteps DEF ResetPassword, StoreOK
<1>5. CASE BootstrapAdmin(q)
  <2> DEFINE r == [Idle EXCEPT !.pc = "seed", !.user = First]
  <2>1. r \in Call /\ r.pc = "seed" /\ r.read = 0 /\ r.guard = 0
    BY <1>0, AccessAssumption DEF Call
  <2>2. Arrive(q, r)
    BY <1>5 DEF BootstrapAdmin
  <2> HIDE DEF r
  <2>3. Arriving(r)
    BY <1>0, <2>1 DEF Arriving
  <2>4. QED
    BY <1>0, <1>5, <2>2, <2>3, ArriveSteps DEF BootstrapAdmin, StoreOK
<1>6. CASE Seed(q)
  <2>1. Account("admin", FALSE) \in UserRow
    BY AccountType DEF Role
  <2>2. user' \in [User -> UserRow] /\ version' \in Nat
    BY <1>0, <1>6, <2>1, AccessAssumption DEF Seed
  <2>3. (user' = user /\ version' = version) \/ version' = version + 1
    BY <1>6 DEF Seed
  <2>4. QED
    BY <1>0, <1>6, <2>2, <2>3, DoneSteps DEF Seed, StoreOK
<1>7. CASE Abort(q)
  <2>1. session' \subseteq SessionRow /\ faults' \in 0..MaxFaults
    BY <1>0, <1>7, SessionsType, FaultType DEF Abort, StoreOK
  <2>2. QED
    BY <1>0, <1>7, <2>1, DoneSteps DEF Abort, StoreOK
<1>8. QED
  BY <1>1, <1>2, <1>3, <1>4, <1>5, <1>6, <1>7 DEF Request

LEMMA TypeInit == Init => TypeOK
<1> SUFFICES ASSUME Init PROVE TypeOK
  OBVIOUS
<1>1. Absent \in UserRow
  BY DEF Absent, UserRow
<1>2. user \in [User -> UserRow]
  <2>1. CASE user = [u \in User |-> Absent]
    BY <1>1, <2>1
  <2>2. CASE user \in [User -> {Absent} \cup Accounts]
    <3>1. Accounts \subseteq UserRow
      BY AccountType DEF Accounts
    <3>2. QED
      BY <1>1, <2>2, <3>1
  <2>3. QED
    BY <2>1, <2>2 DEF Init
<1>3. [failures |-> 0, until |-> 0] \in Entry
  BY AccessAssumption DEF Entry
<1>4. /\ req \in [Req -> Call]
      /\ \A q \in Req : CallOK(req[q], version)
  <2>1. CallOK(Idle, 0)
    BY IdleType DEF CallOK, Idle
  <2>2. QED
    BY <2>1, IdleType DEF Init
<1>5. QED
  BY <1>2, <1>3, <1>4, TypeParts, AccessAssumption DEF Init, StoreOK

LEMMA TypeNext == TypeOK /\ [Next]_vars => TypeOK'
<1> SUFFICES ASSUME TypeOK, [Next]_vars PROVE TypeOK'
  OBVIOUS
<1>1. ASSUME NEW q \in Req, SignIn(q) \/ Administer(q) \/ Request(q) PROVE TypeOK'
  BY <1>1, SignInType, AdministerType, RequestType, StepType
<1>2. ASSUME NEW s \in session, Logout(s) PROVE TypeOK'
  BY <1>2 DEF Logout, TypeOK, At
<1>3. CASE Sweep
  BY <1>3 DEF Sweep, TypeOK, At
<1>4. CASE Tick
  BY <1>4, AccessAssumption DEF Tick, TypeOK, At
<1>5. CASE UNCHANGED vars
  BY <1>5 DEF vars, TypeOK, At
<1>6. QED
  BY <1>1, <1>2, <1>3, <1>4, <1>5 DEF Next

\* Accounts, sessions, links, requests and counters keep their shape.
THEOREM TypeCorrect == Spec => []TypeOK
BY TypeInit, TypeNext, PTL DEF Spec

-----------------------------------------------------------------------------
(* What requests know of the accounts. *)

\* A request that waits is told by the version whether it knows them still.
LEMMA OthersKeep ==
  ASSUME TypeOK, NEW q \in Req, NEW c, Steps(q, c), NEW p \in Req, p # q
  PROVE  (GuardOK(p) => GuardOK(p)') /\ (EpochOK(p) => EpochOK(p)')
<1>1. req'[p] = req[p]
  BY DEF Steps, Moves, TypeOK
<1>2. /\ version \in Nat /\ req[p].read \in Nat /\ req[p].guard \in Nat
      /\ req[p].read <= version /\ req[p].guard <= version
  BY CallFields
<1>3. CASE user' = user /\ version' = version
  BY <1>1, <1>3 DEF GuardOK, EpochOK, Updates, GuardStands, SignsIn, At,
                    IsLastActiveAdmin, Admins
<1>4. CASE version' = version + 1
  <2>1. req[p].read # version' /\ req[p].guard # version'
    BY <1>2, <1>4
  <2>2. QED
    BY <1>1, <2>1 DEF GuardOK, EpochOK, Updates, GuardStands, SignsIn, At
<1>5. QED
  BY <1>3, <1>4 DEF Steps

\* Where a request neither signs in nor updates.
Elsewhere == {"idle", "verify", "touch", "admin", "revoke", "seed"}

LEMMA ElsewhereOK ==
  ASSUME NEW q \in Req, req'[q].pc \in Elsewhere
  PROVE  GuardOK(q)' /\ EpochOK(q)'
BY DEF Elsewhere, GuardOK, EpochOK, Updates, SignsIn, At

LEMMA PlainSteps ==
  ASSUME TypeOK, NEW q \in Req,
         \/ \E u \in User : Login(q, u)
         \/ \E right \in BOOLEAN : Verify(q, right)
              /\ ~(Exists(req[q].user) /\ user[req[q].user].active /\ right)
         \/ Open(q)
         \/ \E u \in User, r \in Role : CreateUser(q, u, r)
         \/ \E u \in User, c \in Changes : Refused(q, u, c)
         \/ \E u \in User : CreateResetLink(q, u)
         \/ Write(q) \/ Revoke(q)
         \/ \E s \in session : Resolve(q, s)
         \/ Touch(q) \/ MachineCall(q)
         \/ BootstrapAdmin(q) \/ Seed(q) \/ Abort(q)
  PROVE  req'[q].pc \in Elsewhere
<1>1. req \in [Req -> Call] /\ Idle \in Call /\ Idle.pc \in Elsewhere /\ req[q] \in Call
  BY IdleType, CallFields DEF TypeOK, Elsewhere
<1>2. CASE Done(q)
  BY <1>1, <1>2 DEF Done
<1>3. ASSUME NEW pc \in Elsewhere, Goto(q, pc) PROVE req'[q].pc \in Elsewhere
  BY <1>1, <1>3 DEF Goto, Call
<1>4. ASSUME NEW u \in User, Login(q, u) PROVE req'[q].pc = "verify"
  BY <1>1, <1>4 DEF Login, Arrive, Idle
<1>5. ASSUME NEW s \in session, Resolve(q, s) PROVE req'[q].pc = "touch"
  BY <1>1, <1>5 DEF Resolve, Arrive, Idle
<1>6. ASSUME MachineCall(q) \/ BootstrapAdmin(q) PROVE req'[q].pc \in {"admin", "seed"}
  BY <1>1, <1>6 DEF MachineCall, BootstrapAdmin, Arrive, Idle
<1>7. /\ "revoke" \in Elsewhere /\ "admin" \in Elsewhere
      /\ "verify" \in Elsewhere /\ "touch" \in Elsewhere /\ "seed" \in Elsewhere
  BY DEF Elsewhere
<1>8. ASSUME \/ Open(q) \/ Write(q) \/ Revoke(q) \/ Touch(q) \/ Seed(q) \/ Abort(q)
             \/ \E u \in User, r \in Role : CreateUser(q, u, r)
             \/ \E u \in User, c \in Changes : Refused(q, u, c)
             \/ \E u \in User : CreateResetLink(q, u)
      PROVE  Done(q) \/ Goto(q, "revoke") \/ Goto(q, "admin")
  BY <1>8 DEF Open, Write, Revoke, Touch, Seed, Abort, CreateUser, Refused,
              CreateResetLink
<1>9. ASSUME NEW right \in BOOLEAN, Verify(q, right),
             ~(Exists(req[q].user) /\ user[req[q].user].active /\ right)
      PROVE  Done(q)
  BY <1>9 DEF Verify
<1>10. QED
  BY <1>2, <1>3, <1>4, <1>5, <1>6, <1>7, <1>8, <1>9

\* The guard has let pass what it has seen to be harmless, or has seen nothing.
LEMMA AskKeeps ==
  ASSUME TypeOK, NEW q \in Req, NEW u \in User, NEW c \in Change,
         NEW pc \in {"update", "sync"},
         Asks(q, u, c, pc) \/ AsksBlind(q, u, c, pc), Unchanged
  PROVE  /\ GuardOK(q)' /\ req'[q].pc = pc
         /\ req'[q].read = req[q].read /\ req'[q].epoch = req[q].epoch
         /\ req'[q].user = u
<1>1. req \in [Req -> Call] /\ req[q] \in Call /\ user' = user /\ version' = version
  BY DEF TypeOK, Unchanged
<1>2. CASE Asks(q, u, c, pc)
  <2>1. /\ req'[q].pc = pc /\ req'[q].user = u /\ req'[q].change = c
        /\ req'[q].read = req[q].read /\ req'[q].epoch = req[q].epoch
    BY <1>1, <1>2 DEF Asks, Call
  <2>2. Guarded(c) => ~IsLastActiveAdmin(u)'
    BY <1>1, <1>2 DEF Asks, IsLastActiveAdmin, Admins
  <2>3. QED
    BY <2>1, <2>2 DEF GuardOK, Updates
<1>3. CASE AsksBlind(q, u, c, pc)
  <2>1. /\ req'[q].pc = pc /\ req'[q].blind = TRUE /\ req'[q].user = u
        /\ req'[q].read = req[q].read /\ req'[q].epoch = req[q].epoch
    BY <1>1, <1>3 DEF AsksBlind, Call
  <2>2. QED
    BY <2>1 DEF GuardOK, GuardStands
<1>4. QED
  BY <1>2, <1>3

LEMMA SignInKeeps ==
  ASSUME TypeOK, NEW q \in Req, EpochOK(q), SignIn(q)
  PROVE  GuardOK(q)' /\ EpochOK(q)'
<1>0. /\ req \in [Req -> Call] /\ req[q] \in Call /\ Idle \in Call
      /\ req[q].user \in User /\ req[q].read \in Nat /\ req[q].read <= version
      /\ version \in Nat /\ user \in [User -> UserRow]
  BY CallFields, IdleType DEF TypeOK
<1>1. ASSUME NEW u \in User, Login(q, u) PROVE GuardOK(q)' /\ EpochOK(q)'
  BY <1>1, PlainSteps, ElsewhereOK
<1>2. ASSUME NEW right \in BOOLEAN, Verify(q, right) PROVE GuardOK(q)' /\ EpochOK(q)'
  <2> DEFINE good == Exists(req[q].user) /\ user[req[q].user].active /\ right
  <2>1. CASE ~good
    BY <1>2, <2>1, PlainSteps, ElsewhereOK
  <2>2. CASE good
    <3>1. /\ req'[q].pc = "open" /\ req'[q].user = req[q].user
          /\ req'[q].epoch = user[req[q].user].epoch /\ user' = user
      BY <1>0, <1>2, <2>2 DEF Verify, Call
    <3>2. QED
      BY <3>1 DEF GuardOK, EpochOK, Updates, SignsIn, At
  <2>3. QED
    BY <2>1, <2>2
<1>3. ASSUME NEW u \in User, NEW role \in Role, Callback(q, u, role)
      PROVE  GuardOK(q)' /\ EpochOK(q)'
  <2>1. /\ req'[q].user = u /\ req'[q].epoch = user[u].epoch /\ user' = user
        /\ req'[q].pc \in {"provision", "claims", "open"}
        /\ req'[q].pc = "provision" => ~Exists(u)
    BY <1>0, <1>3 DEF Callback, Arrive, Idle
  <2>2. ~Exists(u) => user[u].epoch = 0
    BY DEF Exists, Absent
  <2>3. QED
    BY <2>1, <2>2 DEF GuardOK, EpochOK, Updates, SignsIn, At
<1>4. CASE Provision(q)
  <2>1. CASE Exists(req[q].user)
    <3>1. req'[q].pc \in Elsewhere
      BY <1>0, <1>4, <2>1 DEF Provision, Done, Idle, Elsewhere
    <3>2. QED
      BY <3>1, ElsewhereOK
  <2>2. CASE ~Exists(req[q].user)
    <3>1. /\ req'[q].pc = "open" /\ req'[q].user = req[q].user
          /\ req'[q].epoch = req[q].epoch
      BY <1>0, <1>4, <2>2 DEF Provision, Call
    <3>2. user'[req[q].user] = Account(req[q].change.role, TRUE)
      BY <1>0, <1>4, <2>2 DEF Provision
    <3>3. user'[req[q].user].epoch = 0 /\ req[q].epoch = 0
      BY <1>4, <3>2 DEF Account, EpochOK, Provision
    <3>4. QED
      BY <3>1, <3>3 DEF GuardOK, EpochOK, Updates, SignsIn, At
  <2>3. QED
    BY <2>1, <2>2
<1>5. CASE Claims(q)
  <2>1. user' = user /\ version' = version /\ SignsIn(q) /\ req[q].change \in Change
    BY <1>5, CallFields DEF Claims, Unchanged, SignsIn, At
  <2>2. CASE Goto(q, "open")
    <3>1. /\ req'[q].pc = "open" /\ req'[q].user = req[q].user
          /\ req'[q].epoch = req[q].epoch /\ req'[q].read = req[q].read
      BY <1>0, <2>2 DEF Goto, Call
    <3>2. QED
      BY <2>1, <3>1 DEF GuardOK, EpochOK, Updates, SignsIn, At
  <2>3. CASE \/ Asks(q, req[q].user, req[q].change, "sync")
             \/ AsksBlind(q, req[q].user, req[q].change, "sync")
    <3>1. /\ GuardOK(q)' /\ req'[q].pc = "sync" /\ req'[q].user = req[q].user
          /\ req'[q].read = req[q].read /\ req'[q].epoch = req[q].epoch
      BY <1>0, <1>5, <2>1, <2>3, AskKeeps DEF Claims
    <3>2. QED
      BY <2>1, <3>1 DEF EpochOK, SignsIn, At
  <2>4. QED
    BY <1>5, <2>2, <2>3 DEF Claims
<1>6. CASE Sync(q)
  <2>1. /\ req'[q].pc = "open" /\ req'[q].user = req[q].user
        /\ req'[q].epoch = req[q].epoch /\ version' = version + 1
        /\ req'[q].read = (IF req[q].read = version THEN req[q].read + 1 ELSE req[q].read)
    BY <1>0, <1>6 DEF Sync, Call
  <2>2. user'[req[q].user].epoch = user[req[q].user].epoch
    BY <1>0, <1>6 DEF Sync, UserRow
  <2>3. req'[q].read = version' => req[q].read = version
    BY <1>0, <2>1
  <2>4. SignsIn(q)
    BY <1>6 DEF Sync, SignsIn, At
  <2>5. QED
    BY <2>1, <2>2, <2>3, <2>4 DEF GuardOK, EpochOK, Updates, SignsIn, At
<1>7. CASE Open(q)
  BY <1>7, PlainSteps, ElsewhereOK
<1>8. QED
  BY <1>1, <1>2, <1>3, <1>4, <1>5, <1>6, <1>7 DEF SignIn

LEMMA AdministerKeeps ==
  ASSUME TypeOK, NEW q \in Req, Administer(q) \/ Request(q)
  PROVE  GuardOK(q)' /\ EpochOK(q)'
<1>1. ASSUME NEW u \in User, NEW c \in Changes, UpdateUser(q, u, c)
      PROVE  GuardOK(q)' /\ EpochOK(q)'
  <2>1. c \in Change
    BY AccessAssumption
  <2>2. GuardOK(q)' /\ req'[q].pc = "update"
    BY <1>1, <2>1, AskKeeps DEF UpdateUser
  <2>3. QED
    BY <2>2 DEF EpochOK, SignsIn, At
<1>2. ASSUME NEW l \in link, ResetPassword(q, l) PROVE GuardOK(q)' /\ EpochOK(q)'
  <2>1. req'[q].pc = "update" /\ req'[q].change = [Nothing EXCEPT !.password = TRUE]
    BY <1>2, IdleType DEF ResetPassword, Arrive, TypeOK, Idle
  <2>2. ~Guarded([Nothing EXCEPT !.password = TRUE])
    BY DEF Guarded, Nothing
  <2>3. QED
    BY <2>1, <2>2 DEF GuardOK, Updates, EpochOK, SignsIn, At
<1>3. CASE \/ \E u \in User, r \in Role : CreateUser(q, u, r)
           \/ \E u \in User, c \in Changes : Refused(q, u, c)
           \/ \E u \in User : CreateResetLink(q, u)
           \/ Write(q) \/ Revoke(q)
           \/ \E s \in session : Resolve(q, s)
           \/ Touch(q) \/ MachineCall(q)
           \/ BootstrapAdmin(q) \/ Seed(q) \/ Abort(q)
  BY <1>3, PlainSteps, ElsewhereOK
<1>4. QED
  BY <1>1, <1>2, <1>3 DEF Administer, Request

Knows == TypeOK /\ GuardsHold /\ EpochsAreRead

LEMMA KnowsInit == Init => Knows
<1> SUFFICES ASSUME Init PROVE GuardsHold /\ EpochsAreRead
  BY TypeInit DEF Knows
<1>1. \A q \in Req : req[q].pc = "idle"
  BY IdleType DEF Init
<1>2. QED
  BY <1>1 DEF GuardsHold, EpochsAreRead, GuardOK, EpochOK, Updates, SignsIn, At

LEMMA KnowsNext == Knows /\ [Next]_vars => Knows'
<1> SUFFICES ASSUME Knows, [Next]_vars PROVE GuardsHold' /\ EpochsAreRead'
  BY TypeNext DEF Knows
<1>1. ASSUME NEW q \in Req, SignIn(q) \/ Administer(q) \/ Request(q)
      PROVE  GuardsHold' /\ EpochsAreRead'
  <2>1. PICK c : Steps(q, c)
    BY <1>1, SignInType, AdministerType, RequestType DEF Knows
  <2>2. GuardOK(q)' /\ EpochOK(q)'
    BY <1>1, SignInKeeps, AdministerKeeps DEF Knows, EpochsAreRead
  <2>3. \A p \in Req : p # q => GuardOK(p)' /\ EpochOK(p)'
    BY <2>1, OthersKeep DEF Knows, GuardsHold, EpochsAreRead
  <2>4. QED
    BY <2>2, <2>3 DEF GuardsHold, EpochsAreRead
<1>2. CASE (\E s \in session : Logout(s)) \/ Sweep \/ Tick \/ UNCHANGED vars
  <2>1. req' = req /\ user' = user /\ version' = version
    BY <1>2 DEF Logout, Sweep, Tick, vars
  <2>2. QED
    BY <2>1 DEF Knows, GuardsHold, EpochsAreRead, GuardOK, EpochOK, Updates,
                GuardStands, SignsIn, At, IsLastActiveAdmin, Admins
<1>3. QED
  BY <1>1, <1>2 DEF Next

-----------------------------------------------------------------------------
(* The last admin. *)

\* What a change that is not guarded, or is to another, leaves of the admins.
LEMMA AdminsStay ==
  ASSUME TypeOK, NEW u \in User, user' \in [User -> UserRow],
         \A v \in User : v # u => user'[v] = user[v],
         Admins # {}, ~IsLastActiveAdmin(u)
  PROVE  Admins' # {}
<1>1. PICK v \in Admins : v # u
  <2>1. CASE u \notin Admins
    BY <2>1
  <2>2. CASE u \in Admins
    <3>1. SUFFICES ASSUME Admins = {u} PROVE FALSE
      BY <2>2
    <3>2. Cardinality(Admins) = 1
      BY <3>1, FS_Singleton
    <3>3. QED
      BY <2>2, <3>2 DEF IsLastActiveAdmin
  <2>3. QED
    BY <2>1, <2>2
<1>2. v \in Admins'
  BY <1>1 DEF Admins
<1>3. QED
  BY <1>2

\* A new account takes no admin's place.
LEMMA NewAccountStays ==
  ASSUME TypeOK, NEW u \in User, ~Exists(u), NEW new, user' = [user EXCEPT ![u] = new]
  PROVE  Admins \subseteq Admins'
<1>1. u \notin Admins /\ \A v \in User : v # u => user'[v] = user[v]
  BY DEF Exists, Absent, Admins, TypeOK
<1>2. QED
  BY <1>1 DEF Admins

\* A change that is not guarded leaves every admin one.
LEMMA UnguardedStays ==
  ASSUME TypeOK, NEW u \in User, NEW c \in Change, ~Guarded(c), user' = Written(u, c)
  PROVE  Admins \subseteq Admins'
<1>1. /\ user'[u] = Updated(user[u], c) /\ user[u] \in UserRow
      /\ \A v \in User : v # u => user'[v] = user[v]
  BY DEF Written, TypeOK
<1>2. c.active \in {"yes", "keep"} /\ c.role \in {"keep", "admin"}
  BY DEF Guarded, Change
<1>3. u \in Admins => user'[u].active /\ user'[u].role = "admin"
  <2>1. u \in Admins => user[u].active /\ user[u].role = "admin"
    BY DEF Admins
  <2>2. /\ c.role = "keep" => user'[u].role = user[u].role
        /\ c.role = "admin" => user'[u].role = "admin"
    BY <1>1, UpdatedType
  <2>3. c.active = "keep" => user'[u].active = user[u].active
    BY <1>1, UpdatedType
  <2>4. c.active = "yes" => user'[u].active = TRUE
    BY <1>1, UpdatedType
  <2>5. QED
    BY <1>2, <2>1, <2>2, <2>3, <2>4
<1>4. QED
  BY <1>1, <1>3 DEF Admins

\* Who writes without the guard's word to rely on.
Unwarranted(q) == req[q].pc \in {"update", "sync"} /\ (req[q].guard # version \/ req[q].blind)

LEMMA WriteStays ==
  ASSUME Knows, NEW q \in Req, Write(q), Admins # {}, Admins' = {}
  PROVE  Unwarranted(q)
<1>1. req[q].user \in User /\ req[q].change \in Change /\ At(q, "update") /\ TypeOK
  BY CallFields DEF Knows, Write
<1>2. user' = Written(req[q].user, req[q].change)
  BY DEF Write, Admins
<1>3. CASE ~Guarded(req[q].change)
  BY <1>1, <1>2, <1>3, UnguardedStays
<1>4. CASE Guarded(req[q].change)
  <2>1. user' \in [User -> UserRow] /\ \A v \in User : v # req[q].user => user'[v] = user[v]
    BY <1>1, <1>2, WrittenType DEF Written, TypeOK
  <2>2. IsLastActiveAdmin(req[q].user)
    BY <1>1, <2>1, AdminsStay
  <2>3. ~GuardStands(q)
    BY <1>1, <1>4, <2>2 DEF Knows, GuardsHold, GuardOK, Updates, At
  <2>4. QED
    BY <1>1, <2>3 DEF GuardStands, Unwarranted, At
<1>5. QED
  BY <1>3, <1>4

LEMMA SyncStays ==
  ASSUME Knows, NEW q \in Req, Sync(q), Admins # {}, Admins' = {}
  PROVE  Unwarranted(q)
<1> DEFINE u == req[q].user
           role == req[q].change.role
<1>1. u \in User /\ role \in Role /\ At(q, "sync") /\ TypeOK
  BY CallFields DEF Knows, Sync, CallOK, At
<1>2. /\ user' = [user EXCEPT ![u].role = role]
      /\ user \in [User -> UserRow]
  BY <1>1 DEF Sync, TypeOK
<1>3. /\ user' \in [User -> UserRow] /\ \A v \in User : v # u => user'[v] = user[v]
      /\ user'[u].role = role /\ user'[u].active = user[u].active
  BY <1>1, <1>2 DEF UserRow
<1>4. role # "admin"
  <2>1. ASSUME role = "admin" PROVE Admins \subseteq Admins'
    BY <1>1, <1>3, <2>1 DEF Admins
  <2>2. QED
    BY <2>1
<1>5. Guarded(req[q].change)
  BY <1>1, <1>4 DEF Guarded, Role
<1>6. IsLastActiveAdmin(u)
  BY <1>1, <1>3, AdminsStay
<1>7. ~GuardStands(q)
  BY <1>1, <1>5, <1>6 DEF Knows, GuardsHold, GuardOK, Updates, At
<1>8. QED
  BY <1>1, <1>7 DEF GuardStands, Unwarranted, At

LEMMA AdminStep ==
  ASSUME Knows, [Next]_vars, Admins # {}, Admins' = {}
  PROVE  \E q \in Req : Unwarranted(q)
<1>1. user' # user
  BY DEF Admins
<1>2. ASSUME NEW q \in Req,
             \/ Write(q) \/ Sync(q) \/ Provision(q) \/ Seed(q)
             \/ \E u \in User, r \in Role : CreateUser(q, u, r)
      PROVE  Write(q) \/ Sync(q)
  <2>1. ASSUME NEW u \in User, NEW r \in Role, CreateUser(q, u, r) PROVE FALSE
    BY <1>1, <2>1, NewAccountStays DEF CreateUser, Knows
  <2>2. ASSUME Provision(q) PROVE FALSE
    BY <1>1, <2>2, CallFields, NewAccountStays DEF Provision, Knows
  <2>3. ASSUME Seed(q) PROVE FALSE
    BY <1>1, <2>3, AccessAssumption, NewAccountStays DEF Seed, Knows
  <2>4. QED
    BY <1>2, <2>1, <2>2, <2>3
<1>3. PICK q \in Req :
        \/ Write(q) \/ Sync(q) \/ Provision(q) \/ Seed(q)
        \/ \E u \in User, r \in Role : CreateUser(q, u, r)
  <2>1. ASSUME NEW q \in Req, SignIn(q)
        PROVE  Sync(q) \/ Provision(q)
    BY <1>1, <2>1 DEF SignIn, Login, Verify, Callback, Claims, Open, Unchanged
  <2>2. ASSUME NEW q \in Req, Administer(q)
        PROVE  Write(q) \/ \E u \in User, r \in Role : CreateUser(q, u, r)
    BY <1>1, <2>2 DEF Administer, UpdateUser, Refused, CreateResetLink, Revoke, Unchanged
  <2>3. ASSUME NEW q \in Req, Request(q) PROVE Seed(q)
    BY <1>1, <2>3 DEF Request, Resolve, Touch, MachineCall, ResetPassword,
                      BootstrapAdmin, Abort
  <2>4. QED
    BY <1>1, <2>1, <2>2, <2>3 DEF Next, Logout, Sweep, Tick, vars
<1>4. QED
  BY <1>2, <1>3, WriteStays, SyncStays

\* An installation with an active admin keeps one, whatever requests overlap, but
\* for a write after the guard's reading of the accounts was outdated by another,
\* or was not possible.
THEOREM AdminRemainsAlways == Spec => AdminRemains
<1>1. Knows /\ [Next]_vars =>
        [Admins # {} /\ Admins' = {}
           => \E q \in Req : /\ req[q].pc \in {"update", "sync"}
                             /\ req[q].guard # version \/ req[q].blind]_vars
  BY AdminStep DEF Unwarranted
<1>2. QED
  BY KnowsInit, KnowsNext, <1>1, PTL DEF Spec, AdminRemains

-----------------------------------------------------------------------------
(***************************************************************************)
(* Sessions.                                                               *)
(***************************************************************************)

\* What a step may make of the sessions, but for opening one: end some, prolong
\* some, excuse some.
Descends(s, t) == /\ t.id = s.id /\ t.user = s.user /\ t.epoch = s.epoch
                  /\ t.excused => s.excused

SessionsDescend == \A s \in session' : \E t \in session : Descends(s, t)

LEMMA SameDescend ==
  ASSUME session' \subseteq session PROVE SessionsDescend
BY DEF SessionsDescend, Descends

LEMMA ExcusedDescend ==
  ASSUME TypeOK, NEW u \in User, session' = Excused(u) PROVE SessionsDescend
<1>1. \A t \in session : Descends(t, t) /\ Descends([t EXCEPT !.excused = TRUE], t)
  BY DEF TypeOK, SessionRow, Descends
<1>2. QED
  BY <1>1 DEF SessionsDescend, Excused

LEMMA TouchedDescend ==
  ASSUME TypeOK, NEW q \in Req, session' = Touched(q) PROVE SessionsDescend
<1>1. \A t \in session : Descends(t, t) /\ Descends([t EXCEPT !.expires = now + Ttl], t)
  BY DEF TypeOK, SessionRow, Descends
<1>2. QED
  BY <1>1 DEF SessionsDescend, Touched

LEMMA SessionStep ==
  ASSUME TypeOK, [Next]_vars
  PROVE  SessionsDescend \/ \E q \in Req : Open(q)
<1>1. ASSUME NEW q \in Req, SignIn(q) PROVE session' = session \/ Open(q)
  BY <1>1 DEF SignIn, Login, Verify, Callback, Provision, Claims, Sync, Unchanged
<1>2. ASSUME NEW q \in Req, Administer(q)
      PROVE  session' \subseteq session \/ session' = Excused(req[q].user)
  BY <1>2 DEF Administer, CreateUser, UpdateUser, Refused, CreateResetLink, Write,
              Revoke, Unchanged
<1>3. ASSUME NEW q \in Req, Request(q)
      PROVE  \/ session' = session \/ session' = Excused(req[q].user)
             \/ session' = Touched(q)
  BY <1>3 DEF Request, Resolve, Touch, MachineCall, ResetPassword,
              BootstrapAdmin, Seed, Abort
<1>4. ASSUME (\E s \in session : Logout(s)) \/ Sweep \/ Tick \/ UNCHANGED vars
      PROVE  session' \subseteq session
  BY <1>4 DEF Logout, Sweep, Tick, vars
<1>5. ASSUME NEW q \in Req,
             \/ session' \subseteq session \/ session' = Excused(req[q].user)
             \/ session' = Touched(q)
      PROVE  SessionsDescend
  BY <1>5, SameDescend, ExcusedDescend, TouchedDescend, CallFields
<1>6. ASSUME NEW q \in Req, SignIn(q) \/ Administer(q) \/ Request(q)
      PROVE  SessionsDescend \/ Open(q)
  BY <1>1, <1>2, <1>3, <1>5, <1>6
<1>7. QED
  BY <1>4, <1>6, SameDescend DEF Next

\* What was logged out, revoked or swept is not put back by a request that had
\* resolved it before.
THEOREM EndedIsEndedAlways == Spec => EndedIsEnded
<1>1. TypeOK /\ [Next]_vars =>
        [\A s \in session' :
           \/ \E t \in session : t.id = s.id
           \/ \E q \in Req : At(q, "open") /\ req[q].id = s.id]_vars
  <2> SUFFICES ASSUME TypeOK, [Next]_vars, NEW s \in session'
               PROVE  \/ \E t \in session : t.id = s.id
                      \/ \E q \in Req : At(q, "open") /\ req[q].id = s.id
    OBVIOUS
  <2>1. CASE SessionsDescend
    BY <2>1 DEF SessionsDescend, Descends
  <2>2. ASSUME NEW q \in Req, Open(q)
        PROVE  (\E t \in session : t.id = s.id) \/ (At(q, "open") /\ req[q].id = s.id)
    BY <2>2 DEF Open
  <2>3. QED
    BY <2>1, <2>2, SessionStep
<1>2. QED
  BY TypeInit, TypeNext, <1>1, PTL DEF Spec, EndedIsEnded

\* A revocation is under way for the account.
Revoking(u) == \E q \in Req : At(q, "revoke") /\ req[q].user = u

SessionOK(s) == s.excused \/ s.epoch = user[s.user].epoch \/ Revoking(s.user)

\* A request that is about to revoke waits, or leaves no session it should have ended.
LEMMA RevokeWaits ==
  ASSUME TypeOK, [Next]_vars, NEW q \in Req, At(q, "revoke")
  PROVE  \/ req'[q] = req[q]
         \/ \A s \in session' : s.user = req[q].user => s.excused
<1>0. req \in [Req -> Call] /\ session \subseteq SessionRow /\ req[q].user \in User
  BY CallFields DEF TypeOK
<1>1. ASSUME NEW p \in Req, p # q, SignIn(p) \/ Administer(p) \/ Request(p)
      PROVE  req'[q] = req[q]
  <2>1. PICK c : Steps(p, c)
    BY <1>1, SignInType, AdministerType, RequestType
  <2>2. QED
    BY <1>0, <1>1, <2>1 DEF Steps, Moves
<1>2. ~SignIn(q)
  BY DEF SignIn, Login, Verify, Callback, Provision, Claims, Sync, Open, Arrive, At
<1>3. Administer(q) => Revoke(q)
  BY DEF Administer, CreateUser, UpdateUser, Refused, CreateResetLink, Write, At
<1>4. Request(q) => Abort(q)
  BY DEF Request, Resolve, Touch, MachineCall, ResetPassword, BootstrapAdmin, Seed,
         Arrive, At
<1>5. ASSUME session' = Excused(req[q].user)
      PROVE  \A s \in session' : s.user = req[q].user => s.excused
  <2> SUFFICES ASSUME NEW s \in session', s.user = req[q].user PROVE s.excused
    OBVIOUS
  <2>1. PICK t \in session :
          s = IF t.user = req[q].user THEN [t EXCEPT !.excused = TRUE] ELSE t
    BY <1>5 DEF Excused
  <2>2. t \in SessionRow /\ t.user = req[q].user
    BY <1>0, <2>1 DEF SessionRow
  <2>3. s = [t EXCEPT !.excused = TRUE]
    BY <2>1, <2>2
  <2>4. s.excused = TRUE
    BY <2>2, <2>3 DEF SessionRow
  <2>5. QED
    BY <2>4
<1>6. CASE Revoke(q)
  <2>1. session' = {s \in session : s.user # req[q].user} \/ session' = Excused(req[q].user)
    BY <1>6 DEF Revoke
  <2>2. QED
    BY <1>5, <2>1
<1>7. CASE Abort(q)
  BY <1>5, <1>7 DEF Abort
<1>8. CASE (\E s \in session : Logout(s)) \/ Sweep \/ Tick \/ UNCHANGED vars
  BY <1>8 DEF Logout, Sweep, Tick, vars
<1>9. QED
  BY <1>1, <1>2, <1>3, <1>4, <1>6, <1>7, <1>8 DEF Next

\* A change of epoch is followed by a revocation.
LEMMA EpochMoves ==
  ASSUME TypeOK, [Next]_vars, NEW u \in User
  PROVE  user'[u].epoch = user[u].epoch \/ Revoking(u)'
<1>0. req \in [Req -> Call] /\ user \in [User -> UserRow] /\ user[u] \in UserRow
  BY DEF TypeOK
<1>1. ASSUME NEW v \in User, NEW role \in Role, NEW sso \in BOOLEAN, ~Exists(v),
             user' = [user EXCEPT ![v] = Account(role, sso)]
      PROVE  user'[u].epoch = user[u].epoch
  <2>1. Account(role, sso).epoch = 0 /\ user[v].epoch = 0
    BY <1>1, AccountType DEF Exists, Absent
  <2>2. QED
    BY <1>0, <1>1, <2>1
<1>2. ASSUME NEW q \in Req, Write(q)
      PROVE  user'[u].epoch = user[u].epoch \/ Revoking(u)'
  <2> DEFINE v == req[q].user
             c == req[q].change
  <2>1. v \in User /\ c \in Change /\ req[q] \in Call
    BY CallFields
  <2>2. CASE ~Exists(v)
    BY <1>2, <2>2 DEF Write
  <2>3. CASE Exists(v) /\ v # u
    BY <1>0, <1>2, <2>1, <2>3 DEF Write, Written
  <2>4. CASE Exists(v) /\ v = u
    <3>1. user'[u] = Updated(user[u], c)
      BY <1>0, <1>2, <2>1, <2>4 DEF Write, Written
    <3>2. CASE ~Revokes(c)
      BY <1>0, <2>1, <3>1, <3>2, UpdatedType
    <3>3. CASE Revokes(c)
      <4>1. Goto(q, "revoke")
        BY <1>2, <2>4, <3>3 DEF Write
      <4>2. req'[q].pc = "revoke" /\ req'[q].user = u
        BY <1>0, <2>1, <2>4, <4>1 DEF Goto, Call
      <4>3. QED
        BY <4>2 DEF Revoking, At
    <3>4. QED
      BY <3>2, <3>3
  <2>5. QED
    BY <2>2, <2>3, <2>4
<1>3. ASSUME NEW q \in Req, SignIn(q) PROVE user'[u].epoch = user[u].epoch
  <2>1. CASE user' = user
    BY <2>1
  <2>2. CASE Provision(q)
    <3>1. req[q].user \in User /\ req[q].change.role \in Role
      BY <2>2, CallFields DEF Provision, At, CallOK
    <3>2. QED
      BY <1>1, <2>2, <3>1 DEF Provision
  <2>3. CASE Sync(q)
    BY <1>0, <2>3 DEF Sync, UserRow
  <2>4. QED
    BY <1>3, <2>1, <2>2, <2>3 DEF SignIn, Login, Verify, Callback, Claims, Open, Unchanged
<1>4. ASSUME NEW q \in Req, Administer(q)
      PROVE  user'[u].epoch = user[u].epoch \/ Write(q)
  <2>1. CASE user' = user
    BY <2>1
  <2>2. ASSUME NEW v \in User, NEW role \in Role, CreateUser(q, v, role)
        PROVE  user'[u].epoch = user[u].epoch
    BY <1>1, <2>2 DEF CreateUser
  <2>3. QED
    BY <1>4, <2>1, <2>2 DEF Administer, UpdateUser, Refused, CreateResetLink, Revoke,
                            Unchanged
<1>5. ASSUME NEW q \in Req, Request(q) PROVE user'[u].epoch = user[u].epoch
  <2>1. CASE user' = user
    BY <2>1
  <2>2. CASE Seed(q)
    BY <1>1, <2>2, AccessAssumption DEF Seed, Role
  <2>3. QED
    BY <1>5, <2>1, <2>2 DEF Request, Resolve, Touch, MachineCall, ResetPassword,
                            BootstrapAdmin, Abort
<1>6. CASE (\E s \in session : Logout(s)) \/ Sweep \/ Tick \/ UNCHANGED vars
  BY <1>6 DEF Logout, Sweep, Tick, vars
<1>7. QED
  BY <1>2, <1>3, <1>4, <1>5, <1>6 DEF Next

LEMMA SessionsNext ==
  ASSUME Knows, SessionsAreCurrent, [Next]_vars
  PROVE  SessionsAreCurrent'
<1> SUFFICES ASSUME NEW s \in session' PROVE SessionOK(s)'
  BY DEF SessionsAreCurrent, SessionOK, Revoking
<1>0. TypeOK /\ \A t \in session : SessionOK(t) /\ t.user \in User
  BY DEF Knows, SessionsAreCurrent, SessionOK, Revoking, TypeOK, SessionRow
<1>1. ASSUME NEW t \in session, Descends(s, t) PROVE SessionOK(s)'
  <2>1. CASE t.excused
    BY <1>1, <2>1 DEF Descends, SessionOK
  <2>2. CASE t.epoch = user[t.user].epoch
    <3>1. user'[t.user].epoch = user[t.user].epoch \/ Revoking(t.user)'
      BY <1>0, EpochMoves
    <3>2. QED
      BY <1>1, <2>2, <3>1 DEF Descends, SessionOK
  <2>3. CASE Revoking(t.user)
    <3>1. PICK q \in Req : At(q, "revoke") /\ req[q].user = t.user
      BY <2>3 DEF Revoking
    <3>2. CASE req'[q] = req[q]
      BY <1>1, <3>1, <3>2 DEF Descends, SessionOK, Revoking, At
    <3>3. CASE \A p \in session' : p.user = req[q].user => p.excused
      BY <1>1, <3>1, <3>3 DEF Descends, SessionOK
    <3>4. QED
      BY <1>0, <3>1, <3>2, <3>3, RevokeWaits
  <2>4. QED
    BY <1>0, <2>1, <2>2, <2>3 DEF SessionOK
<1>2. ASSUME NEW q \in Req, Open(q) PROVE SessionOK(s)'
  <2>1. CASE s \in session
    BY <1>1, <2>1 DEF Descends
  <2>2. CASE s \notin session
    <3>1. /\ s.user = req[q].user /\ s.epoch = req[q].epoch
          /\ s.excused = (req[q].read # version)
          /\ At(q, "open") /\ user' = user
      BY <1>2, <2>2 DEF Open
    <3>2. req[q].read = version => req[q].epoch = user[req[q].user].epoch
      BY <3>1 DEF Knows, EpochsAreRead, EpochOK, SignsIn, At
    <3>3. QED
      BY <3>1, <3>2 DEF SessionOK
  <2>3. QED
    BY <2>1, <2>2
<1>3. QED
  BY <1>0, <1>1, <1>2, SessionStep DEF SessionsDescend

\* A session is of the account as it is, or a revocation is still to come: no
\* session survives a change that is to log its account out, except of a login
\* that overlapped the change and of a revocation that was lost.
THEOREM SessionsAreCurrentAlways == Spec => []SessionsAreCurrent
<1>1. Init => SessionsAreCurrent
  BY DEF Init, SessionsAreCurrent
<1>2. Knows /\ SessionsAreCurrent /\ [Next]_vars => SessionsAreCurrent'
  BY SessionsNext
<1>3. QED
  BY KnowsInit, KnowsNext, <1>1, <1>2, PTL DEF Spec

=============================================================================
