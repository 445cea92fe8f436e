------------------------------- MODULE Access -------------------------------
(***************************************************************************)
(* Operator accounts, their browser sessions and their reset links         *)
(* (internal/server/auth.go, oidc.go and the middleware of server.go,      *)
(* internal/store/postgres/auth.go, internal/authn).  A request is a       *)
(* goroutine of the HTTP server; each of its statements is one step, and   *)
(* other requests, of this replica or of another one, run in between.      *)
(*                                                                         *)
(* Passwords and tokens are abstract: a caller knows the password or does  *)
(* not, and an account has an epoch, which counts the changes that are to  *)
(* log it out everywhere.                                                  *)
(***************************************************************************)
EXTENDS Naturals, FiniteSets

CONSTANTS
  User,         \* the accounts, by email
  First,        \* the account of PRIMEFLOW_ADMIN_EMAIL
  Req,          \* requests in flight
  Changes,      \* the bodies of PATCH /api/v1/users/{id} that are sent
  Ttl,          \* cfg.SessionTTL and the life of a reset link, in ticks
  MaxFailures,  \* authn.Throttle.MaxFailures
  LockFor,      \* authn.Throttle.LockFor, in ticks
  MaxTime, MaxOps, MaxFaults,  \* bounds on the clock, requests and faults
  Env           \* the faults that occur, a subset of Hazard

(***************************************************************************)
(* listError    ListUsers fails under the guard, which then lets pass      *)
(* revokeError  DeleteUserSessions fails, and the handler ignores it       *)
(* abort        a request ends between two statements: its client goes,    *)
(*              the replica dies                                           *)
(***************************************************************************)
Hazard == {"listError", "revokeError", "abort"}

Role == {"admin", "viewer"}

\* "keep" stands for a field that is not sent.
Change == [role: Role \cup {"keep"}, active: {"yes", "no", "keep"},
           password: BOOLEAN]

ASSUME AccessAssumption ==
  /\ First \in User
  /\ Changes \subseteq Change
  /\ Ttl \in Nat /\ MaxFailures \in Nat \ {0} /\ LockFor \in Nat
  /\ MaxTime \in Nat /\ MaxOps \in Nat /\ MaxFaults \in Nat
  /\ Env \subseteq Hazard

VARIABLES
  user,      \* pf_users
  session,   \* pf_sessions
  link,      \* pf_password_resets
  version,   \* history: the writes to pf_users so far
  req,       \* the requests in flight
  throttle,  \* authn.Throttle.entries, per account
  now, ops, faults

vars == <<user, session, link, version, req, throttle, now, ops, faults>>

\* The password of an account made by single sign-on is known to nobody, until
\* an admin sets one: updateUser does not ask where the account is from.
Absent == [role |-> "none", active |-> FALSE, sso |-> FALSE, password |-> FALSE,
           epoch |-> 0]
Account(role, sso) ==
  [role |-> role, active |-> TRUE, sso |-> sso, password |-> ~sso, epoch |-> 0]
Accounts == {Account(r, s) : r \in Role, s \in BOOLEAN}
Exists(u) == user[u] # Absent

Nothing == [role |-> "keep", active |-> "keep", password |-> FALSE]

(***************************************************************************)
(* Where a request is, before its next statement:                          *)
(*   verify     login, past the throttle: GetUserAuth                      *)
(*   open       login: CreateSession                                       *)
(*   touch      the session is resolved: TouchSession                      *)
(*   admin      an admin's request, past the middleware                    *)
(*   update     UpdateUser                                                 *)
(*   revoke     DeleteUserSessions                                         *)
(*   provision  single sign-on, the account unknown: CreateUser            *)
(*   claims     single sign-on, the role differs: the guard                *)
(*   sync       single sign-on: UpdateUser                                 *)
(*   seed       bootstrapAdmin, no account yet: CreateUser                 *)
(***************************************************************************)
Idle == [pc |-> "idle", id |-> 0, user |-> First, change |-> Nothing,
         session |-> 0, role |-> "none",
         read |-> 0, epoch |-> 0, guard |-> 0, blind |-> FALSE]

At(q, pc) == req[q].pc = pc
Done(q) == req' = [req EXCEPT ![q] = Idle]
Goto(q, pc) == req' = [req EXCEPT ![q].pc = pc]

\* A request arrives.
Arrive(q, r) == /\ At(q, "idle") /\ ops < MaxOps
                /\ ops' = ops + 1
                /\ req' = [req EXCEPT ![q] = [r EXCEPT !.id = ops + 1]]

May(kind) == kind \in Env /\ faults < MaxFaults
Fault(kind) == May(kind) /\ faults' = faults + 1

Admins == {u \in User : user[u].active /\ user[u].role = "admin"}

\* Mutant: an account that is not active counts.
IsLastActiveAdminOfAll(u) ==
  u \in Admins /\ Cardinality({v \in User : user[v].role = "admin"}) <= 1
IsLastActiveAdmin(u) == u \in Admins /\ Cardinality(Admins) <= 1

-----------------------------------------------------------------------------
(* Logging in and out. *)

Locked(u) == throttle[u].until > now

Fail(u) ==
  LET n == throttle[u].failures + 1
  IN  throttle' = [throttle EXCEPT ![u] =
        IF n >= MaxFailures THEN [failures |-> 0, until |-> now + LockFor]
        ELSE [@ EXCEPT !.failures = n]]

Reset(u) == throttle' = [throttle EXCEPT ![u] = [failures |-> 0, until |-> 0]]

Login(q, u) ==
  /\ ~Locked(u)
  /\ Arrive(q, [Idle EXCEPT !.pc = "verify", !.user = u])
  /\ UNCHANGED <<user, session, link, version, throttle, now, faults>>

Verify(q, right) ==
  LET u == req[q].user IN
  /\ At(q, "verify")
  /\ right => user[u].password
  /\ IF Exists(u) /\ user[u].active /\ right
     THEN /\ req' = [req EXCEPT ![q].pc = "open", ![q].read = version,
                                ![q].epoch = user[u].epoch]
          /\ Reset(u)
     ELSE Done(q) /\ Fail(u)
  /\ UNCHANGED <<user, session, link, version, now, ops, faults>>

(***************************************************************************)
(* A session remembers, for the properties, the epoch its login read, and  *)
(* is excused if the accounts were written since or if a revocation that   *)
(* should have ended it was lost.                                          *)
(***************************************************************************)
Open(q) ==
  /\ At(q, "open")
  /\ session' = session \cup
       {[id |-> req[q].id, user |-> req[q].user, expires |-> now + Ttl,
         epoch |-> req[q].epoch, excused |-> req[q].read # version]}
  /\ Done(q)
  /\ UNCHANGED <<user, link, version, throttle, now, ops, faults>>

Logout(s) ==
  /\ s \in session
  /\ session' = session \ {s}
  /\ UNCHANGED <<user, link, version, req, throttle, now, ops, faults>>

-----------------------------------------------------------------------------
(* The middleware: GetSession, then TouchSession, then the role. *)

Resolve(q, s) ==
  /\ s \in session /\ s.expires > now /\ user[s.user].active
  /\ Arrive(q, [Idle EXCEPT !.pc = "touch", !.session = s.id,
                            !.user = s.user, !.role = user[s.user].role])
  /\ UNCHANGED <<user, session, link, version, throttle, now, faults>>

\* Mutant: the row is written back whether it is still there or not.
TouchedAnew(q) ==
  {s \in session : s.id # req[q].session} \cup
  {[id |-> req[q].session, user |-> req[q].user, expires |-> now + Ttl,
    epoch |-> user[req[q].user].epoch, excused |-> FALSE]}
Touched(q) ==
  {IF s.id = req[q].session THEN [s EXCEPT !.expires = now + Ttl] ELSE s :
     s \in session}

Touch(q) ==
  /\ At(q, "touch")
  /\ session' = Touched(q)
  /\ IF req[q].role = "admin" THEN Goto(q, "admin") ELSE Done(q)
  /\ UNCHANGED <<user, link, version, throttle, now, ops, faults>>

\* The static token is an admin and has no session.
MachineCall(q) ==
  /\ Arrive(q, [Idle EXCEPT !.pc = "admin"])
  /\ UNCHANGED <<user, session, link, version, throttle, now, faults>>

-----------------------------------------------------------------------------
(* What an admin does with the accounts. *)

CreateUser(q, u, role) ==
  /\ At(q, "admin")
  /\ user' = IF Exists(u) THEN user ELSE [user EXCEPT ![u] = Account(role, FALSE)]
  /\ version' = IF Exists(u) THEN version ELSE version + 1
  /\ Done(q)
  /\ UNCHANGED <<session, link, throttle, now, ops, faults>>

Guarded(c) == c.active = "no" \/ c.role \notin {"keep", "admin"}

Revokes(c) == c.role # "keep" \/ c.active = "no" \/ c.password

\* The guard of the last active admin reads the table and is done with it;
\* `guard` remembers what it saw, `blind` that it could not.
Asks(q, u, c, pc) ==
  /\ Guarded(c) => ~IsLastActiveAdmin(u)
  /\ req' = [req EXCEPT ![q].pc = pc, ![q].user = u, ![q].change = c,
                        ![q].guard = version]

AsksBlind(q, u, c, pc) ==
  /\ Guarded(c)
  /\ Fault("listError")
  /\ req' = [req EXCEPT ![q].pc = pc, ![q].user = u, ![q].change = c,
                        ![q].blind = TRUE]

Unchanged == UNCHANGED <<user, session, link, version, throttle, now, ops>>

UpdateUser(q, u, c) ==
  /\ At(q, "admin")
  /\ \/ Asks(q, u, c, "update") /\ UNCHANGED faults
     \/ AsksBlind(q, u, c, "update")
  /\ Unchanged

Refused(q, u, c) ==
  /\ At(q, "admin") /\ Guarded(c) /\ IsLastActiveAdmin(u)
  /\ Done(q)
  /\ Unchanged /\ UNCHANGED faults

Updated(p, c) ==
  [p EXCEPT !.role = IF c.role = "keep" THEN @ ELSE c.role,
            !.active = IF c.active = "keep" THEN @ ELSE c.active = "yes",
            !.password = @ \/ c.password,
            !.epoch = IF Revokes(c) THEN @ + 1 ELSE @]
Written(u, c) == [user EXCEPT ![u] = Updated(@, c)]

\* Mutant: a new password leaves the sessions alone.
WriteKeeping(q) ==
  /\ At(q, "update") /\ Exists(req[q].user)
  /\ user' = Written(req[q].user, req[q].change)
  /\ version' = version + 1
  /\ IF Guarded(req[q].change) THEN Goto(q, "revoke") ELSE Done(q)
  /\ UNCHANGED <<session, link, throttle, now, ops, faults>>
Write(q) ==
  /\ At(q, "update")
  /\ IF Exists(req[q].user)
     THEN /\ user' = Written(req[q].user, req[q].change)
          /\ version' = version + 1
          /\ IF Revokes(req[q].change) THEN Goto(q, "revoke") ELSE Done(q)
     ELSE Done(q) /\ UNCHANGED <<user, version>>
  /\ UNCHANGED <<session, link, throttle, now, ops, faults>>

Excused(u) == {IF s.user = u THEN [s EXCEPT !.excused = TRUE] ELSE s :
                 s \in session}

Revoke(q) ==
  /\ At(q, "revoke")
  /\ \/ /\ session' = {s \in session : s.user # req[q].user}
        /\ UNCHANGED faults
     \/ /\ Fault("revokeError")
        /\ session' = Excused(req[q].user)
  /\ Done(q)
  /\ UNCHANGED <<user, link, version, throttle, now, ops>>

-----------------------------------------------------------------------------
(* Reset links. *)

CreateResetLink(q, u) ==
  /\ At(q, "admin") /\ Exists(u) /\ ~user[u].sso
  /\ link' = link \cup {[id |-> req[q].id, user |-> u, used |-> FALSE,
                         expires |-> now + Ttl]}
  /\ Done(q)
  /\ UNCHANGED <<user, session, version, throttle, now, ops, faults>>

\* ConsumePasswordReset marks the link in the statement that tests it.
ResetPassword(q, l) ==
  /\ l \in link /\ ~l.used /\ l.expires > now
  /\ Arrive(q, [Idle EXCEPT !.pc = "update", !.user = l.user,
                            !.change = [Nothing EXCEPT !.password = TRUE]])
  /\ link' = (link \ {l}) \cup {[l EXCEPT !.used = TRUE]}
  /\ UNCHANGED <<user, session, version, throttle, now, faults>>

-----------------------------------------------------------------------------
(* Single sign-on: the callback with the claims of the provider. *)

\* GetUserByEmail, and what follows from it.
Callback(q, u, role) ==
  LET r == [Idle EXCEPT !.user = u, !.change = [Nothing EXCEPT !.role = role],
                        !.read = version, !.epoch = user[u].epoch]
  IN
  /\ Exists(u) => user[u].active
  /\ Arrive(q, [r EXCEPT !.pc =
        IF ~Exists(u) THEN "provision"
        ELSE IF user[u].sso /\ user[u].role # role THEN "claims" ELSE "open"])
  /\ UNCHANGED <<user, session, link, version, throttle, now, faults>>

\* Another callback may have provisioned the account: a conflict, and a 409.
Provision(q) ==
  LET u == req[q].user IN
  /\ At(q, "provision")
  /\ IF Exists(u) THEN Done(q) /\ UNCHANGED <<user, version>>
     ELSE /\ user' = [user EXCEPT ![u] = Account(req[q].change.role, TRUE)]
          /\ version' = version + 1
          /\ req' = [req EXCEPT ![q].pc = "open", ![q].read = version + 1]
  /\ UNCHANGED <<session, link, throttle, now, ops, faults>>

\* A refusal of the guard keeps the role and lets the caller in.
Claims(q) ==
  LET u == req[q].user  c == req[q].change IN
  /\ At(q, "claims")
  /\ \/ Asks(q, u, c, "sync") /\ UNCHANGED faults
     \/ AsksBlind(q, u, c, "sync")
     \/ /\ Guarded(c) /\ IsLastActiveAdmin(u)
        /\ Goto(q, "open") /\ UNCHANGED faults
  /\ Unchanged

\* The sessions of the account stay: each request reads the role anew.
Sync(q) ==
  LET u == req[q].user IN
  /\ At(q, "sync")
  /\ user' = [user EXCEPT ![u].role = req[q].change.role]
  /\ version' = version + 1
  /\ req' = [req EXCEPT ![q].pc = "open",
                        ![q].read = IF @ = version THEN @ + 1 ELSE @]
  /\ UNCHANGED <<session, link, throttle, now, ops, faults>>

-----------------------------------------------------------------------------
(* A replica that starts seeds the first account of an empty table. *)

BootstrapAdmin(q) ==
  /\ \A u \in User : ~Exists(u)
  /\ Arrive(q, [Idle EXCEPT !.pc = "seed", !.user = First])
  /\ UNCHANGED <<user, session, link, version, throttle, now, faults>>

Seed(q) ==
  /\ At(q, "seed")
  /\ IF Exists(First) THEN UNCHANGED <<user, version>>
     ELSE /\ user' = [user EXCEPT ![First] = Account("admin", FALSE)]
          /\ version' = version + 1
  /\ Done(q)
  /\ UNCHANGED <<session, link, throttle, now, ops, faults>>

-----------------------------------------------------------------------------
(* The janitor's sweep, the clock and lost requests. *)

Sweep ==
  /\ session' = {s \in session : s.expires > now}
  /\ link' = {l \in link : l.expires > now /\ ~l.used}
  /\ <<session, link>>' # <<session, link>>
  /\ UNCHANGED <<user, version, req, throttle, now, ops, faults>>

Tick ==
  /\ now < MaxTime
  /\ now' = now + 1
  /\ UNCHANGED <<user, session, link, version, req, throttle, ops, faults>>

\* An update without its revocation leaves the sessions it was to end.
Abort(q) ==
  /\ ~At(q, "idle") /\ Fault("abort")
  /\ session' = IF At(q, "revoke") THEN Excused(req[q].user) ELSE session
  /\ Done(q)
  /\ UNCHANGED <<user, link, version, throttle, now, ops>>

-----------------------------------------------------------------------------
\* An installation that has no accounts yet, or some.
Init ==
  /\ \/ user = [u \in User |-> Absent]
     \/ /\ user \in [User -> {Absent} \cup Accounts]
        /\ user[First] = Account("admin", FALSE)
  /\ session = {} /\ link = {} /\ version = 0
  /\ req = [q \in Req |-> Idle]
  /\ throttle = [u \in User |-> [failures |-> 0, until |-> 0]]
  /\ now = 0 /\ ops = 0 /\ faults = 0

Administer(q) ==
  \/ \E u \in User, r \in Role : CreateUser(q, u, r)
  \/ \E u \in User, c \in Changes : UpdateUser(q, u, c) \/ Refused(q, u, c)
  \/ \E u \in User : CreateResetLink(q, u)
  \/ Write(q) \/ Revoke(q)

SignIn(q) ==
  \/ \E u \in User : Login(q, u)
  \/ \E right \in BOOLEAN : Verify(q, right)
  \/ \E u \in User, r \in Role : Callback(q, u, r)
  \/ Provision(q) \/ Claims(q) \/ Sync(q) \/ Open(q)

Request(q) ==
  \/ \E s \in session : Resolve(q, s)
  \/ Touch(q) \/ MachineCall(q)
  \/ \E l \in link : ResetPassword(q, l)
  \/ BootstrapAdmin(q) \/ Seed(q) \/ Abort(q)

Next ==
  \/ \E q \in Req : SignIn(q) \/ Administer(q) \/ Request(q)
  \/ \E s \in session : Logout(s)
  \/ Sweep \/ Tick

Spec == Init /\ [][Next]_vars

-----------------------------------------------------------------------------
UserRow == [role : Role \cup {"none"}, active : BOOLEAN, sso : BOOLEAN,
            password : BOOLEAN, epoch : Nat]
SessionRow == [id : 1..MaxOps, user : User, expires : 0..(MaxTime + Ttl),
               epoch : Nat, excused : BOOLEAN]
LinkRow == [id : 1..MaxOps, user : User, used : BOOLEAN, expires : 0..(MaxTime + Ttl)]
Call == [pc : {"idle", "verify", "open", "touch", "admin", "update", "revoke",
               "provision", "claims", "sync", "seed"},
         id : 0..MaxOps, user : User, change : Change, session : 0..MaxOps,
         role : Role \cup {"none"}, read : Nat, epoch : Nat, guard : Nat,
         blind : BOOLEAN]
Entry == [failures : 0..(MaxFailures - 1), until : 0..(MaxTime + LockFor)]

\* A request has a number, and the changes that single sign-on makes name a role.
TypeOK ==
  /\ user \in [User -> UserRow] /\ version \in Nat
  /\ session \subseteq SessionRow /\ link \subseteq LinkRow
  /\ req \in [Req -> Call]
  /\ \A q \in Req : /\ ~At(q, "idle") => req[q].id # 0
                    /\ req[q].read <= version /\ req[q].guard <= version
                    /\ req[q].pc \in {"provision", "claims", "sync"}
                         => req[q].change.role \in Role
  /\ throttle \in [User -> Entry]
  /\ now \in 0..MaxTime /\ ops \in 0..MaxOps /\ faults \in 0..MaxFaults

\* The last active admin is never removed (the guard of updateUser, deleteUser
\* and oidcCallback), unless the accounts were written between the guard and
\* the update, or the guard could not read them: no request alone does it,
\* however its fields combine.
AdminRemains ==
  [][Admins # {} /\ Admins' = {}
       => \E q \in Req : /\ req[q].pc \in {"update", "sync"}
                         /\ req[q].guard # version \/ req[q].blind]_vars

\* No session outlives the change that should have ended it: once a role
\* change, a deactivation or a new password is through with its revocation,
\* every session of the account was opened after the change, except by a
\* login that overlapped it, and unless the statement that ends them failed.
SessionsAreCurrent ==
  \A s \in session :
    \/ s.excused
    \/ s.epoch = user[s.user].epoch
    \/ \E q \in Req : At(q, "revoke") /\ req[q].user = s.user

\* A session that was ended stays ended, although a request that resolved it
\* before touches it afterwards.
EndedIsEnded ==
  [][\A s \in session' :
       \/ \E t \in session : t.id = s.id
       \/ \E q \in Req : At(q, "open") /\ req[q].id = s.id]_vars

=============================================================================
