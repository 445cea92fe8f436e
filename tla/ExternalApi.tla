----------------------------- MODULE ExternalApi -----------------------------
(***************************************************************************)
(* The External API (ext and extUpsertQueue of internal/server/external.go,*)
(* internal/server/apikeys.go, internal/apiauth, internal/ratelimit): the  *)
(* callers that present a key, and the operators who edit keys, settings   *)
(* and work pools meanwhile.  Every form is a read, a merge in memory and  *)
(* a write of the whole row, so that edits overlap.                        *)
(*                                                                         *)
(* A secret is a number; its prefix and its hash stand for it.  A tick of  *)
(* the clock is half a minute.  The address list, the client certificate   *)
(* and the scope of a key are further tests of the row ext has read, and   *)
(* are left out with the fields they test.                                 *)
(***************************************************************************)
EXTENDS Naturals, FiniteSets, FiniteSetsExt

CONSTANTS
  Key,          \* ids of keys; a deleted id is not used again
  Req,          \* requests in flight
  KeyBodies, SettingBodies, PoolBodies,   \* what the forms send
  Backlog,      \* numbers of ready runs
  MaxTime, MaxOps, MaxFaults,   \* bounds on the clock, on requests of
                \* operators and workers, and on faults
  Env,          \* a subset of Hazard
  Absent, Gone, \* no row or bucket; a row that was deleted
  Null          \* NULL: no expiry, the default rate, no max_workers

(***************************************************************************)
(* abort    a request ends between two statements                          *)
(* redis    the script of the shared limiter fails                         *)
(***************************************************************************)
Hazard == {"abort", "redis"}

\* A form sends some of the columns; that of a key has no secret.
KeyForm     == [active |-> BOOLEAN, expires |-> {Null} \cup Nat, limit |-> {Null} \cup Nat]
SettingForm == [enabled |-> BOOLEAN, limit |-> Nat]
PoolForm    == [min |-> Nat, max |-> {Null} \cup Nat, type |-> {"pull", "push"},
                endpoint |-> BOOLEAN, secret |-> {"", "s", "t"}, paused |-> BOOLEAN]
Fills(body, form) == \A f \in DOMAIN body : f \in DOMAIN form /\ body[f] \in form[f]

ASSUME ExternalAssumption ==
  /\ MaxTime \in Nat /\ MaxOps \in Nat /\ MaxFaults \in Nat
  /\ Env \subseteq Hazard /\ Backlog \subseteq Nat
  /\ \A body \in KeyBodies : Fills(body, KeyForm)
  /\ \A body \in SettingBodies : Fills(body, SettingForm)
  /\ \A body \in PoolBodies : Fills(body, PoolForm)

VARIABLES
  key,       \* pf_api_keys
  setting,   \* pf_settings, "external_api"
  pool,      \* the row of one work pool in pf_work_queues
  bucket,    \* RateLimiter.buckets; served, since and top are history
  req,       \* the requests
  minted,    \* secrets issued so far
  dead,      \* history: the secrets rotated away or deleted
  now, ops, faults

vars == <<key, setting, pool, bucket, req, minted, dead, now, ops, faults>>
store == <<key, setting, pool, minted, dead>>

KeyRow == [secret: Nat, active: BOOLEAN, expires: Nat \cup {Null},
           limit: Nat \cup {Null}]
Setting == [enabled: BOOLEAN, limit: Nat]
Pool == [min: Nat, max: Nat \cup {Null}, type: {"pull", "push"},
         endpoint: BOOLEAN, secret: {"", "s", "t"}, paused: BOOLEAN]
Bucket == [tokens: Nat, last: Nat, served: Nat, since: Nat, top: Nat]

NewPool == [min |-> 0, max |-> Null, type |-> "pull", endpoint |-> FALSE,
            secret |-> "", paused |-> FALSE]

(***************************************************************************)
(* A request about to do its next statement: save a key, forget a bucket,  *)
(* put the settings, upsert the pool; or, a caller, look its key up and    *)
(* take a token.                                                           *)
(***************************************************************************)
Idle == [pc |-> "idle"]
Request ==
  {Idle}
  \cup [pc: {"save"}, key: Key, row: KeyRow] \cup [pc: {"rotate", "forget"}, key: Key]
  \cup [pc: {"put"}, row: Setting]           \cup [pc: {"upsert"}, row: Pool]
  \cup [pc: {"lookup"}, secret: Nat, default: Nat, dead: SUBSET Nat]
  \cup [pc: {"limit"}, key: Key, secret: Nat, limit: Nat, dead: SUBSET Nat]

Exists(k) == key[k] \notin {Absent, Gone}

Operate(q) == req[q] = Idle /\ ops < MaxOps /\ ops' = ops + 1
Go(q, to) == req' = [req EXCEPT ![q] = to]
Rest == UNCHANGED <<bucket, now, faults>>

\* What is sent is decoded over what is there.
Merged(body, row) == [f \in DOMAIN row |-> IF f \in DOMAIN body THEN body[f] ELSE row[f]]

Fault(kind) == kind \in Env /\ faults < MaxFaults /\ faults' = faults + 1

-----------------------------------------------------------------------------
(* Keys.                                                                   *)

\* createAPIKey: a pointer that is not sent takes the default.  A rate of 0,
\* which updateAPIKey turns into NULL, is stored as it is.
CreateAPIKey(q, k, body) ==
  /\ Operate(q)
  /\ key[k] = Absent
  /\ minted' = minted + 1
  /\ key' = [key EXCEPT ![k] =
       Merged(body, [secret |-> minted', active |-> TRUE, expires |-> Null, limit |-> Null])]
  /\ UNCHANGED <<setting, pool, dead, req>> /\ Rest

\* What updateAPIKey makes of the row it has read.
Edited(row, body) ==
  LET new == Merged(body, row) IN [new EXCEPT !.limit = IF @ = 0 THEN Null ELSE @]

ReadAPIKey(q, k, body) ==
  /\ Operate(q)
  /\ Exists(k)
  /\ Go(q, [pc |-> "save", key |-> k, row |-> Edited(key[k], body)])
  /\ UNCHANGED store /\ Rest

\* Mutant: the secret is a column of the UPDATE as well.
UpdatedWhole(k, row) == row

\* UpdateAPIKey: every column but the secret.
Updated(k, row) == [row EXCEPT !.secret = key[k].secret]

\* The row is gone: ErrNotFound.
SaveAPIKey(q) ==
  LET k == req[q].key IN
  /\ req[q].pc = "save"
  /\ IF ~Exists(k)
     THEN Go(q, Idle) /\ UNCHANGED key
     ELSE /\ key' = [key EXCEPT ![k] = Updated(k, req[q].row)]
          /\ Go(q, [pc |-> "forget", key |-> k])
  /\ UNCHANGED <<setting, pool, minted, dead, ops>> /\ Rest

\* rotateAPIKey: GetAPIKey, SetAPIKeySecret, Forget.
ReadToRotate(q, k) ==
  /\ Operate(q)
  /\ Exists(k)
  /\ Go(q, [pc |-> "rotate", key |-> k])
  /\ UNCHANGED store /\ Rest

SetAPIKeySecret(q) ==
  LET k == req[q].key IN
  /\ req[q].pc = "rotate"
  /\ IF ~Exists(k)
     THEN Go(q, Idle) /\ UNCHANGED <<key, minted, dead>>
     ELSE /\ minted' = minted + 1
          /\ key' = [key EXCEPT ![k].secret = minted']
          /\ dead' = dead \cup {key[k].secret}
          /\ Go(q, [pc |-> "forget", key |-> k])
  /\ UNCHANGED <<setting, pool, ops>> /\ Rest

DeleteAPIKey(q, k) ==
  /\ Operate(q)
  /\ Exists(k)
  /\ key' = [key EXCEPT ![k] = Gone]
  /\ dead' = dead \cup {key[k].secret}
  /\ Go(q, [pc |-> "forget", key |-> k])
  /\ UNCHANGED <<setting, pool, minted>> /\ Rest

Forget(q) ==
  /\ req[q].pc = "forget"
  /\ bucket' = [bucket EXCEPT ![req[q].key] = Absent]
  /\ Go(q, Idle)
  /\ UNCHANGED <<store, now, ops, faults>>

\* putExternalAPISettings
ReadSettings(q, body) ==
  /\ Operate(q)
  /\ Go(q, [pc |-> "put", row |-> Merged(body, setting)])
  /\ UNCHANGED store /\ Rest

PutSettings(q) ==
  /\ req[q].pc = "put"
  /\ setting' = req[q].row
  /\ Go(q, Idle)
  /\ UNCHANGED <<key, pool, minted, dead, ops>> /\ Rest

-----------------------------------------------------------------------------
(* Work pools.                                                             *)

Valid(p) == /\ p.max # Null => p.min <= p.max
            /\ p.type = "push" => p.endpoint

\* upsertQueue, and extUpsertQueue with a body of its own: the row, or a new
\* one, is read, merged with what was sent, and tested as a whole.
ReadPool(q, body) ==
  LET new == Merged(body, IF pool = Absent THEN NewPool ELSE pool) IN
  /\ Operate(q)
  /\ IF Valid(new) THEN Go(q, [pc |-> "upsert", row |-> new]) ELSE UNCHANGED req
  /\ UNCHANGED store /\ Rest

\* Mutants: the secret as it was sent; a max_workers that is NULL is kept too.
UpsertedPlain(p) == p
UpsertedKeeping(p) ==
  IF pool # Absent /\ p.max = Null THEN [p EXCEPT !.max = pool.max] ELSE p

\* UpsertWorkQueue: an empty secret keeps the stored one.
Upserted(p) == IF pool # Absent /\ p.secret = ""
               THEN [p EXCEPT !.secret = pool.secret] ELSE p

UpsertWorkQueue(q) ==
  /\ req[q].pc = "upsert"
  /\ pool' = Upserted(req[q].row)
  /\ Go(q, Idle)
  /\ UNCHANGED <<key, setting, minted, dead, ops>> /\ Rest

SetPool(new) ==
  /\ ops < MaxOps /\ ops' = ops + 1
  /\ pool' = new
  /\ UNCHANGED <<key, setting, minted, dead, req>> /\ Rest

\* A worker starts and publishes its lanes by name alone (publishCatalogue).
Publish == SetPool(Upserted(NewPool))

\* UpsertDeployment and MoveRunToQueue name a pool that may not exist.
Mention == pool = Absent /\ SetPool(NewPool)

SetQueuePaused(b) == pool # Absent /\ SetPool([pool EXCEPT !.paused = b])

\* The number of workers an autoscaler is told to run (metrics.go).
DesiredWorkers(ready, p) ==
  LET want == Max({p.min, (ready + 4) \div 5})
  IN IF p.max = Null THEN want ELSE Min({want, p.max})

-----------------------------------------------------------------------------
(* ext, the chain of tests in front of every handler.                      *)

\* GetExternalAPISettings; the caller has some secret that was issued.
Arrive(q, s) ==
  /\ req[q] = Idle
  /\ setting.enabled
  /\ Go(q, [pc |-> "lookup", secret |-> s, default |-> setting.limit,
            dead |-> dead])
  /\ UNCHANGED <<store, ops>> /\ Rest

Expired(row) == row.expires # Null /\ now > row.expires

\* GetAPIKeyByPrefix and what is tested on the row it returns.
Lookup(q) ==
  LET c == req[q]
      of == {k \in Key : Exists(k) /\ key[k].secret = c.secret} IN
  /\ c.pc = "lookup"
  /\ IF \E k \in of : key[k].active /\ ~Expired(key[k])
     THEN \E k \in of :
            Go(q, [pc |-> "limit", key |-> k, secret |-> c.secret, dead |-> c.dead,
                   limit |-> IF key[k].limit = Null THEN c.default ELSE key[k].limit])
     ELSE Go(q, Idle)
  /\ UNCHANGED <<store, ops>> /\ Rest

\* Mutant: the moment of the last refill is not written back.
RefilledOften(b, limit) ==
  [b EXCEPT !.tokens = Min({limit, Min({@, limit}) + (now - b.last) * (limit \div 2)})]

\* The tokens of a bucket that adopts limit, limit/2 of them for every tick.
Refilled(b, limit) ==
  [b EXCEPT !.tokens = Min({limit, Min({@, limit}) + (now - b.last) * (limit \div 2)}),
            !.last = now]

Full(limit) == [tokens |-> limit, last |-> now, served |-> 0, since |-> now, top |-> 0]

\* Allow takes one token, if there is one.
Allow(q) ==
  LET c == req[q]
      b == IF bucket[c.key] = Absent THEN Full(c.limit)
           ELSE Refilled(bucket[c.key], c.limit) IN
  /\ c.pc = "limit"
  /\ Go(q, Idle)
  /\ IF c.limit = 0 THEN UNCHANGED bucket
     ELSE bucket' = [bucket EXCEPT ![c.key] =
            IF b.tokens = 0 THEN b
            ELSE [b EXCEPT !.tokens = @ - 1, !.served = @ + 1, !.top = Max({@, c.limit})]]
  /\ UNCHANGED <<store, now, ops, faults>>

\* The shared limiter cannot be asked, and lets the caller pass.
AllowBlind(q) ==
  /\ Fault("redis")
  /\ req[q].pc = "limit"
  /\ Go(q, Idle)
  /\ UNCHANGED <<store, bucket, now, ops>>

-----------------------------------------------------------------------------

Abort(q) ==
  /\ Fault("abort")
  /\ req[q] # Idle
  /\ Go(q, Idle)
  /\ UNCHANGED <<store, bucket, now, ops>>

Tick ==
  /\ now < MaxTime
  /\ now' = now + 1
  /\ UNCHANGED <<store, bucket, req, ops, faults>>

Init ==
  /\ key = [k \in Key |-> Absent]
  /\ setting = [enabled |-> TRUE, limit |-> 2]
  /\ pool = Absent
  /\ bucket = [k \in Key |-> Absent]
  /\ req = [q \in Req |-> Idle]
  /\ minted = 0 /\ dead = {}
  /\ now = 0 /\ ops = 0 /\ faults = 0

Edit(q) ==
  \/ \E k \in Key : \/ \E body \in KeyBodies : CreateAPIKey(q, k, body) \/ ReadAPIKey(q, k, body)
                    \/ ReadToRotate(q, k) \/ DeleteAPIKey(q, k)
  \/ SaveAPIKey(q) \/ SetAPIKeySecret(q) \/ Forget(q)
  \/ \E body \in SettingBodies : ReadSettings(q, body)
  \/ PutSettings(q)
  \/ \E body \in PoolBodies : ReadPool(q, body)
  \/ UpsertWorkQueue(q)

Call(q) == (\E s \in 1..minted : Arrive(q, s)) \/ Lookup(q) \/ Allow(q) \/ AllowBlind(q)

Next ==
  \/ \E q \in Req : Edit(q) \/ Call(q) \/ Abort(q)
  \/ Publish \/ Mention \/ \E b \in BOOLEAN : SetQueuePaused(b)
  \/ Tick

Spec == Init /\ [][Next]_vars

-----------------------------------------------------------------------------

TypeOK ==
  /\ key \in [Key -> KeyRow \cup {Absent, Gone}]
  /\ setting \in Setting
  /\ pool \in Pool \cup {Absent}
  /\ bucket \in [Key -> Bucket \cup {Absent}]
  /\ req \in [Req -> Request]
  /\ dead \subseteq 1..minted
  /\ minted \in Nat /\ now \in 0..MaxTime /\ ops \in 0..MaxOps /\ faults \in 0..MaxFaults

(* A caller that comes after its secret was rotated away or its key was    *)
(* deleted is turned away (SetAPIKeySecret: "the old secret stops working  *)
(* the instant this commits"), whatever saves of the form had read the     *)
(* row before the rotation and write it after.                             *)
RevokedIsRefused ==
  \A q \in Req : req[q].pc = "limit" => req[q].secret \notin req[q].dead

(* The row of a pool makes sense after any overlap of two forms and of a   *)
(* starting worker, each valid for the row it had read: an autoscaler is   *)
(* never told to leave the envelope min_workers..max_workers, and a push   *)
(* pool has an endpoint.                                                   *)
PoolIsSound ==
  pool # Absent =>
    /\ \A n \in Backlog : LET w == DesiredWorkers(n, pool) IN
         w >= pool.min /\ (pool.max # Null => w <= pool.max)
    /\ pool.type = "push" => pool.endpoint

(* Once a pool has a push secret no save takes it away, also not one whose *)
(* read preceded it, nor a worker that publishes the lane.                 *)
SecretIsKept ==
  [][pool # Absent /\ pool.secret # "" => pool'.secret # ""]_vars

(* From the moment its bucket is made a key is served no more than one     *)
(* burst and the refill of the time gone by, at the greatest rate in use,  *)
(* while callers that read the key before and after an edit take turns     *)
(* with different limits.                                                  *)
RateIsBounded ==
  \A k \in Key : bucket[k] # Absent =>
    LET b == bucket[k] IN b.served <= b.top + (now - b.since) * (b.top \div 2)
=============================================================================
