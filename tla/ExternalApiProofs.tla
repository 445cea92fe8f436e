-------------------------- MODULE ExternalApiProofs --------------------------
(* What holds of ExternalApi for every set of keys, forms and requests.    *)
EXTENDS ExternalApi, TLAPS

-----------------------------------------------------------------------------
(***************************************************************************)
(* The inductive invariants.                                               *)
(***************************************************************************)

\* A key that is there has a secret that was issued, is not dead, and is its own.
SecretsAreOwn ==
  /\ \A k \in Key : Exists(k) => key[k].secret \in 1..minted /\ key[k].secret \notin dead
  /\ \A k, l \in Key : Exists(k) /\ Exists(l) /\ key[k].secret = key[l].secret => k = l

\* What was dead when the caller came still is.
CallersKnowTheDead ==
  \A q \in Req : req[q].pc = "lookup" => req[q].dead \subseteq dead

\* Every row of the pool that is stored or about to be is valid.
PoolsAreValid ==
  /\ pool # Absent => Valid(pool)
  /\ \A q \in Req : req[q].pc = "upsert" => Valid(req[q].row)

\* Tokens left count as served.
Within(b) ==
  /\ b.since <= b.last /\ b.last <= now
  /\ b.served + b.tokens <= b.top + (b.last - b.since) * (b.top \div 2)
BucketsAreWithin == \A k \in Key : bucket[k] # Absent => Within(bucket[k])

-----------------------------------------------------------------------------
(* The greater and the lesser of two numbers, and products. *)

LEMMA MaxOfTwo ==
  ASSUME NEW a \in Nat, NEW b \in Nat
  PROVE  Max({a, b}) = (IF a >= b THEN a ELSE b)
<1>1. \E x \in {a, b} : \A y \in {a, b} : x >= y
  BY SMT
<1>2. Max({a, b}) \in {a, b} /\ \A y \in {a, b} : Max({a, b}) >= y
  BY <1>1 DEF Max
<1>3. QED
  BY <1>2

LEMMA MinOfTwo ==
  ASSUME NEW a \in Nat, NEW b \in Nat
  PROVE  Min({a, b}) = (IF a <= b THEN a ELSE b)
<1>1. \E x \in {a, b} : \A y \in {a, b} : x <= y
  BY SMT
<1>2. Min({a, b}) \in {a, b} /\ \A y \in {a, b} : Min({a, b}) <= y
  BY <1>1 DEF Min
<1>3. QED
  BY <1>2

LEMMA MulMono ==
  ASSUME NEW a \in Nat, NEW b \in Nat, NEW c \in Nat, b <= c
  PROVE  a * b \in Nat /\ a * b <= a * c
BY SMT

LEMMA MulSum ==
  ASSUME NEW a \in Nat, NEW b \in Nat, NEW c \in Nat
  PROVE  (a + b) * c = a * c + b * c
BY SMT

LEMMA Half ==
  ASSUME NEW a \in Nat, NEW b \in Nat, a <= b
  PROVE  a \div 2 \in Nat /\ a \div 2 <= b \div 2
BY SMT

-----------------------------------------------------------------------------
(* Requests and rows. *)

LEMMA RequestFields ==
  ASSUME NEW c \in Request
  PROVE  /\ c.pc = "save" => c.key \in Key /\ c.row \in KeyRow
         /\ c.pc \in {"rotate", "forget"} => c.key \in Key
         /\ c.pc = "put" => c.row \in Setting
         /\ c.pc = "upsert" => c.row \in Pool
         /\ c.pc = "lookup" => c.secret \in Nat /\ c.default \in Nat /\ c.dead \in SUBSET Nat
         /\ c.pc = "limit" => /\ c.key \in Key /\ c.secret \in Nat /\ c.limit \in Nat
                              /\ c.dead \in SUBSET Nat
BY DEF Request, Idle

LEMMA RequestForms ==
  /\ Idle \in Request /\ Idle.pc = "idle"
  /\ \A k \in Key, row \in KeyRow : [pc |-> "save", key |-> k, row |-> row] \in Request
  /\ \A k \in Key : /\ [pc |-> "rotate", key |-> k] \in Request
                    /\ [pc |-> "forget", key |-> k] \in Request
  /\ \A row \in Setting : [pc |-> "put", row |-> row] \in Request
  /\ \A row \in Pool : [pc |-> "upsert", row |-> row] \in Request
  /\ \A s \in Nat, n \in Nat, gone \in SUBSET Nat :
       [pc |-> "lookup", secret |-> s, default |-> n, dead |-> gone] \in Request
  /\ \A k \in Key, s \in Nat, n \in Nat, gone \in SUBSET Nat :
       [pc |-> "limit", key |-> k, secret |-> s, dead |-> gone, limit |-> n] \in Request
BY DEF Request, Idle

\* What a form sends leaves a row of its type, and the secret of a key alone.
LEMMA MergedKey ==
  ASSUME NEW body \in KeyBodies, NEW row \in KeyRow
  PROVE  Merged(body, row) \in KeyRow /\ Merged(body, row).secret = row.secret
<1> DEFINE m == Merged(body, row)
<1>1. DOMAIN row = {"secret", "active", "expires", "limit"}
  BY DEF KeyRow
<1>2. m = [f \in {"secret", "active", "expires", "limit"} |->
             IF f \in DOMAIN body THEN body[f] ELSE row[f]]
  BY <1>1 DEF Merged
<1>3. \A f \in DOMAIN body :
        f \in {"active", "expires", "limit"} /\ body[f] \in KeyForm[f]
  BY ExternalAssumption DEF Fills, KeyForm
<1>4. m.secret = row.secret /\ m.secret \in Nat
  BY <1>2, <1>3 DEF KeyRow
<1>5. m.active \in BOOLEAN
  BY <1>2, <1>3 DEF KeyRow, KeyForm
<1>6. m.expires \in Nat \cup {Null}
  BY <1>2, <1>3 DEF KeyRow, KeyForm
<1>7. m.limit \in Nat \cup {Null}
  BY <1>2, <1>3 DEF KeyRow, KeyForm
<1>8. m = [secret |-> m.secret, active |-> m.active, expires |-> m.expires, limit |-> m.limit]
  BY <1>2
<1> HIDE DEF m
<1>9. m \in KeyRow
  BY <1>4, <1>5, <1>6, <1>7, <1>8 DEF KeyRow
<1>10. QED
  BY <1>4, <1>9 DEF m

LEMMA MergedSetting ==
  ASSUME NEW body \in SettingBodies, NEW row \in Setting
  PROVE  Merged(body, row) \in Setting
<1> DEFINE m == Merged(body, row)
<1>1. m = [f \in {"enabled", "limit"} |-> IF f \in DOMAIN body THEN body[f] ELSE row[f]]
  BY DEF Merged, Setting
<1>2. \A f \in DOMAIN body : f \in {"enabled", "limit"} /\ body[f] \in SettingForm[f]
  BY ExternalAssumption DEF Fills, SettingForm
<1>3. m.enabled \in BOOLEAN /\ m.limit \in Nat
  BY <1>1, <1>2 DEF Setting, SettingForm
<1>4. m = [enabled |-> m.enabled, limit |-> m.limit]
  BY <1>1
<1> HIDE DEF m
<1>5. m \in Setting
  BY <1>3, <1>4 DEF Setting
<1>6. QED
  BY <1>5 DEF m

LEMMA MergedPool ==
  ASSUME NEW body \in PoolBodies, NEW row \in Pool
  PROVE  Merged(body, row) \in Pool
<1> DEFINE m == Merged(body, row)
           names == {"min", "max", "type", "endpoint", "secret", "paused"}
<1>1. m = [f \in names |-> IF f \in DOMAIN body THEN body[f] ELSE row[f]]
  BY DEF Merged, Pool
<1>2. \A f \in DOMAIN body : f \in names /\ body[f] \in PoolForm[f]
  BY ExternalAssumption DEF Fills, PoolForm
<1>3. m.min \in Nat /\ m.max \in Nat \cup {Null} /\ m.type \in {"pull", "push"}
  BY <1>1, <1>2 DEF Pool, PoolForm
<1>4. m.endpoint \in BOOLEAN /\ m.secret \in {"", "s", "t"} /\ m.paused \in BOOLEAN
  BY <1>1, <1>2 DEF Pool, PoolForm
<1>5. m = [min |-> m.min, max |-> m.max, type |-> m.type, endpoint |-> m.endpoint,
           secret |-> m.secret, paused |-> m.paused]
  BY <1>1
<1> HIDE DEF m
<1>6. m \in Pool
  BY <1>3, <1>4, <1>5 DEF Pool
<1>7. QED
  BY <1>6 DEF m

LEMMA EditedType ==
  ASSUME NEW body \in KeyBodies, NEW row \in KeyRow PROVE Edited(row, body) \in KeyRow
BY MergedKey DEF Edited, KeyRow

LEMMA NewPoolType == NewPool \in Pool /\ Valid(NewPool)
BY DEF NewPool, Pool, Valid

LEMMA UpsertedType ==
  ASSUME TypeOK, NEW p \in Pool
  PROVE  Upserted(p) \in Pool /\ (Valid(p) => Valid(Upserted(p)))
BY DEF Upserted, TypeOK, Pool, Valid

LEMMA RefilledType ==
  ASSUME NEW b \in Bucket, NEW n \in Nat, now \in Nat, b.last <= now
  PROVE  Refilled(b, n) \in Bucket
<1>1. now - b.last \in Nat /\ n \div 2 \in Nat /\ b.tokens \in Nat
  BY DEF Bucket
<1>2. (now - b.last) * (n \div 2) \in Nat
  BY <1>1, MulMono
<1>3. Min({b.tokens, n}) \in Nat
  BY <1>1, MinOfTwo
<1> DEFINE sum == Min({b.tokens, n}) + (now - b.last) * (n \div 2)
<1>4. sum \in Nat
  BY <1>2, <1>3
<1>5. Refilled(b, n) = [b EXCEPT !.tokens = Min({n, sum}), !.last = now]
  BY DEF Refilled
<1> HIDE DEF sum
<1>6. Min({n, sum}) \in Nat
  BY <1>4, MinOfTwo
<1>7. QED
  BY <1>5, <1>6 DEF Bucket

\* What a caller who is counted makes of a bucket.
Taken(b, n) ==
  IF b.tokens = 0 THEN b
  ELSE [b EXCEPT !.tokens = @ - 1, !.served = @ + 1, !.top = Max({@, n})]

LEMMA TakenType ==
  ASSUME NEW b \in Bucket, NEW n \in Nat
  PROVE  Taken(b, n) \in Bucket
<1>1. Max({b.top, n}) \in Nat
  BY MaxOfTwo DEF Bucket
<1>2. b.served + 1 \in Nat /\ (b.tokens # 0 => b.tokens - 1 \in Nat)
  BY DEF Bucket
<1>3. QED
  BY <1>1, <1>2 DEF Taken, Bucket

-----------------------------------------------------------------------------
(***************************************************************************)
(* Types.                                                                  *)
(***************************************************************************)

\* Secrets were issued, and no bucket was filled in the future.
Typed ==
  /\ TypeOK
  /\ \A k \in Key : /\ Exists(k) => key[k].secret \in 1..minted
                    /\ bucket[k] # Absent => bucket[k].last <= now

LEMMA FaultType ==
  ASSUME TypeOK, NEW kind, Fault(kind) PROVE faults' \in 0..MaxFaults
BY ExternalAssumption DEF TypeOK, Fault

LEMMA OperateType ==
  ASSUME TypeOK, NEW q \in Req, Operate(q) PROVE ops' \in 0..MaxOps
BY ExternalAssumption DEF TypeOK, Operate

LEMMA GoType ==
  ASSUME TypeOK, NEW q \in Req, NEW to \in Request, Go(q, to)
  PROVE  req' \in [Req -> Request]
BY DEF TypeOK, Go

LEMMA InitTyped == Init => Typed
<1> SUFFICES ASSUME Init PROVE Typed
  OBVIOUS
<1>1. req \in [Req -> Request]
  BY RequestForms DEF Init
<1>2. setting \in Setting
  BY DEF Init, Setting
<1>3. QED
  BY <1>1, <1>2, ExternalAssumption DEF Init, Exists, Typed, TypeOK

LEMMA CreateTyped ==
  ASSUME Typed, NEW q \in Req, NEW k \in Key, NEW body \in KeyBodies, CreateAPIKey(q, k, body)
  PROVE  Typed'
<1> DEFINE row == [secret |-> minted', active |-> TRUE, expires |-> Null, limit |-> Null]
<1>1. minted' \in Nat /\ dead' \subseteq 1..minted'
  BY DEF CreateAPIKey, Typed, TypeOK
<1>2. row \in KeyRow
  BY <1>1 DEF KeyRow
<1>3. Merged(body, row) \in KeyRow /\ Merged(body, row).secret = minted'
  BY <1>2, MergedKey
<1>4. key' = [key EXCEPT ![k] = Merged(body, row)]
  BY DEF CreateAPIKey
<1> HIDE DEF row
<1>5. key' \in [Key -> KeyRow \cup {Absent, Gone}]
  BY <1>3, <1>4 DEF Typed, TypeOK
<1>6. \A l \in Key : Exists(l)' => key'[l].secret \in 1..minted'
  BY <1>1, <1>3, <1>4 DEF CreateAPIKey, Exists, Typed, TypeOK
<1>7. QED
  BY <1>1, <1>5, <1>6, OperateType DEF CreateAPIKey, Rest, Typed, TypeOK

LEMMA KeyEditTyped ==
  ASSUME Typed, NEW q \in Req,
         \/ \E k \in Key : \/ \E body \in KeyBodies : ReadAPIKey(q, k, body)
                           \/ ReadToRotate(q, k) \/ DeleteAPIKey(q, k)
         \/ SaveAPIKey(q) \/ SetAPIKeySecret(q) \/ Forget(q)
  PROVE  Typed'
<1>0. req[q] \in Request
  BY DEF Typed, TypeOK
<1>1. CASE \E k \in Key, body \in KeyBodies : ReadAPIKey(q, k, body)
  <2>1. PICK k \in Key, body \in KeyBodies : ReadAPIKey(q, k, body)
    BY <1>1
  <2>2. Edited(key[k], body) \in KeyRow
    BY <2>1, EditedType DEF ReadAPIKey, Exists, Typed, TypeOK
  <2>3. req' \in [Req -> Request]
    BY <2>1, <2>2, GoType, RequestForms DEF ReadAPIKey, Typed
  <2>4. QED
    BY <2>1, <2>3, OperateType DEF ReadAPIKey, store, Rest, Exists, Typed, TypeOK
<1>2. CASE \E k \in Key : ReadToRotate(q, k)
  <2>1. PICK k \in Key : ReadToRotate(q, k)
    BY <1>2
  <2>2. req' \in [Req -> Request]
    BY <2>1, GoType, RequestForms DEF ReadToRotate, Typed
  <2>3. QED
    BY <2>1, <2>2, OperateType DEF ReadToRotate, store, Rest, Exists, Typed, TypeOK
<1>3. CASE \E k \in Key : DeleteAPIKey(q, k)
  <2>1. PICK k \in Key : DeleteAPIKey(q, k)
    BY <1>3
  <2>2. req' \in [Req -> Request]
    BY <2>1, GoType, RequestForms DEF DeleteAPIKey, Typed
  <2>3. QED
    BY <2>1, <2>2, OperateType DEF DeleteAPIKey, Rest, Exists, Typed, TypeOK
<1>4. CASE SaveAPIKey(q)
  <2>1. req[q].key \in Key /\ req[q].row \in KeyRow
    BY <1>0, <1>4, RequestFields DEF SaveAPIKey
  <2>2. req' \in [Req -> Request]
    BY <1>4, <2>1, GoType, RequestForms DEF SaveAPIKey, Typed
  <2>3. Exists(req[q].key) => Updated(req[q].key, req[q].row) \in KeyRow
    BY <2>1 DEF Updated, Exists, KeyRow, Typed, TypeOK
  <2>4. key' \in [Key -> KeyRow \cup {Absent, Gone}]
    BY <1>4, <2>3 DEF SaveAPIKey, Typed, TypeOK
  <2>5. \A l \in Key : Exists(l)' => Exists(l) /\ key'[l].secret = key[l].secret
    BY <1>4, <2>1, <2>3 DEF SaveAPIKey, Updated, Exists, KeyRow, Typed, TypeOK
  <2>6. QED
    BY <1>4, <2>2, <2>4, <2>5 DEF SaveAPIKey, Rest, Typed, TypeOK
<1>5. CASE SetAPIKeySecret(q)
  <2>1. req[q].key \in Key
    BY <1>0, <1>5, RequestFields DEF SetAPIKeySecret
  <2>2. req' \in [Req -> Request]
    BY <1>5, <2>1, GoType, RequestForms DEF SetAPIKeySecret, Typed
  <2>3. minted' \in Nat
    BY <1>5 DEF SetAPIKeySecret, Typed, TypeOK
  <2>4. Exists(req[q].key) => [key[req[q].key] EXCEPT !.secret = minted'] \in KeyRow
    BY <2>1, <2>3 DEF Exists, KeyRow, Typed, TypeOK
  <2>5. key' \in [Key -> KeyRow \cup {Absent, Gone}]
    BY <1>5, <2>4 DEF SetAPIKeySecret, Typed, TypeOK
  <2>6. dead' \subseteq 1..minted'
    BY <1>5, <2>1, <2>3 DEF SetAPIKeySecret, Typed, TypeOK
  <2>7. \A l \in Key : Exists(l)' => key'[l].secret \in 1..minted'
    BY <1>5, <2>1, <2>3 DEF SetAPIKeySecret, Exists, KeyRow, Typed, TypeOK
  <2>8. QED
    BY <1>5, <2>2, <2>3, <2>5, <2>6, <2>7 DEF SetAPIKeySecret, Rest, Typed, TypeOK
<1>6. CASE Forget(q)
  <2>1. req' \in [Req -> Request]
    BY <1>6, GoType, RequestForms DEF Forget, Typed
  <2>2. QED
    BY <1>6, <2>1 DEF Forget, store, Exists, Typed, TypeOK
<1>7. QED
  BY <1>1, <1>2, <1>3, <1>4, <1>5, <1>6

LEMMA PoolEditTyped ==
  ASSUME Typed, NEW q \in Req,
         \/ \E body \in SettingBodies : ReadSettings(q, body)
         \/ PutSettings(q)
         \/ \E body \in PoolBodies : ReadPool(q, body)
         \/ UpsertWorkQueue(q)
  PROVE  Typed'
<1>0. req[q] \in Request
  BY DEF Typed, TypeOK
<1>1. CASE \E body \in SettingBodies : ReadSettings(q, body)
  <2>1. PICK body \in SettingBodies : ReadSettings(q, body)
    BY <1>1
  <2>2. Merged(body, setting) \in Setting
    BY MergedSetting DEF Typed, TypeOK
  <2>3. req' \in [Req -> Request]
    BY <2>1, <2>2, GoType, RequestForms DEF ReadSettings, Typed
  <2>4. QED
    BY <2>1, <2>3, OperateType DEF ReadSettings, store, Rest, Exists, Typed, TypeOK
<1>2. CASE PutSettings(q)
  <2>1. req[q].row \in Setting
    BY <1>0, <1>2, RequestFields DEF PutSettings
  <2>2. req' \in [Req -> Request]
    BY <1>2, GoType, RequestForms DEF PutSettings, Typed
  <2>3. QED
    BY <1>2, <2>1, <2>2 DEF PutSettings, Rest, Exists, Typed, TypeOK
<1>3. CASE \E body \in PoolBodies : ReadPool(q, body)
  <2>1. PICK body \in PoolBodies : ReadPool(q, body)
    BY <1>3
  <2> DEFINE new == Merged(body, IF pool = Absent THEN NewPool ELSE pool)
  <2>2. new \in Pool
    BY MergedPool, NewPoolType DEF Typed, TypeOK
  <2>3. Go(q, [pc |-> "upsert", row |-> new]) \/ UNCHANGED req
    BY <2>1 DEF ReadPool
  <2> HIDE DEF new
  <2>4. req' \in [Req -> Request]
    BY <2>2, <2>3, GoType, RequestForms DEF Typed, TypeOK
  <2>5. QED
    BY <2>1, <2>4, OperateType DEF ReadPool, store, Rest, Exists, Typed, TypeOK
<1>4. CASE UpsertWorkQueue(q)
  <2>1. Upserted(req[q].row) \in Pool
    BY <1>0, <1>4, RequestFields, UpsertedType DEF UpsertWorkQueue, Typed
  <2>2. req' \in [Req -> Request]
    BY <1>4, GoType, RequestForms DEF UpsertWorkQueue, Typed
  <2>3. QED
    BY <1>4, <2>1, <2>2 DEF UpsertWorkQueue, Rest, Exists, Typed, TypeOK
<1>5. QED
  BY <1>1, <1>2, <1>3, <1>4

LEMMA SetPoolTyped ==
  ASSUME Typed, NEW new \in Pool, SetPool(new) PROVE Typed'
BY ExternalAssumption DEF SetPool, Rest, Exists, Typed, TypeOK

LEMMA PausedType ==
  ASSUME NEW p \in Pool, NEW b \in BOOLEAN PROVE [p EXCEPT !.paused = b] \in Pool
BY DEF Pool

LEMMA AllowStep ==
  ASSUME Typed, NEW q \in Req, Allow(q)
  PROVE  /\ req[q].key \in Key /\ req[q].limit \in Nat
         /\ \/ UNCHANGED bucket
            \/ \E b \in Bucket :
                 /\ req[q].limit # 0 /\ b.last = now
                 /\ \/ b = Full(req[q].limit)
                    \/ /\ bucket[req[q].key] \in Bucket
                       /\ bucket[req[q].key].last <= now
                       /\ bucket[req[q].key] # Absent
                       /\ b = Refilled(bucket[req[q].key], req[q].limit)
                 /\ bucket' = [bucket EXCEPT ![req[q].key] = Taken(b, req[q].limit)]
<1> DEFINE c == req[q]
           b == IF bucket[c.key] = Absent THEN Full(c.limit) ELSE Refilled(bucket[c.key], c.limit)
<1>1. c \in Request /\ c.pc = "limit" /\ now \in Nat
  BY ExternalAssumption DEF Typed, TypeOK, Allow
<1>2. c.key \in Key /\ c.limit \in Nat
  BY <1>1, RequestFields
<1>3. ASSUME bucket[c.key] # Absent
      PROVE  bucket[c.key] \in Bucket /\ bucket[c.key].last <= now
  BY <1>2, <1>3 DEF Typed, TypeOK
<1>4. Full(c.limit) \in Bucket
  BY <1>1, <1>2 DEF Full, Bucket
<1>5. b \in Bucket /\ b.last = now
  <2>1. CASE bucket[c.key] = Absent
    BY <1>4, <2>1 DEF Full
  <2>2. CASE bucket[c.key] # Absent
    <3>1. Refilled(bucket[c.key], c.limit) \in Bucket
      BY <1>1, <1>2, <1>3, <2>2, RefilledType
    <3>2. Refilled(bucket[c.key], c.limit).last = now
      BY <1>3, <2>2 DEF Refilled, Bucket
    <3>3. QED
      BY <2>2, <3>1, <3>2
  <2>3. QED
    BY <2>1, <2>2
<1>6. \/ c.limit = 0 /\ UNCHANGED bucket
      \/ c.limit # 0 /\ bucket' = [bucket EXCEPT ![c.key] = Taken(b, c.limit)]
  BY DEF Allow, Taken
<1>7. b = Full(c.limit) \/ (/\ bucket[c.key] \in Bucket
                             /\ bucket[c.key].last <= now
                             /\ bucket[c.key] # Absent
                             /\ b = Refilled(bucket[c.key], c.limit))
  BY <1>3
<1> HIDE DEF b
<1>8. QED
  BY <1>2, <1>5, <1>6, <1>7

LEMMA TakenLast ==
  ASSUME NEW b \in Bucket, NEW n \in Nat PROVE Taken(b, n).last = b.last
BY DEF Taken, Bucket

LEMMA CallTyped ==
  ASSUME Typed, NEW q \in Req,
         (\E s \in 1..minted : Arrive(q, s)) \/ Lookup(q) \/ Allow(q) \/ AllowBlind(q) \/ Abort(q)
  PROVE  Typed'
<1>0. req[q] \in Request
  BY DEF Typed, TypeOK
<1>1. CASE \E s \in 1..minted : Arrive(q, s)
  <2>1. PICK s \in 1..minted : Arrive(q, s)
    BY <1>1
  <2>2. s \in Nat /\ setting.limit \in Nat /\ dead \in SUBSET Nat
    BY DEF Typed, TypeOK, Setting
  <2>3. req' \in [Req -> Request]
    BY <2>1, <2>2, GoType, RequestForms DEF Arrive, Typed
  <2>4. QED
    BY <2>1, <2>3 DEF Arrive, store, Rest, Exists, Typed, TypeOK
<1>2. CASE Lookup(q)
  <2> DEFINE c == req[q]
             form(k) == [pc |-> "limit", key |-> k, secret |-> c.secret, dead |-> c.dead,
                         limit |-> IF key[k].limit = Null THEN c.default ELSE key[k].limit]
  <2>1. c.secret \in Nat /\ c.default \in Nat /\ c.dead \in SUBSET Nat
    BY <1>0, <1>2, RequestFields DEF Lookup
  <2>2. \A k \in Key : Exists(k) => form(k) \in Request
    <3> SUFFICES ASSUME NEW k \in Key, Exists(k) PROVE form(k) \in Request
      OBVIOUS
    <3>1. (IF key[k].limit = Null THEN c.default ELSE key[k].limit) \in Nat
      BY <2>1 DEF Exists, KeyRow, Typed, TypeOK
    <3>2. QED
      BY <2>1, <3>1, RequestForms
  <2>3. Go(q, Idle) \/ \E k \in Key : Exists(k) /\ Go(q, form(k))
    BY <1>2 DEF Lookup
  <2> HIDE DEF form, c
  <2>4. req' \in [Req -> Request]
    BY <2>2, <2>3, GoType, RequestForms DEF Typed
  <2>5. QED
    BY <1>2, <2>4 DEF Lookup, store, Rest, Exists, Typed, TypeOK
<1>3. CASE Allow(q)
  <2>1. req' \in [Req -> Request]
    BY <1>3, GoType, RequestForms DEF Allow, Typed
  <2>2. bucket' \in [Key -> Bucket \cup {Absent}]
    BY <1>3, AllowStep, TakenType DEF Typed, TypeOK
  <2>3. \A k \in Key : bucket'[k] # Absent => bucket'[k].last <= now
    <3>1. now <= now
      BY DEF Typed, TypeOK
    <3>2. QED
      BY <1>3, <3>1, AllowStep, TakenLast DEF Typed, TypeOK
  <2>4. QED
    BY <1>3, <2>1, <2>2, <2>3 DEF Allow, store, Exists, Typed, TypeOK
<1>4. CASE AllowBlind(q) \/ Abort(q)
  <2>1. req' \in [Req -> Request]
    BY <1>4, GoType, RequestForms DEF AllowBlind, Abort, Typed
  <2>2. QED
    BY <1>4, <2>1, FaultType DEF AllowBlind, Abort, store, Exists, Typed, TypeOK
<1>5. QED
  BY <1>1, <1>2, <1>3, <1>4

LEMMA NextTyped == Typed /\ [Next]_vars => Typed'
<1> SUFFICES ASSUME Typed, [Next]_vars PROVE Typed'
  OBVIOUS
<1>1. ASSUME NEW q \in Req, Edit(q) PROVE Typed'
  BY <1>1, CreateTyped, KeyEditTyped, PoolEditTyped DEF Edit
<1>2. ASSUME NEW q \in Req, Call(q) \/ Abort(q) PROVE Typed'
  BY <1>2, CallTyped DEF Call
<1>3. CASE Publish \/ Mention
  BY <1>3, SetPoolTyped, UpsertedType, NewPoolType DEF Publish, Mention, Typed
<1>4. ASSUME NEW b \in BOOLEAN, SetQueuePaused(b) PROVE Typed'
  BY <1>4, SetPoolTyped, PausedType DEF SetQueuePaused, Typed, TypeOK
<1>5. CASE Tick
  BY <1>5, ExternalAssumption DEF Tick, store, Exists, Bucket, Typed, TypeOK
<1>6. CASE UNCHANGED vars
  BY <1>6 DEF vars, Exists, Typed, TypeOK
<1>7. QED
  BY <1>1, <1>2, <1>3, <1>4, <1>5, <1>6 DEF Next

(* The state keeps its types: every row the handlers merge from a form has *)
(* the columns of its table, only secrets that were issued are dead, and   *)
(* no bucket of the limiter goes below zero.                               *)
THEOREM TypeCorrect == Spec => []TypeOK
<1>1. Typed => TypeOK
  BY DEF Typed
<1>2. QED
  BY InitTyped, NextTyped, <1>1, PTL DEF Spec

-----------------------------------------------------------------------------
(***************************************************************************)
(* Keys.                                                                   *)
(***************************************************************************)

KeyInv == SecretsAreOwn /\ CallersKnowTheDead /\ RevokedIsRefused

\* The statements that change keys leave each its own secret, and the dead dead.
LEMMA CreateKeepsSecrets ==
  ASSUME Typed, SecretsAreOwn, NEW q \in Req, NEW k \in Key, NEW body \in KeyBodies,
         CreateAPIKey(q, k, body)
  PROVE  SecretsAreOwn' /\ dead \subseteq dead'
<1> DEFINE row == [secret |-> minted', active |-> TRUE, expires |-> Null, limit |-> Null]
<1>1. minted' = minted + 1 /\ minted \in Nat /\ dead \subseteq 1..minted /\ dead' = dead
  BY DEF CreateAPIKey, Typed, TypeOK
<1>2. row \in KeyRow
  BY <1>1 DEF KeyRow
<1>3. Merged(body, row).secret = minted'
  BY <1>2, MergedKey
<1>4. key' = [key EXCEPT ![k] = Merged(body, row)] /\ ~Exists(k)
  BY DEF CreateAPIKey, Exists
<1> HIDE DEF row
<1>5. \A l \in Key : Exists(l)' => \/ l = k /\ key'[l].secret = minted + 1
                                   \/ l # k /\ Exists(l) /\ key'[l].secret = key[l].secret
  BY <1>1, <1>3, <1>4 DEF Exists, Typed, TypeOK
<1>6. \A l \in Key : Exists(l) => key[l].secret \in 1..minted /\ key[l].secret \notin dead
  BY DEF SecretsAreOwn
<1>7. \A l \in Key : Exists(l)' => key'[l].secret \in 1..minted' /\ key'[l].secret \notin dead'
  BY <1>1, <1>5, <1>6
<1>8. \A l, m \in Key : Exists(l)' /\ Exists(m)' /\ key'[l].secret = key'[m].secret => l = m
  BY <1>1, <1>5, <1>6 DEF SecretsAreOwn
<1>9. QED
  BY <1>1, <1>7, <1>8 DEF SecretsAreOwn

LEMMA SaveKeepsSecrets ==
  ASSUME Typed, SecretsAreOwn, NEW q \in Req, SaveAPIKey(q)
  PROVE  SecretsAreOwn' /\ dead' = dead
<1>1. req[q].key \in Key /\ req[q].row \in KeyRow
  BY RequestFields DEF SaveAPIKey, Typed, TypeOK
<1>2. \A l \in Key : Exists(l)' => Exists(l) /\ key'[l].secret = key[l].secret
  BY <1>1 DEF SaveAPIKey, Updated, Exists, KeyRow, Typed, TypeOK
<1>3. QED
  BY <1>2 DEF SaveAPIKey, SecretsAreOwn

LEMMA RotateKeepsSecrets ==
  ASSUME Typed, SecretsAreOwn, NEW q \in Req, SetAPIKeySecret(q)
  PROVE  SecretsAreOwn' /\ dead \subseteq dead'
<1> DEFINE k == req[q].key
<1>1. k \in Key
  BY RequestFields DEF SetAPIKeySecret, Typed, TypeOK
<1>2. CASE ~Exists(k)
  BY <1>2 DEF SetAPIKeySecret, Exists, SecretsAreOwn
<1>3. CASE Exists(k)
  <2>1. /\ minted' = minted + 1 /\ minted \in Nat /\ dead \subseteq 1..minted
        /\ dead' = dead \cup {key[k].secret}
    BY <1>3 DEF SetAPIKeySecret, Typed, TypeOK
  <2>2. \A l \in Key : Exists(l)' => \/ l = k /\ key'[l].secret = minted + 1
                                     \/ l # k /\ Exists(l) /\ key'[l].secret = key[l].secret
    BY <1>1, <1>3, <2>1 DEF SetAPIKeySecret, Exists, KeyRow, Typed, TypeOK
  <2>3. \A l \in Key : Exists(l) => key[l].secret \in 1..minted /\ key[l].secret \notin dead
    BY DEF SecretsAreOwn
  <2>4. \A l \in Key : Exists(l) /\ l # k => key[l].secret # key[k].secret
    BY <1>1, <1>3 DEF SecretsAreOwn
  <2> HIDE DEF k
  <2>5. \A l \in Key : Exists(l)' => key'[l].secret \in 1..minted' /\ key'[l].secret \notin dead'
    BY <1>1, <1>3, <2>1, <2>2, <2>3, <2>4
  <2>6. \A l, m \in Key : Exists(l)' /\ Exists(m)' /\ key'[l].secret = key'[m].secret => l = m
    BY <2>1, <2>2, <2>3 DEF SecretsAreOwn
  <2>7. QED
    BY <2>1, <2>5, <2>6 DEF SecretsAreOwn
<1>4. QED
  BY <1>2, <1>3

LEMMA DeleteKeepsSecrets ==
  ASSUME Typed, SecretsAreOwn, NEW q \in Req, NEW k \in Key, DeleteAPIKey(q, k)
  PROVE  SecretsAreOwn' /\ dead \subseteq dead'
<1>1. Exists(k) /\ dead' = dead \cup {key[k].secret} /\ minted' = minted
  BY DEF DeleteAPIKey
<1>2. \A l \in Key : Exists(l)' => l # k /\ Exists(l) /\ key'[l].secret = key[l].secret
  BY DEF DeleteAPIKey, Exists, Typed, TypeOK
<1>3. QED
  BY <1>1, <1>2 DEF SecretsAreOwn

LEMMA KeyInvInit == Init => KeyInv
BY DEF Init, Exists, Idle, KeyInv, SecretsAreOwn, CallersKnowTheDead, RevokedIsRefused

\* The callers of the others stay as they are.
LEMMA CallersStay ==
  ASSUME Typed, CallersKnowTheDead, RevokedIsRefused, dead \subseteq dead',
         NEW q \in Req, NEW to \in Request, to.pc \notin {"lookup", "limit"},
         Go(q, to) \/ UNCHANGED req
  PROVE  CallersKnowTheDead' /\ RevokedIsRefused'
BY DEF Go, CallersKnowTheDead, RevokedIsRefused, Typed, TypeOK

LEMMA KeyInvNext == Typed /\ KeyInv /\ [Next]_vars => KeyInv'
<1> SUFFICES ASSUME Typed, KeyInv, [Next]_vars PROVE KeyInv'
  OBVIOUS
<1> USE DEF KeyInv
<1>0. \A q \in Req : req[q] \in Request
  BY DEF Typed, TypeOK
<1>s. UNCHANGED <<key, minted, dead>> => SecretsAreOwn'
  BY DEF SecretsAreOwn, Exists
<1>1. ASSUME NEW q \in Req, NEW k \in Key, NEW body \in KeyBodies,
             CreateAPIKey(q, k, body)
      PROVE  KeyInv'
  <2>1. UNCHANGED req
    BY <1>1 DEF CreateAPIKey
  <2>2. QED
    BY <1>1, <2>1, CreateKeepsSecrets DEF CallersKnowTheDead, RevokedIsRefused
<1>2. ASSUME NEW q \in Req, NEW k \in Key, NEW body \in KeyBodies, ReadAPIKey(q, k, body)
      PROVE  KeyInv'
  <2>1. Edited(key[k], body) \in KeyRow
    BY <1>2, EditedType DEF ReadAPIKey, Exists, Typed, TypeOK
  <2>2. [pc |-> "save", key |-> k, row |-> Edited(key[k], body)] \in Request
    BY <2>1, RequestForms
  <2>3. QED
    BY <1>2, <1>s, <2>2, CallersStay DEF ReadAPIKey, store
<1>3. ASSUME NEW q \in Req, NEW k \in Key, ReadToRotate(q, k) PROVE KeyInv'
  BY <1>3, <1>s, RequestForms, CallersStay DEF ReadToRotate, store
<1>4. ASSUME NEW q \in Req, NEW k \in Key, DeleteAPIKey(q, k) PROVE KeyInv'
  BY <1>4, DeleteKeepsSecrets, RequestForms, CallersStay DEF DeleteAPIKey
<1>5. ASSUME NEW q \in Req, SaveAPIKey(q) PROVE KeyInv'
  <2>1. req[q].key \in Key
    BY <1>0, <1>5, RequestFields DEF SaveAPIKey
  <2>2. QED
    BY <1>5, <2>1, SaveKeepsSecrets, RequestForms, CallersStay DEF SaveAPIKey
<1>6. ASSUME NEW q \in Req, SetAPIKeySecret(q) PROVE KeyInv'
  <2>1. req[q].key \in Key
    BY <1>0, <1>6, RequestFields DEF SetAPIKeySecret
  <2>2. QED
    BY <1>6, <2>1, RotateKeepsSecrets, RequestForms, CallersStay DEF SetAPIKeySecret
<1>7. ASSUME NEW q \in Req, Forget(q) \/ PutSettings(q) \/ UpsertWorkQueue(q) PROVE KeyInv'
  BY <1>7, <1>s, RequestForms, CallersStay DEF Forget, PutSettings, UpsertWorkQueue, store
<1>8. ASSUME NEW q \in Req, NEW body \in SettingBodies, ReadSettings(q, body) PROVE KeyInv'
  <2>1. Merged(body, setting) \in Setting
    BY MergedSetting DEF Typed, TypeOK
  <2>2. QED
    BY <1>8, <1>s, <2>1, RequestForms, CallersStay DEF ReadSettings, store
<1>9. ASSUME NEW q \in Req, NEW body \in PoolBodies, ReadPool(q, body) PROVE KeyInv'
  <2> DEFINE new == Merged(body, IF pool = Absent THEN NewPool ELSE pool)
  <2>1. new \in Pool
    BY MergedPool, NewPoolType DEF Typed, TypeOK
  <2>2. Go(q, [pc |-> "upsert", row |-> new]) \/ UNCHANGED req
    BY <1>9 DEF ReadPool
  <2> HIDE DEF new
  <2>3. QED
    BY <1>9, <1>s, <2>1, <2>2, RequestForms, CallersStay DEF ReadPool, store
<1>10. ASSUME NEW q \in Req, NEW s \in 1..minted, Arrive(q, s) PROVE KeyInv'
  BY <1>10, <1>s DEF Arrive, Go, store, CallersKnowTheDead, RevokedIsRefused, Typed, TypeOK
<1>11. ASSUME NEW q \in Req, Lookup(q) PROVE KeyInv'
  <2>1. UNCHANGED <<key, minted, dead>> /\ req[q].pc = "lookup"
    BY <1>11 DEF Lookup, store
  <2>2. CASE Go(q, Idle)
    BY <1>s, <2>1, <2>2, RequestForms, CallersStay
  <2>3. CASE ~Go(q, Idle)
    <3>1. PICK k \in Key :
            /\ Exists(k) /\ key[k].secret = req[q].secret
            /\ Go(q, [pc |-> "limit", key |-> k, secret |-> req[q].secret, dead |-> req[q].dead,
                      limit |-> IF key[k].limit = Null THEN req[q].default ELSE key[k].limit])
      BY <1>11, <2>3 DEF Lookup
    <3>2. req[q].secret \notin req[q].dead
      BY <2>1, <3>1 DEF SecretsAreOwn, CallersKnowTheDead
    <3>3. QED
      BY <1>s, <2>1, <3>1, <3>2 DEF Go, CallersKnowTheDead, RevokedIsRefused, Typed, TypeOK
  <2>4. QED
    BY <2>2, <2>3
<1>12. ASSUME NEW q \in Req, Allow(q) \/ AllowBlind(q) \/ Abort(q) PROVE KeyInv'
  BY <1>12, <1>s, RequestForms, CallersStay DEF Allow, AllowBlind, Abort, store
<1>13. CASE Publish \/ Mention \/ (\E b \in BOOLEAN : SetQueuePaused(b)) \/ Tick \/ UNCHANGED vars
  <2>1. UNCHANGED <<key, minted, dead, req>>
    BY <1>13 DEF Publish, Mention, SetQueuePaused, SetPool, Tick, store, vars
  <2>2. QED
    BY <1>s, <2>1 DEF CallersKnowTheDead, RevokedIsRefused
<1>14. QED
  BY <1>1, <1>2, <1>3, <1>4, <1>5, <1>6, <1>7, <1>8, <1>9, <1>10, <1>11, <1>12, <1>13
     DEF Next, Edit, Call

(* Whoever presents a secret that was rotated away, or whose key was       *)
(* deleted, before he came is turned away (SetAPIKeySecret, GetAPIKeyBy-   *)
(* Prefix): whatever the number of keys and of overlapping forms, since a  *)
(* live key's secret is never a dead one and no two keys share one.        *)
THEOREM RevokedIsRefusedAlways == Spec => []RevokedIsRefused
<1>1. KeyInv => RevokedIsRefused
  BY DEF KeyInv
<1>2. QED
  BY InitTyped, NextTyped, KeyInvInit, KeyInvNext, <1>1, PTL DEF Spec

-----------------------------------------------------------------------------
(***************************************************************************)
(* The work pool.                                                          *)
(***************************************************************************)

LEMMA PoolInit == Init => PoolsAreValid
BY DEF Init, Idle, PoolsAreValid

LEMMA RequestsStayValid ==
  ASSUME Typed, PoolsAreValid, NEW q \in Req, NEW to \in Request,
         to.pc = "upsert" => Valid(to.row), Go(q, to) \/ UNCHANGED req
  PROVE  \A p \in Req : req'[p].pc = "upsert" => Valid(req'[p].row)
BY DEF Go, PoolsAreValid, Typed, TypeOK

\* Every request but one for the pool leaves the row, and turns to something else.
LEMMA OthersLeaveThePool ==
  ASSUME Typed, NEW q \in Req, Edit(q) \/ Call(q) \/ Abort(q),
         ~UpsertWorkQueue(q), ~\E body \in PoolBodies : ReadPool(q, body)
  PROVE  /\ pool' = pool
         /\ UNCHANGED req \/ \E to \in Request : to.pc # "upsert" /\ Go(q, to)
<1>0. req[q] \in Request
  BY DEF Typed, TypeOK
<1> DEFINE Leaves == /\ pool' = pool
                     /\ UNCHANGED req \/ \E to \in Request : to.pc # "upsert" /\ Go(q, to)
<1> SUFFICES Leaves
  OBVIOUS
<1>1. ASSUME NEW k \in Key, NEW body \in KeyBodies, CreateAPIKey(q, k, body) PROVE Leaves
  BY <1>1 DEF CreateAPIKey
<1>2. ASSUME NEW k \in Key, NEW body \in KeyBodies, ReadAPIKey(q, k, body) PROVE Leaves
  <2>1. Edited(key[k], body) \in KeyRow
    BY <1>2, EditedType DEF ReadAPIKey, Exists, Typed, TypeOK
  <2>2. [pc |-> "save", key |-> k, row |-> Edited(key[k], body)] \in Request
    BY <2>1, RequestForms
  <2>3. QED
    BY <1>2, <2>2 DEF ReadAPIKey, store
<1>3. ASSUME NEW k \in Key, ReadToRotate(q, k) \/ DeleteAPIKey(q, k) PROVE Leaves
  BY <1>3, RequestForms DEF ReadToRotate, DeleteAPIKey, store
<1>4. CASE SaveAPIKey(q)
  BY <1>0, <1>4, RequestForms, RequestFields DEF SaveAPIKey
<1>5. CASE SetAPIKeySecret(q)
  BY <1>0, <1>5, RequestForms, RequestFields DEF SetAPIKeySecret
<1>6. CASE Forget(q) \/ PutSettings(q)
  BY <1>6, RequestForms DEF Forget, PutSettings, store
<1>7. ASSUME NEW body \in SettingBodies, ReadSettings(q, body) PROVE Leaves
  <2>1. Merged(body, setting) \in Setting
    BY MergedSetting DEF Typed, TypeOK
  <2>2. [pc |-> "put", row |-> Merged(body, setting)] \in Request
    BY <2>1, RequestForms
  <2>3. QED
    BY <1>7, <2>2 DEF ReadSettings, store
<1>8. ASSUME NEW s \in 1..minted, Arrive(q, s) PROVE Leaves
  <2>1. s \in Nat /\ setting.limit \in Nat /\ dead \in SUBSET Nat
    BY DEF Typed, TypeOK, Setting
  <2>2. [pc |-> "lookup", secret |-> s, default |-> setting.limit, dead |-> dead] \in Request
    BY <2>1, RequestForms
  <2>3. QED
    BY <1>8, <2>2 DEF Arrive, store
<1>9. CASE Lookup(q)
  <2>1. req[q].secret \in Nat /\ req[q].default \in Nat /\ req[q].dead \in SUBSET Nat
    BY <1>0, <1>9, RequestFields DEF Lookup
  <2>2. CASE Go(q, Idle)
    BY <1>9, <2>2, RequestForms DEF Lookup, store
  <2>3. CASE ~Go(q, Idle)
    <3> DEFINE n(k) == IF key[k].limit = Null THEN req[q].default ELSE key[k].limit
    <3>1. PICK k \in Key :
            /\ Exists(k)
            /\ Go(q, [pc |-> "limit", key |-> k, secret |-> req[q].secret, dead |-> req[q].dead,
                      limit |-> n(k)])
      BY <1>9, <2>3 DEF Lookup
    <3>2. n(k) \in Nat
      BY <2>1, <3>1 DEF Exists, KeyRow, Typed, TypeOK
    <3> HIDE DEF n
    <3>3. [pc |-> "limit", key |-> k, secret |-> req[q].secret, dead |-> req[q].dead,
           limit |-> n(k)] \in Request
      BY <2>1, <3>2, RequestForms
    <3>4. QED
      BY <1>9, <3>1, <3>3 DEF Lookup, store
  <2>4. QED
    BY <2>2, <2>3
<1>10. CASE Allow(q) \/ AllowBlind(q) \/ Abort(q)
  BY <1>10, RequestForms DEF Allow, AllowBlind, Abort, store
<1> HIDE DEF Leaves
<1>11. QED
  BY <1>1, <1>2, <1>3, <1>4, <1>5, <1>6, <1>7, <1>8, <1>9, <1>10 DEF Edit, Call

LEMMA PoolNext == Typed /\ PoolsAreValid /\ [Next]_vars => PoolsAreValid'
<1> SUFFICES ASSUME Typed, PoolsAreValid, [Next]_vars PROVE PoolsAreValid'
  OBVIOUS
<1>1. ASSUME NEW q \in Req, UpsertWorkQueue(q) PROVE PoolsAreValid'
  <2>1. req[q].row \in Pool /\ Valid(req[q].row)
    BY <1>1, RequestFields DEF UpsertWorkQueue, PoolsAreValid, Typed, TypeOK
  <2>2. Valid(Upserted(req[q].row)) /\ pool' = Upserted(req[q].row)
    BY <1>1, <2>1, UpsertedType DEF UpsertWorkQueue, Typed
  <2>3. \A p \in Req : req'[p].pc = "upsert" => Valid(req'[p].row)
    BY <1>1, RequestForms, RequestsStayValid DEF UpsertWorkQueue
  <2>4. QED
    BY <2>2, <2>3 DEF PoolsAreValid
<1>2. ASSUME NEW q \in Req, NEW body \in PoolBodies, ReadPool(q, body) PROVE PoolsAreValid'
  <2> DEFINE new == Merged(body, IF pool = Absent THEN NewPool ELSE pool)
  <2>1. new \in Pool
    BY MergedPool, NewPoolType DEF Typed, TypeOK
  <2>2. (Valid(new) /\ Go(q, [pc |-> "upsert", row |-> new])) \/ UNCHANGED req
    BY <1>2 DEF ReadPool
  <2> HIDE DEF new
  <2>3. pool' = pool
    BY <1>2 DEF ReadPool, store
  <2>4. \A p \in Req : req'[p].pc = "upsert" => Valid(req'[p].row)
    <3>1. CASE UNCHANGED req
      BY <3>1 DEF PoolsAreValid
    <3>2. CASE Valid(new) /\ Go(q, [pc |-> "upsert", row |-> new])
      BY <2>1, <3>2, RequestForms, RequestsStayValid
    <3>3. QED
      BY <2>2, <3>1, <3>2
  <2>5. QED
    BY <2>3, <2>4 DEF PoolsAreValid
<1>3. ASSUME NEW q \in Req, Edit(q) \/ Call(q) \/ Abort(q),
             ~UpsertWorkQueue(q), ~\E body \in PoolBodies : ReadPool(q, body)
      PROVE  PoolsAreValid'
  <2>1. pool' = pool
    BY <1>3, OthersLeaveThePool
  <2>2. CASE UNCHANGED req
    BY <2>1, <2>2 DEF PoolsAreValid
  <2>3. CASE \E to \in Request : to.pc # "upsert" /\ Go(q, to)
    BY <2>1, <2>3, RequestsStayValid DEF PoolsAreValid
  <2>4. QED
    BY <1>3, <2>2, <2>3, OthersLeaveThePool
<1>4. CASE Publish \/ Mention
  BY <1>4, NewPoolType, UpsertedType DEF Publish, Mention, SetPool, PoolsAreValid, Typed
<1>5. ASSUME NEW b \in BOOLEAN, SetQueuePaused(b) PROVE PoolsAreValid'
  <2>1. pool \in Pool /\ Valid(pool) /\ pool' = [pool EXCEPT !.paused = b] /\ req' = req
    BY <1>5 DEF SetQueuePaused, SetPool, PoolsAreValid, Typed, TypeOK
  <2>2. Valid(pool')
    BY <2>1 DEF Valid, Pool
  <2>3. QED
    BY <2>1, <2>2 DEF PoolsAreValid
<1>6. CASE Tick \/ UNCHANGED vars
  BY <1>6 DEF Tick, store, vars, PoolsAreValid
<1>7. QED
  BY <1>1, <1>2, <1>3, <1>4, <1>5, <1>6 DEF Next, Edit

\* An autoscaler is told a number within the envelope of any valid row.
LEMMA WithinEnvelope ==
  ASSUME NEW n \in Nat, NEW p \in Pool, Valid(p)
  PROVE  LET w == DesiredWorkers(n, p) IN w >= p.min /\ (p.max # Null => w <= p.max)
<1> DEFINE need == (n + 4) \div 5
           want == Max({p.min, need})
<1>1. need \in Nat /\ p.min \in Nat
  <2>1. \A x \in Nat : x \div 5 \in Nat
    BY SMT
  <2>2. n + 4 \in Nat
    OBVIOUS
  <2>3. need \in Nat
    BY <2>1, <2>2
  <2>4. QED
    BY <2>3 DEF Pool
<1> HIDE DEF need
<1>2. want \in Nat /\ want >= p.min
  BY <1>1, MaxOfTwo
<1>3. DesiredWorkers(n, p) = IF p.max = Null THEN want ELSE Min({want, p.max})
  BY DEF DesiredWorkers, need
<1> HIDE DEF want
<1>4. CASE p.max = Null
  BY <1>2, <1>3, <1>4
<1>5. CASE p.max # Null
  <2>1. p.max \in Nat /\ p.min <= p.max
    BY <1>5 DEF Pool, Valid
  <2>2. DesiredWorkers(n, p) = IF want <= p.max THEN want ELSE p.max
    BY <1>2, <1>3, <1>5, <2>1, MinOfTwo
  <2>3. QED
    BY <1>1, <1>2, <2>1, <2>2
<1>6. QED
  BY <1>4, <1>5

(* The row of the pool makes sense whatever forms overlap, however many,   *)
(* and with starting workers between them: the test is of the merged row,  *)
(* and the only column the upsert takes from the table is the secret.      *)
THEOREM PoolIsSoundAlways == Spec => []PoolIsSound
<1>1. ASSUME Typed, PoolsAreValid PROVE PoolIsSound
  <2> SUFFICES ASSUME pool # Absent
               PROVE  /\ \A n \in Backlog : LET w == DesiredWorkers(n, pool) IN
                             w >= pool.min /\ (pool.max # Null => w <= pool.max)
                      /\ pool.type = "push" => pool.endpoint
    BY DEF PoolIsSound
  <2>1. pool \in Pool /\ Valid(pool)
    BY <1>1 DEF Typed, TypeOK, PoolsAreValid
  <2>2. QED
    BY <2>1, WithinEnvelope, ExternalAssumption DEF Valid
<1>2. QED
  BY InitTyped, NextTyped, PoolInit, PoolNext, <1>1, PTL DEF Spec

LEMMA SecretStep ==
  ASSUME Typed, [Next]_vars, pool # Absent, pool.secret # ""
  PROVE  pool'.secret # ""
<1>1. pool \in Pool
  BY DEF Typed, TypeOK
<1>2. ASSUME NEW p \in Pool PROVE Upserted(p).secret # ""
  BY <1>1 DEF Upserted, Pool
<1>3. ASSUME NEW q \in Req, UpsertWorkQueue(q) PROVE pool'.secret # ""
  BY <1>2, <1>3, RequestFields DEF UpsertWorkQueue, Typed, TypeOK
<1>4. ASSUME NEW q \in Req, NEW body \in PoolBodies, ReadPool(q, body) PROVE pool'.secret # ""
  BY <1>4 DEF ReadPool, store
<1>5. ASSUME NEW q \in Req, Edit(q) \/ Call(q) \/ Abort(q),
             ~UpsertWorkQueue(q), ~\E body \in PoolBodies : ReadPool(q, body)
      PROVE  pool'.secret # ""
  BY <1>5, OthersLeaveThePool
<1>6. CASE Publish \/ Mention
  BY <1>2, <1>6, NewPoolType DEF Publish, Mention, SetPool
<1>7. ASSUME NEW b \in BOOLEAN, SetQueuePaused(b) PROVE pool'.secret # ""
  BY <1>1, <1>7 DEF SetQueuePaused, SetPool, Pool
<1>8. CASE Tick \/ UNCHANGED vars
  BY <1>8 DEF Tick, store, vars
<1>9. QED
  BY <1>3, <1>4, <1>5, <1>6, <1>7, <1>8 DEF Next, Edit

(* Once a pool has a push secret no save of a form, no worker that         *)
(* publishes the lane by name and no pause takes it away (UpsertWorkQueue  *)
(* keeps the stored secret when an empty one is sent).                     *)
THEOREM SecretIsKeptAlways == Spec => SecretIsKept
<1>1. Typed /\ [Next]_vars => [pool # Absent /\ pool.secret # "" => pool'.secret # ""]_vars
  BY SecretStep
<1>2. QED
  BY InitTyped, NextTyped, <1>1, PTL DEF Spec, SecretIsKept

-----------------------------------------------------------------------------
(***************************************************************************)
(* The limiter.                                                            *)
(***************************************************************************)

LEMMA FullWithin ==
  ASSUME now \in Nat, NEW n \in Nat, n # 0
  PROVE  Within(Taken(Full(n), n))
<1>1. Max({0, n}) = n
  BY MaxOfTwo
<1> DEFINE b == Full(n)
<1>a. /\ b \in Bucket /\ b.tokens = n /\ b.last = now /\ b.since = now
      /\ b.served = 0 /\ b.top = 0
  BY DEF Full, Bucket
<1>b. Taken(b, n) = [b EXCEPT !.tokens = n - 1, !.served = 0 + 1, !.top = n]
  <2> HIDE DEF b
  <2>1. QED
    BY <1>1, <1>a DEF Taken
<1> HIDE DEF b
<1>2. /\ Taken(b, n).tokens = n - 1 /\ Taken(b, n).served = 1 /\ Taken(b, n).top = n
      /\ Taken(b, n).last = now /\ Taken(b, n).since = now
  BY <1>a, <1>b DEF Bucket
<1>3. (now - now) * (n \div 2) = 0
  BY Half
<1>4. QED
  BY <1>2, <1>3 DEF Within, b

\* Time and limits only raise what may have been served.
LEMMA AllowanceGrows ==
  ASSUME NEW top \in Nat, NEW high \in Nat, top <= high,
         NEW d \in Nat, NEW e \in Nat
  PROVE  /\ high + (d + e) * (high \div 2) \in Nat
         /\ top + d * (top \div 2) + e * (high \div 2) <= high + (d + e) * (high \div 2)
<1>1. /\ top \div 2 \in Nat /\ high \div 2 \in Nat
      /\ top \div 2 <= high \div 2
  BY Half
<1> DEFINE h == high \div 2
           t == top \div 2
<1>2. t \in Nat /\ h \in Nat /\ t <= h
  BY <1>1
<1> HIDE DEF h, t
<1>3. d * t <= d * h /\ d * t \in Nat /\ d * h \in Nat /\ e * h \in Nat
  BY <1>2, MulMono
<1>4. (d + e) * h = d * h + e * h
  BY <1>2, MulSum
<1>5. high + (d + e) * h \in Nat /\ top + d * t + e * h <= high + (d + e) * h
  BY <1>3, <1>4
<1>6. QED
  BY <1>5 DEF h, t

LEMMA RefilledWithin ==
  ASSUME now \in Nat, NEW b \in Bucket, Within(b), NEW n \in Nat
  PROVE  Within(Taken(Refilled(b, n), n))
<1> DEFINE d == b.last - b.since
           e == now - b.last
           half == n \div 2
           more == e * half
           kept == Min({b.tokens, n})
           tokens == Min({n, kept + more})
           r == Refilled(b, n)
           high == Max({b.top, n})
<1>1. /\ b.tokens \in Nat /\ b.last \in Nat /\ b.served \in Nat
      /\ b.since \in Nat /\ b.top \in Nat
  BY DEF Bucket
<1>2. /\ b.since <= b.last /\ b.last <= now
      /\ b.served + b.tokens <= b.top + d * (b.top \div 2)
  BY DEF Within
<1>3. d \in Nat /\ e \in Nat /\ d + e = now - b.since
  BY <1>1, <1>2
<1>4. half \in Nat
  BY Half
<1>5. more \in Nat
  BY <1>3, <1>4, MulMono
<1>6. r = [b EXCEPT !.tokens = tokens, !.last = now]
  BY DEF Refilled
<1>7. high \in Nat /\ b.top <= high /\ n <= high
  BY <1>1, MaxOfTwo
<1> HIDE DEF d, e, half, more
<1>8. kept \in Nat /\ kept <= b.tokens
  BY <1>1, MinOfTwo
<1> HIDE DEF kept
<1>9. kept + more \in Nat
  BY <1>5, <1>8
<1>10. tokens \in Nat /\ tokens <= kept + more
  BY <1>9, MinOfTwo
<1> HIDE DEF tokens, high, r
<1>11. /\ r.tokens = tokens /\ r.last = now /\ r.since = b.since
       /\ r.served = b.served /\ r.top = b.top
  BY <1>6 DEF Bucket
<1>12. r \in Bucket
  BY <1>1, <1>2, <1>6, <1>10 DEF Bucket
<1>13. CASE tokens = 0
  <2>1. Taken(r, n) = r
    BY <1>11, <1>13 DEF Taken
  <2>2. e * (b.top \div 2) \in Nat /\ d * (b.top \div 2) \in Nat
    BY <1>1, <1>3, Half, MulMono
  <2>3. b.top + d * (b.top \div 2) + e * (b.top \div 2) <= b.top + (d + e) * (b.top \div 2)
    BY <1>1, <1>3, AllowanceGrows
  <2>4. b.top + (d + e) * (b.top \div 2) \in Nat
    BY <1>1, <1>3, AllowanceGrows
  <2>5. b.served + 0 <= b.top + (d + e) * (b.top \div 2)
    BY <1>1, <1>2, <2>2, <2>3, <2>4
  <2>6. QED
    BY <1>1, <1>2, <1>3, <1>11, <1>13, <2>1, <2>5 DEF Within, r
<1>14. CASE tokens # 0
  <2>1. Taken(r, n) = [r EXCEPT !.tokens = tokens - 1, !.served = b.served + 1, !.top = high]
    BY <1>11, <1>14 DEF Taken, high
  <2>2. half <= high \div 2 /\ high \div 2 \in Nat
    BY <1>7, Half DEF half
  <2>3. more <= e * (high \div 2) /\ e * (high \div 2) \in Nat
    BY <1>3, <1>4, <2>2, MulMono DEF more
  <2>4. b.top + d * (b.top \div 2) + e * (high \div 2) <= high + (d + e) * (high \div 2)
    BY <1>1, <1>3, <1>7, AllowanceGrows
  <2>5. high + (d + e) * (high \div 2) \in Nat
    BY <1>1, <1>3, <1>7, AllowanceGrows
  <2>6. d * (b.top \div 2) \in Nat
    BY <1>1, <1>3, Half, MulMono
  <2>7. (b.served + 1) + (tokens - 1) <= high + (d + e) * (high \div 2)
    BY <1>1, <1>2, <1>5, <1>8, <1>10, <2>3, <2>4, <2>5, <2>6
  <2>8. /\ Taken(r, n).served = b.served + 1 /\ Taken(r, n).tokens = tokens - 1
        /\ Taken(r, n).last = now /\ Taken(r, n).since = b.since /\ Taken(r, n).top = high
    BY <1>11, <1>12, <2>1 DEF Bucket
  <2>9. QED
    BY <1>1, <1>2, <1>3, <2>7, <2>8 DEF Within, r
<1>15. QED
  BY <1>13, <1>14 DEF r

LEMMA BucketsInit == Init => BucketsAreWithin
BY DEF Init, BucketsAreWithin

LEMMA BucketsNext == Typed /\ BucketsAreWithin /\ [Next]_vars => BucketsAreWithin'
<1> SUFFICES ASSUME Typed, BucketsAreWithin, [Next]_vars PROVE BucketsAreWithin'
  OBVIOUS
<1>0. now \in Nat /\ bucket \in [Key -> Bucket \cup {Absent}]
  BY ExternalAssumption DEF Typed, TypeOK
<1>1. ASSUME NEW q \in Req, Forget(q) PROVE BucketsAreWithin'
  BY <1>0, <1>1 DEF Forget, BucketsAreWithin, Within
<1>2. ASSUME NEW q \in Req, Allow(q) PROVE BucketsAreWithin'
  <2>1. now' = now
    BY <1>2 DEF Allow
  <2>2. CASE UNCHANGED bucket
    BY <2>1, <2>2 DEF BucketsAreWithin, Within
  <2>3. CASE ~UNCHANGED bucket
    <3> DEFINE c == req[q]
    <3>1. PICK b \in Bucket :
            /\ c.limit # 0
            /\ \/ b = Full(c.limit)
               \/ /\ bucket[c.key] \in Bucket /\ bucket[c.key] # Absent
                  /\ b = Refilled(bucket[c.key], c.limit)
            /\ bucket' = [bucket EXCEPT ![c.key] = Taken(b, c.limit)]
      BY <1>2, <2>3, AllowStep
    <3>2. c.key \in Key /\ c.limit \in Nat
      BY <1>2, AllowStep
    <3>3. Within(Taken(b, c.limit))
      <4>1. CASE b = Full(c.limit)
        BY <1>0, <3>1, <3>2, <4>1, FullWithin
      <4>2. CASE /\ bucket[c.key] \in Bucket /\ bucket[c.key] # Absent
                 /\ b = Refilled(bucket[c.key], c.limit)
        <5>1. Within(bucket[c.key])
          BY <3>2, <4>2 DEF BucketsAreWithin
        <5>2. QED
          BY <1>0, <3>2, <4>2, <5>1, RefilledWithin
      <4>3. QED
        BY <3>1, <4>1, <4>2
    <3> HIDE DEF c
    <3>4. \A k \in Key : bucket'[k] = bucket[k] \/ Within(bucket'[k])
      BY <1>0, <3>1, <3>3
    <3>5. QED
      BY <2>1, <3>4 DEF BucketsAreWithin, Within
  <2>4. QED
    BY <2>2, <2>3
<1>3. CASE Tick
  BY <1>0, <1>3 DEF Tick, BucketsAreWithin, Within, Bucket
<1>4. CASE UNCHANGED <<bucket, now>>
  BY <1>4 DEF BucketsAreWithin, Within
<1>5. ASSUME NEW q \in Req, Edit(q) \/ Call(q) \/ Abort(q), ~Forget(q), ~Allow(q)
      PROVE  UNCHANGED <<bucket, now>>
  BY <1>5 DEF Edit, Call, CreateAPIKey, ReadAPIKey, ReadToRotate, DeleteAPIKey, SaveAPIKey,
    SetAPIKeySecret, ReadSettings, PutSettings, ReadPool, UpsertWorkQueue, Arrive, Lookup,
    AllowBlind, Abort, Rest
<1>6. CASE Publish \/ Mention \/ (\E b \in BOOLEAN : SetQueuePaused(b)) \/ UNCHANGED vars
  BY <1>4, <1>6 DEF Publish, Mention, SetQueuePaused, SetPool, Rest, vars
<1>7. QED
  BY <1>1, <1>2, <1>3, <1>4, <1>5, <1>6 DEF Next, Edit, Call

(* A key is served no more than a burst and the refill of the time gone by *)
(* since its bucket was made, at the greatest limit a caller had read,     *)
(* however callers with the limits from before and after an edit take      *)
(* turns: what has been served and what is left of the bucket never exceed *)
(* that allowance (Allow, tokenBucketLua).                                 *)
THEOREM RateIsBoundedAlways == Spec => []RateIsBounded
<1>1. ASSUME Typed, BucketsAreWithin PROVE RateIsBounded
  <2> SUFFICES ASSUME NEW k \in Key, bucket[k] # Absent
               PROVE  bucket[k].served <=
                        bucket[k].top + (now - bucket[k].since) * (bucket[k].top \div 2)
    BY DEF RateIsBounded
  <2> DEFINE b == bucket[k]
             d == b.last - b.since
             e == now - b.last
  <2>1. b \in Bucket /\ Within(b) /\ now \in Nat
    BY <1>1, ExternalAssumption DEF Typed, TypeOK, BucketsAreWithin
  <2>2. /\ b.tokens \in Nat /\ b.served \in Nat /\ b.top \in Nat
        /\ b.last \in Nat /\ b.since \in Nat
    BY <2>1 DEF Bucket
  <2>3. /\ d \in Nat /\ e \in Nat /\ d + e = now - b.since
        /\ b.served + b.tokens <= b.top + d * (b.top \div 2)
    BY <2>1, <2>2 DEF Within
  <2> HIDE DEF b, d, e
  <2>4. d * (b.top \div 2) \in Nat /\ e * (b.top \div 2) \in Nat
    BY <2>2, <2>3, Half, MulMono
  <2>5. /\ b.top + (d + e) * (b.top \div 2) \in Nat
        /\ b.top + d * (b.top \div 2) + e * (b.top \div 2) <= b.top + (d + e) * (b.top \div 2)
    BY <2>2, <2>3, AllowanceGrows
  <2>6. b.served <= b.top + (d + e) * (b.top \div 2)
    BY <2>2, <2>3, <2>4, <2>5
  <2>7. QED
    BY <2>3, <2>6 DEF b
<1>2. QED
  BY InitTyped, NextTyped, BucketsInit, BucketsNext, <1>1, PTL DEF Spec
=============================================================================
