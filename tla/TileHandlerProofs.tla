--------------------------- MODULE TileHandlerProofs ---------------------------
(***************************************************************************)
(* Proofs about requests: for any number of them, any tokens and settings, *)
(* what a token restricts is enforced up to the usage event, whether its   *)
(* result was validated or remembered, and no expired token passes.        *)
(***************************************************************************)
EXTENDS TileHandler, TLAPS

-----------------------------------------------------------------------------
(* The inductive invariant.                                                 *)

Domains ==
  /\ DOMAIN pc = Req /\ DOMAIN token = Req /\ DOMAIN ctx = Req
  /\ DOMAIN ask = Req /\ DOMAIN answer = Req /\ DOMAIN event = Req
  /\ DOMAIN cache = Token /\ DOMAIN locked = Lock
  /\ now \in Nat

Served(r) == answer[r] # None /\ answer[r].served # None

(* Where a request is says whose steps brought it there. *)
OnItsWay(r) ==
  /\ token[r] \in Token \cup {None}
  /\ pc[r] \in {"key", "refresh", "claims"} => cfg.kind = "jwt" /\ token[r] \in Token
  /\ pc[r] \in {"cached", "validate"} => cfg.kind = "custom" /\ token[r] \in Token
  /\ pc[r] = "check" => ctx[r] = Unrestricted

(* A grant is kept until the usage event is recorded. *)
GrantKept(r) ==
  pc[r] \in Accepted \/ Served(r) \/ event[r] # None =>
    /\ ctx[r] = IF cfg.kind \in {"jwt", "custom"} THEN GrantOf(cfg, token[r]) ELSE Unrestricted
    /\ cfg.kind \in {"jwt", "custom"} => token[r] \in Token

(* No cache may keep what is not a tile. *)
Marked(r) == answer[r].served = None => answer[r].noStore \/ answer[r].status = 499

(* What was served was asked for and permitted. *)
AnswerPermitted(r) ==
  /\ pc[r] \in {"render", "record"} => ask[r] # None
  /\ pc[r] = "record" => answer[r].served = ask[r]
  /\ Served(r) => /\ pc[r] \in {"record", "done"}
                  /\ answer[r].served = ask[r]
                  /\ answer[r].status \in {200, 304}
                  /\ CheckPermission(r)
  /\ pc[r] = "done" => Marked(r)
  /\ event[r] # None => /\ pc[r] = "done"
                        /\ answer[r].served = ask[r]
                        /\ event[r].ask = ask[r]
                        /\ event[r].user = ctx[r].user

RequestOK(r) == OnItsWay(r) /\ GrantKept(r) /\ AnswerPermitted(r)

(* A remembered result is what a validation would have granted. *)
Remembered ==
  \A t \in Token : cache[t] # None =>
    /\ cache[t].grant = GrantOf(cfg, t)
    /\ cfg.kind = "jwt" => cache[t].exp = t.exp

LockHeld ==
  \A r \in Req : cfg.cached /\ pc[r] \in {"cached", "validate"} => locked[token[r].lock] = r

HandlerInv ==
  /\ Domains
  /\ \A r \in Req : RequestOK(r)
  /\ Remembered
  /\ LockHeld

-----------------------------------------------------------------------------
LEMMA ExtractsTokens == ASSUME NEW offer \in Offer PROVE ExtractToken(offer) \in Token \cup {None}
<1> DEFINE found(places) == {i \in DOMAIN Places : Places[i] \in places \cap DOMAIN offer}
<1>1. ASSUME NEW places, found(places) # {}
      PROVE  offer[Places[Min(found(places))]] \in Token
  <2>1. found(places) \subseteq 1 .. 4  BY DEF Places
  <2>2. \E m \in found(places) : \A i \in found(places) : m <= i
    <3> HIDE DEF found
    <3>1. PICK i \in found(places) : TRUE  BY <1>1
    <3>2. \/ 1 \in found(places) \/ 2 \in found(places) \/ 3 \in found(places) \/ 4 \in found(places)
      BY <2>1, <3>1
    <3>3. QED  BY <2>1, <3>2
  <2>3. Min(found(places)) \in found(places)  BY <2>2 DEF Min
  <2>4. QED  BY <2>3, TileHandlerAssumption
<1>2. QED  BY <1>1 DEF ExtractToken

LEMMA HandlerInitInv == Init => HandlerInv
<1> SUFFICES ASSUME Init PROVE HandlerInv
  OBVIOUS
<1> USE DEF Init, InitAuth
<1>1. Domains  BY DEF Domains
<1>2. ASSUME NEW r \in Req PROVE RequestOK(r)
  BY DEF RequestOK, OnItsWay, GrantKept, AnswerPermitted, Served, Accepted
<1>3. Remembered  BY DEF Remembered
<1>4. LockHeld  BY DEF LockHeld
<1>5. QED  BY <1>1, <1>2, <1>3, <1>4 DEF HandlerInv

-----------------------------------------------------------------------------
(* A step of one request leaves the others as they are. *)

OthersKeep(r) ==
  \A q \in Req \ {r} :
    UNCHANGED <<pc[q], token[q], ctx[q], ask[q], answer[q], event[q]>>

LEMMA OneRequest ==
  ASSUME HandlerInv, NEW r \in Req, cfg' = cfg, OthersKeep(r), RequestOK(r)'
  PROVE  \A q \in Req : RequestOK(q)'
<1> SUFFICES ASSUME NEW q \in Req, q # r PROVE RequestOK(q)'
  OBVIOUS
<1>1. RequestOK(q)  BY DEF HandlerInv
<1>2. QED
  BY <1>1 DEF OthersKeep, RequestOK, OnItsWay, GrantKept, AnswerPermitted, Marked, Served,
              CheckPermission

(* Before it is accepted a request was not answered. *)
LEMMA NotYetServed ==
  ASSUME HandlerInv, NEW r \in Req, pc[r] \notin {"record", "done"}
  PROVE  ~Served(r) /\ event[r] = None
BY DEF HandlerInv, RequestOK, AnswerPermitted

InCheck == {"check", "key", "refresh", "claims", "cached", "validate"}

Granted(r) == IF cfg.kind \in {"jwt", "custom"} THEN GrantOf(cfg, token[r]) ELSE Unrestricted

(* What a step of CheckAuthentication may come to. *)
Outcome(r) ==
  \/ Reject(r)
  \/ Goto(r, "aborted") /\ UNCHANGED ctx
  \/ Accept(r, Granted(r)) /\ (cfg.kind \in {"jwt", "custom"} => token[r] \in Token)
  \/ /\ cfg.kind = "jwt" /\ token[r] \in Token
     /\ \E place \in {"key", "refresh", "claims"} : Goto(r, place)
     /\ UNCHANGED ctx
  \/ /\ cfg.kind = "custom" /\ token[r] \in Token
     /\ \E place \in {"cached", "validate"} : Goto(r, place)
     /\ UNCHANGED ctx

LEMMA OutcomeOK ==
  ASSUME HandlerInv, NEW r \in Req, pc[r] \in InCheck, Outcome(r),
         UNCHANGED <<cfg, token, handlerVars>>
  PROVE  /\ \A q \in Req : RequestOK(q)'
         /\ OthersKeep(r)
         /\ DOMAIN pc' = Req /\ DOMAIN ctx' = Req
<1> USE DEF Outcome, Reject, Accept, Goto, handlerVars
<1>1. DOMAIN pc = Req /\ DOMAIN ctx = Req  BY DEF HandlerInv, Domains
<1>2. DOMAIN pc' = Req /\ DOMAIN ctx' = Req  BY <1>1
<1>3. OthersKeep(r)  BY <1>1 DEF OthersKeep
<1>4. ~Served(r)' /\ event'[r] = None
  BY NotYetServed DEF InCheck, Served
<1>5. /\ token'[r] \in Token \cup {None}
      /\ pc'[r] \notin {"check", "render", "record", "done"}
  BY <1>1 DEF HandlerInv, RequestOK, OnItsWay
<1>6. OnItsWay(r)'  BY <1>1, <1>5 DEF OnItsWay
<1>7. GrantKept(r)'
  <2> SUFFICES ASSUME pc'[r] \in Accepted
               PROVE  /\ ctx'[r] = Granted(r)
                      /\ cfg.kind \in {"jwt", "custom"} => token[r] \in Token
    BY <1>4 DEF GrantKept, Granted
  <2>1. pc'[r] \notin {"rejected", "aborted", "key", "refresh", "claims", "cached", "validate"}
    BY DEF Accepted
  <2>2. Accept(r, Granted(r)) /\ (cfg.kind \in {"jwt", "custom"} => token[r] \in Token)
    BY <1>1, <2>1
  <2>3. QED  BY <1>1, <2>2
<1>8. AnswerPermitted(r)'  BY <1>4, <1>5 DEF AnswerPermitted
<1>9. QED  BY <1>2, <1>3, <1>6, <1>7, <1>8, OneRequest DEF RequestOK

(* The steps that leave the locks alone and need none. *)
LEMMA NoLockNeeded ==
  ASSUME HandlerInv, NEW r \in Req, OthersKeep(r), UNCHANGED <<cfg, locked>>,
         pc'[r] \notin {"cached", "validate"}
  PROVE  LockHeld'
BY DEF HandlerInv, LockHeld, OthersKeep

LEMMA SameResults ==
  ASSUME Remembered, UNCHANGED <<cfg, cache>>
  PROVE  Remembered'
BY DEF Remembered

LEMMA PlainInv ==
  ASSUME HandlerInv, NEW r \in Req, CheckPlain(r) \/ NoToken(r), UNCHANGED handlerVars
  PROVE  HandlerInv'
<1> USE DEF CheckPlain, NoToken, Checking, NoState, keyVars
<1>1. pc[r] = "check" /\ UNCHANGED <<cfg, now, cache, locked, token>>
  OBVIOUS
<1>2. Outcome(r)
  <2>1. ctx[r] = Unrestricted  BY <1>1 DEF HandlerInv, RequestOK, OnItsWay
  <2>2. CASE NoToken(r)  BY <2>2 DEF Outcome
  <2>3. CASE CheckPlain(r)  BY <2>1, <2>3 DEF Outcome, Granted
  <2>4. QED  BY <2>2, <2>3
<1>3. /\ \A q \in Req : RequestOK(q)'
      /\ OthersKeep(r)
      /\ DOMAIN pc' = Req /\ DOMAIN ctx' = Req
  BY <1>1, <1>2, OutcomeOK DEF InCheck
<1>4. Domains'  BY <1>1, <1>3 DEF HandlerInv, Domains, handlerVars
<1>5. Remembered'  BY <1>1, SameResults DEF HandlerInv
<1>6. pc'[r] \in {"accepted", "rejected"}
  BY DEF HandlerInv, Domains, Accept, Reject, Goto
<1>7. LockHeld'  BY <1>1, <1>3, <1>6, NoLockNeeded
<1>8. QED  BY <1>3, <1>4, <1>5, <1>7 DEF HandlerInv

(* CheckAuthentication of a JWT. *)
LEMMA LookupJWTInv ==
  ASSUME HandlerInv, NEW r \in Req, LookupJWT(r), UNCHANGED handlerVars
  PROVE  HandlerInv'
<1> USE DEF LookupJWT, Checking, NoState, keyVars
<1>1. pc[r] = "check" /\ UNCHANGED <<cfg, now, cache, locked, token>>
  OBVIOUS
<1>2. cfg.kind = "jwt" /\ token[r] \in Token
  BY <1>1 DEF HandlerInv, RequestOK, OnItsWay
<1>3. Outcome(r)
  <2>1. CASE cfg.cached /\ cache[token[r]] # None
    <3>1. cache[token[r]].grant = Granted(r)
      BY <1>2, <2>1 DEF HandlerInv, Remembered, Granted
    <3>2. Reject(r) \/ Accept(r, Granted(r))  BY <2>1, <3>1 DEF ReplayResult
    <3>3. QED  BY <1>2, <3>2 DEF Outcome
  <2>2. CASE ~(cfg.cached /\ cache[token[r]] # None)
    BY <1>2, <2>2 DEF Outcome
  <2>3. QED  BY <2>1, <2>2
<1>4. /\ \A q \in Req : RequestOK(q)'
      /\ OthersKeep(r)
      /\ DOMAIN pc' = Req /\ DOMAIN ctx' = Req
  BY <1>1, <1>3, OutcomeOK DEF InCheck
<1>5. Domains'  BY <1>1, <1>4 DEF HandlerInv, Domains, handlerVars
<1>6. Remembered'  BY <1>1, SameResults DEF HandlerInv
<1>7. pc'[r] \in {"accepted", "rejected", "key"}
  BY DEF HandlerInv, Domains, ReplayResult, Accept, Reject, Goto
<1>8. LockHeld'  BY <1>1, <1>4, <1>7, NoLockNeeded
<1>9. QED  BY <1>4, <1>5, <1>6, <1>8 DEF HandlerInv

LEMMA KeyInv ==
  ASSUME HandlerInv, NEW r \in Req, KeyFor(r) \/ Refresh(r), UNCHANGED handlerVars
  PROVE  HandlerInv'
<1> USE DEF NoState, keyVars
<1>1. /\ pc[r] \in {"key", "refresh"}
      /\ UNCHANGED <<cfg, now, cache, locked, token>>
  BY DEF KeyFor, Refresh
<1>2. cfg.kind = "jwt" /\ token[r] \in Token
  BY <1>1 DEF HandlerInv, RequestOK, OnItsWay
<1>3. Reject(r) \/ ((Goto(r, "claims") \/ Goto(r, "refresh")) /\ UNCHANGED ctx)
  BY DEF KeyFor, Refresh, VerifyWith
<1>4. Outcome(r)  BY <1>2, <1>3 DEF Outcome
<1>5. /\ \A q \in Req : RequestOK(q)'
      /\ OthersKeep(r)
      /\ DOMAIN pc' = Req /\ DOMAIN ctx' = Req
  BY <1>1, <1>4, OutcomeOK DEF InCheck
<1>6. Domains'  BY <1>1, <1>5 DEF HandlerInv, Domains, handlerVars
<1>7. Remembered'  BY <1>1, SameResults DEF HandlerInv
<1>8. pc'[r] \in {"rejected", "claims", "refresh"}
  BY <1>3 DEF HandlerInv, Domains, Reject, Goto
<1>9. LockHeld'  BY <1>1, <1>5, <1>8, NoLockNeeded
<1>10. QED  BY <1>5, <1>6, <1>7, <1>9 DEF HandlerInv

LEMMA CheckClaimsInv ==
  ASSUME HandlerInv, NEW r \in Req, CheckClaims(r), UNCHANGED handlerVars
  PROVE  HandlerInv'
<1>1. pc[r] = "claims" /\ UNCHANGED <<cfg, now, locked, token>>
  BY DEF CheckClaims
<1>2. cfg.kind = "jwt" /\ token[r] \in Token
  BY <1>1 DEF HandlerInv, RequestOK, OnItsWay
<1>3. Reject(r) \/ Accept(r, Granted(r))
  BY <1>2 DEF CheckClaims, Granted
<1>4. Outcome(r)  BY <1>2, <1>3 DEF Outcome
<1>5. /\ \A q \in Req : RequestOK(q)'
      /\ OthersKeep(r)
      /\ DOMAIN pc' = Req /\ DOMAIN ctx' = Req
  BY <1>1, <1>4, OutcomeOK DEF InCheck
<1>6. \/ cache' = cache
      \/ cache' = [cache EXCEPT ![token[r]] =
                     [pass |-> TRUE, exp |-> token[r].exp, grant |-> GrantOf(cfg, token[r])]]
  BY DEF CheckClaims, Result
<1>7. Domains'  BY <1>1, <1>5, <1>6 DEF HandlerInv, Domains, handlerVars
<1>8. Remembered'
  BY <1>1, <1>6 DEF HandlerInv, Domains, Remembered
<1>9. pc'[r] \in {"accepted", "rejected"}
  BY <1>3 DEF HandlerInv, Domains, Accept, Reject, Goto
<1>10. LockHeld'  BY <1>1, <1>5, <1>9, NoLockNeeded
<1>11. QED  BY <1>5, <1>7, <1>8, <1>10 DEF HandlerInv

(* CheckAuthentication of custom, under the lock of the token. *)
LEMMA LockKeyInv ==
  ASSUME HandlerInv, NEW r \in Req, LockKey(r), UNCHANGED handlerVars
  PROVE  HandlerInv'
<1>1. pc[r] = "check" /\ UNCHANGED <<cfg, now, cache, token, ctx>>
  BY DEF LockKey, Checking
<1>2. cfg.kind = "custom" /\ token[r] \in Token
  BY <1>1 DEF LockKey, HandlerInv, RequestOK, OnItsWay
<1>3. Goto(r, "cached") \/ Goto(r, "validate")
  BY DEF LockKey
<1>4. Outcome(r)  BY <1>1, <1>2, <1>3 DEF Outcome
<1>5. /\ \A q \in Req : RequestOK(q)'
      /\ OthersKeep(r)
      /\ DOMAIN pc' = Req /\ DOMAIN ctx' = Req
  BY <1>1, <1>4, OutcomeOK DEF InCheck
<1>6. DOMAIN locked' = Lock  BY DEF LockKey, HandlerInv, Domains
<1>7. Domains'  BY <1>1, <1>5, <1>6 DEF HandlerInv, Domains, handlerVars
<1>8. Remembered'  BY <1>1, SameResults DEF HandlerInv
<1>9. LockHeld'
  <2> SUFFICES ASSUME NEW q \in Req, cfg.cached, pc'[q] \in {"cached", "validate"}
               PROVE  locked'[token[q].lock] = q
    BY <1>1 DEF LockHeld
  <2>1. /\ locked[token[r].lock] = None
        /\ locked' = [locked EXCEPT ![token[r].lock] = r]
    BY DEF LockKey
  <2>2. CASE q = r
    BY <1>2, <2>1, <2>2, AuthenticationAssumption DEF HandlerInv, Domains
  <2>3. CASE q # r
    <3>1. locked[token[q].lock] = q
      BY <1>5, <2>3 DEF OthersKeep, HandlerInv, LockHeld
    <3>2. QED  BY <2>1, <3>1, AuthenticationAssumption
  <2>4. QED  BY <2>2, <2>3
<1>10. QED  BY <1>5, <1>7, <1>8, <1>9 DEF HandlerInv

(* Giving a lock back leaves what the others hold. *)
LEMMA UnlockInv ==
  ASSUME HandlerInv, NEW r \in Req, cfg.kind = "custom", token[r] \in Token,
         pc[r] \in {"cached", "validate"}, pc'[r] \notin {"cached", "validate"},
         OthersKeep(r), Unlock(r), UNCHANGED cfg
  PROVE  LockHeld' /\ DOMAIN locked' = Lock
<1>1. DOMAIN locked' = Lock  BY DEF Unlock, HandlerInv, Domains
<1>2. ASSUME NEW q \in Req, cfg.cached, pc'[q] \in {"cached", "validate"}
      PROVE  locked'[token'[q].lock] = q
  <2>1. q # r /\ token'[q] = token[q] /\ pc[q] \in {"cached", "validate"}
    BY <1>2 DEF OthersKeep
  <2>2. locked[token[q].lock] = q /\ locked[token[r].lock] = r
    BY <1>2, <2>1 DEF HandlerInv, LockHeld
  <2>3. locked' = [locked EXCEPT ![token[r].lock] = None]
    BY <1>2, <2>2 DEF Unlock, Locked
  <2>4. token[q].lock # token[r].lock  BY <2>1, <2>2
  <2>5. locked'[token[q].lock] = locked[token[q].lock]
    <3>1. token[q] \in Token  BY <2>1 DEF HandlerInv, RequestOK, OnItsWay
    <3>2. token[q].lock \in Lock  BY <3>1, AuthenticationAssumption
    <3>3. QED  BY <2>3, <2>4, <3>2 DEF HandlerInv, Domains
  <2>6. QED  BY <2>1, <2>2, <2>5
<1>3. QED  BY <1>1, <1>2 DEF LockHeld

LEMMA LookupCustomInv ==
  ASSUME HandlerInv, NEW r \in Req, LookupCustom(r), UNCHANGED handlerVars
  PROVE  HandlerInv'
<1>1. pc[r] = "cached" /\ UNCHANGED <<cfg, now, cache, token>>
  BY DEF LookupCustom
<1>2. cfg.kind = "custom" /\ token[r] \in Token
  BY <1>1 DEF HandlerInv, RequestOK, OnItsWay
<1>3. \/ (Reject(r) \/ Accept(r, Granted(r))) /\ Unlock(r)
      \/ Goto(r, "validate") /\ UNCHANGED <<locked, ctx>>
  <2>1. cache[token[r]] # None => cache[token[r]].grant = Granted(r)
    BY <1>2 DEF HandlerInv, Remembered, Granted
  <2>2. QED  BY <2>1 DEF LookupCustom, Decide
<1>4. Outcome(r)  BY <1>2, <1>3 DEF Outcome
<1>5. /\ \A q \in Req : RequestOK(q)'
      /\ OthersKeep(r)
      /\ DOMAIN pc' = Req /\ DOMAIN ctx' = Req
  BY <1>1, <1>4, OutcomeOK DEF InCheck
<1>6. LockHeld' /\ DOMAIN locked' = Lock
  <2>1. CASE (Reject(r) \/ Accept(r, Granted(r))) /\ Unlock(r)
    <3>1. pc'[r] \in {"accepted", "rejected"}
      BY <2>1 DEF HandlerInv, Domains, Accept, Reject, Goto
    <3>2. QED  BY <1>1, <1>2, <1>5, <2>1, <3>1, UnlockInv
  <2>2. CASE Goto(r, "validate") /\ UNCHANGED <<locked, ctx>>
    BY <1>1, <1>5, <2>2 DEF HandlerInv, Domains, LockHeld, OthersKeep
  <2>3. QED  BY <1>3, <2>1, <2>2
<1>7. Domains'  BY <1>1, <1>5, <1>6 DEF HandlerInv, Domains, handlerVars
<1>8. Remembered'  BY <1>1, SameResults DEF HandlerInv
<1>9. QED  BY <1>5, <1>6, <1>7, <1>8 DEF HandlerInv

LEMMA ValidateInv ==
  ASSUME HandlerInv, NEW r \in Req, ValidateStep(r), UNCHANGED handlerVars
  PROVE  HandlerInv'
<1>1. pc[r] = "validate" /\ Unlock(r) /\ UNCHANGED <<cfg, now, token>>
  BY DEF ValidateStep, ValidateReturns, ValidatePanics, Decide
<1>2. cfg.kind = "custom" /\ token[r] \in Token
  BY <1>1 DEF HandlerInv, RequestOK, OnItsWay
<1>3. Reject(r) \/ Accept(r, Granted(r)) \/ (Goto(r, "aborted") /\ UNCHANGED ctx)
  BY <1>2 DEF ValidateStep, ValidateReturns, ValidatePanics, Decide, Result, Granted
<1>4. Outcome(r)  BY <1>2, <1>3 DEF Outcome
<1>5. /\ \A q \in Req : RequestOK(q)'
      /\ OthersKeep(r)
      /\ DOMAIN pc' = Req /\ DOMAIN ctx' = Req
  BY <1>1, <1>4, OutcomeOK DEF InCheck
<1>6. pc'[r] \in {"accepted", "rejected", "aborted"}
  BY <1>3 DEF HandlerInv, Domains, Accept, Reject, Goto
<1>7. LockHeld' /\ DOMAIN locked' = Lock
  BY <1>1, <1>2, <1>5, <1>6, UnlockInv
<1>8. \/ cache' = cache
      \/ \E pass \in BOOLEAN, exp \in 0 .. MaxTime :
           cache' = [cache EXCEPT ![token[r]] =
                      [pass |-> pass, exp |-> exp, grant |-> GrantOf(cfg, token[r])]]
  BY DEF ValidateStep, ValidateReturns, ValidatePanics, Result
<1>9. Domains'  BY <1>1, <1>5, <1>7, <1>8 DEF HandlerInv, Domains, handlerVars
<1>10. Remembered'
  BY <1>1, <1>2, <1>8 DEF HandlerInv, Domains, Remembered
<1>11. QED  BY <1>5, <1>7, <1>9, <1>10 DEF HandlerInv

LEMMA SurroundingsInv ==
  ASSUME HandlerInv, Surroundings, UNCHANGED handlerVars
  PROVE  HandlerInv'
<1>1. UNCHANGED <<cfg, locked, pc, token, ctx, handlerVars>>
  BY DEF Surroundings, Tick, Rotate, FetchKeys, Forget
<1>2. ASSUME NEW r \in Req PROVE RequestOK(r)'
  <2>1. RequestOK(r)  BY DEF HandlerInv
  <2>2. QED
    BY <1>1, <2>1 DEF RequestOK, OnItsWay, GrantKept, AnswerPermitted, Marked, Served,
                      CheckPermission, handlerVars
<1>3. \/ cache' = cache
      \/ \E t \in Token : cache' = [cache EXCEPT ![t] = None]
  BY DEF Surroundings, Tick, Rotate, FetchKeys, Forget
<1>4. now' \in {now, now + 1}
  BY DEF Surroundings, Tick, Rotate, FetchKeys, Forget
<1>5. Domains'  BY <1>1, <1>3, <1>4 DEF HandlerInv, Domains, handlerVars
<1>6. Remembered'  BY <1>1, <1>3 DEF HandlerInv, Domains, Remembered
<1>7. LockHeld'  BY <1>1 DEF HandlerInv, LockHeld
<1>8. QED  BY <1>2, <1>5, <1>6, <1>7 DEF HandlerInv

-----------------------------------------------------------------------------
(* The handler's own steps. *)

LEMMA HandlerFrame ==
  ASSUME HandlerInv, NEW r \in Req, UNCHANGED <<cfg, now, cache, locked>>,
         OthersKeep(r), RequestOK(r)', pc'[r] \notin {"cached", "validate"},
         DOMAIN pc' = Req, DOMAIN token' = Req, DOMAIN ctx' = Req,
         DOMAIN ask' = Req, DOMAIN answer' = Req, DOMAIN event' = Req
  PROVE  HandlerInv'
<1>1. \A q \in Req : RequestOK(q)'  BY OneRequest
<1>2. Domains'  BY DEF HandlerInv, Domains
<1>3. Remembered'  BY SameResults DEF HandlerInv
<1>4. LockHeld'  BY NoLockNeeded
<1>5. QED  BY <1>1, <1>2, <1>3, <1>4 DEF HandlerInv

(* An error that no cache keeps. *)
MarkedAnswer(r) ==
  \E status, noStore : Respond(r, status, noStore, None) /\ (noStore \/ status = 499)

(* A request that was answered without a tile has nothing left to keep. *)
LEMMA AnsweredWithoutTile ==
  ASSUME HandlerInv, NEW r \in Req, pc[r] \notin {"record", "done"},
         UNCHANGED <<cfg, now, cache, locked, event>>,
         Forgotten(r),
         \/ Goto(r, "done") /\ MarkedAnswer(r)
         \/ Goto(r, "open") /\ \E status, noStore : Respond(r, status, noStore, None)
  PROVE  HandlerInv'
<1> USE DEF Goto, Forgotten, Respond, Answer, MarkedAnswer
<1>1. /\ DOMAIN pc = Req /\ DOMAIN token = Req /\ DOMAIN ctx = Req
      /\ DOMAIN ask = Req /\ DOMAIN answer = Req /\ DOMAIN event = Req
  BY DEF HandlerInv, Domains
<1>2. ~Served(r)' /\ event'[r] = None  BY <1>1, NotYetServed DEF Served
<1>3. token'[r] = None /\ pc'[r] \in {"done", "open"}  BY <1>1
<1>4. pc'[r] = "done" => Marked(r)'  BY <1>1 DEF Marked
<1>5. RequestOK(r)'
  BY <1>2, <1>3, <1>4 DEF RequestOK, OnItsWay, GrantKept, AnswerPermitted, Accepted
<1>6. OthersKeep(r)  BY <1>1 DEF OthersKeep
<1>7. /\ DOMAIN pc' = Req /\ DOMAIN token' = Req /\ DOMAIN ctx' = Req
      /\ DOMAIN ask' = Req /\ DOMAIN answer' = Req /\ DOMAIN event' = Req
  BY <1>1
<1>8. QED  BY <1>3, <1>5, <1>6, <1>7, HandlerFrame

LEMMA ErrorHasNoTile ==
  ASSUME NEW r \in Req, NEW error, WriteError(r, error)
  PROVE  MarkedAnswer(r)
<1> USE DEF MarkedAnswer
<1>1. CASE error = "cancelled"  BY <1>1 DEF WriteError
<1>2. CASE error # "cancelled"
  <2>1. Respond(r, ErrorVars(TypeOf(error)), TRUE, None)  BY <1>2 DEF WriteError
  <2>2. QED  BY <2>1
<1>3. QED  BY <1>1, <1>2

LEMMA FailInv ==
  ASSUME HandlerInv, NEW r \in Req, NEW error, Fail(r, error),
         pc[r] \notin {"record", "done"}, UNCHANGED <<cfg, now, cache, locked, event>>
  PROVE  HandlerInv'
BY ErrorHasNoTile, AnsweredWithoutTile DEF Fail

LEMMA ArriveInv ==
  ASSUME HandlerInv, NEW r \in Req, NEW offer \in Offer, Arrive(r, offer)
  PROVE  HandlerInv'
<1> USE DEF Arrive, Goto
<1>1. /\ DOMAIN pc = Req /\ DOMAIN token = Req /\ DOMAIN ctx = Req
      /\ DOMAIN ask = Req /\ DOMAIN answer = Req /\ DOMAIN event = Req
  BY DEF HandlerInv, Domains
<1>2. /\ pc'[r] = "check" /\ token'[r] = ExtractToken(offer) /\ ctx'[r] = Unrestricted
      /\ answer'[r] = None /\ event'[r] = None
  BY <1>1
<1>3. RequestOK(r)'
  BY <1>2, ExtractsTokens DEF RequestOK, OnItsWay, GrantKept, AnswerPermitted, Served, Accepted
<1>4. OthersKeep(r)  BY <1>1 DEF OthersKeep
<1>5. /\ DOMAIN pc' = Req /\ DOMAIN token' = Req /\ DOMAIN ctx' = Req
      /\ DOMAIN ask' = Req /\ DOMAIN answer' = Req /\ DOMAIN event' = Req
  BY <1>1
<1>6. QED  BY <1>2, <1>3, <1>4, <1>5, HandlerFrame

LEMMA AnswerOpenlyInv ==
  ASSUME HandlerInv, NEW r \in Req, AnswerOpenly(r)
  PROVE  HandlerInv'
<1>1. \E status, noStore : Respond(r, status, noStore, None)
  <2>1. CASE WriteError(r, "other")  BY <2>1, ErrorHasNoTile DEF MarkedAnswer
  <2>2. CASE \E status \in {200, 204, 307} : Respond(r, status, FALSE, None)
    BY <2>2
  <2>3. QED  BY <2>1, <2>2 DEF AnswerOpenly
<1>2. /\ pc[r] = "check" /\ Goto(r, "open") /\ Forgotten(r)
      /\ UNCHANGED <<cfg, now, cache, locked, event>>
  BY DEF AnswerOpenly
<1>3. QED  BY <1>1, <1>2, AnsweredWithoutTile

LEMMA RefuseInv ==
  ASSUME HandlerInv, NEW r \in Req, Refuse(r)
  PROVE  HandlerInv'
BY FailInv DEF Refuse, HandlerKeeps

LEMMA ExtractInv ==
  ASSUME HandlerInv, NEW r \in Req, Extract(r)
  PROVE  HandlerInv'
<1>1. pc[r] = "accepted" /\ UNCHANGED <<cfg, now, cache, locked, event>>
  BY DEF Extract, HandlerKeeps
<1>2. CASE \E error \in {"invalid argument", "range"} : Fail(r, error)
  BY <1>1, <1>2, FailInv
<1>3. CASE ExtractTo(r) /\ UNCHANGED answer
  <2> USE <1>3 DEF ExtractTo, Goto
  <2>1. /\ DOMAIN pc = Req /\ DOMAIN token = Req /\ DOMAIN ctx = Req
        /\ DOMAIN ask = Req /\ DOMAIN answer = Req /\ DOMAIN event = Req
    BY DEF HandlerInv, Domains
  <2>2. ~Served(r)' /\ event'[r] = None  BY <1>1, NotYetServed DEF Served
  <2>3. pc'[r] = "render" /\ ask'[r] # None  BY <2>1, TileHandlerAssumption
  <2>4. RequestOK(r)'
    BY <1>1, <2>2, <2>3 DEF HandlerInv, RequestOK, OnItsWay, GrantKept, AnswerPermitted, Accepted
  <2>5. OthersKeep(r)  BY <1>1, <2>1 DEF OthersKeep
  <2>6. DOMAIN pc' = Req /\ DOMAIN ask' = Req  BY <2>1
  <2>7. QED  BY <1>1, <2>1, <2>3, <2>4, <2>5, <2>6, HandlerFrame
<1>4. QED  BY <1>2, <1>3 DEF Extract

(* Permission is asked of the very context the tile is then served under.   *)
LEMMA RenderInv ==
  ASSUME HandlerInv, NEW r \in Req, Render(r)
  PROVE  HandlerInv'
<1>1. pc[r] = "render" /\ UNCHANGED <<cfg, now, cache, locked, event>>
  BY DEF Render, HandlerKeeps
<1>2. CASE \E error : Fail(r, error)
  BY <1>1, <1>2, FailInv
<1>3. CASE /\ CheckPermission(r) /\ WriteTile(r)
           /\ Goto(r, "record") /\ UNCHANGED <<token, ctx, ask>>
  <2> USE <1>3 DEF Goto
  <2>1. /\ DOMAIN pc = Req /\ DOMAIN token = Req /\ DOMAIN ctx = Req
        /\ DOMAIN ask = Req /\ DOMAIN answer = Req /\ DOMAIN event = Req
    BY DEF HandlerInv, Domains
  <2>2. /\ answer'[r].served = ask[r] /\ answer'[r].status \in {200, 304}
        /\ DOMAIN answer' = Req
        /\ \A q \in Req \ {r} : answer'[q] = answer[q]
    BY <2>1 DEF WriteTile, Respond, Answer
  <2>3. pc'[r] = "record" /\ event'[r] = None
    BY <1>1, <2>1, NotYetServed
  <2>4. CheckPermission(r)' /\ ask'[r] # None
    BY <1>1 DEF CheckPermission, HandlerInv, RequestOK, AnswerPermitted
  <2>5. GrantKept(r)' /\ OnItsWay(r)'
    BY <1>1, <2>3 DEF HandlerInv, RequestOK, OnItsWay, GrantKept, Accepted
  <2>6. AnswerPermitted(r)'  BY <2>2, <2>3, <2>4 DEF AnswerPermitted
  <2>7. OthersKeep(r)  BY <1>1, <2>1, <2>2 DEF OthersKeep
  <2>8. DOMAIN pc' = Req  BY <2>1
  <2>9. QED
    BY <1>1, <2>1, <2>2, <2>3, <2>5, <2>6, <2>7, <2>8, HandlerFrame DEF RequestOK
<1>4. QED  BY <1>2, <1>3 DEF Render

LEMMA RecordInv ==
  ASSUME HandlerInv, NEW r \in Req, RecordAnalytics(r)
  PROVE  HandlerInv'
<1> USE DEF RecordAnalytics, Goto, HandlerKeeps
<1>1. /\ DOMAIN pc = Req /\ DOMAIN token = Req /\ DOMAIN ctx = Req
      /\ DOMAIN ask = Req /\ DOMAIN answer = Req /\ DOMAIN event = Req
  BY DEF HandlerInv, Domains
<1>2. pc[r] = "record" /\ pc'[r] = "done" /\ UNCHANGED <<cfg, now, cache, locked>>
  BY <1>1
<1>3. event'[r] # None => event'[r].ask = ask[r] /\ event'[r].user = ctx[r].user
  <2>1. event[r] = None  BY <1>2 DEF HandlerInv, RequestOK, AnswerPermitted
  <2>2. QED  BY <1>1, <2>1
<1>4. answer[r].served = ask[r]  BY <1>2 DEF HandlerInv, RequestOK, AnswerPermitted
<1>5. RequestOK(r)'
  <2>1. OnItsWay(r)'  BY <1>2 DEF HandlerInv, RequestOK, OnItsWay
  <2>2. GrantKept(r)'  BY <1>2 DEF HandlerInv, RequestOK, GrantKept, Accepted
  <2>3. AnswerPermitted(r)'
    BY <1>2, <1>3, <1>4 DEF HandlerInv, RequestOK, AnswerPermitted, Marked, Served,
                            CheckPermission
  <2>4. QED  BY <2>1, <2>2, <2>3 DEF RequestOK
<1>6. OthersKeep(r)  BY <1>1 DEF OthersKeep
<1>7. DOMAIN pc' = Req /\ DOMAIN event' = Req  BY <1>1
<1>8. QED  BY <1>1, <1>2, <1>5, <1>6, <1>7, HandlerFrame

LEMMA HandlerNextInv == HandlerInv /\ [Next]_vars => HandlerInv'
<1> SUFFICES ASSUME HandlerInv, [Next]_vars PROVE HandlerInv'
  OBVIOUS
<1>1. CASE \E r \in Req, offer \in Offer : Arrive(r, offer)
  BY <1>1, ArriveInv
<1>2. CASE \E r \in Req : AnswerOpenly(r) \/ HandlerStep(r)
  BY <1>2, AnswerOpenlyInv, RefuseInv, ExtractInv, RenderInv, RecordInv DEF HandlerStep, OwnStep
<1>3. CASE \E r \in Req : (CheckStep(r) \/ ValidateStep(r)) /\ UNCHANGED handlerVars
  BY <1>3, PlainInv, LookupJWTInv, KeyInv, CheckClaimsInv, LockKeyInv, LookupCustomInv, ValidateInv
     DEF CheckStep
<1>4. CASE Surroundings /\ UNCHANGED handlerVars
  BY <1>4, SurroundingsInv
<1>5. CASE UNCHANGED vars
  <2>1. UNCHANGED <<cfg, now, cache, locked, pc, token, ctx, ask, answer, event>>
    BY <1>5 DEF vars, authVars, handlerVars
  <2>2. Domains' /\ Remembered' /\ LockHeld'
    BY <2>1 DEF HandlerInv, Domains, Remembered, LockHeld
  <2>3. ASSUME NEW r \in Req PROVE RequestOK(r)'
    BY <2>1 DEF HandlerInv, RequestOK, OnItsWay, GrantKept, AnswerPermitted, Marked, Served,
                CheckPermission
  <2>4. QED  BY <2>2, <2>3 DEF HandlerInv
<1>6. QED  BY <1>1, <1>2, <1>3, <1>4, <1>5 DEF Next

(* The inductive invariant of requests on their way through authentication  *)
(* and the tile handler (tile_handler.go, ServeHTTP).                       *)
THEOREM RequestInvariance == Spec => []HandlerInv
<1>1. QED  BY HandlerInitInv, HandlerNextInv, PTL DEF Spec

(* A request that passed carries its own token's restrictions, whether they *)
(* were validated or remembered (jwt.go, apply; custom.go).                 *)
THEOREM GrantsAreTheTokens == Spec => []GrantIsTheTokens
<1>1. HandlerInv => GrantIsTheTokens
  BY DEF HandlerInv, RequestOK, GrantKept, GrantIsTheTokens
<1>2. QED  BY <1>1, RequestInvariance, PTL

(* Only what the token allows is served and counted (layergroup.go,         *)
(* checkPermission; tile_handler.go, recordAnalytics).                      *)
THEOREM ServesOnlyAllowed == Spec => []ServedIsAllowed
<1>1. ASSUME HandlerInv, NEW r \in Req, answer[r] # None, answer[r].served # None
      PROVE  LET t == token[r] served == answer[r].served IN
             /\ cfg.kind = "jwt" /\ cfg.layerScope => served.layer \in t.scope
             /\ cfg.kind = "custom" /\ t.scope # None /\ t.scope \cap Layer # {} =>
                  served.layer \in t.scope
             /\ cfg.kind = "jwt" /\ t.hash # None => served.tile \in t.hash
             /\ answer[r].status \in {200, 304}
  <2>1. GrantKept(r) /\ AnswerPermitted(r) /\ Served(r)
    BY <1>1 DEF HandlerInv, RequestOK, Served
  <2>2. /\ answer[r].served = ask[r] /\ answer[r].status \in {200, 304}
        /\ ctx[r].limit => ask[r].layer \in ctx[r].layers
        /\ ctx[r].area # {} => ask[r].tile \in ctx[r].area
    BY <2>1 DEF AnswerPermitted, CheckPermission
  <2>3. cfg.kind \in {"jwt", "custom"} =>
          token[r] \in Token /\ ctx[r] = GrantOf(cfg, token[r])
    BY <2>1 DEF GrantKept
  <2>4. CASE cfg.kind = "jwt"
    <3>1. /\ ctx[r].limit = cfg.layerScope
          /\ cfg.layerScope => ctx[r].layers = token[r].scope \cap Layer
          /\ token[r].hash # None => ctx[r].area = token[r].hash
      BY <2>3, <2>4 DEF GrantOf
    <3>2. token[r].hash # {}  BY <2>3, <2>4, AuthenticationAssumption
    <3>3. QED  BY <2>2, <2>4, <3>1, <3>2
  <2>5. CASE cfg.kind = "custom"
    <3> DEFINE layers == IF token[r].scope = None THEN {} ELSE token[r].scope \cap Layer
    <3>1. ctx[r] = [limit |-> layers # {}, layers |-> layers, area |-> {}, user |-> token[r].user]
      BY <2>3, <2>5 DEF GrantOf
    <3>2. ctx[r].limit = (layers # {}) /\ ctx[r].layers = layers  BY <3>1
    <3>3. token[r].scope # None => layers = token[r].scope \cap Layer  OBVIOUS
    <3>4. QED  BY <2>2, <2>5, <3>2, <3>3
  <2>6. CASE cfg.kind \notin {"jwt", "custom"}
    BY <2>2, <2>6
  <2>7. QED  BY <2>4, <2>5, <2>6
<1>2. ASSUME HandlerInv, NEW r \in Req, event[r] # None
      PROVE  /\ answer[r].served = event[r].ask
             /\ cfg.kind \in {"jwt", "custom"} => event[r].user = token[r].user
  <2>1. GrantKept(r) /\ AnswerPermitted(r)
    BY <1>2 DEF HandlerInv, RequestOK
  <2>2. answer[r].served = event[r].ask /\ event[r].user = ctx[r].user
    BY <1>2, <2>1 DEF AnswerPermitted
  <2>3. cfg.kind \in {"jwt", "custom"} => ctx[r].user = token[r].user
    BY <1>2, <2>1 DEF GrantKept, GrantOf
  <2>4. QED  BY <2>2, <2>3
<1>3. ASSUME HandlerInv, NEW r \in Req, pc[r] = "done", answer[r].served = None
      PROVE  answer[r].noStore \/ answer[r].status = 499
  BY <1>3 DEF HandlerInv, RequestOK, AnswerPermitted, Marked
<1>4. HandlerInv => ServedIsAllowed
  BY <1>1, <1>2, <1>3 DEF ServedIsAllowed
<1>5. QED  BY <1>4, RequestInvariance, PTL

(* The script validates a token once at a time while results are remembered *)
(* (custom.go, the pooled locks).                                           *)
THEOREM ValidatesOnce == Spec => []OneValidation
<1>1. HandlerInv => OneValidation
  BY DEF HandlerInv, LockHeld, OneValidation
<1>2. QED  BY <1>1, RequestInvariance, PTL

(* No request passes on a token that has expired (jwt.go, custom.go,        *)
(* CheckAuthentication).                                                    *)
THEOREM NoExpiredTokenPasses == Spec => NoExpiredPass
<1> DEFINE Unexpired ==
      \A r \in Req : pc[r] # "accepted" /\ pc'[r] = "accepted" =>
        /\ cfg.kind = "jwt" => now <= token[r].exp
        /\ cfg.kind = "custom" /\ cfg.cached => now <= cache'[token[r]].exp
<1>1. ASSUME HandlerInv, [Next]_vars PROVE Unexpired
  <2> SUFFICES ASSUME NEW r \in Req, pc[r] # "accepted", pc'[r] = "accepted"
               PROVE  /\ cfg.kind = "jwt" => now <= token[r].exp
                      /\ cfg.kind = "custom" /\ cfg.cached => now <= cache'[token[r]].exp
    OBVIOUS
  <2>1. Domains /\ RequestOK(r) /\ Remembered  BY <1>1 DEF HandlerInv
  <2>2. ASSUME NEW q \in Req, NEW to, pc' = [pc EXCEPT ![q] = to]
        PROVE  q = r /\ to = "accepted"
    BY <2>1, <2>2 DEF Domains
  <2>3. ASSUME NEW q \in Req, NEW offer \in Offer, Arrive(q, offer) PROVE FALSE
    BY <2>2, <2>3 DEF Arrive, Goto
  <2>4. ASSUME NEW q \in Req, AnswerOpenly(q) \/ HandlerStep(q) PROVE FALSE
    BY <2>2, <2>4 DEF AnswerOpenly, HandlerStep, OwnStep, Refuse, Extract, ExtractTo, Render,
                      RecordAnalytics, Fail, Goto
  <2>5. CASE \E q \in Req : CheckStep(q)
    <3>1. ASSUME NEW q \in Req, NoToken(q) \/ KeyFor(q) \/ Refresh(q) \/ LockKey(q) PROVE FALSE
      BY <2>2, <3>1 DEF NoToken, KeyFor, Refresh, VerifyWith, LockKey, Reject, Goto
    <3>2. CASE \E q \in Req : CheckPlain(q)
      BY <3>2 DEF CheckPlain
    <3>3. CASE \E q \in Req : LookupJWT(q)
      <4>1. PICK q \in Req : LookupJWT(q)  BY <3>3
      <4>2. cfg.kind = "jwt" /\ token[q] # None  BY <4>1 DEF LookupJWT
      <4>3. /\ q = r /\ cache[token[q]] # None
            /\ cache[token[q]].exp > now
        BY <2>2, <4>1 DEF LookupJWT, ReplayResult, Accept, Reject, Goto
      <4>4. token[r] \in Token  BY <2>1, <4>2, <4>3 DEF RequestOK, OnItsWay
      <4>5. token[r].exp > now  BY <2>1, <4>2, <4>3, <4>4 DEF Remembered
      <4>6. QED  BY <2>1, <4>2, <4>4, <4>5, AuthenticationAssumption DEF Domains
    <3>4. CASE \E q \in Req : CheckClaims(q)
      <4>1. PICK q \in Req : CheckClaims(q)  BY <3>4
      <4>2. pc[q] = "claims" /\ q = r /\ ClaimsPass(token[q])
        BY <2>2, <4>1 DEF CheckClaims, Accept, Reject, Goto
      <4>3. cfg.kind = "jwt" /\ token[r] \in Token
        BY <2>1, <4>2 DEF RequestOK, OnItsWay
      <4>4. token[r].exp >= now  BY <4>2 DEF ClaimsPass
      <4>5. QED  BY <2>1, <4>3, <4>4, AuthenticationAssumption DEF Domains
    <3>5. CASE \E q \in Req : LookupCustom(q)
      <4>1. PICK q \in Req : LookupCustom(q)  BY <3>5
      <4>2. /\ q = r /\ pc[q] = "cached" /\ cache' = cache
            /\ cache[token[q]].exp >= now
        BY <2>2, <4>1 DEF LookupCustom, Decide, IsGood, Accept, Reject, Goto
      <4>3. cfg.kind = "custom"  BY <2>1, <4>2 DEF RequestOK, OnItsWay
      <4>4. QED  BY <4>2, <4>3
    <3>6. QED
      BY <2>5, <3>1, <3>2, <3>3, <3>4, <3>5 DEF CheckStep
  <2>6. CASE \E q \in Req : ValidateStep(q)
    <3>1. PICK q \in Req : ValidateStep(q)  BY <2>6
    <3>2. pc[q] = "validate" /\ q = r
      BY <2>2, <3>1 DEF ValidateStep, ValidateReturns, ValidatePanics, Decide, Accept, Reject, Goto
    <3>3. cfg.kind = "custom" /\ token[r] \in Token
      BY <2>1, <3>2 DEF RequestOK, OnItsWay
    <3>4. PICK pass \in BOOLEAN, exp \in 0 .. MaxTime :
            /\ cache' = IF cfg.cached
                        THEN [cache EXCEPT ![token[q]] = Result(pass, exp, GrantOf(cfg, token[q]))]
                        ELSE cache
            /\ Decide(q, Result(pass, exp, GrantOf(cfg, token[q])))
      BY <2>2, <3>1 DEF ValidateStep, ValidateReturns, ValidatePanics, Goto
    <3>5. exp >= now  BY <2>2, <3>4 DEF Decide, IsGood, Result, Reject, Goto
    <3>6. cfg.cached => cache'[token[r]].exp = exp
      BY <2>1, <3>2, <3>3, <3>4 DEF Domains, Result
    <3>7. QED  BY <3>3, <3>5, <3>6
  <2>7. CASE Surroundings \/ UNCHANGED vars
    <3>1. pc' = pc
      BY <2>7 DEF Surroundings, Tick, Rotate, FetchKeys, Forget, vars, authVars
    <3>2. QED  BY <3>1
  <2>8. QED  BY <1>1, <2>3, <2>4, <2>5, <2>6, <2>7 DEF Next
<1>2. HandlerInv /\ [Next]_vars => [Unexpired]_vars  BY <1>1
<1>3. QED  BY <1>2, RequestInvariance, PTL DEF Spec, NoExpiredPass
=============================================================================
