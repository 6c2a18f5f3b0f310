---------------------------- MODULE Authentication -----------------------------
(***************************************************************************)
(* Request authentication (internal/authentications): what a module's      *)
(* settings must satisfy, and CheckAuthentication of each module on        *)
(* concurrent requests.  A check ends with the request's context holding   *)
(* the grant of its token, what the rest of the server enforces.           *)
(*                                                                         *)
(* "jwt" remembers the result of a validated token and replays it; with a  *)
(* JWKS it verifies against a keyset that the issuer rotates.  "custom"    *)
(* asks a script, whose answers it remembers too, under a lock of the      *)
(* token.  Locks are pooled, so tokens may share one: a token's "lock".    *)
(*                                                                         *)
(* A token is a record of what the checks read of it: "kid" its key ID or  *)
(* None, "signer" the key that signed it, "alg", "exp", "scope" the set of *)
(* its scopes or None, "hash" the tiles of its geohash or None, "user",    *)
(* and "sound" when the issuer, audience, subject and the type of every    *)
(* claim are right.  A key is a record of its "kid" and "alg".             *)
(***************************************************************************)
EXTENDS Integers, FiniteSets, SequencesExt

CONSTANTS
  Req,            \* request goroutines; one that was answered serves another
  Token,          \* the tokens requests carry
  KeySets,        \* the sets of keys an issuer publishes one after the other
  Layer,          \* layer IDs
  Settings,       \* configurations of the authentication module
  Lock,           \* the locks custom's tokens are hashed to
  MaxTime,        \* the last tick of the clock (a bound)
  MaxExpiration,  \* JWTConfig.MaxExpiration, in ticks
  None            \* nothing, nobody

ASSUME AuthenticationAssumption ==
  /\ None \notin Req /\ None \notin Token
  /\ MaxTime \in Nat
  /\ \A t \in Token : t.exp \in Int /\ t.lock \in Lock /\ t.hash # {}

VARIABLES
  cfg,        \* the settings in use
  now,        \* the clock
  published,  \* which of KeySets the issuer publishes
  keyset,     \* the keys the JWKS cache holds, None before the first fetch
  cache,      \* [Token -> remembered result or None]
  locked,     \* [Lock -> the request that holds it]
  pc,         \* [Req -> place]
  token,      \* [Req -> its token or None]
  ctx         \* [Req -> the grant in its context]

keyVars  == <<published, keyset>>
authVars == <<cfg, now, published, keyset, cache, locked, pc, token, ctx>>

-----------------------------------------------------------------------------
(* Settings.                                                                *)

ValidAlgorithms == {"HS256", "HS512", "RS256", "RS512", "PS256", "ES256", "EdDSA"}
Symmetric == {"HS256", "HS512"}

(* RS and PS parse as the same kind of key. *)
Family(alg) ==
  CASE alg \in Symmetric -> "HS"
    [] alg \in {"RS256", "RS512", "PS256"} -> "RSA"
    [] alg = "ES256" -> "ES"
    [] OTHER -> alg

(* resolveAlgorithms: one of the two parameters, and known values. *)
Algorithms(s) == IF s.algorithm # None THEN <<s.algorithm>> ELSE s.algorithms

ResolveAlgorithms(s) ==
  /\ s.algorithm = None \/ s.algorithms = <<>>
  /\ Algorithms(s) # <<>>
  /\ ToSet(Algorithms(s)) \subseteq ValidAlgorithms

(* validateURL. *)
ValidateURL(url) == url = "https://host"

(* JWT.Initialize up to the keyset. *)
InitializeJWT(s) ==
  /\ ResolveAlgorithms(s)
  /\ (s.jwks = None) # (s.key = None)
  /\ s.jwks = None => \A a \in ToSet(Algorithms(s)) : Family(a) = Family(Algorithms(s)[1])
  /\ s.jwks # None => ValidateURL(s.jwks) /\ Symmetric \cap ToSet(Algorithms(s)) = {}

(* Custom.Initialize: the script compiles, has a validate function of the   *)
(* right type and no close function of a wrong one.                         *)
InitializeCustom(s) == s.extract # {} /\ s.script = "good"

Initialize(s) ==
  CASE s.kind = "jwt" -> InitializeJWT(s)
    [] s.kind = "custom" -> InitializeCustom(s)
    [] OTHER -> s.kind \in {"none", "static key"}

(* newKeySet fetches the keys, and only AllowStartupFailure lets it fail. *)
NewKeySet(s) ==
  \/ keyset = KeySets[published]
  \/ keyset = None /\ s.allowStartupFailure

-----------------------------------------------------------------------------
(* Grants: what NewRequestContext leaves unrestricted and a check narrows.  *)

Unrestricted == [limit |-> FALSE, layers |-> {}, area |-> {}, user |-> None]

(* validateScope, for the scopes that name a layer behind the prefix. *)
ValidateScope(t) ==
  IF t.scope = None THEN ~cfg.layerScope /\ ~cfg.expectedScope
                    ELSE cfg.expectedScope => "tiles" \in t.scope

(* What a token grants: validateScope, validateGeohash and the user's claim *)
(* for a JWT, the layers and user the script returns for custom.            *)
GrantOf(s, t) ==
  CASE s.kind = "jwt" ->
         [limit  |-> s.layerScope,
          layers |-> IF s.layerScope THEN t.scope \cap Layer ELSE {},
          area   |-> IF t.hash = None THEN {} ELSE t.hash,
          user   |-> t.user]
    [] s.kind = "custom" ->
         LET layers == IF t.scope = None THEN {} ELSE t.scope \cap Layer IN
         [limit |-> layers # {}, layers |-> layers, area |-> {}, user |-> t.user]
    [] OTHER -> Unrestricted

Result(pass, exp, grant) == [pass |-> pass, exp |-> exp, grant |-> grant]
IsGood(result) == result.pass /\ result.exp >= now

InitAuth ==
  /\ cfg \in {s \in Settings : Initialize(s)}
  /\ now = 0
  /\ published = 1
  /\ IF cfg.kind = "jwt" /\ cfg.jwks # None THEN NewKeySet(cfg) ELSE keyset = None
  /\ cache  = [t \in Token |-> None]
  /\ locked = [l \in Lock |-> None]
  /\ pc     = [r \in Req |-> "idle"]
  /\ token  = [r \in Req |-> None]
  /\ ctx    = [r \in Req |-> Unrestricted]

Goto(r, place) == pc' = [pc EXCEPT ![r] = place]

(* CheckAuthentication returns: true with the grant in the context. *)
Accept(r, grant) == Goto(r, "accepted") /\ ctx' = [ctx EXCEPT ![r] = grant]
Reject(r) == Goto(r, "rejected") /\ UNCHANGED ctx

Checking(r) == pc[r] = "check"

(* Where custom's token may be, in the order it is looked for. *)
Places == <<"header", "cookie", "query", "path">>

(* extractToken of what the request offers at each place.  A jwt or a       *)
(* static key is only looked for in its header.                             *)
ExtractToken(offer) ==
  LET places == IF cfg.kind = "custom" THEN cfg.extract ELSE {"header"}
      found  == {i \in DOMAIN Places : Places[i] \in places \cap DOMAIN offer}
  IN IF found = {} THEN None ELSE offer[Places[Min(found)]]

NoState == UNCHANGED <<cfg, now, keyVars, cache, locked, token>>

(* None lets everyone in; a static key is compared with the whole header. *)
CheckPlain(r) ==
  /\ Checking(r)
  /\ \/ cfg.kind = "none" /\ Accept(r, ctx[r])
     \/ /\ cfg.kind = "static key"
        /\ IF token[r] = cfg.key THEN Accept(r, ctx[r]) ELSE Reject(r)
  /\ NoState

(* extractToken found no token. *)
NoToken(r) ==
  /\ Checking(r)
  /\ cfg.kind \in {"jwt", "custom"}
  /\ token[r] = None
  /\ Reject(r)
  /\ NoState

-----------------------------------------------------------------------------
(* JWT.CheckAuthentication.                                                 *)

(* Mutant of ReplayResult: only that the token passed is remembered. *)
ReplayNothing(r, result) ==
  IF result.exp > now THEN Accept(r, ctx[r]) ELSE Reject(r)

(* Mutant of ReplayResult: a remembered token is good for ever. *)
ReplayExpired(r, result) == Accept(r, result.grant)

(* The cache hit and apply: all that a validation would have set. *)
ReplayResult(r, result) ==
  IF result.exp > now THEN Accept(r, result.grant) ELSE Reject(r)

LookupJWT(r) ==
  /\ Checking(r)
  /\ cfg.kind = "jwt"
  /\ token[r] # None
  /\ IF cfg.cached /\ cache[token[r]] # None THEN ReplayResult(r, cache[token[r]])
                                            ELSE Goto(r, "key") /\ UNCHANGED ctx
  /\ NoState

(* keySet.lookup: without a key ID the only key there is. *)
Found(keys, t) ==
  IF t.kid # None THEN {k \in keys : k.kid = t.kid}
                  ELSE IF Cardinality(keys) = 1 THEN keys ELSE {}

(* checkKeyAlgorithm, and the signature verified with the key. *)
Verifies(t, key) ==
  /\ t.alg \in ToSet(Algorithms(cfg))
  /\ key.alg \notin Symmetric
  /\ key.alg \in ToSet(Algorithms(cfg))
  /\ t.signer = key.kid
  /\ Family(t.alg) = Family(key.alg)

VerifyWith(r, key) ==
  /\ IF Verifies(token[r], key) THEN Goto(r, "claims") /\ UNCHANGED ctx ELSE Reject(r)

(* keyFunc: parseKey takes the kind of a static key from the first          *)
(* algorithm; keyFor looks the key up, and leads to a refresh without it.   *)
KeyFor(r) ==
  /\ pc[r] = "key"
  /\ IF cfg.jwks = None
     THEN IF /\ token[r].alg \in ToSet(Algorithms(cfg))
             /\ Family(token[r].alg) = Family(Algorithms(cfg)[1])
             /\ token[r].signer = cfg.key
          THEN Goto(r, "claims") /\ UNCHANGED ctx ELSE Reject(r)
     ELSE IF keyset = None THEN Reject(r)
     ELSE IF Found(keyset, token[r]) = {} THEN Goto(r, "refresh") /\ UNCHANGED ctx
     ELSE \E key \in Found(keyset, token[r]) : VerifyWith(r, key)
  /\ NoState

(* The one forced refresh: it fetches the keys, is held back by             *)
(* RefreshMinInterval, or fails and leaves the keyset that was fetched last.*)
Refresh(r) ==
  /\ pc[r] = "refresh"
  /\ \/ keyset' \in {KeySets[published], keyset}
        /\ IF Found(keyset', token[r]) = {} THEN Reject(r)
           ELSE \E key \in Found(keyset', token[r]) : VerifyWith(r, key)
     \/ Reject(r) /\ UNCHANGED keyset
  /\ UNCHANGED <<cfg, now, published, cache, locked, token>>

ClaimsPass(t) ==
  /\ t.sound
  /\ t.exp >= now
  /\ t.exp - now <= MaxExpiration
  /\ ValidateScope(t)

(* The claims of checkAuthenticationWithoutCache, and SetIfAbsent. *)
CheckClaims(r) ==
  LET t == token[r] IN
  /\ pc[r] = "claims"
  /\ IF ClaimsPass(t)
     THEN /\ Accept(r, GrantOf(cfg, t))
          /\ cache' = IF cfg.cached /\ cache[t] = None
                      THEN [cache EXCEPT ![t] = Result(TRUE, t.exp, GrantOf(cfg, t))] ELSE cache
     ELSE Reject(r) /\ UNCHANGED cache
  /\ UNCHANGED <<cfg, now, keyVars, locked, token>>

-----------------------------------------------------------------------------
(* Custom.CheckAuthentication.                                              *)

Locked(r) == cfg.cached /\ locked[token[r].lock] = r

(* Mutant of LockKey: the lock is taken around the cache alone. *)
LockKeyBriefly(r) ==
  /\ Checking(r)
  /\ cfg.kind = "custom"
  /\ token[r] # None
  /\ Goto(r, IF cfg.cached THEN "cached" ELSE "validate")
  /\ UNCHANGED <<cfg, now, keyVars, cache, locked, token, ctx>>

LockKey(r) ==
  /\ Checking(r)
  /\ cfg.kind = "custom"
  /\ token[r] # None
  /\ IF cfg.cached
     THEN /\ locked[token[r].lock] = None
          /\ locked' = [locked EXCEPT ![token[r].lock] = r]
          /\ Goto(r, "cached")
     ELSE Goto(r, "validate") /\ UNCHANGED locked
  /\ UNCHANGED <<cfg, now, keyVars, cache, token, ctx>>

(* The deferred UnlockKey. *)
Unlock(r) ==
  locked' = IF Locked(r) THEN [locked EXCEPT ![token[r].lock] = None] ELSE locked

(* isGood decides, whether the result was remembered or is new. *)
Decide(r, result) ==
  /\ IF IsGood(result) THEN Accept(r, result.grant) ELSE Reject(r)
  /\ Unlock(r)

LookupCustom(r) ==
  /\ pc[r] = "cached"
  /\ IF cache[token[r]] # None THEN Decide(r, cache[token[r]])
                               ELSE Goto(r, "validate") /\ UNCHANGED <<locked, ctx>>
  /\ UNCHANGED <<cfg, now, keyVars, cache, token>>

(* The script's validate returns any verdict and expiry, and a failure is   *)
(* remembered like a success.                                               *)
ValidateReturns(r) ==
  /\ pc[r] = "validate"
  /\ \E pass \in BOOLEAN, exp \in 0 .. MaxTime :
       LET result == Result(pass, exp, GrantOf(cfg, token[r])) IN
       /\ cache' = IF cfg.cached THEN [cache EXCEPT ![token[r]] = result] ELSE cache
       /\ Decide(r, result)
  /\ UNCHANGED <<cfg, now, keyVars, token>>

(* Mutant of ValidatePanics: the lock is released on the normal return. *)
ValidatePanicsLocked(r) ==
  /\ pc[r] = "validate"
  /\ Goto(r, "aborted")
  /\ UNCHANGED <<cfg, now, keyVars, cache, locked, token, ctx>>

(* It panics: net/http drops the connection, the deferred call unlocks. *)
ValidatePanics(r) ==
  /\ pc[r] = "validate"
  /\ Goto(r, "aborted")
  /\ Unlock(r)
  /\ UNCHANGED <<cfg, now, keyVars, cache, token, ctx>>

-----------------------------------------------------------------------------
(* The surroundings.                                                        *)

Tick ==
  /\ now < MaxTime
  /\ now' = now + 1
  /\ UNCHANGED <<cfg, keyVars, cache, locked, pc, token, ctx>>

(* The issuer publishes other keys. *)
Rotate ==
  /\ cfg.kind = "jwt" /\ cfg.jwks # None
  /\ published < Len(KeySets)
  /\ published' = published + 1
  /\ UNCHANGED <<cfg, now, keyset, cache, locked, pc, token, ctx>>

(* The keyset is fetched every RefreshInterval. *)
FetchKeys ==
  /\ cfg.kind = "jwt" /\ cfg.jwks # None
  /\ keyset # KeySets[published]
  /\ keyset' = KeySets[published]
  /\ UNCHANGED <<cfg, now, published, cache, locked, pc, token, ctx>>

(* A cache at its size forgets a result. *)
Forget(t) ==
  /\ cache[t] # None
  /\ cache' = [cache EXCEPT ![t] = None]
  /\ UNCHANGED <<cfg, now, keyVars, locked, pc, token, ctx>>

(* CheckAuthentication, each step of it. *)
CheckStep(r) ==
  \/ CheckPlain(r) \/ NoToken(r)
  \/ LookupJWT(r) \/ KeyFor(r) \/ Refresh(r) \/ CheckClaims(r)
  \/ LockKey(r) \/ LookupCustom(r)

ValidateStep(r) == ValidateReturns(r) \/ ValidatePanics(r)

Surroundings == Tick \/ Rotate \/ FetchKeys \/ \E t \in Token : Forget(t)
=============================================================================
