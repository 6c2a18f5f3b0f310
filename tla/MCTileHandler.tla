---------------------------- MODULE MCTileHandler -----------------------------
(* Tokens, keys and settings for checking TileHandler. *)
EXTENDS TileHandler

CONSTANTS r1, r2, a, b, t1, t2, la, lb

TwoReqs == {r1, r2}

JWTToken(kid, signer, alg, exp, scope, hash, user) ==
  [kid |-> kid, signer |-> signer, alg |-> alg, exp |-> exp, scope |-> scope, hash |-> hash,
   user |-> user, sound |-> TRUE, lock |-> la]

(* A token for one layer and one tile by the first key, one without a key   *)
(* ID, a scope or a geohash by the second, of another algorithm.  They      *)
(* share a lock of custom's pool.                                           *)
Wide == JWTToken(None, "k2", "PS256", 2, None, None, "u2")
Narrow == JWTToken("k1", "k1", "RS256", 1, {a}, {t1}, "u1")

Tokens == {Wide, Narrow}

(* A request carries a token in one place or another, or in two. *)
TheOffers ==
  {<<>>} \cup [{"header"} -> Tokens] \cup [{"cookie"} -> Tokens]
    \cup {[p \in {"query", "cookie"} |-> IF p = "query" THEN Wide ELSE Narrow]}

(* The issuer replaces its key. *)
TheKeySets ==
  LET k1 == [kid |-> "k1", alg |-> "RS256"] k2 == [kid |-> "k2", alg |-> "PS256"]
  IN <<{k1}, {k2}>>

Asks == {[layer |-> a, tile |-> t1], [layer |-> a, tile |-> t2], [layer |-> b, tile |-> t1],
         [layer |-> None, tile |-> t1]}

JWTSetting(key, jwks, algorithms, cached, layerScope) ==
  [kind |-> "jwt", algorithm |-> None, algorithms |-> algorithms, key |-> key, jwks |-> jwks,
   cached |-> cached, layerScope |-> layerScope, expectedScope |-> FALSE,
   allowStartupFailure |-> TRUE]

(* Settings that Initialize refuses are among them: keys of two families,   *)
(* a symmetric algorithm and an unsafe URL for a keyset, two sources of     *)
(* keys.                                                                    *)
TheSettings ==
  {JWTSetting("k1", None, <<"RS256", "PS256">>, TRUE, TRUE),
   JWTSetting("k1", None, <<"RS256", "ES256">>, TRUE, TRUE),
   JWTSetting(None, "https://host", <<"RS256", "PS256">>, TRUE, TRUE),
   JWTSetting(None, "https://host", <<"RS256", "HS256">>, TRUE, FALSE),
   JWTSetting(None, "http://host", <<"RS256">>, TRUE, FALSE),
   JWTSetting("k1", "https://host", <<"RS256">>, TRUE, FALSE),
   [kind |-> "custom", extract |-> {"header", "cookie"}, script |-> "good", cached |-> TRUE],
   [kind |-> "custom", extract |-> {"header", "cookie"}, script |-> "good", cached |-> FALSE],
   [kind |-> "custom", extract |-> {"header", "cookie"}, script |-> "broken", cached |-> FALSE],
   [kind |-> "static key", key |-> Wide, cached |-> FALSE],
   [kind |-> "none", cached |-> FALSE]}

CustomOnly == {s \in TheSettings : s.kind = "custom"}
=============================================================================
