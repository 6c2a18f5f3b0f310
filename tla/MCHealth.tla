------------------------------- MODULE MCHealth -------------------------------
(* Tiles, caches and checks for checking Health and TileCache. *)
EXTENDS Health

tile(name, safe, cut) == [name |-> name, safe |-> safe, cut |-> cut]

(* "a/b" and "a b" are both "a_b"; two long names are cut to the same. *)
Tiles == {tile("a/b", "a_b", "a_b"), tile("a b", "a_b", "a_b"),
          tile("long1", "long1", "long"), tile("long2", "long2", "long"), Probe}
TheProbe == tile("___hc___", "___hc___", "___hc___")

Slashes == {t \in Tiles : t.safe = "a_b"}
Long    == {t \in Tiles : t.cut = "long"}
Kinds   == {"memory", "disk", "redis", "memcache", "s3"}

using(tiers_, tiles_, until_) ==
  [tiers |-> tiers_, checks |-> <<>>, users |-> {1, 2}, tiles |-> tiles_, until |-> until_]
checked(tiers_, checks_, until_) ==
  [tiers |-> tiers_, checks |-> checks_, users |-> {}, tiles |-> {}, until |-> until_]
one(k, n) == <<[kind |-> k, ttl |-> n]>>

(* Either two users of at most two tiles and no check, or checks and no user. *)
AllSetups ==
  {using(one(k, 1), Slashes, 1) : k \in {"memory", "disk"}}
    \cup {using(one(k, 1), Long, 1) : k \in {"memcache", "s3"}}
    \cup {using(one(k, n), {t}, 2) : k \in Kinds, n \in 0 .. 3, t \in {CHOOSE t \in Long : TRUE}}
    \cup {using(one("memory", 1) \o one(k, 1), Slashes, 1) : k \in {"disk", "memcache"}}
    \cup {checked(one("memory", 3), <<"cache", v>>, 5) : v \in {"same", "content", "success"}}
    \cup {checked(one("disk", 0), <<"cache", "cache">>, 3)}
    \cup {checked(one("redis", 1) \o one("memory", 1), <<"cache">>, 3)}
=============================================================================
