------------------------------- MODULE TileCache -------------------------------
(***************************************************************************)
(* The caches (internal/caches): memory, disk, redis, memcache and s3 as   *)
(* tiers of multi, a single cache being one tier.  Clients save and look   *)
(* up images side by side; other instances' tiers are the same but for     *)
(* memory, so a client may be one of theirs.  What keys, lifetimes and     *)
(* files do is kept; of the servers, that an entry may be gone and a call  *)
(* may fail (LayerRender has a failing multi below the layer group).       *)
(***************************************************************************)
EXTENDS Integers, Sequences, FiniteSets

CONSTANTS
  Client,       \* callers of the cache, one call at a time each
  Tile,         \* tiles: [name, safe, cut], see KeyOf
  Setups,       \* [tiers: sequences of [kind, ttl], users, tiles: who calls it for what, until: see Tick]
  None

DefaultTTL == 1   \* of every kind, in units of the clock
MaxTTL     == 2   \* of memcache and redis: 30 days, a year
Forever    == 100 \* later than any clock

ASSUME TileCacheAssumption ==
  /\ \A t, u \in Tile : t.name = u.name => t.safe = u.safe
  /\ \A s \in Setups :
       /\ s.tiers # <<>>
       /\ s.tiers \in Seq([kind : {"memory", "disk", "redis", "memcache", "s3"}, ttl : Nat])
       /\ s.until \in 1 .. Forever - MaxTTL - 1
       /\ \A i \in DOMAIN s.tiers : s.until + s.tiers[i].ttl < Forever
       /\ s.users \subseteq Client
       /\ s.tiles \subseteq Tile

VARIABLES
  setup,   \* the configuration
  state,   \* "new", "open" or "refused"
  store,   \* [tier -> [key -> entry]]
  clock,
  op,      \* [Client -> what it does, with which tile, at which tier]
  saved,   \* [Client -> the image of its last save, and if a tier failed it]
  got      \* [Client -> what its last lookup was for, and returned]

cacheVars == <<setup, state, store, clock, op, saved, got>>

tiers == setup.tiers

Idle == [do |-> "idle", tile |-> None, tier |-> 0]

-----------------------------------------------------------------------------
(* Keys.  A tile's safe is what safeLayerName and the coordinates make of   *)
(* it; cut is that up to memcache's length limit, or the same when it is    *)
(* short enough.                                                            *)

(* Mutant of MemcacheKey: no hash behind the part that was cut. *)
MemcacheKeyCut(t) == <<t.cut>>

(* safeMemcacheKey: the hash is as good as the whole. *)
MemcacheKey(t) == IF t.cut = t.safe THEN <<t.safe>> ELSE <<t.cut, t.safe>>

(* memory and redis use the request as it is, disk and s3 the safe name.    *)
KeyOf(kind, t) ==
  CASE kind \in {"memory", "redis"} -> <<t.name>>
    [] kind \in {"disk", "s3"}      -> <<t.safe>>
    [] kind = "memcache"            -> MemcacheKey(t)

-----------------------------------------------------------------------------
(* Lifetimes.                                                               *)

(* Mutant of TTL: the configured value is passed on. *)
TTLAsIs(kind, ttl) == IF kind \in {"disk", "s3"} THEN Forever ELSE ttl

(* Initialize of memory, memcache and redis.  Disk and s3 know none.        *)
TTL(kind, ttl) ==
  CASE kind \in {"disk", "s3"} -> Forever
    [] kind = "memory"         -> IF ttl < 1 THEN DefaultTTL ELSE ttl
    [] OTHER -> IF ttl = 0 THEN DefaultTTL ELSE IF ttl > MaxTTL THEN MaxTTL ELSE ttl

(* What the stores make of it: memcached never ends an entry with 0, and    *)
(* takes more than 30 days for a date, long past; go-redis/cache takes 0    *)
(* for its own default.                                                     *)
Expiry(kind, ttl) ==
  CASE kind \in {"disk", "s3"} -> Forever
    [] kind = "memcache" /\ ttl = 0 -> Forever
    [] kind = "memcache" /\ ttl > MaxTTL -> clock
    [] kind = "redis" /\ ttl = 0 -> clock + DefaultTTL
    [] OTHER -> clock + ttl

-----------------------------------------------------------------------------
(* What Initialize of each refuses, or finds not to answer.  Multi has no   *)
(* tiers when it is one of theirs.                                          *)
DiskFaults     == {"no path", "mkdir"}
S3Faults       == {"half a credential", "no bucket", "storage class", "credentials"}
MemcacheFaults == {"host and servers", "no ping"}
RedisFaults    == {"mode", "host and servers", "cluster with db", "ring of one"}

Faults ==
  [memory |-> {}, disk |-> DiskFaults, s3 |-> S3Faults, memcache |-> MemcacheFaults, redis |-> RedisFaults]

CacheInit ==
  /\ setup \in Setups
  /\ state = "new"
  /\ store = [i \in DOMAIN tiers |-> <<>>]
  /\ clock = 1
  /\ op    = [p \in Client |-> Idle]
  /\ saved = [p \in Client |-> None]
  /\ got   = [p \in Client |-> None]

InitializeCache ==
  /\ state = "new"
  /\ \/ state' = "open"
     \/ (\E i \in DOMAIN tiers : Faults[tiers[i].kind] # {}) /\ state' = "refused"
  /\ UNCHANGED <<setup, store, clock, op, saved, got>>

Put(i, t, content, exp) ==
  LET key == KeyOf(tiers[i].kind, t) IN
  store' = [store EXCEPT ![i] =
    [k \in DOMAIN @ \cup {key} |-> IF k = key THEN [content |-> content, exp |-> exp] ELSE @[k]]]

Forget(i, key) == [k \in DOMAIN store[i] \ {key} |-> store[i][k]]

(* To the next tier, or back. *)
Onward(p, do) ==
  op' = [op EXCEPT ![p] = IF op[p].tier = Len(tiers) THEN Idle
                          ELSE [op[p] EXCEPT !.do = do, !.tier = @ + 1]]

(* An image is the tile it was rendered for, by whom and when; stored, it    *)
(* may end before its version ("head") or within it ("part").               *)
StartSave(p, t) ==
  /\ op[p] = Idle
  /\ op'    = [op EXCEPT ![p] = [do |-> "save", tile |-> t, tier |-> 1]]
  /\ saved' = [saved EXCEPT ![p] =
                 [image |-> [of |-> t, by |-> p, at |-> clock, upto |-> "whole"], failed |-> FALSE]]
  /\ UNCHANGED <<setup, state, store, clock, got>>

StartLookup(p, t) ==
  /\ op[p] = Idle
  /\ op'  = [op EXCEPT ![p] = [do |-> "look", tile |-> t, tier |-> 1]]
  /\ got' = [got EXCEPT ![p] = None]
  /\ UNCHANGED <<setup, state, store, clock, saved>>

Fails(p) == saved' = [saved EXCEPT ![p].failed = TRUE]

(* Save of one tier; multi goes on past its error.  Disk opens the file,    *)
(* which empties it.                                                        *)
Save(p) ==
  LET i == op[p].tier
      c == tiers[i]
  IN
  /\ op[p].do = "save"
  /\ \/ c.kind # "memory" /\ Fails(p) /\ Onward(p, "save") /\ UNCHANGED store
     \/ /\ c.kind = "disk"
        /\ Put(i, op[p].tile, [saved[p].image EXCEPT !.upto = "head"], Forever)
        /\ op' = [op EXCEPT ![p].do = "write"]
        /\ UNCHANGED saved
     \/ /\ c.kind # "disk"
        /\ Put(i, op[p].tile, saved[p].image, Expiry(c.kind, TTL(c.kind, c.ttl)))
        /\ Onward(p, "save")
        /\ UNCHANGED saved
  /\ UNCHANGED <<setup, state, clock, got>>

(* os.WriteFile wrote the file, or failed with less than a version, or less *)
(* than an image, in it.                                                    *)
WriteFile(p) ==
  /\ op[p].do = "write"
  /\ \E end \in {"whole", "head", "part"} :
       /\ Put(op[p].tier, op[p].tile, [saved[p].image EXCEPT !.upto = end], Forever)
       /\ IF end = "whole" THEN UNCHANGED saved ELSE Fails(p)
  /\ Onward(p, "save")
  /\ UNCHANGED <<setup, state, clock, got>>

(* DecodeImage: what has no version is taken for raw imagery, what ends     *)
(* later is an error.                                                       *)
Decode(content) == IF content.upto = "part" THEN None ELSE content

(* Lookup of one tier: a hit ends multi's loop, an error or a miss does     *)
(* not, but the error is returned with the hit of a later tier.  A file is  *)
(* read in one step: a read that meets a write gets what there is of it or  *)
(* an error, and the start of the old file with the rest of the new one is  *)
(* left out.                                                                *)
Lookup(p) ==
  LET i   == op[p].tier
      c   == tiers[i]
      key == KeyOf(c.kind, op[p].tile)
      hit == key \in DOMAIN store[i] /\ store[i][key].exp > clock
  IN
  /\ op[p].do \in {"look", "failing"}
  /\ \/ /\ hit /\ Decode(store[i][key].content) # None
        /\ got' = [got EXCEPT ![p] = [asked |-> op[p].tile, found |-> Decode(store[i][key].content),
                                      failed |-> op[p].do = "failing"]]
        /\ op'  = [op EXCEPT ![p] = Idle]
     \/ ~hit /\ Onward(p, op[p].do) /\ UNCHANGED got
     \/ c.kind # "memory" /\ Onward(p, "failing") /\ UNCHANGED got
  /\ UNCHANGED <<setup, state, store, clock, saved>>

(* A full memory cache, a server or somebody's cleanup removes an entry.    *)
Evict ==
  /\ \E i \in DOMAIN tiers : \E key \in DOMAIN store[i] :
       store' = [store EXCEPT ![i] = Forget(i, key)]
  /\ UNCHANGED <<setup, state, clock, op, saved, got>>

(* The process ends between any two steps and starts again: memory is gone, *)
(* files are as they were.                                                  *)
Crash ==
  /\ \E p \in Client : op[p] # Idle
  /\ store' = [i \in DOMAIN tiers |-> IF tiers[i].kind = "memory" THEN <<>> ELSE store[i]]
  /\ op'    = [p \in Client |-> Idle]
  /\ saved' = [p \in Client |-> None]
  /\ got'   = [p \in Client |-> None]
  /\ UNCHANGED <<setup, state, clock>>

Tick ==
  /\ clock < setup.until  \* a bound
  /\ clock' = clock + 1
  /\ UNCHANGED <<setup, state, store, op, saved, got>>

CacheStep ==
  \/ InitializeCache
  \/ /\ state = "open"
     /\ \/ \E p \in Client : Save(p) \/ WriteFile(p) \/ Lookup(p)
        \/ Evict

-----------------------------------------------------------------------------
(* Properties.                                                              *)

(* A lookup returns an image that was saved for a tile with the same name   *)
(* up to the characters safeLayerName replaces, whole, from whichever tier; *)
(* or else a file that was not even begun (utility.go:77-106, disk.go,      *)
(* pkg/utility.go:86-120).  It is never part of an image.                   *)
HitIsOwn ==
  \A p \in Client : got[p] # None /\ got[p].found.upto # "head" =>
    got[p].found.upto = "whole" /\ got[p].found.of.safe = got[p].asked.safe

(* An entry of a cache with a lifetime can be found after it was saved, and *)
(* not for ever, for any configured TTL (memory.go:66-68, memcache.go:80-85, *)
(* redis.go:123-128).                                                       *)
LivesForAWhile ==
  [][\A i \in DOMAIN tiers : tiers[i].kind \in {"memory", "memcache", "redis"} =>
       \A key \in DOMAIN store'[i] :
         \/ key \in DOMAIN store[i] /\ store[i][key] = store'[i][key]
         \/ store'[i][key].exp \in clock + 1 .. Forever - 1]_cacheVars
=============================================================================
