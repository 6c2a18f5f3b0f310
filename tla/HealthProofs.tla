------------------------------ MODULE HealthProofs ------------------------------
(***************************************************************************)
(* Proofs about the caches and the health checks over them: for any number *)
(* of clients and tiers and any mix of kinds, a hit is the tile's own, an  *)
(* entry lives for a while, and the endpoint is ready only after checks    *)
(* that passed lately.                                                     *)
(***************************************************************************)
EXTENDS Health, TLAPS

-----------------------------------------------------------------------------
(* The inductive invariant of the caches.                                   *)

Image == [of : Tile, by : Client, at : Nat, upto : {"whole", "head", "part"}]

CacheDomains ==
  /\ setup \in Setups
  /\ clock \in 1 .. setup.until
  /\ DOMAIN store = DOMAIN tiers
  /\ DOMAIN op = Client /\ DOMAIN saved = Client /\ DOMAIN got = Client

(* A call is about a tile, and at one of the tiers; only a file is written  *)
(* in two steps.                                                            *)
CallOK(p) ==
  /\ op[p] \in [do : {"idle", "save", "write", "look", "failing"}, tile : Tile \cup {None}, tier : Nat]
  /\ op[p].do # "idle" => op[p].tile \in Tile /\ op[p].tier \in DOMAIN tiers
  /\ op[p].do = "write" => tiers[op[p].tier].kind = "disk"

(* What a save writes is an image of the tile it writes it for.             *)
SaveOK(p) ==
  op[p].do \in {"save", "write"} =>
    /\ saved[p] \in [image : Image, failed : BOOLEAN]
    /\ saved[p].image.of = op[p].tile

(* An entry is found under its own tile's key.                              *)
EntryOK(i, key) ==
  /\ store[i][key].content \in Image
  /\ key = KeyOf(tiers[i].kind, store[i][key].content.of)

(* What a lookup found is whole, or not begun, and the tile's.              *)
HitOK(p) ==
  got[p] # None =>
    /\ got[p].found.upto \in {"whole", "head"}
    /\ got[p].found.of.safe = got[p].asked.safe

CacheInv ==
  /\ CacheDomains
  /\ \A p \in Client : CallOK(p) /\ SaveOK(p) /\ HitOK(p)
  /\ \A i \in DOMAIN tiers : \A key \in DOMAIN store[i] : EntryOK(i, key)

-----------------------------------------------------------------------------
(* Tiles that share a key share their safe name.                            *)
LEMMA KeysSeparate ==
  ASSUME NEW kind \in {"memory", "disk", "redis", "memcache", "s3"},
         NEW t \in Tile, NEW u \in Tile, KeyOf(kind, t) = KeyOf(kind, u)
  PROVE  t.safe = u.safe
<1>1. CASE kind \in {"memory", "redis"}
  BY <1>1, TileCacheAssumption DEF KeyOf
<1>2. CASE kind \in {"disk", "s3"}
  BY <1>2 DEF KeyOf
<1>3. CASE kind = "memcache"
  BY <1>3 DEF KeyOf, MemcacheKey
<1>4. QED  BY <1>1, <1>2, <1>3

(* The tiers of a configuration.                                            *)
LEMMA TiersAre ==
  ASSUME setup \in Setups
  PROVE  /\ tiers \in Seq([kind : {"memory", "disk", "redis", "memcache", "s3"}, ttl : Nat])
         /\ Len(tiers) \in Nat \ {0}
         /\ DOMAIN tiers = 1 .. Len(tiers)
         /\ \A i \in DOMAIN tiers :
              /\ tiers[i] \in [kind : {"memory", "disk", "redis", "memcache", "s3"}, ttl : Nat]
              /\ setup.until + tiers[i].ttl < Forever
         /\ setup.until \in Nat /\ setup.until + MaxTTL < Forever
<1>1. tiers \in Seq([kind : {"memory", "disk", "redis", "memcache", "s3"}, ttl : Nat]) /\ tiers # <<>>
  BY TileCacheAssumption DEF tiers
<1>2. Len(tiers) \in Nat \ {0} /\ DOMAIN tiers = 1 .. Len(tiers)
  BY <1>1
<1>3. \A i \in DOMAIN tiers :
         tiers[i] \in [kind : {"memory", "disk", "redis", "memcache", "s3"}, ttl : Nat]
  <2> DEFINE T == [kind : {"memory", "disk", "redis", "memcache", "s3"}, ttl : Nat]
  <2> HIDE DEF T
  <2>1. tiers \in Seq(T)  BY <1>1 DEF T
  <2>2. \A i \in 1 .. Len(tiers) : tiers[i] \in T  BY <2>1
  <2>3. QED  BY <1>2, <2>2 DEF T
<1>4. setup.until \in 1 .. Forever - MaxTTL - 1
  BY TileCacheAssumption
<1>5. \A i \in DOMAIN tiers : setup.until + tiers[i].ttl < Forever
  BY TileCacheAssumption DEF tiers
<1>6. setup.until \in Nat /\ setup.until + MaxTTL < Forever
  BY <1>4 DEF Forever, MaxTTL
<1>7. QED  BY <1>1, <1>2, <1>3, <1>5, <1>6

(* One tier gets one entry.                                                 *)
LEMMA PutKeeps ==
  ASSUME CacheInv, NEW i \in DOMAIN tiers, NEW t \in Tile, NEW content \in Image, NEW exp,
         content.of = t, Put(i, t, content, exp), UNCHANGED setup
  PROVE  /\ DOMAIN store' = DOMAIN tiers'
         /\ \A j \in DOMAIN tiers' : \A key \in DOMAIN store'[j] : EntryOK(j, key)'
         /\ \A j \in DOMAIN tiers : \A key \in DOMAIN store'[j] :
              \/ key \in DOMAIN store[j] /\ store'[j][key] = store[j][key]
              \/ j = i /\ store'[j][key].exp = exp
<1> DEFINE k == KeyOf(tiers[i].kind, t)
           e == [content |-> content, exp |-> exp]
<1>1. DOMAIN store = DOMAIN tiers /\ tiers' = tiers
  BY DEF CacheInv, CacheDomains, tiers
<1>2. store' = [store EXCEPT ![i] = [key \in DOMAIN @ \cup {k} |-> IF key = k THEN e ELSE @[key]]]
  BY DEF Put
<1>3. \A j \in DOMAIN tiers : j # i => store'[j] = store[j]
  BY <1>1, <1>2
<1>4. /\ DOMAIN store'[i] = DOMAIN store[i] \cup {k}
      /\ store'[i][k] = e
      /\ \A key \in DOMAIN store[i] : key # k => store'[i][key] = store[i][key]
  <2> HIDE DEF k, e
  <2>1. QED  BY <1>1, <1>2
<1>5. DOMAIN store' = DOMAIN tiers'  BY <1>1, <1>2
<1> HIDE DEF k
<1>6. \A j \in DOMAIN tiers : \A key \in DOMAIN store'[j] :
              \/ key \in DOMAIN store[j] /\ store'[j][key] = store[j][key]
              \/ j = i /\ key = k /\ store'[j][key] = e
  BY <1>3, <1>4
<1>7. ASSUME NEW j \in DOMAIN tiers, NEW key \in DOMAIN store'[j]
      PROVE  EntryOK(j, key)'
  BY <1>1, <1>6, <1>7 DEF EntryOK, CacheInv, k
<1>8. QED  BY <1>1, <1>5, <1>6, <1>7

(* A call of one client leaves the others' alone.                           *)
LEMMA OneCall ==
  ASSUME CacheInv, UNCHANGED <<setup, clock>>, NEW p \in Client,
         DOMAIN store' = DOMAIN tiers',
         \A i \in DOMAIN tiers' : \A key \in DOMAIN store'[i] : EntryOK(i, key)',
         DOMAIN op' = Client, DOMAIN saved' = Client, DOMAIN got' = Client,
         \A q \in Client \ {p} : op'[q] = op[q] /\ saved'[q] = saved[q] /\ got'[q] = got[q],
         CallOK(p)', SaveOK(p)', HitOK(p)'
  PROVE  CacheInv'
<1>1. tiers' = tiers  BY DEF tiers
<1>2. ASSUME NEW q \in Client PROVE CallOK(q)' /\ SaveOK(q)' /\ HitOK(q)'
  <2>1. CASE q = p  BY <2>1
  <2>2. CASE q # p
    <3>1. op'[q] = op[q] /\ saved'[q] = saved[q] /\ got'[q] = got[q]  BY <2>2
    <3>2. CallOK(q) /\ SaveOK(q) /\ HitOK(q)  BY DEF CacheInv
    <3>3. QED  BY <1>1, <3>1, <3>2 DEF CallOK, SaveOK, HitOK
  <2>3. QED  BY <2>1, <2>2
<1>3. CacheDomains'  BY <1>1 DEF CacheInv, CacheDomains
<1>4. QED  BY <1>2, <1>3 DEF CacheInv

(* The store as it was is still in order.                                   *)
LEMMA StoreKept ==
  ASSUME CacheInv, UNCHANGED <<setup, store>>
  PROVE  /\ DOMAIN store' = DOMAIN tiers'
         /\ \A i \in DOMAIN tiers' : \A key \in DOMAIN store'[i] : EntryOK(i, key)'
BY DEF CacheInv, CacheDomains, EntryOK, tiers

LEMMA CacheFrame == CacheInv /\ UNCHANGED cacheVars => CacheInv'
<1>1. SUFFICES ASSUME CacheInv, UNCHANGED cacheVars PROVE CacheInv'
  OBVIOUS
<1>2. UNCHANGED <<setup, store, clock, op, saved, got>> /\ UNCHANGED tiers
  BY <1>1 DEF cacheVars, tiers
<1>3. CacheDomains'  BY <1>1, <1>2 DEF CacheInv, CacheDomains
<1>4. \A p \in Client : CallOK(p)' /\ SaveOK(p)' /\ HitOK(p)'
  BY <1>1, <1>2 DEF CacheInv, CallOK, SaveOK, HitOK
<1>5. QED  BY <1>1, <1>2, <1>3, <1>4, StoreKept DEF CacheInv

LEMMA CacheInitInv == CacheInit => CacheInv
<1>1. SUFFICES ASSUME CacheInit PROVE CacheInv
  OBVIOUS
<1>2. setup.until \in 1 .. Forever - MaxTTL - 1
  BY <1>1, TileCacheAssumption DEF CacheInit
<1>3. CacheDomains
  <2>0. clock = 1  BY <1>1 DEF CacheInit
  <2>1. clock \in 1 .. setup.until  BY <1>2, <2>0 DEF Forever, MaxTTL
  <2>2. DOMAIN store = DOMAIN tiers  BY <1>1 DEF CacheInit
  <2>3. DOMAIN op = Client /\ DOMAIN saved = Client /\ DOMAIN got = Client
    BY <1>1 DEF CacheInit
  <2>4. QED  BY <1>1, <2>1, <2>2, <2>3 DEF CacheInit, CacheDomains
<1>4. \A p \in Client : CallOK(p) /\ SaveOK(p) /\ HitOK(p)
  BY <1>1 DEF CacheInit, CallOK, SaveOK, HitOK, Idle
<1>5. \A i \in DOMAIN tiers : store[i] = <<>>
  BY <1>1 DEF CacheInit
<1>6. QED  BY <1>3, <1>4, <1>5 DEF CacheInv

-----------------------------------------------------------------------------
(* Each step keeps it.                                                      *)

(* To the next tier, or back. *)
LEMMA OnwardOK ==
  ASSUME CacheInv, NEW p \in Client, op[p].do # "idle",
         NEW to \in {"save", "look", "failing"}, Onward(p, to), UNCHANGED setup
  PROVE  /\ CallOK(p)' /\ DOMAIN op' = Client
         /\ \A q \in Client \ {p} : op'[q] = op[q]
         /\ op'[p] = Idle \/ (op'[p].do = to /\ op'[p].tile = op[p].tile)
<1>1. CallOK(p) /\ DOMAIN op = Client /\ setup \in Setups
  BY DEF CacheInv, CacheDomains
<1>2. tiers' = tiers /\ Len(tiers) \in Nat \ {0} /\ DOMAIN tiers = 1 .. Len(tiers)
  BY <1>1, TiersAre DEF tiers
<1>3. op' = [op EXCEPT ![p] = IF op[p].tier = Len(tiers) THEN Idle
                             ELSE [op[p] EXCEPT !.do = to, !.tier = @ + 1]]
  BY DEF Onward
<1>4. CallOK(p)'
  <2>1. CASE op[p].tier = Len(tiers)
    BY <1>1, <1>3, <2>1 DEF CallOK, Idle
  <2>2. CASE op[p].tier # Len(tiers)
    <3>1. op'[p] = [op[p] EXCEPT !.do = to, !.tier = @ + 1]  BY <1>1, <1>3, <2>2
    <3>2. op[p].tier + 1 \in 1 .. Len(tiers)  BY <1>1, <1>2, <2>2 DEF CallOK
    <3>3. op'[p] = [do |-> to, tile |-> op[p].tile, tier |-> op[p].tier + 1]
      BY <1>1, <3>1 DEF CallOK
    <3>4. op[p].tile \in Tile /\ op[p].tier + 1 \in Nat  BY <1>1 DEF CallOK
    <3>5. QED  BY <1>2, <3>2, <3>3, <3>4 DEF CallOK
  <2>3. QED  BY <2>1, <2>2
<1>5. op'[p] = Idle \/ (op'[p].do = to /\ op'[p].tile = op[p].tile)
  <2>1. op'[p] = Idle \/ op'[p] = [op[p] EXCEPT !.do = to, !.tier = @ + 1]  BY <1>1, <1>3
  <2>2. LET next == [op[p] EXCEPT !.do = to, !.tier = @ + 1]
        IN  next.do = to /\ next.tile = op[p].tile
    BY <1>1 DEF CallOK
  <2>3. QED  BY <2>1, <2>2
<1>6. QED  BY <1>1, <1>3, <1>4, <1>5

LEMMA StartSaveInv ==
  ASSUME CacheInv, NEW p \in Client, NEW t \in Tile, StartSave(p, t)
  PROVE  CacheInv'
<1>1. CacheDomains /\ CallOK(p) /\ HitOK(p)  BY DEF CacheInv
<1>2. tiers' = tiers /\ 1 \in DOMAIN tiers
  BY <1>1, TiersAre DEF CacheDomains, StartSave, tiers
<1>3. op'[p] = [do |-> "save", tile |-> t, tier |-> 1]
  BY <1>1 DEF StartSave, CacheDomains
<1>4. CallOK(p)'  BY <1>2, <1>3 DEF CallOK
<1>5. clock \in Nat  BY <1>1, TiersAre DEF CacheDomains
<1>6. SaveOK(p)'
  BY <1>1, <1>3, <1>5 DEF SaveOK, StartSave, CacheDomains, Image
<1>7. HitOK(p)'  BY <1>1 DEF HitOK, StartSave
<1>8. QED
  BY <1>1, <1>4, <1>6, <1>7, OneCall, StoreKept DEF StartSave, CacheDomains

LEMMA StartLookupInv ==
  ASSUME CacheInv, NEW p \in Client, NEW t \in Tile, StartLookup(p, t)
  PROVE  CacheInv'
<1>1. CacheDomains /\ CallOK(p)  BY DEF CacheInv
<1>2. tiers' = tiers /\ 1 \in DOMAIN tiers
  BY <1>1, TiersAre DEF CacheDomains, StartLookup, tiers
<1>3. op'[p] = [do |-> "look", tile |-> t, tier |-> 1] /\ got'[p] = None
  BY <1>1 DEF StartLookup, CacheDomains
<1>4. CallOK(p)' /\ SaveOK(p)' /\ HitOK(p)'
  BY <1>2, <1>3 DEF CallOK, SaveOK, HitOK
<1>5. QED
  BY <1>1, <1>4, OneCall, StoreKept DEF StartLookup, CacheDomains

LEMMA SaveInv ==
  ASSUME CacheInv, NEW p \in Client, Save(p)
  PROVE  CacheInv'
<1> DEFINE i == op[p].tier
           c == tiers[i]
<1>1. CacheDomains /\ CallOK(p) /\ SaveOK(p) /\ HitOK(p)  BY DEF CacheInv
<1>2. op[p].do = "save" /\ op[p].tile \in Tile /\ i \in DOMAIN tiers
      /\ saved[p] \in [image : Image, failed : BOOLEAN] /\ saved[p].image.of = op[p].tile
  BY <1>1 DEF Save, CallOK, SaveOK
<1>3. tiers' = tiers /\ UNCHANGED <<setup, clock, got>>
  BY DEF Save, tiers
<1>4. HitOK(p)'  BY <1>1, <1>3 DEF HitOK
<1>5. CASE Fails(p) /\ Onward(p, "save") /\ UNCHANGED store
  <2>1. CallOK(p)' /\ DOMAIN op' = Client /\ (\A q \in Client \ {p} : op'[q] = op[q])
        /\ (op'[p] = Idle \/ op'[p].tile = op[p].tile)
    BY <1>2, <1>3, <1>5, OnwardOK
  <2>2. DOMAIN saved' = Client /\ saved'[p] = [saved[p] EXCEPT !.failed = TRUE]
        /\ \A q \in Client \ {p} : saved'[q] = saved[q]
    BY <1>1, <1>5 DEF Fails, CacheDomains
  <2>3. saved'[p] \in [image : Image, failed : BOOLEAN] /\ saved'[p].image = saved[p].image
    BY <1>2, <2>2
  <2>4. SaveOK(p)'
    <3>1. CASE op'[p] = Idle  BY <3>1 DEF SaveOK, Idle
    <3>2. CASE op'[p].tile = op[p].tile  BY <1>2, <2>3, <3>2 DEF SaveOK
    <3>3. QED  BY <2>1, <3>1, <3>2
  <2>6. QED
    BY <1>1, <1>3, <1>4, <1>5, <2>1, <2>2, <2>4, OneCall, StoreKept DEF CacheDomains
<1>6. CASE /\ c.kind = "disk"
           /\ Put(i, op[p].tile, [saved[p].image EXCEPT !.upto = "head"], Forever)
           /\ op' = [op EXCEPT ![p].do = "write"]
           /\ UNCHANGED saved
  <2>1. [saved[p].image EXCEPT !.upto = "head"] \in Image
        /\ [saved[p].image EXCEPT !.upto = "head"].of = op[p].tile
    BY <1>2 DEF Image
  <2>2. DOMAIN store' = DOMAIN tiers'
        /\ \A j \in DOMAIN tiers' : \A key \in DOMAIN store'[j] : EntryOK(j, key)'
    BY <1>2, <1>3, <1>6, <2>1, PutKeeps
  <2>3. op'[p] = [op[p] EXCEPT !.do = "write"] /\ DOMAIN op' = Client
        /\ \A q \in Client \ {p} : op'[q] = op[q]
    BY <1>1, <1>6 DEF CacheDomains
  <2>4. CallOK(p)'  BY <1>1, <1>2, <1>3, <1>6, <2>3 DEF CallOK
  <2>5. SaveOK(p)'  BY <1>1, <1>2, <1>6, <2>3 DEF SaveOK, CallOK
  <2>6. QED  BY <1>1, <1>3, <1>4, <1>6, <2>2, <2>3, <2>4, <2>5, OneCall DEF CacheDomains
<1>7. CASE /\ Put(i, op[p].tile, saved[p].image, Expiry(c.kind, TTL(c.kind, c.ttl)))
           /\ Onward(p, "save")
           /\ UNCHANGED saved
  <2>1. saved[p].image \in Image  BY <1>2
  <2>2. DOMAIN store' = DOMAIN tiers'
        /\ \A j \in DOMAIN tiers' : \A key \in DOMAIN store'[j] : EntryOK(j, key)'
    BY <1>2, <1>3, <1>7, <2>1, PutKeeps
  <2>3. CallOK(p)' /\ DOMAIN op' = Client /\ (\A q \in Client \ {p} : op'[q] = op[q])
        /\ (op'[p] = Idle \/ op'[p].tile = op[p].tile)
    BY <1>2, <1>3, <1>7, OnwardOK
  <2>4. SaveOK(p)'
    <3>1. CASE op'[p] = Idle  BY <3>1 DEF SaveOK, Idle
    <3>2. CASE op'[p].tile = op[p].tile  BY <1>2, <1>7, <3>2 DEF SaveOK
    <3>3. QED  BY <2>3, <3>1, <3>2
  <2>6. QED  BY <1>1, <1>3, <1>4, <1>7, <2>2, <2>3, <2>4, OneCall DEF CacheDomains
<1>8. QED  BY <1>5, <1>6, <1>7 DEF Save

LEMMA WriteFileInv ==
  ASSUME CacheInv, NEW p \in Client, WriteFile(p)
  PROVE  CacheInv'
<1> DEFINE i == op[p].tier
<1>1. CacheDomains /\ CallOK(p) /\ SaveOK(p) /\ HitOK(p)  BY DEF CacheInv
<1>2. op[p].do = "write" /\ op[p].tile \in Tile /\ i \in DOMAIN tiers
      /\ saved[p] \in [image : Image, failed : BOOLEAN] /\ saved[p].image.of = op[p].tile
  BY <1>1 DEF WriteFile, CallOK, SaveOK
<1>3. tiers' = tiers /\ UNCHANGED <<setup, clock, got>>
  BY DEF WriteFile, tiers
<1>4. HitOK(p)'  BY <1>1, <1>3 DEF HitOK
<1>5. PICK end \in {"whole", "head", "part"} :
        /\ Put(i, op[p].tile, [saved[p].image EXCEPT !.upto = end], Forever)
        /\ IF end = "whole" THEN UNCHANGED saved ELSE Fails(p)
  BY DEF WriteFile
<1>6. [saved[p].image EXCEPT !.upto = end] \in Image
      /\ [saved[p].image EXCEPT !.upto = end].of = op[p].tile
  BY <1>2 DEF Image
<1>7. DOMAIN store' = DOMAIN tiers'
      /\ \A j \in DOMAIN tiers' : \A key \in DOMAIN store'[j] : EntryOK(j, key)'
  BY <1>2, <1>3, <1>5, <1>6, PutKeeps
<1>8. /\ DOMAIN saved' = Client
      /\ \A q \in Client \ {p} : saved'[q] = saved[q]
      /\ saved'[p] \in [image : Image, failed : BOOLEAN] /\ saved'[p].image = saved[p].image
  <2>1. CASE UNCHANGED saved  BY <1>1, <1>2, <2>1 DEF CacheDomains
  <2>2. CASE Fails(p)
    <3>1. saved'[p] = [saved[p] EXCEPT !.failed = TRUE]
          /\ DOMAIN saved' = Client /\ \A q \in Client \ {p} : saved'[q] = saved[q]
      BY <1>1, <2>2 DEF Fails, CacheDomains
    <3>2. QED  BY <1>2, <3>1
  <2>3. QED  BY <1>5, <2>1, <2>2
<1>9. /\ DOMAIN op' = Client
      /\ \A q \in Client \ {p} : op'[q] = op[q]
      /\ CallOK(p)'
      /\ op'[p] = Idle \/ op'[p].tile = op[p].tile
  BY <1>2, <1>3, OnwardOK DEF WriteFile
<1>10. SaveOK(p)'
  <2>1. CASE op'[p] = Idle  BY <2>1 DEF SaveOK, Idle
  <2>2. CASE op'[p].tile = op[p].tile  BY <1>2, <1>8, <2>2 DEF SaveOK
  <2>3. QED  BY <1>9, <2>1, <2>2
<1>11. QED  BY <1>1, <1>3, <1>4, <1>7, <1>8, <1>9, <1>10, OneCall DEF CacheDomains

(* A hit is under the key of the tile asked for, so its own tile's too.     *)
LEMMA LookupInv ==
  ASSUME CacheInv, NEW p \in Client, Lookup(p)
  PROVE  CacheInv'
<1> DEFINE i == op[p].tier
           key == KeyOf(tiers[i].kind, op[p].tile)
<1>1. CacheDomains /\ CallOK(p) /\ HitOK(p)  BY DEF CacheInv
<1>2. op[p].do \in {"look", "failing"} /\ op[p].tile \in Tile /\ i \in DOMAIN tiers
  BY <1>1 DEF Lookup, CallOK
<1>3. UNCHANGED <<setup, store, clock, saved>>
  BY DEF Lookup
<1>4. CASE /\ key \in DOMAIN store[i] /\ Decode(store[i][key].content) # None
           /\ got' = [got EXCEPT ![p] = [asked |-> op[p].tile, found |-> Decode(store[i][key].content),
                                         failed |-> op[p].do = "failing"]]
           /\ op'  = [op EXCEPT ![p] = Idle]
  <2> DEFINE content == store[i][key].content
  <2>1. EntryOK(i, key)  BY <1>2, <1>4 DEF CacheInv
  <2>2. content \in Image /\ key = KeyOf(tiers[i].kind, content.of)
    BY <2>1 DEF EntryOK
  <2>3. content.of \in Tile /\ content.upto \in {"whole", "head", "part"}
    BY <2>2 DEF Image
  <2>4. tiers[i].kind \in {"memory", "disk", "redis", "memcache", "s3"}
    BY <1>1, <1>2, TiersAre DEF CacheDomains
  <2>5. content.of.safe = op[p].tile.safe
    BY <1>2, <2>2, <2>3, <2>4, KeysSeparate
  <2>6. content.upto # "part" /\ Decode(content) = content
    BY <1>4 DEF Decode
  <2>7. got'[p] = [asked |-> op[p].tile, found |-> content, failed |-> op[p].do = "failing"]
        /\ DOMAIN got' = Client /\ \A q \in Client \ {p} : got'[q] = got[q]
    BY <1>1, <1>4, <2>6 DEF CacheDomains
  <2> HIDE DEF content
  <2>8. HitOK(p)'
    <3>1. got'[p].found = content /\ got'[p].asked = op[p].tile  BY <2>7
    <3>2. QED  BY <2>3, <2>5, <2>6, <3>1 DEF HitOK
  <2>9. op'[p] = Idle /\ DOMAIN op' = Client /\ \A q \in Client \ {p} : op'[q] = op[q]
    BY <1>1, <1>4 DEF CacheDomains
  <2>10. CallOK(p)' /\ SaveOK(p)'  BY <2>9 DEF CallOK, SaveOK, Idle
  <2>11. QED
    BY <1>1, <1>3, <2>7, <2>8, <2>9, <2>10, OneCall, StoreKept DEF CacheDomains
<1>5. ASSUME NEW to \in {"look", "failing"}, Onward(p, to), UNCHANGED got
      PROVE  CacheInv'
  <2>1. CallOK(p)' /\ DOMAIN op' = Client /\ (\A q \in Client \ {p} : op'[q] = op[q])
        /\ (op'[p] = Idle \/ op'[p].do = to)
    BY <1>2, <1>3, <1>5, OnwardOK
  <2>2. op'[p].do \in {"idle", "look", "failing"}
    BY <1>5, <2>1 DEF Idle
  <2>3. SaveOK(p)'  BY <2>2 DEF SaveOK
  <2>4. HitOK(p)'  BY <1>1, <1>5 DEF HitOK
  <2>5. QED
    BY <1>1, <1>3, <1>5, <2>1, <2>3, <2>4, OneCall, StoreKept DEF CacheDomains
<1>6. QED  BY <1>2, <1>4, <1>5 DEF Lookup

(* Entries that go, a clock that ticks, a process that starts again.        *)
LEMMA LessStored ==
  ASSUME CacheInv, UNCHANGED setup, clock' \in 1 .. setup.until,
         DOMAIN store' = DOMAIN tiers,
         \A i \in DOMAIN tiers : \A key \in DOMAIN store'[i] :
           key \in DOMAIN store[i] /\ store'[i][key] = store[i][key],
         \/ UNCHANGED <<op, saved, got>>
         \/ /\ op' = [p \in Client |-> Idle]
            /\ saved' = [p \in Client |-> None] /\ got' = [p \in Client |-> None]
  PROVE  CacheInv'
<1>1. tiers' = tiers  BY DEF tiers
<1>2. CacheDomains'  BY <1>1 DEF CacheInv, CacheDomains
<1>3. ASSUME NEW i \in DOMAIN tiers', NEW key \in DOMAIN store'[i] PROVE EntryOK(i, key)'
  BY <1>1, <1>3 DEF CacheInv, EntryOK
<1>4. ASSUME NEW p \in Client PROVE CallOK(p)' /\ SaveOK(p)' /\ HitOK(p)'
  <2>1. CallOK(p) /\ SaveOK(p) /\ HitOK(p)  BY DEF CacheInv
  <2>2. CASE UNCHANGED <<op, saved, got>>
    BY <1>1, <2>1, <2>2 DEF CallOK, SaveOK, HitOK
  <2>3. CASE op' = [q \in Client |-> Idle] /\ got' = [q \in Client |-> None]
    BY <2>3 DEF CallOK, SaveOK, HitOK, Idle
  <2>4. QED  BY <2>2, <2>3
<1>5. QED  BY <1>2, <1>3, <1>4 DEF CacheInv

LEMMA EvictInv == ASSUME CacheInv, Evict PROVE CacheInv'
<1>1. CacheDomains  BY DEF CacheInv
<1>2. PICK i \in DOMAIN tiers : \E key \in DOMAIN store[i] :
        store' = [store EXCEPT ![i] = Forget(i, key)]
  BY DEF Evict
<1>3. PICK key \in DOMAIN store[i] : store' = [store EXCEPT ![i] = Forget(i, key)]
  BY <1>2
<1>4. store'[i] = Forget(i, key) /\ \A j \in DOMAIN tiers \ {i} : store'[j] = store[j]
  BY <1>1, <1>3 DEF CacheDomains
<1>5. \A j \in DOMAIN tiers : \A k \in DOMAIN store'[j] :
        k \in DOMAIN store[j] /\ store'[j][k] = store[j][k]
  BY <1>4 DEF Forget
<1>6. DOMAIN store' = DOMAIN tiers  BY <1>1, <1>3 DEF CacheDomains
<1>7. clock' \in 1 .. setup.until  BY <1>1 DEF Evict, CacheDomains
<1>8. QED  BY <1>5, <1>6, <1>7, LessStored DEF Evict

LEMMA CrashInv == ASSUME CacheInv, Crash PROVE CacheInv'
<1>1. CacheDomains  BY DEF CacheInv
<1>2. clock' \in 1 .. setup.until /\ DOMAIN store' = DOMAIN tiers
  BY <1>1 DEF Crash, CacheDomains
<1>3. \A i \in DOMAIN tiers : \A key \in DOMAIN store'[i] :
        key \in DOMAIN store[i] /\ store'[i][key] = store[i][key]
  <2>1. \A i \in DOMAIN tiers : store'[i] \in {<<>>, store[i]}  BY DEF Crash
  <2>2. QED  BY <2>1
<1>4. QED  BY <1>2, <1>3, LessStored DEF Crash

LEMMA TickInv == ASSUME CacheInv, Tick PROVE CacheInv'
<1>1. CacheDomains /\ setup.until \in Nat  BY TiersAre DEF CacheInv, CacheDomains
<1>2. clock' \in 1 .. setup.until  BY <1>1 DEF Tick, CacheDomains
<1>3. QED  BY <1>1, <1>2, LessStored DEF Tick, CacheDomains

LEMMA InitializeCacheInv == ASSUME CacheInv, InitializeCache PROVE CacheInv'
<1>1. CacheDomains  BY DEF CacheInv
<1>2. QED  BY <1>1, LessStored DEF InitializeCache, CacheDomains

LEMMA CacheStepInv == ASSUME CacheInv, CacheStep PROVE CacheInv'
BY InitializeCacheInv, SaveInv, WriteFileInv, LookupInv, EvictInv DEF CacheStep

-----------------------------------------------------------------------------
(* The health checks: a result that says ok is the one of the last pass.    *)

Earned ==
  /\ DOMAIN stored = Check /\ DOMAIN good = Check
  /\ \A i \in Check :
       /\ good[i] \in Nat
       /\ stored[i] # None /\ stored[i].ok => stored[i].at = good[i] /\ good[i] > 0

HealthInv == CacheInv /\ Earned

(* Nothing is stored but by TickCheck, and nothing is reconfigured.         *)
LEMMA TickCheckInv ==
  ASSUME HealthInv, NEW i \in Check, NEW outcome, TickCheck(i, outcome), UNCHANGED setup
  PROVE  Earned'
<1>1. clock \in Nat \ {0}
  BY TiersAre DEF HealthInv, CacheInv, CacheDomains
<1>2. Check' = Check  BY DEF Check
<1>3. DOMAIN stored' = Check /\ DOMAIN good' = Check
      /\ (\A j \in Check \ {i} : stored'[j] = stored[j] /\ good'[j] = good[j])
  BY DEF HealthInv, Earned, TickCheck
<1>4. CASE outcome = "passed"
  <2>1. good'[i] = clock /\ stored'[i].at = clock
    BY <1>4 DEF HealthInv, Earned, TickCheck
  <2>2. QED  BY <1>1, <1>2, <1>3, <2>1 DEF HealthInv, Earned
<1>5. CASE outcome = "panicked"
  <2>1. good'[i] = good[i] /\ stored'[i] = stored[i]
    BY <1>5 DEF HealthInv, Earned, TickCheck
  <2>2. QED  BY <1>2, <1>3, <2>1 DEF HealthInv, Earned
<1>6. CASE outcome \notin {"passed", "panicked"}
  <2>1. good'[i] = good[i] /\ ~stored'[i].ok
    BY <1>6 DEF HealthInv, Earned, TickCheck
  <2>2. QED  BY <1>2, <1>3, <2>1 DEF HealthInv, Earned
<1>7. QED  BY <1>4, <1>5, <1>6

LEMMA EarnedKept == Earned /\ UNCHANGED <<setup, stored, good>> => Earned'
BY DEF Earned, Check

(* One run of a check, which may be a client of the cache.                  *)
LEMMA RunInv ==
  ASSUME HealthInv, NEW i \in Check,
         FirstRun(i) \/ NextRun(i) \/ CheckTile(i) \/ ProbeSave(i) \/ ProbeLookup(i) \/ ProbeCompare(i)
  PROVE  HealthInv'
<1>1. CacheInv /\ Earned /\ setup \in Setups  BY DEF HealthInv, CacheInv, CacheDomains
<1>2. i \in Client /\ Probe \in Tile  BY <1>1, HealthAssumption DEF Check
<1>3. CASE FirstRun(i) \/ NextRun(i)
  BY <1>1, <1>3, CacheFrame, EarnedKept DEF HealthInv, FirstRun, NextRun, cacheVars
<1>4. CASE CheckTile(i)
  BY <1>1, <1>4, CacheFrame, TickCheckInv DEF HealthInv, CheckTile, cacheVars
<1>5. CASE ProbeSave(i)
  <2>1. CASE StartSave(i, Probe) /\ UNCHANGED <<stored, good>>
    BY <1>1, <1>2, <2>1, StartSaveInv, EarnedKept DEF HealthInv, StartSave
  <2>2. CASE TickCheck(i, "failed") /\ UNCHANGED cacheVars
    BY <1>1, <2>2, CacheFrame, TickCheckInv DEF HealthInv, cacheVars
  <2>3. QED  BY <1>5, <2>1, <2>2 DEF ProbeSave
<1>6. CASE ProbeLookup(i)
  <2>1. CASE StartLookup(i, Probe) /\ UNCHANGED <<stored, good>>
    BY <1>1, <1>2, <2>1, StartLookupInv, EarnedKept DEF HealthInv, StartLookup
  <2>2. CASE TickCheck(i, "failed") /\ UNCHANGED cacheVars
    BY <1>1, <2>2, CacheFrame, TickCheckInv DEF HealthInv, cacheVars
  <2>3. QED  BY <1>6, <2>1, <2>2 DEF ProbeLookup
<1>7. CASE ProbeCompare(i)
  BY <1>1, <1>7, CacheFrame, TickCheckInv DEF HealthInv, ProbeCompare, cacheVars
<1>8. QED  BY <1>3, <1>4, <1>5, <1>6, <1>7

LEMMA HealthInitInv == HealthInit => HealthInv
BY CacheInitInv DEF HealthInit, HealthInv, Earned

LEMMA HealthNextInv == HealthInv /\ [HealthNext]_allVars => HealthInv'
<1>1. SUFFICES ASSUME HealthInv, [HealthNext]_allVars PROVE HealthInv'
  OBVIOUS
<1>2. CacheInv /\ Earned /\ setup \in Setups
  BY <1>1 DEF HealthInv, CacheInv, CacheDomains
<1>3. CASE CacheStep /\ UNCHANGED healthVars
  <2>1. UNCHANGED setup
    BY <1>3 DEF CacheStep, InitializeCache, Save, WriteFile, Lookup, Evict
  <2>2. QED  BY <1>2, <1>3, <2>1, CacheStepInv, EarnedKept DEF HealthInv, healthVars
<1>4. CASE UserStep /\ UNCHANGED healthVars
  <2>1. PICK p \in Users, t \in setup.tiles : StartSave(p, t) \/ StartLookup(p, t)
    BY <1>4 DEF UserStep
  <2>2. p \in Client /\ t \in Tile  BY <1>2, TileCacheAssumption DEF Users
  <2>3. CacheInv' /\ UNCHANGED setup
    BY <1>2, <2>1, <2>2, StartSaveInv, StartLookupInv DEF StartSave, StartLookup
  <2>4. QED  BY <1>2, <1>4, <2>3, EarnedKept DEF HealthInv, healthVars
<1>5. CASE Tick /\ UNCHANGED healthVars
  BY <1>2, <1>5, TickInv, EarnedKept DEF HealthInv, Tick, healthVars
<1>6. CASE SetupHealth \/ StartEndpoint \/ StartDraining
  BY <1>2, <1>6, CacheFrame, EarnedKept
     DEF HealthInv, SetupHealth, StartEndpoint, StartDraining, cacheVars
<1>7. CASE Restart
  <2>1. CacheInv' /\ UNCHANGED setup  BY <1>2, <1>7, CrashInv DEF Restart, Crash
  <2>2. Earned'  BY <1>7, <2>1 DEF Restart, Earned, Check
  <2>3. QED  BY <2>1, <2>2 DEF HealthInv
<1>8. ASSUME NEW i \in Check,
             FirstRun(i) \/ NextRun(i) \/ CheckTile(i) \/ ProbeSave(i) \/ ProbeLookup(i) \/ ProbeCompare(i)
      PROVE  HealthInv'
  BY <1>1, <1>8, RunInv
<1>9. CASE UNCHANGED allVars
  BY <1>2, <1>9, CacheFrame, EarnedKept DEF HealthInv, allVars, healthVars, cacheVars
<1>10. QED
  BY <1>1, <1>3, <1>4, <1>5, <1>6, <1>7, <1>8, <1>9 DEF HealthNext

(* The inductive invariant of the caches and the checks over them           *)
(* (internal/caches; internal/server/health.go).                            *)
THEOREM HealthInvariance == Spec => []HealthInv
<1>1. QED  BY HealthInitInv, HealthNextInv, PTL DEF Spec

(* Whatever tiers there are and whatever fails or crashes, a hit is the     *)
(* image of a tile with the same safe name, never part of one               *)
(* (utility.go:77-106, disk.go).                                            *)
THEOREM HitsAreOwn == Spec => []HitIsOwn
<1>1. HealthInv => HitIsOwn
  BY DEF HealthInv, CacheInv, HitOK, HitIsOwn
<1>2. QED  BY <1>1, HealthInvariance, PTL

(* Ready is said only after a recent pass of every check, for any number of *)
(* checks of any kind (health.go:58-96).                                    *)
THEOREM ReadyAfterPasses == Spec => []ReadyIsEarned
<1>1. HealthInv => ReadyIsEarned
  BY DEF HealthInv, Earned, ReadyIsEarned, Ready, CheckDetail
<1>2. QED  BY <1>1, HealthInvariance, PTL

-----------------------------------------------------------------------------
(* Lifetimes.                                                               *)

NewEntriesLive ==
  \A i \in DOMAIN tiers : tiers[i].kind \in {"memory", "memcache", "redis"} =>
    \A key \in DOMAIN store'[i] :
      \/ key \in DOMAIN store[i] /\ store[i][key] = store'[i][key]
      \/ store'[i][key].exp \in clock + 1 .. Forever - 1

(* What Initialize makes of any TTL is a lifetime.                          *)
LEMMA TTLIsALifetime ==
  ASSUME CacheInv, NEW i \in DOMAIN tiers, tiers[i].kind \in {"memory", "memcache", "redis"}
  PROVE  Expiry(tiers[i].kind, TTL(tiers[i].kind, tiers[i].ttl)) \in clock + 1 .. Forever - 1
<1> DEFINE k == tiers[i].kind
           n == tiers[i].ttl
           lifetime == TTL(k, n)
<1>1. /\ n \in Nat /\ setup.until + n < Forever
      /\ setup.until \in Nat /\ setup.until + MaxTTL < Forever
      /\ clock \in Nat /\ clock <= setup.until
  BY TiersAre DEF CacheInv, CacheDomains
<1>2. lifetime \in Nat \ {0} /\ lifetime <= (IF n <= MaxTTL THEN MaxTTL ELSE n)
      /\ (k = "memcache" => lifetime <= MaxTTL)
  BY <1>1 DEF TTL, DefaultTTL, MaxTTL
<1>3. Expiry(k, lifetime) = clock + lifetime
  <2> HIDE DEF lifetime
  <2>1. QED  BY <1>2 DEF Expiry, MaxTTL
<1> HIDE DEF lifetime, n
<1>4. clock + lifetime \in clock + 1 .. Forever - 1
  BY <1>1, <1>2 DEF Forever, MaxTTL
<1>5. QED  BY <1>3, <1>4 DEF lifetime, n

LEMMA NothingNewLives ==
  ASSUME CacheInv, \A i \in DOMAIN tiers : store'[i] = store[i] PROVE NewEntriesLive
BY DEF NewEntriesLive

LEMMA SaveLives == ASSUME CacheInv, NEW p \in Client, Save(p) PROVE NewEntriesLive
<1> DEFINE i == op[p].tier
           c == tiers[i]
<1>1. CallOK(p) /\ SaveOK(p)  BY DEF CacheInv
<1>2. op[p].tile \in Tile /\ i \in DOMAIN tiers
      /\ saved[p] \in [image : Image, failed : BOOLEAN] /\ saved[p].image.of = op[p].tile
  BY <1>1 DEF Save, CallOK, SaveOK
<1>3. UNCHANGED setup  BY DEF Save
<1>4. CASE UNCHANGED store  BY <1>4, NothingNewLives
<1>5. CASE c.kind = "disk" /\ Put(i, op[p].tile, [saved[p].image EXCEPT !.upto = "head"], Forever)
  <2>1. [saved[p].image EXCEPT !.upto = "head"] \in Image
        /\ [saved[p].image EXCEPT !.upto = "head"].of = op[p].tile
    BY <1>2 DEF Image
  <2>2. \A j \in DOMAIN tiers : \A key \in DOMAIN store'[j] :
          \/ key \in DOMAIN store[j] /\ store'[j][key] = store[j][key]
          \/ j = i
    <3> DEFINE begun == [saved[p].image EXCEPT !.upto = "head"]
    <3>1. Put(i, op[p].tile, begun, Forever)  BY <1>5
    <3> HIDE DEF begun
    <3>2. begun \in Image /\ begun.of = op[p].tile  BY <2>1 DEF begun
    <3>3. QED  BY <1>2, <1>3, <3>1, <3>2, PutKeeps
  <2>3. QED  BY <1>5, <2>2 DEF NewEntriesLive
<1>6. CASE Put(i, op[p].tile, saved[p].image, Expiry(c.kind, TTL(c.kind, c.ttl)))
  <2>1. \A j \in DOMAIN tiers : \A key \in DOMAIN store'[j] :
          \/ key \in DOMAIN store[j] /\ store'[j][key] = store[j][key]
          \/ j = i /\ store'[j][key].exp = Expiry(c.kind, TTL(c.kind, c.ttl))
    BY <1>2, <1>3, <1>6, PutKeeps
  <2>2. QED  BY <1>2, <2>1, TTLIsALifetime DEF NewEntriesLive
<1>7. QED  BY <1>4, <1>5, <1>6 DEF Save

LEMMA WriteFileLives == ASSUME CacheInv, NEW p \in Client, WriteFile(p) PROVE NewEntriesLive
<1> DEFINE i == op[p].tier
<1>1. CallOK(p) /\ SaveOK(p)  BY DEF CacheInv
<1>2. op[p].tile \in Tile /\ i \in DOMAIN tiers /\ tiers[i].kind = "disk"
      /\ saved[p] \in [image : Image, failed : BOOLEAN] /\ saved[p].image.of = op[p].tile
  BY <1>1 DEF WriteFile, CallOK, SaveOK
<1>3. PICK end \in {"whole", "head", "part"} :
        Put(i, op[p].tile, [saved[p].image EXCEPT !.upto = end], Forever)
  BY DEF WriteFile
<1>4. [saved[p].image EXCEPT !.upto = end] \in Image
      /\ [saved[p].image EXCEPT !.upto = end].of = op[p].tile
  BY <1>2 DEF Image
<1>5. \A j \in DOMAIN tiers : \A key \in DOMAIN store'[j] :
        \/ key \in DOMAIN store[j] /\ store'[j][key] = store[j][key]
        \/ j = i
  <2> DEFINE written == [saved[p].image EXCEPT !.upto = end]
  <2>1. Put(i, op[p].tile, written, Forever)  BY <1>3
  <2> HIDE DEF written
  <2>2. written \in Image /\ written.of = op[p].tile  BY <1>4 DEF written
  <2>3. QED  BY <1>2, <2>1, <2>2, PutKeeps DEF WriteFile
<1>6. QED  BY <1>2, <1>5 DEF NewEntriesLive

LEMMA StepLives == HealthInv /\ [HealthNext]_allVars => [NewEntriesLive]_cacheVars
<1>1. SUFFICES ASSUME HealthInv, [HealthNext]_allVars PROVE NewEntriesLive
  OBVIOUS
<1>2. CacheInv /\ CacheDomains  BY <1>1 DEF HealthInv, CacheInv
<1>3. CASE UNCHANGED store  BY <1>2, <1>3, NothingNewLives
<1>4. CASE Evict
  <2>1. PICK i \in DOMAIN tiers : \E key \in DOMAIN store[i] :
          store' = [store EXCEPT ![i] = Forget(i, key)]
    BY <1>4 DEF Evict
  <2>2. PICK key \in DOMAIN store[i] : store' = [store EXCEPT ![i] = Forget(i, key)]
    BY <2>1
  <2>3. store'[i] = Forget(i, key) /\ \A j \in DOMAIN tiers \ {i} : store'[j] = store[j]
    BY <1>2, <2>2 DEF CacheDomains
  <2>4. QED  BY <2>3 DEF NewEntriesLive, Forget
<1>5. CASE Restart
  <2>1. \A i \in DOMAIN tiers : store'[i] \in {<<>>, store[i]}  BY <1>5 DEF Restart, Crash
  <2>2. QED  BY <2>1 DEF NewEntriesLive
<1>6. CASE CacheStep
  BY <1>2, <1>3, <1>4, <1>6, SaveLives, WriteFileLives
     DEF CacheStep, InitializeCache, Lookup
<1>7. CASE UserStep \/ Tick
  BY <1>3, <1>7 DEF UserStep, StartSave, StartLookup, Tick
<1>8. CASE SetupHealth \/ StartEndpoint \/ StartDraining
  BY <1>3, <1>8 DEF SetupHealth, StartEndpoint, StartDraining, cacheVars
<1>9. ASSUME NEW i \in Check,
             FirstRun(i) \/ NextRun(i) \/ CheckTile(i) \/ ProbeSave(i) \/ ProbeLookup(i) \/ ProbeCompare(i)
      PROVE  NewEntriesLive
  BY <1>3, <1>9
     DEF FirstRun, NextRun, CheckTile, ProbeSave, ProbeLookup, ProbeCompare, StartSave, StartLookup, cacheVars
<1>10. CASE UNCHANGED allVars  BY <1>3, <1>10 DEF allVars, cacheVars
<1>11. QED
  BY <1>1, <1>5, <1>6, <1>7, <1>8, <1>9, <1>10 DEF HealthNext

(* For any configured TTL, what is stored with a lifetime can be found for  *)
(* a while and not for ever (memory.go:66-68, memcache.go:77-82,            *)
(* redis.go:108-113).                                                       *)
THEOREM EntriesLiveForAWhile == Spec => LivesForAWhile
<1>1. HealthInv /\ [HealthNext]_allVars => [NewEntriesLive]_cacheVars
  BY StepLives
<1>2. Spec => [][NewEntriesLive]_cacheVars
  BY <1>1, HealthInvariance, PTL DEF Spec
<1>3. QED  BY <1>2 DEF NewEntriesLive, LivesForAWhile
=============================================================================
