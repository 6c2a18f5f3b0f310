----------------------------- MODULE LayerRender ------------------------------
(***************************************************************************)
(* Rendering a tile of one layer (pkg/entities/layer/layergroup.go and     *)
(* layer.go) over a tiered cache (internal/caches/multi.go).               *)
(*                                                                         *)
(* A request looks the tile up and on a miss asks the layer's provider for *)
(* it.  The provider context, with the credential for the upstream, is     *)
(* shared by all requests of the layer: authMutex is held over the check   *)
(* of its expiry and the PreAuth that renews it.  When the provider        *)
(* rejects the credential the request discards it, in a critical section   *)
(* of its own, asks for a context again and tries once more.  The tile is  *)
(* written to the cache in the background, on a goroutine that holds one   *)
(* of a fixed number of slots; without a free slot it is not written.      *)
(*                                                                         *)
(* A credential is the number of the call of PreAuth that returned it.  A  *)
(* PreAuth that fails is assumed to return no context still to expire.     *)
(***************************************************************************)
EXTENDS Integers, FiniteSets

CONSTANTS
  Req,        \* request goroutines; one that returned may serve another request
  Tile,       \* tiles of the layer
  Tiers,      \* number of tiers of the cache
  Slots,      \* maxConcurrentCacheWrites
  MaxToken,   \* the calls of PreAuth that may succeed (a bound)
  None        \* nobody

ASSUME LayerRenderAssumption ==
  /\ None \notin Req
  /\ Tiers \in Nat \ {0}
  /\ Slots \in Nat \ {0}
  /\ MaxToken \in Nat

VARIABLES
  skipCache,  \* Config.SkipCache of the layer
  bypass,     \* providerContext.AuthBypass
  token,      \* providerContext.AuthToken, 0 for none
  fresh,      \* providerContext.AuthExpiration is not in the past
  asked,      \* calls of PreAuth so far, up to MaxToken
  mutex,      \* holder of authMutex
  pc,         \* [Req -> place]
  tile,       \* [Req -> the tile asked for]
  given,      \* [Req -> token of the context it holds or is about to get]
  rejected,   \* [Req -> token the provider rejected, 0 for none yet]
  stored,     \* [Tier -> tiles it holds]
  taken,      \* length of cacheWriteLimiter
  writes      \* [Slot -> what its background write is about]

authVars  == <<bypass, token, fresh, asked, mutex>>
cacheVars == <<stored, taken, writes>>
vars == <<skipCache, authVars, pc, tile, given, rejected, cacheVars>>

Tier == 1 .. Tiers
Slot == 1 .. Slots
Resting == {"idle", "ok", "failed"}
Place == Resting \cup {"lookup", "auth", "preauth", "render", "force", "save"}

NoWrite == [tile |-> None, next |-> 0]
Idle(s) == writes[s] = NoWrite

Init ==
  /\ skipCache \in BOOLEAN
  /\ bypass    = FALSE
  /\ token     = 0
  /\ fresh     = FALSE
  /\ asked    = 0
  /\ mutex     = None
  /\ pc        = [r \in Req |-> "idle"]
  /\ tile      = [r \in Req |-> None]
  /\ given     = [r \in Req |-> 0]
  /\ rejected  = [r \in Req |-> 0]
  /\ stored    = [i \in Tier |-> {}]
  /\ taken     = 0
  /\ writes    = [s \in Slot |-> NoWrite]

Goto(r, place) == pc' = [pc EXCEPT ![r] = place]

(* The request returns, and forgets what it held. *)
Return(r, result) ==
  /\ Goto(r, result)
  /\ given' = [given EXCEPT ![r] = 0]
  /\ rejected' = [rejected EXCEPT ![r] = 0]

-----------------------------------------------------------------------------
(* LayerGroup.RenderTile up to the provider.                                *)

(* FindLayer and checkPermission, which may refuse the request at once. *)
Start(r, t) ==
  /\ pc[r] \in Resting
  /\ tile' = [tile EXCEPT ![r] = t]
  /\ \/ Goto(r, IF skipCache THEN "auth" ELSE "lookup")
     \/ Goto(r, "failed")
  /\ UNCHANGED <<skipCache, authVars, given, rejected, cacheVars>>

(* Multi.Lookup tries the tiers in order; bad are those whose lookup fails. *)
(* A tile found behind a failing tier is returned together with the error,  *)
(* which fails the request; an error without a tile is a miss.              *)
Lookup(r) ==
  /\ pc[r] = "lookup"
  /\ \E bad \in SUBSET Tier :
       LET hits == {i \in Tier \ bad : tile[r] \in stored[i]} IN
       \/ /\ hits # {}
          /\ LET first == CHOOSE i \in hits : \A j \in hits : i <= j
             IN Return(r, IF \E j \in bad : j < first THEN "failed" ELSE "ok")
       \/ /\ hits = {}
          /\ Goto(r, "auth")
          /\ UNCHANGED <<given, rejected>>
  /\ UNCHANGED <<skipCache, authVars, tile, cacheVars>>

-----------------------------------------------------------------------------
(* Layer.getProviderContext and Layer.forceReauth.                          *)

Grant(r, t) ==
  /\ given' = [given EXCEPT ![r] = t]
  /\ Goto(r, "render")

(* The context in place is good. *)
UseContext(r) ==
  /\ pc[r] = "auth"
  /\ mutex = None
  /\ bypass \/ fresh
  /\ Grant(r, token)
  /\ UNCHANGED <<skipCache, authVars, tile, rejected, cacheVars>>

(* PreAuth is called.  Past the bound it can only fail. *)
CallPreAuth(r) ==
  /\ \/ asked < MaxToken /\ asked' = asked + 1 /\ given' = [given EXCEPT ![r] = asked + 1]
     \/ asked = MaxToken /\ asked' = asked /\ given' = [given EXCEPT ![r] = 0]
  /\ Goto(r, "preauth")
  /\ UNCHANGED <<skipCache, bypass, token, fresh, tile, rejected, cacheVars>>

(* Mutant of BeginAuth: the lock is given up for the length of PreAuth. *)
BeginAuthUnlocked(r) ==
  /\ pc[r] = "auth"
  /\ mutex = None
  /\ ~bypass /\ ~fresh
  /\ CallPreAuth(r)
  /\ UNCHANGED mutex

(* It is not, and PreAuth is called with the lock held. *)
BeginAuth(r) ==
  /\ pc[r] = "auth"
  /\ mutex = None
  /\ ~bypass /\ ~fresh
  /\ mutex' = r
  /\ CallPreAuth(r)

(* PreAuth returns a context, one without a future expiry included, and the *)
(* lock is released.                                                        *)
AuthSucceeds(r) ==
  /\ pc[r] = "preauth"
  /\ given[r] # 0
  /\ token' = given[r]
  /\ fresh' \in BOOLEAN
  /\ bypass' \in BOOLEAN
  /\ mutex' = None
  /\ Grant(r, given[r])
  /\ UNCHANGED <<skipCache, asked, tile, rejected, cacheVars>>

(* Mutant of AuthFails: the error return keeps the lock. *)
AuthFailsLocked(r) ==
  /\ pc[r] = "preauth"
  /\ token' \in {token, 0}
  /\ Return(r, "failed")
  /\ UNCHANGED <<skipCache, bypass, fresh, asked, mutex, tile, cacheVars>>

(* PreAuth fails, and what it returned is stored all the same, or panics,   *)
(* and the context stays.  The lock is released by the deferred call.       *)
AuthFails(r) ==
  /\ pc[r] = "preauth"
  /\ token' \in {token, 0}
  /\ mutex' = None
  /\ Return(r, "failed")
  /\ UNCHANGED <<skipCache, bypass, fresh, asked, tile, cacheVars>>

(* Mutant of ForceReauth: the context is only asked for again. *)
ForceKeepsExpiry(r) ==
  /\ pc[r] = "force"
  /\ mutex = None
  /\ Goto(r, "auth")
  /\ UNCHANGED <<skipCache, authVars, tile, given, rejected, cacheVars>>

(* forceReauth's own critical section: whatever context is in place by now  *)
(* is discarded.                                                            *)
ForceReauth(r) ==
  /\ pc[r] = "force"
  /\ mutex = None
  /\ fresh' = FALSE
  /\ Goto(r, "auth")
  /\ UNCHANGED <<skipCache, bypass, token, asked, mutex, tile, given, rejected, cacheVars>>

(* AuthExpiration passes. *)
Expire ==
  /\ fresh
  /\ fresh' = FALSE
  /\ UNCHANGED <<skipCache, bypass, token, asked, mutex, pc, tile, given, rejected, cacheVars>>

-----------------------------------------------------------------------------
(* Layer.RenderTileNoCache and the rest of RenderTile.                      *)

(* GenerateTile returned.  The first rejection of the credential leads to   *)
(* one more attempt, any other error, a panic or no image at all ends the   *)
(* request.  An image may ask not to be cached.                             *)
Rendered(r) ==
  /\ pc[r] = "render"
  /\ \/ /\ rejected[r] = 0
        /\ rejected' = [rejected EXCEPT ![r] = given[r]]
        /\ Goto(r, "force")
        /\ UNCHANGED given
     \/ Return(r, "failed")
     \/ Return(r, "ok")
     \/ ~skipCache /\ Goto(r, "save") /\ UNCHANGED <<given, rejected>>
  /\ UNCHANGED <<skipCache, authVars, tile, cacheVars>>

(* The non-blocking send to cacheWriteLimiter and the start of writeCache. *)
Save(r) ==
  /\ pc[r] = "save"
  /\ \/ /\ taken < Slots
        /\ taken' = taken + 1
        /\ \E s \in Slot : Idle(s) /\ writes' = [writes EXCEPT ![s] = [tile |-> tile[r], next |-> 1]]
     \/ taken >= Slots /\ UNCHANGED <<taken, writes>>
  /\ Return(r, "ok")
  /\ UNCHANGED <<skipCache, authVars, tile, stored>>

-----------------------------------------------------------------------------
(* writeCache on its goroutine, and the tiers of the cache.                 *)

Release(s) ==
  /\ writes' = [writes EXCEPT ![s] = NoWrite]
  /\ taken' = taken - 1

(* Multi.Save goes through every tier, past one that fails. *)
WriteTier(s) ==
  /\ ~Idle(s)
  /\ LET i == writes[s].next IN
     /\ \/ stored' = [stored EXCEPT ![i] = @ \cup {writes[s].tile}]
        \/ UNCHANGED stored
     /\ IF i < Tiers THEN writes' = [writes EXCEPT ![s].next = i + 1] /\ UNCHANGED taken
                     ELSE Release(s)
  /\ UNCHANGED <<skipCache, authVars, pc, tile, given, rejected>>

(* Mutant of WritePanics: the slot goes back on the normal return only. *)
WritePanicLeaks(s) ==
  /\ ~Idle(s)
  /\ writes' = [writes EXCEPT ![s] = NoWrite]
  /\ UNCHANGED <<skipCache, authVars, pc, tile, given, rejected, stored, taken>>

(* A panic of a tier's Save is recovered and ends the write. *)
WritePanics(s) ==
  /\ ~Idle(s)
  /\ Release(s)
  /\ UNCHANGED <<skipCache, authVars, pc, tile, given, rejected, stored>>

(* A tier drops a tile, for its age or for room. *)
Evict(i, t) ==
  /\ t \in stored[i]
  /\ stored' = [stored EXCEPT ![i] = @ \ {t}]
  /\ UNCHANGED <<skipCache, authVars, pc, tile, given, rejected, taken, writes>>

-----------------------------------------------------------------------------
AuthStep(r) == UseContext(r) \/ BeginAuth(r)

ProviderStep(r) == AuthSucceeds(r) \/ AuthFails(r) \/ Rendered(r)

RenderStep(r) == Lookup(r) \/ AuthStep(r) \/ ForceReauth(r) \/ ProviderStep(r) \/ Save(r)

WriteStep(s) == WriteTier(s) \/ WritePanics(s)

Next ==
  \/ \E r \in Req, t \in Tile : Start(r, t)
  \/ \E r \in Req : RenderStep(r)
  \/ \E s \in Slot : WriteStep(s)
  \/ \E i \in Tier, t \in Tile : Evict(i, t)
  \/ Expire

Spec == Init /\ [][Next]_vars

(* Goroutines are scheduled, lookups return, and a goroutine that waits for *)
(* authMutex gets it in the end: sync.Mutex hands the lock over to one that *)
(* has waited long.  Neither the provider nor a write need ever return.     *)
Fairness ==
  /\ \A r \in Req : /\ WF_vars(Lookup(r)) /\ WF_vars(Save(r))
                    /\ SF_vars(AuthStep(r)) /\ SF_vars(ForceReauth(r))

LiveSpec == Spec /\ Fairness

-----------------------------------------------------------------------------
(* Properties.                                                              *)

TypeOK ==
  /\ skipCache \in BOOLEAN
  /\ bypass    \in BOOLEAN
  /\ token     \in 0 .. asked
  /\ fresh     \in BOOLEAN
  /\ asked    \in 0 .. MaxToken
  /\ mutex     \in Req \cup {None}
  /\ pc        \in [Req -> Place]
  /\ tile      \in [Req -> Tile \cup {None}]
  /\ given     \in [Req -> 0 .. asked]
  /\ rejected  \in [Req -> 0 .. asked]
  /\ stored    \in [Tier -> SUBSET Tile]
  /\ taken     \in 0 .. Slots
  /\ writes    \in [Slot -> {NoWrite} \cup [tile : Tile, next : Tier]]

(* The second attempt never goes out with the credential the provider just  *)
(* rejected, whoever discarded or renewed the context in between, unless    *)
(* PreAuth said that it need not be called again (layer.go, forceReauth     *)
(* and RenderTileNoCache).                                                  *)
RetryIsNewer ==
  \A r \in Req : pc[r] = "render" /\ rejected[r] # 0 /\ ~bypass => given[r] > rejected[r]

(* A credential that was replaced does not come back: a PreAuth that takes  *)
(* long does not overwrite the context of one that was called later         *)
(* (layer.go, getProviderContext: "the mutex is held for the full           *)
(* read-check-write sequence").                                             *)
ContextMovesOn == [][token' >= token \/ token' = 0]_vars

(* The provider answers, though it may fail, every time it is called. *)
ProviderReturns == \A r \in Req : []<>(pc[r] \notin {"preauth", "render"})

(* Every request returns as long as the provider does, past failing         *)
(* PreAuths of other requests, past their rejections, and though every      *)
(* background write hangs (layer.go, getProviderContext's deferred unlock;  *)
(* layergroup.go, RenderTile's select).                                     *)
RequestsReturn ==
  ProviderReturns => \A r \in Req : pc[r] \in {"lookup", "auth", "force", "save"} ~> pc[r] \in Resting

(* A slot is taken for as long as a write is under way and no longer, so a  *)
(* cache that panics now and then does not end up unwritten for good        *)
(* (layergroup.go, RenderTile's deferred receive and writeCache's recover). *)
SlotsAreWrites == taken = Cardinality({s \in Slot : ~Idle(s)})
-----------------------------------------------------------------------------
(* The inductive invariant behind RetryIsNewer and ContextMovesOn.          *)

(* PreAuth runs with the lock held, and only when it is needed. *)
PreAuthExcludes ==
  \A r \in Req : (pc[r] = "preauth") <=> (mutex = r)

PreAuthNeeded ==
  mutex # None => ~bypass /\ ~fresh

(* A PreAuth under way was called after the one that left the context. *)
PreAuthIsNewer ==
  \A r \in Req : pc[r] = "preauth" /\ given[r] # 0 => given[r] > token

(* Between ForceReauth and its second attempt a request sees no context of *)
(* the time before: neither the one in place nor the one being made.        *)
ForcedIsNewer ==
  \A r \in Req : pc[r] \in {"auth", "preauth"} /\ rejected[r] # 0 =>
    /\ fresh => token > rejected[r]
    /\ \A o \in Req : pc[o] = "preauth" /\ given[o] # 0 => given[o] > rejected[r]

(* A request that came has a tile. *)
TileKnown ==
  \A r \in Req : pc[r] # "idle" => tile[r] \in Tile

(* What a rejection left is gone when the request returns. *)
NothingRejected ==
  \A r \in Req : pc[r] \in Resting \cup {"lookup"} => rejected[r] = 0

LayerRenderInv ==
  /\ TypeOK
  /\ TileKnown
  /\ NothingRejected
  /\ SlotsAreWrites
  /\ PreAuthExcludes
  /\ PreAuthNeeded
  /\ PreAuthIsNewer
  /\ ForcedIsNewer
  /\ RetryIsNewer
=============================================================================
