--------------------------- MODULE LayerRenderProofs ---------------------------
(***************************************************************************)
(* Proofs about LayerRender for any requests and tiles, any number of      *)
(* tiers and of slots for background writes.  LayerRenderInv is inductive. *)
(***************************************************************************)
EXTENDS LayerRender, FiniteSetTheorems, TLAPS

USE LayerRenderAssumption
USE DEF Place, Resting, authVars, cacheVars

Busy == {s \in Slot : ~Idle(s)}

-----------------------------------------------------------------------------
(* Slots. *)

LEMMA BusyFinite ==
  /\ IsFiniteSet(Busy)
  /\ Cardinality(Busy) \in 0 .. Slots
<1>1. IsFiniteSet(Slot) /\ Cardinality(Slot) = Slots
  BY FS_Interval DEF Slot
<1>2. Busy \subseteq Slot  BY DEF Busy
<1>3. IsFiniteSet(Busy) /\ Cardinality(Busy) <= Cardinality(Slot)
  BY <1>1, <1>2, FS_Subset
<1>4. Cardinality(Busy) \in Nat  BY <1>3, FS_CardinalityType
<1>5. QED  BY <1>1, <1>3, <1>4

(* Starting a write in an idle slot makes one more slot busy. *)
LEMMA OneMoreBusy ==
  ASSUME TypeOK, SlotsAreWrites, NEW s \in Slot, Idle(s), NEW x \in Tile,
         writes' = [writes EXCEPT ![s] = [tile |-> x, next |-> 1]],
         taken' = taken + 1, taken < Slots
  PROVE  SlotsAreWrites' /\ taken' \in 0 .. Slots
<1>1. Busy' = Busy \cup {s}  BY DEF Busy, Idle, NoWrite, TypeOK
<1>2. s \notin Busy  BY DEF Busy
<1>3. Cardinality(Busy \cup {s}) = Cardinality(Busy) + 1
  BY <1>2, BusyFinite, FS_AddElement
<1>4. SlotsAreWrites'
  BY <1>1, <1>3 DEF SlotsAreWrites, Busy
<1>5. taken' \in 0 .. Slots  BY DEF TypeOK
<1>6. QED  BY <1>4, <1>5

(* Releasing a busy slot makes one slot less busy. *)
LEMMA OneLessBusy ==
  ASSUME TypeOK, SlotsAreWrites, NEW s \in Slot, ~Idle(s), Release(s)
  PROVE  SlotsAreWrites' /\ taken' \in 0 .. Slots
<1>1. Busy' = Busy \ {s}  BY DEF Busy, Idle, NoWrite, TypeOK, Release
<1>2. s \in Busy  BY DEF Busy
<1>3. Cardinality(Busy \ {s}) = Cardinality(Busy) - 1
  BY <1>2, BusyFinite, FS_RemoveElement
<1>4. IsFiniteSet(Busy \ {s})
  BY BusyFinite, FS_RemoveElement
<1>5. Cardinality(Busy \ {s}) \in Nat  BY <1>4, FS_CardinalityType
<1>6. taken = Cardinality(Busy)  BY DEF SlotsAreWrites, Busy
<1>7. SlotsAreWrites'
  BY <1>1, <1>3, <1>6 DEF SlotsAreWrites, Busy, Release
<1>8. taken' \in 0 .. Slots
  BY <1>3, <1>5, <1>6, BusyFinite DEF Release
<1>9. QED  BY <1>7, <1>8

-----------------------------------------------------------------------------
(* The invariant holds initially. *)
LEMMA InitInv == Init => LayerRenderInv
<1> SUFFICES ASSUME Init PROVE LayerRenderInv
  OBVIOUS
<1> USE DEF Init
<1>1. TypeOK
  <2>1. token \in 0 .. asked /\ asked \in 0 .. MaxToken /\ taken \in 0 .. Slots  OBVIOUS
  <2>2. given \in [Req -> 0 .. asked] /\ rejected \in [Req -> 0 .. asked]  OBVIOUS
  <2>3. pc \in [Req -> Place] /\ tile \in [Req -> Tile \cup {None}]  OBVIOUS
  <2>4. stored \in [Tier -> SUBSET Tile]  OBVIOUS
  <2>5. writes \in [Slot -> {NoWrite} \cup [tile : Tile, next : Tier]]  OBVIOUS
  <2>6. QED  BY <2>1, <2>2, <2>3, <2>4, <2>5 DEF TypeOK
<1>2. SlotsAreWrites
  <2>1. {s \in Slot : ~Idle(s)} = {}  BY DEF Idle
  <2>2. QED  BY <2>1, FS_EmptySet DEF SlotsAreWrites
<1>3. TileKnown /\ NothingRejected  BY DEF TileKnown, NothingRejected
<1>4. PreAuthExcludes /\ PreAuthNeeded /\ PreAuthIsNewer
  BY DEF PreAuthExcludes, PreAuthNeeded, PreAuthIsNewer
<1>5. ForcedIsNewer /\ RetryIsNewer  BY DEF ForcedIsNewer, RetryIsNewer
<1>6. QED  BY <1>1, <1>2, <1>3, <1>4, <1>5 DEF LayerRenderInv

-----------------------------------------------------------------------------
(* Steps that leave the shared context alone. *)

(* A request that comes has nothing rejected yet. *)
LEMMA StartInv ==
  ASSUME LayerRenderInv, NEW r \in Req, NEW t \in Tile, Start(r, t)
  PROVE  LayerRenderInv'
<1> USE DEF LayerRenderInv, Start, Goto
<1>1. TypeOK'  BY DEF TypeOK
<1>2. SlotsAreWrites'  BY DEF SlotsAreWrites, Idle
<1>3. TileKnown'  BY DEF TileKnown, TypeOK
<1>4. NothingRejected'  BY DEF NothingRejected, TypeOK
<1>5. PreAuthExcludes'  BY DEF PreAuthExcludes, TypeOK
<1>6. PreAuthNeeded'  BY DEF PreAuthNeeded, PreAuthExcludes, TypeOK
<1>7. PreAuthIsNewer'  BY DEF PreAuthIsNewer, PreAuthExcludes, TypeOK
<1>8. ForcedIsNewer'  BY DEF ForcedIsNewer, PreAuthExcludes, NothingRejected, TypeOK
<1>9. RetryIsNewer'  BY DEF RetryIsNewer, ForcedIsNewer, PreAuthExcludes, NothingRejected, TypeOK
<1>10. QED  BY <1>1, <1>2, <1>3, <1>4, <1>5, <1>6, <1>7, <1>8, <1>9

(* A hit returns, and a miss goes on to the context. *)
LEMMA LookupInv ==
  ASSUME LayerRenderInv, NEW r \in Req, Lookup(r)
  PROVE  LayerRenderInv'
<1> USE DEF LayerRenderInv, Lookup, Goto, Return
<1>1. TypeOK'  BY DEF TypeOK
<1>2. SlotsAreWrites'  BY DEF SlotsAreWrites, Idle
<1>3. TileKnown'  BY DEF TileKnown, TypeOK
<1>4. NothingRejected'  BY DEF NothingRejected, TypeOK
<1>5. PreAuthExcludes'  BY DEF PreAuthExcludes, TypeOK
<1>6. PreAuthNeeded'  BY DEF PreAuthNeeded, PreAuthExcludes, TypeOK
<1>7. PreAuthIsNewer'  BY DEF PreAuthIsNewer, PreAuthExcludes, TypeOK
<1>8. ForcedIsNewer'  BY DEF ForcedIsNewer, PreAuthExcludes, NothingRejected, TypeOK
<1>9. RetryIsNewer'  BY DEF RetryIsNewer, ForcedIsNewer, PreAuthExcludes, NothingRejected, TypeOK
<1>10. QED  BY <1>1, <1>2, <1>3, <1>4, <1>5, <1>6, <1>7, <1>8, <1>9

(* The first rejection records the token the request was given. *)
LEMMA RenderedInv ==
  ASSUME LayerRenderInv, NEW r \in Req, Rendered(r)
  PROVE  LayerRenderInv'
<1> USE DEF LayerRenderInv, Rendered, Goto, Return
<1>1. TypeOK'  BY DEF TypeOK
<1>2. SlotsAreWrites'  BY DEF SlotsAreWrites, Idle
<1>3. TileKnown'  BY DEF TileKnown, TypeOK
<1>4. NothingRejected'  BY DEF NothingRejected, TypeOK
<1>5. PreAuthExcludes'  BY DEF PreAuthExcludes, TypeOK
<1>6. PreAuthNeeded'  BY DEF PreAuthNeeded, PreAuthExcludes, TypeOK
<1>7. PreAuthIsNewer'  BY DEF PreAuthIsNewer, PreAuthExcludes, TypeOK
<1>8. ForcedIsNewer'  BY DEF ForcedIsNewer, PreAuthExcludes, NothingRejected, TypeOK
<1>9. RetryIsNewer'  BY DEF RetryIsNewer, ForcedIsNewer, PreAuthExcludes, NothingRejected, TypeOK
<1>10. QED  BY <1>1, <1>2, <1>3, <1>4, <1>5, <1>6, <1>7, <1>8, <1>9

-----------------------------------------------------------------------------
(* Steps of the shared context. *)

(* A context in place that is fresh is newer than the token rejected. *)
LEMMA UseContextInv ==
  ASSUME LayerRenderInv, NEW r \in Req, UseContext(r)
  PROVE  LayerRenderInv'
<1> USE DEF LayerRenderInv, UseContext, Grant, Goto
<1>1. TypeOK'  BY DEF TypeOK
<1>2. SlotsAreWrites'  BY DEF SlotsAreWrites, Idle
<1>3. TileKnown'  BY DEF TileKnown, TypeOK
<1>4. NothingRejected'  BY DEF NothingRejected, TypeOK
<1>5. PreAuthExcludes'  BY DEF PreAuthExcludes, TypeOK
<1>6. PreAuthNeeded'  BY DEF PreAuthNeeded, PreAuthExcludes, TypeOK
<1>7. PreAuthIsNewer'  BY DEF PreAuthIsNewer, PreAuthExcludes, TypeOK
<1>8. ForcedIsNewer'  BY DEF ForcedIsNewer, PreAuthExcludes, NothingRejected, TypeOK
<1>9. RetryIsNewer'  BY DEF RetryIsNewer, ForcedIsNewer, PreAuthExcludes, NothingRejected, TypeOK
<1>10. QED  BY <1>1, <1>2, <1>3, <1>4, <1>5, <1>6, <1>7, <1>8, <1>9

(* The new call of PreAuth has a number above every token there is. *)
LEMMA BeginAuthInv ==
  ASSUME LayerRenderInv, NEW r \in Req, BeginAuth(r)
  PROVE  LayerRenderInv'
<1> USE DEF LayerRenderInv, BeginAuth, CallPreAuth, Goto
<1>1. TypeOK'  BY DEF TypeOK
<1>2. SlotsAreWrites'  BY DEF SlotsAreWrites, Idle
<1>3. TileKnown'  BY DEF TileKnown, TypeOK
<1>4. NothingRejected'  BY DEF NothingRejected, TypeOK
<1>5. PreAuthExcludes'  BY DEF PreAuthExcludes, TypeOK
<1>6. PreAuthNeeded'  BY DEF PreAuthNeeded, PreAuthExcludes, TypeOK
<1>7. PreAuthIsNewer'  BY DEF PreAuthIsNewer, PreAuthExcludes, TypeOK
<1>8. ForcedIsNewer'  BY DEF ForcedIsNewer, PreAuthExcludes, NothingRejected, TypeOK
<1>9. RetryIsNewer'  BY DEF RetryIsNewer, ForcedIsNewer, PreAuthExcludes, NothingRejected, TypeOK
<1>10. QED  BY <1>1, <1>2, <1>3, <1>4, <1>5, <1>6, <1>7, <1>8, <1>9

(* The context it returns is newer than any token rejected before it. *)
LEMMA AuthSucceedsInv ==
  ASSUME LayerRenderInv, NEW r \in Req, AuthSucceeds(r)
  PROVE  LayerRenderInv'
<1> USE DEF LayerRenderInv, AuthSucceeds, Grant, Goto
<1>1. TypeOK'  BY DEF TypeOK
<1>2. SlotsAreWrites'  BY DEF SlotsAreWrites, Idle
<1>3. TileKnown'  BY DEF TileKnown, TypeOK
<1>4. NothingRejected'  BY DEF NothingRejected, TypeOK
<1>5. PreAuthExcludes'  BY DEF PreAuthExcludes, TypeOK
<1>6. PreAuthNeeded'  BY DEF PreAuthNeeded, PreAuthExcludes, TypeOK
<1>7. PreAuthIsNewer'  BY DEF PreAuthIsNewer, PreAuthExcludes, TypeOK
<1>8. ForcedIsNewer'  BY DEF ForcedIsNewer, PreAuthExcludes, NothingRejected, TypeOK
<1>9. RetryIsNewer'  BY DEF RetryIsNewer, ForcedIsNewer, PreAuthExcludes, PreAuthNeeded, TypeOK
<1>10. QED  BY <1>1, <1>2, <1>3, <1>4, <1>5, <1>6, <1>7, <1>8, <1>9

(* A failed PreAuth leaves no context that is fresh. *)
LEMMA AuthFailsInv ==
  ASSUME LayerRenderInv, NEW r \in Req, AuthFails(r)
  PROVE  LayerRenderInv'
<1> USE DEF LayerRenderInv, AuthFails, Return, Goto
<1>1. TypeOK'  BY DEF TypeOK
<1>2. SlotsAreWrites'  BY DEF SlotsAreWrites, Idle
<1>3. TileKnown'  BY DEF TileKnown, TypeOK
<1>4. NothingRejected'  BY DEF NothingRejected, TypeOK
<1>5. PreAuthExcludes'  BY DEF PreAuthExcludes, TypeOK
<1>6. PreAuthNeeded'  BY DEF PreAuthNeeded, PreAuthExcludes, TypeOK
<1>7. PreAuthIsNewer'  BY DEF PreAuthIsNewer, PreAuthExcludes, TypeOK
<1>8. ForcedIsNewer'  BY DEF ForcedIsNewer, PreAuthExcludes, PreAuthNeeded, TypeOK
<1>9. RetryIsNewer'  BY DEF RetryIsNewer, ForcedIsNewer, PreAuthExcludes, NothingRejected, TypeOK
<1>10. QED  BY <1>1, <1>2, <1>3, <1>4, <1>5, <1>6, <1>7, <1>8, <1>9

(* Nobody is in PreAuth while the context is discarded. *)
LEMMA ForceInv ==
  ASSUME LayerRenderInv, NEW r \in Req, ForceReauth(r)
  PROVE  LayerRenderInv'
<1> USE DEF LayerRenderInv, ForceReauth, Goto
<1>1. TypeOK'  BY DEF TypeOK
<1>2. SlotsAreWrites'  BY DEF SlotsAreWrites, Idle
<1>3. TileKnown'  BY DEF TileKnown, TypeOK
<1>4. NothingRejected'  BY DEF NothingRejected, TypeOK
<1>5. PreAuthExcludes'  BY DEF PreAuthExcludes, TypeOK
<1>6. PreAuthNeeded'  BY DEF PreAuthNeeded, PreAuthExcludes, TypeOK
<1>7. PreAuthIsNewer'  BY DEF PreAuthIsNewer, PreAuthExcludes, TypeOK
<1>8. ForcedIsNewer'  BY DEF ForcedIsNewer, PreAuthExcludes, NothingRejected, TypeOK
<1>9. RetryIsNewer'  BY DEF RetryIsNewer, ForcedIsNewer, PreAuthExcludes, NothingRejected, TypeOK
<1>10. QED  BY <1>1, <1>2, <1>3, <1>4, <1>5, <1>6, <1>7, <1>8, <1>9

(* Nobody is in PreAuth while the context is fresh. *)
LEMMA ExpireInv ==
  ASSUME LayerRenderInv, Expire
  PROVE  LayerRenderInv'
<1> USE DEF LayerRenderInv, Expire
<1>1. TypeOK'  BY DEF TypeOK
<1>2. SlotsAreWrites'  BY DEF SlotsAreWrites, Idle
<1>3. TileKnown'  BY DEF TileKnown, TypeOK
<1>4. NothingRejected'  BY DEF NothingRejected, TypeOK
<1>5. PreAuthExcludes'  BY DEF PreAuthExcludes, TypeOK
<1>6. PreAuthNeeded'  BY DEF PreAuthNeeded, PreAuthExcludes, TypeOK
<1>7. PreAuthIsNewer'  BY DEF PreAuthIsNewer, PreAuthExcludes, TypeOK
<1>8. ForcedIsNewer'  BY DEF ForcedIsNewer, PreAuthExcludes, NothingRejected, TypeOK
<1>9. RetryIsNewer'  BY DEF RetryIsNewer, ForcedIsNewer, PreAuthExcludes, NothingRejected, TypeOK
<1>10. QED  BY <1>1, <1>2, <1>3, <1>4, <1>5, <1>6, <1>7, <1>8, <1>9

-----------------------------------------------------------------------------
(* Steps of the cache. *)

(* A save takes an idle slot, or leaves the cache alone. *)
LEMMA SaveInv ==
  ASSUME LayerRenderInv, NEW r \in Req, Save(r)
  PROVE  LayerRenderInv'
<1> USE DEF LayerRenderInv, Save, Return, Goto
<1>1. SlotsAreWrites' /\ taken' \in 0 .. Slots
  <2>1. CASE UNCHANGED <<taken, writes>>
    BY <2>1 DEF SlotsAreWrites, Idle, TypeOK
  <2>2. CASE ~UNCHANGED <<taken, writes>>
    <3>1. tile[r] \in Tile  BY DEF TileKnown
    <3>2. QED  BY <2>2, <3>1, OneMoreBusy
  <2>3. QED  BY <2>1, <2>2
<1>2. writes' \in [Slot -> {NoWrite} \cup [tile : Tile, next : Tier]]
  <2>1. tile[r] \in Tile /\ 1 \in Tier  BY DEF TileKnown, Tier
  <2>2. QED  BY <2>1 DEF TypeOK
<1>3. TypeOK'  BY <1>1, <1>2 DEF TypeOK
<1>4. TileKnown' /\ NothingRejected'  BY DEF TileKnown, NothingRejected, TypeOK
<1>5. PreAuthExcludes' /\ PreAuthNeeded' /\ PreAuthIsNewer'
  BY DEF PreAuthExcludes, PreAuthNeeded, PreAuthIsNewer, TypeOK
<1>6. ForcedIsNewer' /\ RetryIsNewer'  BY DEF ForcedIsNewer, RetryIsNewer, TypeOK
<1>7. QED  BY <1>1, <1>3, <1>4, <1>5, <1>6

(* A write changes what the slots and the tiers hold, never a request. *)
LEMMA WriteInv ==
  ASSUME LayerRenderInv, NEW s \in Slot, WriteStep(s)
  PROVE  LayerRenderInv'
<1> USE DEF LayerRenderInv, WriteStep, WriteTier, WritePanics
<1>1. writes[s] \in [tile : Tile, next : Tier]
  BY DEF Idle, TypeOK
<1>2. SlotsAreWrites' /\ taken' \in 0 .. Slots
  <2>1. CASE Release(s)  BY <2>1, OneLessBusy
  <2>2. CASE ~Release(s)
    <3>1. /\ taken' = taken
          /\ writes[s].next < Tiers
          /\ writes' = [writes EXCEPT ![s].next = writes[s].next + 1]
      BY <2>2
    <3>2. writes'[s].next # 0  BY <1>1, <3>1 DEF TypeOK, Tier
    <3>3. \A q \in Slot : Idle(q)' <=> Idle(q)
      BY <3>1, <3>2 DEF Idle, NoWrite, TypeOK
    <3>4. {q \in Slot : ~Idle(q)}' = {q \in Slot : ~Idle(q)}  BY <3>3
    <3>5. QED  BY <3>1, <3>4 DEF SlotsAreWrites, TypeOK
  <2>3. QED  BY <2>1, <2>2
<1>3. writes' \in [Slot -> {NoWrite} \cup [tile : Tile, next : Tier]]
  <2>1. CASE Release(s)  BY <2>1 DEF Release, TypeOK
  <2>2. CASE ~Release(s)
    BY <1>1, <2>2 DEF TypeOK, Tier
  <2>3. QED  BY <2>1, <2>2
<1>4. stored' \in [Tier -> SUBSET Tile]  BY <1>1 DEF TypeOK
<1>5. TypeOK'  BY <1>2, <1>3, <1>4 DEF TypeOK
<1>6. TileKnown' /\ NothingRejected'  BY DEF TileKnown, NothingRejected
<1>7. PreAuthExcludes' /\ PreAuthNeeded' /\ PreAuthIsNewer'
  BY DEF PreAuthExcludes, PreAuthNeeded, PreAuthIsNewer
<1>8. ForcedIsNewer' /\ RetryIsNewer'  BY DEF ForcedIsNewer, RetryIsNewer
<1>9. QED  BY <1>2, <1>5, <1>6, <1>7, <1>8

(* An eviction, and a step that changes nothing here. *)
LEMMA EvictInv ==
  ASSUME LayerRenderInv,
         UNCHANGED vars \/ \E i \in Tier, t \in Tile : Evict(i, t)
  PROVE  LayerRenderInv'
<1> USE DEF LayerRenderInv, Evict, vars
<1>1. TypeOK'  BY DEF TypeOK
<1>2. SlotsAreWrites'  BY DEF SlotsAreWrites, Idle
<1>3. TileKnown' /\ NothingRejected'  BY DEF TileKnown, NothingRejected
<1>4. PreAuthExcludes' /\ PreAuthNeeded' /\ PreAuthIsNewer'
  BY DEF PreAuthExcludes, PreAuthNeeded, PreAuthIsNewer
<1>5. ForcedIsNewer' /\ RetryIsNewer'  BY DEF ForcedIsNewer, RetryIsNewer
<1>6. QED  BY <1>1, <1>2, <1>3, <1>4, <1>5

-----------------------------------------------------------------------------
(* The inductive invariant of RenderTile (layergroup.go, layer.go) is       *)
(* preserved by every step and so holds in every reachable state.           *)
LEMMA NextInv == LayerRenderInv /\ [Next]_vars => LayerRenderInv'
<1> SUFFICES ASSUME LayerRenderInv, [Next]_vars PROVE LayerRenderInv'
  OBVIOUS
<1>1. CASE \E r \in Req, t \in Tile : Start(r, t)  BY <1>1, StartInv
<1>2. CASE \E r \in Req : RenderStep(r)
  <2>1. PICK r \in Req : RenderStep(r)  BY <1>2
  <2>2. CASE Lookup(r)  BY <2>2, LookupInv
  <2>3. CASE UseContext(r)  BY <2>3, UseContextInv
  <2>4. CASE BeginAuth(r)  BY <2>4, BeginAuthInv
  <2>5. CASE ForceReauth(r)  BY <2>5, ForceInv
  <2>6. CASE AuthSucceeds(r)  BY <2>6, AuthSucceedsInv
  <2>7. CASE AuthFails(r)  BY <2>7, AuthFailsInv
  <2>8. CASE Rendered(r)  BY <2>8, RenderedInv
  <2>9. CASE Save(r)  BY <2>9, SaveInv
  <2>10. QED
    BY <2>1, <2>2, <2>3, <2>4, <2>5, <2>6, <2>7, <2>8, <2>9 DEF RenderStep, AuthStep, ProviderStep
<1>3. CASE \E s \in Slot : WriteStep(s)  BY <1>3, WriteInv
<1>4. CASE UNCHANGED vars \/ \E i \in Tier, t \in Tile : Evict(i, t)  BY <1>4, EvictInv
<1>5. CASE Expire  BY <1>5, ExpireInv
<1>6. QED  BY <1>1, <1>2, <1>3, <1>4, <1>5 DEF Next

(* The invariant of the shared provider context and of the write slots      *)
(* holds whatever requests, failures, expirations and panics come.          *)
THEOREM Invariance == Spec => []LayerRenderInv
<1>1. Init => LayerRenderInv  BY InitInv
<1>2. LayerRenderInv /\ [Next]_vars => LayerRenderInv'  BY NextInv
<1>3. QED  BY <1>1, <1>2, PTL DEF Spec

(* Every variable keeps its type; in particular the cache write limiter     *)
(* never holds more than its capacity, nor less than nothing.               *)
THEOREM TypeCorrect == Spec => []TypeOK
<1>1. LayerRenderInv => TypeOK  BY DEF LayerRenderInv
<1>2. QED  BY <1>1, Invariance, PTL

(* RenderTileNoCache's second attempt goes out with a credential newer than *)
(* the one that was rejected, for any number of concurrent requests.        *)
THEOREM RetriesWithNewer == Spec => []RetryIsNewer
<1>1. LayerRenderInv => RetryIsNewer  BY DEF LayerRenderInv
<1>2. QED  BY <1>1, Invariance, PTL

(* RenderTile's deferred receive gives every slot back: the limiter counts  *)
(* exactly the background writes under way.                                 *)
THEOREM SlotsGivenBack == Spec => []SlotsAreWrites
<1>1. LayerRenderInv => SlotsAreWrites  BY DEF LayerRenderInv
<1>2. QED  BY <1>1, Invariance, PTL

(* getProviderContext never puts back a credential that was replaced.       *)
THEOREM CredentialsMoveOn == Spec => ContextMovesOn
<1>1. ASSUME LayerRenderInv, [Next]_vars
      PROVE  [token' >= token \/ token' = 0]_vars
  <2>1. token \in Nat  BY <1>1 DEF LayerRenderInv, TypeOK
  <2>2. token' = token \/ token' = 0 \/ \E r \in Req : AuthSucceeds(r)
    <3>1. CASE UNCHANGED vars  BY <3>1 DEF vars, authVars
    <3>2. CASE Expire \/ \E r \in Req, t \in Tile : Start(r, t)
      BY <3>2 DEF Expire, Start, authVars
    <3>3. CASE \E r \in Req : RenderStep(r)
      BY <3>3 DEF RenderStep, AuthStep, ProviderStep, Lookup, UseContext, BeginAuth,
                  CallPreAuth, AuthFails, ForceReauth, Rendered, Save, authVars
    <3>4. CASE \/ \E s \in Slot : WriteStep(s)
               \/ \E i \in Tier, t \in Tile : Evict(i, t)
      BY <3>4 DEF WriteStep, WriteTier, WritePanics, Evict, authVars
    <3>5. QED  BY <1>1, <3>1, <3>2, <3>3, <3>4 DEF Next
  <2>3. ASSUME NEW r \in Req, AuthSucceeds(r) PROVE token' >= token
    BY <1>1, <2>3 DEF LayerRenderInv, TypeOK, AuthSucceeds, PreAuthIsNewer
  <2>4. QED  BY <2>1, <2>2, <2>3
<1>2. QED  BY <1>1, Invariance, PTL DEF Spec, ContextMovesOn
=============================================================================
