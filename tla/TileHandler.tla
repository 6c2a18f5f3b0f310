------------------------------ MODULE TileHandler -------------------------------
(***************************************************************************)
(* A tile request from its arrival to its response and its usage event:    *)
(* tileHandler.ServeHTTP (internal/server/tile_handler.go) over            *)
(* Authentication, the layers' permission check and rendering              *)
(* (pkg/entities/layer/layergroup.go), and the answer an error leads to    *)
(* (internal/server/error.go, pkg/errors.go).  LayerRender and FanOut say  *)
(* how a tile is made; here it is made or fails in one of the ways that    *)
(* the answer tells apart.                                                 *)
(***************************************************************************)
EXTENDS Authentication

CONSTANTS
  Offer,          \* what requests carry: functions from places to tokens
  Tile,           \* tile coordinates inside the projection
  Ask,            \* pairs of a layer and a tile that requests ask for
  SkipCache,      \* layers with SkipCache
  SkipAnalytics,  \* layers with SkipAnalytics, all of them without an analytics module
  AlwaysOK        \* ErrorConfig.AlwaysOK

ASSUME TileHandlerAssumption ==
  /\ None \notin Ask
  /\ \A offer \in Offer : \A p \in DOMAIN offer : offer[p] \in Token

VARIABLES
  ask,     \* [Req -> the layer and tile asked for]
  answer,  \* [Req -> its response or None]
  event    \* [Req -> the usage event recorded for it or None]

handlerVars == <<ask, answer, event>>
vars == <<authVars, handlerVars>>

(* Where no handler runs for a request.  One answered without a look at the *)
(* token rests apart.                                                       *)
Resting == {"idle", "open", "done", "aborted"}
NoAsk == [layer |-> None, tile |-> None]

Init ==
  /\ InitAuth
  /\ ask    = [r \in Req |-> NoAsk]
  /\ answer = [r \in Req |-> None]
  /\ event  = [r \in Req |-> None]

-----------------------------------------------------------------------------
(* Answers.                                                                 *)

(* The kinds of errors, and the type each reports. *)
TypeOf(error) ==
  CASE error = "unauthorized" -> "auth"
    [] error = "range" -> "bounds"
    [] error \in {"invalid argument", "too many tiles"} -> "bad request"
    [] error \in {"provider auth", "content length", "content type", "remote server",
                  "nil image"} -> "provider"
    [] OTHER -> "other"

(* errorVars. *)
ErrorVars(type) ==
  CASE AlwaysOK -> 200
    [] type = "auth" -> 401
    [] type \in {"bounds", "bad request"} -> 400
    [] OTHER -> 500

Answer(status, noStore, served) == [status |-> status, noStore |-> noStore, served |-> served]

(* WriteHeader and the body. *)
Respond(r, status, noStore, served) ==
  answer' = [answer EXCEPT ![r] = Answer(status, noStore, served)]

(* writeError: a cancelled request gets a bare 499, anything else an error  *)
(* that no cache may keep.                                                  *)
WriteError(r, error) ==
  IF error = "cancelled" THEN Respond(r, 499, FALSE, None)
                         ELSE Respond(r, ErrorVars(TypeOf(error)), TRUE, None)

-----------------------------------------------------------------------------
(* ServeHTTP.                                                               *)

(* What a request held is gone when it has been answered, but for what the  *)
(* properties ask about it.                                                 *)
Forgotten(r) ==
  /\ token' = [token EXCEPT ![r] = None]
  /\ ctx'   = [ctx EXCEPT ![r] = Unrestricted]
  /\ ask'   = [ask EXCEPT ![r] = NoAsk]

Fail(r, error) == WriteError(r, error) /\ Goto(r, "done") /\ Forgotten(r)

(* A request comes, with a new context. *)
Arrive(r, offer) ==
  /\ pc[r] \in Resting
  /\ token'  = [token EXCEPT ![r] = ExtractToken(offer)]
  /\ ctx'    = [ctx EXCEPT ![r] = Unrestricted]
  /\ ask'    = [ask EXCEPT ![r] = NoAsk]
  /\ event'  = [event EXCEPT ![r] = None]
  /\ answer' = [answer EXCEPT ![r] = None]
  /\ Goto(r, "check")
  /\ UNCHANGED <<cfg, now, keyVars, cache, locked>>

(* OPTIONS is answered before the token is looked at, and so are the        *)
(* redirect of the default handler and the pages of the documentation       *)
(* handler, one that cannot be read among them.                             *)
AnswerOpenly(r) ==
  /\ pc[r] = "check"
  /\ \/ \E status \in {200, 204, 307} : Respond(r, status, FALSE, None)
     \/ WriteError(r, "other")
  /\ Goto(r, "open")
  /\ Forgotten(r)
  /\ UNCHANGED <<cfg, now, keyVars, cache, locked, event>>

HandlerKeeps == UNCHANGED <<cfg, now, keyVars, cache, locked>>

Refuse(r) ==
  /\ pc[r] = "rejected"
  /\ Fail(r, "unauthorized")
  /\ UNCHANGED event
  /\ HandlerKeeps

ExtractTo(r) ==
  /\ ask' \in {[ask EXCEPT ![r] = one] : one \in Ask}
  /\ Goto(r, "render")
  /\ UNCHANGED <<token, ctx>>

(* extractAndValidateRequest and GetBounds. *)
Extract(r) ==
  /\ pc[r] = "accepted"
  /\ \/ ExtractTo(r) /\ UNCHANGED answer
     \/ \E error \in {"invalid argument", "range"} : Fail(r, error)
  /\ UNCHANGED event
  /\ HandlerKeeps

(* Mutant of CheckPermission: the area is not looked at. *)
PermissionOfLayers(r) == ctx[r].limit => ask[r].layer \in ctx[r].layers

(* checkPermission of what the request's context carries. *)
CheckPermission(r) ==
  /\ ctx[r].limit => ask[r].layer \in ctx[r].layers
  /\ ctx[r].area # {} => ask[r].tile \in ctx[r].area

(* How RenderTile of a layer the request may see fails.  A ref of it may    *)
(* lead to no layer, or to one the request may not see.  A provider without *)
(* tile or error is an error of its own, that only a layer without cache    *)
(* leaves to the handler.                                                   *)
RenderErrors(l) ==
  {"unauthorized", "provider auth", "content length", "content type", "remote server", "cancelled", "other",
   IF l \in SkipCache THEN "nil image" ELSE "other"}

(* writeTile answers 304 when the client's ETag matches.  A failure to send *)
(* the body is only logged.                                                 *)
WriteTile(r) == \E status \in {200, 304} : Respond(r, status, FALSE, ask[r])

(* LayerGroup.RenderTile of a layer that exists and that the request may    *)
(* see, and the response.                                                   *)
Render(r) ==
  /\ pc[r] = "render"
  /\ IF ask[r].layer \notin Layer \/ ~CheckPermission(r)
     THEN Fail(r, "unauthorized")
     ELSE \/ WriteTile(r) /\ Goto(r, "record") /\ UNCHANGED <<token, ctx, ask>>
          \/ \E error \in RenderErrors(ask[r].layer) : Fail(r, error)
  /\ UNCHANGED event
  /\ HandlerKeeps

(* recordAnalytics. *)
RecordAnalytics(r) ==
  /\ pc[r] = "record"
  /\ Goto(r, "done")
  /\ event' = IF ask[r].layer \notin SkipAnalytics
              THEN [event EXCEPT ![r] = [ask |-> ask[r], user |-> ctx[r].user]] ELSE event
  /\ UNCHANGED <<token, ctx, ask, answer>>
  /\ HandlerKeeps

-----------------------------------------------------------------------------
(* The handler's own steps, and the one that calls providers and caches.    *)
OwnStep(r) == Refuse(r) \/ Extract(r) \/ RecordAnalytics(r)
HandlerStep(r) == OwnStep(r) \/ Render(r)

Next ==
  \/ \E r \in Req, offer \in Offer : Arrive(r, offer)
  \/ \E r \in Req : AnswerOpenly(r) \/ HandlerStep(r)
  \/ \E r \in Req : (CheckStep(r) \/ ValidateStep(r)) /\ UNCHANGED handlerVars
  \/ Surroundings /\ UNCHANGED handlerVars

Spec == Init /\ [][Next]_vars

(* Goroutines are scheduled and the pooled locks, sync.Mutex each, are      *)
(* handed over in the end.  The fetch of a keyset has a time limit          *)
(* (jwks.go, RequestTimeout), and an event is recorded or dropped by the    *)
(* end of the request's context (Batcher, AddReturns).  Neither the         *)
(* script's validate nor a render, a call of any provider, need return.     *)
Fairness ==
  \A r \in Req : /\ WF_vars(CheckStep(r) /\ UNCHANGED handlerVars)
                 /\ SF_vars(LockKey(r) /\ UNCHANGED handlerVars)
                 /\ WF_vars(OwnStep(r))

LiveSpec == Spec /\ Fairness

-----------------------------------------------------------------------------
(* Properties.                                                              *)

Accepted == {"accepted", "render", "record"}

(* A request that passed carries all the restrictions of its own token and  *)
(* nothing of another, whether it was validated or replayed from the cache, *)
(* whoever put it there (jwt.go, apply: "so a cache hit behaves identically *)
(* to a cache miss").                                                       *)
GrantIsTheTokens ==
  \A r \in Req : pc[r] \in Accepted =>
    ctx[r] = IF cfg.kind \in {"jwt", "custom"} THEN GrantOf(cfg, token[r]) ELSE Unrestricted

(* No request passes on a token that has expired by its own claim, or by    *)
(* the script's last word on it, however long the result was remembered     *)
(* (jwt.go, CheckAuthentication; custom.go, isGood).                        *)
NoExpiredPass ==
  [][\A r \in Req : pc[r] # "accepted" /\ pc'[r] = "accepted" =>
       /\ cfg.kind = "jwt" => now <= token[r].exp
       /\ cfg.kind = "custom" /\ cfg.cached => now <= cache'[token[r]].exp]_vars

(* A tile is served, and counted as usage of its user, only on a layer and  *)
(* in an area that the token allows (layergroup.go, checkPermission), and   *)
(* past the look at the token whatever is not a tile is marked against      *)
(* caching, its status 200 or not, but for a cancelled request's bare 499   *)
(* (error.go, writeErrorMessage).                                           *)
ServedIsAllowed ==
  \A r \in Req :
    /\ answer[r] # None /\ answer[r].served # None =>
         LET t == token[r] served == answer[r].served IN
         /\ cfg.kind = "jwt" /\ cfg.layerScope => served.layer \in t.scope
         /\ cfg.kind = "custom" /\ t.scope # None /\ t.scope \cap Layer # {} =>
              served.layer \in t.scope
         /\ cfg.kind = "jwt" /\ t.hash # None => served.tile \in t.hash
         /\ answer[r].status \in {200, 304}
    /\ pc[r] = "done" /\ answer[r].served = None =>
         answer[r].noStore \/ answer[r].status = 499
    /\ event[r] # None =>
         /\ answer[r].served = event[r].ask
         /\ cfg.kind \in {"jwt", "custom"} => event[r].user = token[r].user

(* Two requests never have the script validate one token at once while the  *)
(* cache is in use (custom.go: "to avoid multiple calls to the validation   *)
(* func for the same token at once").                                       *)
OneValidation ==
  cfg.cached => \A r, o \in Req :
    r # o /\ pc[r] = "validate" /\ pc[o] = "validate" => token[r] # token[o]

(* The script answers, though it may panic, every time it is called. *)
ScriptReturns == \A r \in Req : []<>(pc[r] # "validate")

(* No render hangs; FanOut shows one that does. *)
RendersReturn == \A r \in Req : []<>(pc[r] # "render")

(* Every request is answered while the script's calls and the renders end,  *)
(* past panics of the script under a lock that other tokens share           *)
(* (custom.go, the deferred UnlockKey).                                     *)
EveryoneAnswered ==
  ScriptReturns /\ RendersReturn => \A r \in Req : pc[r] = "check" ~> pc[r] \in Resting
=============================================================================
