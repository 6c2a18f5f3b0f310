-------------------------------- MODULE FanOut ---------------------------------
(***************************************************************************)
(* A layer whose provider nests other providers (internal/providers):      *)
(* blend and composite_mvt call their children on one goroutine each and   *)
(* collect what they sent; fallback and crop call a primary and a          *)
(* secondary one in turn; effect and transform ("filter") work on one      *)
(* child.  Modelled from construction over concurrent requests to Close,   *)
(* with the layer's shared ProviderContext and its authMutex               *)
(* (pkg/entities/layer/layer.go); LayerRender has the second attempt after *)
(* a rejected credential and the cache.                                    *)
(*                                                                         *)
(* The channels hold as many messages as there are children, so a child    *)
(* never waits: it calls its provider and sends in one step.  Pixels are   *)
(* left out: an image is the children it is made of, in order, or, for a   *)
(* static child, the one image that child returns every time.              *)
(***************************************************************************)
EXTENDS Upstream, Sequences, SequencesExt, FiniteSets

CONSTANTS
  Req,       \* request goroutines
  Width,     \* number of children
  Kinds,     \* kinds of the nesting provider
  Leaves,    \* kinds of its children: "static", "remote", "custom"
  Modes,     \* fallback's Cache setting
  MaxClock,  \* the clock stops there (a bound)
  None       \* nobody

Child == 1 .. Width
Parallel == {"blend", "composite"}

ASSUME FanOutAssumption ==
  /\ None \notin Req \cup {"image", "skip", "both", "error", "nothing", "panic", "context"}
  /\ Width \in Nat \ {0, 1}
  /\ MaxClock \in Nat \ {0}
  /\ Kinds \subseteq Parallel \cup {"fallback", "crop", "filter"}
  /\ Leaves \subseteq {"static", "remote", "custom"}
  /\ Modes \subseteq {"always", "unless-error", "unless-fallback"}

VARIABLES
  kind, leaf, mode,  \* the configuration
  phase,    \* "built" from construction to Close
  open,     \* children with a Close that was not called
  clock,    \* time.Now, from 1: a zero expiration is past
  context,  \* Layer.providerContext, with what each child gets of it
  mutex,    \* holder of authMutex
  marked,   \* static children whose image has ForceSkipCache
  pc,       \* [Req -> place]
  sent,     \* [Req -> [Child -> what it returned to this request, None before]]
  order,    \* [Req -> children in the order of their sends]
  partial,  \* [Req -> contexts of blend's children in the order of their sends]
  result,   \* [Req -> the image it got]
  cached    \* [Req -> its tile was given to the cache]

config == <<kind, leaf, mode>>
auth   == <<clock, context, mutex>>
calls  == <<sent, order, partial, result>>
vars   == <<config, phase, open, auth, marked, pc, calls, cached>>

(* What a child made of its own credential: of is the child. *)
NoContext == [of |-> 0, bypass |-> FALSE, exp |-> 0]
Nothing   == [parts |-> <<>>, skip |-> FALSE, shared |-> 0]
Unsent    == [c \in Child |-> None]
Resting   == {"idle", "ok", "failed"}

HasImage(outcome) == outcome \in {"image", "skip", "both"}
IsError(outcome)  == outcome \in {"error", "both"}

(* What PreAuth of a child may return: only a script's context expires. *)
Contexts(c) ==
  IF BypassesAuth(leaf[c])
  THEN {[of |-> c, bypass |-> TRUE, exp |-> 0]}
  ELSE {[of |-> c, bypass |-> FALSE, exp |-> e] : e \in {0, clock + 1}}

Init ==
  /\ kind \in Kinds
  /\ leaf \in [Child -> Leaves]
  /\ mode \in Modes
  /\ kind # "fallback" => mode = "always"
  /\ kind = "filter" => \A c \in Child : leaf[c] = leaf[1]
  /\ phase   = "new"
  /\ open    = {}
  /\ clock   = 1
  /\ context = [bypass |-> FALSE, exp |-> 0, to |-> [c \in Child |-> NoContext]]
  /\ mutex   = None
  /\ marked  = {}
  /\ pc      = [r \in Req |-> "idle"]
  /\ sent    = [r \in Req |-> Unsent]
  /\ order   = [r \in Req |-> <<>>]
  /\ partial = [r \in Req |-> <<>>]
  /\ result  = [r \in Req |-> Nothing]
  /\ cached  = [r \in Req |-> FALSE]

Goto(r, place) == pc' = [pc EXCEPT ![r] = place]

(* An error, and a panic that ends the request, leaves nothing. *)
Fail(r) ==
  /\ Goto(r, "failed")
  /\ sent'   = [sent EXCEPT ![r] = Unsent]
  /\ order'  = [order EXCEPT ![r] = <<>>]
  /\ result' = [result EXCEPT ![r] = Nothing]

-----------------------------------------------------------------------------
(* Initialize and Close.                                                    *)

Closers == {c \in Child : leaf[c] = "custom" /\ (kind = "filter" => c = 1)}

(* The children are constructed in order.  Blend and composite go on past   *)
(* one that fails, the others stop; either way nothing is returned.         *)
Initialize ==
  /\ phase = "new"
  /\ \E bad \in SUBSET {c \in Child : Faults[leaf[c]] # {}} :
       /\ phase' = IF bad = {} THEN "built" ELSE "refused"
       /\ open'  = IF bad = {} \/ kind \in Parallel
                   THEN Closers \ bad
                   ELSE {c \in Closers : \A b \in bad : c < b}
  /\ UNCHANGED <<config, auth, marked, pc, calls, cached>>

(* LayerGroup.Close, once no request is left: blend, composite and fallback *)
(* pass it on to their children, and go on past an error; crop, effect and  *)
(* transform have no Close to pass it on.                                   *)
Close ==
  /\ phase = "built"
  /\ \A r \in Req : pc[r] \in Resting
  /\ phase' = "closed"
  /\ open'  = IF kind \in Parallel \cup {"fallback"} THEN {} ELSE open
  /\ UNCHANGED <<config, auth, marked, pc, calls, cached>>

-----------------------------------------------------------------------------
(* Layer.getProviderContext and the PreAuth of the nesting provider.        *)

Begin(r) ==
  /\ phase = "built"
  /\ pc[r] \in Resting
  /\ Goto(r, "auth")
  /\ sent'    = [sent EXCEPT ![r] = Unsent]
  /\ order'   = [order EXCEPT ![r] = <<>>]
  /\ partial' = [partial EXCEPT ![r] = <<>>]
  /\ result'  = [result EXCEPT ![r] = Nothing]
  /\ cached'  = [cached EXCEPT ![r] = FALSE]
  /\ UNCHANGED <<config, phase, open, auth, marked>>

Generating == IF kind \in Parallel THEN "parallel" ELSE "first"

UseContext(r) ==
  /\ pc[r] = "auth" /\ mutex = None
  /\ context.bypass \/ context.exp >= clock
  /\ Goto(r, Generating)
  /\ UNCHANGED <<config, phase, open, auth, marked, calls, cached>>

StartPreAuth(r) ==
  /\ pc[r] = "auth" /\ mutex = None
  /\ ~context.bypass /\ context.exp < clock
  /\ mutex' = r
  /\ Goto(r, IF kind = "blend" THEN "preauth" ELSE "delegate")
  /\ UNCHANGED <<config, phase, open, clock, context, marked, calls, cached>>

(* PreAuth of composite returns the context as it is, of the others that of *)
(* the primary, with which the secondary is called too.  A script may fail. *)
Delegate(r) ==
  /\ pc[r] = "delegate"
  /\ mutex' = None
  /\ IF kind = "composite" THEN Goto(r, Generating) /\ UNCHANGED context
     ELSE \/ \E own \in Contexts(1) :
               /\ context' = [bypass |-> own.bypass, exp |-> own.exp, to |-> [c \in Child |-> own]]
               /\ Goto(r, Generating)
          \/ AuthMayFail(leaf[1]) /\ Goto(r, "failed") /\ UNCHANGED context
  /\ UNCHANGED <<config, phase, open, clock, marked, calls, cached>>

(* A child of blend returns from PreAuth and sends its context, with an     *)
(* error or without; or it panics, and sends an error only.                 *)
ChildAuth(r, c) ==
  /\ pc[r] = "preauth" /\ sent[r][c] = None
  /\ \/ \E own \in Contexts(c), outcome \in {"context"} \cup IF AuthMayFail(leaf[c]) THEN {"error"} ELSE {} :
          /\ partial' = [partial EXCEPT ![r] = Append(@, IF outcome = "error" THEN NoContext ELSE own)]
          /\ sent'    = [sent EXCEPT ![r][c] = outcome]
     \/ /\ leaf[c] = "custom"
        /\ sent' = [sent EXCEPT ![r][c] = "panic"]
        /\ UNCHANGED partial
  /\ UNCHANGED <<config, phase, open, auth, marked, pc, order, result, cached>>

AllSent(r) == \A c \in Child : sent[r][c] # None

(* Mutant of Earliest: the one collected last decides. *)
Latest(contexts) == Last(contexts).exp

(* The earliest expiration of those blend collects, at most an hour ahead:  *)
(* later than any the scripts ask for.                                      *)
Earliest(contexts) == Min({clock + 1} \cup {own.exp : own \in Range(contexts)})

(* Blend's collector stores the contexts under the numbers of its own loop, *)
(* not under the child's each of them carries.  It waits for one from every *)
(* child: after a panic it waits for ever, with the lock held.              *)
CollectAuth(r) ==
  /\ pc[r] = "preauth" /\ AllSent(r)
  /\ Len(partial[r]) = Width
  /\ context' = [bypass |-> \A c \in Child : partial[r][c].bypass,
                 exp    |-> Earliest(partial[r]),
                 to     |-> [c \in Child |-> partial[r][c]]]
  /\ mutex' = None
  /\ Goto(r, IF \E c \in Child : sent[r][c] = "error" THEN "failed" ELSE Generating)
  /\ sent'    = [sent EXCEPT ![r] = Unsent]
  /\ partial' = [partial EXCEPT ![r] = <<>>]
  /\ UNCHANGED <<config, phase, open, clock, marked, order, result, cached>>

Tick ==
  /\ clock < MaxClock
  /\ clock' = clock + 1
  /\ UNCHANGED <<config, phase, open, context, mutex, marked, pc, calls, cached>>

-----------------------------------------------------------------------------
(* GenerateTile of blend and composite.                                     *)

(* Mutant of ChildRenders: the last child is not called. *)
LastSendsNothing(r, c) ==
  /\ pc[r] = "parallel" /\ sent[r][c] = None
  /\ c # Width
  /\ \E outcome \in Outcomes[leaf[c]] :
       /\ sent'  = [sent EXCEPT ![r][c] = outcome]
       /\ order' = [order EXCEPT ![r] = IF HasImage(outcome) THEN Append(@, c) ELSE @]
  /\ UNCHANGED <<config, phase, open, auth, marked, pc, partial, result, cached>>

(* A child returns, or panics, and sends its image, if any, and its error.  *)
ChildRenders(r, c) ==
  /\ pc[r] = "parallel" /\ sent[r][c] = None
  /\ \E outcome \in Outcomes[leaf[c]] :
       /\ sent'  = [sent EXCEPT ![r][c] = outcome]
       /\ order' = [order EXCEPT ![r] = IF HasImage(outcome) THEN Append(@, c) ELSE @]
  /\ UNCHANGED <<config, phase, open, auth, marked, pc, partial, result, cached>>

(* No image and no error is an error too. *)
AllGood(r) == \A c \in Child : sent[r][c] \in {"image", "skip"}

(* Mutant of Arranged: blend takes them as they come. *)
AsTheyCome(r) == order[r]

(* Blend puts an image in the slot of its child, a slot stays 0 if none     *)
(* came; composite appends them as they come.                               *)
Arranged(r) ==
  IF kind = "blend" THEN [slot \in Child |-> IF slot \in Range(order[r]) THEN slot ELSE 0]
                    ELSE order[r]

(* Mutant of Skips: the last image decides. *)
LastSkips(r) == sent[r][Last(order[r])] = "skip"

Skips(r) == \E c \in Child : sent[r][c] = "skip"

Made(r, parts, skip) ==
  /\ result' = [result EXCEPT ![r] = [parts |-> parts, skip |-> skip, shared |-> 0]]
  /\ Goto(r, "save")

(* The collector receives an error from every child.  Blend then receives   *)
(* the images, if there was none; composite receives an image with every    *)
(* error, and waits for ever when a child sent none.                        *)
Collect(r) ==
  /\ pc[r] = "parallel" /\ AllSent(r)
  /\ kind = "composite" => Len(order[r]) = Width
  /\ IF AllGood(r) THEN Made(r, Arranged(r), Skips(r)) /\ UNCHANGED <<sent, order>>
                   ELSE Fail(r)
  /\ UNCHANGED <<config, phase, open, auth, marked, partial, cached>>

-----------------------------------------------------------------------------
(* GenerateTile of fallback, crop, effect and transform.                    *)

(* The image of one child: the static child's own, or a new one. *)
ImageOf(c, outcome) ==
  [parts |-> <<c>>, skip |-> outcome = "skip", shared |-> IF leaf[c] = "static" THEN c ELSE 0]

(* ForceSkipCache of an image as it is now. *)
SkipNow(image) == IF image.shared # 0 THEN image.shared \in marked ELSE image.skip

(* The primary is called unless the tile is outside the zoom range or the   *)
(* bounds.  An error of it leads fallback to the secondary and ends crop,   *)
(* effect and transform.  Crop needs the secondary too, unless it has no    *)
(* bounds; what effect and transform got may fail to decode.                *)
First(r) ==
  /\ pc[r] = "first"
  /\ \/ \E outcome \in Outcomes[leaf[1]] :
          LET good    == outcome \in {"image", "skip"}
              replace == kind = "fallback" /\ IsError(outcome)
              image   == ImageOf(1, outcome)
          IN
          \/ /\ replace \/ (kind = "crop" /\ good)
             /\ sent' = [sent EXCEPT ![r][1] = outcome]
             /\ result' = [result EXCEPT ![r] = IF good THEN image ELSE Nothing]
             /\ Goto(r, "second")
             /\ UNCHANGED order
          \/ /\ good
             /\ sent' = [sent EXCEPT ![r][1] = outcome]
             /\ result' = [result EXCEPT ![r] =
                  IF kind = "filter" THEN [image EXCEPT !.shared = 0, !.skip = SkipNow(image)]
                                     ELSE image]
             /\ Goto(r, "save")
             /\ UNCHANGED order
          \/ (kind = "filter" \/ ~good) /\ ~replace /\ Fail(r)
     \/ kind # "filter" /\ Goto(r, "second") /\ UNCHANGED <<sent, order, result>>
  /\ UNCHANGED <<config, phase, open, auth, marked, partial, cached>>

(* Mutant of SkipCacheSave: a fallback for an error counts like one for the *)
(* bounds.                                                                  *)
SkipForBounds(r) == mode = "unless-fallback"

(* skipCacheSave of fallback. *)
SkipCacheSave(r) ==
  \/ mode # "always" /\ sent[r][1] # None
  \/ mode = "unless-fallback"

(* The secondary.  Fallback marks the image it got, be it the one a static  *)
(* child returns to everybody; without an image the mark panics.  Crop's    *)
(* two images may fail to decode.                                           *)
Second(r) ==
  /\ pc[r] = "second"
  /\ \E outcome \in Outcomes[leaf[2]] :
       LET good  == outcome \in {"image", "skip"}
           both  == kind = "crop" /\ sent[r][1] # None
           mark  == kind = "fallback" /\ SkipCacheSave(r) /\ HasImage(outcome)
           image == [ImageOf(2, outcome) EXCEPT !.skip = @ \/ mark]
       IN
       /\ marked' = IF mark /\ image.shared # 0 THEN marked \cup {2} ELSE marked
       /\ \/ (~good \/ both) /\ Fail(r)
          \/ /\ good
             /\ sent' = [sent EXCEPT ![r][2] = outcome]
             /\ IF both THEN Made(r, <<1, 2>>, SkipNow(result[r]))
                ELSE result' = [result EXCEPT ![r] = image] /\ Goto(r, "save")
             /\ UNCHANGED order
  /\ UNCHANGED <<config, phase, open, auth, partial, cached>>

(* LayerGroup.RenderTile looks at ForceSkipCache of what came back.         *)
Save(r) ==
  /\ pc[r] = "save"
  /\ cached' = [cached EXCEPT ![r] = ~SkipNow(result[r])]
  /\ Goto(r, "ok")
  /\ order' = [order EXCEPT ![r] = <<>>]
  /\ UNCHANGED <<config, phase, open, auth, marked, sent, partial, result>>

Proceed(r) ==
  \/ UseContext(r) \/ StartPreAuth(r) \/ Delegate(r) \/ CollectAuth(r)
  \/ \E c \in Child : ChildAuth(r, c) \/ ChildRenders(r, c)
  \/ Collect(r) \/ First(r) \/ Second(r) \/ Save(r)

Next ==
  \/ Initialize \/ Close \/ Tick
  \/ \E r \in Req : Begin(r) \/ Proceed(r)

Spec == Init /\ [][Next]_vars

(* A goroutine that can go on does, and a provider's call returns. *)
LiveSpec == Spec /\ \A r \in Req : SF_vars(Proceed(r))

-----------------------------------------------------------------------------
(* Properties.                                                              *)

(* A tile made of several children is made of every one of them, each of    *)
(* which returned an image and no error, once, and blend's in the order of  *)
(* the configuration, in whatever order they came (blend.go:223-238,        *)
(* composite_mvt.go:107-126).                                               *)
WholeTile ==
  \A r \in Req : kind \in Parallel /\ pc[r] \in {"save", "ok"} =>
    LET parts == result[r].parts IN
    /\ Len(parts) = Width
    /\ Range(parts) = Child
    /\ \A c \in Child : sent[r][c] \in {"image", "skip"}
    /\ kind = "blend" => \A c \in Child : parts[c] = c

(* An image a child asked not to cache is not cached within another one     *)
(* either, but for what crop shows outside its bounds (blend.go:362,        *)
(* composite_mvt.go:123, crop.go:172).                                      *)
SkipIsKept ==
  \A r \in Req : cached[r] =>
    \A c \in Child : sent[r][c] = "skip" => kind = "crop" /\ c = 2 /\ sent[r][1] # None

(* Under unless-error, and under unless-fallback, no tile that stands in    *)
(* for an error of the primary is cached (fallback.go:141-156), even when   *)
(* another request marks or reads the same image.                           *)
ErrorsAreNotCached ==
  \A r \in Req : cached[r] /\ kind = "fallback" /\ sent[r][1] # None /\ IsError(sent[r][1])
                => mode = "always"

(* A request goes ahead on the context an earlier one left in the layer     *)
(* only while no child's share of it has expired, whichever child's expires *)
(* first and in whatever order they were collected (blend.go:183-203,       *)
(* layer.go:270).  It says nothing of a context straight from PreAuth,      *)
(* which is used even if it has expired by then, of whose share a child     *)
(* gets, or of composite, whose children get an empty context every time.   *)
ReusedIsFresh ==
  [][\A r \in Req : pc[r] = "auth" /\ pc'[r] = Generating =>
       \A c \in Child : context.to[c].bypass \/ context.to[c].exp >= clock]_vars

(* The collector waits for a message nobody is left to send. *)
Stranded(r) ==
  /\ AllSent(r)
  /\ \/ pc[r] = "preauth" /\ Len(partial[r]) < Width
     \/ pc[r] = "parallel" /\ kind = "composite" /\ Len(order[r]) < Width

(* As long as no collector is stranded, every request returns, also one     *)
(* that waits for authMutex while children are asked for their contexts     *)
(* (layer.go:264-276).                                                      *)
ReturnsUnlessStranded ==
  \A r \in Req : pc[r] \notin Resting ~> (pc[r] \in Resting \/ \E q \in Req : Stranded(q))

(* Every request returns: "once in-flight requests using them have had time *)
(* to complete" (docs reloading.adoc:11).  Not so after a child of          *)
(* composite_mvt failed (composite_mvt.go:111).                             *)
RequestsReturn == \A r \in Req : pc[r] \notin Resting ~> pc[r] \in Resting
=============================================================================
