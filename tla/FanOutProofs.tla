------------------------------ MODULE FanOutProofs ------------------------------
(***************************************************************************)
(* Proofs about providers that nest others: for any number of requests and *)
(* of children of any kind, a blended or composed tile is whole, what a    *)
(* child asked not to cache is not cached, and a layer's context is reused *)
(* only while no child's has expired.                                      *)
(***************************************************************************)
EXTENDS FanOut, WellFoundedInduction, TLAPS

-----------------------------------------------------------------------------
(* The inductive invariant.                                                 *)

Answer == {"image", "skip", "both", "error", "nothing", "panic"}
Ticket == [of : Nat, bypass : BOOLEAN, exp : Nat]

FanDomains ==
  /\ kind \in Kinds /\ leaf \in [Child -> Leaves] /\ mode \in Modes
  /\ clock \in Nat
  /\ DOMAIN pc = Req /\ DOMAIN order = Req /\ DOMAIN result = Req /\ DOMAIN cached = Req
  /\ DOMAIN sent = Req /\ \A r \in Req : DOMAIN sent[r] = Child
  /\ DOMAIN partial = Req /\ \A r \in Req : partial[r] \in Seq(Ticket)

(* A child asks not to be cached, but for crop outside its bounds; and a    *)
(* tile that stands in for an error where that is not to be cached.         *)
SkipWanted(r) ==
  \E c \in Child : sent[r][c] = "skip" /\ ~(kind = "crop" /\ c = 2 /\ sent[r][1] # None)

StandsIn(r) ==
  kind = "fallback" /\ mode # "always" /\ sent[r][1] # None /\ IsError(sent[r][1])

(* A request enters a place with the messages of the place before cleared.  *)
OnItsWay(r) ==
  /\ pc[r] = "preauth" => kind = "blend"
  /\ pc[r] = "parallel" => kind \in Parallel
  /\ pc[r] \in {"first", "second"} => kind \notin Parallel
  /\ pc[r] \in {"auth", "delegate", "first"} => sent[r] = Unsent
  /\ pc[r] = "second" => \A c \in Child \ {1} : sent[r][c] = None
  /\ pc[r] \in {"auth", "delegate", "preauth"} => order[r] = <<>>

(* The images that came are those of the children that sent one.            *)
Arrived(r) ==
  pc[r] = "parallel" =>
    /\ order[r] \in Seq(Child)
    /\ \A c \in Child : c \in Range(order[r]) <=> sent[r][c] \in {"image", "skip", "both"}

(* From the child to the cache, a wish not to cache is in the image.        *)
WishesKept(r) ==
  /\ pc[r] = "second" =>
       /\ sent[r][1] = "skip" => kind = "crop" /\ SkipNow(result[r])
       /\ kind = "fallback" => sent[r][1] \in {None, "error", "both"}
  /\ pc[r] = "save" /\ (SkipWanted(r) \/ StandsIn(r)) => SkipNow(result[r])
  /\ cached[r] => pc[r] = "ok" /\ ~SkipWanted(r) /\ ~StandsIn(r)

Whole(r) ==
  kind \in Parallel /\ pc[r] \in {"save", "ok"} =>
    LET parts == result[r].parts IN
    /\ Len(parts) = Width
    /\ Range(parts) = Child
    /\ \A c \in Child : sent[r][c] \in {"image", "skip"}
    /\ kind = "blend" => \A c \in Child : parts[c] = c

RequestOK(r) == OnItsWay(r) /\ Arrived(r) /\ WishesKept(r) /\ Whole(r)

(* The layer's context ends no later than any child's in it.                *)
ContextsAgree ==
  /\ context.exp \in Nat /\ context.bypass \in BOOLEAN
  /\ \A c \in Child : context.to[c] \in Ticket
  /\ \A c \in Child : (context.bypass => context.to[c].bypass) /\ context.exp <= context.to[c].exp

FanInv ==
  /\ FanDomains
  /\ \A r \in Req : RequestOK(r)
  /\ ContextsAgree

-----------------------------------------------------------------------------
(* Children, their answers and contexts.                                    *)

LEMMA Children ==
  /\ 1 \in Child /\ 2 \in Child /\ Width \in Nat
  /\ \A c \in Child : c \in Nat
BY FanOutAssumption DEF Child

LEMMA AnswersAre ==
  ASSUME FanInv, NEW c \in Child
  PROVE  /\ Outcomes[leaf[c]] \subseteq Answer
         /\ leaf[c] = "static" => Outcomes[leaf[c]] = {"image"}
<1>1. leaf[c] \in {"static", "remote", "custom"}
  BY FanOutAssumption DEF FanInv, FanDomains
<1>2. \A client \in Clients : ProxyTile(client) \subseteq {"image", "error"}
  BY DEF ProxyTile, GetTile
<1>3. \A b \in BOOLEAN : CGITile(b) \subseteq {"image", "error"}
  BY DEF CGITile
<1>4. PostgisTile \subseteq {"image", "error", "both"}
  BY DEF PostgisTile
<1>5. Outcomes["remote"] \subseteq Answer
  <2>1. Outcomes["remote"] =
          UNION ({ProxyTile(client) : client \in Clients} \cup {CGITile(b) : b \in BOOLEAN} \cup {PostgisTile})
    BY DEF Outcomes
  <2>2. QED  BY <1>2, <1>3, <1>4, <2>1 DEF Answer
<1>6. Outcomes["custom"] = Answer  BY DEF Outcomes, CustomTile, Answer
<1>7. Outcomes["static"] = {"image"}  BY DEF Outcomes, StaticTile
<1>8. QED  BY <1>1, <1>5, <1>6, <1>7 DEF Answer

LEMMA NoneIsNoAnswer == None \notin Answer \cup Req \cup {"context"}
BY FanOutAssumption DEF Answer

LEMMA ContextsAre ==
  ASSUME FanInv, NEW c \in Child PROVE Contexts(c) \subseteq Ticket
<1>1. c \in Nat /\ clock \in Nat  BY Children DEF FanInv, FanDomains
<1>2. ASSUME NEW own \in Contexts(c) PROVE own \in Ticket
  <2>1. \/ own = [of |-> c, bypass |-> TRUE, exp |-> 0]
        \/ own = [of |-> c, bypass |-> FALSE, exp |-> 0]
        \/ own = [of |-> c, bypass |-> FALSE, exp |-> clock + 1]
    BY <1>2 DEF Contexts
  <2>2. 0 \in Nat /\ clock + 1 \in Nat  BY <1>1
  <2>3. CASE own = [of |-> c, bypass |-> TRUE, exp |-> 0]
    BY <1>1, <2>2, <2>3 DEF Ticket
  <2>4. ASSUME NEW e \in Nat, own = [of |-> c, bypass |-> FALSE, exp |-> e] PROVE own \in Ticket
    BY <1>1, <2>4 DEF Ticket
  <2>5. QED  BY <2>1, <2>2, <2>3, <2>4
<1>3. QED  BY <1>2

(* The earliest of a set of times is one of it and not later than any.      *)
LEMMA MinOfTimes ==
  ASSUME NEW S, S \subseteq Nat, S # {}
  PROVE  Min(S) \in S /\ \A n \in S : Min(S) <= n
<1>1. PICK x \in S : \A y \in S : ~(<<y, x>> \in OpToRel(<, Nat))
  BY NatLessThanWellFounded, WFMin
<1>2. \A y \in S : <<y, x>> \in OpToRel(<, Nat) <=> y < x
  BY DEF OpToRel
<1>3. ASSUME NEW y \in S PROVE x <= y
  <2>1. x \in Nat /\ y \in Nat /\ ~(y < x)  BY <1>1, <1>2
  <2>2. QED  BY <2>1
<1>4. QED  BY <1>3 DEF Min

-----------------------------------------------------------------------------
(* What one request does leaves the others' in order: an image that must    *)
(* not be cached stays so, because marks are never taken back.              *)

Keeps(r) ==
  /\ UNCHANGED config
  /\ marked \subseteq marked'
  /\ \A q \in Req \ {r} : /\ pc'[q] = pc[q] /\ sent'[q] = sent[q] /\ order'[q] = order[q]
                          /\ result'[q] = result[q] /\ cached'[q] = cached[q]

LEMMA OthersKeep ==
  ASSUME FanInv, NEW r \in Req, Keeps(r), FanDomains', ContextsAgree', RequestOK(r)'
  PROVE  FanInv'
<1>1. ASSUME NEW q \in Req \ {r} PROVE RequestOK(q)'
  <2>1. RequestOK(q)  BY DEF FanInv
  <2>2. /\ kind' = kind /\ mode' = mode
        /\ pc'[q] = pc[q] /\ sent'[q] = sent[q] /\ order'[q] = order[q]
        /\ result'[q] = result[q] /\ cached'[q] = cached[q]
    BY DEF Keeps, config
  <2>3. SkipNow(result[q]) => SkipNow(result[q])'
    BY <2>2 DEF SkipNow, Keeps
  <2>4. OnItsWay(q)' /\ Arrived(q)' /\ Whole(q)'
    BY <2>1, <2>2 DEF RequestOK, OnItsWay, Arrived, Whole
  <2>5. (SkipWanted(q)' <=> SkipWanted(q)) /\ (StandsIn(q)' <=> StandsIn(q))
    BY <2>2 DEF SkipWanted, StandsIn
  <2>6. WishesKept(q)'
    BY <2>1, <2>2, <2>3, <2>5 DEF RequestOK, WishesKept
  <2>7. QED  BY <2>4, <2>6 DEF RequestOK
<1>2. QED  BY <1>1 DEF FanInv

(* Only a request that saved its tile gave it to the cache.                 *)
LEMMA NotYetCached ==
  ASSUME FanInv, NEW r \in Req, pc[r] # "ok" PROVE ~cached[r]
BY DEF FanInv, RequestOK, WishesKept

(* A request that goes where no image is yet.                               *)
LEMMA NoImageYet ==
  ASSUME NEW r \in Req, ~cached'[r],
         pc'[r] \in {"auth", "delegate", "preauth", "parallel", "first", "failed"},
         OnItsWay(r)', Arrived(r)'
  PROVE  RequestOK(r)'
BY DEF RequestOK, WishesKept, Whole

LEMMA NothingArrived ==
  ASSUME NEW r \in Req, sent'[r] = Unsent, order'[r] = <<>>
  PROVE  Arrived(r)'
<1>1. \A c \in Child : sent'[r][c] = None  BY DEF Unsent
<1>2. \A c \in Child : c \notin Range(order'[r])  BY DEF Range
<1>3. QED  BY <1>1, <1>2, NoneIsNoAnswer DEF Arrived, Answer

LEMMA GeneratesOK ==
  ASSUME NEW r \in Req, ~cached'[r], pc'[r] = Generating, UNCHANGED kind,
         sent'[r] = Unsent, order'[r] = <<>>
  PROVE  RequestOK(r)'
<1>1. pc'[r] \in {"parallel", "first"} /\ (pc'[r] = "parallel" <=> kind' \in Parallel)
  BY DEF Generating
<1>2. OnItsWay(r)'  BY <1>1 DEF OnItsWay
<1>3. QED  BY <1>1, <1>2, NoImageYet, NothingArrived

LEMMA FailsOK ==
  ASSUME NEW r \in Req, ~cached'[r], pc'[r] = "failed"
  PROVE  RequestOK(r)'
<1>1. OnItsWay(r)' /\ Arrived(r)'  BY DEF OnItsWay, Arrived
<1>2. QED  BY <1>1, NoImageYet

-----------------------------------------------------------------------------
(* Each step keeps it.                                                      *)

LEMMA StillInv ==
  ASSUME FanInv, UNCHANGED <<config, context, marked, pc, calls, cached>>, clock' \in Nat
  PROVE  FanInv'
<1>1. /\ UNCHANGED <<kind, leaf, mode, context, marked, pc, sent, order, partial, result, cached>>
  BY DEF config, calls
<1>2. FanDomains'  BY <1>1 DEF FanInv, FanDomains
<1>3. ContextsAgree'  BY <1>1 DEF FanInv, ContextsAgree
<1>4. ASSUME NEW q \in Req PROVE RequestOK(q)'
  <2>1. RequestOK(q)  BY DEF FanInv
  <2>2. QED
    BY <1>1, <2>1 DEF RequestOK, OnItsWay, Arrived, WishesKept, Whole, SkipNow, SkipWanted, StandsIn
<1>5. QED  BY <1>2, <1>3, <1>4 DEF FanInv

LEMMA BeginInv == ASSUME FanInv, NEW r \in Req, Begin(r) PROVE FanInv'
<1>1. FanDomains  BY DEF FanInv
<1>2. /\ pc' = [pc EXCEPT ![r] = "auth"] /\ sent' = [sent EXCEPT ![r] = Unsent]
      /\ order' = [order EXCEPT ![r] = <<>>] /\ partial' = [partial EXCEPT ![r] = <<>>]
      /\ result' = [result EXCEPT ![r] = Nothing] /\ cached' = [cached EXCEPT ![r] = FALSE]
      /\ UNCHANGED <<kind, leaf, mode, clock, context, marked>>
  BY DEF Begin, Goto, config, auth
<1>3. FanDomains'
  <2>1. DOMAIN Unsent = Child /\ <<>> \in Seq(Ticket)  BY DEF Unsent
  <2>2. QED  BY <1>1, <1>2, <2>1 DEF FanDomains
<1>4. pc'[r] = "auth" /\ sent'[r] = Unsent /\ order'[r] = <<>> /\ ~cached'[r]
  BY <1>1, <1>2 DEF FanDomains
<1>5. OnItsWay(r)'  BY <1>4 DEF OnItsWay
<1>6. RequestOK(r)'  BY <1>4, <1>5, NothingArrived, NoImageYet
<1>7. Keeps(r)  BY <1>1, <1>2 DEF Keeps, FanDomains, config
<1>8. ContextsAgree'  BY <1>2 DEF FanInv, ContextsAgree
<1>9. QED  BY <1>3, <1>6, <1>7, <1>8, OthersKeep

LEMMA UseContextInv == ASSUME FanInv, NEW r \in Req, UseContext(r) PROVE FanInv'
<1>1. FanDomains /\ OnItsWay(r)  BY DEF FanInv, RequestOK
<1>2. /\ pc' = [pc EXCEPT ![r] = Generating] /\ pc[r] = "auth"
      /\ UNCHANGED <<kind, leaf, mode, clock, context, marked, sent, order, partial, result, cached>>
  BY DEF UseContext, Goto, config, auth, calls
<1>3. FanDomains' /\ ContextsAgree' /\ Keeps(r)
  BY <1>1, <1>2 DEF FanInv, FanDomains, ContextsAgree, Keeps, config
<1>4. ~cached'[r]  BY <1>2, NotYetCached
<1>5. pc'[r] = Generating /\ sent'[r] = Unsent /\ order'[r] = <<>>
  BY <1>1, <1>2 DEF FanDomains, OnItsWay
<1>6. QED  BY <1>2, <1>3, <1>4, <1>5, GeneratesOK, OthersKeep

LEMMA StartPreAuthInv == ASSUME FanInv, NEW r \in Req, StartPreAuth(r) PROVE FanInv'
<1>1. FanDomains /\ OnItsWay(r)  BY DEF FanInv, RequestOK
<1>2. /\ pc' = [pc EXCEPT ![r] = IF kind = "blend" THEN "preauth" ELSE "delegate"] /\ pc[r] = "auth"
      /\ UNCHANGED <<kind, leaf, mode, clock, context, marked, sent, order, partial, result, cached>>
  BY DEF StartPreAuth, Goto, config, calls
<1>3. FanDomains' /\ ContextsAgree' /\ Keeps(r)
  BY <1>1, <1>2 DEF FanInv, FanDomains, ContextsAgree, Keeps, config
<1>4. ~cached'[r]  BY <1>2, NotYetCached
<1>5. pc'[r] = (IF kind = "blend" THEN "preauth" ELSE "delegate") /\ sent'[r] = Unsent /\ order'[r] = <<>>
  BY <1>1, <1>2 DEF FanDomains, OnItsWay
<1>6. OnItsWay(r)'  BY <1>2, <1>5 DEF OnItsWay
<1>7. pc'[r] \in {"preauth", "delegate"}  BY <1>5
<1>8. QED  BY <1>3, <1>4, <1>5, <1>6, <1>7, NothingArrived, NoImageYet, OthersKeep

LEMMA DelegateInv == ASSUME FanInv, NEW r \in Req, Delegate(r) PROVE FanInv'
<1>1. FanDomains /\ OnItsWay(r) /\ ContextsAgree  BY DEF FanInv, RequestOK
<1>2. /\ pc[r] = "delegate" /\ pc' \in {[pc EXCEPT ![r] = Generating], [pc EXCEPT ![r] = "failed"]}
      /\ UNCHANGED <<kind, leaf, mode, clock, marked, sent, order, partial, result, cached>>
  BY DEF Delegate, Goto, config, calls
<1>3. FanDomains' /\ Keeps(r)
  BY <1>1, <1>2 DEF FanDomains, Keeps, config
<1>4. ContextsAgree'
  <2>1. CASE UNCHANGED context  BY <1>1, <2>1 DEF ContextsAgree
  <2>2. CASE \E own \in Contexts(1) :
               context' = [bypass |-> own.bypass, exp |-> own.exp, to |-> [c \in Child |-> own]]
    <3>1. PICK own \in Contexts(1) :
            context' = [bypass |-> own.bypass, exp |-> own.exp, to |-> [c \in Child |-> own]]
      BY <2>2
    <3>2. own \in Ticket  BY ContextsAre, Children
    <3>3. own.exp \in Nat /\ own.bypass \in BOOLEAN  BY <3>2 DEF Ticket
    <3>4. QED  BY <3>1, <3>2, <3>3 DEF ContextsAgree
  <2>3. QED  BY <2>1, <2>2 DEF Delegate
<1>5. ~cached'[r]  BY <1>2, NotYetCached
<1>6. pc'[r] \in {Generating, "failed"} /\ sent'[r] = Unsent /\ order'[r] = <<>>
  BY <1>1, <1>2 DEF FanDomains, OnItsWay
<1>7. RequestOK(r)'  BY <1>2, <1>5, <1>6, GeneratesOK, FailsOK
<1>8. QED  BY <1>3, <1>4, <1>7, OthersKeep

LEMMA ChildAuthInv == ASSUME FanInv, NEW r \in Req, NEW c \in Child, ChildAuth(r, c) PROVE FanInv'
<1>1. FanDomains /\ OnItsWay(r) /\ ContextsAgree  BY DEF FanInv, RequestOK
<1>2. /\ pc[r] = "preauth" /\ UNCHANGED <<kind, leaf, mode, clock, context, marked, pc, order, result, cached>>
      /\ \E outcome : sent' = [sent EXCEPT ![r][c] = outcome]
  BY DEF ChildAuth, config, auth
<1>3. DOMAIN sent' = Req /\ (\A q \in Req : DOMAIN sent'[q] = Child)
      /\ \A q \in Req \ {r} : sent'[q] = sent[q]
  BY <1>1, <1>2 DEF FanDomains
<1>4. DOMAIN partial' = Req /\ \A q \in Req : partial'[q] \in Seq(Ticket)
  <2>1. CASE UNCHANGED partial  BY <1>1, <2>1 DEF FanDomains
  <2>2. CASE \E own \in Contexts(c), outcome \in {"context", "error"} :
               partial' = [partial EXCEPT ![r] = Append(@, IF outcome = "error" THEN NoContext ELSE own)]
    <3>1. NoContext \in Ticket  BY DEF NoContext, Ticket
    <3>2. PICK ticket \in Ticket : partial' = [partial EXCEPT ![r] = Append(@, ticket)]
      BY <2>2, <3>1, ContextsAre
    <3>3. QED  BY <1>1, <3>2 DEF FanDomains
  <2>3. QED  BY <2>1, <2>2 DEF ChildAuth
<1>5. FanDomains' /\ ContextsAgree' /\ Keeps(r)
  BY <1>1, <1>2, <1>3, <1>4 DEF FanDomains, ContextsAgree, Keeps, config
<1>6. ~cached'[r]  BY <1>2, NotYetCached
<1>7. pc'[r] = "preauth" /\ OnItsWay(r)' /\ Arrived(r)'
  BY <1>1, <1>2 DEF OnItsWay, Arrived
<1>8. QED  BY <1>5, <1>6, <1>7, NoImageYet, OthersKeep

LEMMA CollectAuthInv == ASSUME FanInv, NEW r \in Req, CollectAuth(r) PROVE FanInv'
<1>1. FanDomains /\ OnItsWay(r)  BY DEF FanInv, RequestOK
<1>2. /\ pc[r] = "preauth" /\ Len(partial[r]) = Width
      /\ pc' \in {[pc EXCEPT ![r] = Generating], [pc EXCEPT ![r] = "failed"]}
      /\ sent' = [sent EXCEPT ![r] = Unsent] /\ partial' = [partial EXCEPT ![r] = <<>>]
      /\ UNCHANGED <<kind, leaf, mode, clock, marked, order, result, cached>>
  BY DEF CollectAuth, Goto, config
<1>3. FanDomains'
  <2>1. DOMAIN Unsent = Child /\ <<>> \in Seq(Ticket)  BY DEF Unsent
  <2>2. QED  BY <1>1, <1>2, <2>1 DEF FanDomains
<1>4. Keeps(r)  BY <1>1, <1>2 DEF FanDomains, Keeps, config
<1>5. ContextsAgree'
  <2> DEFINE times == {clock + 1} \cup {own.exp : own \in Range(partial[r])}
  <2>1. partial[r] \in Seq(Ticket) /\ DOMAIN partial[r] = Child
    BY <1>1, <1>2 DEF FanDomains, Child
  <2>2. \A c \in Child : partial[r][c] \in Ticket  BY <2>1
  <2>3. \A c \in Child : partial[r][c].exp \in times  BY <2>1 DEF Range
  <2>4. times \subseteq Nat
    <3>1. \A own \in Range(partial[r]) : own.exp \in Nat  BY <2>1, <2>2 DEF Range, Ticket
    <3>2. clock + 1 \in Nat  BY <1>1 DEF FanDomains
    <3>3. QED  BY <3>1, <3>2
  <2>5. Earliest(partial[r]) \in Nat /\ \A n \in times : Earliest(partial[r]) <= n
    <3>1. times # {} /\ Earliest(partial[r]) = Min(times)  BY DEF Earliest
    <3> HIDE DEF times
    <3>2. QED  BY <2>4, <3>1, MinOfTimes
  <2> HIDE DEF times
  <2>6. /\ context'.exp = Earliest(partial[r])
        /\ context'.bypass = (\A c \in Child : partial[r][c].bypass)
        /\ \A c \in Child : context'.to[c] = partial[r][c]
    BY DEF CollectAuth
  <2>7. context'.bypass \in BOOLEAN  BY <2>6
  <2>8. \A c \in Child : context'.bypass => context'.to[c].bypass  BY <2>6
  <2>9. QED  BY <2>2, <2>3, <2>5, <2>6, <2>7, <2>8 DEF ContextsAgree
<1>6. ~cached'[r]  BY <1>2, NotYetCached
<1>7. pc'[r] \in {Generating, "failed"} /\ sent'[r] = Unsent /\ order'[r] = <<>>
  BY <1>1, <1>2 DEF FanDomains, OnItsWay
<1>8. RequestOK(r)'  BY <1>2, <1>6, <1>7, GeneratesOK, FailsOK
<1>9. QED  BY <1>3, <1>4, <1>5, <1>8, OthersKeep

LEMMA ChildRendersInv ==
  ASSUME FanInv, NEW r \in Req, NEW c \in Child, ChildRenders(r, c) PROVE FanInv'
<1>1. FanDomains /\ OnItsWay(r) /\ Arrived(r)  BY DEF FanInv, RequestOK
<1>2. PICK outcome \in Outcomes[leaf[c]] :
        /\ sent'  = [sent EXCEPT ![r][c] = outcome]
        /\ order' = [order EXCEPT ![r] = IF HasImage(outcome) THEN Append(@, c) ELSE @]
  BY DEF ChildRenders
<1>3. /\ pc[r] = "parallel" /\ sent[r][c] = None
      /\ UNCHANGED <<kind, leaf, mode, clock, context, marked, pc, partial, result, cached>>
  BY DEF ChildRenders, config, auth
<1>4. FanDomains'  BY <1>1, <1>2, <1>3 DEF FanDomains
<1>5. ContextsAgree' /\ Keeps(r)
  BY <1>1, <1>2, <1>3 DEF FanInv, FanDomains, ContextsAgree, Keeps, config
<1>6. Arrived(r)'
  <2>1. sent'[r][c] = outcome /\ \A d \in Child \ {c} : sent'[r][d] = sent[r][d]
    BY <1>1, <1>2 DEF FanDomains
  <2>2. /\ order[r] \in Seq(Child)
        /\ \A d \in Child : d \in Range(order[r]) <=> sent[r][d] \in {"image", "skip", "both"}
    BY <1>1, <1>3 DEF Arrived
  <2>3. CASE HasImage(outcome)
    <3>1. order'[r] = Append(order[r], c)  BY <1>1, <1>2, <2>3 DEF FanDomains
    <3>2. order'[r] \in Seq(Child) /\ Range(order'[r]) = Range(order[r]) \cup {c}
      BY <2>2, <3>1 DEF Range
    <3>3. QED  BY <2>1, <2>2, <2>3, <3>2 DEF Arrived, HasImage
  <2>4. CASE ~HasImage(outcome)
    <3>1. order'[r] = order[r]  BY <1>1, <1>2, <2>4 DEF FanDomains
    <3>2. c \notin Range(order[r])  BY <1>3, <2>2, NoneIsNoAnswer DEF Answer
    <3>3. QED  BY <2>1, <2>2, <2>4, <3>1, <3>2 DEF Arrived, HasImage
  <2>5. QED  BY <2>3, <2>4
<1>7. pc'[r] = "parallel" /\ OnItsWay(r)'  BY <1>1, <1>3 DEF OnItsWay
<1>8. ~cached'[r]  BY <1>3, NotYetCached
<1>9. QED  BY <1>4, <1>5, <1>6, <1>7, <1>8, NoImageYet, OthersKeep

(* An error, or a panic, leaves nothing to cache.                           *)
LEMMA FailInv ==
  ASSUME FanInv, NEW r \in Req, pc[r] # "ok", Fail(r), marked \subseteq marked',
         UNCHANGED <<config, clock, context, partial, cached>>
  PROVE  FanInv'
<1>1. FanDomains  BY DEF FanInv
<1>2. /\ pc' = [pc EXCEPT ![r] = "failed"] /\ sent' = [sent EXCEPT ![r] = Unsent]
      /\ order' = [order EXCEPT ![r] = <<>>] /\ result' = [result EXCEPT ![r] = Nothing]
      /\ UNCHANGED <<kind, leaf, mode>>
  BY DEF Fail, Goto, config
<1>3. FanDomains'
  <2>1. DOMAIN Unsent = Child  BY DEF Unsent
  <2>2. QED  BY <1>1, <1>2, <2>1 DEF FanDomains
<1>4. ContextsAgree' /\ Keeps(r)
  BY <1>1, <1>2 DEF FanInv, FanDomains, ContextsAgree, Keeps, config
<1>5. ~cached'[r] /\ pc'[r] = "failed"  BY <1>1, <1>2, NotYetCached DEF FanDomains
<1>6. QED  BY <1>3, <1>4, <1>5, FailsOK, OthersKeep

(* A tile that goes to be saved, without a message of the kinds that wait.  *)
LEMMA ToSave ==
  ASSUME NEW r \in Req, ~cached'[r], pc'[r] = "save", Whole(r)',
         SkipWanted(r)' \/ StandsIn(r)' => SkipNow(result[r])'
  PROVE  RequestOK(r)'
BY DEF RequestOK, OnItsWay, Arrived, WishesKept

LEMMA CollectInv == ASSUME FanInv, NEW r \in Req, Collect(r) PROVE FanInv'
<1>1. FanDomains /\ OnItsWay(r) /\ Arrived(r)  BY DEF FanInv, RequestOK
<1>2. /\ pc[r] = "parallel" /\ (kind = "composite" => Len(order[r]) = Width)
      /\ UNCHANGED <<kind, leaf, mode, clock, context, mutex, marked, partial, cached>>
  BY DEF Collect, config, auth
<1>3. ~cached'[r]  BY <1>2, NotYetCached
<1>4. CASE ~AllGood(r)
  BY <1>2, <1>4, FailInv DEF Collect, config
<1>5. CASE AllGood(r)
  <2>1. /\ result' = [result EXCEPT ![r] = [parts |-> Arranged(r), skip |-> Skips(r), shared |-> 0]]
        /\ pc' = [pc EXCEPT ![r] = "save"] /\ UNCHANGED <<sent, order>>
    BY <1>5 DEF Collect, Made, Goto
  <2>2. FanDomains' /\ ContextsAgree' /\ Keeps(r)
    BY <1>1, <1>2, <2>1 DEF FanInv, FanDomains, ContextsAgree, Keeps, config
  <2>3. pc'[r] = "save" /\ result'[r] = [parts |-> Arranged(r), skip |-> Skips(r), shared |-> 0]
    BY <1>1, <2>1 DEF FanDomains
  <2>4. \A c \in Child : sent[r][c] \in {"image", "skip"}  BY <1>5 DEF AllGood
  <2>5. order[r] \in Seq(Child) /\ \A c \in Child : c \in Range(order[r])
    BY <1>1, <1>2, <2>4 DEF Arrived
  <2>6. Len(Arranged(r)) = Width /\ Range(Arranged(r)) = Child
        /\ (kind = "blend" => \A c \in Child : Arranged(r)[c] = c)
    <3>1. CASE kind = "blend"
      <4>1. Arranged(r) = [slot \in 1 .. Width |-> slot]
        BY <2>5, <3>1 DEF Arranged, Child
      <4>2. Len([slot \in 1 .. Width |-> slot]) = Width  BY Children
      <4>3. QED  BY <4>1, <4>2 DEF Range, Child
    <3>2. CASE kind # "blend"
      <4>1. kind = "composite" /\ Arranged(r) = order[r]
        BY <1>1, <1>2, <3>2 DEF OnItsWay, Parallel, Arranged
      <4>2. Range(order[r]) = Child  BY <2>5 DEF Range
      <4>3. QED  BY <1>2, <3>2, <4>1, <4>2
    <3>3. QED  BY <3>1, <3>2
  <2>7. Whole(r)'
    <3>1. result'[r].parts = Arranged(r)  BY <2>3
    <3>2. QED  BY <1>2, <2>1, <2>4, <2>6, <3>1 DEF Whole
  <2>8. SkipWanted(r)' \/ StandsIn(r)' => SkipNow(result[r])'
    <3>1. ~StandsIn(r)'  BY <1>1, <1>2 DEF OnItsWay, Parallel, StandsIn
    <3>2. SkipWanted(r)' => Skips(r)  BY <2>1 DEF SkipWanted, Skips
    <3>3. SkipNow(result[r])' <=> Skips(r)  BY <2>3 DEF SkipNow
    <3>4. QED  BY <3>1, <3>2, <3>3
  <2>9. QED  BY <1>3, <2>2, <2>3, <2>7, <2>8, ToSave, OthersKeep
<1>6. QED  BY <1>4, <1>5

(* The image of one child as it came carries the child's wish.              *)
LEMMA ImageCarriesWish ==
  ASSUME FanInv, NEW c \in Child, NEW outcome \in Outcomes[leaf[c]]
  PROVE  outcome = "skip" => SkipNow(ImageOf(c, outcome)) /\ leaf[c] # "static"
<1>1. outcome = "skip" => leaf[c] # "static"  BY AnswersAre
<1>2. QED  BY <1>1 DEF SkipNow, ImageOf

LEMMA FirstInv == ASSUME FanInv, NEW r \in Req, First(r) PROVE FanInv'
<1>1. FanDomains /\ OnItsWay(r)  BY DEF FanInv, RequestOK
<1>2. /\ pc[r] = "first" /\ kind \notin Parallel /\ sent[r] = Unsent
      /\ UNCHANGED <<kind, leaf, mode, clock, context, mutex, marked, partial, cached>>
  BY <1>1 DEF First, OnItsWay, config, auth
<1>3. ~cached'[r]  BY <1>2, NotYetCached
<1>4. \A c \in Child : sent[r][c] = None  BY <1>2 DEF Unsent
<1>5. CASE Fail(r)  BY <1>2, <1>5, FailInv DEF config
<1>6. CASE Goto(r, "second") /\ UNCHANGED <<sent, order, result>>
  <2>1. FanDomains' /\ ContextsAgree' /\ Keeps(r) /\ pc'[r] = "second"
    BY <1>1, <1>2, <1>6 DEF FanInv, FanDomains, ContextsAgree, Keeps, config, Goto
  <2>2. OnItsWay(r)' /\ Arrived(r)' /\ Whole(r)'
    BY <1>2, <1>4, <1>6, <2>1 DEF OnItsWay, Arrived, Whole
  <2>3. WishesKept(r)'
    BY <1>3, <1>4, <1>6, <2>1, NoneIsNoAnswer, Children DEF WishesKept, Answer
  <2>4. QED  BY <2>1, <2>2, <2>3, OthersKeep DEF RequestOK
<1>7. ASSUME NEW outcome \in Outcomes[leaf[1]], NEW place \in {"second", "save"}, NEW image,
             sent' = [sent EXCEPT ![r][1] = outcome], result' = [result EXCEPT ![r] = image],
             Goto(r, place), UNCHANGED order,
             outcome = "skip" => SkipNow(image)',
             place = "second" => IF kind = "fallback" THEN IsError(outcome) ELSE kind = "crop",
             place = "save" => ~IsError(outcome)
      PROVE  FanInv'
  <2>1. sent'[r][1] = outcome /\ (\A c \in Child \ {1} : sent'[r][c] = None)
        /\ DOMAIN sent' = Req /\ \A q \in Req : DOMAIN sent'[q] = Child
    BY <1>1, <1>4, <1>7, Children DEF FanDomains
  <2>2. FanDomains'  BY <1>1, <1>2, <1>7, <2>1 DEF FanDomains, Goto
  <2>3. ContextsAgree' /\ Keeps(r)
    BY <1>1, <1>2, <1>7 DEF FanInv, FanDomains, ContextsAgree, Keeps, config, Goto
  <2>4. pc'[r] = place /\ result'[r] = image
    BY <1>1, <1>7 DEF FanDomains, Goto
  <2>5. OnItsWay(r)' /\ Arrived(r)' /\ Whole(r)'
    BY <1>2, <1>7, <2>1, <2>4 DEF OnItsWay, Arrived, Whole
  <2>6. SkipNow(result[r])' <=> SkipNow(image)'  BY <2>4 DEF SkipNow
  <2>7. CASE place = "second"
    <3>1. kind' = kind /\ (kind = "fallback" => outcome \in {"error", "both"}) /\ kind \in {"fallback", "crop"}
      BY <1>2, <1>7, <2>7 DEF IsError
    <3>2. QED
      BY <1>3, <1>7, <2>1, <2>2, <2>3, <2>4, <2>5, <2>6, <2>7, <3>1, OthersKeep DEF RequestOK, WishesKept
  <2>8. CASE place = "save"
    <3>1. ~StandsIn(r)'  BY <1>7, <2>1, <2>8 DEF StandsIn, IsError
    <3>2. SkipWanted(r)' => outcome = "skip"
      BY <2>1, NoneIsNoAnswer DEF SkipWanted, Answer
    <3>3. QED
      BY <1>3, <1>7, <2>2, <2>3, <2>4, <2>5, <2>6, <2>8, <3>1, <3>2, ToSave, OthersKeep
  <2>9. QED  BY <2>7, <2>8
<1>8. CASE \E outcome \in Outcomes[leaf[1]] :
             LET good    == outcome \in {"image", "skip"}
                 replace == kind = "fallback" /\ IsError(outcome)
                 image   == ImageOf(1, outcome)
             IN
             \/ /\ replace \/ (kind = "crop" /\ good)
                /\ sent' = [sent EXCEPT ![r][1] = outcome]
                /\ result' = [result EXCEPT ![r] = IF good THEN image ELSE Nothing]
                /\ Goto(r, "second")
                /\ UNCHANGED order
             \/ /\ good
                /\ sent' = [sent EXCEPT ![r][1] = outcome]
                /\ result' = [result EXCEPT ![r] =
                     IF kind = "filter" THEN [image EXCEPT !.shared = 0, !.skip = SkipNow(image)]
                                        ELSE image]
                /\ Goto(r, "save")
                /\ UNCHANGED order
  <2>1. PICK outcome \in Outcomes[leaf[1]] :
          \/ /\ (kind = "fallback" /\ IsError(outcome)) \/ (kind = "crop" /\ outcome \in {"image", "skip"})
             /\ sent' = [sent EXCEPT ![r][1] = outcome]
             /\ result' = [result EXCEPT ![r] =
                  IF outcome \in {"image", "skip"} THEN ImageOf(1, outcome) ELSE Nothing]
             /\ Goto(r, "second")
             /\ UNCHANGED order
          \/ /\ outcome \in {"image", "skip"}
             /\ sent' = [sent EXCEPT ![r][1] = outcome]
             /\ result' = [result EXCEPT ![r] =
                  IF kind = "filter"
                  THEN [ImageOf(1, outcome) EXCEPT !.shared = 0, !.skip = SkipNow(ImageOf(1, outcome))]
                  ELSE ImageOf(1, outcome)]
             /\ Goto(r, "save")
             /\ UNCHANGED order
    BY <1>8
  <2>2. outcome = "skip" => SkipNow(ImageOf(1, outcome))
    BY ImageCarriesWish, Children
  <2>3. CASE Goto(r, "second") /\ ((kind = "fallback" /\ IsError(outcome)) \/ kind = "crop")
             /\ sent' = [sent EXCEPT ![r][1] = outcome] /\ UNCHANGED order
             /\ result' = [result EXCEPT ![r] =
                  IF outcome \in {"image", "skip"} THEN ImageOf(1, outcome) ELSE Nothing]
    <3>1. PICK image : image = IF outcome \in {"image", "skip"} THEN ImageOf(1, outcome) ELSE Nothing
      OBVIOUS
    <3>2. outcome = "skip" => SkipNow(image)'  BY <1>2, <2>2, <3>1 DEF SkipNow
    <3>3. result' = [result EXCEPT ![r] = image]  BY <2>3, <3>1
    <3>4. IF kind = "fallback" THEN IsError(outcome) ELSE kind = "crop"  BY <2>3
    <3>5. QED  BY <1>7, <2>3, <3>2, <3>3, <3>4
  <2>4. CASE Goto(r, "save") /\ outcome \in {"image", "skip"}
             /\ sent' = [sent EXCEPT ![r][1] = outcome] /\ UNCHANGED order
             /\ result' = [result EXCEPT ![r] =
                  IF kind = "filter"
                  THEN [ImageOf(1, outcome) EXCEPT !.shared = 0, !.skip = SkipNow(ImageOf(1, outcome))]
                  ELSE ImageOf(1, outcome)]
    <3>1. PICK image : image =
            IF kind = "filter"
            THEN [ImageOf(1, outcome) EXCEPT !.shared = 0, !.skip = SkipNow(ImageOf(1, outcome))]
            ELSE ImageOf(1, outcome)
      OBVIOUS
    <3>2. outcome = "skip" => SkipNow(image)
      <4>1. CASE kind = "filter"
        <5>1. image.shared = 0 /\ image.skip = SkipNow(ImageOf(1, outcome))
          BY <3>1, <4>1 DEF ImageOf
        <5>2. QED  BY <2>2, <5>1 DEF SkipNow
      <4>2. CASE kind # "filter"  BY <2>2, <3>1, <4>2
      <4>3. QED  BY <4>1, <4>2
    <3>3. SkipNow(image) => SkipNow(image)'  BY <1>2 DEF SkipNow
    <3>4. ~IsError(outcome)  BY <2>4 DEF IsError
    <3>5. result' = [result EXCEPT ![r] = image]  BY <2>4, <3>1
    <3>6. QED  BY <1>7, <2>4, <3>2, <3>3, <3>4, <3>5
  <2>5. QED  BY <2>1, <2>3, <2>4
<1>9. QED  BY <1>5, <1>6, <1>8 DEF First

LEMMA SecondInv == ASSUME FanInv, NEW r \in Req, Second(r) PROVE FanInv'
<1>1. FanDomains /\ OnItsWay(r) /\ WishesKept(r)  BY DEF FanInv, RequestOK
<1>2. /\ pc[r] = "second" /\ kind \notin Parallel
      /\ UNCHANGED <<kind, leaf, mode, clock, context, mutex, partial, cached>>
  BY <1>1 DEF Second, OnItsWay, config, auth
<1>3. ~cached'[r]  BY <1>2, NotYetCached
<1>4. /\ \A c \in Child \ {1} : sent[r][c] = None
      /\ sent[r][1] = "skip" => kind = "crop" /\ SkipNow(result[r])
  BY <1>1, <1>2 DEF OnItsWay, WishesKept
<1>5. marked \subseteq marked'  BY DEF Second
<1>6. CASE Fail(r)  BY <1>2, <1>5, <1>6, FailInv DEF config
<1>7. CASE ~Fail(r)
  <2>1. PICK outcome \in Outcomes[leaf[2]] :
          LET both  == kind = "crop" /\ sent[r][1] # None
              mark  == kind = "fallback" /\ SkipCacheSave(r) /\ HasImage(outcome)
              image == [ImageOf(2, outcome) EXCEPT !.skip = @ \/ mark]
          IN
          /\ marked' = IF mark /\ image.shared # 0 THEN marked \cup {2} ELSE marked
          /\ outcome \in {"image", "skip"}
          /\ sent' = [sent EXCEPT ![r][2] = outcome]
          /\ IF both THEN Made(r, <<1, 2>>, SkipNow(result[r]))
             ELSE result' = [result EXCEPT ![r] = image] /\ Goto(r, "save")
          /\ UNCHANGED order
    BY <1>7 DEF Second
  <2>2. /\ sent'[r][2] = outcome /\ sent'[r][1] = sent[r][1]
        /\ \A c \in Child \ {1, 2} : sent'[r][c] = None
        /\ DOMAIN sent' = Req /\ \A q \in Req : DOMAIN sent'[q] = Child
    BY <1>1, <1>4, <2>1, Children DEF FanDomains
  <2>3. pc' = [pc EXCEPT ![r] = "save"] /\ \E image : result' = [result EXCEPT ![r] = image]
    BY <2>1 DEF Made, Goto
  <2>4. FanDomains'  BY <1>1, <1>2, <2>1, <2>2, <2>3 DEF FanDomains
  <2>5. ContextsAgree' /\ Keeps(r)
    BY <1>1, <1>2, <1>5, <2>1, <2>3 DEF FanInv, FanDomains, ContextsAgree, Keeps, config
  <2>6. pc'[r] = "save" /\ Whole(r)'
    BY <1>1, <1>2, <2>3 DEF FanDomains, Whole
  <2>7. CASE kind = "crop" /\ sent[r][1] # None
    <3>1. result'[r] = [parts |-> <<1, 2>>, skip |-> SkipNow(result[r]), shared |-> 0]
      BY <1>1, <2>1, <2>7 DEF Made, FanDomains
    <3>2. SkipNow(result[r]) => SkipNow(result[r])'
      <4>1. result'[r].shared = 0  BY <3>1
      <4>2. SkipNow(result[r])' = result'[r].skip  BY <4>1 DEF SkipNow
      <4>3. SkipNow(result[r]) => result'[r].skip  BY <3>1
      <4>4. QED  BY <4>2, <4>3
    <3>3. SkipWanted(r)' => sent[r][1] = "skip"
      BY <1>2, <2>2, <2>7, NoneIsNoAnswer DEF SkipWanted, Answer
    <3>4. ~StandsIn(r)'  BY <1>2, <2>7 DEF StandsIn
    <3>5. QED
      BY <1>3, <1>4, <2>4, <2>5, <2>6, <3>2, <3>3, <3>4, ToSave, OthersKeep
  <2>8. CASE ~(kind = "crop" /\ sent[r][1] # None)
    <3> DEFINE mark == kind = "fallback" /\ SkipCacheSave(r) /\ HasImage(outcome)
    <3>1. result'[r] = [ImageOf(2, outcome) EXCEPT !.skip = @ \/ mark]
      BY <1>1, <2>1, <2>8 DEF FanDomains
    <3>2. marked' = IF mark /\ result'[r].shared # 0 THEN marked \cup {2} ELSE marked
      BY <2>1, <3>1
    <3> HIDE DEF mark
    <3>3. result'[r].shared = (IF leaf[2] = "static" THEN 2 ELSE 0)
          /\ result'[r].skip = (outcome = "skip" \/ mark)
      BY <3>1 DEF ImageOf
    <3>4. SkipWanted(r)' => outcome = "skip"
      BY <1>2, <1>4, <2>2, <2>8, NoneIsNoAnswer DEF SkipWanted, Answer
    <3>5. StandsIn(r)' => mark
      BY <1>2, <2>1, <2>2 DEF StandsIn, SkipCacheSave, HasImage, mark
    <3>6. outcome = "skip" => leaf[2] # "static"  BY ImageCarriesWish, Children
    <3>7. SkipWanted(r)' => SkipNow(result[r])'
      BY <3>3, <3>4, <3>6 DEF SkipNow
    <3>8. StandsIn(r)' => SkipNow(result[r])'
      BY <3>2, <3>3, <3>5 DEF SkipNow
    <3>9. QED  BY <1>3, <2>4, <2>5, <2>6, <3>7, <3>8, ToSave, OthersKeep
  <2>9. QED  BY <2>7, <2>8
<1>8. QED  BY <1>6, <1>7

LEMMA SaveInv == ASSUME FanInv, NEW r \in Req, Save(r) PROVE FanInv'
<1>1. FanDomains /\ WishesKept(r) /\ Whole(r)  BY DEF FanInv, RequestOK
<1>2. /\ pc[r] = "save" /\ cached' = [cached EXCEPT ![r] = ~SkipNow(result[r])]
      /\ pc' = [pc EXCEPT ![r] = "ok"] /\ order' = [order EXCEPT ![r] = <<>>]
      /\ UNCHANGED <<kind, leaf, mode, clock, context, mutex, marked, sent, partial, result>>
  BY DEF Save, Goto, config, auth
<1>3. FanDomains'  BY <1>1, <1>2 DEF FanDomains
<1>4. ContextsAgree' /\ Keeps(r)
  BY <1>1, <1>2 DEF FanInv, FanDomains, ContextsAgree, Keeps, config
<1>5. pc'[r] = "ok" /\ cached'[r] = ~SkipNow(result[r])
  BY <1>1, <1>2 DEF FanDomains
<1>6. OnItsWay(r)' /\ Arrived(r)'  BY <1>5 DEF OnItsWay, Arrived
<1>7. Whole(r)'  BY <1>1, <1>2, <1>5 DEF Whole
<1>8. (SkipWanted(r)' <=> SkipWanted(r)) /\ (StandsIn(r)' <=> StandsIn(r))
  BY <1>2 DEF SkipWanted, StandsIn
<1>9. WishesKept(r)'  BY <1>1, <1>2, <1>5, <1>8 DEF WishesKept
<1>10. QED  BY <1>3, <1>4, <1>6, <1>7, <1>9, OthersKeep DEF RequestOK

LEMMA FanInitInv == Init => FanInv
<1>1. SUFFICES ASSUME Init PROVE FanInv
  OBVIOUS
<1>2. FanDomains
  <2>1. DOMAIN Unsent = Child /\ <<>> \in Seq(Ticket)  BY DEF Unsent
  <2>2. QED  BY <1>1, <2>1 DEF Init, FanDomains
<1>3. ContextsAgree
  <2>1. NoContext \in Ticket /\ NoContext.exp = 0  BY DEF NoContext, Ticket
  <2>2. QED  BY <1>1, <2>1 DEF Init, ContextsAgree
<1>4. \A r \in Req : RequestOK(r)
  BY <1>1 DEF Init, RequestOK, OnItsWay, Arrived, WishesKept, Whole
<1>5. QED  BY <1>2, <1>3, <1>4 DEF FanInv

LEMMA FanNextInv == FanInv /\ [Next]_vars => FanInv'
<1>1. SUFFICES ASSUME FanInv, [Next]_vars PROVE FanInv'
  OBVIOUS
<1>2. clock \in Nat  BY <1>1 DEF FanInv, FanDomains
<1>3. CASE Initialize \/ Close \/ Tick \/ UNCHANGED vars
  <2>1. UNCHANGED <<config, context, marked, pc, calls, cached>> /\ clock' \in {clock, clock + 1}
    BY <1>3 DEF Initialize, Close, Tick, vars, auth
  <2>2. QED  BY <1>1, <1>2, <2>1, StillInv
<1>4. ASSUME NEW r \in Req, Begin(r) \/ Proceed(r) PROVE FanInv'
  BY <1>1, <1>4, BeginInv, UseContextInv, StartPreAuthInv, DelegateInv, CollectAuthInv,
     ChildAuthInv, ChildRendersInv, CollectInv, FirstInv, SecondInv, SaveInv DEF Proceed
<1>5. QED  BY <1>1, <1>3, <1>4 DEF Next

(* The inductive invariant of requests through a provider that nests others *)
(* (blend.go, composite_mvt.go, fallback.go, crop.go, effect.go).           *)
THEOREM FanInvariance == Spec => []FanInv
<1>1. QED  BY FanInitInv, FanNextInv, PTL DEF Spec

(* A blended or composed tile is made of every child, in whatever order     *)
(* they came (blend.go:223-238, composite_mvt.go:107-126).                  *)
THEOREM TilesAreWhole == Spec => []WholeTile
<1>1. FanInv => WholeTile  BY DEF FanInv, RequestOK, Whole, WholeTile
<1>2. QED  BY <1>1, FanInvariance, PTL

(* A child's wish not to be cached reaches the layer group through whatever *)
(* nests it (blend.go:362, composite_mvt.go:123).                           *)
THEOREM SkipsAreKept == Spec => []SkipIsKept
<1>1. FanInv => SkipIsKept
  BY DEF FanInv, RequestOK, WishesKept, SkipWanted, SkipIsKept
<1>2. QED  BY <1>1, FanInvariance, PTL

(* A tile that stands in for an error is not cached but where the           *)
(* configuration says so, though requests share a static child's image      *)
(* (fallback.go:141-156).                                                   *)
THEOREM StandInsAreNotCached == Spec => []ErrorsAreNotCached
<1>1. FanInv => ErrorsAreNotCached
  BY DEF FanInv, RequestOK, WishesKept, StandsIn, ErrorsAreNotCached
<1>2. QED  BY <1>1, FanInvariance, PTL

(* The context a layer keeps ends with the first of its children's, so a    *)
(* request that reuses it finds none of them expired (blend.go:183-203,     *)
(* layer.go:270).                                                           *)
THEOREM ReusesOnlyFresh == Spec => ReusedIsFresh
<1> DEFINE Current ==
      \A r \in Req : pc[r] = "auth" /\ pc'[r] = Generating =>
        \A c \in Child : context.to[c].bypass \/ context.to[c].exp >= clock
<1>1. ASSUME FanInv, [Next]_vars PROVE Current
  <2> SUFFICES ASSUME NEW r \in Req, pc[r] = "auth", pc'[r] = Generating, NEW c \in Child
               PROVE  context.to[c].bypass \/ context.to[c].exp >= clock
    OBVIOUS
  <2>1. FanDomains /\ ContextsAgree  BY <1>1 DEF FanInv
  <2>2. pc'[r] \in {"parallel", "first"} /\ pc'[r] # pc[r]  BY DEF Generating
  <2>3. \E q \in Req : Begin(q) \/ Proceed(q)
    BY <1>1, <2>2 DEF Next, Initialize, Close, Tick, vars
  <2>4. PICK q \in Req : Begin(q) \/ Proceed(q)  BY <2>3
  <2>5. CASE q # r
    <3>1. pc'[r] = pc[r]
      BY <2>1, <2>4, <2>5 DEF FanDomains, Begin, Proceed, UseContext, StartPreAuth, Delegate, CollectAuth,
         ChildAuth, ChildRenders, Collect, First, Second, Save, Made, Fail, Goto
    <3>2. QED  BY <2>2, <3>1
  <2>6. CASE q = r
    <3>1. UseContext(r) \/ StartPreAuth(r)
      BY <2>4, <2>6 DEF Begin, Proceed, Resting, Delegate, CollectAuth, ChildAuth, ChildRenders, Collect,
         First, Second, Save
    <3>2. ~StartPreAuth(r)  BY <2>1, <2>2 DEF StartPreAuth, Goto, FanDomains
    <3>3. context.bypass \/ context.exp >= clock  BY <3>1, <3>2 DEF UseContext
    <3>4. clock \in Nat /\ context.exp \in Nat /\ context.to[c].exp \in Nat
      BY <2>1 DEF FanDomains, ContextsAgree, Ticket
    <3>5. (context.bypass => context.to[c].bypass) /\ context.exp <= context.to[c].exp
      BY <2>1 DEF ContextsAgree
    <3>6. CASE context.bypass  BY <3>5, <3>6
    <3>7. CASE context.exp >= clock
      <4>1. context.to[c].exp >= clock  BY <3>4, <3>5, <3>7
      <4>2. QED  BY <4>1
    <3>8. QED  BY <3>3, <3>6, <3>7
  <2>7. QED  BY <2>5, <2>6
<1>2. FanInv /\ [Next]_vars => [Current]_vars  BY <1>1
<1>3. QED  BY <1>2, FanInvariance, PTL DEF Spec, ReusedIsFresh
=============================================================================
