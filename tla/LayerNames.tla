------------------------------ MODULE LayerNames -------------------------------
(***************************************************************************)
(* Which layer a name stands for, and where ref providers lead             *)
(* (pkg/entities/layer: layer.go, layergroup.go; ref.go and blend.go of    *)
(* internal/providers), and what URL is asked for in the end.  A           *)
(* configuration is accepted or refused, then a request follows refs from  *)
(* layer to layer.  A nesting provider calls its children side by side,    *)
(* each with the context it was given and each ref with a new one: one     *)
(* chain of refs is followed.                                              *)
(*                                                                         *)
(* Names and patterns are sequences of characters, because the property    *)
(* about them is that what was matched is what was asked for.  Of a        *)
(* regular expression only its alternatives are kept.                      *)
(***************************************************************************)
EXTENDS Placeholders

CONSTANTS
  Name,         \* names a request may ask for
  Config,       \* configurations: sequences of layers
  MaxRefDepth   \* ref.go's maxRefDepth

Str == Seq(Char)

(* A layer is [id, pattern, validator, provider]: pattern is <<>> when      *)
(* absent, validator maps keys to sequences of alternatives, provider is    *)
(* the tree of its providers, as the set of those that nest no other, each  *)
(* with a flag nested: [kind |-> "leaf", url |-> template], which is <<>>   *)
(* when it asks for no URL, [kind |-> "ref", layer |-> name], or blend's    *)
(* layer option, [kind |-> "names", names |-> set of names].                *)
Node ==
  [kind : {"leaf"}, nested : BOOLEAN, url : Seq(Element)]
    \cup [kind : {"ref"}, nested : BOOLEAN, layer : Str]
    \cup [kind : {"names"}, nested : BOOLEAN, names : SUBSET Str]

IsLayer(l) ==
  /\ l.id \in Str /\ l.pattern \in Str
  /\ \A k \in DOMAIN l.validator : l.validator[k] \in Seq(Str)
  /\ \A node \in l.provider : node \in Node

ASSUME LayerNamesAssumption ==
  /\ MaxRefDepth \in Nat
  /\ Name \subseteq Str
  /\ \A config \in Config : Len(config) \in Nat /\ DOMAIN config = 1 .. Len(config) /\ \A i \in DOMAIN config : IsLayer(config[i])

VARIABLES
  layers,   \* the configuration
  place,    \* of the request
  name,     \* TileRequest.LayerName
  matches,  \* the context's layerPatternMatches
  found,    \* number of the layer, or 0
  depth,    \* the context's refDepth
  hops,     \* refs followed so far, at most MaxRefDepth + 1 (a bound)
  url       \* a leaf asked for

vars == <<layers, place, name, matches, found, depth, hops, url>>

-----------------------------------------------------------------------------
(* Patterns.                                                                *)

(* strings.Index. *)
Index(str, value) ==
  LET at == {i \in 0 .. Len(str) - Len(value) : SubSeq(str, i + 1, i + Len(value)) = value}
  IN  IF at = {} THEN -1 ELSE Min(at)

From(str, i) == SubSeq(str, i + 1, Len(str))

Literal(value)     == [value |-> value, placeholder |-> FALSE]
Placeholder(value) == [value |-> value, placeholder |-> TRUE]

(* prependLayerSegment: placeholders need a separator and may not repeat.   *)
Prepend(seg, parsed) ==
  [segments |-> <<seg>> \o parsed.segments,
   ok |-> /\ parsed.ok
          /\ seg.placeholder =>
               /\ parsed.segments # <<>> => ~parsed.segments[1].placeholder
               /\ \A i \in 1 .. Len(parsed.segments) : parsed.segments[i] # seg]

(* The rest of the pattern from a place on, parsed by what is behind it. *)
ParseFrom(parse, pattern, i) ==
  LET p       == From(pattern, i)
      opening == Index(p, <<"{">>)
      closing == Index(p, <<"}">>)
  IN CASE p = <<>>    -> [segments |-> <<>>, ok |-> TRUE]
       [] opening > 0 -> Prepend(Literal(SubSeq(p, 1, opening)), parse[i + opening])
       [] opening = 0 /\ closing > 0 ->
            Prepend(Placeholder(SubSeq(p, 2, closing)), parse[i + closing + 1])
       [] opening = 0 /\ closing = -1 -> [segments |-> <<Placeholder(From(p, 1))>>, ok |-> FALSE]
       [] OTHER -> [segments |-> <<Literal(p)>>, ok |-> TRUE]

ParsePattern(pattern) ==
  LET parse[i \in 0 .. Len(pattern)] == ParseFrom(parse, pattern, i) IN parse[0]

(* ConstructLayer: a pattern equal to the ID is none. *)
HasPattern(l) == l.pattern \notin {<<>>, l.id}
Segments(l)   == IF HasPattern(l) THEN ParsePattern(l.pattern) ELSE [segments |-> <<Literal(l.id)>>, ok |-> TRUE]

With(values, key, value) ==
  [k \in DOMAIN values \cup {key} |-> IF k = key THEN value ELSE values[k]]

(* One round of the loop of match: a literal is looked for where it occurs  *)
(* first, and what is before it is the value of the placeholder before it,  *)
(* the one in last if any.                                                  *)
MatchSegment(m, seg) ==
  LET at == Index(m.rest, seg.value) IN
  CASE ~m.ok -> m
    [] m.ok /\ seg.placeholder -> [m EXCEPT !.last = <<seg.value>>]
    [] m.ok /\ ~seg.placeholder /\ (at < 0 \/ (m.last = <<>> /\ at > 0)) -> [m EXCEPT !.ok = FALSE]
    [] OTHER ->
         [ok |-> TRUE, last |-> <<>>, rest |-> From(m.rest, at + Len(seg.value)),
          values |-> IF m.last = <<>> THEN m.values ELSE With(m.values, m.last[1], SubSeq(m.rest, 1, at))]

Matched(segments, str) ==
  LET after[i \in 0 .. Len(segments)] ==
        IF i = 0 THEN [ok |-> TRUE, last |-> <<>>, rest |-> str, values |-> <<>>]
        ELSE MatchSegment(after[i - 1], segments[i])
  IN after[Len(segments)]

(* Mutant of Match: what follows the last literal is ignored. *)
MatchStart(segments, str) ==
  LET m == Matched(segments, str) IN
  IF m.last = <<>> THEN [ok |-> m.ok, values |-> m.values]
  ELSE [ok |-> m.ok, values |-> With(m.values, m.last[1], m.rest)]

Match(segments, str) ==
  LET m == Matched(segments, str) IN
  IF m.last = <<>> THEN [ok |-> m.ok /\ m.rest = <<>>, values |-> m.values]
  ELSE [ok |-> m.ok, values |-> With(m.values, m.last[1], m.rest)]

(* constructValidation puts "^" before the expression and "$" behind it.    *)
(* Of more than one alternative, the first is bound to the start only, the  *)
(* last to the end only.                                                    *)
MatchString(alternatives, value) ==
  LET n == Len(alternatives) IN
  IF n = 1 THEN value = alternatives[1]
  ELSE \/ IsPrefix(alternatives[1], value)
       \/ IsSuffix(alternatives[n], value)
       \/ \E i \in 2 .. n - 1 : Index(value, alternatives[i]) >= 0

(* validateParamMatches: "*" is for every value, another key for its own,   *)
(* which is empty when the pattern has no such placeholder.                 *)
ValidateParamMatches(values, validator) ==
  \A k \in DOMAIN validator :
    IF k = <<"*">> THEN \A v \in Range(values) : MatchString(validator[k], v)
    ELSE MatchString(validator[k], IF k \in DOMAIN values THEN values[k] ELSE <<>>)

(* MatchesName. *)
MatchesName(l, str) ==
  LET m == Match(Segments(l).segments, str) IN
  m.ok /\ (l.pattern # <<>> => ValidateParamMatches(m.values, l.validator))

-----------------------------------------------------------------------------
(* ConstructLayerGroup.                                                     *)

(* Mutant of FindRefTargets: nested providers are not looked into. *)
TopLevelTargets(provider) ==
  {node.layer : node \in {node \in provider : node.kind = "ref" /\ ~node.nested}} \ {<<>>}

(* Every ref of a provider, however deep, those of blend's layer option     *)
(* excepted: they are made from it later.                                   *)
FindRefTargets(provider) ==
  {node.layer : node \in {node \in provider : node.kind = "ref"}} \ {<<>>}

Distinct == \A i, j \in DOMAIN layers : layers[i].id = layers[j].id => i = j

(* refsByLayer; a target without refs of its own ends the search, so does   *)
(* one that only a pattern matches.                                         *)
RefIDs == {layers[i].id : i \in {i \in DOMAIN layers : FindRefTargets(layers[i].provider) # {}}}

RefersTo(id, target) ==
  \E i \in DOMAIN layers : layers[i].id = id /\ target \in FindRefTargets(layers[i].provider)

(* The depth-first search comes back to a layer it is at: some layers refer *)
(* to each other only in a circle.                                          *)
RefCycle ==
  \E ids \in SUBSET RefIDs : ids # {} /\ \A id \in ids : \E target \in ids : RefersTo(id, target)

(* A target no ID is equal to is an error when no layer has a pattern.      *)
Dangling ==
  /\ \A i \in DOMAIN layers : ~HasPattern(layers[i])
  /\ \E i \in DOMAIN layers : ~(FindRefTargets(layers[i].provider) \subseteq {layers[j].id : j \in DOMAIN layers})

ValidateRefs == ~Dangling /\ ~RefCycle

Constructed == \A i \in DOMAIN layers : Segments(layers[i]).ok

Init ==
  /\ layers \in Config
  /\ place = "config"
  /\ name = <<>> /\ matches = <<>> /\ found = 0
  /\ depth = 0 /\ hops = 0 /\ url = <<>>

ConstructLayerGroup ==
  /\ place = "config"
  /\ place' = IF Distinct /\ ValidateRefs /\ Constructed THEN "accepted" ELSE "refused"
  /\ UNCHANGED <<layers, name, matches, found, depth, hops, url>>

-----------------------------------------------------------------------------
(* Requests.                                                                *)

(* NewRequestContext of a request from outside. *)
Request ==
  /\ place = "accepted"
  /\ name' \in Name
  /\ place' = "render"
  /\ UNCHANGED <<layers, matches, found, depth, hops, url>>

(* FindLayer: the first layer that matches, whose values the context gets.  *)
FindLayer ==
  /\ place = "render"
  /\ LET hit == {i \in DOMAIN layers : MatchesName(layers[i], name)} IN
     IF hit = {} THEN place' = "missing" /\ UNCHANGED <<found, matches>>
     ELSE /\ place' = "generate"
          /\ found' = Min(hit)
          /\ matches' = Match(Segments(layers[Min(hit)]).segments, name).values
  /\ UNCHANGED <<layers, name, depth, hops, url>>

(* The refs a provider holds once it is initialized. *)
Refs(provider) ==
  {node.layer : node \in {node \in provider : node.kind = "ref"}}
    \cup UNION {node.names : node \in {node \in provider : node.kind = "names"}}

(* The URL templates below a provider. *)
Templates(provider) == {node.url : node \in {node \in provider : node.kind = "leaf"}}

(* A tile without (another) ref: from a leaf, or, without a URL, from the   *)
(* cache.                                                                   *)
Tile ==
  /\ place = "generate"
  /\ place' = "tile"
  /\ \E template \in {<<>>} \cup Templates(layers[found].provider) :
       url' = ReplaceURLPlaceholders(template, matches)
  /\ UNCHANGED <<layers, name, matches, found, depth, hops>>

(* Mutant of Forward: the new context starts from zero. *)
ForwardAfresh(target) ==
  /\ IF depth >= MaxRefDepth
     THEN place' = "too deep" /\ UNCHANGED <<name, matches, found, depth, hops>>
     ELSE /\ place' = "render"
          /\ name' = target
          /\ matches' = <<>> /\ found' = 0
          /\ depth' = 0
          /\ hops' = IF hops <= MaxRefDepth THEN hops + 1 ELSE hops
  /\ UNCHANGED <<layers, url>>

(* GenerateTile of ref: a new context, but for the depth. *)
Forward(target) ==
  /\ IF depth >= MaxRefDepth
     THEN place' = "too deep" /\ UNCHANGED <<name, matches, found, depth, hops>>
     ELSE /\ place' = "render"
          /\ name' = target
          /\ matches' = <<>> /\ found' = 0
          /\ depth' = depth + 1
          /\ hops' = IF hops <= MaxRefDepth THEN hops + 1 ELSE hops
  /\ UNCHANGED <<layers, url>>

Next ==
  \/ ConstructLayerGroup
  \/ Request
  \/ FindLayer
  \/ Tile
  \/ place = "generate" /\ \E target \in Refs(layers[found].provider) : Forward(target)

Spec == Init /\ [][Next]_vars

-----------------------------------------------------------------------------
(* Properties.                                                              *)

(* What segments stand for: the pattern as it is written, and the name with *)
(* values in place of the placeholders.                                     *)
Written(segments) ==
  FlattenSeq([i \in 1 .. Len(segments) |->
    IF segments[i].placeholder THEN <<"{">> \o segments[i].value \o <<"}">> ELSE segments[i].value])

FilledIn(segments, values) ==
  FlattenSeq([i \in 1 .. Len(segments) |->
    IF segments[i].placeholder THEN values[segments[i].value] ELSE segments[i].value])

(* A layer is rendered under a name that is its ID or its pattern filled    *)
(* with the very values its provider reads from the context, at every ref   *)
(* on the way, however ambiguous the pattern (layer.go:108-137, 288-301;    *)
(* ref.go:75-80).                                                           *)
NameIsInstance ==
  place \in {"generate", "tile"} =>
    LET segments == Segments(layers[found]).segments IN
    /\ Written(segments) = (IF HasPattern(layers[found]) THEN layers[found].pattern ELSE layers[found].id)
    /\ name = FilledIn(segments, matches)

(* What is asked for upstream is the template with each placeholder's own   *)
(* value in its place, whatever characters a request brought, "$0" and the  *)
(* like included, and however many placeholders there are (utility.go:77:   *)
(* "one scan makes inserted text inert"), as long as no template has a      *)
(* digit directly behind a placeholder.                                     *)
UrlIsFilled ==
  place = "tile" /\ (\A template \in Templates(layers[found].provider) : Separated(template)) =>
    \E template \in {<<>>} \cup Templates(layers[found].provider) : url = FilledURL(template, matches)

(* A chain of refs ends: within MaxRefDepth of them, whatever the           *)
(* configuration (ref.go:67-88) ...                                         *)
RefsBounded == hops <= MaxRefDepth

(* No ref is made from blend's layer option, and each names a layer. *)
Listed(provider) ==
  \A node \in provider : node.kind # "names" /\ (node.kind = "ref" => node.layer # <<>>)

(* ... and, when every layer goes by its ID and names its refs in the       *)
(* configuration, without coming to one layer twice or to none              *)
(* (layergroup.go:104-180).                                                 *)
ChainsOfIDsEnd ==
  (\A i \in DOMAIN layers : layers[i].pattern = <<>> /\ Listed(layers[i].provider)) =>
    /\ hops > 0 => hops < Len(layers)
    /\ place = "missing" => hops = 0

(* "Each expression must match the full value (it's automatically anchored  *)
(* to start and end)" (docs configuration/layer.adoc:30).  Not so when it   *)
(* has alternatives (layer.go:146-151).                                     *)
ValidatedInFull ==
  place = "generate" =>
    \A k \in DOMAIN layers[found].validator :
      k \in DOMAIN matches => \E i \in DOMAIN layers[found].validator[k] : matches[k] = layers[found].validator[k][i]
=============================================================================
