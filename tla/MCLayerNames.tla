----------------------------- MODULE MCLayerNames -----------------------------
(* Names, patterns and configurations of two layers for checking LayerNames. *)
EXTENDS LayerNames

Chars ==
  {"a", "b", "c", "h", "x", "y", "z", "*"}
    \cup {"$", "?", "/", "{", "}", "<nil>", "%24", "%2F", "%3F", "%3Cnil%3E"}
    \cup {"0", "1", "2", "3", "4", "5", "6", "7", "8", "9"}

a == <<"a">>
b == <<"b">>

(* Values that look like a parameter, or end the path, as well. *)
Names == (SeqOf({"a", "b"}, 3) \ {<<>>}) \cup {<<"a", "$", "1">>, <<"$", "0", "b", "?">>}

(* {env.h}/{layer.x}/{ctx.c}?a={layer.y}&b={layer.x}/{z}, eleven parameters *)
(* of which the last is the request's.                                      *)
Text(c) == [source |-> "text", key |-> <<c>>]
At(source, key) == [source |-> source, key |-> <<key>>]
Mixed ==
  <<At("env", "h"), Text("/"), At("layer", "x"), Text("/"), At("ctx", "c"), Text("?"), Text("a"),
    At("layer", "y"), Text("b"), At("layer", "x"), Text("/"), At("coord", "z")>>
Eleven == [i \in 1 .. 22 |-> IF i % 2 = 0 THEN Text("/") ELSE IF i < 21 THEN At("env", "h") ELSE At("layer", "x")]

TheEnv   == <<"h">> :> <<"h", "?", "/">>
TheCtx   == <<"c">> :> <<"$", "2">>
TheCoord == (<<"z">> :> <<"3">>) @@ (<<"x">> :> <<"1">>) @@ (<<"y">> :> <<"2">>)

Asks(nested, template) == [kind |-> "leaf", nested |-> nested, url |-> template]
Ref(nested, layer)     == [kind |-> "ref", nested |-> nested, layer |-> layer]
Leaf == {Asks(FALSE, <<>>)}

Providers ==
  {Leaf, {Asks(FALSE, Mixed)}}
    \cup {{Ref(FALSE, target)} : target \in {a, b, <<>>, <<"a", "b">>}}
    \cup {{Asks(TRUE, Eleven), Ref(TRUE, b)}, {Ref(TRUE, a), Ref(TRUE, <<"b", "a">>)}}
    \cup {{[kind |-> "names", nested |-> FALSE, names |-> {a, <<"b", "b">>}]}}

(* a{x}, {x}b{y}, {*}ba, a}{x}; not accepted: {x}{y}, {x}a{x}, b{x *)
Patterns ==
  {<<>>, a, <<"a", "{", "x", "}">>, <<"{", "x", "}", "b", "{", "y", "}">>, <<"{", "*", "}", "b", "a">>,
   <<"a", "}", "{", "x", "}">>,
   <<"{", "x", "}", "{", "y", "}">>, <<"{", "x", "}", "a", "{", "x", "}">>, <<"b", "{", "x">>}

Validators == {<<>>, <<"x">> :> <<a, b>>, <<"*">> :> <<b>>}

Layers ==
  [id : {a, b}, pattern : Patterns, validator : Validators, provider : Providers]

(* A validator makes a difference next to a pattern only. *)
TwoLayers ==
  {<<k, l>> : k \in {k \in Layers : k.id = a /\ (k.pattern = <<>> => k.validator = <<>>)},
              l \in {l \in Layers : (l.pattern = <<>> => l.validator = <<>>) /\ (l.id = b \/ l.provider = Leaf)}}

(* Three layers that go by their IDs. *)
ThreeLayers ==
  {[i \in 1 .. 3 |-> [id |-> <<a, b, <<"a", "b">>>>[i], pattern |-> <<>>, validator |-> <<>>, provider |-> p[i]]] :
     p \in [1 .. 3 -> Providers]}

Configs == TwoLayers \cup ThreeLayers
=============================================================================
