----------------------------- MODULE Placeholders ------------------------------
(***************************************************************************)
(* The URL a provider asks for: its template with values in place of the   *)
(* placeholders (internal/providers/utility.go).  A template is a sequence *)
(* of characters and placeholders; what a request brings is data and may   *)
(* look like anything, like the program's own "$0" too.                    *)
(***************************************************************************)
EXTENDS Integers, Sequences, SequencesExt, FiniteSets

CONSTANTS
  Char,   \* characters; an escaped one is one of them, so is "<nil>"
  Env,    \* [variables -> values], the environment
  Ctx,    \* [keys -> values], what the request's context holds
  Coord   \* [names -> text], of the tile

(* An element of a template is [source, key]: one character, <<c>>, when    *)
(* source is "text", else the name of a placeholder of "env", "ctx",        *)
(* "layer" or "coord".                                                      *)
Digits == <<"0", "1", "2", "3", "4", "5", "6", "7", "8", "9">>

IsDigit(c) == \E d \in 0 .. 9 : c = Digits[d + 1]

Element ==
  {e \in [source : {"text", "env", "ctx", "layer", "coord"}, key : Seq(Char)] :
     /\ e.source = "text" => Len(e.key) = 1
     /\ e.source = "coord" => e.key \in DOMAIN Coord}

(* A tile's numbers and bounds are written with digits, "-" and ".".        *)
ASSUME PlaceholdersAssumption ==
  /\ {"$", "?", "/", "{", "}", "<nil>", "%24", "%2F", "%3F", "%3Cnil%3E"} \subseteq Char
  /\ \A d \in 0 .. 9 : Digits[d + 1] \in Char
  /\ \A k \in DOMAIN Env : Env[k] \in Seq(Char)
  /\ \A k \in DOMAIN Ctx : Ctx[k] \in Seq(Char)
  /\ \A k \in DOMAIN Coord : Coord[k] \in Seq(Char) \ {<<>>} /\ \A i \in DOMAIN Coord[k] : Coord[k][i] \notin {"$", "?"}

(* strconv.Itoa and Atoi. *)
Decimal(n) ==
  LET dec[k \in 0 .. n] ==
        IF k < 10 THEN <<Digits[k + 1]>> ELSE Append(dec[k \div 10], Digits[(k % 10) + 1])
  IN dec[n]

Number(digits) ==
  LET num[i \in 0 .. Len(digits)] ==
        IF i = 0 THEN 0 ELSE 10 * num[i - 1] + (CHOOSE d \in 0 .. 9 : Digits[d + 1] = digits[i])
  IN num[Len(digits)]

(* The prepared statement's name of a parameter. *)
Param(n) == <<"$">> \o Decimal(n)

-----------------------------------------------------------------------------
(* replacePlaceholdersInString: parameters are numbered by source, then by  *)
(* place; coordinates are written out.                                      *)
IsParam(p) == p.source \in {"env", "ctx", "layer"}

Order(source) ==
  CASE source = "env" -> 1
    [] source = "ctx" -> 2
    [] OTHER -> 3

Params(template) == {i \in DOMAIN template : IsParam(template[i])}

PlacesOf(template, source) == {i \in DOMAIN template : template[i].source = source}

(* The parameters with a lower number: those of an earlier source, and      *)
(* those of its own at an earlier place.                                    *)
Before(template, i) ==
  {j \in Params(template) :
     LET s == Order(template[j].source)
         t == Order(template[i].source)
     IN s < t \/ (s = t /\ j < i)}

ParamIndex(template, i) == Cardinality(Before(template, i))

Value(p, matches) ==
  CASE p.source = "env"   -> IF p.key \in DOMAIN Env THEN Env[p.key] ELSE <<>>
    [] p.source = "ctx"   -> IF p.key \in DOMAIN Ctx THEN Ctx[p.key] ELSE <<"<nil>">>
    [] p.source = "layer" -> IF p.key \in DOMAIN matches THEN matches[p.key] ELSE <<>>

Prepared(template, i) ==
  CASE template[i].source = "text"  -> template[i].key
    [] template[i].source = "coord" -> Coord[template[i].key]
    [] OTHER -> Param(ParamIndex(template, i))

ReplacePlaceholders(template, matches) ==
  [str |-> FlattenSeq([i \in 1 .. Len(template) |-> Prepared(template, i)]),
   values |-> [n \in 1 .. Cardinality(Params(template)) |->
     Value(template[CHOOSE i \in Params(template) : ParamIndex(template, i) = n - 1], matches)]]

-----------------------------------------------------------------------------
(* Escaping: a path keeps "$", a query does not. *)
Escape(c, part) ==
  CASE c = "/" -> "%2F"
    [] c = "?" -> "%3F"
    [] c = "$" /\ part = "query" -> "%24"
    [] c = "<nil>" -> "%3Cnil%3E"
    [] OTHER -> c

Escaped(value, part) == [i \in DOMAIN value |-> Escape(value[i], part)]

SourceFor(template, index) ==
  LET envCount == Cardinality(PlacesOf(template, "env"))
      ctxCount == Cardinality(PlacesOf(template, "ctx"))
  IN CASE index < envCount -> "env"
       [] index >= envCount /\ index < envCount + ctxCount -> "ctx"
       [] OTHER -> "layer"

(* Behind the first "?" of the prepared string there is the query. *)
Part(str, i) == IF \E j \in 1 .. i - 1 : str[j] = "?" THEN "query" ELSE "path"

Inserted(template, values, index, i, str) ==
  IF SourceFor(template, index) = "env" THEN values[index + 1]
  ELSE Escaped(values[index + 1], Part(str, i))

(* The end of the longest run of digits behind a place. *)
RunEnd(str, i) == CHOOSE j \in i .. Len(str) :
  /\ \A k \in i + 1 .. j : IsDigit(str[k])
  /\ j < Len(str) => ~IsDigit(str[j + 1])

(* The one scan from left to right of replaceURLPlaceholders, from a place  *)
(* on.                                                                      *)
ScanFrom(scan, template, values, str, i) ==
  LET j == RunEnd(str, i)
      index == Number(SubSeq(str, i + 1, j))
  IN IF i = Len(str) + 1 THEN <<>>
     ELSE IF str[i] = "$" /\ j > i /\ index < Len(values)
          THEN Inserted(template, values, index, i, str) \o scan[j + 1]
          ELSE <<str[i]>> \o scan[i + 1]

Scan(template, values, str) ==
  LET scan[i \in 1 .. Len(str) + 1] == ScanFrom(scan, template, values, str, i) IN scan[1]

(* Mutant of ReplaceURLPlaceholders: a pass over the whole string for each  *)
(* parameter, so that what one inserts the next looks at.                   *)
ReplaceInPasses(template, matches) ==
  LET prepared == ReplacePlaceholders(template, matches)
      passes[n \in 0 .. Len(prepared.values)] ==
        IF n = 0 THEN prepared.str
        ELSE LET str == passes[n - 1]
                 at  == IndexFirstSubSeq(Param(n - 1), str)
             IN ReplaceFirstSubSeq(Inserted(template, prepared.values, n - 1, at, str), Param(n - 1), str)
  IN passes[Len(prepared.values)]

ReplaceURLPlaceholders(template, matches) ==
  LET prepared == ReplacePlaceholders(template, matches)
  IN Scan(template, prepared.values, prepared.str)

-----------------------------------------------------------------------------
(* Each placeholder's own value where the placeholder stands, and nothing   *)
(* else changed: escaped for the path or the query unless the operator set  *)
(* it.                                                                      *)
Filled(template, i, matches) ==
  CASE template[i].source = "text"  -> template[i].key
    [] template[i].source = "coord" -> Coord[template[i].key]
    [] template[i].source = "env"   -> Value(template[i], matches)
    [] OTHER -> Escaped(Value(template[i], matches),
                        IF \E j \in 1 .. i - 1 : template[j] = [source |-> "text", key |-> <<"?">>]
                        THEN "query" ELSE "path")

FilledURL(template, matches) ==
  FlattenSeq([i \in 1 .. Len(template) |-> Filled(template, i, matches)])

(* No digit stands directly behind a parameter, or behind a "$". *)
Separated(template) ==
  \A i \in 1 .. Len(template) - 1 :
    IsParam(template[i]) \/ template[i] = [source |-> "text", key |-> <<"$">>] =>
      CASE template[i + 1].source = "text"  -> ~IsDigit(template[i + 1].key[1])
        [] template[i + 1].source = "coord" -> ~IsDigit(Coord[template[i + 1].key][1])
        [] OTHER -> TRUE
=============================================================================
