---------------------------- MODULE CommandsProofs -----------------------------
(***************************************************************************)
(* Proofs about LayerNames and Commands, for every configuration, every    *)
(* name and every set of options.  What recursive functions compute is     *)
(* proved by induction over a prefix or a suffix, as sets of numbers: the  *)
(* lemma UpTo.                                                             *)
(***************************************************************************)
EXTENDS Commands, WellFoundedInduction, FiniteSetTheorems, FunctionTheorems, SequenceTheorems, TLAPS

-----------------------------------------------------------------------------
(* Induction over the naturals, as a statement about sets.                  *)

LEMMA LeastElement ==
  ASSUME NEW S, S \subseteq Nat, S # {}
  PROVE  \E n \in S : \A m \in S : n <= m
<1>1. PICK n \in S : \A m \in S : ~ (<<m, n>> \in OpToRel(<, Nat))
  BY NatLessThanWellFounded, WFMin
<1>2. \A m \in S : ~ (m < n)  BY <1>1 DEF OpToRel
<1>3. QED  BY <1>2

LEMMA UpTo ==
  ASSUME NEW n \in Nat, NEW S, 0 \in S, \A i \in 0 .. n - 1 : i \in S => i + 1 \in S
  PROVE  \A i \in 0 .. n : i \in S
<1> DEFINE Missing == {i \in 0 .. n : i \notin S}
<1>1. SUFFICES ASSUME Missing # {} PROVE FALSE
  OBVIOUS
<1>2. \E i \in Missing : \A j \in Missing : i <= j
  <2>1. Missing \subseteq Nat  OBVIOUS
  <2> HIDE DEF Missing
  <2>2. QED  BY <1>1, <2>1, LeastElement
<1>3. PICK i \in Missing : \A j \in Missing : i <= j  BY <1>2
<1>4. i # 0 /\ i - 1 \in 0 .. n - 1 /\ i - 1 \notin Missing  BY <1>3
<1>5. QED  BY <1>4

-----------------------------------------------------------------------------
(* FlattenSeq, by the length of what was joined so far.                     *)

Joined(s) ==
  CHOOSE f : f = [i \in 1 .. Len(s) |-> IF i = 1 THEN s[i] ELSE f[i - 1] \o s[i]]

LEMMA JoinedExists ==
  ASSUME NEW s, Len(s) \in Nat
  PROVE  Joined(s) = [i \in 1 .. Len(s) |-> IF i = 1 THEN s[i] ELSE Joined(s)[i - 1] \o s[i]]
<1> DEFINE Good == {n \in Nat : \E f : f = [i \in 1 .. n |-> IF i = 1 THEN s[i] ELSE f[i - 1] \o s[i]]}
<1>1. 0 \in Good
  <2> DEFINE f == [i \in 1 .. 0 |-> s[i]]
  <2>1. f = [i \in 1 .. 0 |-> IF i = 1 THEN s[i] ELSE f[i - 1] \o s[i]]  OBVIOUS
  <2>2. QED  BY <2>1
<1>2. ASSUME NEW n \in Nat, n \in Good PROVE n + 1 \in Good
  <2>1. PICK f : f = [i \in 1 .. n |-> IF i = 1 THEN s[i] ELSE f[i - 1] \o s[i]]
    BY <1>2
  <2> DEFINE g == [i \in 1 .. n + 1 |-> IF i <= n THEN f[i] ELSE IF i = 1 THEN s[i] ELSE f[n] \o s[i]]
  <2>2. g = [i \in 1 .. n + 1 |-> IF i = 1 THEN s[i] ELSE g[i - 1] \o s[i]]
    <3>1. \A i \in 1 .. n : g[i] = f[i]  OBVIOUS
    <3>2. \A i \in 1 .. n : f[i] = IF i = 1 THEN s[i] ELSE f[i - 1] \o s[i]  BY <2>1
    <3>3. \A i \in 1 .. n : g[i] = IF i = 1 THEN s[i] ELSE g[i - 1] \o s[i]  BY <3>1, <3>2
    <3>4. g[n + 1] = IF n + 1 = 1 THEN s[n + 1] ELSE g[n] \o s[n + 1]  BY <3>1
    <3>5. \A i \in 1 .. n + 1 : g[i] = IF i = 1 THEN s[i] ELSE g[i - 1] \o s[i]
      <4> HIDE DEF g
      <4> TAKE i \in 1 .. n + 1
      <4>1. CASE i \in 1 .. n  BY <3>3, <4>1
      <4>2. CASE i = n + 1
        <5>1. i - 1 = n  BY <4>2
        <5>2. QED  BY <3>4, <4>2, <5>1, Zenon
      <4>3. QED  BY <4>1, <4>2
    <3>6. g = [i \in 1 .. n + 1 |-> g[i]]  OBVIOUS
    <3> HIDE DEF g
    <3>7. QED  BY <3>5, <3>6, Zenon
  <2>3. n + 1 \in Nat  OBVIOUS
  <2> HIDE DEF g
  <2>4. QED  BY <2>2, <2>3, Zenon
<1>3. Len(s) \in Good
  <2> HIDE DEF Good
  <2>1. \A i \in 0 .. Len(s) - 1 : i \in Good => i + 1 \in Good  BY <1>2
  <2>2. PICK n \in Nat : n = Len(s)  OBVIOUS
  <2>3. \A i \in 0 .. n : i \in Good  BY <1>1, <2>1, <2>2, UpTo
  <2>4. QED  BY <2>2, <2>3
<1>4. QED  BY <1>3 DEF Joined

Flat(s, k) == IF k = 0 THEN <<>> ELSE Joined(s)[k]

LEMMA FlatSteps ==
  ASSUME NEW S, NEW s \in Seq(Seq(S))
  PROVE  /\ Flat(s, 0) = <<>>
         /\ \A k \in 0 .. Len(s) : Flat(s, k) \in Seq(S)
         /\ \A k \in 0 .. Len(s) - 1 : Flat(s, k + 1) = Flat(s, k) \o s[k + 1]
         /\ FlattenSeq(s) = Flat(s, Len(s))
<1>1. Len(s) \in Nat /\ \A k \in 1 .. Len(s) : s[k] \in Seq(S)  OBVIOUS
<1>2. \A k \in 0 .. Len(s) - 1 : Flat(s, k + 1) = Flat(s, k) \o s[k + 1]
  <2> TAKE k \in 0 .. Len(s) - 1
  <2>1. k + 1 \in 1 .. Len(s) /\ k + 1 - 1 = k /\ k + 1 # 0  BY <1>1
  <2>2. Joined(s)[k + 1] = IF k + 1 = 1 THEN s[k + 1] ELSE Joined(s)[k] \o s[k + 1]
    <3>1. \A i \in 1 .. Len(s) : Joined(s)[i] = IF i = 1 THEN s[i] ELSE Joined(s)[i - 1] \o s[i]
      BY JoinedExists, <1>1
    <3>2. PICK m \in 1 .. Len(s) : m = k + 1  BY <2>1
    <3>3. m - 1 = k  BY <3>2
    <3>4. Joined(s)[m] = IF m = 1 THEN s[m] ELSE Joined(s)[k] \o s[m]  BY <3>1, <3>3
    <3>5. QED  BY <3>2, <3>4, Zenon
  <2>3. CASE k = 0
    <3>1. <<>> \o s[1] = s[1]  BY <1>1, <2>1, <2>3, ConcatEmptySeq
    <3>2. QED  BY <2>1, <2>2, <2>3, <3>1 DEF Flat
  <2>4. CASE k # 0
    <3>1. k + 1 # 1  BY <2>4
    <3>2. QED  BY <2>1, <2>2, <2>4, <3>1, Zenon DEF Flat
  <2>5. QED  BY <2>3, <2>4
<1>3. \A k \in 0 .. Len(s) : Flat(s, k) \in Seq(S)
  <2> DEFINE Good == {k \in 0 .. Len(s) : Flat(s, k) \in Seq(S)}
  <2>1. 0 \in Good  BY <1>1 DEF Flat
  <2>2. \A k \in 0 .. Len(s) - 1 : k \in Good => k + 1 \in Good
    <3> SUFFICES ASSUME NEW k \in 0 .. Len(s) - 1, k \in Good PROVE Flat(s, k + 1) \in Seq(S)
      BY <1>1
    <3>1. Flat(s, k + 1) = Flat(s, k) \o s[k + 1]  BY <1>2
    <3>2. s[k + 1] \in Seq(S)  BY <1>1
    <3>3. QED  BY <3>1, <3>2, ConcatProperties
  <2>3. QED  BY <1>1, <2>1, <2>2, UpTo
<1>4. FlattenSeq(s) = Flat(s, Len(s))
  BY <1>1 DEF FlattenSeq, Flat, Joined
<1>5. QED  BY <1>2, <1>3, <1>4 DEF Flat

-----------------------------------------------------------------------------
(* LayerNames: types, and the depth of a chain of refs.                     *)

LEMMA MinOfNats ==
  ASSUME NEW S, S \subseteq Nat, S # {}
  PROVE  Min(S) \in S /\ \A n \in S : Min(S) <= n
<1>1. \E n \in S : \A m \in S : n <= m  BY LeastElement
<1>2. QED  BY <1>1 DEF Min

NamesType ==
  /\ layers \in Config
  /\ place \in {"config", "refused", "accepted", "render", "missing", "generate", "tile", "too deep"}
  /\ name \in Str
  /\ place \in {"generate", "tile"} => found \in DOMAIN layers
  /\ hops \in 0 .. MaxRefDepth /\ depth = hops

LEMMA LayerFacts ==
  ASSUME NamesType
  PROVE  /\ Len(layers) \in Nat /\ DOMAIN layers = 1 .. Len(layers)
         /\ \A i \in DOMAIN layers : IsLayer(layers[i])
BY LayerNamesAssumption DEF NamesType

LEMMA RefsAreNames ==
  ASSUME NEW l, IsLayer(l)
  PROVE  Refs(l.provider) \subseteq Str
BY DEF IsLayer, Node, Refs

LEMMA NamesTypeInit == Init => NamesType
<1>1. <<>> \in Str  BY EmptySeq DEF Str
<1>2. QED  BY <1>1, LayerNamesAssumption DEF Init, NamesType

LEMMA NamesTypeNext == NamesType /\ [Next]_vars => NamesType'
<1> SUFFICES ASSUME NamesType, [Next]_vars PROVE NamesType'
  OBVIOUS
<1> USE LayerNamesAssumption
<1>1. CASE ConstructLayerGroup  BY <1>1 DEF ConstructLayerGroup, NamesType
<1>2. CASE Request  BY <1>2 DEF Request, NamesType
<1>3. CASE FindLayer
  <2> DEFINE hit == {i \in DOMAIN layers : MatchesName(layers[i], name)}
  <2>1. hit # {} => Min(hit) \in DOMAIN layers
    <3>1. hit \subseteq Nat /\ hit \subseteq DOMAIN layers  BY LayerFacts
    <3> HIDE DEF hit
    <3>2. QED  BY <3>1, MinOfNats
  <2> HIDE DEF hit
  <2>2. place' = "missing" \/ (place' = "generate" /\ found' = Min(hit) /\ hit # {})
    BY <1>3 DEF FindLayer, hit
  <2>3. UNCHANGED <<layers, name, depth, hops>>  BY <1>3 DEF FindLayer
  <2>4. QED  BY <2>1, <2>2, <2>3 DEF NamesType
<1>4. CASE Tile
  <2>1. place = "generate" /\ place' = "tile" /\ UNCHANGED <<layers, name, matches, found, depth, hops>>
    BY <1>4 DEF Tile
  <2>2. QED  BY <2>1 DEF NamesType
<1>5. CASE place = "generate" /\ \E target \in Refs(layers[found].provider) : Forward(target)
  <2>1. PICK target \in Refs(layers[found].provider) : Forward(target)  BY <1>5
  <2>2. target \in Str
    <3>1. IsLayer(layers[found])  BY <1>5, LayerFacts DEF NamesType
    <3>2. QED  BY <2>1, <3>1, RefsAreNames
  <2>3. MaxRefDepth \in Nat  BY LayerNamesAssumption
  <2>4. CASE depth >= MaxRefDepth
    <3>1. place' = "too deep" /\ UNCHANGED <<layers, name, matches, found, depth, hops>>
      BY <2>1, <2>4 DEF Forward
    <3>2. QED  BY <3>1 DEF NamesType
  <2>5. CASE ~(depth >= MaxRefDepth)
    <3>1. place' = "render" /\ name' = target /\ layers' = layers
      BY <2>1, <2>5 DEF Forward
    <3>2. depth' = depth + 1 /\ hops' = hops + 1 /\ depth + 1 \in 0 .. MaxRefDepth
      <4>1. depth' = depth + 1 /\ hops' = IF hops <= MaxRefDepth THEN hops + 1 ELSE hops
        BY <2>1, <2>5 DEF Forward
      <4>2. hops \in 0 .. MaxRefDepth /\ depth = hops  BY DEF NamesType
      <4> HIDE LayerNamesAssumption
      <4>3. QED  BY <2>3, <2>5, <4>1, <4>2
    <3>3. QED  BY <2>2, <3>1, <3>2 DEF NamesType
  <2>6. QED  BY <2>4, <2>5
<1>6. CASE UNCHANGED vars  BY <1>6 DEF vars, NamesType
<1>7. QED  BY <1>1, <1>2, <1>3, <1>4, <1>5, <1>6 DEF Next

(* A request on its way through layers and refs is of the right types, and  *)
(* its count of refs within the limit (ref.go:67-88).                       *)
THEOREM NamesTypeInvariance == Spec => []NamesType
<1>1. QED  BY NamesTypeInit, NamesTypeNext, PTL DEF Spec

(* A chain of refs ends after maxRefDepth of them, whatever the patterns    *)
(* and the refs: the depth is taken over into every new context             *)
(* (ref.go:67-88).                                                          *)
THEOREM ChainsAreShort == Spec => []RefsBounded
<1>1. NamesType => RefsBounded
  <2>1. MaxRefDepth \in Nat  BY LayerNamesAssumption
  <2>2. NamesType => hops \in 0 .. MaxRefDepth  BY DEF NamesType
  <2>3. hops \in 0 .. MaxRefDepth => hops <= MaxRefDepth  BY <2>1
  <2>4. QED  BY <2>2, <2>3 DEF RefsBounded
<1>2. QED  BY <1>1, NamesTypeInvariance, PTL

(* The seed and test commands construct layers as serving does and leave    *)
(* requests alone (seed.go:42-55): what is proved of Spec holds of them.    *)
THEOREM CommandsRefineLayerNames == CommandsSpec => Spec
<1>1. CommandsInit => Init  BY DEF CommandsInit
<1>2. [CommandsNext]_allVars => [Next]_vars
  <2> SUFFICES ASSUME [CommandsNext]_allVars PROVE [Next]_vars
    OBVIOUS
  <2>1. CASE stage = "idle" /\ Next /\ UNCHANGED commandVars  BY <2>1
  <2>2. CASE Built /\ \E o \in SeedOptions : Seed(o)  BY <2>2 DEF Seed, Run
  <2>3. CASE Built /\ \E o \in TestOptions : Test(o)  BY <2>3 DEF Test, Run
  <2>4. CASE \E t \in Thread : SeedTile(t) \/ SeedPanics(t) \/ TestTile(t) \/ TestPanics(t)
    BY <2>4 DEF SeedTile, SeedPanics, TestTile, TestPanics
  <2>5. CASE Finish  BY <2>5 DEF Finish
  <2>6. CASE UNCHANGED allVars  BY <2>6 DEF allVars
  <2>7. QED  BY <2>1, <2>2, <2>3, <2>4, <2>5, <2>6 DEF CommandsNext
<1>3. QED  BY <1>1, <1>2, PTL DEF CommandsSpec, Spec

-----------------------------------------------------------------------------
(* LayerNames: the rounds of match.                                         *)

Start(str) == [ok |-> TRUE, last |-> <<>>, rest |-> str, values |-> <<>>]

After(segments, str) ==
  CHOOSE f : f = [i \in 0 .. Len(segments) |-> IF i = 0 THEN Start(str) ELSE MatchSegment(f[i - 1], segments[i])]

LEMMA AfterExists ==
  ASSUME NEW segments, NEW str, Len(segments) \in Nat
  PROVE  After(segments, str) =
           [i \in 0 .. Len(segments) |->
              IF i = 0 THEN Start(str) ELSE MatchSegment(After(segments, str)[i - 1], segments[i])]
<1> DEFINE Rounds(n) ==
      \E f : f = [i \in 0 .. n |-> IF i = 0 THEN Start(str) ELSE MatchSegment(f[i - 1], segments[i])]
<1> DEFINE Good == {n \in Nat : Rounds(n)}
<1>1. 0 \in Good
  <2> DEFINE f == [i \in 0 .. 0 |-> Start(str)]
  <2>1. f = [i \in 0 .. 0 |-> IF i = 0 THEN Start(str) ELSE MatchSegment(f[i - 1], segments[i])]  OBVIOUS
  <2>2. QED  BY <2>1
<1>2. ASSUME NEW n \in Nat, n \in Good PROVE n + 1 \in Good
  <2>1. PICK f : f = [i \in 0 .. n |-> IF i = 0 THEN Start(str) ELSE MatchSegment(f[i - 1], segments[i])]
    BY <1>2
  <2> DEFINE g == [i \in 0 .. n + 1 |-> IF i <= n THEN f[i] ELSE MatchSegment(f[n], segments[i])]
  <2>2. g = [i \in 0 .. n + 1 |-> IF i = 0 THEN Start(str) ELSE MatchSegment(g[i - 1], segments[i])]
    <3>1. \A i \in 0 .. n : g[i] = f[i]  OBVIOUS
    <3>2. \A i \in 0 .. n : f[i] = IF i = 0 THEN Start(str) ELSE MatchSegment(f[i - 1], segments[i])
      <4> TAKE i \in 0 .. n
      <4>1. QED  BY <2>1, Zenon
    <3>3. \A i \in 0 .. n : g[i] = IF i = 0 THEN Start(str) ELSE MatchSegment(g[i - 1], segments[i])
      <4> HIDE DEF g
      <4> TAKE i \in 0 .. n
      <4>1. CASE i = 0  BY <3>1, <3>2, <4>1
      <4>2. CASE i # 0
        <5>1. i - 1 \in 0 .. n  BY <4>2
        <5>2. g[i] = f[i] /\ g[i - 1] = f[i - 1]  BY <3>1, <5>1
        <5>3. f[i] = MatchSegment(f[i - 1], segments[i])  BY <3>2, <4>2
        <5>4. QED  BY <4>2, <5>2, <5>3
      <4>3. QED  BY <4>1, <4>2
    <3>4. g[n + 1] = MatchSegment(g[n], segments[n + 1])  BY <3>1
    <3>5. \A i \in 0 .. n + 1 : g[i] = IF i = 0 THEN Start(str) ELSE MatchSegment(g[i - 1], segments[i])
      <4> HIDE DEF g
      <4> TAKE i \in 0 .. n + 1
      <4>1. CASE i \in 0 .. n  BY <3>3, <4>1
      <4>2. CASE i = n + 1
        <5>1. i - 1 = n /\ i # 0  BY <4>2
        <5>2. QED  BY <3>4, <4>2, <5>1, Zenon
      <4>3. QED  BY <4>1, <4>2
    <3>6. g = [i \in 0 .. n + 1 |-> g[i]]  OBVIOUS
    <3> HIDE DEF g
    <3>7. QED  BY <3>5, <3>6, Zenon
  <2>3. n + 1 \in Nat  OBVIOUS
  <2> HIDE DEF g
  <2>4. QED  BY <2>2, <2>3, Zenon
<1>3. Len(segments) \in Good
  <2> HIDE DEF Good
  <2>1. \A i \in 0 .. Len(segments) - 1 : i \in Good => i + 1 \in Good  BY <1>2
  <2>2. PICK n \in Nat : n = Len(segments)  OBVIOUS
  <2>3. \A i \in 0 .. n : i \in Good  BY <1>1, <2>1, <2>2, UpTo
  <2>4. QED  BY <2>2, <2>3
<1>4. QED  BY <1>3 DEF After

LEMMA AfterSteps ==
  ASSUME NEW segments, NEW str, Len(segments) \in Nat
  PROVE  /\ After(segments, str)[0] = Start(str)
         /\ \A i \in 1 .. Len(segments) :
              After(segments, str)[i] = MatchSegment(After(segments, str)[i - 1], segments[i])
         /\ Matched(segments, str) = After(segments, str)[Len(segments)]
<1> DEFINE f == After(segments, str)
<1>1. f = [i \in 0 .. Len(segments) |-> IF i = 0 THEN Start(str) ELSE MatchSegment(f[i - 1], segments[i])]
  BY AfterExists, Zenon
<1>2. Matched(segments, str) = f[Len(segments)]
  BY DEF Matched, After, Start
<1> HIDE DEF f
<1>3. f[0] = Start(str)  BY <1>1
<1>4. ASSUME NEW i \in 1 .. Len(segments) PROVE f[i] = MatchSegment(f[i - 1], segments[i])
  <2>1. i \in 0 .. Len(segments) /\ i # 0  OBVIOUS
  <2>2. QED  BY <1>1, <2>1, Zenon
<1>5. QED  BY <1>2, <1>3, <1>4 DEF f

(* The rest of a sequence, behind a place.                                  *)
LEMMA Rest ==
  ASSUME NEW S, NEW s \in Seq(S), NEW i \in Nat, i <= Len(s)
  PROVE  /\ From(s, i) \in Seq(S)
         /\ Len(From(s, i)) = Len(s) - i
         /\ SubSeq(s, 1, i) \in Seq(S)
         /\ Len(SubSeq(s, 1, i)) = i
         /\ SubSeq(s, 1, i) \o From(s, i) = s
         /\ From(s, i) = <<>> <=> i = Len(s)
         /\ \A k \in 1 .. Len(s) - i : From(s, i)[k] = s[i + k]
<1>0. Len(s) \in Nat /\ (\A k \in 1 .. Len(s) : s[k] \in S)  OBVIOUS
<1>1. From(s, i) \in Seq(S) /\ Len(From(s, i)) = Len(s) - i /\ \A k \in 1 .. Len(s) - i : From(s, i)[k] = s[i + k]
  <2>1. i + 1 \in Int /\ Len(s) \in Int /\ \A k \in i + 1 .. Len(s) : s[k] \in S  BY <1>0
  <2>2. /\ SubSeq(s, i + 1, Len(s)) \in Seq(S)
        /\ Len(SubSeq(s, i + 1, Len(s))) = IF i + 1 <= Len(s) THEN Len(s) - (i + 1) + 1 ELSE 0
        /\ \A k \in 1 .. Len(s) - (i + 1) + 1 : SubSeq(s, i + 1, Len(s))[k] = s[i + 1 + k - 1]
    BY <2>1, SubSeqProperties
  <2>3. Len(s) - (i + 1) + 1 = Len(s) - i /\ (~(i + 1 <= Len(s)) => Len(s) - i = 0)  BY <1>0
  <2>4. \A k \in 1 .. Len(s) - i : i + 1 + k - 1 = i + k  BY <1>0
  <2>5. \A k \in 1 .. Len(s) - i : SubSeq(s, i + 1, Len(s))[k] = s[i + k]  BY <2>2, <2>3, <2>4
  <2>6. Len(SubSeq(s, i + 1, Len(s))) = Len(s) - i  BY <2>2, <2>3
  <2>7. QED  BY <2>2, <2>5, <2>6 DEF From
<1>2. SubSeq(s, 1, i) \in Seq(S) /\ Len(SubSeq(s, 1, i)) = i
  <2>1. 1 \in Int /\ i \in Int /\ \A k \in 1 .. i : s[k] \in S  BY <1>0
  <2>2. SubSeq(s, 1, i) \in Seq(S) /\ Len(SubSeq(s, 1, i)) = IF 1 <= i THEN i - 1 + 1 ELSE 0
    BY <2>1, SubSeqProperties
  <2>3. QED  BY <2>2
<1>3. SubSeq(s, 1, i) \o From(s, i) = s
  <2>1. 1 \in 1 .. Len(s) + 1 /\ i \in 1 - 1 .. Len(s) /\ Len(s) \in i .. Len(s)  BY <1>0
  <2>2. SubSeq(s, 1, i) \o SubSeq(s, i + 1, Len(s)) = SubSeq(s, 1, Len(s))  BY <2>1, ConcatAdjacentSubSeq
  <2>3. SubSeq(s, 1, Len(s)) = s  BY SubSeqFull
  <2>4. QED  BY <2>2, <2>3 DEF From
<1>4. From(s, i) = <<>> <=> i = Len(s)
  <2>1. i = Len(s) => From(s, i) = <<>>  BY <1>0, SubSeqEmpty DEF From
  <2>2. Len(<<>>) = 0  OBVIOUS
  <2>3. QED  BY <1>0, <1>1, <2>1, <2>2
<1>5. QED  BY <1>1, <1>2, <1>3, <1>4

LEMMA IndexFound ==
  ASSUME NEW str \in Str, NEW value \in Str
  PROVE  LET first == Index(str, value) IN
         /\ first = -1 \/ (first \in Nat /\ first + Len(value) <= Len(str)
                            /\ SubSeq(str, first + 1, first + Len(value)) = value)
         /\ \A i \in Nat : i + Len(value) <= Len(str) /\ SubSeq(str, i + 1, i + Len(value)) = value =>
              first # -1 /\ first <= i
<1> DEFINE places == {i \in 0 .. Len(str) - Len(value) : SubSeq(str, i + 1, i + Len(value)) = value}
<1>1. Len(str) \in Nat /\ Len(value) \in Nat  BY DEF Str
<1>2. places \subseteq Nat  BY <1>1
<1>3. Index(str, value) = IF places = {} THEN -1 ELSE Min(places)  BY DEF Index
<1>4. \A i \in places : i \in Nat /\ i + Len(value) <= Len(str) /\ SubSeq(str, i + 1, i + Len(value)) = value
  BY <1>1
<1>5. \A i \in Nat : i + Len(value) <= Len(str) /\ SubSeq(str, i + 1, i + Len(value)) = value => i \in places
  BY <1>1
<1> HIDE DEF places
<1>6. CASE places = {}  BY <1>3, <1>5, <1>6
<1>7. CASE places # {}
  <2>1. Min(places) \in places /\ \A n \in places : Min(places) <= n  BY <1>2, <1>7, MinOfNats
  <2>2. Index(str, value) = Min(places)  BY <1>3, <1>7
  <2>3. Index(str, value) \in Nat  BY <1>4, <2>1, <2>2
  <2>4. \A i \in places : Index(str, value) # -1 /\ Index(str, value) <= i  BY <2>1, <2>2, <2>3
  <2>5. QED  BY <1>4, <1>5, <2>1, <2>2, <2>4
<1>8. QED  BY <1>6, <1>7

(* A layer without a pattern goes by its ID.                                *)
LEMMA IDsMatchThemselves ==
  ASSUME NEW l, l.id \in Str, l.pattern = <<>>, NEW str \in Str
  PROVE  MatchesName(l, str) <=> str = l.id
<1> DEFINE seg == Literal(l.id)
<1> DEFINE segments == <<seg>>
<1> DEFINE m == MatchSegment(Start(str), seg)
<1>1. Segments(l).segments = segments  BY DEF Segments, HasPattern
<1>2. Len(segments) = 1 /\ segments[1] = seg  OBVIOUS
<1>3. seg.value = l.id /\ seg.placeholder = FALSE  BY DEF Literal
<1>4. Matched(segments, str) = m
  <2> HIDE DEF seg
  <2>1. Len(segments) \in Nat /\ 1 \in 1 .. Len(segments) /\ 1 - 1 = 0  OBVIOUS
  <2> HIDE DEF segments
  <2>2. After(segments, str)[1] = MatchSegment(After(segments, str)[0], segments[1])
    <3>1. \A i \in 1 .. Len(segments) :
            After(segments, str)[i] = MatchSegment(After(segments, str)[i - 1], segments[i])
      BY <2>1, AfterSteps, Zenon
    <3>2. PICK i \in 1 .. Len(segments) : i = 1 /\ i - 1 = 0  BY <2>1
    <3>3. QED  BY <3>1, <3>2
  <2>3. After(segments, str)[0] = Start(str) /\ Matched(segments, str) = After(segments, str)[Len(segments)]
    BY <2>1, AfterSteps
  <2>4. QED  BY <1>2, <2>2, <2>3
<1>5. MatchesName(l, str) <=> Match(segments, str).ok
  BY <1>1, Zenon DEF MatchesName
<1>6. Start(str).ok /\ Start(str).last = <<>> /\ Start(str).rest = str  BY DEF Start
<1>7. Index(str, l.id) = 0 => m.ok /\ m.last = <<>> /\ m.rest = From(str, Len(l.id))
  <2>1. l.id \in Str => 0 + Len(l.id) = Len(l.id)  BY DEF Str
  <2> HIDE DEF seg
  <2>2. QED  BY <1>3, <1>6, <2>1 DEF MatchSegment
<1>8. Index(str, l.id) # 0 => ~m.ok
  <2>1. Index(str, l.id) = -1 \/ Index(str, l.id) \in Nat  BY IndexFound
  <2>2. m = IF Index(str, l.id) # 0 THEN [Start(str) EXCEPT !.ok = FALSE] ELSE m
    <3> HIDE DEF seg
    <3>1. QED  BY <1>3, <1>6, <2>1 DEF MatchSegment
  <2>3. [Start(str) EXCEPT !.ok = FALSE].ok = FALSE  BY DEF Start
  <2> HIDE DEF m
  <2>4. QED  BY <2>2, <2>3
<1>9. Match(segments, str).ok <=> (m.ok /\ (m.last = <<>> => m.rest = <<>>))
  <2> HIDE DEF segments, m
  <2>1. QED  BY <1>4 DEF Match
<1>10. CASE str = l.id
  <2>1. Len(str) \in Nat /\ SubSeq(str, 1, Len(str)) = str  BY SubSeqFull DEF Str
  <2>2. Index(str, l.id) = 0
    <3>1. 0 + Len(str) <= Len(str) /\ SubSeq(str, 0 + 1, 0 + Len(str)) = str  BY <2>1
    <3>2. Index(str, str) # -1 /\ Index(str, str) <= 0  BY <3>1, IndexFound
    <3>3. Index(str, str) \in Nat \/ Index(str, str) = -1  BY IndexFound
    <3>4. QED  BY <1>10, <3>2, <3>3
  <2>3. From(str, Len(str)) = <<>>
    BY <2>1, SubSeqEmpty DEF From, Str
  <2>4. QED  BY <1>5, <1>7, <1>9, <1>10, <2>2, <2>3
<1>11. CASE MatchesName(l, str)
  <2>1. Index(str, l.id) = 0  BY <1>5, <1>8, <1>9, <1>11
  <2>2. From(str, Len(l.id)) = <<>>  BY <1>5, <1>7, <1>9, <1>11, <2>1
  <2>3. Len(l.id) <= Len(str) /\ SubSeq(str, 1, Len(l.id)) = l.id
    <3>1. Len(l.id) \in Nat /\ Len(str) \in Nat  BY DEF Str
    <3>2. 0 + Len(l.id) = Len(l.id) /\ 0 + 1 = 1  BY <3>1
    <3>3. PICK i : i = Index(str, l.id) /\ i = 0  BY <2>1
    <3>4. i = -1 \/ (i \in Nat /\ i + Len(l.id) <= Len(str) /\ SubSeq(str, i + 1, i + Len(l.id)) = l.id)
      BY <3>3, IndexFound, ZenonT(30)
    <3>5. i # -1  BY <3>3
    <3>6. QED  BY <3>1, <3>2, <3>3, <3>4, <3>5
  <2>4. str \in Seq(Char) /\ Len(l.id) \in Nat  BY DEF Str
  <2>5. Len(l.id) = Len(str)  BY <2>2, <2>3, <2>4, Rest
  <2>6. SubSeq(str, 1, Len(str)) = str  BY <2>4, SubSeqFull
  <2>7. QED  BY <1>11, <2>3, <2>5, <2>6
<1>12. QED  BY <1>10, <1>11

-----------------------------------------------------------------------------
(* LayerNames: chains of refs between IDs.                                  *)

ByIDs == \A i \in DOMAIN layers : layers[i].pattern = <<>> /\ Listed(layers[i].provider)

IDs == {layers[i].id : i \in DOMAIN layers}

IsChain(path, n) == path \in [0 .. n -> Str] /\ \A k \in 0 .. n - 1 : RefersTo(path[k], path[k + 1])

Chain == \E path : IsChain(path, hops) /\ path[hops] = name

ChainInv ==
  /\ NamesType
  /\ place \in {"config", "refused", "accepted"} => hops = 0
  /\ place \in {"accepted", "render", "missing", "generate"} => ValidateRefs
  /\ ByIDs =>
       /\ place = "generate" => layers[found].id = name
       /\ hops > 0 => name \in IDs /\ ValidateRefs
       /\ place = "missing" => hops = 0
       /\ Chain

LEMMA TargetsAreIDs ==
  ASSUME NamesType, ByIDs, ValidateRefs, NEW i \in DOMAIN layers, NEW target \in Refs(layers[i].provider)
  PROVE  target \in IDs /\ RefersTo(layers[i].id, target)
<1>1. target \in FindRefTargets(layers[i].provider)
  <2>1. Listed(layers[i].provider)  BY DEF ByIDs
  <2>2. PICK node \in layers[i].provider : node.kind = "ref" /\ target = node.layer
    BY <2>1 DEF Refs, Listed
  <2>3. target # <<>>  BY <2>1, <2>2 DEF Listed
  <2>4. QED  BY <2>2, <2>3 DEF FindRefTargets
<1>2. \A j \in DOMAIN layers : ~HasPattern(layers[j])  BY DEF ByIDs, HasPattern
<1>3. FindRefTargets(layers[i].provider) \subseteq IDs  BY <1>2 DEF ValidateRefs, Dangling, IDs
<1>4. QED  BY <1>1, <1>3 DEF RefersTo

LEMMA ChainInvInit == Init => ChainInv
<1> SUFFICES ASSUME Init PROVE ChainInv
  OBVIOUS
<1>1. NamesType  BY NamesTypeInit
<1>2. hops = 0 /\ place = "config" /\ name \in Str  BY <1>1 DEF Init, NamesType
<1>3. Chain
  <2> DEFINE path == [k \in 0 .. 0 |-> name]
  <2>1. IsChain(path, 0) /\ path[0] = name  BY <1>2 DEF IsChain
  <2> HIDE DEF path
  <2>2. QED  BY <1>2, <2>1 DEF Chain
<1>4. QED  BY <1>1, <1>2, <1>3 DEF ChainInv

LEMMA ChainInvNext == ChainInv /\ [Next]_vars => ChainInv'
<1> SUFFICES ASSUME ChainInv, [Next]_vars PROVE ChainInv'
  OBVIOUS
<1>1. NamesType /\ NamesType'  BY NamesTypeNext DEF ChainInv
<1>2. layers' = layers /\ (ValidateRefs' <=> ValidateRefs) /\ (ByIDs' <=> ByIDs) /\ IDs' = IDs
  <2>1. layers' = layers
    BY DEF Next, vars, ConstructLayerGroup, Request, FindLayer, Tile, Forward
  <2>2. QED
    BY <2>1 DEF ValidateRefs, Dangling, RefCycle, RefIDs, RefersTo, ByIDs, IDs
<1>3. UNCHANGED <<name, hops>> => (Chain' <=> Chain)
  BY <1>2 DEF Chain, IsChain, RefersTo
<1>4. hops \in Nat
  <2>1. hops \in 0 .. MaxRefDepth  BY <1>1 DEF NamesType
  <2> HIDE <1>1
  <2>2. QED  BY <2>1
<1>41. ASSUME NEW path, path \in [0 .. hops' -> Str], path[hops'] = name',
              \A k \in 0 .. hops' - 1 : RefersTo(path[k], path[k + 1])
       PROVE  Chain'
  BY <1>2, <1>41 DEF Chain, IsChain, RefersTo
<1>5. CASE ConstructLayerGroup
  <2>1. place = "config" /\ place' = (IF Distinct /\ ValidateRefs /\ Constructed THEN "accepted" ELSE "refused")
        /\ UNCHANGED <<name, hops, found>>
    BY <1>5 DEF ConstructLayerGroup
  <2>2. place' \in {"accepted", "refused"} /\ hops = 0 /\ (place' = "accepted" => ValidateRefs)
    BY <2>1 DEF ChainInv
  <2>3. QED  BY <1>1, <1>2, <1>3, <2>1, <2>2 DEF ChainInv
<1>6. CASE Request
  <2>1. place = "accepted" /\ place' = "render" /\ hops' = hops /\ hops = 0 /\ ValidateRefs /\ name' \in Str
    BY <1>1, <1>6 DEF Request, ChainInv, NamesType
  <2>2. Chain'
    <3> DEFINE path == [k \in 0 .. 0 |-> name']
    <3>1. hops' = 0 /\ path \in [0 .. 0 -> Str] /\ path[0] = name' /\ 0 .. 0 - 1 = {}
      BY <2>1
    <3> HIDE DEF path
    <3>2. QED  BY <1>41, <3>1
  <2>3. QED  BY <1>1, <1>2, <2>1, <2>2 DEF ChainInv
<1>7. CASE FindLayer
  <2> DEFINE hit == {i \in DOMAIN layers : MatchesName(layers[i], name)}
  <2>1. place = "render" /\ UNCHANGED <<name, hops>> /\ ValidateRefs
    BY <1>7 DEF FindLayer, ChainInv
  <2>2. (hit = {} /\ place' = "missing") \/ (hit # {} /\ place' = "generate" /\ found' = Min(hit))
    BY <1>7 DEF FindLayer
  <2>3. \A i \in DOMAIN layers : ByIDs => (i \in hit <=> layers[i].id = name)
    <3> TAKE i \in DOMAIN layers
    <3>1. layers[i].id \in Str /\ name \in Str  BY <1>1, LayerFacts DEF IsLayer, NamesType
    <3>2. ByIDs => (MatchesName(layers[i], name) <=> name = layers[i].id)
      BY <3>1, IDsMatchThemselves DEF ByIDs
    <3>3. QED  BY <3>2
  <2>4. hit \subseteq Nat /\ hit \subseteq DOMAIN layers  BY <1>1, LayerFacts
  <2> HIDE DEF hit
  <2>5. hit # {} => Min(hit) \in hit  BY <2>4, MinOfNats
  <2>6. ByIDs /\ place' = "generate" => layers[found'].id = name  BY <2>2, <2>3, <2>4, <2>5
  <2>7. ByIDs /\ place' = "missing" => hops = 0
    <3>1. ByIDs /\ place' = "missing" => name \notin IDs  BY <2>2, <2>3 DEF IDs
    <3>2. QED  BY <1>4, <3>1 DEF ChainInv
  <2>8. QED  BY <1>1, <1>2, <1>3, <2>1, <2>2, <2>6, <2>7 DEF ChainInv
<1>8. CASE Tile
  <2>1. place' = "tile" /\ place = "generate" /\ UNCHANGED <<name, hops, found>>
    BY <1>8 DEF Tile
  <2>2. QED  BY <1>1, <1>2, <1>3, <2>1 DEF ChainInv
<1>9. CASE place = "generate" /\ \E target \in Refs(layers[found].provider) : Forward(target)
  <2>1. PICK target \in Refs(layers[found].provider) : Forward(target)  BY <1>9
  <2>2. CASE depth >= MaxRefDepth
    <3>1. place' = "too deep" /\ UNCHANGED <<name, hops>>  BY <2>1, <2>2 DEF Forward
    <3>2. QED  BY <1>1, <1>2, <1>3, <1>9, <3>1 DEF ChainInv
  <2>3. CASE ~(depth >= MaxRefDepth)
    <3>1. place' = "render" /\ name' = target  BY <2>1, <2>3 DEF Forward
    <3>2. hops' = hops + 1
      <4>1. MaxRefDepth \in Nat  BY LayerNamesAssumption
      <4>2. hops <= MaxRefDepth
        <5>1. hops \in 0 .. MaxRefDepth  BY <1>1 DEF NamesType
        <5> HIDE <1>1
        <5>2. QED  BY <4>1, <5>1
      <4>3. hops' = IF hops <= MaxRefDepth THEN hops + 1 ELSE hops  BY <2>1, <2>3 DEF Forward
      <4>4. QED  BY <4>2, <4>3
    <3>3. ValidateRefs /\ found \in DOMAIN layers  BY <1>1, <1>9 DEF ChainInv, NamesType
    <3>4. ByIDs => name' \in IDs /\ RefersTo(name, name')
      <4>1. ByIDs => target \in IDs /\ RefersTo(layers[found].id, target)
        BY <1>1, <2>1, <3>3, TargetsAreIDs
      <4>2. QED  BY <1>9, <3>1, <4>1 DEF ChainInv
    <3>5. ByIDs => Chain'
      <4> SUFFICES ASSUME ByIDs PROVE Chain'
        OBVIOUS
      <4>1. PICK path : IsChain(path, hops) /\ path[hops] = name  BY DEF ChainInv, Chain
      <4> DEFINE longer == [k \in 0 .. hops + 1 |-> IF k <= hops THEN path[k] ELSE name']
      <4>2. name' \in Str  BY <1>1 DEF NamesType
      <4>3. longer \in [0 .. hops + 1 -> Str]  BY <1>4, <4>1, <4>2 DEF IsChain
      <4>4. \A k \in 0 .. hops : longer[k] = path[k]  BY <1>4
      <4>5. longer[hops + 1] = name'  BY <1>4
      <4> HIDE DEF longer
      <4>6. \A k \in 0 .. hops - 1 : RefersTo(longer[k], longer[k + 1])
        <5> TAKE k \in 0 .. hops - 1
        <5>1. k \in 0 .. hops /\ k + 1 \in 0 .. hops  BY <1>4
        <5>2. longer[k] = path[k] /\ longer[k + 1] = path[k + 1]  BY <4>4, <5>1
        <5>3. QED  BY <4>1, <5>2 DEF IsChain
      <4>7. RefersTo(longer[hops], longer[hops + 1])
        <5>1. longer[hops] = name  BY <1>4, <4>1, <4>4
        <5>2. QED  BY <3>4, <4>5, <5>1
      <4>8. \A k \in 0 .. hops : RefersTo(longer[k], longer[k + 1])
        <5> TAKE k \in 0 .. hops
        <5>1. CASE k = hops  BY <4>7, <5>1
        <5>2. CASE k # hops  BY <1>4, <4>6, <5>2
        <5>3. QED  BY <5>1, <5>2
      <4>9. 0 .. hops' - 1 = 0 .. hops  BY <1>4, <3>2
      <4>10. QED  BY <1>41, <3>2, <4>3, <4>5, <4>8, <4>9
    <3>6. QED  BY <1>1, <1>2, <3>1, <3>3, <3>4, <3>5 DEF ChainInv
  <2>4. QED  BY <2>2, <2>3
<1>10. CASE UNCHANGED vars
  <2>1. UNCHANGED <<place, found, name, hops>>  BY <1>10 DEF vars
  <2>2. QED  BY <1>1, <1>2, <1>3, <2>1 DEF ChainInv
<1>11. QED  BY <1>5, <1>6, <1>7, <1>8, <1>9, <1>10 DEF Next

(* Without a circle of refs no chain comes to a layer twice.                *)
LEMMA ChainsDoNotReturn ==
  ASSUME ~RefCycle, NEW n \in Nat, NEW path, IsChain(path, n),
         NEW i \in 0 .. n, NEW j \in 0 .. n, i < j
  PROVE  path[i] # path[j]
<1> DEFINE ids == {path[k] : k \in i .. j - 1}
<1>1. SUFFICES ASSUME path[i] = path[j] PROVE FALSE
  OBVIOUS
<1>2. ids # {}
  <2>1. i \in i .. j - 1  OBVIOUS
  <2>2. QED  BY <2>1
<1>3. \A id \in ids : \E target \in ids : RefersTo(id, target)
  <2> TAKE id \in ids
  <2>1. PICK k \in i .. j - 1 : id = path[k]  OBVIOUS
  <2>2. k \in 0 .. n - 1  OBVIOUS
  <2>3. RefersTo(path[k], path[k + 1])  BY <2>2 DEF IsChain
  <2>4. path[k + 1] \in ids
    <3>1. CASE k + 1 = j
      <4>1. i \in i .. j - 1  OBVIOUS
      <4>2. QED  BY <1>1, <3>1, <4>1
    <3>2. CASE k + 1 # j
      <4>1. k + 1 \in i .. j - 1  BY <3>2
      <4>2. QED  BY <4>1
    <3>3. QED  BY <3>1, <3>2
  <2>5. QED  BY <2>1, <2>3, <2>4
<1>4. ids \subseteq RefIDs
  <2> HIDE DEF ids
  <2>1. QED  BY <1>3 DEF RefersTo, RefIDs
<1> HIDE DEF ids
<1>5. QED  BY <1>2, <1>3, <1>4 DEF RefCycle

LEMMA ChainsAreShorterThanLayers ==
  ASSUME ~RefCycle, Len(layers) \in Nat, DOMAIN layers = 1 .. Len(layers),
         NEW n \in Nat, NEW path, IsChain(path, n), n > 0, path[n] \in IDs
  PROVE  n < Len(layers)
<1> DEFINE place1(k) == CHOOSE i \in DOMAIN layers : layers[i].id = path[k]
<1> DEFINE f == [k \in 0 .. n |-> place1(k)]
<1>1. \A k \in 0 .. n : path[k] \in IDs
  <2> TAKE k \in 0 .. n
  <2>1. CASE k = n  BY <2>1
  <2>2. CASE k # n
    <3>1. k \in 0 .. n - 1  BY <2>2
    <3>2. RefersTo(path[k], path[k + 1])  BY <3>1 DEF IsChain
    <3>3. QED  BY <3>2 DEF RefersTo, IDs
  <2>3. QED  BY <2>1, <2>2
<1>2. \A k \in 0 .. n : place1(k) \in DOMAIN layers /\ layers[place1(k)].id = path[k]
  BY <1>1 DEF IDs
<1>3. f \in Injection(0 .. n, 1 .. Len(layers))
  <2>1. f \in [0 .. n -> 1 .. Len(layers)]  BY <1>2
  <2>2. \A k \in 0 .. n : layers[f[k]].id = path[k]  BY <1>2
  <2>3. \A i, j \in 0 .. n : i < j => path[i] # path[j]  BY ChainsDoNotReturn
  <2> HIDE DEF f
  <2>4. \A i, j \in 0 .. n : f[i] = f[j] => i = j
    <3> TAKE i, j \in 0 .. n
    <3>1. f[i] = f[j] => path[i] = path[j]  BY <2>2
    <3>2. QED  BY <2>3, <3>1
  <2>5. QED  BY <2>1, <2>4 DEF Injection, IsInjective
<1> HIDE DEF f
<1>4. IsFiniteSet(1 .. Len(layers)) /\ Cardinality(1 .. Len(layers)) = Len(layers)
      /\ Cardinality(0 .. n) = n + 1
  <2>1. IsFiniteSet(1 .. Len(layers)) /\ Cardinality(1 .. Len(layers)) = IF 1 > Len(layers) THEN 0 ELSE Len(layers) - 1 + 1
    <3>1. 1 \in Int /\ Len(layers) \in Int  OBVIOUS
    <3>3. \A a, b \in Int : IsFiniteSet(a .. b) /\ Cardinality(a .. b) = IF a > b THEN 0 ELSE b - a + 1
      BY FS_Interval
    <3>4. QED  BY <3>1, <3>3, Zenon
  <2>2. Cardinality(0 .. n) = IF 0 > n THEN 0 ELSE n - 0 + 1  BY FS_Interval
  <2>3. (IF 1 > Len(layers) THEN 0 ELSE Len(layers) - 1 + 1) = Len(layers)  OBVIOUS
  <2>4. QED  BY <2>1, <2>2, <2>3
<1>5. Cardinality(0 .. n) <= Cardinality(1 .. Len(layers))  BY <1>3, <1>4, FS_Injection
<1>6. QED  BY <1>4, <1>5

LEMMA ChainsEnd == ChainInv => ChainsOfIDsEnd
<1> SUFFICES ASSUME ChainInv, ByIDs PROVE (hops > 0 => hops < Len(layers)) /\ (place = "missing" => hops = 0)
  BY DEF ChainsOfIDsEnd, ByIDs
<1>1. Len(layers) \in Nat /\ DOMAIN layers = 1 .. Len(layers)  BY LayerFacts DEF ChainInv
<1>2. hops \in Nat
  <2>1. hops \in 0 .. MaxRefDepth  BY DEF ChainInv, NamesType
  <2>2. QED  BY <2>1
<1>3. PICK path : IsChain(path, hops) /\ path[hops] = name  BY DEF ChainInv, Chain
<1>4. hops > 0 => ~RefCycle /\ path[hops] \in IDs  BY <1>3 DEF ChainInv, ValidateRefs
<1>5. hops > 0 => hops < Len(layers)  BY <1>1, <1>2, <1>3, <1>4, ChainsAreShorterThanLayers
<1>6. QED  BY <1>5 DEF ChainInv

(* The check of refs at construction is enough for layers that go by their  *)
(* IDs: no chain comes to a layer twice, or to a name that is none          *)
(* (layergroup.go:104-180).                                                 *)
THEOREM ChainsOfIDsAreShort == Spec => []ChainsOfIDsEnd
<1>1. QED  BY ChainInvInit, ChainInvNext, ChainsEnd, PTL DEF Spec

-----------------------------------------------------------------------------
(* Sequences with an element in front.                                      *)

LEMMA InFront ==
  ASSUME NEW S, NEW x \in S, NEW s \in Seq(S)
  PROVE  /\ <<x>> \o s \in Seq(S)
         /\ Len(<<x>> \o s) = Len(s) + 1
         /\ (<<x>> \o s)[1] = x
         /\ \A k \in 1 .. Len(s) : (<<x>> \o s)[k + 1] = s[k]
<1>1. <<x>> \in Seq(S) /\ Len(<<x>>) = 1 /\ <<x>>[1] = x  OBVIOUS
<1>2. PICK u \in Seq(S) : u = <<x>>  BY <1>1
<1>3. /\ u \o s \in Seq(S) /\ Len(u \o s) = Len(u) + Len(s)
      /\ \A i \in 1 .. Len(u) + Len(s) : (u \o s)[i] = IF i <= Len(u) THEN u[i] ELSE s[i - Len(u)]
  BY ConcatProperties
<1>4. Len(u) = 1 /\ u[1] = x /\ Len(s) \in Nat  BY <1>1, <1>2
<1>5. (u \o s)[1] = x /\ Len(u \o s) = Len(s) + 1  BY <1>3, <1>4
<1>6. \A k \in 1 .. Len(s) : (u \o s)[k + 1] = s[k]
  <2> TAKE k \in 1 .. Len(s)
  <2>1. PICK m \in 1 .. Len(u) + Len(s) : m = k + 1  BY <1>4
  <2>2. ~(m <= Len(u)) /\ m - Len(u) = k  BY <1>4, <2>1
  <2>3. (u \o s)[m] = s[k]  BY <1>3, <2>2
  <2>4. QED  BY <2>1, <2>3
<1>7. QED  BY <1>2, <1>3, <1>5, <1>6

LEMMA FlattenCons ==
  ASSUME NEW S, NEW x \in Seq(S), NEW s \in Seq(Seq(S))
  PROVE  FlattenSeq(<<x>> \o s) = x \o FlattenSeq(s)
<1>1. PICK t : t = <<x>> \o s  OBVIOUS
<1>2. /\ t \in Seq(Seq(S)) /\ Len(t) = Len(s) + 1 /\ t[1] = x
      /\ \A k \in 1 .. Len(s) : t[k + 1] = s[k]
  <2>1. /\ <<x>> \o s \in Seq(Seq(S)) /\ Len(<<x>> \o s) = Len(s) + 1 /\ (<<x>> \o s)[1] = x
        /\ \A k \in 1 .. Len(s) : (<<x>> \o s)[k + 1] = s[k]
    BY InFront
  <2>2. QED  BY <1>1, <2>1
<1>3. PICK n \in Nat : n = Len(s)  OBVIOUS
<1>4. /\ Flat(t, 0) = <<>>
      /\ \A k \in 0 .. n : Flat(t, k + 1) = Flat(t, k) \o t[k + 1]
      /\ FlattenSeq(t) = Flat(t, n + 1)
  <2>1. Len(t) - 1 = n /\ Len(t) = n + 1  BY <1>2, <1>3
  <2>2. QED  BY <1>2, <2>1, FlatSteps
<1>5. /\ Flat(s, 0) = <<>>
      /\ \A k \in 0 .. n : Flat(s, k) \in Seq(S)
      /\ \A k \in 0 .. n - 1 : Flat(s, k + 1) = Flat(s, k) \o s[k + 1]
      /\ FlattenSeq(s) = Flat(s, n)
  BY <1>3, FlatSteps
<1> DEFINE Good == {k \in 0 .. n : Flat(t, k + 1) = x \o Flat(s, k)}
<1>6. 0 \in Good
  <2>1. Flat(t, 1) = Flat(t, 0) \o t[1]
    <3>1. 0 \in 0 .. n /\ 0 + 1 = 1  OBVIOUS
    <3>2. QED  BY <1>4, <3>1
  <2>2. <<>> \o x = x /\ x \o <<>> = x  BY ConcatEmptySeq
  <2>3. Flat(t, 1) = x \o Flat(s, 0)  BY <1>2, <1>4, <1>5, <2>1, <2>2, Zenon
  <2>4. 0 + 1 = 1 /\ 0 \in 0 .. n  OBVIOUS
  <2>5. QED  BY <2>3, <2>4
<1>7. \A k \in 0 .. n - 1 : k \in Good => k + 1 \in Good
  <2> SUFFICES ASSUME NEW k \in 0 .. n - 1, k \in Good PROVE Flat(t, k + 2) = x \o Flat(s, k + 1)
    OBVIOUS
  <2>1. Flat(t, k + 2) = Flat(t, k + 1) \o t[k + 2]
    <3>1. PICK m \in 0 .. n : m = k + 1  OBVIOUS
    <3>2. m + 1 = k + 2  BY <3>1
    <3>3. Flat(t, m + 1) = Flat(t, m) \o t[m + 1]  BY <1>4
    <3>4. QED  BY <3>1, <3>2, <3>3
  <2>2. t[k + 2] = s[k + 1] /\ s[k + 1] \in Seq(S)
    <3>1. PICK m \in 1 .. n : m = k + 1  OBVIOUS
    <3>2. m + 1 = k + 2  BY <3>1
    <3>3. t[m + 1] = s[m] /\ s[m] \in Seq(S)  BY <1>2, <1>3
    <3>4. QED  BY <3>1, <3>2, <3>3
  <2>3. Flat(s, k + 1) = Flat(s, k) \o s[k + 1] /\ Flat(s, k) \in Seq(S)  BY <1>5
  <2>4. (x \o Flat(s, k)) \o s[k + 1] = x \o (Flat(s, k) \o s[k + 1])
    <3>1. \A u, v, w \in Seq(S) : (u \o v) \o w = u \o (v \o w)  BY ConcatAssociative, SMTT(30)
    <3>2. QED  BY <2>2, <2>3, <3>1, Zenon
  <2>5. QED  BY <2>1, <2>2, <2>3, <2>4
<1>8. n \in Good
  <2> HIDE DEF Good
  <2>1. \A k \in 0 .. n : k \in Good  BY <1>6, <1>7, UpTo
  <2>2. QED  BY <2>1
<1>9. QED  BY <1>1, <1>4, <1>5, <1>8

-----------------------------------------------------------------------------
(* LayerNames: what parsePattern makes of a pattern.                        *)

Segment == [value : Str, placeholder : BOOLEAN]

LEMMA CharFound ==
  ASSUME NEW p \in Str, NEW c \in Char
  PROVE  Index(p, <<c>>) = -1 \/ (Index(p, <<c>>) \in 0 .. Len(p) - 1 /\ p[Index(p, <<c>>) + 1] = c)
<1>1. <<c>> \in Str /\ Len(<<c>>) = 1 /\ <<c>>[1] = c  BY DEF Str
<1>2. PICK u \in Str : u = <<c>>  BY <1>1
<1>3. Len(u) = 1 /\ u[1] = c /\ Len(p) \in Nat  BY <1>1, <1>2 DEF Str
<1>4. PICK i : i = Index(p, u)  OBVIOUS
<1>5. i = -1 \/ (i \in Nat /\ i + Len(u) <= Len(p) /\ SubSeq(p, i + 1, i + Len(u)) = u)
  BY <1>4, IndexFound, Zenon
<1>6. i # -1 => i \in 0 .. Len(p) - 1 /\ p[i + 1] = c
  <2> SUFFICES ASSUME i # -1 PROVE i \in 0 .. Len(p) - 1 /\ p[i + 1] = c
    OBVIOUS
  <2>1. i \in Nat /\ i + 1 <= Len(p) /\ SubSeq(p, i + 1, i + 1) = u  BY <1>3, <1>5
  <2>2. SubSeq(p, i + 1, i + 1)[1] = p[i + 1]  BY <1>3, <2>1 DEF Str
  <2>3. QED  BY <1>3, <2>1, <2>2
<1>7. QED  BY <1>2, <1>4, <1>6

LEMMA ParseIsLocal ==
  ASSUME NEW pattern \in Str, NEW i \in 0 .. Len(pattern), NEW f, NEW g,
         \A j \in i + 1 .. Len(pattern) : f[j] = g[j]
  PROVE  ParseFrom(f, pattern, i) = ParseFrom(g, pattern, i)
<1> DEFINE p == From(pattern, i)
           opening == Index(p, <<"{">>)
           closing == Index(p, <<"}">>)
<1>1. Len(pattern) \in Nat /\ p \in Str /\ Len(p) = Len(pattern) - i
  BY Rest DEF Str
<1> HIDE DEF p
<1>2. opening = -1 \/ opening \in 0 .. Len(p) - 1
  <2>1. "{" \in Char  BY PlaceholdersAssumption
  <2>2. QED  BY <1>1, <2>1, CharFound
<1>3. closing = -1 \/ closing \in 0 .. Len(p) - 1
  <2>1. "}" \in Char  BY PlaceholdersAssumption
  <2>2. QED  BY <1>1, <2>1, CharFound
<1> HIDE DEF opening, closing
<1>4. opening > 0 => f[i + opening] = g[i + opening]
  <2>1. opening > 0 => i + opening \in i + 1 .. Len(pattern)  BY <1>1, <1>2
  <2>2. QED  BY <2>1
<1>5. closing > 0 => f[i + closing + 1] = g[i + closing + 1]
  <2>1. closing > 0 => i + closing + 1 \in i + 1 .. Len(pattern)  BY <1>1, <1>3
  <2>2. QED  BY <2>1
<1>6. \A h : ParseFrom(h, pattern, i) =
        CASE p = <<>>    -> [segments |-> <<>>, ok |-> TRUE]
          [] opening > 0 -> Prepend(Literal(SubSeq(p, 1, opening)), h[i + opening])
          [] opening = 0 /\ closing > 0 ->
               Prepend(Placeholder(SubSeq(p, 2, closing)), h[i + closing + 1])
          [] opening = 0 /\ closing = -1 -> [segments |-> <<Placeholder(From(p, 1))>>, ok |-> FALSE]
          [] OTHER -> [segments |-> <<Literal(p)>>, ok |-> TRUE]
  BY DEF ParseFrom, p, opening, closing
<1>7. CASE p = <<>>
  <2>1. Len(p) = 0  BY <1>7
  <2>2. opening = -1 /\ closing = -1  BY <1>2, <1>3, <2>1
  <2>3. ~(opening > 0) /\ ~(opening = 0)  BY <2>2
  <2>4. \A h : ParseFrom(h, pattern, i) = [segments |-> <<>>, ok |-> TRUE]  BY <1>6, <1>7, <2>3
  <2>5. QED  BY <2>4
<1>8. CASE p # <<>> /\ opening > 0
  <2>1. ~(opening = 0)  BY <1>2, <1>8
  <2>2. \A h : ParseFrom(h, pattern, i) = Prepend(Literal(SubSeq(p, 1, opening)), h[i + opening])
    BY <1>6, <1>8, <2>1
  <2>3. QED  BY <1>4, <1>8, <2>2
<1>9. CASE p # <<>> /\ opening = 0 /\ closing > 0
  <2>1. ~(opening > 0) /\ closing # -1  BY <1>3, <1>9
  <2>2. \A h : ParseFrom(h, pattern, i) = Prepend(Placeholder(SubSeq(p, 2, closing)), h[i + closing + 1])
    BY <1>6, <1>9, <2>1
  <2>3. QED  BY <1>5, <1>9, <2>2
<1>10. CASE p # <<>> /\ ~(opening > 0) /\ ~(opening = 0 /\ closing > 0)
  <2>1. \A h : ParseFrom(h, pattern, i) =
          IF opening = 0 /\ closing = -1 THEN [segments |-> <<Placeholder(From(p, 1))>>, ok |-> FALSE]
          ELSE [segments |-> <<Literal(p)>>, ok |-> TRUE]
    BY <1>6, <1>10
  <2>2. QED  BY <2>1
<1>11. QED  BY <1>2, <1>7, <1>8, <1>9, <1>10

Parse(pattern) ==
  CHOOSE f : f = [i \in 0 .. Len(pattern) |-> ParseFrom(f, pattern, i)]

LEMMA ParseExists ==
  ASSUME NEW pattern \in Str
  PROVE  Parse(pattern) = [i \in 0 .. Len(pattern) |-> ParseFrom(Parse(pattern), pattern, i)]
<1>1. PICK len \in Nat : len = Len(pattern)  BY DEF Str
<1> DEFINE Some(n) == \E f : f = [i \in len + 1 - n .. len |-> ParseFrom(f, pattern, i)]
<1> DEFINE Good == {n \in Nat : Some(n)}
<1>2. 0 \in Good
  <2> DEFINE f == [i \in {} |-> 0]
  <2>1. f = [i \in len + 1 - 0 .. len |-> ParseFrom(f, pattern, i)]
    <3>1. len + 1 - 0 .. len = {}  OBVIOUS
    <3>2. QED  BY <3>1
  <2>2. 0 \in Nat  OBVIOUS
  <2> HIDE DEF f
  <2>3. QED  BY <2>1, <2>2, Zenon
<1>3. ASSUME NEW n \in 0 .. len, n \in Good PROVE n + 1 \in Good
  <2>1. PICK f : f = [i \in len + 1 - n .. len |-> ParseFrom(f, pattern, i)]
    BY <1>3, Zenon
  <2> DEFINE g == [i \in len + 1 - (n + 1) .. len |-> IF i >= len + 1 - n THEN f[i] ELSE ParseFrom(f, pattern, i)]
  <2>2. \A i \in len + 1 - n .. len : g[i] = f[i] /\ f[i] = ParseFrom(f, pattern, i)
    <3>1. \A i \in len + 1 - n .. len : f[i] = ParseFrom(f, pattern, i)  BY <2>1, Zenon
    <3>2. \A i \in len + 1 - n .. len : g[i] = f[i]  OBVIOUS
    <3>3. QED  BY <3>1, <3>2
  <2>3. g[len - n] = ParseFrom(f, pattern, len - n)
    <3>1. len - n \in len + 1 - (n + 1) .. len /\ ~(len - n >= len + 1 - n)  OBVIOUS
    <3>2. QED  BY <3>1
  <2>4. g = [i \in len + 1 - (n + 1) .. len |-> g[i]]  OBVIOUS
  <2> HIDE DEF g
  <2>5. \A i \in len + 1 - (n + 1) .. len : g[i] = ParseFrom(g, pattern, i)
    <3> TAKE i \in len + 1 - (n + 1) .. len
    <3>1. i \in 0 .. len /\ \A j \in i + 1 .. len : j \in len + 1 - n .. len  OBVIOUS
    <3>2. ParseFrom(f, pattern, i) = ParseFrom(g, pattern, i)
      <4>1. \A j \in i + 1 .. len : f[j] = g[j]  BY <2>2, <3>1
      <4>2. QED  BY <1>1, <3>1, <4>1, ParseIsLocal
    <3>3. CASE i = len - n  BY <2>3, <3>2, <3>3
    <3>4. CASE i # len - n
      <4>1. i \in len + 1 - n .. len  BY <3>4
      <4>2. QED  BY <2>2, <3>2, <4>1
    <3>5. QED  BY <3>3, <3>4
  <2>6. g = [i \in len + 1 - (n + 1) .. len |-> ParseFrom(g, pattern, i)]  BY <2>4, <2>5, Zenon
  <2>7. n + 1 \in Nat  OBVIOUS
  <2>8. QED  BY <2>6, <2>7, Zenon
<1>4. len + 1 \in Good
  <2> HIDE DEF Good
  <2>1. PICK m \in Nat : m = len + 1  OBVIOUS
  <2>2. \A i \in 0 .. m - 1 : i \in Good => i + 1 \in Good
    <3>1. 0 .. m - 1 = 0 .. len  BY <2>1
    <3>2. QED  BY <1>3, <3>1
  <2>3. \A i \in 0 .. m : i \in Good  BY <1>2, <2>2, UpTo
  <2>4. QED  BY <2>1, <2>3
<1>5. Some(len + 1)  BY <1>4
<1>6. PICK f : f = [i \in len + 1 - (len + 1) .. len |-> ParseFrom(f, pattern, i)]  BY <1>5, Zenon
<1>7. len + 1 - (len + 1) .. len = 0 .. Len(pattern)  BY <1>1
<1>8. f = [i \in 0 .. Len(pattern) |-> ParseFrom(f, pattern, i)]  BY <1>6, <1>7, Zenon
<1>9. QED  BY <1>8 DEF Parse

LEMMA ParseSteps ==
  ASSUME NEW pattern \in Str
  PROVE  /\ ParsePattern(pattern) = Parse(pattern)[0]
         /\ \A i \in 0 .. Len(pattern) : Parse(pattern)[i] = ParseFrom(Parse(pattern), pattern, i)
<1>1. ParsePattern(pattern) = Parse(pattern)[0]
  BY DEF ParsePattern, Parse
<1>2. PICK f : f = Parse(pattern)  OBVIOUS
<1>3. f = [i \in 0 .. Len(pattern) |-> ParseFrom(f, pattern, i)]  BY <1>2, ParseExists
<1>4. \A i \in 0 .. Len(pattern) : f[i] = ParseFrom(f, pattern, i)  BY <1>3, Zenon
<1>5. QED  BY <1>1, <1>2, <1>4

WrittenSegment(seg) == IF seg.placeholder THEN <<"{">> \o seg.value \o <<"}">> ELSE seg.value

LEMMA OneChar == ASSUME NEW c \in Char PROVE <<c>> \in Str /\ Len(<<c>>) = 1 /\ <<c>>[1] = c
BY DEF Str

LEMMA WrittenType ==
  ASSUME NEW seg \in Segment
  PROVE  WrittenSegment(seg) \in Str
<1>1. seg.value \in Seq(Char)  BY DEF Segment, Str
<1>2. <<"{">> \in Seq(Char) /\ <<"}">> \in Seq(Char)  BY OneChar, PlaceholdersAssumption DEF Str
<1>3. \A u, v \in Seq(Char) : u \o v \in Seq(Char)  BY ConcatProperties
<1>4. QED  BY <1>1, <1>2, <1>3, Zenon DEF WrittenSegment, Str

LEMMA WrittenEmpty == Written(<<>>) = <<>>
<1> DEFINE s == [i \in 1 .. Len(<<>>) |-> WrittenSegment(<<>>[i])]
<1>1. s = <<>>  BY IsASeq
<1>2. <<>> \in Seq(Seq(Char)) /\ Len(<<>>) = 0  OBVIOUS
<1>3. Written(<<>>) = FlattenSeq(s)  BY DEF Written, WrittenSegment
<1>4. FlattenSeq(<<>>) = Flat(<<>>, Len(<<>>)) /\ Flat(<<>>, 0) = <<>>  BY <1>2, FlatSteps
<1>5. QED  BY <1>1, <1>2, <1>3, <1>4

LEMMA WrittenCons ==
  ASSUME NEW seg \in Segment, NEW segments \in Seq(Segment)
  PROVE  /\ Written(segments) \in Str
         /\ Written(<<seg>> \o segments) = WrittenSegment(seg) \o Written(segments)
<1> DEFINE all == <<seg>> \o segments
           s == [i \in 1 .. Len(segments) |-> WrittenSegment(segments[i])]
           t == [i \in 1 .. Len(all) |-> WrittenSegment(all[i])]
<1>1. /\ all \in Seq(Segment) /\ Len(all) = Len(segments) + 1 /\ all[1] = seg
      /\ \A k \in 1 .. Len(segments) : all[k + 1] = segments[k]
  BY InFront
<1> HIDE DEF all
<1>2. Len(segments) \in Nat /\ Len(all) \in Nat  BY <1>1
<1>3. s \in Seq(Str) /\ Len(s) = Len(segments)
  <2>1. \A i \in 1 .. Len(segments) : WrittenSegment(segments[i]) \in Str  BY WrittenType
  <2>2. QED  BY <1>2, <2>1, IsASeq
<1>4. t \in Seq(Str) /\ Len(t) = Len(all)
  <2>1. \A i \in 1 .. Len(all) : WrittenSegment(all[i]) \in Str  BY <1>1, WrittenType
  <2>2. QED  BY <1>2, <2>1, IsASeq
<1>5. WrittenSegment(seg) \in Str  BY WrittenType
<1>6. t[1] = WrittenSegment(seg) /\ \A k \in 1 .. Len(s) : t[k + 1] = s[k]
  BY <1>1, <1>2, <1>3
<1>7. Written(all) = FlattenSeq(t) /\ Written(segments) = FlattenSeq(s)
  BY DEF Written, WrittenSegment
<1> HIDE DEF s, t
<1>8. t = <<WrittenSegment(seg)>> \o s
  <2> DEFINE u == <<WrittenSegment(seg)>> \o s
  <2>1. /\ u \in Seq(Str) /\ Len(u) = Len(s) + 1 /\ u[1] = WrittenSegment(seg)
        /\ \A k \in 1 .. Len(s) : u[k + 1] = s[k]
    BY <1>3, <1>5, InFront
  <2> HIDE DEF u
  <2>2. Len(u) = Len(t)  BY <1>1, <1>3, <1>4, <2>1
  <2>3. \A i \in 1 .. Len(t) : u[i] = t[i]
    <3> TAKE i \in 1 .. Len(t)
    <3>1. CASE i = 1  BY <1>6, <2>1, <3>1
    <3>2. CASE i # 1
      <4>1. PICK k \in 1 .. Len(s) : i = k + 1
        <5>1. i - 1 \in 1 .. Len(s) /\ i = (i - 1) + 1  BY <1>1, <1>2, <1>3, <1>4, <3>2
        <5>2. QED  BY <5>1
      <4>2. QED  BY <1>6, <2>1, <4>1
    <3>3. QED  BY <3>1, <3>2
  <2>4. u = t  BY <1>4, <2>1, <2>2, <2>3, SeqEqual
  <2>5. QED  BY <2>4 DEF u
<1>9. FlattenSeq(t) = WrittenSegment(seg) \o FlattenSeq(s)
  BY <1>3, <1>5, <1>8, FlattenCons DEF Str
<1>10. FlattenSeq(s) \in Str
  <2>1. PICK n \in Nat : n = Len(s)  BY <1>2, <1>3
  <2>2. (\A k \in 0 .. n : Flat(s, k) \in Seq(Char)) /\ FlattenSeq(s) = Flat(s, n)
    BY <1>3, <2>1, FlatSteps DEF Str
  <2>3. QED  BY <2>1, <2>2 DEF Str
<1>11. QED  BY <1>7, <1>9, <1>10 DEF all

(* Placeholders are kept apart and do not repeat.                           *)
WellFormed(segments) ==
  /\ \A k \in 1 .. Len(segments) - 1 : ~(segments[k].placeholder /\ segments[k + 1].placeholder)
  /\ \A k, l \in 1 .. Len(segments) :
       segments[k].placeholder /\ segments[l].placeholder /\ segments[k].value = segments[l].value => k = l

ParsedWell(parsed, str) ==
  /\ parsed.segments \in Seq(Segment)
  /\ parsed.ok => Written(parsed.segments) = str /\ WellFormed(parsed.segments)

LEMMA PrependWell ==
  ASSUME NEW seg \in Segment, NEW parsed, NEW str \in Str, ParsedWell(parsed, str)
  PROVE  ParsedWell(Prepend(seg, parsed), WrittenSegment(seg) \o str)
<1> DEFINE segs == parsed.segments
           all == <<seg>> \o segs
<1>1. /\ segs \in Seq(Segment) /\ Len(segs) \in Nat
      /\ all \in Seq(Segment) /\ Len(all) = Len(segs) + 1 /\ all[1] = seg
      /\ \A k \in 1 .. Len(segs) : all[k + 1] = segs[k]
  BY InFront DEF ParsedWell
<1>2. Prepend(seg, parsed).segments = all
      /\ (Prepend(seg, parsed).ok <=>
            /\ parsed.ok
            /\ seg.placeholder =>
                 /\ segs # <<>> => ~segs[1].placeholder
                 /\ \A i \in 1 .. Len(segs) : segs[i] # seg)
  BY DEF Prepend
<1>3. Written(all) = WrittenSegment(seg) \o Written(segs)  BY <1>1, WrittenCons
<1> HIDE DEF all, segs
<1>4. ASSUME Prepend(seg, parsed).ok PROVE Written(all) = WrittenSegment(seg) \o str /\ WellFormed(all)
  <2>1. parsed.ok /\ Written(segs) = str /\ WellFormed(segs)  BY <1>2, <1>4 DEF ParsedWell, segs
  <2>2. seg.placeholder => (segs # <<>> => ~segs[1].placeholder) /\ \A i \in 1 .. Len(segs) : segs[i] # seg
    BY <1>2, <1>4
  <2>3. \A k \in 1 .. Len(all) : k = 1 \/ \E m \in 1 .. Len(segs) : k = m + 1
    <3> TAKE k \in 1 .. Len(all)
    <3>1. k # 1 => k - 1 \in 1 .. Len(segs) /\ k = (k - 1) + 1  BY <1>1
    <3>2. QED  BY <3>1
  <2>4. \A k \in 1 .. Len(all) - 1 : ~(all[k].placeholder /\ all[k + 1].placeholder)
    <3> TAKE k \in 1 .. Len(all) - 1
    <3>1. k \in 1 .. Len(segs) /\ all[k + 1] = segs[k]  BY <1>1
    <3>2. CASE k = 1
      <4>1. segs # <<>>  BY <3>1
      <4>2. seg.placeholder => ~segs[1].placeholder  BY <2>2, <4>1
      <4>3. QED  BY <1>1, <3>1, <3>2, <4>2
    <3>3. CASE k # 1
      <4>1. PICK m \in 1 .. Len(segs) : k = m + 1  BY <1>1, <2>3, <3>3
      <4>2. m \in 1 .. Len(segs) - 1 /\ all[k] = segs[m] /\ all[k + 1] = segs[m + 1]  BY <1>1, <3>1, <4>1
      <4>3. QED  BY <2>1, <4>2 DEF WellFormed
    <3>4. QED  BY <3>2, <3>3
  <2>5. \A m \in 1 .. Len(segs) : ~(seg.placeholder /\ segs[m].placeholder /\ seg.value = segs[m].value)
    <3> SUFFICES ASSUME NEW m \in 1 .. Len(segs), seg.placeholder, segs[m].placeholder, seg.value = segs[m].value
                 PROVE  FALSE
      OBVIOUS
    <3>1. segs[m] \in Segment  BY <1>1
    <3>2. seg.placeholder = TRUE /\ segs[m].placeholder = TRUE  BY <3>1 DEF Segment
    <3>3. segs[m] = seg  BY <3>1, <3>2 DEF Segment
    <3>4. QED  BY <2>2, <3>3
  <2>6. \A k, l \in 1 .. Len(all) :
          all[k].placeholder /\ all[l].placeholder /\ all[k].value = all[l].value => k = l
    <3> SUFFICES ASSUME NEW k \in 1 .. Len(all), NEW l \in 1 .. Len(all),
                        all[k].placeholder, all[l].placeholder, all[k].value = all[l].value
                 PROVE  k = l
      OBVIOUS
    <3>1. CASE k = 1
      <4>1. SUFFICES ASSUME l # 1 PROVE FALSE
        BY <3>1
      <4>2. PICK m \in 1 .. Len(segs) : l = m + 1  BY <2>3, <4>1
      <4>3. QED  BY <1>1, <2>5, <3>1, <4>2
    <3>2. CASE l = 1
      <4>1. SUFFICES ASSUME k # 1 PROVE FALSE
        BY <3>2
      <4>2. PICK m \in 1 .. Len(segs) : k = m + 1  BY <2>3, <4>1
      <4>3. QED  BY <1>1, <2>5, <3>2, <4>2
    <3>3. CASE k # 1 /\ l # 1
      <4>1. PICK m \in 1 .. Len(segs) : k = m + 1  BY <2>3, <3>3
      <4>2. PICK n \in 1 .. Len(segs) : l = n + 1  BY <2>3, <3>3
      <4>3. m = n  BY <1>1, <2>1, <4>1, <4>2 DEF WellFormed
      <4>4. QED  BY <4>1, <4>2, <4>3
    <3>4. QED  BY <3>1, <3>2, <3>3
  <2>7. QED  BY <1>3, <2>1, <2>4, <2>6 DEF WellFormed
<1>5. QED  BY <1>1, <1>2, <1>4 DEF ParsedWell

LEMMA OneSegment ==
  ASSUME NEW seg \in Segment
  PROVE  /\ <<seg>> \in Seq(Segment)
         /\ Written(<<seg>>) = WrittenSegment(seg)
         /\ WellFormed(<<seg>>)
<1>1. <<>> \in Seq(Segment)  OBVIOUS
<1>2. Written(<<seg>> \o <<>>) = WrittenSegment(seg) \o Written(<<>>)  BY <1>1, WrittenCons
<1>3. <<seg>> \o <<>> = <<seg>> /\ WrittenSegment(seg) \o <<>> = WrittenSegment(seg)
  <2>1. WrittenSegment(seg) \in Seq(Char)  BY WrittenType DEF Str
  <2>2. <<seg>> \in Seq(Segment)  OBVIOUS
  <2>3. QED  BY <2>1, <2>2, ConcatEmptySeq
<1>4. Written(<<seg>>) = WrittenSegment(seg)  BY <1>2, <1>3, WrittenEmpty
<1>5. WellFormed(<<seg>>)
  <2>1. Len(<<seg>>) = 1  OBVIOUS
  <2>2. QED  BY <2>1 DEF WellFormed
<1>6. <<seg>> \in Seq(Segment)  OBVIOUS
<1>7. QED  BY <1>4, <1>5, <1>6

LEMMA FromFrom ==
  ASSUME NEW S, NEW s \in Seq(S), NEW i \in Nat, NEW j \in Nat, i + j <= Len(s)
  PROVE  From(From(s, i), j) = From(s, i + j)
<1>1. PICK n \in Nat : n = Len(s)  OBVIOUS
<1>2. i <= Len(s) /\ i + j \in Nat /\ j <= Len(s) - i  BY <1>1
<1>3. PICK t : t = From(s, i)  OBVIOUS
<1>4. t \in Seq(S) /\ Len(t) = Len(s) - i /\ \A k \in 1 .. Len(s) - i : t[k] = s[i + k]
  BY <1>2, <1>3, Rest, SMTT(30)
<1>5. /\ From(t, j) \in Seq(S) /\ Len(From(t, j)) = Len(t) - j
      /\ \A k \in 1 .. Len(t) - j : From(t, j)[k] = t[j + k]
  BY <1>2, <1>4, Rest, SMTT(30)
<1>6. /\ From(s, i + j) \in Seq(S) /\ Len(From(s, i + j)) = Len(s) - (i + j)
      /\ \A k \in 1 .. Len(s) - (i + j) : From(s, i + j)[k] = s[i + j + k]
  BY <1>2, Rest
<1>7. Len(From(t, j)) = Len(From(s, i + j))
  <2>1. Len(t) = n - i /\ Len(From(t, j)) = Len(t) - j /\ Len(From(s, i + j)) = n - (i + j)
    BY <1>1, <1>4, <1>5, <1>6
  <2>2. (n - i) - j = n - (i + j)  OBVIOUS
  <2>3. QED  BY <2>1, <2>2
<1>8. \A k \in 1 .. Len(From(t, j)) : From(t, j)[k] = From(s, i + j)[k]
  <2> TAKE k \in 1 .. Len(From(t, j))
  <2>1. k \in 1 .. Len(t) - j /\ k \in 1 .. Len(s) - (i + j)  BY <1>1, <1>4, <1>5
  <2>2. From(t, j)[k] = t[j + k] /\ From(s, i + j)[k] = s[i + j + k]  BY <1>5, <1>6, <2>1
  <2>3. PICK m : m = j + k  OBVIOUS
  <2>4. m \in 1 .. Len(s) - i /\ i + m = i + j + k  BY <1>1, <1>2, <2>1, <2>3
  <2>5. t[m] = s[i + m]  BY <1>4, <2>4
  <2>6. QED  BY <2>2, <2>3, <2>4, <2>5
<1>9. From(t, j) = From(s, i + j)  BY <1>5, <1>6, <1>7, <1>8, SeqEqual
<1>10. QED  BY <1>3, <1>9

OpenChar  == "{"
CloseChar == "}"

LEMMA Brackets == OpenChar \in Char /\ CloseChar \in Char
BY PlaceholdersAssumption DEF OpenChar, CloseChar

LEMMA Bracketed ==
  ASSUME NEW p \in Str, NEW c \in 1 .. Len(p) - 1, p[1] = OpenChar, p[c + 1] = CloseChar
  PROVE  /\ SubSeq(p, 2, c) \in Str
         /\ WrittenSegment(Placeholder(SubSeq(p, 2, c))) \o From(p, c + 1) = p
<1>1. PICK n \in Nat : n = Len(p)  BY DEF Str
<1>2. p \in Seq(Char)  BY DEF Str
<1>3. SubSeq(p, 1, 1) = <<OpenChar>> /\ SubSeq(p, c + 1, c + 1) = <<CloseChar>>
  <2>1. \A k \in 1 .. n : SubSeq(p, k, k) = <<p[k]>>
    <3> TAKE k \in 1 .. n
    <3>1. SubSeq(p, k, k) = <<p[k]>> \o SubSeq(p, k + 1, k)
      <4>1. k \in 1 .. Len(p) /\ k \in k .. Len(p)  BY <1>1
      <4>2. QED  BY <1>2, <4>1, SubSeqRecursiveFirst
    <3>2. SubSeq(p, k + 1, k) = <<>>  BY SubSeqEmpty
    <3>3. p[k] \in Char  BY <1>1, <1>2
    <3>4. <<p[k]>> \in Seq(Char)  BY <3>3, OneChar DEF Str
    <3>5. QED  BY <3>1, <3>2, <3>4, ConcatEmptySeq
  <2>2. 1 \in 1 .. n /\ c + 1 \in 1 .. n  BY <1>1
  <2>3. QED  BY <2>1, <2>2
<1>4. SubSeq(p, 2, c) \in Seq(Char)
  <2>1. 2 \in Int /\ c \in Int /\ \A i \in 2 .. c : p[i] \in Char  BY <1>1, <1>2
  <2>2. QED  BY <2>1, SubSeqProperties
<1>5. SubSeq(p, 1, 1) \o SubSeq(p, 2, c) = SubSeq(p, 1, c)
  <2>1. 1 \in 1 .. Len(p) + 1 /\ 1 \in 1 - 1 .. Len(p) /\ c \in 1 .. Len(p) /\ 1 + 1 = 2  BY <1>1
  <2>2. SubSeq(p, 1, 1) \o SubSeq(p, 1 + 1, c) = SubSeq(p, 1, c)  BY <1>2, <2>1, ConcatAdjacentSubSeq
  <2>3. QED  BY <2>1, <2>2
<1>6. SubSeq(p, 1, c) \o SubSeq(p, c + 1, c + 1) = SubSeq(p, 1, c + 1)
  <2>1. 1 \in 1 .. Len(p) + 1 /\ c \in 1 - 1 .. Len(p) /\ c + 1 \in c .. Len(p)  BY <1>1
  <2>2. QED  BY <1>2, <2>1, ConcatAdjacentSubSeq
<1>7. SubSeq(p, 1, c + 1) \o From(p, c + 1) = p
  <2>1. c + 1 \in Nat /\ c + 1 <= Len(p)  BY <1>1
  <2>2. QED  BY <1>2, <2>1, Rest
<1>8. WrittenSegment(Placeholder(SubSeq(p, 2, c))) = <<OpenChar>> \o SubSeq(p, 2, c) \o <<CloseChar>>
  BY DEF WrittenSegment, Placeholder, OpenChar, CloseChar
<1>9. QED  BY <1>3, <1>4, <1>5, <1>6, <1>7, <1>8 DEF Str

LEMMA ParseWell ==
  ASSUME NEW pattern \in Str
  PROVE  \A i \in 0 .. Len(pattern) : ParsedWell(Parse(pattern)[i], From(pattern, i))
<1>1. PICK len \in Nat : len = Len(pattern)  BY DEF Str
<1> DEFINE Good == {n \in Nat : \A i \in len + 1 - n .. len : ParsedWell(Parse(pattern)[i], From(pattern, i))}
<1>2. ASSUME NEW i \in 0 .. len, \A j \in i + 1 .. len : ParsedWell(Parse(pattern)[j], From(pattern, j))
      PROVE  ParsedWell(Parse(pattern)[i], From(pattern, i))
  <2> DEFINE p == From(pattern, i)
             opening == Index(p, <<OpenChar>>)
             closing == Index(p, <<CloseChar>>)
             f == Parse(pattern)
             r == f[i]
  <2>1. r = ParseFrom(f, pattern, i)  BY <1>1, ParseSteps
  <2>2. r = CASE p = <<>>    -> [segments |-> <<>>, ok |-> TRUE]
              [] opening > 0 -> Prepend(Literal(SubSeq(p, 1, opening)), f[i + opening])
              [] opening = 0 /\ closing > 0 ->
                   Prepend(Placeholder(SubSeq(p, 2, closing)), f[i + closing + 1])
              [] opening = 0 /\ closing = -1 -> [segments |-> <<Placeholder(From(p, 1))>>, ok |-> FALSE]
              [] OTHER -> [segments |-> <<Literal(p)>>, ok |-> TRUE]
    BY <2>1 DEF ParseFrom, OpenChar, CloseChar
  <2>3. p \in Str /\ p \in Seq(Char) /\ Len(p) = len - i  BY <1>1, Rest DEF Str
  <2>4. \A j \in 0 .. Len(p) : From(p, j) = From(pattern, i + j) /\ i + j \in i .. len
    <3> TAKE j \in 0 .. Len(p)
    <3>1. i \in Nat /\ j \in Nat /\ i + j <= Len(pattern) /\ i + j \in i .. len  BY <1>1, <2>3
    <3>2. QED  BY <3>1, FromFrom DEF Str
  <2>5. opening = -1 \/ (opening \in 0 .. Len(p) - 1 /\ p[opening + 1] = OpenChar)
    BY <2>3, Brackets, CharFound
  <2>6. closing = -1 \/ (closing \in 0 .. Len(p) - 1 /\ p[closing + 1] = CloseChar)
    BY <2>3, Brackets, CharFound
  <2>7. \A j \in i + 1 .. len : ParsedWell(f[j], From(pattern, j))  BY <1>2
  <2> HIDE DEF p, opening, closing, f, r
  <2>8. CASE p = <<>>
    <3>1. Len(p) = 0  BY <2>8
    <3>2. opening = -1 /\ closing = -1  BY <2>5, <2>6, <3>1
    <3>3. ~(opening > 0) /\ ~(opening = 0)  BY <3>2
    <3>4. r = [segments |-> <<>>, ok |-> TRUE]  BY <2>2, <2>8, <3>3
    <3>5. <<>> \in Seq(Segment) /\ WellFormed(<<>>)  BY DEF WellFormed
    <3>6. ParsedWell(r, p)  BY <2>8, <3>4, <3>5, WrittenEmpty DEF ParsedWell
    <3>7. QED  BY <3>6 DEF r, p, f
  <2>9. CASE p # <<>> /\ opening > 0
    <3>1. ~(opening = 0)  BY <2>5, <2>9
    <3>2. r = Prepend(Literal(SubSeq(p, 1, opening)), f[i + opening])  BY <2>2, <2>9, <3>1
    <3>3. opening \in Nat /\ opening <= Len(p) /\ i + opening \in i + 1 .. len
      BY <2>3, <2>5, <2>9
    <3>4. SubSeq(p, 1, opening) \in Str /\ SubSeq(p, 1, opening) \o From(p, opening) = p /\ From(p, opening) \in Str
      BY <2>3, <3>3, Rest DEF Str
    <3>5. From(p, opening) = From(pattern, i + opening)
      <4>1. opening \in 0 .. Len(p)  BY <3>3
      <4>2. QED  BY <2>4, <4>1
    <3>6. Literal(SubSeq(p, 1, opening)) \in Segment
          /\ WrittenSegment(Literal(SubSeq(p, 1, opening))) = SubSeq(p, 1, opening)
      BY <3>4 DEF Literal, Segment, WrittenSegment
    <3>7. ParsedWell(f[i + opening], From(p, opening))  BY <2>7, <3>3, <3>5
    <3>8. ParsedWell(r, p)  BY <3>2, <3>4, <3>6, <3>7, PrependWell
    <3>9. QED  BY <3>8 DEF r, p, f
  <2>10. CASE p # <<>> /\ opening = 0 /\ closing > 0
    <3>1. ~(opening > 0) /\ closing # -1  BY <2>6, <2>10
    <3>2. r = Prepend(Placeholder(SubSeq(p, 2, closing)), f[i + closing + 1])  BY <2>2, <2>10, <3>1
    <3>3. closing \in 1 .. Len(p) - 1 /\ p[closing + 1] = CloseChar /\ p[1] = OpenChar
      <4>1. opening + 1 = 1  BY <2>10
      <4>2. QED  BY <2>5, <2>6, <2>10, <4>1
    <3>4. closing + 1 \in 0 .. Len(p) /\ i + (closing + 1) = i + closing + 1 /\ i + closing + 1 \in i + 1 .. len
      BY <2>3, <3>3
    <3>5. From(p, closing + 1) = From(pattern, i + closing + 1)
      <4>1. From(p, closing + 1) = From(pattern, i + (closing + 1))  BY <2>4, <3>4
      <4>2. QED  BY <3>4, <4>1
    <3>6. From(p, closing + 1) \in Str
      <4>1. closing + 1 \in Nat /\ closing + 1 <= Len(p)  BY <3>4
      <4>2. QED  BY <2>3, <4>1, Rest DEF Str
    <3>7. SubSeq(p, 2, closing) \in Str /\ WrittenSegment(Placeholder(SubSeq(p, 2, closing))) \o From(p, closing + 1) = p
      BY <2>3, <3>3, Bracketed
    <3>8. Placeholder(SubSeq(p, 2, closing)) \in Segment  BY <3>7 DEF Placeholder, Segment
    <3>9. ParsedWell(f[i + closing + 1], From(p, closing + 1))  BY <2>7, <3>4, <3>5
    <3>10. ParsedWell(r, p)
      <4>1. ParsedWell(r, WrittenSegment(Placeholder(SubSeq(p, 2, closing))) \o From(p, closing + 1))
        BY <3>2, <3>6, <3>8, <3>9, PrependWell
      <4>2. QED  BY <3>7, <4>1
    <3>11. QED  BY <3>10 DEF r, p, f
  <2>11. CASE p # <<>> /\ ~(opening > 0) /\ ~(opening = 0 /\ closing > 0)
    <3>1. r = [segments |-> <<Placeholder(From(p, 1))>>, ok |-> FALSE] \/ r = [segments |-> <<Literal(p)>>, ok |-> TRUE]
      BY <2>2, <2>11
    <3>2. Literal(p) \in Segment /\ WrittenSegment(Literal(p)) = p  BY <2>3 DEF Literal, Segment, WrittenSegment
    <3>3. Placeholder(From(p, 1)) \in Segment
      <4>1. Len(p) # 0  BY <2>3, <2>11
      <4>2. 1 \in Nat /\ 1 <= Len(p)  BY <2>3, <4>1
      <4>3. From(p, 1) \in Str  BY <2>3, <4>2, Rest DEF Str
      <4>4. QED  BY <4>3 DEF Placeholder, Segment
    <3>4. ParsedWell([segments |-> <<Literal(p)>>, ok |-> TRUE], p)
      BY <3>2, OneSegment DEF ParsedWell
    <3>5. ParsedWell([segments |-> <<Placeholder(From(p, 1))>>, ok |-> FALSE], p)
      BY <3>3, OneSegment DEF ParsedWell
    <3>6. ParsedWell(r, p)  BY <3>1, <3>4, <3>5
    <3>7. QED  BY <3>6 DEF r, p, f
  <2>12. QED  BY <2>5, <2>8, <2>9, <2>10, <2>11
<1>3. 0 \in Good
  <2>1. len + 1 - 0 .. len = {}  OBVIOUS
  <2>2. QED  BY <2>1
<1>4. \A n \in 0 .. len : n \in Good => n + 1 \in Good
  <2> SUFFICES ASSUME NEW n \in 0 .. len, n \in Good,
                      NEW i \in len + 1 - (n + 1) .. len
               PROVE  ParsedWell(Parse(pattern)[i], From(pattern, i))
    <3>1. \A n \in 0 .. len : n + 1 \in Nat  OBVIOUS
    <3>2. QED  BY <3>1
  <2>1. i \in 0 .. len /\ \A j \in i + 1 .. len : j \in len + 1 - n .. len  OBVIOUS
  <2>2. QED  BY <1>2, <2>1
<1>5. len + 1 \in Good
  <2> HIDE DEF Good
  <2>1. PICK m \in Nat : m = len + 1  OBVIOUS
  <2>2. 0 .. m - 1 = 0 .. len  BY <2>1
  <2>3. \A n \in 0 .. m : n \in Good  BY <1>3, <1>4, <2>2, UpTo
  <2>4. QED  BY <2>1, <2>3
<1>6. len + 1 - (len + 1) .. len = 0 .. len  OBVIOUS
<1>7. QED  BY <1>1, <1>5, <1>6

LEMMA PatternWell ==
  ASSUME NEW pattern \in Str
  PROVE  ParsedWell(ParsePattern(pattern), pattern)
<1>1. 0 \in 0 .. Len(pattern) /\ 0 \in Nat /\ 0 <= Len(pattern)  BY DEF Str
<1>2. From(pattern, 0) = pattern
  <2>1. SubSeq(pattern, 1, Len(pattern)) = pattern  BY SubSeqFull DEF Str
  <2>2. 0 + 1 = 1  OBVIOUS
  <2>3. QED  BY <2>1, <2>2 DEF From
<1>3. QED  BY <1>1, <1>2, ParseWell, ParseSteps

LEMMA SegmentsWell ==
  ASSUME NEW l, IsLayer(l), Segments(l).ok
  PROVE  /\ Segments(l).segments \in Seq(Segment)
         /\ Written(Segments(l).segments) = IF HasPattern(l) THEN l.pattern ELSE l.id
         /\ WellFormed(Segments(l).segments)
<1>1. CASE HasPattern(l)
  <2>1. l.pattern \in Str  BY DEF IsLayer
  <2>2. QED  BY <1>1, <2>1, PatternWell DEF Segments, ParsedWell
<1>2. CASE ~HasPattern(l)
  <2>1. Literal(l.id) \in Segment /\ WrittenSegment(Literal(l.id)) = l.id
    BY DEF IsLayer, Literal, Segment, WrittenSegment
  <2>2. Segments(l).segments = <<Literal(l.id)>>  BY <1>2 DEF Segments
  <2>3. QED  BY <1>2, <2>1, <2>2, OneSegment
<1>3. QED  BY <1>1, <1>2

-----------------------------------------------------------------------------
(* LayerNames: what match makes of a name.                                  *)

LEMMA FlattenAppend ==
  ASSUME NEW S, NEW x \in Seq(S), NEW s \in Seq(Seq(S))
  PROVE  /\ FlattenSeq(s) \in Seq(S)
         /\ FlattenSeq(Append(s, x)) = FlattenSeq(s) \o x
<1>1. PICK n \in Nat : n = Len(s)  OBVIOUS
<1>2. PICK t : t = Append(s, x)  OBVIOUS
<1>3. t \in Seq(Seq(S)) /\ Len(t) = n + 1 /\ t[n + 1] = x /\ \A k \in 1 .. n : t[k] = s[k]
  <2>1. /\ Append(s, x) \in Seq(Seq(S)) /\ Len(Append(s, x)) = Len(s) + 1
        /\ \A k \in 1 .. Len(s) : Append(s, x)[k] = s[k]
        /\ Append(s, x)[Len(s) + 1] = x
    BY AppendProperties
  <2>2. QED  BY <1>1, <1>2, <2>1
<1>4. /\ Flat(t, 0) = <<>>
      /\ \A k \in 0 .. n : Flat(t, k + 1) = Flat(t, k) \o t[k + 1]
      /\ FlattenSeq(t) = Flat(t, n + 1)
  <2>1. Len(t) - 1 = n  BY <1>3
  <2>2. QED  BY <1>3, <2>1, FlatSteps
<1>5. /\ Flat(s, 0) = <<>>
      /\ \A k \in 0 .. n : Flat(s, k) \in Seq(S)
      /\ \A k \in 0 .. n - 1 : Flat(s, k + 1) = Flat(s, k) \o s[k + 1]
      /\ FlattenSeq(s) = Flat(s, n)
  BY <1>1, FlatSteps
<1> DEFINE Good == {k \in 0 .. n : Flat(t, k) = Flat(s, k)}
<1>6. 0 \in Good  BY <1>4, <1>5
<1>7. \A k \in 0 .. n - 1 : k \in Good => k + 1 \in Good
  <2> SUFFICES ASSUME NEW k \in 0 .. n - 1, k \in Good PROVE Flat(t, k + 1) = Flat(s, k + 1)
    OBVIOUS
  <2>1. k \in 0 .. n /\ k + 1 \in 1 .. n  OBVIOUS
  <2>2. t[k + 1] = s[k + 1]  BY <1>3, <2>1
  <2>3. Flat(t, k + 1) = Flat(t, k) \o t[k + 1] /\ Flat(s, k + 1) = Flat(s, k) \o s[k + 1]
    BY <1>4, <1>5, <2>1
  <2>4. QED  BY <2>2, <2>3
<1>8. n \in Good
  <2> HIDE DEF Good
  <2>1. \A k \in 0 .. n : k \in Good  BY <1>6, <1>7, UpTo
  <2>2. QED  BY <2>1
<1>9. Flat(t, n + 1) = Flat(t, n) \o t[n + 1]  BY <1>4
<1>10. FlattenSeq(t) = FlattenSeq(s) \o x  BY <1>3, <1>4, <1>5, <1>8, <1>9
<1>11. QED  BY <1>2, <1>5, <1>10

FilledSegment(seg, values) == IF seg.placeholder THEN values[seg.value] ELSE seg.value

(* w is what the first segments were matched with. *)
Matches(segments, values, w, n) ==
  /\ w \in Seq(Str) /\ Len(w) = n
  /\ \A k \in 1 .. n : /\ segments[k].placeholder => segments[k].value \in DOMAIN values
                       /\ w[k] = FilledSegment(segments[k], values)

MatchInv(segments, str, i, m) ==
  /\ m = [ok |-> m.ok, last |-> m.last, rest |-> m.rest, values |-> m.values]
  /\ m.ok =>
       /\ m.rest \in Str /\ \A k \in DOMAIN m.values : m.values[k] \in Str
       /\ m.last # <<>> => i >= 1 /\ segments[i].placeholder /\ m.last = <<segments[i].value>>
       /\ \E w : /\ Matches(segments, m.values, w, IF m.last = <<>> THEN i ELSE i - 1)
                 /\ str = FlattenSeq(w) \o m.rest

LEMMA MatchesMore ==
  ASSUME NEW segments \in Seq(Segment), NEW values, NEW w, NEW n \in Nat, n < Len(segments),
         Matches(segments, values, w, n), NEW x \in Str,
         segments[n + 1].placeholder => segments[n + 1].value \in DOMAIN values,
         x = FilledSegment(segments[n + 1], values)
  PROVE  /\ Matches(segments, values, Append(w, x), n + 1)
         /\ FlattenSeq(Append(w, x)) = FlattenSeq(w) \o x
         /\ FlattenSeq(w) \in Str
<1>1. w \in Seq(Str) /\ Len(w) = n  BY DEF Matches
<1>2. PICK u : u = Append(w, x)  OBVIOUS
<1>3. u \in Seq(Str) /\ Len(u) = n + 1 /\ u[n + 1] = x /\ \A k \in 1 .. n : u[k] = w[k]
  <2>1. /\ Append(w, x) \in Seq(Str) /\ Len(Append(w, x)) = Len(w) + 1
        /\ \A k \in 1 .. Len(w) : Append(w, x)[k] = w[k]
        /\ Append(w, x)[Len(w) + 1] = x
    BY <1>1, AppendProperties
  <2>2. QED  BY <1>1, <1>2, <2>1
<1>4. Matches(segments, values, u, n + 1)
  <2>1. \A k \in 1 .. n + 1 : /\ segments[k].placeholder => segments[k].value \in DOMAIN values
                              /\ u[k] = FilledSegment(segments[k], values)
    <3> TAKE k \in 1 .. n + 1
    <3>1. CASE k = n + 1  BY <1>3, <3>1
    <3>2. CASE k # n + 1
      <4>1. k \in 1 .. n  BY <3>2
      <4>2. QED  BY <1>3, <4>1 DEF Matches
    <3>3. QED  BY <3>1, <3>2
  <2>2. QED  BY <1>3, <2>1 DEF Matches
<1>5. FlattenSeq(Append(w, x)) = FlattenSeq(w) \o x /\ FlattenSeq(w) \in Str
  BY <1>1, FlattenAppend DEF Str
<1>6. QED  BY <1>2, <1>4, <1>5

LEMMA IndexSplits ==
  ASSUME NEW str \in Str, NEW value \in Str, Index(str, value) # -1
  PROVE  LET i == Index(str, value) IN
         /\ i \in Nat
         /\ SubSeq(str, 1, i) \in Str /\ From(str, i + Len(value)) \in Str
         /\ str = SubSeq(str, 1, i) \o (value \o From(str, i + Len(value)))
         /\ i = 0 => str = value \o From(str, i + Len(value))
<1>0. PICK i : i = Index(str, value) /\ i # -1  OBVIOUS
<1>1. str \in Seq(Char) /\ Len(str) \in Nat /\ value \in Seq(Char) /\ Len(value) \in Nat  BY DEF Str
<1>2. i \in Nat /\ i + Len(value) <= Len(str) /\ SubSeq(str, i + 1, i + Len(value)) = value
  BY <1>0, IndexFound, Zenon
<1>3. PICK j \in Nat : j = i + Len(value)  BY <1>1, <1>2
<1>31. PICK len \in Nat : len = Len(str)  BY <1>1
<1>4. i \in Nat /\ i <= j /\ j <= len /\ SubSeq(str, i + 1, j) = value
  <2>1. i <= i + Len(value)  BY <1>1, <1>2
  <2>2. QED  BY <1>2, <1>3, <1>31, <2>1
<1>5. /\ From(str, j) \in Seq(Char) /\ SubSeq(str, 1, i) \in Seq(Char)
      /\ SubSeq(str, 1, j) \o From(str, j) = str /\ SubSeq(str, 1, i) \o From(str, i) = str
  <2>1. i <= Len(str) /\ j <= Len(str)
    <3>1. i <= len  BY <1>4
    <3>2. QED  BY <1>4, <1>31, <3>1
  <2>2. SubSeq(str, 1, i) \in Seq(Char) /\ SubSeq(str, 1, i) \o From(str, i) = str  BY <1>1, <1>2, <2>1, Rest
  <2>3. From(str, j) \in Seq(Char) /\ SubSeq(str, 1, j) \o From(str, j) = str  BY <1>1, <2>1, Rest
  <2>4. QED  BY <2>2, <2>3
<1>6. From(str, i) = value \o From(str, j)
  <2>1. i + 1 \in 1 .. Len(str) + 1 /\ j \in (i + 1) - 1 .. Len(str) /\ Len(str) \in j .. Len(str)
    <3>1. i + 1 \in 1 .. len + 1 /\ j \in (i + 1) - 1 .. len /\ len \in j .. len  BY <1>4
    <3>2. QED  BY <1>31, <3>1
  <2>2. SubSeq(str, i + 1, j) \o SubSeq(str, j + 1, Len(str)) = SubSeq(str, i + 1, Len(str))
    BY <1>1, <2>1, ConcatAdjacentSubSeq
  <2>3. QED  BY <1>4, <2>2 DEF From
<1>7. i = 0 => From(str, i) = str
  <2>1. SubSeq(str, 1, Len(str)) = str  BY <1>1, SubSeqFull
  <2>2. i = 0 => i + 1 = 1  OBVIOUS
  <2>3. QED  BY <2>1, <2>2 DEF From
<1>8. QED  BY <1>0, <1>2, <1>3, <1>5, <1>6, <1>7 DEF Str

(* The value of a placeholder is added to those of the ones before it.      *)
LEMMA MatchesWith ==
  ASSUME NEW segments \in Seq(Segment), WellFormed(segments), NEW values, NEW w,
         NEW n \in Nat, n < Len(segments), Matches(segments, values, w, n),
         segments[n + 1].placeholder, NEW v \in Str
  PROVE  LET more == With(values, segments[n + 1].value, v) IN
         /\ Matches(segments, more, Append(w, v), n + 1)
         /\ FlattenSeq(Append(w, v)) = FlattenSeq(w) \o v
         /\ FlattenSeq(w) \in Str
<1> DEFINE key == segments[n + 1].value
           more == With(values, key, v)
<1>1. /\ DOMAIN more = DOMAIN values \cup {key} /\ more[key] = v
      /\ \A k \in DOMAIN values : k # key => more[k] = values[k]
  BY DEF With
<1> HIDE DEF more
<1>2. Matches(segments, more, w, n)
  <2>1. \A k \in 1 .. n : /\ segments[k].placeholder => segments[k].value \in DOMAIN more
                          /\ w[k] = FilledSegment(segments[k], more)
    <3> TAKE k \in 1 .. n
    <3>1. segments[k].placeholder => segments[k].value # key
      <4>1. PICK m : m = n + 1  OBVIOUS
      <4>2. k \in 1 .. Len(segments) /\ m \in 1 .. Len(segments) /\ k # m  BY <4>1
      <4>3. QED  BY <4>1, <4>2 DEF WellFormed
    <3>2. QED  BY <1>1, <3>1 DEF Matches, FilledSegment
  <2>2. QED  BY <2>1 DEF Matches
<1>3. v = FilledSegment(segments[n + 1], more)  BY <1>1 DEF FilledSegment
<1>4. key \in DOMAIN more  BY <1>1
<1>5. QED  BY <1>2, <1>3, <1>4, MatchesMore DEF more

LEMMA WithWell ==
  ASSUME NEW values, \A k \in DOMAIN values : values[k] \in Str, NEW key, NEW v \in Str
  PROVE  \A k \in DOMAIN With(values, key, v) : With(values, key, v)[k] \in Str
BY DEF With

LEMMA StrConcat ==
  ASSUME NEW s1 \in Str, NEW s2 \in Str
  PROVE  s1 \o s2 \in Str
BY ConcatProperties DEF Str

LEMMA StrAssociative ==
  ASSUME NEW s1 \in Str, NEW s2 \in Str, NEW s3 \in Str
  PROVE  (s1 \o s2) \o s3 = s1 \o (s2 \o s3)
<1>1. \A t1, t2, t3 \in Seq(Char) : (t1 \o t2) \o t3 = t1 \o (t2 \o t3)  BY ConcatAssociative, SMTT(30)
<1>2. QED  BY <1>1, Zenon DEF Str

LEMMA StrAssociativeTwice ==
  ASSUME NEW s1 \in Str, NEW s2 \in Str, NEW s3 \in Str, NEW s4 \in Str
  PROVE  s1 \o (s2 \o (s3 \o s4)) = ((s1 \o s2) \o s3) \o s4
<1>1. PICK x \in Str : x = s3 \o s4  BY StrConcat
<1>2. PICK y \in Str : y = s1 \o s2  BY StrConcat
<1>3. (s1 \o s2) \o x = s1 \o (s2 \o x)  BY StrAssociative, ZenonT(30)
<1>4. (y \o s3) \o s4 = y \o (s3 \o s4)  BY StrAssociative, Zenon
<1>5. QED  BY <1>1, <1>2, <1>3, <1>4, Zenon

LEMMA MatchInvStep ==
  ASSUME NEW segments \in Seq(Segment), WellFormed(segments), NEW str \in Str,
         NEW i \in 1 .. Len(segments), NEW m, MatchInv(segments, str, i - 1, m)
  PROVE  MatchInv(segments, str, i, MatchSegment(m, segments[i]))
<1> DEFINE seg == segments[i]
           first == Index(m.rest, seg.value)
           next == MatchSegment(m, seg)
           tail == From(m.rest, first + Len(seg.value))
<1>1. seg \in Segment /\ seg.value \in Str
  <2>1. segments[i] \in Segment  BY ElementOfSeq
  <2>2. QED  BY <2>1 DEF Segment
<1>2. m = [ok |-> m.ok, last |-> m.last, rest |-> m.rest, values |-> m.values]  BY DEF MatchInv
<1>3. PICK n \in Nat : n = i - 1 /\ i = n + 1 /\ n < Len(segments)
  <2>1. i - 1 \in Nat /\ i = (i - 1) + 1 /\ i - 1 < Len(segments)  OBVIOUS
  <2>2. QED  BY <2>1
<1>4. m.ok => /\ m.rest \in Str
              /\ \A k \in DOMAIN m.values : m.values[k] \in Str
              /\ m.last # <<>> => n >= 1 /\ segments[n].placeholder /\ m.last = <<segments[n].value>>
              /\ \E w : /\ Matches(segments, m.values, w, IF m.last = <<>> THEN n ELSE n - 1)
                        /\ str = FlattenSeq(w) \o m.rest
  BY <1>3 DEF MatchInv
<1>5. CASE ~m.ok
  <2>1. next = m  BY <1>5 DEF MatchSegment
  <2>2. QED  BY <1>2, <1>5, <2>1 DEF MatchInv
<1>6. CASE m.ok /\ seg.placeholder
  <2>1. next = [m EXCEPT !.last = <<seg.value>>]  BY <1>6 DEF MatchSegment
  <2>2. next = [ok |-> m.ok, last |-> <<seg.value>>, rest |-> m.rest, values |-> m.values]  BY <1>2, <2>1
  <2>3. m.last = <<>>
    <3>1. SUFFICES ASSUME m.last # <<>> PROVE FALSE
      OBVIOUS
    <3>2. n >= 1 /\ segments[n].placeholder  BY <1>4, <1>6, <3>1
    <3>3. n \in 1 .. Len(segments) - 1 /\ segments[n + 1] = seg  BY <1>3, <3>2
    <3>4. QED  BY <1>6, <3>2, <3>3 DEF WellFormed
  <2>4. PICK w : Matches(segments, m.values, w, n) /\ str = FlattenSeq(w) \o m.rest
    BY <1>4, <1>6, <2>3
  <2>5. <<seg.value>> # <<>>  OBVIOUS
  <2> HIDE DEF next
  <2>6. /\ next.ok = m.ok /\ next.last = <<seg.value>> /\ next.rest = m.rest /\ next.values = m.values
        /\ next = [ok |-> next.ok, last |-> next.last, rest |-> next.rest, values |-> next.values]
    BY <2>2
  <2>7. \E v : /\ Matches(segments, next.values, v, IF next.last = <<>> THEN i ELSE i - 1)
               /\ str = FlattenSeq(v) \o next.rest
    BY <1>3, <2>4, <2>5, <2>6
  <2>8. i >= 1  OBVIOUS
  <2>9. MatchInv(segments, str, i, next)  BY <1>4, <1>6, <2>6, <2>7, <2>8 DEF MatchInv
  <2>10. QED  BY <2>9 DEF next
<1>7. CASE m.ok /\ ~seg.placeholder /\ (first < 0 \/ (m.last = <<>> /\ first > 0))
  <2>1. next = [m EXCEPT !.ok = FALSE]  BY <1>7 DEF MatchSegment
  <2>2. next = [ok |-> FALSE, last |-> m.last, rest |-> m.rest, values |-> m.values]  BY <1>2, <2>1
  <2> HIDE DEF next
  <2>3. ~next.ok /\ next = [ok |-> next.ok, last |-> next.last, rest |-> next.rest, values |-> next.values]
    BY <2>2
  <2>4. MatchInv(segments, str, i, next)  BY <2>3 DEF MatchInv
  <2>5. QED  BY <2>4 DEF next
<1>8. CASE m.ok /\ ~seg.placeholder /\ ~(first < 0 \/ (m.last = <<>> /\ first > 0))
  <2>1. next = [ok |-> TRUE, last |-> <<>>, rest |-> tail,
                values |-> IF m.last = <<>> THEN m.values ELSE With(m.values, m.last[1], SubSeq(m.rest, 1, first))]
    BY <1>8 DEF MatchSegment
  <2>2. first # -1  BY <1>8
  <2>3. /\ first \in Nat /\ SubSeq(m.rest, 1, first) \in Str /\ tail \in Str
        /\ m.rest = SubSeq(m.rest, 1, first) \o (seg.value \o tail)
        /\ first = 0 => m.rest = seg.value \o tail
    <3>1. m.rest \in Str  BY <1>4, <1>8
    <3>2. PICK j : j = first  OBVIOUS
    <3>3. PICK rest : rest = m.rest  OBVIOUS
    <3>4. PICK x : x = seg.value  OBVIOUS
    <3>5. rest \in Str /\ x \in Str /\ j = Index(rest, x) /\ j # -1  BY <1>1, <2>2, <3>1, <3>2, <3>3, <3>4
    <3>6. /\ j \in Nat
          /\ SubSeq(rest, 1, j) \in Str /\ From(rest, j + Len(x)) \in Str
          /\ rest = SubSeq(rest, 1, j) \o (x \o From(rest, j + Len(x)))
          /\ j = 0 => rest = x \o From(rest, j + Len(x))
      <4>1. Index(rest, x) # -1  BY <3>5
      <4>2. LET h == Index(rest, x) IN
            /\ h \in Nat
            /\ SubSeq(rest, 1, h) \in Str /\ From(rest, h + Len(x)) \in Str
            /\ rest = SubSeq(rest, 1, h) \o (x \o From(rest, h + Len(x)))
            /\ h = 0 => rest = x \o From(rest, h + Len(x))
        BY <3>5, <4>1, IndexSplits
      <4>3. QED  BY <3>5, <4>2
    <3>7. QED  BY <3>2, <3>3, <3>4, <3>6
  <2> HIDE DEF first, tail, next
  <2>4. seg.value = FilledSegment(seg, next.values)  BY <1>8 DEF FilledSegment
  <2>5. seg = segments[n + 1]  BY <1>3
  <2>6. \E w : Matches(segments, next.values, w, i) /\ str = FlattenSeq(w) \o tail
    <3>1. CASE m.last = <<>>
      <4>1. first = 0  BY <1>8, <2>3, <3>1
      <4>2. PICK w : Matches(segments, m.values, w, n) /\ str = FlattenSeq(w) \o m.rest
        BY <1>4, <1>8, <3>1
      <4>3. next.values = m.values  BY <2>1, <3>1
      <4>4. /\ Matches(segments, m.values, Append(w, seg.value), n + 1)
            /\ FlattenSeq(Append(w, seg.value)) = FlattenSeq(w) \o seg.value /\ FlattenSeq(w) \in Str
        <5>1. ~segments[n + 1].placeholder /\ seg.value = FilledSegment(segments[n + 1], m.values)
          BY <1>8, <2>4, <2>5, <4>3
        <5>2. PICK values : values = m.values  OBVIOUS
        <5>3. PICK x : x = seg.value  OBVIOUS
        <5>4. x \in Str /\ Matches(segments, values, w, n)  BY <1>1, <4>2, <5>2, <5>3
        <5>5. ~segments[n + 1].placeholder /\ x = FilledSegment(segments[n + 1], values)  BY <5>1, <5>2, <5>3
        <5>6. /\ Matches(segments, values, Append(w, x), n + 1)
              /\ FlattenSeq(Append(w, x)) = FlattenSeq(w) \o x /\ FlattenSeq(w) \in Str
          BY <1>3, <5>4, <5>5, MatchesMore
        <5>7. QED  BY <5>2, <5>3, <5>6
      <4>5. str = (FlattenSeq(w) \o seg.value) \o tail
        <5>1. str = FlattenSeq(w) \o (seg.value \o tail)  BY <2>3, <4>1, <4>2
        <5>2. \A x, y, z \in Str : (x \o y) \o z = x \o (y \o z)  BY StrAssociative, Zenon
        <5>3. FlattenSeq(w) \in Str /\ seg.value \in Str /\ tail \in Str  BY <1>1, <2>3, <4>4
        <5>4. (FlattenSeq(w) \o seg.value) \o tail = FlattenSeq(w) \o (seg.value \o tail)
          BY <5>2, <5>3, Zenon
        <5>5. QED  BY <5>1, <5>4
      <4>6. QED  BY <1>3, <4>3, <4>4, <4>5
    <3>2. CASE m.last # <<>>
      <4> DEFINE v == SubSeq(m.rest, 1, first)
      <4>1. n >= 1 /\ segments[n].placeholder /\ m.last = <<segments[n].value>>  BY <1>4, <1>8, <3>2
      <4>2. PICK w : Matches(segments, m.values, w, n - 1) /\ str = FlattenSeq(w) \o m.rest
        BY <1>4, <1>8, <3>2
      <4>3. PICK k \in Nat : k = n - 1 /\ n = k + 1 /\ k < Len(segments)
        <5>1. n - 1 \in Nat /\ n = (n - 1) + 1 /\ n - 1 < Len(segments)  BY <1>3, <4>1
        <5>2. QED  BY <5>1
      <4>4. m.last[1] = segments[n].value  BY <4>1
      <4>5. next.values = With(m.values, segments[n].value, v)  BY <2>1, <3>2, <4>4
      <4>6. v \in Str  BY <2>3
      <4> HIDE DEF v
      <4>7. /\ Matches(segments, next.values, Append(w, v), n)
            /\ FlattenSeq(Append(w, v)) = FlattenSeq(w) \o v /\ FlattenSeq(w) \in Str
        <5>1. segments[k + 1].placeholder /\ Matches(segments, m.values, w, k)  BY <4>1, <4>2, <4>3
        <5>2. LET more == With(m.values, segments[k + 1].value, v) IN
              /\ Matches(segments, more, Append(w, v), k + 1)
              /\ FlattenSeq(Append(w, v)) = FlattenSeq(w) \o v
              /\ FlattenSeq(w) \in Str
          BY <4>3, <4>6, <5>1, MatchesWith
        <5>3. QED  BY <4>3, <4>5, <5>2
      <4>8. PICK u : u = Append(w, v)  OBVIOUS
      <4>9. /\ Matches(segments, next.values, Append(u, seg.value), n + 1)
            /\ FlattenSeq(Append(u, seg.value)) = FlattenSeq(u) \o seg.value
        <5>1. ~segments[n + 1].placeholder /\ seg.value = FilledSegment(segments[n + 1], next.values)
          BY <1>8, <2>4, <2>5
        <5>2. QED  BY <1>1, <1>3, <4>7, <4>8, <5>1, MatchesMore
      <4>10. FlattenSeq(u) = FlattenSeq(w) \o v  BY <4>7, <4>8
      <4>11. str = FlattenSeq(w) \o (v \o (seg.value \o tail))  BY <2>3, <4>2 DEF v
      <4>12. str = ((FlattenSeq(w) \o v) \o seg.value) \o tail
        <5>1. FlattenSeq(w) \in Str /\ seg.value \in Str /\ tail \in Str  BY <1>1, <2>3, <4>7
        <5>2. PICK t \in Str, x \in Str, y \in Str, z \in Str :
                t = FlattenSeq(w) /\ x = v /\ y = seg.value /\ z = tail
          BY <4>6, <5>1
        <5>3. t \o (x \o (y \o z)) = ((t \o x) \o y) \o z
          <6>1. \A t1, t2, t3, t4 \in Str : t1 \o (t2 \o (t3 \o t4)) = ((t1 \o t2) \o t3) \o t4
            BY StrAssociativeTwice
          <6>2. \A t2, t3, t4 \in Str : t \o (t2 \o (t3 \o t4)) = ((t \o t2) \o t3) \o t4  BY <6>1, Zenon
          <6>3. \A t3, t4 \in Str : t \o (x \o (t3 \o t4)) = ((t \o x) \o t3) \o t4  BY <6>2, Zenon
          <6>4. QED  BY <6>3, Zenon
        <5>4. QED  BY <4>11, <5>2, <5>3
      <4>13. QED  BY <1>3, <4>9, <4>10, <4>12
    <3>3. QED  BY <3>1, <3>2
  <2>7. /\ next.last = <<>> /\ next.rest = tail
        /\ next = [ok |-> next.ok, last |-> next.last, rest |-> next.rest, values |-> next.values]
    BY <2>1
  <2>8. \A k \in DOMAIN next.values : next.values[k] \in Str
    <3>1. PICK before, key, value : before = m.values /\ key = m.last[1] /\ value = SubSeq(m.rest, 1, first)
      OBVIOUS
    <3>2. \A k \in DOMAIN before : before[k] \in Str  BY <1>4, <1>8, <3>1
    <3>3. value \in Str /\ (next.values = before \/ next.values = With(before, key, value))  BY <2>1, <2>3, <3>1
    <3>4. QED  BY <3>2, <3>3, WithWell
  <2>9. MatchInv(segments, str, i, next)  BY <2>3, <2>6, <2>7, <2>8 DEF MatchInv
  <2>10. QED  BY <2>9 DEF next
<1>9. QED  BY <1>5, <1>6, <1>7, <1>8

LEMMA MatchedWell ==
  ASSUME NEW segments \in Seq(Segment), WellFormed(segments), NEW str \in Str
  PROVE  MatchInv(segments, str, Len(segments), Matched(segments, str))
<1>1. PICK n \in Nat : n = Len(segments)  OBVIOUS
<1> DEFINE f == After(segments, str)
           Good == {i \in 0 .. n : MatchInv(segments, str, i, f[i])}
<1>2. /\ f[0] = Start(str)
      /\ \A i \in 1 .. n : f[i] = MatchSegment(f[i - 1], segments[i])
      /\ Matched(segments, str) = f[n]
  BY <1>1, AfterSteps
<1> HIDE DEF f
<1>3. 0 \in Good
  <2>1. Matches(segments, <<>>, <<>>, 0)
    <3>1. <<>> \in Seq(Str) /\ Len(<<>>) = 0  OBVIOUS
    <3>2. QED  BY <3>1 DEF Matches
  <2>2. FlattenSeq(<<>>) \o str = str
    <3>1. <<>> \in Seq(Seq(Char)) /\ Len(<<>>) = 0  OBVIOUS
    <3>2. FlattenSeq(<<>>) = Flat(<<>>, Len(<<>>)) /\ Flat(<<>>, 0) = <<>>  BY <3>1, FlatSteps
    <3>3. <<>> \o str = str  BY ConcatEmptySeq DEF Str
    <3>4. QED  BY <3>1, <3>2, <3>3
  <2>3. MatchInv(segments, str, 0, Start(str))  BY <2>1, <2>2 DEF MatchInv, Start
  <2>4. QED  BY <1>2, <2>3
<1>4. \A i \in 0 .. n - 1 : i \in Good => i + 1 \in Good
  <2> SUFFICES ASSUME NEW i \in 0 .. n - 1, i \in Good PROVE MatchInv(segments, str, i + 1, f[i + 1])
    OBVIOUS
  <2>1. PICK j \in 1 .. Len(segments) : j = i + 1 /\ j - 1 = i
    <3>1. i + 1 \in 1 .. n /\ (i + 1) - 1 = i  OBVIOUS
    <3>2. QED  BY <1>1, <3>1
  <2>2. MatchInv(segments, str, j - 1, f[j - 1])  BY <2>1
  <2>3. f[j] = MatchSegment(f[j - 1], segments[j])  BY <1>1, <1>2
  <2>4. MatchInv(segments, str, j, f[j])  BY <2>2, <2>3, MatchInvStep
  <2>5. QED  BY <2>1, <2>4
<1>5. n \in Good
  <2> HIDE DEF Good
  <2>1. \A i \in 0 .. n : i \in Good  BY <1>3, <1>4, UpTo
  <2>2. QED  BY <2>1
<1>6. QED  BY <1>1, <1>2, <1>5

(* The values are strings, ...                                              *)
LEMMA MatchType ==
  ASSUME NEW segments \in Seq(Segment), WellFormed(segments), NEW str \in Str, Match(segments, str).ok
  PROVE  \A k \in DOMAIN Match(segments, str).values : Match(segments, str).values[k] \in Str
<1>1. PICK m : m = Matched(segments, str)  OBVIOUS
<1>2. MatchInv(segments, str, Len(segments), m)  BY <1>1, MatchedWell
<1>3. m.ok  BY <1>1 DEF Match
<1>4. m.rest \in Str /\ \A k \in DOMAIN m.values : m.values[k] \in Str  BY <1>2, <1>3 DEF MatchInv
<1>5. PICK before, key, rest : before = m.values /\ key = m.last[1] /\ rest = m.rest  OBVIOUS
<1>6. PICK values : values = Match(segments, str).values  OBVIOUS
<1>7. values = before \/ values = With(before, key, rest)  BY <1>1, <1>5, <1>6 DEF Match
<1>8. \A k \in DOMAIN values : values[k] \in Str  BY <1>4, <1>5, <1>7, WithWell
<1>9. QED  BY <1>6, <1>8

(* ... and fill the pattern in to the very name.                            *)
LEMMA MatchWell ==
  ASSUME NEW segments \in Seq(Segment), WellFormed(segments), NEW str \in Str, Match(segments, str).ok
  PROVE  str = FilledIn(segments, Match(segments, str).values)
<1>1. PICK n \in Nat : n = Len(segments)  OBVIOUS
<1>2. PICK m : m = Matched(segments, str)  OBVIOUS
<1>3. MatchInv(segments, str, n, m)  BY <1>1, <1>2, MatchedWell
<1>4. PICK values : values = Match(segments, str).values  OBVIOUS
<1>5. ASSUME NEW w, Matches(segments, values, w, n), str = FlattenSeq(w)
      PROVE  str = FilledIn(segments, values)
  <2>1. FilledIn(segments, values) = FlattenSeq([i \in 1 .. Len(segments) |-> FilledSegment(segments[i], values)])
    BY DEF FilledIn, FilledSegment
  <2>2. w \in Seq(Str) /\ Len(w) = n  BY <1>5 DEF Matches
  <2>3. w = [i \in 1 .. n |-> w[i]]  BY <2>2
  <2>4. \A i \in 1 .. n : w[i] = FilledSegment(segments[i], values)  BY <1>5 DEF Matches
  <2>5. w = [i \in 1 .. n |-> FilledSegment(segments[i], values)]  BY <2>3, <2>4, Zenon
  <2>6. QED  BY <1>1, <1>5, <2>1, <2>5
<1>6. CASE m.last = <<>>
  <2>1. m.ok /\ m.rest = <<>> /\ values = m.values  BY <1>2, <1>4, <1>6 DEF Match
  <2>2. PICK w : Matches(segments, m.values, w, n) /\ str = FlattenSeq(w) \o m.rest
    BY <1>3, <1>6, <2>1 DEF MatchInv
  <2>3. w \in Seq(Seq(Char))  BY <2>2 DEF Matches, Str
  <2>4. FlattenSeq(w) \in Seq(Char)
    <3>1. <<>> \in Seq(Char)  OBVIOUS
    <3>2. QED  BY <2>3, <3>1, FlattenAppend
  <2>5. FlattenSeq(w) \o <<>> = FlattenSeq(w)  BY <2>4, ConcatEmptySeq
  <2>6. str = FlattenSeq(w)  BY <2>1, <2>2, <2>5
  <2>7. QED  BY <1>4, <1>5, <2>1, <2>2, <2>6
<1>7. CASE m.last # <<>>
  <2>1. m.ok /\ values = With(m.values, m.last[1], m.rest)  BY <1>2, <1>4, <1>7 DEF Match
  <2>2. n >= 1 /\ segments[n].placeholder /\ m.last = <<segments[n].value>> /\ m.rest \in Str
    BY <1>3, <1>7, <2>1 DEF MatchInv
  <2>3. PICK w : Matches(segments, m.values, w, n - 1) /\ str = FlattenSeq(w) \o m.rest
    BY <1>3, <1>7, <2>1 DEF MatchInv
  <2>4. PICK k \in Nat : k = n - 1 /\ n = k + 1 /\ k < Len(segments)
    <3>1. n - 1 \in Nat /\ n = (n - 1) + 1 /\ n - 1 < Len(segments)  BY <1>1, <2>2
    <3>2. QED  BY <3>1
  <2>5. PICK rest \in Str : rest = m.rest  BY <2>2
  <2>6. PICK before : before = m.values  OBVIOUS
  <2>7. values = With(before, segments[k + 1].value, rest)  BY <2>1, <2>2, <2>4, <2>5, <2>6
  <2>8. segments[k + 1].placeholder /\ Matches(segments, before, w, k)  BY <2>2, <2>3, <2>4, <2>6
  <2>9. LET more == With(before, segments[k + 1].value, rest) IN
        /\ Matches(segments, more, Append(w, rest), k + 1)
        /\ FlattenSeq(Append(w, rest)) = FlattenSeq(w) \o rest
        /\ FlattenSeq(w) \in Str
    BY <2>4, <2>8, MatchesWith
  <2>10. Matches(segments, values, Append(w, rest), n) /\ str = FlattenSeq(Append(w, rest))
    BY <2>3, <2>4, <2>5, <2>7, <2>9
  <2>11. QED  BY <1>4, <1>5, <2>10
<1>8. QED  BY <1>6, <1>7

(* A request is where it is for the layer found, under the name asked for.  *)
NamesInv ==
  /\ NamesType
  /\ place \in {"accepted", "render", "generate", "tile"} => Constructed
  /\ place \in {"generate", "tile"} =>
       /\ MatchesName(layers[found], name)
       /\ matches = Match(Segments(layers[found]).segments, name).values

LEMMA NamesInvInit == Init => NamesInv
<1>1. Init => NamesType /\ place = "config"  BY NamesTypeInit DEF Init
<1>2. QED  BY <1>1 DEF NamesInv

LEMMA NamesInvNext == NamesInv /\ [Next]_vars => NamesInv'
<1> SUFFICES ASSUME NamesInv, [Next]_vars PROVE NamesInv'
  OBVIOUS
<1>1. NamesType /\ NamesType'  BY NamesTypeNext DEF NamesInv
<1>2. layers' = layers /\ (Constructed' <=> Constructed)
  <2>1. layers' = layers
    BY DEF Next, vars, ConstructLayerGroup, Request, FindLayer, Tile, Forward
  <2>2. QED  BY <2>1 DEF Constructed
<1>3. CASE ConstructLayerGroup
  <2>1. place' \in {"accepted", "refused"} /\ (place' = "accepted" => Constructed)
    BY <1>3 DEF ConstructLayerGroup
  <2>2. QED  BY <1>1, <1>2, <2>1 DEF NamesInv
<1>4. CASE Request
  <2>1. place = "accepted" /\ place' = "render"  BY <1>4 DEF Request
  <2>2. QED  BY <1>1, <1>2, <2>1 DEF NamesInv
<1>5. CASE FindLayer
  <2> DEFINE hit == {i \in DOMAIN layers : MatchesName(layers[i], name)}
  <2>1. place = "render" /\ name' = name  BY <1>5 DEF FindLayer
  <2>2. \/ place' = "missing"
        \/ /\ hit # {} /\ place' = "generate" /\ found' = Min(hit)
           /\ matches' = Match(Segments(layers[Min(hit)]).segments, name).values
    BY <1>5 DEF FindLayer
  <2>3. hit \subseteq Nat /\ \A i \in hit : MatchesName(layers[i], name)  BY <1>1, LayerFacts
  <2> HIDE DEF hit
  <2>4. hit # {} => Min(hit) \in hit  BY <2>3, MinOfNats
  <2>5. CASE place' = "missing"  BY <1>1, <2>5 DEF NamesInv
  <2>6. CASE hit # {} /\ place' = "generate" /\ found' = Min(hit)
             /\ matches' = Match(Segments(layers[Min(hit)]).segments, name).values
    <3>1. MatchesName(layers[found'], name) /\ matches' = Match(Segments(layers[found']).segments, name).values
      BY <2>3, <2>4, <2>6
    <3>2. MatchesName(layers[found], name)' /\ (matches = Match(Segments(layers[found]).segments, name).values)'
      BY <1>2, <2>1, <3>1
    <3>3. Constructed'  BY <1>2, <2>1 DEF NamesInv
    <3>4. QED  BY <1>1, <3>2, <3>3 DEF NamesInv
  <2>7. QED  BY <2>2, <2>5, <2>6
<1>6. CASE Tile
  <2>1. place' = "tile" /\ place = "generate" /\ UNCHANGED <<name, matches, found>>  BY <1>6 DEF Tile
  <2>2. QED  BY <1>1, <1>2, <2>1 DEF NamesInv
<1>7. CASE place = "generate" /\ \E target \in Refs(layers[found].provider) : Forward(target)
  <2>1. place' \in {"too deep", "render"} /\ Constructed  BY <1>7 DEF Forward, NamesInv
  <2>2. QED  BY <1>1, <1>2, <2>1 DEF NamesInv
<1>8. CASE UNCHANGED vars
  <2>1. UNCHANGED <<place, found, name, matches>>  BY <1>8 DEF vars
  <2>2. QED  BY <1>1, <1>2, <2>1 DEF NamesInv
<1>9. QED  BY <1>3, <1>4, <1>5, <1>6, <1>7, <1>8 DEF Next

(* What a layer's provider reads from the context are values that make its  *)
(* pattern the very name that was asked for, however ambiguous the pattern  *)
(* (layer.go:83-137): the pattern is its segments written out, and match    *)
(* takes the name apart into them.                                          *)
THEOREM NamesAreInstances == Spec => []NameIsInstance
<1>1. NamesInv => NameIsInstance
  <2> SUFFICES ASSUME NamesInv, place \in {"generate", "tile"}
               PROVE  LET segments == Segments(layers[found]).segments IN
                      /\ Written(segments) = (IF HasPattern(layers[found]) THEN layers[found].pattern ELSE layers[found].id)
                      /\ name = FilledIn(segments, matches)
    BY DEF NameIsInstance
  <2>1. NamesType /\ found \in DOMAIN layers /\ name \in Str  BY DEF NamesInv, NamesType
  <2>2. PICK l : l = layers[found]  OBVIOUS
  <2>3. IsLayer(l) /\ Segments(l).ok  BY <2>1, <2>2, LayerFacts DEF NamesInv, Constructed
  <2>4. PICK segments : segments = Segments(l).segments  OBVIOUS
  <2>5. segments \in Seq(Segment) /\ WellFormed(segments)
        /\ Written(segments) = IF HasPattern(l) THEN l.pattern ELSE l.id
    BY <2>3, <2>4, SegmentsWell
  <2>6. Match(segments, name).ok  BY <2>2, <2>4 DEF NamesInv, MatchesName
  <2>7. name = FilledIn(segments, Match(segments, name).values)  BY <2>1, <2>5, <2>6, MatchWell
  <2>8. QED  BY <2>2, <2>4, <2>5, <2>7 DEF NamesInv
<1>2. QED  BY <1>1, NamesInvInit, NamesInvNext, PTL DEF Spec

-----------------------------------------------------------------------------
(* Placeholders: what a number is written as is read as that number.        *)

DigitOf(c) == CHOOSE d \in 0 .. 9 : Digits[d + 1] = c

Dollar == "$"
Question == "?"
Slash == "/"

LEMMA DigitsDiffer == \A d, e \in 0 .. 9 : Digits[d + 1] = Digits[e + 1] => d = e
<1> SUFFICES ASSUME NEW d \in 0 .. 9, NEW e \in 0 .. 9, Digits[d + 1] = Digits[e + 1] PROVE d = e
  OBVIOUS
<1>1. d \in {0, 1, 2, 3, 4, 5, 6, 7, 8, 9} /\ e \in {0, 1, 2, 3, 4, 5, 6, 7, 8, 9}  OBVIOUS
<1>2. QED  BY <1>1 DEF Digits

LEMMA DigitFacts ==
  ASSUME NEW d \in 0 .. 9
  PROVE  /\ Digits[d + 1] \in Char /\ IsDigit(Digits[d + 1])
         /\ DigitOf(Digits[d + 1]) = d
<1>1. Digits[d + 1] \in Char  BY PlaceholdersAssumption
<1>2. DigitOf(Digits[d + 1]) = d  BY DigitsDiffer DEF DigitOf
<1>3. QED  BY <1>1, <1>2 DEF IsDigit

LEMMA NoDigits == ~IsDigit(Dollar) /\ ~IsDigit(Question) /\ Dollar # Question
<1>1. SUFFICES ASSUME NEW d \in 0 .. 9 PROVE Digits[d + 1] # Dollar /\ Digits[d + 1] # Question
  BY DEF IsDigit, Dollar, Question
<1>2. d \in {0, 1, 2, 3, 4, 5, 6, 7, 8, 9}  OBVIOUS
<1>3. QED  BY <1>2 DEF Digits, Dollar, Question

Tens(digits) == 
  CHOOSE f : f = [i \in 0 .. Len(digits) |-> IF i = 0 THEN 0 ELSE 10 * f[i - 1] + DigitOf(digits[i])]

DecimalFrom(f, k) == IF k < 10 THEN <<Digits[k + 1]>> ELSE Append(f[k \div 10], Digits[(k % 10) + 1])

Dec(n) == CHOOSE f : f = [k \in 0 .. n |-> DecimalFrom(f, k)]

LEMMA NumberIsTens == ASSUME NEW digits PROVE Number(digits) = Tens(digits)[Len(digits)]
BY DEF Number, Tens, DigitOf

LEMMA DecimalIsDec == ASSUME NEW n PROVE Decimal(n) = Dec(n)[n]
BY DEF Decimal, Dec, DecimalFrom

LEMMA TensAndOnes ==
  ASSUME NEW k \in Nat, k >= 10
  PROVE  k \div 10 \in 0 .. k - 1 /\ k % 10 \in 0 .. 9 /\ k = 10 * (k \div 10) + (k % 10)
OBVIOUS

TensFrom(f, digits, i) == IF i = 0 THEN 0 ELSE 10 * f[i - 1] + DigitOf(digits[i])

LEMMA TensExists ==
  ASSUME NEW digits, Len(digits) \in Nat
  PROVE  Tens(digits) = [i \in 0 .. Len(digits) |-> TensFrom(Tens(digits), digits, i)]
<1> DEFINE Some(n) == \E f : f = [i \in 0 .. n |-> TensFrom(f, digits, i)]
           Good == {n \in Nat : Some(n)}
<1>1. 0 \in Good
  <2> DEFINE f == [i \in 0 .. 0 |-> 0]
  <2>1. f = [i \in 0 .. 0 |-> TensFrom(f, digits, i)]  BY DEF TensFrom
  <2>2. QED  BY <2>1
<1>2. ASSUME NEW n \in Nat, n \in Good PROVE n + 1 \in Good
  <2>1. PICK f : f = [i \in 0 .. n |-> TensFrom(f, digits, i)]  BY <1>2, Zenon
  <2> DEFINE g == [i \in 0 .. n + 1 |-> IF i <= n THEN f[i] ELSE TensFrom(f, digits, i)]
  <2>2. \A i \in 0 .. n : g[i] = f[i] /\ f[i] = TensFrom(f, digits, i)
    <3>1. \A i \in 0 .. n : f[i] = TensFrom(f, digits, i)  BY <2>1, Zenon
    <3>2. QED  BY <3>1
  <2>3. g[n + 1] = TensFrom(f, digits, n + 1)  OBVIOUS
  <2>4. g = [i \in 0 .. n + 1 |-> g[i]]  OBVIOUS
  <2> HIDE DEF g
  <2>5. \A i \in 0 .. n + 1 : g[i] = TensFrom(g, digits, i)
    <3> TAKE i \in 0 .. n + 1
    <3>1. TensFrom(f, digits, i) = TensFrom(g, digits, i)
      <4>1. CASE i = 0  BY <4>1 DEF TensFrom
      <4>2. CASE i # 0
        <5>1. i - 1 \in 0 .. n  BY <4>2
        <5>2. f[i - 1] = g[i - 1]  BY <2>2, <5>1
        <5>3. QED  BY <4>2, <5>2, Zenon DEF TensFrom
      <4>3. QED  BY <4>1, <4>2
    <3>2. CASE i = n + 1  BY <2>3, <3>1, <3>2
    <3>3. CASE i # n + 1
      <4>1. i \in 0 .. n  BY <3>3
      <4>2. QED  BY <2>2, <3>1, <4>1
    <3>4. QED  BY <3>2, <3>3
  <2>6. g = [i \in 0 .. n + 1 |-> TensFrom(g, digits, i)]  BY <2>4, <2>5, Zenon
  <2>7. n + 1 \in Nat  OBVIOUS
  <2>8. QED  BY <2>6, <2>7, Zenon
<1>3. Len(digits) \in Good
  <2> HIDE DEF Good
  <2>1. PICK n \in Nat : n = Len(digits)  OBVIOUS
  <2>2. \A i \in 0 .. n - 1 : i \in Good => i + 1 \in Good  BY <1>2
  <2>3. \A i \in 0 .. n : i \in Good  BY <1>1, <2>2, UpTo
  <2>4. QED  BY <2>1, <2>3
<1>4. QED  BY <1>3 DEF Tens, TensFrom

LEMMA TensSteps ==
  ASSUME NEW digits, Len(digits) \in Nat
  PROVE  /\ Tens(digits)[0] = 0
         /\ \A i \in 1 .. Len(digits) : Tens(digits)[i] = 10 * Tens(digits)[i - 1] + DigitOf(digits[i])
<1> DEFINE f == Tens(digits)
<1>1. f = [i \in 0 .. Len(digits) |-> TensFrom(f, digits, i)]  BY TensExists, Zenon
<1> HIDE DEF f
<1>2. \A i \in 0 .. Len(digits) : f[i] = TensFrom(f, digits, i)  BY <1>1, Zenon
<1>3. f[0] = 0  BY <1>2 DEF TensFrom
<1>4. ASSUME NEW i \in 1 .. Len(digits) PROVE f[i] = 10 * f[i - 1] + DigitOf(digits[i])
  <2>1. i \in 0 .. Len(digits) /\ i # 0  OBVIOUS
  <2>2. QED  BY <1>2, <2>1, Zenon DEF TensFrom
<1>5. QED  BY <1>3, <1>4 DEF f

(* A digit behind others.                                                   *)
LEMMA NumberAppend ==
  ASSUME NEW digits \in Str, NEW c \in Char
  PROVE  Number(Append(digits, c)) = 10 * Number(digits) + DigitOf(c)
<1> DEFINE more == Append(digits, c)
<1>1. PICK n \in Nat : n = Len(digits)  BY DEF Str
<1>2. Len(more) = n + 1 /\ more[n + 1] = c /\ \A i \in 1 .. n : more[i] = digits[i]
  BY <1>1, AppendProperties DEF Str
<1> HIDE DEF more
<1>3. PICK f : f = Tens(digits)  OBVIOUS
<1>4. PICK g : g = Tens(more)  OBVIOUS
<1>5. f[0] = 0 /\ \A i \in 1 .. n : f[i] = 10 * f[i - 1] + DigitOf(digits[i])  BY <1>1, <1>3, TensSteps
<1>6. g[0] = 0 /\ \A i \in 1 .. n + 1 : g[i] = 10 * g[i - 1] + DigitOf(more[i])
  <2>1. PICK m \in Nat : m = n + 1  OBVIOUS
  <2>2. g[0] = 0 /\ \A i \in 1 .. m : g[i] = 10 * g[i - 1] + DigitOf(more[i])  BY <1>2, <1>4, <2>1, TensSteps
  <2>3. QED  BY <2>1, <2>2
<1> DEFINE Same == {i \in 0 .. n : f[i] = g[i]}
<1>7. \A i \in 0 .. n : i \in Same
  <2>1. 0 \in Same  BY <1>5, <1>6
  <2>2. ASSUME NEW i \in 0 .. n - 1, i \in Same PROVE i + 1 \in Same
    <3>1. PICK j : j = i + 1  OBVIOUS
    <3>2. j \in 1 .. n /\ j \in 1 .. n + 1 /\ j - 1 = i /\ j \in 0 .. n  BY <3>1
    <3>3. f[j] = 10 * f[i] + DigitOf(digits[j])  BY <1>5, <3>2
    <3>4. g[j] = 10 * g[i] + DigitOf(more[j])  BY <1>6, <3>2
    <3>5. f[i] = g[i] /\ digits[j] = more[j]  BY <1>2, <2>2, <3>2
    <3>6. f[j] = g[j]  BY <3>3, <3>4, <3>5, Zenon
    <3>7. QED  BY <3>1, <3>2, <3>6
  <2> HIDE DEF Same
  <2>3. QED  BY <2>1, <2>2, UpTo
<1>8. Number(digits) = f[n] /\ Number(more) = g[n + 1]
  <2>1. Number(digits) = Tens(digits)[Len(digits)] /\ Number(more) = Tens(more)[Len(more)]  BY NumberIsTens
  <2>2. QED  BY <1>1, <1>2, <1>3, <1>4, <2>1
<1>9. g[n + 1] = 10 * g[n] + DigitOf(c)
  <2>1. PICK m : m = n + 1  OBVIOUS
  <2>2. m \in 1 .. n + 1 /\ m - 1 = n  BY <2>1
  <2>3. g[m] = 10 * g[n] + DigitOf(more[m])  BY <1>6, <2>2
  <2>4. QED  BY <1>2, <2>1, <2>3
<1>10. f[n] = g[n]  BY <1>7
<1>11. QED  BY <1>8, <1>9, <1>10 DEF more

(* A number is written by the one it is ten times of.                       *)
LEMMA DecimalIsLocal ==
  ASSUME NEW k \in Nat, NEW f, NEW g, \A j \in 0 .. k - 1 : f[j] = g[j]
  PROVE  DecimalFrom(f, k) = DecimalFrom(g, k)
<1>1. CASE k < 10  BY <1>1 DEF DecimalFrom
<1>2. CASE ~(k < 10)
  <2>1. PICK t : t = k \div 10  OBVIOUS
  <2>2. t \in 0 .. k - 1  BY <1>2, <2>1, TensAndOnes
  <2>3. f[t] = g[t]  BY <2>2
  <2>4. QED  BY <1>2, <2>1, <2>3, Zenon DEF DecimalFrom
<1>3. QED  BY <1>1, <1>2

LEMMA DecExists ==
  ASSUME NEW n \in Nat
  PROVE  /\ Dec(n) = [k \in 0 .. n |-> DecimalFrom(Dec(n), k)]
         /\ \A k \in 0 .. n : Dec(n)[k] = DecimalFrom(Dec(n), k)
<1> DEFINE Some(m) == \E f : f = [k \in 0 .. m |-> DecimalFrom(f, k)]
           Good == {m \in Nat : Some(m)}
<1>1. 0 \in Good
  <2> DEFINE f == [k \in 0 .. 0 |-> <<Digits[k + 1]>>]
  <2>1. \A k \in 0 .. 0 : f[k] = DecimalFrom(f, k)  BY DEF DecimalFrom
  <2>2. f = [k \in 0 .. 0 |-> f[k]]  OBVIOUS
  <2> HIDE DEF f
  <2>3. f = [k \in 0 .. 0 |-> DecimalFrom(f, k)]  BY <2>1, <2>2, Zenon
  <2>4. 0 \in Nat  OBVIOUS
  <2>5. QED  BY <2>3, <2>4, Zenon
<1>2. ASSUME NEW m \in Nat, m \in Good PROVE m + 1 \in Good
  <2>1. PICK f : f = [k \in 0 .. m |-> DecimalFrom(f, k)]  BY <1>2, Zenon
  <2> DEFINE g == [k \in 0 .. m + 1 |-> IF k <= m THEN f[k] ELSE DecimalFrom(f, k)]
  <2>2. \A k \in 0 .. m : g[k] = f[k] /\ f[k] = DecimalFrom(f, k)
    <3>1. \A k \in 0 .. m : f[k] = DecimalFrom(f, k)  BY <2>1, Zenon
    <3>2. QED  BY <3>1
  <2>3. g[m + 1] = DecimalFrom(f, m + 1)  OBVIOUS
  <2>4. g = [k \in 0 .. m + 1 |-> g[k]]  OBVIOUS
  <2> HIDE DEF g
  <2>5. \A k \in 0 .. m + 1 : g[k] = DecimalFrom(g, k)
    <3> TAKE k \in 0 .. m + 1
    <3>1. DecimalFrom(f, k) = DecimalFrom(g, k)
      <4>1. \A j \in 0 .. k - 1 : j \in 0 .. m  OBVIOUS
      <4>2. \A j \in 0 .. k - 1 : f[j] = g[j]  BY <2>2, <4>1
      <4>3. QED  BY <4>2, DecimalIsLocal
    <3>2. CASE k = m + 1  BY <2>3, <3>1, <3>2
    <3>3. CASE k # m + 1
      <4>1. k \in 0 .. m  BY <3>3
      <4>2. QED  BY <2>2, <3>1, <4>1
    <3>4. QED  BY <3>2, <3>3
  <2>6. g = [k \in 0 .. m + 1 |-> DecimalFrom(g, k)]  BY <2>4, <2>5, Zenon
  <2>7. m + 1 \in Nat  OBVIOUS
  <2>8. QED  BY <2>6, <2>7, Zenon
<1>3. n \in Good
  <2> HIDE DEF Good
  <2>1. \A i \in 0 .. n - 1 : i \in Good => i + 1 \in Good  BY <1>2
  <2>2. \A i \in 0 .. n : i \in Good  BY <1>1, <2>1, UpTo
  <2>3. QED  BY <2>2
<1>4. PICK f : f = [k \in 0 .. n |-> DecimalFrom(f, k)]  BY <1>3, Zenon
<1>5. Dec(n) = [k \in 0 .. n |-> DecimalFrom(Dec(n), k)]  BY <1>4 DEF Dec
<1>6. \A k \in 0 .. n : Dec(n)[k] = DecimalFrom(Dec(n), k)
  <2>1. PICK g : g = Dec(n)  OBVIOUS
  <2>2. g = [k \in 0 .. n |-> DecimalFrom(g, k)]  BY <1>5, <2>1
  <2>3. \A k \in 0 .. n : g[k] = DecimalFrom(g, k)  BY <2>2, Zenon
  <2>4. QED  BY <2>1, <2>3
<1>7. QED  BY <1>5, <1>6

(* What is written is digits, at least one, and read as the number.         *)
Numeral(digits, n) ==
  /\ digits \in Str /\ Len(digits) >= 1
  /\ \A i \in 1 .. Len(digits) : IsDigit(digits[i])
  /\ Number(digits) = n

LEMMA NumeralAppend ==
  ASSUME NEW digits \in Str, \A i \in 1 .. Len(digits) : IsDigit(digits[i]),
         NEW n \in Nat, Number(digits) = n, NEW d \in 0 .. 9
  PROVE  Numeral(Append(digits, Digits[d + 1]), 10 * n + d)
<1>1. PICK c \in Char : c = Digits[d + 1] /\ IsDigit(c) /\ DigitOf(c) = d  BY DigitFacts
<1>2. PICK more : more = Append(digits, c)  OBVIOUS
<1>3. PICK m \in Nat : m = Len(digits)  BY DEF Str
<1>4. more \in Str /\ Len(more) = m + 1 /\ more[m + 1] = c /\ \A i \in 1 .. m : more[i] = digits[i]
  BY <1>2, <1>3, AppendProperties DEF Str
<1>5. \A i \in 1 .. m + 1 : IsDigit(more[i])
  <2> TAKE i \in 1 .. m + 1
  <2>1. CASE i = m + 1  BY <1>1, <1>4, <2>1
  <2>2. CASE i # m + 1
    <3>1. i \in 1 .. m  BY <2>2
    <3>2. QED  BY <1>3, <1>4, <3>1
  <2>3. QED  BY <2>1, <2>2
<1>6. Number(more) = 10 * n + d
  <2>1. Number(Append(digits, c)) = 10 * Number(digits) + DigitOf(c)  BY NumberAppend
  <2>2. QED  BY <1>1, <1>2, <2>1
<1>7. Len(more) >= 1  BY <1>4
<1>8. Numeral(more, 10 * n + d)  BY <1>4, <1>5, <1>6, <1>7 DEF Numeral
<1>9. QED  BY <1>1, <1>2, <1>8

LEMMA DecimalWell ==
  ASSUME NEW n \in Nat
  PROVE  Numeral(Decimal(n), n)
<1>1. PICK f : f = Dec(n)  OBVIOUS
<1>2. \A k \in 0 .. n : f[k] = DecimalFrom(f, k)  BY <1>1, DecExists
<1> DEFINE Good == {k \in 0 .. n : \A j \in 0 .. k : Numeral(f[j], j)}
<1>3. ASSUME NEW k \in 0 .. n, \A j \in 0 .. k - 1 : Numeral(f[j], j) PROVE Numeral(f[k], k)
  <2>1. CASE k < 10
    <3>1. f[k] = <<Digits[k + 1]>>  BY <1>2, <2>1 DEF DecimalFrom
    <3>2. <<>> \in Str /\ Len(<<>>) = 0  BY DEF Str
    <3>3. Number(<<>>) = 0
      <4>1. PICK s \in Str : s = <<>> /\ Len(s) = 0  BY <3>2
      <4>2. Number(s) = Tens(s)[0] /\ Tens(s)[0] = 0  BY <4>1, NumberIsTens, TensSteps
      <4>3. QED  BY <4>1, <4>2
    <3>4. k \in 0 .. 9  BY <2>1
    <3>5. PICK s \in Str : s = <<>> /\ Len(s) = 0 /\ Number(s) = 0  BY <3>2, <3>3
    <3>6. \A i \in 1 .. Len(s) : IsDigit(s[i])  BY <3>5
    <3>7. PICK zero \in Nat : zero = 0  OBVIOUS
    <3>8. Numeral(Append(s, Digits[k + 1]), 10 * zero + k)
      <4>1. Number(s) = zero  BY <3>5, <3>7
      <4>2. QED  BY <3>4, <3>6, <4>1, NumeralAppend, Zenon
    <3>9. Append(s, Digits[k + 1]) = <<Digits[k + 1]>>  BY <3>5
    <3>10. 10 * zero + k = k  BY <3>7
    <3>11. QED  BY <3>1, <3>8, <3>9, <3>10
  <2>2. CASE ~(k < 10)
    <3>1. PICK t, r : t = k \div 10 /\ r = k % 10  OBVIOUS
    <3>2. t \in 0 .. k - 1 /\ r \in 0 .. 9 /\ k = 10 * t + r  BY <2>2, <3>1, TensAndOnes
    <3>3. f[k] = Append(f[t], Digits[r + 1])
      <4>1. f[k] = DecimalFrom(f, k)  BY <1>2
      <4>2. QED  BY <2>2, <3>1, <4>1, Zenon DEF DecimalFrom
    <3>4. PICK s : s = f[t]  OBVIOUS
    <3>5. Numeral(s, t)  BY <1>3, <3>2, <3>4
    <3>6. s \in Str /\ (\A i \in 1 .. Len(s) : IsDigit(s[i])) /\ Number(s) = t  BY <3>5 DEF Numeral
    <3>7. t \in Nat  BY <3>2
    <3>8. Numeral(Append(s, Digits[r + 1]), 10 * t + r)  BY <3>2, <3>6, <3>7, NumeralAppend
    <3>9. QED  BY <3>2, <3>3, <3>4, <3>8
  <2>3. QED  BY <2>1, <2>2
<1>4. 0 \in Good
  <2>1. Numeral(f[0], 0)  BY <1>3
  <2>2. QED  BY <2>1
<1>5. ASSUME NEW k \in 0 .. n - 1, k \in Good PROVE k + 1 \in Good
  <2>1. PICK m \in 0 .. n : m = k + 1  OBVIOUS
  <2>2. \A j \in 0 .. m - 1 : Numeral(f[j], j)  BY <1>5, <2>1
  <2>3. Numeral(f[m], m)  BY <1>3, <2>2
  <2>4. \A j \in 0 .. m : Numeral(f[j], j)
    <3> TAKE j \in 0 .. m
    <3>1. j = m \/ j \in 0 .. m - 1  OBVIOUS
    <3>2. QED  BY <2>2, <2>3, <3>1
  <2>5. QED  BY <2>1, <2>4
<1>6. n \in Good
  <2> HIDE DEF Good
  <2>1. \A k \in 0 .. n : k \in Good  BY <1>4, <1>5, UpTo
  <2>2. QED  BY <2>1
<1>7. Decimal(n) = f[n]  BY <1>1, DecimalIsDec
<1>8. QED  BY <1>6, <1>7

-----------------------------------------------------------------------------
(* The scan: the digits behind a place, and one step from there.            *)

LEMMA RunEndIs ==
  ASSUME NEW str \in Str, NEW i \in 1 .. Len(str), NEW j \in i .. Len(str),
         \A k \in i + 1 .. j : IsDigit(str[k]), j < Len(str) => ~IsDigit(str[j + 1])
  PROVE  RunEnd(str, i) = j
<1>1. PICK len \in Nat : len = Len(str)  BY DEF Str
<1> DEFINE Ends(l) == (\A k \in i + 1 .. l : IsDigit(str[k])) /\ (l < Len(str) => ~IsDigit(str[l + 1]))
<1>2. Ends(j)  OBVIOUS
<1>3. ASSUME NEW l \in i .. Len(str), Ends(l) PROVE l = j
  <2>1. i \in Nat /\ l \in Nat /\ j \in Nat  OBVIOUS
  <2>2. ASSUME l < j PROVE FALSE
    <3>1. PICK m : m = l + 1  OBVIOUS
    <3>2. m \in i + 1 .. j /\ l < Len(str)  BY <1>1, <2>1, <2>2, <3>1
    <3>3. IsDigit(str[m]) /\ ~IsDigit(str[m])  BY <1>3, <3>1, <3>2
    <3>4. QED  BY <3>3
  <2>3. ASSUME j < l PROVE FALSE
    <3>1. PICK m : m = j + 1  OBVIOUS
    <3>2. m \in i + 1 .. l /\ j < Len(str)  BY <1>1, <2>1, <2>3, <3>1
    <3>3. IsDigit(str[m]) /\ ~IsDigit(str[m])  BY <1>3, <3>1, <3>2
    <3>4. QED  BY <3>3
  <2>4. QED  BY <2>1, <2>2, <2>3
<1>4. RunEnd(str, i) = CHOOSE l \in i .. Len(str) : Ends(l)  BY DEF RunEnd
<1> HIDE DEF Ends
<1>5. QED  BY <1>2, <1>3, <1>4

LEMMA RunEndFound ==
  ASSUME NEW str \in Str, NEW i \in 1 .. Len(str)
  PROVE  RunEnd(str, i) \in i .. Len(str)
<1>1. PICK len \in Nat : len = Len(str)  BY DEF Str
<1> DEFINE S == {j \in i .. len : j < len => ~IsDigit(str[j + 1])}
<1>2. S \subseteq Nat /\ len \in S  BY <1>1
<1>3. \E j \in S : \A k \in S : j <= k
  <2> HIDE DEF S
  <2>1. QED  BY <1>2, LeastElement
<1>4. PICK j \in S : \A k \in S : j <= k  BY <1>3
<1>5. \A k \in i + 1 .. j : IsDigit(str[k])
  <2> SUFFICES ASSUME NEW k \in i + 1 .. j, ~IsDigit(str[k]) PROVE FALSE
    OBVIOUS
  <2>1. PICK l : l = k - 1  OBVIOUS
  <2>2. l \in i .. len /\ l + 1 = k /\ l < j  BY <1>4, <2>1
  <2>3. l \in S  BY <2>2
  <2>4. QED  BY <1>4, <2>2, <2>3
<1>6. j \in i .. Len(str) /\ (j < Len(str) => ~IsDigit(str[j + 1]))  BY <1>1, <1>4
<1> HIDE DEF S
<1>7. RunEnd(str, i) = j  BY <1>5, <1>6, RunEndIs
<1>8. QED  BY <1>6, <1>7

LEMMA ScanIsLocal ==
  ASSUME NEW template, NEW values, NEW str \in Str, NEW i \in 1 .. Len(str) + 1, NEW f, NEW g,
         \A k \in i + 1 .. Len(str) + 1 : f[k] = g[k]
  PROVE  ScanFrom(f, template, values, str, i) = ScanFrom(g, template, values, str, i)
<1>1. PICK len \in Nat : len = Len(str)  BY DEF Str
<1>2. PICK j : j = RunEnd(str, i)  OBVIOUS
<1>3. PICK index : index = Number(SubSeq(str, i + 1, j))  OBVIOUS
<1>4. \A h : ScanFrom(h, template, values, str, i) =
        IF i = Len(str) + 1 THEN <<>>
        ELSE IF str[i] = Dollar /\ j > i /\ index < Len(values)
             THEN Inserted(template, values, index, i, str) \o h[j + 1]
             ELSE <<str[i]>> \o h[i + 1]
  BY <1>2, <1>3 DEF ScanFrom, Dollar
<1>5. CASE i = Len(str) + 1
  <2>1. \A h : ScanFrom(h, template, values, str, i) = <<>>  BY <1>4, <1>5
  <2>2. QED  BY <2>1
<1>6. CASE i # Len(str) + 1
  <2>1. i \in 1 .. Len(str)  BY <1>1, <1>6
  <2>2. j \in i .. Len(str)  BY <1>2, <2>1, RunEndFound
  <2>3. j + 1 \in i + 1 .. Len(str) + 1 /\ i + 1 \in i + 1 .. Len(str) + 1  BY <1>1, <2>1, <2>2
  <2>4. f[j + 1] = g[j + 1] /\ f[i + 1] = g[i + 1]  BY <2>3
  <2>5. CASE str[i] = Dollar /\ j > i /\ index < Len(values)
    <3>1. \A h : ScanFrom(h, template, values, str, i) = Inserted(template, values, index, i, str) \o h[j + 1]
      BY <1>4, <1>6, <2>5
    <3>2. QED  BY <2>4, <3>1
  <2>6. CASE ~(str[i] = Dollar /\ j > i /\ index < Len(values))
    <3>1. \A h : ScanFrom(h, template, values, str, i) = <<str[i]>> \o h[i + 1]
      BY <1>4, <1>6, <2>6
    <3>2. QED  BY <2>4, <3>1
  <2>7. QED  BY <2>5, <2>6
<1>7. QED  BY <1>5, <1>6

Scanned(template, values, str) ==
  CHOOSE f : f = [i \in 1 .. Len(str) + 1 |-> ScanFrom(f, template, values, str, i)]

LEMMA ScanExists ==
  ASSUME NEW template, NEW values, NEW str \in Str
  PROVE  /\ Scan(template, values, str) = Scanned(template, values, str)[1]
         /\ \A i \in 1 .. Len(str) + 1 :
              Scanned(template, values, str)[i] = ScanFrom(Scanned(template, values, str), template, values, str, i)
<1>1. PICK len \in Nat : len = Len(str)  BY DEF Str
<1> DEFINE Some(n) == \E f : f = [i \in len + 2 - n .. len + 1 |-> ScanFrom(f, template, values, str, i)]
           Good == {n \in Nat : Some(n)}
<1>2. 0 \in Good
  <2> DEFINE f == [i \in {} |-> 0]
  <2>1. f = [i \in len + 2 - 0 .. len + 1 |-> ScanFrom(f, template, values, str, i)]
    <3>1. len + 2 - 0 .. len + 1 = {}  OBVIOUS
    <3>2. QED  BY <3>1
  <2>2. 0 \in Nat  OBVIOUS
  <2> HIDE DEF f
  <2>3. QED  BY <2>1, <2>2, Zenon
<1>3. ASSUME NEW n \in 0 .. len, n \in Good PROVE n + 1 \in Good
  <2>1. PICK f : f = [i \in len + 2 - n .. len + 1 |-> ScanFrom(f, template, values, str, i)]
    BY <1>3, Zenon
  <2> DEFINE g == [i \in len + 2 - (n + 1) .. len + 1 |->
                     IF i >= len + 2 - n THEN f[i] ELSE ScanFrom(f, template, values, str, i)]
  <2>2. \A i \in len + 2 - n .. len + 1 : g[i] = f[i] /\ f[i] = ScanFrom(f, template, values, str, i)
    <3>1. \A i \in len + 2 - n .. len + 1 : f[i] = ScanFrom(f, template, values, str, i)  BY <2>1, Zenon
    <3>2. \A i \in len + 2 - n .. len + 1 : g[i] = f[i]  OBVIOUS
    <3>3. QED  BY <3>1, <3>2
  <2>3. g[len + 1 - n] = ScanFrom(f, template, values, str, len + 1 - n)
    <3>1. len + 1 - n \in len + 2 - (n + 1) .. len + 1 /\ ~(len + 1 - n >= len + 2 - n)  OBVIOUS
    <3>2. QED  BY <3>1
  <2>4. g = [i \in len + 2 - (n + 1) .. len + 1 |-> g[i]]  OBVIOUS
  <2> HIDE DEF g
  <2>5. \A i \in len + 2 - (n + 1) .. len + 1 : g[i] = ScanFrom(g, template, values, str, i)
    <3> TAKE i \in len + 2 - (n + 1) .. len + 1
    <3>1. i \in 1 .. len + 1 /\ \A k \in i + 1 .. len + 1 : k \in len + 2 - n .. len + 1  OBVIOUS
    <3>2. ScanFrom(f, template, values, str, i) = ScanFrom(g, template, values, str, i)
      <4>1. \A k \in i + 1 .. len + 1 : f[k] = g[k]  BY <2>2, <3>1
      <4>2. QED  BY <1>1, <3>1, <4>1, ScanIsLocal
    <3>3. CASE i = len + 1 - n  BY <2>3, <3>2, <3>3
    <3>4. CASE i # len + 1 - n
      <4>1. i \in len + 2 - n .. len + 1  BY <3>4
      <4>2. QED  BY <2>2, <3>2, <4>1
    <3>5. QED  BY <3>3, <3>4
  <2>6. g = [i \in len + 2 - (n + 1) .. len + 1 |-> ScanFrom(g, template, values, str, i)]  BY <2>4, <2>5, Zenon
  <2>7. n + 1 \in Nat  OBVIOUS
  <2>8. QED  BY <2>6, <2>7, Zenon
<1>4. len + 1 \in Good
  <2> HIDE DEF Good
  <2>1. PICK m \in Nat : m = len + 1  OBVIOUS
  <2>2. \A i \in 0 .. m - 1 : i \in Good => i + 1 \in Good
    <3>1. 0 .. m - 1 = 0 .. len  BY <2>1
    <3>2. QED  BY <1>3, <3>1
  <2>3. \A i \in 0 .. m : i \in Good  BY <1>2, <2>2, UpTo
  <2>4. QED  BY <2>1, <2>3
<1>5. Some(len + 1)  BY <1>4
<1>6. PICK f : f = [i \in len + 2 - (len + 1) .. len + 1 |-> ScanFrom(f, template, values, str, i)]
  BY <1>5, Zenon
<1>7. len + 2 - (len + 1) .. len + 1 = 1 .. Len(str) + 1  BY <1>1
<1>8. f = [i \in 1 .. Len(str) + 1 |-> ScanFrom(f, template, values, str, i)]  BY <1>6, <1>7, Zenon
<1>9. PICK h : h = Scanned(template, values, str)  OBVIOUS
<1>10. h = [i \in 1 .. Len(str) + 1 |-> ScanFrom(h, template, values, str, i)]  BY <1>8, <1>9 DEF Scanned
<1>11. \A i \in 1 .. Len(str) + 1 : h[i] = ScanFrom(h, template, values, str, i)  BY <1>10, Zenon
<1>12. Scan(template, values, str) = Scanned(template, values, str)[1]  BY DEF Scan, Scanned
<1>13. QED  BY <1>9, <1>11, <1>12

(* What a step of the scan does, ...                                        *)
ScanChoice(f, template, values, str, i, j) ==
  IF str[i] = Dollar /\ j > i /\ Number(SubSeq(str, i + 1, j)) < Len(values)
  THEN Inserted(template, values, Number(SubSeq(str, i + 1, j)), i, str) \o f[j + 1]
  ELSE <<str[i]>> \o f[i + 1]

LEMMA ScanStep ==
  ASSUME NEW template, NEW values, NEW str \in Str, NEW f,
         \A i \in 1 .. Len(str) + 1 : f[i] = ScanFrom(f, template, values, str, i),
         NEW i \in 1 .. Len(str), NEW j, j = RunEnd(str, i)
  PROVE  f[i] = ScanChoice(f, template, values, str, i, j)
<1>1. PICK len \in Nat : len = Len(str)  BY DEF Str
<1>2. i \in 1 .. Len(str) + 1 /\ i # Len(str) + 1  BY <1>1
<1>3. f[i] = ScanFrom(f, template, values, str, i)  BY <1>2
<1>4. QED  BY <1>2, <1>3, Zenon DEF ScanFrom, ScanChoice, Dollar

LEMMA ScanEnd ==
  ASSUME NEW template, NEW values, NEW str \in Str, NEW f,
         \A i \in 1 .. Len(str) + 1 : f[i] = ScanFrom(f, template, values, str, i)
  PROVE  f[Len(str) + 1] = <<>>
<1>1. PICK len \in Nat : len = Len(str)  BY DEF Str
<1>2. len + 1 \in 1 .. len + 1  OBVIOUS
<1>3. QED  BY <1>1, <1>2 DEF ScanFrom

(* ... and many steps over characters that are no "$".                      *)
Taken(f, str, p, q) == f[p] = SubSeq(str, p, q - 1) \o f[q]

LEMMA ScanPlain ==
  ASSUME NEW template, NEW values, NEW str \in Str, NEW f,
         \A i \in 1 .. Len(str) + 1 : f[i] = ScanFrom(f, template, values, str, i),
         NEW p \in 1 .. Len(str) + 1, NEW q \in p .. Len(str) + 1,
         \A k \in p .. q - 1 : str[k] # Dollar, f[q] \in Str
  PROVE  Taken(f, str, p, q)
<1>1. PICK len \in Nat : len = Len(str)  BY DEF Str
<1> DEFINE Good == {n \in 0 .. q - p : f[q - n] = SubSeq(str, q - n, q - 1) \o f[q]}
<1>2. p \in Nat /\ q \in Nat /\ p <= q /\ q <= len + 1 /\ p >= 1 /\ q - p \in Nat  BY <1>1
<1>3. 0 \in Good
  <2>1. SubSeq(str, q, q - 1) = <<>>  BY <1>2, SubSeqEmpty
  <2>2. <<>> \o f[q] = f[q]  BY ConcatEmptySeq DEF Str
  <2>3. q - 0 = q /\ 0 \in 0 .. q - p  BY <1>2
  <2>4. QED  BY <2>1, <2>2, <2>3
<1>4. ASSUME NEW n \in 0 .. (q - p) - 1, n \in Good PROVE n + 1 \in Good
  <2>1. PICK k : k = q - (n + 1)  OBVIOUS
  <2>2. /\ k \in p .. q - 1 /\ k \in 1 .. Len(str) /\ k + 1 = q - n /\ n + 1 \in 0 .. q - p /\ q - 1 \in k .. Len(str)
        /\ k \in Nat /\ q - 1 \in Nat
    BY <1>1, <1>2, <2>1
  <2>3. f[k] = <<str[k]>> \o f[k + 1]
    <3>1. PICK j : j = RunEnd(str, k)  OBVIOUS
    <3>2. k \in 1 .. Len(str)  BY <2>2
    <3>3. f[k] = ScanChoice(f, template, values, str, k, j)  BY <3>1, <3>2, ScanStep
    <3>4. str[k] # Dollar  BY <2>2
    <3>5. QED  BY <3>3, <3>4, Zenon DEF ScanChoice
  <2>4. f[k + 1] = SubSeq(str, k + 1, q - 1) \o f[q]  BY <1>4, <2>2
  <2>5. str[k] \in Char  BY <2>2 DEF Str
  <2>6. SubSeq(str, k + 1, q - 1) \in Seq(Char)
    <3>1. \A j \in k + 1 .. q - 1 : j \in 1 .. Len(str)  BY <1>1, <2>2
    <3>2. \A j \in k + 1 .. q - 1 : str[j] \in Char  BY <3>1 DEF Str
    <3>3. k + 1 \in Int /\ q - 1 \in Int  BY <2>2
    <3>4. QED  BY <3>2, <3>3, SubSeqProperties
  <2>7. SubSeq(str, k, q - 1) = <<str[k]>> \o SubSeq(str, k + 1, q - 1)
    BY <2>2, SubSeqRecursiveFirst DEF Str
  <2>8. PICK a \in Str : a = <<str[k]>>
    <3>1. <<str[k]>> \in Str  BY <2>5, OneChar
    <3>2. QED  BY <3>1
  <2>9. PICK b \in Str : b = SubSeq(str, k + 1, q - 1)  BY <2>6 DEF Str
  <2>10. PICK c \in Str : c = f[q]  OBVIOUS
  <2>11. (a \o b) \o c = a \o (b \o c)  BY StrAssociative, Zenon
  <2>12. f[k] = SubSeq(str, k, q - 1) \o f[q]  BY <2>3, <2>4, <2>7, <2>8, <2>9, <2>10, <2>11, Zenon
  <2>13. QED  BY <2>1, <2>2, <2>12
<1>5. q - p \in Good
  <2> HIDE DEF Good
  <2>1. PICK m \in Nat : m = q - p  BY <1>2
  <2>2. \A n \in 0 .. m : n \in Good  BY <1>3, <1>4, <2>1, UpTo
  <2>3. QED  BY <2>1, <2>2
<1>6. q - (q - p) = p  BY <1>2
<1>7. QED  BY <1>5, <1>6 DEF Taken

-----------------------------------------------------------------------------
(* Where a part is in what was joined from parts.                           *)

LEMMA FlatPrefix ==
  ASSUME NEW S, NEW s \in Seq(Seq(S)), NEW i \in 0 .. Len(s)
  PROVE  \E r \in Seq(S) : FlattenSeq(s) = Flat(s, i) \o r
<1>1. PICK n \in Nat : n = Len(s)  OBVIOUS
<1>2. PICK str : str = FlattenSeq(s)  OBVIOUS
<1>3. /\ \A k \in 0 .. n : Flat(s, k) \in Seq(S)
      /\ \A k \in 0 .. n - 1 : Flat(s, k + 1) = Flat(s, k) \o s[k + 1]
      /\ str = Flat(s, n)
  BY <1>1, <1>2, FlatSteps
<1> DEFINE Good == {k \in 0 .. n : \E r \in Seq(S) : str = Flat(s, n - k) \o r}
<1>4. 0 \in Good
  <2>1. n - 0 = n /\ n \in 0 .. n /\ 0 \in 0 .. n  OBVIOUS
  <2>2. str \in Seq(S)  BY <1>3, <2>1
  <2>3. <<>> \in Seq(S) /\ str \o <<>> = str  BY <2>2, ConcatEmptySeq
  <2>4. \E r \in Seq(S) : str = Flat(s, n - 0) \o r  BY <1>3, <2>1, <2>3, Zenon
  <2>5. QED  BY <2>1, <2>4
<1>5. ASSUME NEW k \in 0 .. n - 1, k \in Good PROVE k + 1 \in Good
  <2>1. PICK m : m = n - (k + 1)  OBVIOUS
  <2>2. m \in 0 .. n - 1 /\ m + 1 = n - k /\ m \in 0 .. n /\ k + 1 \in 0 .. n /\ m + 1 \in 1 .. n  BY <2>1
  <2>3. PICK r \in Seq(S) : str = Flat(s, m + 1) \o r  BY <1>5, <2>2
  <2>4. PICK a \in Seq(S) : a = Flat(s, m)  BY <1>3, <2>2
  <2>5. PICK b \in Seq(S) : b = s[m + 1]  BY <1>1, <2>2
  <2>6. Flat(s, m + 1) = a \o b  BY <1>3, <2>2, <2>4, <2>5
  <2>7. (a \o b) \o r = a \o (b \o r)  BY ConcatAssociative, SMTT(30)
  <2>8. b \o r \in Seq(S)  BY ConcatProperties
  <2>9. str = Flat(s, m) \o (b \o r)  BY <2>3, <2>4, <2>6, <2>7, Zenon
  <2>10. \E t \in Seq(S) : str = Flat(s, m) \o t  BY <2>8, <2>9, Zenon
  <2>11. QED  BY <2>1, <2>2, <2>10
<1>6. n - i \in Good
  <2> HIDE DEF Good
  <2>1. \A k \in 0 .. n : k \in Good  BY <1>4, <1>5, UpTo
  <2>2. n - i \in 0 .. n  BY <1>1
  <2>3. QED  BY <2>1, <2>2
<1>7. n - (n - i) = i  BY <1>1
<1>8. QED  BY <1>2, <1>6, <1>7

LEMMA FlatParts ==
  ASSUME NEW S, NEW s \in Seq(Seq(S)), NEW i \in 0 .. Len(s) - 1
  PROVE  LET p == Len(Flat(s, i)) IN
         /\ p \in Nat /\ Len(Flat(s, i + 1)) = p + Len(s[i + 1]) /\ p + Len(s[i + 1]) <= Len(FlattenSeq(s))
         /\ \A k \in 1 .. Len(s[i + 1]) : FlattenSeq(s)[p + k] = s[i + 1][k]
         /\ FlattenSeq(s) \in Seq(S)
<1>1. PICK n \in Nat : n = Len(s)  OBVIOUS
<1>2. PICK str : str = FlattenSeq(s)  OBVIOUS
<1>3. PICK m : m = i + 1  OBVIOUS
<1>4. i \in 0 .. n - 1 /\ i \in 0 .. n /\ m \in 0 .. n /\ m \in 1 .. n  BY <1>1, <1>3
<1>5. PICK a \in Seq(S) : a = Flat(s, i)  BY <1>1, <1>4, FlatSteps
<1>6. PICK b \in Seq(S) : b = s[m]  BY <1>1, <1>4
<1>7. PICK c \in Seq(S) : c = Flat(s, m)  BY <1>1, <1>4, FlatSteps
<1>8. c = a \o b
  <2>1. \A k \in 0 .. Len(s) - 1 : Flat(s, k + 1) = Flat(s, k) \o s[k + 1]  BY FlatSteps
  <2>2. QED  BY <1>3, <1>5, <1>6, <1>7, <2>1
<1>9. PICK r \in Seq(S) : str = c \o r  BY <1>1, <1>2, <1>4, <1>7, FlatPrefix
<1>10. PICK p \in Nat, q \in Nat, t \in Nat : p = Len(a) /\ q = Len(b) /\ t = Len(r)  OBVIOUS
<1>11. Len(c) = p + q /\ \A k \in 1 .. p + q : c[k] = IF k <= p THEN a[k] ELSE b[k - p]
  BY <1>8, <1>10, ConcatProperties
<1>12. str \in Seq(S) /\ Len(str) = (p + q) + t
       /\ \A k \in 1 .. (p + q) + t : str[k] = IF k <= p + q THEN c[k] ELSE r[k - (p + q)]
  <2>1. PICK h \in Nat : h = p + q /\ h = Len(c)  BY <1>11
  <2>2. str \in Seq(S) /\ Len(str) = h + t /\ \A k \in 1 .. h + t : str[k] = IF k <= h THEN c[k] ELSE r[k - h]
    <3>1. /\ c \o r \in Seq(S) /\ Len(c \o r) = Len(c) + Len(r)
          /\ \A k \in 1 .. Len(c) + Len(r) : (c \o r)[k] = IF k <= Len(c) THEN c[k] ELSE r[k - Len(c)]
      BY ConcatProperties
    <3>2. QED  BY <1>9, <1>10, <2>1, <3>1, Zenon
  <2>3. QED  BY <2>1, <2>2
<1>13. ASSUME NEW k \in 1 .. q PROVE str[p + k] = b[k]
  <2>1. PICK j : j = p + k  OBVIOUS
  <2>2. j \in 1 .. (p + q) + t /\ j <= p + q /\ j \in 1 .. p + q /\ ~(j <= p) /\ j - p = k  BY <2>1
  <2>3. str[j] = c[j] /\ c[j] = b[j - p]  BY <1>11, <1>12, <2>2
  <2>4. QED  BY <2>1, <2>2, <2>3
<1>14. p + q <= Len(str)  BY <1>12
<1>15. QED  BY <1>2, <1>3, <1>5, <1>6, <1>7, <1>10, <1>11, <1>12, <1>13, <1>14

(* A character that occurs in it occurs in a part.                          *)
Has(s, n, c) == \E j \in 1 .. n : s[j] = c

LEMMA FlatHas ==
  ASSUME NEW S, NEW s \in Seq(Seq(S)), NEW c, NEW i \in 0 .. Len(s)
  PROVE  Has(FlattenSeq(s), Len(Flat(s, i)), c) <=> \E k \in 1 .. i : Has(s[k], Len(s[k]), c)
<1>1. PICK n \in Nat : n = Len(s)  OBVIOUS
<1>2. PICK str : str = FlattenSeq(s)  OBVIOUS
<1> DEFINE Holds(m) == (\E j \in 1 .. Len(Flat(s, m)) : str[j] = c)
                       <=> \E k \in 1 .. m : \E l \in 1 .. Len(s[k]) : s[k][l] = c
           Good == {m \in 0 .. n : Holds(m)}
<1>3. 0 \in Good
  <2>1. Flat(s, 0) = <<>> /\ Len(<<>>) = 0  BY FlatSteps
  <2>2. 1 .. Len(Flat(s, 0)) = {} /\ 1 .. 0 = {}  BY <2>1
  <2>3. Holds(0)  BY <2>2
  <2>4. QED  BY <2>3
<1>4. ASSUME NEW m \in 0 .. n - 1, m \in Good PROVE m + 1 \in Good
  <2>1. PICK t : t = m + 1  OBVIOUS
  <2>2. t \in 1 .. n /\ t \in 0 .. n /\ 1 .. t = (1 .. m) \cup {t}  BY <2>1
  <2>3. PICK p \in Nat, q \in Nat : p = Len(Flat(s, m)) /\ q = Len(s[t])
    <3>1. s[t] \in Seq(S) /\ Flat(s, m) \in Seq(S)
      <4>1. m \in 0 .. n  OBVIOUS
      <4>2. QED  BY <1>1, <2>2, <4>1, FlatSteps
    <3>2. QED  BY <3>1
  <2>4. Len(Flat(s, t)) = p + q /\ \A k \in 1 .. q : str[p + k] = s[t][k]
    <3>1. m \in 0 .. Len(s) - 1  BY <1>1
    <3>2. LET h == Len(Flat(s, m)) IN
          /\ h \in Nat /\ Len(Flat(s, m + 1)) = h + Len(s[m + 1]) /\ h + Len(s[m + 1]) <= Len(FlattenSeq(s))
          /\ \A k \in 1 .. Len(s[m + 1]) : FlattenSeq(s)[h + k] = s[m + 1][k]
          /\ FlattenSeq(s) \in Seq(S)
      BY <3>1, FlatParts
    <3>3. QED  BY <1>2, <2>1, <2>3, <3>2
  <2>5. (\E j \in 1 .. p + q : str[j] = c) <=> ((\E j \in 1 .. p : str[j] = c) \/ \E k \in 1 .. q : s[t][k] = c)
    <3>1. ASSUME NEW j \in 1 .. p + q, str[j] = c
          PROVE  (\E x \in 1 .. p : str[x] = c) \/ \E k \in 1 .. q : s[t][k] = c
      <4>1. CASE j <= p
        <5>1. j \in 1 .. p  BY <4>1
        <5>2. QED  BY <3>1, <5>1
      <4>2. CASE ~(j <= p)
        <5>1. PICK k : k = j - p  OBVIOUS
        <5>2. k \in 1 .. q /\ j = p + k  BY <4>2, <5>1
        <5>3. s[t][k] = c  BY <2>4, <3>1, <5>2
        <5>4. QED  BY <5>2, <5>3
      <4>3. QED  BY <4>1, <4>2
    <3>2. ASSUME NEW j \in 1 .. p, str[j] = c PROVE \E x \in 1 .. p + q : str[x] = c
      <4>1. j \in 1 .. p + q  OBVIOUS
      <4>2. QED  BY <3>2, <4>1
    <3>3. ASSUME NEW k \in 1 .. q, s[t][k] = c PROVE \E x \in 1 .. p + q : str[x] = c
      <4>1. PICK x : x = p + k  OBVIOUS
      <4>2. x \in 1 .. p + q /\ str[x] = c  BY <2>4, <3>3, <4>1
      <4>3. QED  BY <4>2
    <3>4. QED  BY <3>1, <3>2, <3>3
  <2>6. (\E k \in 1 .. t : \E l \in 1 .. Len(s[k]) : s[k][l] = c)
          <=> ((\E k \in 1 .. m : \E l \in 1 .. Len(s[k]) : s[k][l] = c) \/ \E l \in 1 .. q : s[t][l] = c)
    BY <2>2, <2>3
  <2>7. Holds(m)  BY <1>4
  <2>8. Holds(t)  BY <2>3, <2>4, <2>5, <2>6, <2>7, Zenon
  <2>9. QED  BY <2>1, <2>2, <2>8
<1>5. i \in Good
  <2> HIDE DEF Good
  <2>1. \A k \in 0 .. n : k \in Good  BY <1>3, <1>4, UpTo
  <2>2. QED  BY <1>1, <2>1
<1>6. QED  BY <1>2, <1>5 DEF Has

-----------------------------------------------------------------------------
(* Parameters: their numbers are apart, below their count, and tell those   *)
(* from the environment from the others.                                    *)

LEMMA ParamsFinite ==
  ASSUME NEW T \in Seq(Element), NEW S \in SUBSET DOMAIN T
  PROVE  IsFiniteSet(S) /\ Cardinality(S) \in Nat
<1>1. PICK n \in Nat : n = Len(T)  OBVIOUS
<1>2. IsFiniteSet(1 .. n) /\ S \in SUBSET (1 .. n)  BY <1>1, FS_Interval
<1>3. QED  BY <1>2, FS_Subset, FS_CardinalityType

LEMMA FewerMembers ==
  ASSUME NEW T \in Seq(Element), NEW S \in SUBSET DOMAIN T, NEW R \in SUBSET S, NEW x \in S, x \notin R
  PROVE  Cardinality(R) < Cardinality(S)
<1>1. IsFiniteSet(S) /\ Cardinality(S) \in Nat  BY ParamsFinite
<1>2. R \in SUBSET DOMAIN T  OBVIOUS
<1>3. Cardinality(R) \in Nat  BY <1>2, ParamsFinite
<1>4. Cardinality(R) <= Cardinality(S) /\ (Cardinality(S) = Cardinality(R) => S = R)  BY <1>1, FS_Subset
<1>5. QED  BY <1>1, <1>3, <1>4

LEMMA BeforeFacts ==
  ASSUME NEW T \in Seq(Element), NEW i \in Params(T)
  PROVE  /\ Params(T) \subseteq DOMAIN T /\ Before(T, i) \subseteq Params(T) /\ i \notin Before(T, i)
         /\ \A j \in Before(T, i) : Before(T, j) \subseteq Before(T, i)
         /\ \A j \in Params(T) : j = i \/ j \in Before(T, i) \/ i \in Before(T, j)
<1>1. DOMAIN T \subseteq Nat  OBVIOUS
<1>2. Params(T) \subseteq DOMAIN T  BY DEF Params
<1>3. \A x : Order(x) \in 1 .. 3  BY DEF Order
<1>4. \A k, j : k \in Before(T, j) <=>
        /\ k \in Params(T)
        /\ \/ Order(T[k].source) < Order(T[j].source)
           \/ Order(T[k].source) = Order(T[j].source) /\ k < j
  BY DEF Before
<1>5. i \notin Before(T, i)  BY <1>1, <1>2, <1>3, <1>4
<1>6. \A j \in Params(T) : j = i \/ j \in Before(T, i) \/ i \in Before(T, j)
  <2> SUFFICES ASSUME NEW j \in Params(T), j # i PROVE j \in Before(T, i) \/ i \in Before(T, j)
    OBVIOUS
  <2>1. PICK x \in 1 .. 3, y \in 1 .. 3 : x = Order(T[i].source) /\ y = Order(T[j].source)  BY <1>3
  <2>2. i \in Nat /\ j \in Nat  BY <1>1, <1>2
  <2>3. x < y \/ y < x \/ (x = y /\ (i < j \/ j < i))  BY <2>1, <2>2
  <2>4. QED  BY <1>4, <2>1, <2>3
<1>7. \A j \in Before(T, i) : Before(T, j) \subseteq Before(T, i)
  <2> SUFFICES ASSUME NEW j \in Before(T, i), NEW k \in Before(T, j) PROVE k \in Before(T, i)
    OBVIOUS
  <2>1. j \in Params(T) /\ k \in Params(T)  BY <1>4
  <2>2. i \in Nat /\ j \in Nat /\ k \in Nat  BY <1>1, <1>2, <2>1
  <2>3. PICK x \in 1 .. 3, y \in 1 .. 3, z \in 1 .. 3 :
          x = Order(T[i].source) /\ y = Order(T[j].source) /\ z = Order(T[k].source)
    BY <1>3
  <2>4. (y < x \/ (y = x /\ j < i)) /\ (z < y \/ (z = y /\ k < j))  BY <1>4, <2>3
  <2>5. z < x \/ (z = x /\ k < i)  BY <2>2, <2>4
  <2>6. QED  BY <1>4, <2>1, <2>3, <2>5
<1>8. QED  BY <1>2, <1>4, <1>5, <1>6, <1>7

LEMMA ParamIndexWell ==
  ASSUME NEW T \in Seq(Element), NEW i \in Params(T)
  PROVE  /\ ParamIndex(T, i) \in Nat /\ Cardinality(Params(T)) \in Nat
         /\ ParamIndex(T, i) < Cardinality(Params(T))
         /\ \A j \in Params(T) : ParamIndex(T, j) = ParamIndex(T, i) => j = i
<1>1. /\ Params(T) \in SUBSET DOMAIN T /\ i \notin Before(T, i)
      /\ \A j \in Params(T) : Before(T, j) \in SUBSET Params(T) /\ Before(T, j) \in SUBSET DOMAIN T
  BY BeforeFacts
<1>2. ParamIndex(T, i) \in Nat /\ Cardinality(Params(T)) \in Nat
  BY <1>1, ParamsFinite DEF ParamIndex
<1>3. ParamIndex(T, i) < Cardinality(Params(T))  BY <1>1, FewerMembers DEF ParamIndex
<1>4. ASSUME NEW a \in Params(T), NEW b \in Before(T, a) PROVE ParamIndex(T, b) < ParamIndex(T, a)
  <2>1. b \in Params(T)  BY <1>1
  <2>2. b \notin Before(T, b) /\ Before(T, b) \subseteq Before(T, a)  BY <2>1, <1>4, BeforeFacts
  <2>3. Before(T, a) \in SUBSET DOMAIN T /\ Before(T, b) \in SUBSET Before(T, a)  BY <1>1, <2>2
  <2>4. QED  BY <1>4, <2>2, <2>3, FewerMembers DEF ParamIndex
<1>5. ASSUME NEW j \in Params(T), ParamIndex(T, j) = ParamIndex(T, i) PROVE j = i
  <2>1. j = i \/ j \in Before(T, i) \/ i \in Before(T, j)  BY BeforeFacts
  <2>2. CASE j \in Before(T, i)
    <3>1. ParamIndex(T, j) < ParamIndex(T, i)  BY <1>4, <2>2
    <3>2. QED  BY <1>2, <1>5, <3>1
  <2>3. CASE i \in Before(T, j)
    <3>1. ParamIndex(T, i) < ParamIndex(T, j)  BY <1>4, <2>3
    <3>2. QED  BY <1>2, <1>5, <3>1
  <2>4. QED  BY <2>1, <2>2, <2>3
<1>6. QED  BY <1>2, <1>3, <1>5

LEMMA SourceForWell ==
  ASSUME NEW T \in Seq(Element), NEW i \in Params(T)
  PROVE  SourceFor(T, ParamIndex(T, i)) = "env" <=> T[i].source = "env"
<1> DEFINE envs == PlacesOf(T, "env")
<1>1. /\ Params(T) \in SUBSET DOMAIN T /\ Before(T, i) \in SUBSET DOMAIN T /\ i \notin Before(T, i)
      /\ Before(T, i) \subseteq Params(T)
  BY BeforeFacts
<1>2. envs \in SUBSET DOMAIN T  BY DEF PlacesOf
<1>3. PICK n \in Nat, m \in Nat : n = Cardinality(Before(T, i)) /\ m = Cardinality(envs)
  BY <1>1, <1>2, ParamsFinite
<1>4. CASE T[i].source = "env"
  <2>1. Before(T, i) \subseteq envs
    <3> SUFFICES ASSUME NEW j \in Before(T, i) PROVE T[j].source = "env"
      BY <1>1 DEF PlacesOf
    <3>1. Order(T[i].source) = 1  BY <1>4 DEF Order
    <3>2. Order(T[j].source) < 1 \/ Order(T[j].source) = 1  BY <3>1 DEF Before
    <3>3. QED  BY <3>2 DEF Order
  <2>2. i \in envs  BY <1>1, <1>4 DEF PlacesOf
  <2>3. n < m
    <3> HIDE DEF envs
    <3>1. QED  BY <1>1, <1>2, <1>3, <2>1, <2>2, FewerMembers
  <2>4. QED  BY <1>3, <1>4, <2>3 DEF SourceFor, ParamIndex
<1>5. CASE T[i].source # "env"
  <2>1. envs \subseteq Before(T, i)
    <3> SUFFICES ASSUME NEW j \in envs PROVE j \in Before(T, i)
      OBVIOUS
    <3>1. T[j].source = "env" /\ j \in DOMAIN T  BY DEF PlacesOf
    <3>2. j \in Params(T)  BY <3>1 DEF Params, IsParam
    <3>3. Order(T[j].source) = 1 /\ Order(T[i].source) \in {2, 3}  BY <1>5, <3>1 DEF Order
    <3>4. QED  BY <3>2, <3>3 DEF Before
  <2>2. m <= n
    <3> HIDE DEF envs
    <3>1. IsFiniteSet(Before(T, i))  BY <1>1, ParamsFinite
    <3>2. QED  BY <1>3, <2>1, <3>1, FS_Subset
  <2>3. ~(n < m)  BY <2>2
  <2>4. PICK c \in Nat : c = Cardinality(PlacesOf(T, "ctx"))
    <3>1. PlacesOf(T, "ctx") \in SUBSET DOMAIN T  BY DEF PlacesOf
    <3>2. QED  BY <3>1, ParamsFinite
  <2>5. SourceFor(T, n) = IF n < m + c THEN "ctx" ELSE "layer"
    BY <1>3, <2>2, <2>3, <2>4 DEF SourceFor
  <2>6. QED  BY <1>3, <1>5, <2>5 DEF ParamIndex
<1>6. QED  BY <1>4, <1>5

-----------------------------------------------------------------------------
(* The parts of the prepared string and of the URL.                         *)

IsText(p)  == p.source = "text"
IsCoord(p) == p.source = "coord"
FromEnv(p) == p.source = "env"

QueryMark == [source |-> "text", key |-> <<"?">>]

PartOf(T, i) == IF \E j \in 1 .. i - 1 : T[j] = QueryMark THEN "query" ELSE "path"

FilledParam(T, i, M) ==
  IF FromEnv(T[i]) THEN Value(T[i], M) ELSE Escaped(Value(T[i], M), PartOf(T, i))

LEMMA Kinds ==
  ASSUME NEW T \in Seq(Element), NEW i \in 1 .. Len(T), NEW M
  PROVE  /\ T[i] = [source |-> T[i].source, key |-> T[i].key]
         /\ IsText(T[i]) \/ IsCoord(T[i]) \/ i \in Params(T)
         /\ IsText(T[i]) => /\ Prepared(T, i) = T[i].key /\ Filled(T, i, M) = T[i].key
                            /\ T[i].key \in Str /\ Len(T[i].key) = 1 /\ ~IsCoord(T[i]) /\ i \notin Params(T)
         /\ IsCoord(T[i]) => /\ Prepared(T, i) = Coord[T[i].key] /\ Filled(T, i, M) = Coord[T[i].key]
                             /\ T[i].key \in DOMAIN Coord /\ i \notin Params(T)
         /\ i \in Params(T) => /\ Prepared(T, i) = Param(ParamIndex(T, i))
                               /\ Filled(T, i, M) = FilledParam(T, i, M)
<1>1. T[i] \in Element  BY ElementOfSeq
<1>2. PICK p : p = T[i]  OBVIOUS
<1>3. /\ p = [source |-> p.source, key |-> p.key]
      /\ p.source \in {"text", "env", "ctx", "layer", "coord"} /\ p.key \in Seq(Char)
      /\ (p.source = "text" => Len(p.key) = 1) /\ (p.source = "coord" => p.key \in DOMAIN Coord)
  BY <1>1, <1>2 DEF Element
<1>4. i \in Params(T) <=> p.source \in {"env", "ctx", "layer"}
  BY <1>2 DEF Params, IsParam
<1>5. CASE p.source = "text"
  <2>1. Prepared(T, i) = T[i].key /\ Filled(T, i, M) = T[i].key  BY <1>2, <1>5 DEF Prepared, Filled
  <2>2. i \notin Params(T) /\ ~IsCoord(T[i]) /\ IsText(T[i])  BY <1>2, <1>4, <1>5 DEF IsText, IsCoord
  <2>3. QED  BY <1>2, <1>3, <1>5, <2>1, <2>2 DEF Str
<1>6. CASE p.source = "coord"
  <2>1. Prepared(T, i) = Coord[T[i].key] /\ Filled(T, i, M) = Coord[T[i].key]
    BY <1>2, <1>6 DEF Prepared, Filled
  <2>2. i \notin Params(T) /\ ~IsText(T[i]) /\ IsCoord(T[i])  BY <1>2, <1>4, <1>6 DEF IsText, IsCoord
  <2>3. QED  BY <1>2, <1>3, <1>6, <2>1, <2>2
<1>7. CASE p.source \in {"env", "ctx", "layer"}
  <2>1. Prepared(T, i) = Param(ParamIndex(T, i))  BY <1>2, <1>7 DEF Prepared
  <2>2. Filled(T, i, M) = FilledParam(T, i, M)
    BY <1>2, <1>7 DEF Filled, FilledParam, FromEnv, PartOf, QueryMark
  <2>3. ~IsText(T[i]) /\ ~IsCoord(T[i])  BY <1>2, <1>7 DEF IsText, IsCoord
  <2>4. QED  BY <1>2, <1>3, <1>4, <1>7, <2>1, <2>2, <2>3
<1>8. QED  BY <1>3, <1>5, <1>6, <1>7

LEMMA SpecialChars ==
  /\ Dollar \in Char /\ Question \in Char /\ "<nil>" \in Char
  /\ "%24" \in Char /\ "%2F" \in Char /\ "%3F" \in Char /\ "%3Cnil%3E" \in Char
BY PlaceholdersAssumption DEF Dollar, Question

LEMMA EscapedType ==
  ASSUME NEW v \in Str, NEW part
  PROVE  Escaped(v, part) \in Str
<1>1. \A c \in Char : Escape(c, part) \in Char  BY SpecialChars, Zenon DEF Escape
<1>2. PICK n \in Nat : n = Len(v) /\ DOMAIN v = 1 .. n  BY DEF Str
<1>3. \A i \in 1 .. n : Escape(v[i], part) \in Char  BY <1>1, <1>2 DEF Str
<1>4. [i \in 1 .. n |-> Escape(v[i], part)] \in Seq(Char)  BY <1>3, IsASeq
<1>5. Escaped(v, part) = [i \in 1 .. n |-> Escape(v[i], part)]  BY <1>2 DEF Escaped
<1>6. QED  BY <1>4, <1>5 DEF Str

LEMMA ValueType ==
  ASSUME NEW T \in Seq(Element), NEW i \in Params(T), NEW M, \A k \in DOMAIN M : M[k] \in Str
  PROVE  Value(T[i], M) \in Str /\ FilledParam(T, i, M) \in Str
<1>1. PICK p : p = T[i]  OBVIOUS
<1>2. p.source \in {"env", "ctx", "layer"}  BY <1>1 DEF Params, IsParam
<1>3. <<>> \in Str  BY DEF Str
<1>4. Value(p, M) \in Str
  <2>1. CASE p.source = "env"
    <3>1. Value(p, M) = IF p.key \in DOMAIN Env THEN Env[p.key] ELSE <<>>  BY <2>1 DEF Value
    <3>2. \A k \in DOMAIN Env : Env[k] \in Str  BY PlaceholdersAssumption DEF Str
    <3>3. QED  BY <1>3, <3>1, <3>2
  <2>2. CASE p.source = "ctx"
    <3>1. PICK nil \in Str : nil = <<"<nil>">>  BY SpecialChars, OneChar
    <3>2. Value(p, M) = IF p.key \in DOMAIN Ctx THEN Ctx[p.key] ELSE nil  BY <2>2, <3>1 DEF Value
    <3>3. \A k \in DOMAIN Ctx : Ctx[k] \in Str  BY PlaceholdersAssumption DEF Str
    <3>4. QED  BY <3>2, <3>3
  <2>3. CASE p.source = "layer"
    <3>1. Value(p, M) = IF p.key \in DOMAIN M THEN M[p.key] ELSE <<>>  BY <2>3 DEF Value
    <3>2. QED  BY <1>3, <3>1
  <2>4. QED  BY <1>2, <2>1, <2>2, <2>3
<1>5. QED  BY <1>1, <1>4, EscapedType DEF FilledParam

LEMMA ParamWell ==
  ASSUME NEW n \in Nat
  PROVE  /\ Param(n) \in Str /\ Len(Param(n)) = Len(Decimal(n)) + 1 /\ Param(n)[1] = Dollar
         /\ Len(Decimal(n)) \in Nat \ {0}
         /\ \A k \in 1 .. Len(Decimal(n)) : Param(n)[k + 1] = Decimal(n)[k]
<1>1. PICK d : d = Decimal(n)  OBVIOUS
<1>2. d \in Seq(Char) /\ Len(d) \in Nat \ {0}  BY <1>1, DecimalWell DEF Numeral, Str
<1>3. PICK c \in Char : c = Dollar  BY SpecialChars
<1>4. /\ <<c>> \o d \in Seq(Char) /\ Len(<<c>> \o d) = Len(d) + 1 /\ (<<c>> \o d)[1] = c
      /\ \A k \in 1 .. Len(d) : (<<c>> \o d)[k + 1] = d[k]
  BY <1>2, InFront
<1>5. Param(n) = <<c>> \o d  BY <1>1, <1>3 DEF Param, Dollar
<1>6. QED  BY <1>1, <1>2, <1>3, <1>4, <1>5 DEF Str

LEMMA CoordWell ==
  ASSUME NEW k \in DOMAIN Coord
  PROVE  /\ Coord[k] \in Str /\ Len(Coord[k]) \in Nat \ {0}
         /\ \A i \in 1 .. Len(Coord[k]) : Coord[k][i] # Dollar /\ Coord[k][i] # Question
<1>1. /\ Coord[k] \in Seq(Char) \ {<<>>}
      /\ \A i \in DOMAIN Coord[k] : Coord[k][i] \notin {Dollar, Question}
  BY PlaceholdersAssumption DEF Dollar, Question
<1>2. QED  BY <1>1 DEF Str

(* What stands for an element in the prepared string and in the URL.        *)
LEMMA PreparedWell ==
  ASSUME NEW T \in Seq(Element), NEW i \in 1 .. Len(T), NEW M, \A k \in DOMAIN M : M[k] \in Str
  PROVE  /\ Prepared(T, i) \in Str /\ Len(Prepared(T, i)) \in Nat \ {0}
         /\ Filled(T, i, M) \in Str
         /\ i \notin Params(T) => Filled(T, i, M) = Prepared(T, i)
<1>1. CASE IsText(T[i])
  <2>1. 1 \in Nat \ {0}  OBVIOUS
  <2>2. QED  BY <1>1, <2>1, Kinds
<1>2. CASE IsCoord(T[i])  BY <1>2, Kinds, CoordWell
<1>3. CASE i \in Params(T)
  <2>1. PICK n \in Nat : n = ParamIndex(T, i)  BY <1>3, ParamIndexWell
  <2>2. Prepared(T, i) = Param(n) /\ Filled(T, i, M) = FilledParam(T, i, M)  BY <1>3, <2>1, Kinds
  <2>3. FilledParam(T, i, M) \in Str  BY <1>3, ValueType
  <2>4. Param(n) \in Str /\ Len(Param(n)) \in Nat \ {0}
    <3>1. PICK l \in Nat \ {0} : l = Len(Decimal(n))  BY ParamWell
    <3>2. Param(n) \in Str /\ Len(Param(n)) = l + 1  BY <3>1, ParamWell
    <3>3. QED  BY <3>2
  <2>5. QED  BY <1>3, <2>2, <2>3, <2>4
<1>4. QED  BY <1>1, <1>2, <1>3, Kinds

(* A "?" in the prepared string is one of the template.                     *)
LEMMA QuestionsAreText ==
  ASSUME NEW T \in Seq(Element), NEW i \in 1 .. Len(T)
  PROVE  Has(Prepared(T, i), Len(Prepared(T, i)), Question) <=> T[i] = QueryMark
<1>1. PICK p : p = T[i] /\ p = [source |-> p.source, key |-> p.key]  BY Kinds
<1>2. CASE IsText(p)
  <2>1. PICK s \in Str : s = p.key /\ s = Prepared(T, i) /\ Len(s) = 1  BY <1>1, <1>2, Kinds
  <2>2. s = <<s[1]>>  BY <2>1 DEF Str
  <2>3. s = <<Question>> <=> s[1] = Question
    <3>1. <<Question>>[1] = Question  OBVIOUS
    <3>2. QED  BY <2>2, <3>1
  <2>4. p = QueryMark <=> s = <<Question>>
    <3>1. p = [source |-> "text", key |-> s]  BY <1>1, <1>2, <2>1 DEF IsText
    <3>2. QueryMark = [source |-> "text", key |-> <<Question>>]  BY DEF QueryMark, Question
    <3>3. QED  BY <3>1, <3>2
  <2>5. (\E l \in 1 .. Len(s) : s[l] = Question) <=> s[1] = Question
    <3>1. 1 .. Len(s) = {1}  BY <2>1
    <3>2. QED  BY <3>1
  <2>6. QED  BY <1>1, <2>1, <2>3, <2>4, <2>5 DEF Has
<1>3. ASSUME ~IsText(p) PROVE p # QueryMark
  BY <1>3 DEF IsText, QueryMark
<1>4. CASE IsCoord(p)
  <2>1. Prepared(T, i) = Coord[p.key] /\ p.key \in DOMAIN Coord /\ ~IsText(p)  BY <1>1, <1>4, Kinds
  <2>2. \A l \in 1 .. Len(Coord[p.key]) : Coord[p.key][l] # Question  BY <2>1, CoordWell
  <2>3. QED  BY <1>1, <1>3, <2>1, <2>2 DEF Has
<1>5. CASE i \in Params(T)
  <2>1. PICK n \in Nat : n = ParamIndex(T, i)  BY <1>5, ParamIndexWell
  <2>2. Prepared(T, i) = Param(n) /\ ~IsText(p)  BY <1>1, <1>5, <2>1, Kinds
  <2>3. PICK d, s : d = Decimal(n) /\ s = Param(n)  OBVIOUS
  <2>4. Len(s) = Len(d) + 1 /\ s[1] = Dollar /\ Len(d) \in Nat /\ \A k \in 1 .. Len(d) : s[k + 1] = d[k]
    BY <2>3, ParamWell
  <2>5. \A k \in 1 .. Len(d) : IsDigit(d[k])  BY <2>3, DecimalWell DEF Numeral
  <2>6. ASSUME NEW l \in 1 .. Len(s) PROVE s[l] # Question
    <3>1. CASE l = 1  BY <2>4, <3>1, NoDigits
    <3>2. CASE l # 1
      <4>1. PICK k : k = l - 1  OBVIOUS
      <4>2. k \in 1 .. Len(d) /\ l = k + 1  BY <2>4, <3>2, <4>1
      <4>3. IsDigit(s[l])  BY <2>4, <2>5, <4>2
      <4>4. QED  BY <4>3, NoDigits
    <3>3. QED  BY <3>1, <3>2
  <2>7. QED  BY <1>1, <1>3, <2>2, <2>3, <2>6 DEF Has
<1>6. QED  BY <1>1, <1>2, <1>4, <1>5, Kinds

DollarText == [source |-> "text", key |-> <<"$">>]

LEMMA NoDigitNext ==
  ASSUME NEW T \in Seq(Element), Separated(T), NEW i \in 1 .. Len(T) - 1,
         i \in Params(T) \/ T[i] = DollarText
  PROVE  ~IsDigit(Prepared(T, i + 1)[1])
<1>1. PICK n \in 1 .. Len(T) : n = i + 1  OBVIOUS
<1>2. PICK p : p = T[n]  OBVIOUS
<1>3. /\ p.source = "text" => ~IsDigit(p.key[1])
      /\ p.source = "coord" => ~IsDigit(Coord[p.key][1])
  BY <1>1, <1>2 DEF Separated, Params, DollarText
<1>4. CASE IsText(p)
  <2>1. ~IsDigit(p.key[1])  BY <1>3, <1>4 DEF IsText
  <2>2. QED  BY <1>1, <1>2, <1>4, <2>1, Kinds
<1>5. CASE IsCoord(p)
  <2>1. ~IsDigit(Coord[p.key][1])  BY <1>3, <1>5 DEF IsCoord
  <2>2. QED  BY <1>1, <1>2, <1>5, <2>1, Kinds
<1>6. CASE n \in Params(T)
  <2>1. PICK m \in Nat : m = ParamIndex(T, n)  BY <1>6, ParamIndexWell
  <2>2. Prepared(T, n) = Param(m)  BY <1>6, <2>1, Kinds
  <2>3. Param(m)[1] = Dollar  BY ParamWell
  <2>4. QED  BY <1>1, <2>2, <2>3, NoDigits
<1>7. QED  BY <1>1, <1>2, <1>4, <1>5, <1>6, Kinds

LEMMA SliceIs ==
  ASSUME NEW str \in Str, NEW p \in Nat, NEW d \in Str, p + Len(d) <= Len(str),
         \A k \in 1 .. Len(d) : str[p + k] = d[k]
  PROVE  SubSeq(str, p + 1, p + Len(d)) = d
<1>1. PICK n \in Nat : n = Len(d)  BY DEF Str
<1>2. PICK a, b : a = p + 1 /\ b = p + n  OBVIOUS
<1>3. PICK len \in Nat : len = Len(str)  BY DEF Str
<1>4. a \in Int /\ b \in Int /\ (a <= b => b - a + 1 = n) /\ (~(a <= b) => n = 0) /\ b - a + 1 = n
  BY <1>2
<1>5. \A i \in a .. b : str[i] \in Char
  <2>1. \A i \in a .. b : i \in 1 .. len  BY <1>1, <1>2, <1>3
  <2>2. QED  BY <1>3, <2>1 DEF Str
<1>6. PICK u : u = SubSeq(str, a, b)  OBVIOUS
<1>7. u \in Seq(Char) /\ Len(u) = n /\ \A i \in 1 .. n : u[i] = str[a + i - 1]
  <2>1. /\ SubSeq(str, a, b) \in Seq(Char)
        /\ Len(SubSeq(str, a, b)) = IF a <= b THEN b - a + 1 ELSE 0
        /\ \A i \in 1 .. b - a + 1 : SubSeq(str, a, b)[i] = str[a + i - 1]
    BY <1>4, <1>5, SubSeqProperties
  <2>2. QED  BY <1>4, <1>6, <2>1
<1>8. \A i \in 1 .. n : u[i] = d[i]
  <2> TAKE i \in 1 .. n
  <2>1. a + i - 1 = p + i  BY <1>2
  <2>2. QED  BY <1>1, <1>7, <2>1
<1>9. d \in Seq(Char) /\ Len(d) = Len(u)  BY <1>1, <1>7 DEF Str
<1>10. u = d  BY <1>7, <1>8, <1>9, SeqEqual
<1>11. QED  BY <1>1, <1>2, <1>6, <1>10

(* A parameter's value is found under its number.                           *)
LEMMA ValuesWell ==
  ASSUME NEW T \in Seq(Element), NEW M, NEW i \in Params(T), NEW values, values = ReplacePlaceholders(T, M).values
  PROVE  /\ ParamIndex(T, i) < Len(values)
         /\ values[ParamIndex(T, i) + 1] = Value(T[i], M)
<1>1. PICK c \in Nat, n \in Nat : /\ c = Cardinality(Params(T)) /\ n = ParamIndex(T, i) /\ n < c
                                  /\ \A j \in Params(T) : ParamIndex(T, j) = n => j = i
  BY ParamIndexWell
<1>2. values = [k \in 1 .. c |-> Value(T[CHOOSE j \in Params(T) : ParamIndex(T, j) = k - 1], M)]
  BY <1>1 DEF ReplacePlaceholders
<1>3. Len(values) = c  BY <1>2
<1>4. PICK k \in 1 .. c : k = n + 1 /\ k - 1 = n  BY <1>1
<1>5. (CHOOSE j \in Params(T) : ParamIndex(T, j) = k - 1) = i
  <2>1. ParamIndex(T, i) = k - 1 /\ \A j \in Params(T) : ParamIndex(T, j) = k - 1 => j = i  BY <1>1, <1>4
  <2>2. QED  BY <2>1
<1>6. values[k] = Value(T[i], M)  BY <1>2, <1>5
<1>7. QED  BY <1>1, <1>3, <1>4, <1>6

Pieces(T) == [i \in 1 .. Len(T) |-> Prepared(T, i)]

LEMMA PiecesType ==
  ASSUME NEW T \in Seq(Element)
  PROVE  /\ Pieces(T) \in Seq(Seq(Char)) /\ Len(Pieces(T)) = Len(T)
         /\ \A i \in 1 .. Len(T) : Pieces(T)[i] = Prepared(T, i)
<1>1. \A i \in 1 .. Len(T) : Prepared(T, i) \in Seq(Char)
  <2>1. PICK M : \A k \in DOMAIN M : M[k] \in Str
    <3>1. \A k \in DOMAIN <<>> : <<>>[k] \in Str  OBVIOUS
    <3>2. QED  BY <3>1
  <2>2. QED  BY <2>1, PreparedWell DEF Str
<1>2. Len(T) \in Nat  OBVIOUS
<1>3. Pieces(T) \in Seq(Seq(Char))  BY <1>1, <1>2, IsASeq DEF Pieces
<1>4. QED  BY <1>2, <1>3 DEF Pieces

(* Path and query are told apart in the prepared string as in the template. *)
LEMMA PartWell ==
  ASSUME NEW T \in Seq(Element), NEW i \in 1 .. Len(T), NEW p \in Nat, p = Len(Flat(Pieces(T), i - 1))
  PROVE  Part(FlattenSeq(Pieces(T)), p + 1) = PartOf(T, i)
<1>1. PICK s \in Seq(Seq(Char)) : s = Pieces(T) /\ Len(s) = Len(T)
                                  /\ \A k \in 1 .. Len(T) : s[k] = Prepared(T, k)
  BY PiecesType
<1>2. PICK m \in 0 .. Len(s) : m = i - 1  BY <1>1
<1>3. Has(FlattenSeq(s), p, Question) <=> \E k \in 1 .. m : Has(s[k], Len(s[k]), Question)
  BY <1>1, <1>2, FlatHas
<1>4. \A k \in 1 .. m : Has(s[k], Len(s[k]), Question) <=> T[k] = QueryMark
  <2> TAKE k \in 1 .. m
  <2>1. k \in 1 .. Len(T)  BY <1>2
  <2>2. QED  BY <1>1, <2>1, QuestionsAreText
<1>5. (\E j \in 1 .. p : FlattenSeq(s)[j] = Question) <=> \E k \in 1 .. m : T[k] = QueryMark
  BY <1>3, <1>4 DEF Has
<1>6. (p + 1) - 1 = p  OBVIOUS
<1>7. Part(FlattenSeq(s), p + 1) = IF \E j \in 1 .. p : FlattenSeq(s)[j] = Question THEN "query" ELSE "path"
  BY <1>6 DEF Part, Question
<1>8. PartOf(T, i) = IF \E k \in 1 .. m : T[k] = QueryMark THEN "query" ELSE "path"
  BY <1>2 DEF PartOf
<1>9. QED  BY <1>1, <1>5, <1>7, <1>8

(* The scan leaves behind what the element stands for, and goes on after it. *)
Replaced(f, p, q, piece) == f[p + 1] = piece \o f[p + q + 1]

LEMMA ScanPiece ==
  ASSUME NEW T \in Seq(Element), Separated(T), NEW M, \A k \in DOMAIN M : M[k] \in Str,
         NEW values, values = ReplacePlaceholders(T, M).values,
         NEW str \in Str, str = FlattenSeq(Pieces(T)),
         NEW f, \A i \in 1 .. Len(str) + 1 : f[i] = ScanFrom(f, T, values, str, i),
         NEW i \in 1 .. Len(T), NEW p \in Nat, p = Len(Flat(Pieces(T), i - 1)),
         NEW q \in Nat, q = Len(Prepared(T, i)), f[p + q + 1] \in Str
  PROVE  Replaced(f, p, q, Filled(T, i, M))
<1>1. PICK s \in Seq(Seq(Char)) : /\ s = Pieces(T) /\ Len(s) = Len(T)
                                  /\ \A k \in 1 .. Len(T) : s[k] = Prepared(T, k)
  BY PiecesType
<1>2. PICK n \in Nat, len \in Nat : n = Len(T) /\ len = Len(str)  BY DEF Str
<1>3. PICK piece \in Str : piece = Prepared(T, i) /\ Len(piece) = q /\ q # 0
  BY PreparedWell
<1>4. PICK h : h = i - 1  OBVIOUS
<1>5. h \in 0 .. Len(s) - 1 /\ h + 1 = i /\ p = Len(Flat(s, h)) /\ s[h + 1] = piece
  BY <1>1, <1>3, <1>4
<1>6. /\ Len(Flat(s, i)) = p + q /\ p + q <= len
      /\ \A k \in 1 .. q : str[p + k] = piece[k]
  <2>1. LET t == Len(Flat(s, h)) IN
        /\ t \in Nat /\ Len(Flat(s, h + 1)) = t + Len(s[h + 1]) /\ t + Len(s[h + 1]) <= Len(FlattenSeq(s))
        /\ \A k \in 1 .. Len(s[h + 1]) : FlattenSeq(s)[t + k] = s[h + 1][k]
        /\ FlattenSeq(s) \in Seq(Char)
    BY <1>5, FlatParts
  <2>2. QED  BY <1>1, <1>2, <1>3, <1>5, <2>1
<1>7. p + q < len => i \in 1 .. n - 1 /\ str[p + q + 1] = Prepared(T, i + 1)[1]
  <2> SUFFICES ASSUME p + q < len PROVE i \in 1 .. n - 1 /\ str[p + q + 1] = Prepared(T, i + 1)[1]
    OBVIOUS
  <2>1. i # n
    <3>1. FlattenSeq(s) = Flat(s, Len(s))  BY FlatSteps
    <3>2. QED  BY <1>1, <1>2, <1>6, <3>1
  <2>2. i \in 1 .. n - 1 /\ i \in 0 .. Len(s) - 1  BY <1>1, <1>2, <2>1
  <2>3. PICK next : next = Prepared(T, i + 1)  OBVIOUS
  <2>4. PICK t : t = i + 1  OBVIOUS
  <2>5. t \in 1 .. Len(T)  BY <1>2, <2>2, <2>4
  <2>6. Len(next) \in Nat \ {0} /\ s[t] = next
    <3>1. PICK N : \A k \in DOMAIN N : N[k] \in Str  OBVIOUS
    <3>2. QED  BY <1>1, <2>3, <2>4, <2>5, <3>1, PreparedWell
  <2>7. LET x == Len(Flat(s, i)) IN
        /\ x \in Nat /\ Len(Flat(s, i + 1)) = x + Len(s[i + 1]) /\ x + Len(s[i + 1]) <= Len(FlattenSeq(s))
        /\ \A k \in 1 .. Len(s[i + 1]) : FlattenSeq(s)[x + k] = s[i + 1][k]
        /\ FlattenSeq(s) \in Seq(Char)
    BY <2>2, FlatParts
  <2>8. \A k \in 1 .. Len(next) : str[(p + q) + k] = next[k]  BY <1>1, <1>6, <2>4, <2>6, <2>7
  <2>9. 1 \in 1 .. Len(next)  BY <2>6
  <2>10. QED  BY <2>2, <2>3, <2>8, <2>9
<1>8. i \in Params(T) \/ T[i] = DollarText => (p + q < len => ~IsDigit(str[p + q + 1]))
  BY <1>2, <1>7, NoDigitNext
<1>9. PICK a \in Nat, b \in Nat : a = p + 1 /\ b = p + q  OBVIOUS
<1>10. a \in 1 .. Len(str) /\ b \in a .. Len(str) /\ b + 1 = p + q + 1 /\ p + Len(piece) = b /\ b = (p + q)
  BY <1>2, <1>3, <1>6, <1>9
<1>11. SubSeq(str, a, b) = piece
  <2>1. p + Len(piece) <= Len(str) /\ \A k \in 1 .. Len(piece) : str[p + k] = piece[k]
    BY <1>2, <1>3, <1>6
  <2>2. SubSeq(str, p + 1, p + Len(piece)) = piece  BY <2>1, SliceIs, Zenon
  <2>3. QED  BY <1>9, <1>10, <2>2
<1>12. str[a] = piece[1]
  <2>1. 1 \in 1 .. q  BY <1>3
  <2>2. QED  BY <1>6, <1>9, <2>1
<1>13. PICK j : j = RunEnd(str, a)  OBVIOUS
<1>14. f[a] = ScanChoice(f, T, values, str, a, j)  BY <1>10, <1>13, ScanStep
<1>15. CASE i \notin Params(T) /\ \A k \in 1 .. q : piece[k] # Dollar
  <2>1. Filled(T, i, M) = piece  BY <1>3, <1>15, PreparedWell
  <2>2. \A k \in a .. (b + 1) - 1 : str[k] # Dollar
    <3> TAKE k \in a .. (b + 1) - 1
    <3>1. PICK l : l = k - p  OBVIOUS
    <3>2. l \in 1 .. q /\ k = p + l  BY <1>9, <3>1
    <3>3. QED  BY <1>6, <1>15, <3>2
  <2>3. a \in 1 .. Len(str) + 1 /\ b + 1 \in a .. Len(str) + 1 /\ (b + 1) - 1 = b  BY <1>2, <1>10
  <2>4. f[b + 1] \in Str  BY <1>10
  <2>5. PICK e : e = b + 1  OBVIOUS
  <2>6. /\ a \in 1 .. Len(str) + 1 /\ e \in a .. Len(str) + 1 /\ f[e] \in Str
        /\ \A k \in a .. e - 1 : str[k] # Dollar
    BY <2>2, <2>3, <2>4, <2>5
  <2>7. f[a] = SubSeq(str, a, e - 1) \o f[e]
    <3>1. Taken(f, str, a, e)  BY <2>6, ScanPlain
    <3>2. QED  BY <3>1 DEF Taken
  <2>8. e - 1 = b  BY <2>3, <2>5
  <2>9. QED  BY <1>9, <1>10, <1>11, <2>1, <2>5, <2>7, <2>8 DEF Replaced
<1>16. CASE i \notin Params(T) /\ IsText(T[i]) /\ piece[1] = Dollar
  <2>1. piece = T[i].key /\ Len(piece) = 1 /\ T[i] = [source |-> T[i].source, key |-> T[i].key]
    BY <1>3, <1>16, Kinds
  <2>2. piece = <<Dollar>> /\ q = 1
    <3>1. piece = <<piece[1]>>  BY <2>1 DEF Str
    <3>2. QED  BY <1>3, <1>16, <2>1, <3>1
  <2>3. T[i] = DollarText
    <3>1. T[i].source = "text"  BY <1>16 DEF IsText
    <3>2. DollarText = [source |-> "text", key |-> <<Dollar>>]  BY DEF DollarText, Dollar
    <3>3. QED  BY <2>1, <2>2, <3>1, <3>2
  <2>4. b = a  BY <1>9, <2>2
  <2>5. j = a
    <3>1. a \in a .. Len(str) /\ \A k \in a + 1 .. a : IsDigit(str[k])  BY <1>10
    <3>2. a < Len(str) => ~IsDigit(str[a + 1])  BY <1>2, <1>8, <1>9, <2>2, <2>3
    <3>3. QED  BY <1>10, <1>13, <3>1, <3>2, RunEndIs
  <2>6. ~(j > a)  BY <2>5
  <2>7. f[a] = <<str[a]>> \o f[a + 1]  BY <1>14, <2>6, Zenon DEF ScanChoice
  <2>8. Filled(T, i, M) = piece  BY <1>3, <1>16, PreparedWell
  <2>9. <<str[a]>> = piece  BY <1>12, <1>16, <2>2
  <2>10. a + 1 = p + q + 1  BY <1>9, <2>2
  <2>11. QED  BY <1>9, <2>7, <2>8, <2>9, <2>10 DEF Replaced
<1>17. CASE i \in Params(T)
  <2>1. PICK x \in Nat : x = ParamIndex(T, i)  BY <1>17, ParamIndexWell
  <2>2. piece = Param(x) /\ Filled(T, i, M) = FilledParam(T, i, M)  BY <1>3, <1>17, <2>1, Kinds
  <2>3. PICK d \in Str : d = Decimal(x) /\ Numeral(d, x)  BY DecimalWell DEF Numeral
  <2>4. PICK e \in Nat \ {0} : e = Len(d)  BY <2>3, ParamWell
  <2>5. q = e + 1 /\ piece[1] = Dollar /\ \A k \in 1 .. e : piece[k + 1] = d[k]
    BY <1>3, <2>2, <2>3, <2>4, ParamWell
  <2>6. a + Len(d) = b /\ b > a  BY <1>9, <2>4, <2>5
  <2>7. \A k \in 1 .. Len(d) : str[a + k] = d[k]
    <3> TAKE k \in 1 .. Len(d)
    <3>1. PICK l : l = k + 1  OBVIOUS
    <3>2. l \in 1 .. q /\ p + l = a + k /\ k \in 1 .. e  BY <1>9, <2>4, <2>5, <3>1
    <3>3. str[p + l] = piece[l]  BY <1>6, <3>2
    <3>4. QED  BY <2>5, <3>1, <3>2, <3>3
  <2>8. SubSeq(str, a + 1, b) = d
    <3>1. a + Len(d) <= Len(str)  BY <1>2, <1>6, <1>9, <2>6
    <3>2. SubSeq(str, a + 1, a + Len(d)) = d  BY <2>7, <3>1, SliceIs, Zenon
    <3>3. QED  BY <2>6, <3>2
  <2>9. j = b
    <3>1. \A k \in a + 1 .. b : IsDigit(str[k])
      <4> TAKE k \in a + 1 .. b
      <4>1. PICK l : l = k - a  OBVIOUS
      <4>2. l \in 1 .. Len(d) /\ a + l = k  BY <2>4, <2>6, <4>1
      <4>3. str[k] = d[l] /\ IsDigit(d[l])  BY <2>3, <2>7, <4>2 DEF Numeral
      <4>4. QED  BY <4>3
    <3>2. b < Len(str) => ~IsDigit(str[b + 1])  BY <1>2, <1>8, <1>9, <1>17
    <3>3. QED  BY <1>10, <1>13, <3>1, <3>2, RunEndIs
  <2>10. Number(SubSeq(str, a + 1, j)) = x  BY <2>3, <2>8, <2>9 DEF Numeral
  <2>11. x < Len(values) /\ values[x + 1] = Value(T[i], M)  BY <1>17, <2>1, ValuesWell
  <2>12. str[a] = Dollar /\ j > a  BY <1>12, <2>5, <2>6, <2>9
  <2>13. f[a] = Inserted(T, values, x, a, str) \o f[j + 1]
    BY <1>14, <2>10, <2>11, <2>12, Zenon DEF ScanChoice
  <2>14. Inserted(T, values, x, a, str) = FilledParam(T, i, M)
    <3>1. SourceFor(T, x) = "env" <=> FromEnv(T[i])  BY <1>17, <2>1, SourceForWell DEF FromEnv
    <3>2. Part(str, a) = PartOf(T, i)  BY <1>9, PartWell
    <3>3. Inserted(T, values, x, a, str) =
            IF SourceFor(T, x) = "env" THEN values[x + 1] ELSE Escaped(values[x + 1], Part(str, a))
      BY DEF Inserted
    <3>4. QED  BY <2>11, <3>1, <3>2, <3>3, Zenon DEF FilledParam
  <2>15. QED  BY <1>9, <1>10, <2>2, <2>9, <2>13, <2>14 DEF Replaced
<1>18. QED
  <2>1. CASE IsCoord(T[i])
    <3>1. piece = Coord[T[i].key] /\ T[i].key \in DOMAIN Coord /\ i \notin Params(T)  BY <1>3, <2>1, Kinds
    <3>2. \A k \in 1 .. q : piece[k] # Dollar  BY <1>3, <3>1, CoordWell
    <3>3. QED  BY <1>15, <3>1, <3>2
  <2>2. CASE IsText(T[i])
    <3>1. Len(piece) = 1 /\ i \notin Params(T)  BY <1>3, <2>2, Kinds
    <3>2. piece[1] # Dollar => \A k \in 1 .. q : piece[k] # Dollar  BY <1>3, <3>1
    <3>3. QED  BY <1>15, <1>16, <2>2, <3>1, <3>2
  <2>3. QED  BY <1>17, <2>1, <2>2, Kinds

(* The scan puts every value where its placeholder was; the rest stays.     *)
LEMMA UrlWell ==
  ASSUME NEW T \in Seq(Element), Separated(T), NEW M, \A k \in DOMAIN M : M[k] \in Str
  PROVE  ReplaceURLPlaceholders(T, M) = FilledURL(T, M)
<1>1. PICK s \in Seq(Seq(Char)) : /\ s = Pieces(T) /\ Len(s) = Len(T)
                                  /\ \A k \in 1 .. Len(T) : s[k] = Prepared(T, k)
  BY PiecesType
<1>2. PICK n \in Nat : n = Len(T)  OBVIOUS
<1> DEFINE filled == [i \in 1 .. Len(T) |-> Filled(T, i, M)]
<1>3. PICK g \in Seq(Seq(Char)) : g = filled /\ Len(g) = n /\ \A i \in 1 .. n : g[i] = Filled(T, i, M)
  <2>1. \A i \in 1 .. n : Filled(T, i, M) \in Seq(Char)  BY <1>2, PreparedWell DEF Str
  <2>2. filled \in Seq(Seq(Char))  BY <1>2, <2>1, IsASeq
  <2>3. Len(filled) = n /\ \A i \in 1 .. n : filled[i] = Filled(T, i, M)  BY <1>2
  <2> HIDE DEF filled
  <2>4. QED  BY <2>2, <2>3
<1>4. FilledURL(T, M) = FlattenSeq(g)  BY <1>3 DEF FilledURL
<1> HIDE DEF filled
<1>5. PICK str \in Str : str = FlattenSeq(s) /\ str = Flat(s, n)
  <2>1. n \in 0 .. n  OBVIOUS
  <2>2. QED  BY <1>1, <1>2, <2>1, FlatSteps DEF Str
<1>6. PICK values : values = ReplacePlaceholders(T, M).values  OBVIOUS
<1>7. PICK f : /\ \A i \in 1 .. Len(str) + 1 : f[i] = ScanFrom(f, T, values, str, i)
               /\ Scan(T, values, str) = f[1]
  <2>1. PICK x : x = Scanned(T, values, str)  OBVIOUS
  <2>2. /\ \A i \in 1 .. Len(str) + 1 : x[i] = ScanFrom(x, T, values, str, i)
        /\ Scan(T, values, str) = x[1]
    BY <2>1, ScanExists
  <2>3. QED  BY <2>2
<1>8. ReplaceURLPlaceholders(T, M) = f[1]
  <2>1. ReplacePlaceholders(T, M).str = str  BY <1>1, <1>5 DEF ReplacePlaceholders, Pieces
  <2>2. QED  BY <1>6, <1>7, <2>1 DEF ReplaceURLPlaceholders
<1> DEFINE At(h) == f[Len(Flat(s, h)) + 1]
           Good == {k \in 0 .. n : At(n - k) \in Str /\ Flat(g, n) = Flat(g, n - k) \o At(n - k)}
<1>9. /\ \A k \in 0 .. n : Flat(g, k) \in Str
      /\ \A k \in 0 .. n - 1 : Flat(g, k + 1) = Flat(g, k) \o g[k + 1]
      /\ FlattenSeq(g) = Flat(g, n) /\ Flat(g, 0) = <<>> /\ Flat(s, 0) = <<>>
  BY <1>1, <1>3, FlatSteps DEF Str
<1>10. 0 \in Good
  <2>1. n - 0 = n /\ 0 \in 0 .. n /\ n \in 0 .. n  OBVIOUS
  <2>2. At(n) = <<>>
    <3>1. str \in Str /\ \A i \in 1 .. Len(str) + 1 : f[i] = ScanFrom(f, T, values, str, i)  BY <1>5, <1>7
    <3>2. f[Len(str) + 1] = <<>>
      <4> HIDE <1>5, <1>7
      <4>1. QED  BY <3>1, ScanEnd
    <3>3. QED  BY <1>5, <3>2
  <2>3. <<>> \in Str  BY DEF Str
  <2>4. Flat(g, n) \o <<>> = Flat(g, n)  BY <1>9, <2>1, ConcatEmptySeq DEF Str
  <2> HIDE DEF At
  <2>5. At(n - 0) \in Str /\ Flat(g, n) = Flat(g, n - 0) \o At(n - 0)  BY <2>1, <2>2, <2>3, <2>4
  <2>6. QED  BY <2>1, <2>5
<1>11. ASSUME NEW k \in 0 .. n - 1, k \in Good PROVE k + 1 \in Good
  <2>1. PICK i : i = n - k  OBVIOUS
  <2>2. PICK h : h = n - (k + 1)  OBVIOUS
  <2>3. /\ i \in 1 .. n /\ i \in 1 .. Len(T) /\ h = i - 1 /\ h + 1 = i /\ h \in 0 .. n - 1 /\ h \in 0 .. n
        /\ k + 1 \in 0 .. n
    BY <1>2, <2>1, <2>2
  <2>4. At(i) \in Str /\ Flat(g, n) = Flat(g, i) \o At(i)
    <3> HIDE DEF At
    <3>1. QED  BY <1>11, <2>1
  <2>5. PICK p \in Nat, q \in Nat : p = Len(Flat(s, h)) /\ q = Len(Prepared(T, i)) /\ Len(Flat(s, i)) = p + q
    <3>1. h \in 0 .. Len(s) - 1  BY <1>1, <1>2, <2>3
    <3>2. LET t == Len(Flat(s, h)) IN
          /\ t \in Nat /\ Len(Flat(s, h + 1)) = t + Len(s[h + 1]) /\ t + Len(s[h + 1]) <= Len(FlattenSeq(s))
          /\ \A x \in 1 .. Len(s[h + 1]) : FlattenSeq(s)[t + x] = s[h + 1][x]
          /\ FlattenSeq(s) \in Seq(Char)
      BY <3>1, FlatParts
    <3>3. Len(Prepared(T, i)) \in Nat  BY <2>3, PreparedWell
    <3>4. s[i] = Prepared(T, i)  BY <1>1, <2>3
    <3>5. QED  BY <2>3, <3>2, <3>3, <3>4
  <2>6. f[p + q + 1] \in Str  BY <2>4, <2>5
  <2>7. f[p + 1] = Filled(T, i, M) \o f[p + q + 1]
    <3>1. p = Len(Flat(Pieces(T), i - 1)) /\ str = FlattenSeq(Pieces(T))  BY <1>1, <1>5, <2>3, <2>5
    <3>2. Replaced(f, p, q, Filled(T, i, M))
      BY <1>6, <1>7, <2>3, <2>5, <2>6, <3>1, ScanPiece
    <3>3. QED  BY <3>2 DEF Replaced
  <2>8. PICK a \in Str : a = Flat(g, h)  BY <1>9, <2>3
  <2>9. PICK b \in Str : b = Filled(T, i, M) /\ b = g[i]  BY <1>3, <2>3, PreparedWell
  <2>10. PICK c \in Str : c = f[p + q + 1] /\ c = At(i)  BY <2>5, <2>6
  <2>11. Flat(g, i) = a \o b  BY <1>9, <2>3, <2>8, <2>9
  <2>12. (a \o b) \o c = a \o (b \o c)  BY StrAssociative, Zenon
  <2>13. At(h) = b \o c  BY <2>5, <2>7, <2>9, <2>10
  <2>14. b \o c \in Str  BY StrConcat
  <2> HIDE DEF At
  <2>15. At(h) \in Str /\ Flat(g, n) = Flat(g, h) \o At(h)
    BY <2>4, <2>8, <2>10, <2>11, <2>12, <2>13, <2>14, Zenon
  <2>16. QED  BY <2>2, <2>3, <2>15
<1>12. n \in Good
  <2> HIDE DEF Good
  <2>1. \A k \in 0 .. n : k \in Good  BY <1>10, <1>11, UpTo
  <2>2. QED  BY <2>1
<1>13. At(0) \in Str /\ Flat(g, n) = <<>> \o At(0)
  <2> HIDE DEF At
  <2>1. n - n = 0  OBVIOUS
  <2>2. QED  BY <1>9, <1>12, <2>1
<1>14. At(0) = f[1]
  <2>1. Len(<<>>) + 1 = 1  OBVIOUS
  <2>2. QED  BY <1>9, <2>1
<1> HIDE DEF At
<1>15. <<>> \o At(0) = At(0)  BY <1>13, ConcatEmptySeq DEF Str
<1>16. QED  BY <1>4, <1>8, <1>9, <1>13, <1>14, <1>15

-----------------------------------------------------------------------------
UrlInv ==
  /\ NamesInv
  /\ place = "tile" =>
       \E template \in {<<>>} \cup Templates(layers[found].provider) :
         url = ReplaceURLPlaceholders(template, matches)

LEMMA UrlInvInit == Init => UrlInv
BY NamesInvInit DEF Init, UrlInv

LEMMA UrlInvNext == UrlInv /\ [Next]_vars => UrlInv'
<1> SUFFICES ASSUME UrlInv, [Next]_vars PROVE UrlInv'
  OBVIOUS
<1>1. NamesInv /\ NamesInv'  BY NamesInvNext DEF UrlInv
<1>2. CASE Tile
  <2>1. layers' = layers /\ found' = found /\ matches' = matches
        /\ \E template \in {<<>>} \cup Templates(layers[found].provider) :
             url' = ReplaceURLPlaceholders(template, matches)
    BY <1>2 DEF Tile
  <2>2. (\E template \in {<<>>} \cup Templates(layers[found].provider) :
           url = ReplaceURLPlaceholders(template, matches))'
    BY <2>1
  <2>3. QED  BY <1>1, <2>2 DEF UrlInv
<1>3. CASE UNCHANGED vars
  <2>1. UNCHANGED <<layers, place, found, matches, url>>  BY <1>3 DEF vars
  <2>2. QED  BY <1>1, <2>1 DEF UrlInv
<1>4. CASE ConstructLayerGroup \/ Request \/ FindLayer
           \/ (place = "generate" /\ \E target \in Refs(layers[found].provider) : Forward(target))
  <2>1. place' # "tile"  BY <1>4 DEF ConstructLayerGroup, Request, FindLayer, Forward
  <2>2. QED  BY <1>1, <2>1 DEF UrlInv
<1>5. QED  BY <1>2, <1>3, <1>4 DEF Next

LEMMA UrlInvFilled == UrlInv => UrlIsFilled
<1> SUFFICES ASSUME UrlInv, place = "tile", \A template \in Templates(layers[found].provider) : Separated(template)
             PROVE  \E template \in {<<>>} \cup Templates(layers[found].provider) : url = FilledURL(template, matches)
  BY DEF UrlIsFilled
<1>1. NamesInv  BY DEF UrlInv
<1>2. PICK T \in {<<>>} \cup Templates(layers[found].provider) : url = ReplaceURLPlaceholders(T, matches)
  BY DEF UrlInv
<1>3. NamesType /\ found \in DOMAIN layers /\ name \in Str  BY <1>1 DEF NamesInv, NamesType
<1>4. PICK l : l = layers[found]  OBVIOUS
<1>5. IsLayer(l) /\ Segments(l).ok  BY <1>1, <1>3, <1>4, LayerFacts DEF NamesInv, Constructed
<1>6. T \in Seq(Element) /\ Separated(T)
  <2>1. CASE T = <<>>
    <3>1. <<>> \in Seq(Element) /\ Len(<<>>) = 0  OBVIOUS
    <3>2. PICK n : n = Len(T)  OBVIOUS
    <3>3. n = 0 /\ 1 .. n - 1 = {}  BY <2>1, <3>1, <3>2
    <3>4. Separated(T)  BY <3>2, <3>3 DEF Separated
    <3>5. QED  BY <2>1, <3>1, <3>4
  <2>2. CASE T \in Templates(l.provider)
    <3>1. PICK node \in l.provider : node.kind = "leaf" /\ T = node.url  BY <2>2 DEF Templates
    <3>2. node \in Node  BY <1>5 DEF IsLayer
    <3>3. node.url \in Seq(Element)  BY <3>1, <3>2 DEF Node
    <3>4. QED  BY <1>4, <2>2, <3>1, <3>3
  <2>3. QED  BY <1>2, <1>4, <2>1, <2>2
<1>7. PICK segments : segments = Segments(l).segments  OBVIOUS
<1>8. segments \in Seq(Segment) /\ WellFormed(segments)  BY <1>5, <1>7, SegmentsWell
<1>9. Match(segments, name).ok /\ matches = Match(segments, name).values
  BY <1>1, <1>4, <1>7 DEF NamesInv, MatchesName
<1>10. \A k \in DOMAIN matches : matches[k] \in Str  BY <1>3, <1>8, <1>9, MatchType
<1>11. ReplaceURLPlaceholders(T, matches) = FilledURL(T, matches)  BY <1>6, <1>10, UrlWell
<1>12. QED  BY <1>2, <1>11

(* Every URL asked for is its template filled in, whatever a request        *)
(* brought, when no digit stands behind a placeholder:                      *)
(* replaceURLPlaceholders scans the prepared string once (utility.go:77-    *)
(* 131), and the numbering of the parameters and its reading agree.         *)
THEOREM UrlsAreFilled == Spec => []UrlIsFilled
<1>1. UrlInv => UrlIsFilled  BY UrlInvFilled
<1>2. QED  BY <1>1, UrlInvInit, UrlInvNext, PTL DEF Spec

-----------------------------------------------------------------------------
(* Commands: the columns and rows of a box.                                 *)

(* The whole part of a quotient is below it, and less than one away.        *)
LEMMA Whole ==
  ASSUME NEW a \in Int, NEW w \in Nat, w > 0
  PROVE  /\ a \div w \in Int
         /\ (a \div w) * w <= a
         /\ a < (a \div w) * w + w
OBVIOUS

LEMMA Ordered ==
  ASSUME NEW a \in Int, NEW b \in Int, NEW w \in Nat, w > 0
  PROVE  /\ a * w < b * w => a < b
         /\ a < b => a * w + w <= b * w
         /\ a <= b => a * w <= b * w
         /\ a * w \in Int
         /\ (a + 1) * w = a * w + w
OBVIOUS

(* Tiles from the one a stretch begins in to the one it ends in: those it   *)
(* covers are among them, and it touches each.                              *)
LEMMA FloorToFloor ==
  ASSUME NEW a \in Int, NEW b \in Int, NEW w \in Nat, w > 0, a < b,
         NEW lo, lo = a \div w,
         NEW hi, hi = (IF lo = b \div w THEN lo + 1 ELSE b \div w),
         NEW v \in Int
  PROVE  /\ lo \in Int /\ hi \in Int /\ lo < hi
         /\ a <= v * w /\ v * w + w <= b => lo <= v /\ v < hi
         /\ lo <= v /\ v < hi => v * w + w > a /\ v * w < b
<1> DEFINE top == b \div w
<1>1. lo \in Int /\ lo * w <= a /\ a < lo * w + w  BY Whole
<1>2. top \in Int /\ top * w <= b /\ b < top * w + w  BY Whole
<1>3. hi = IF lo = top THEN lo + 1 ELSE top  OBVIOUS
<1> HIDE DEF top
<1>4. lo * w \in Int /\ top * w \in Int /\ v * w \in Int
      /\ (top + 1) * w = top * w + w /\ (lo + 1) * w = lo * w + w /\ (v + 1) * w = v * w + w
  BY <1>1, <1>2, Ordered
<1>5. lo <= top
  <2>1. lo * w < (top + 1) * w  BY <1>1, <1>2, <1>4
  <2>2. top + 1 \in Int  BY <1>2
  <2>3. lo < top + 1  BY <1>1, <2>1, <2>2, Ordered
  <2>4. QED  BY <1>1, <1>2, <2>3
<1>6. hi \in Int /\ lo < hi  BY <1>1, <1>2, <1>3, <1>5
<1>7. ASSUME a <= v * w, v * w + w <= b PROVE lo <= v /\ v < hi
  <2>1. lo * w < (v + 1) * w  BY <1>1, <1>4, <1>7
  <2>2. lo < v + 1  BY <1>1, <2>1, Ordered
  <2>3. (v + 1) * w < (top + 1) * w  BY <1>2, <1>4, <1>7
  <2>4. v + 1 < top + 1
    <3>1. top + 1 \in Int /\ v + 1 \in Int  BY <1>2
    <3>2. QED  BY <2>3, <3>1, Ordered
  <2>5. QED  BY <1>1, <1>2, <1>3, <2>2, <2>4
<1>8. ASSUME lo <= v, v < hi PROVE v * w + w > a /\ v * w < b
  <2>1. lo * w <= v * w  BY <1>1, <1>8, Ordered
  <2>2. CASE lo = top
    <3>1. v = lo  BY <1>1, <1>3, <1>8, <2>2
    <3>2. QED  BY <1>1, <1>4, <3>1
  <2>3. CASE lo # top
    <3>1. v * w + w <= top * w  BY <1>2, <1>3, <1>8, <2>3, Ordered
    <3>2. QED  BY <1>1, <1>2, <1>4, <2>1, <3>1
  <2>4. QED  BY <2>2, <2>3
<1>9. QED  BY <1>1, <1>6, <1>7, <1>8

(* The same when the end is rounded up.                                     *)
LEMMA FloorToCeiling ==
  ASSUME NEW a \in Int, NEW b \in Int, NEW w \in Nat, w > 0, a < b,
         NEW lo, lo = a \div w,
         NEW hi, hi = (b + w - 1) \div w,
         NEW v \in Int
  PROVE  /\ lo \in Int /\ hi \in Int /\ lo < hi
         /\ a <= v * w /\ v * w + w <= b => lo <= v /\ v < hi
         /\ lo <= v /\ v < hi => v * w + w > a /\ v * w < b
<1>1. lo \in Int /\ lo * w <= a /\ a < lo * w + w  BY Whole
<1>2. hi \in Int /\ hi * w <= b + w - 1 /\ b <= hi * w
  <2>1. b + w - 1 \in Int  OBVIOUS
  <2>2. hi \in Int /\ hi * w <= b + w - 1 /\ b + w - 1 < hi * w + w  BY <2>1, Whole
  <2>3. hi * w \in Int  BY <2>2, Ordered
  <2>4. QED  BY <2>2, <2>3
<1>3. lo * w \in Int /\ hi * w \in Int /\ v * w \in Int /\ (v + 1) * w = v * w + w
  BY <1>1, <1>2, Ordered
<1>4. lo < hi
  <2>1. lo * w < hi * w  BY <1>1, <1>2, <1>3
  <2>2. QED  BY <1>1, <1>2, <2>1, Ordered
<1>5. ASSUME a <= v * w, v * w + w <= b PROVE lo <= v /\ v < hi
  <2>1. lo * w < (v + 1) * w  BY <1>1, <1>3, <1>5
  <2>2. lo < v + 1  BY <1>1, <2>1, Ordered
  <2>3. v * w < hi * w  BY <1>2, <1>3, <1>5
  <2>4. v < hi  BY <1>2, <2>3, Ordered
  <2>5. QED  BY <1>1, <2>2, <2>4
<1>6. ASSUME lo <= v, v < hi PROVE v * w + w > a /\ v * w < b
  <2>1. lo * w <= v * w  BY <1>1, <1>6, Ordered
  <2>2. v * w + w <= hi * w  BY <1>2, <1>6, Ordered
  <2>3. QED  BY <1>1, <1>2, <1>3, <2>1, <2>2
<1>7. QED  BY <1>1, <1>2, <1>4, <1>5, <1>6

(* math.Exp2 of a zoom is a positive number.                                *)
Twice(f, k) == IF k = 0 THEN 1 ELSE 2 * f[k - 1]

Doubles(z) == CHOOSE f : f = [k \in 0 .. z |-> IF k = 0 THEN 1 ELSE 2 * f[k - 1]]

LEMMA DoublesExists ==
  ASSUME NEW z \in Nat
  PROVE  Doubles(z) = [k \in 0 .. z |-> Twice(Doubles(z), k)]
<1> DEFINE Some(n) == \E f : f = [k \in 0 .. n |-> Twice(f, k)]
           Good == {n \in Nat : Some(n)}
<1>1. 0 \in Good
  <2> DEFINE f == [k \in 0 .. 0 |-> 1]
  <2>1. f = [k \in 0 .. 0 |-> Twice(f, k)]  BY DEF Twice
  <2>2. QED  BY <2>1
<1>2. ASSUME NEW n \in Nat, n \in Good PROVE n + 1 \in Good
  <2>1. PICK f : f = [k \in 0 .. n |-> Twice(f, k)]  BY <1>2, Zenon
  <2> DEFINE g == [k \in 0 .. n + 1 |-> IF k <= n THEN f[k] ELSE Twice(f, k)]
  <2>2. \A k \in 0 .. n : g[k] = f[k] /\ f[k] = Twice(f, k)
    <3>1. \A k \in 0 .. n : f[k] = Twice(f, k)  BY <2>1, Zenon
    <3>2. QED  BY <3>1
  <2>3. g[n + 1] = Twice(f, n + 1)  OBVIOUS
  <2>4. g = [k \in 0 .. n + 1 |-> g[k]]  OBVIOUS
  <2> HIDE DEF g
  <2>5. \A k \in 0 .. n + 1 : g[k] = Twice(g, k)
    <3> TAKE k \in 0 .. n + 1
    <3>1. Twice(f, k) = Twice(g, k)
      <4>1. CASE k = 0  BY <4>1 DEF Twice
      <4>2. CASE k # 0
        <5>1. k - 1 \in 0 .. n  BY <4>2
        <5>2. f[k - 1] = g[k - 1]  BY <2>2, <5>1
        <5>3. QED  BY <4>2, <5>2, Zenon DEF Twice
      <4>3. QED  BY <4>1, <4>2
    <3>2. CASE k = n + 1  BY <2>3, <3>1, <3>2
    <3>3. CASE k # n + 1
      <4>1. k \in 0 .. n  BY <3>3
      <4>2. QED  BY <2>2, <3>1, <4>1
    <3>4. QED  BY <3>2, <3>3
  <2>6. g = [k \in 0 .. n + 1 |-> Twice(g, k)]  BY <2>4, <2>5, Zenon
  <2>7. n + 1 \in Nat  OBVIOUS
  <2>8. QED  BY <2>6, <2>7, Zenon
<1>3. z \in Good
  <2> HIDE DEF Good
  <2>1. \A k \in 0 .. z - 1 : k \in Good => k + 1 \in Good  BY <1>2
  <2>2. \A k \in 0 .. z : k \in Good  BY <1>1, <2>1, UpTo
  <2>3. QED  BY <2>2
<1>4. QED  BY <1>3 DEF Doubles, Twice

LEMMA Exp2Type == ASSUME NEW z \in Nat PROVE Exp2(z) \in Nat /\ Exp2(z) > 0
<1> DEFINE f == Doubles(z)
<1>1. f = [k \in 0 .. z |-> Twice(f, k)]  BY DoublesExists, Zenon
<1>2. Exp2(z) = f[z]  BY DEF Exp2, Doubles
<1> HIDE DEF f
<1>3. \A k \in 0 .. z : f[k] = Twice(f, k)  BY <1>1, Zenon
<1> DEFINE Good == {k \in 0 .. z : f[k] \in Nat /\ f[k] > 0}
<1>4. 0 \in Good  BY <1>3 DEF Twice
<1>5. \A k \in 0 .. z - 1 : k \in Good => k + 1 \in Good
  <2> TAKE k \in 0 .. z - 1
  <2>1. k + 1 \in 0 .. z /\ k + 1 # 0 /\ k + 1 - 1 = k  OBVIOUS
  <2>2. f[k + 1] = Twice(f, k + 1)  BY <1>3, <2>1, Zenon
  <2>3. Twice(f, k + 1) = 2 * f[k]  BY <2>1 DEF Twice
  <2>4. QED  BY <2>1, <2>2, <2>3
<1> HIDE DEF Good
<1>6. z \in Good  BY <1>4, <1>5, UpTo
<1>7. QED  BY <1>2, <1>6 DEF Good

(* A box that is regular: its columns and rows are those of the tiles       *)
(* FindTiles should find.                                                   *)
InBox(b, n, x, y) ==
  /\ Columns(b, n).min <= x /\ x < Columns(b, n).max
  /\ Rows(b, n).min <= y /\ y < Rows(b, n).max

LEMMA WorldFacts == World \in Nat /\ World > 0 /\ World = Half + Half /\ Half \in Nat
BY CommandsAssumption DEF World

LEMMA Scaling ==
  ASSUME NEW n \in Nat, n > 0, NEW a \in Int, NEW b \in Int
  PROVE  n * a \in Int /\ n * (a + b) = n * a + n * b /\ (a < b => n * a < n * b) /\ (a <= b => n * a <= n * b)
OBVIOUS

LEMMA ColumnsWell ==
  ASSUME NEW b \in Box, Regular(b), NEW n \in Nat, n > 0, NEW x \in Int
  PROVE  /\ Columns(b, n).min \in Int /\ Columns(b, n).max \in Int /\ Columns(b, n).min < Columns(b, n).max
         /\ n * (b.west + Half) <= x * World /\ x * World + World <= n * (b.east + Half)
              => Columns(b, n).min <= x /\ x < Columns(b, n).max
         /\ Columns(b, n).min <= x /\ x < Columns(b, n).max
              => x * World + World > n * (b.west + Half) /\ x * World < n * (b.east + Half)
<1> DEFINE X1 == n * (b.west + Half)
           X2 == n * (b.east + Half)
           lo == X1 \div World
           top == X2 \div World
           hi == IF lo = top THEN lo + 1 ELSE top
<1>1. World \in Nat /\ World > 0 /\ World = Half + Half /\ Half \in Nat  BY WorldFacts
<1>2. b.west \in Int /\ b.east \in Int /\ -Half <= b.west /\ b.west < b.east /\ b.east <= Half
  BY DEF Box, Regular
<1>3. X1 \in Int /\ X2 \in Int /\ X1 < X2 /\ 0 <= X1 /\ X2 <= n * World
  <2>1. b.west + Half \in Nat /\ b.east + Half \in Nat /\ b.west + Half < b.east + Half /\ b.east + Half <= World
    BY <1>1, <1>2
  <2>2. QED  BY <1>1, <2>1, Scaling
<1> HIDE DEF X1, X2
<1>4. lo \in Int /\ hi \in Int /\ lo < hi
      /\ (X1 <= x * World /\ x * World + World <= X2 => lo <= x /\ x < hi)
      /\ (lo <= x /\ x < hi => x * World + World > X1 /\ x * World < X2)
  BY <1>1, <1>3, FloorToFloor
<1>5. Clamp(lo, 0, n) = lo /\ Clamp(top, 0, n) = top
  <2>1. lo \in Int /\ lo * World <= X1 /\ X1 < lo * World + World  BY <1>1, <1>3, Whole
  <2>2. top \in Int /\ top * World <= X2 /\ X2 < top * World + World  BY <1>1, <1>3, Whole
  <2> HIDE DEF lo, top
  <2>3. lo * World \in Int /\ top * World \in Int /\ n * World \in Int
        /\ (lo + 1) * World = lo * World + World /\ (top + 1) * World = top * World + World
    BY <1>1, <2>1, <2>2, Ordered
  <2>4. 0 * World = 0  BY <1>1
  <2>5. 0 < lo + 1
    <3>1. lo + 1 \in Int  BY <2>1
    <3>2. 0 < (lo + 1) * World
      <4>1. X1 < (lo + 1) * World /\ 0 <= X1 /\ X1 \in Int /\ (lo + 1) * World \in Int  BY <1>1, <1>3, <2>1, <2>3, <3>1
      <4>2. QED  BY <4>1
    <3>3. lo + 1 <= 0 => (lo + 1) * World <= 0  BY <1>1, <2>4, <3>1, Ordered
    <3>4. QED  BY <1>1, <2>1, <2>2, <2>3, <3>1, <3>2, <3>3
  <2>6. 0 < top + 1
    <3>1. top + 1 \in Int  BY <2>2
    <3>2. 0 < (top + 1) * World
      <4>1. X2 < (top + 1) * World /\ 0 <= X2 /\ X2 \in Int /\ (top + 1) * World \in Int  BY <1>1, <1>3, <2>2, <2>3, <3>1
      <4>2. QED  BY <4>1
    <3>3. top + 1 <= 0 => (top + 1) * World <= 0  BY <1>1, <2>4, <3>1, Ordered
    <3>4. QED  BY <1>1, <2>1, <2>2, <2>3, <3>1, <3>2, <3>3
  <2>7. ~(n < lo)
    <3>1. ~(n * World + World <= lo * World)  BY <1>1, <1>3, <2>1, <2>3
    <3>2. QED  BY <1>1, <2>1, <3>1, Ordered
  <2>8. ~(n < top)
    <3>1. ~(n * World + World <= top * World)  BY <1>1, <1>3, <2>2, <2>3
    <3>2. QED  BY <1>1, <2>2, <3>1, Ordered
  <2>9. QED  BY <2>1, <2>2, <2>5, <2>6, <2>7, <2>8 DEF Clamp
<1>6. Wrapped(b.west) = b.west /\ Wrapped(b.east) = b.east
  BY <1>1, <1>2 DEF Wrapped
<1>7. Columns(b, n) = Span(lo, top)  BY <1>5, <1>6 DEF Columns, X1, X2
<1>8. Columns(b, n).min = lo /\ Columns(b, n).max = hi  BY <1>7 DEF Span
<1>9. QED
  <2> HIDE DEF lo, hi
  <2>1. QED  BY <1>4, <1>8 DEF X1, X2

LEMMA RowsWell ==
  ASSUME NEW b \in Box, Regular(b), NEW n \in Nat, n > 0, NEW y \in Int,
         NEW north, north = Clamp(b.north, 0, World), NEW south, south = Clamp(b.south, 0, World)
  PROVE  /\ north \in Int /\ south \in Int
         /\ Rows(b, n).min \in Int /\ Rows(b, n).max \in Int /\ Rows(b, n).min < Rows(b, n).max
         /\ n * north <= y * World /\ y * World + World <= n * south
              => Rows(b, n).min <= y /\ y < Rows(b, n).max
         /\ Rows(b, n).min <= y /\ y < Rows(b, n).max
              => y * World + World > n * north /\ y * World < n * south
<1> DEFINE Y1 == n * north
           Y2 == n * south
           lo == Y1 \div World
           hi == (Y2 + World - 1) \div World
<1>1. World \in Nat /\ World > 0  BY WorldFacts
<1>2. north \in Nat /\ south \in Nat /\ north < south /\ south <= World
  <2>1. b.north \in Int /\ b.south \in Int /\ b.north < b.south /\ b.north < World /\ b.south > 0  BY DEF Box, Regular
  <2>2. QED  BY <1>1, <2>1 DEF Clamp
<1>3. Y1 \in Int /\ Y2 \in Int /\ Y1 < Y2 /\ 0 <= Y1 /\ Y2 <= n * World /\ n * World \in Int
  BY <1>1, <1>2, Scaling
<1> HIDE DEF Y1, Y2
<1>4. lo \in Int /\ hi \in Int /\ lo < hi
      /\ (Y1 <= y * World /\ y * World + World <= Y2 => lo <= y /\ y < hi)
      /\ (lo <= y /\ y < hi => y * World + World > Y1 /\ y * World < Y2)
  BY <1>1, <1>3, FloorToCeiling
<1>5. 0 <= lo /\ hi <= n
  <2>1. lo \in Int /\ Y1 < lo * World + World  BY <1>1, <1>3, Whole
  <2>2. hi \in Int /\ hi * World <= Y2 + World - 1
    <3>1. Y2 + World - 1 \in Int  BY <1>1, <1>3
    <3>2. QED  BY <1>1, <3>1, Whole
  <2> HIDE DEF lo, hi
  <2>3. lo * World \in Int /\ hi * World \in Int /\ (lo + 1) * World = lo * World + World  BY <1>1, <2>1, <2>2, Ordered
  <2>4. 0 * World = 0  BY <1>1
  <2>5. 0 <= lo
    <3>1. lo + 1 \in Int  BY <2>1
    <3>2. lo + 1 <= 0 => (lo + 1) * World <= 0  BY <1>1, <2>4, <3>1, Ordered
    <3>3. lo * World + World > 0  BY <1>1, <1>3, <2>1, <2>3
    <3>4. QED  BY <1>1, <2>1, <2>3, <3>1, <3>2, <3>3
  <2>6. hi <= n
    <3>1. ~(n * World + World <= hi * World)  BY <1>1, <1>3, <2>2, <2>3
    <3>2. QED  BY <1>1, <2>2, <3>1, Ordered
  <2>7. QED  BY <2>5, <2>6
<1>6. Clamp(lo, 0, n - 1) = lo /\ Clamp(hi, 1, n) = hi  BY <1>4, <1>5 DEF Clamp
<1>7. Rows(b, n) = Span(lo, hi)  BY <1>6 DEF Rows, Y1, Y2
<1>8. Rows(b, n).min = lo /\ Rows(b, n).max = hi  BY <1>4, <1>7 DEF Span
<1>9. QED
  <2> HIDE DEF lo, hi
  <2>1. QED  BY <1>2, <1>4, <1>8 DEF Y1, Y2

(* What is inside a regular box is in its columns and rows, and what is in   *)
(* these is at least in part inside it.                                     *)
LEMMA BoxWell ==
  ASSUME NEW b \in Box, Regular(b), NEW layer, NEW z \in Nat, NEW x \in Int, NEW y \in Int,
         NEW t, t = [layer |-> layer, z |-> z, x |-> x, y |-> y]
  PROVE  /\ Covers(Scaled(b, z), Bounds(t)) => InBox(b, Exp2(z), x, y)
         /\ InBox(b, Exp2(z), x, y) => Intersects(Scaled(b, z), Bounds(t))
<1>1. PICK n \in Nat : n = Exp2(z) /\ n > 0  BY Exp2Type
<1> DEFINE north == Clamp(b.north, 0, World)
           south == Clamp(b.south, 0, World)
<1>2. World \in Nat /\ World > 0 /\ Half \in Nat  BY WorldFacts
<1>3. b.west \in Int /\ b.east \in Int  BY DEF Box
<1>4. /\ n * (b.west + Half) <= x * World /\ x * World + World <= n * (b.east + Half)
           => Columns(b, n).min <= x /\ x < Columns(b, n).max
      /\ Columns(b, n).min <= x /\ x < Columns(b, n).max
           => x * World + World > n * (b.west + Half) /\ x * World < n * (b.east + Half)
  BY <1>1, ColumnsWell
<1>5. /\ n * north <= y * World /\ y * World + World <= n * south
           => Rows(b, n).min <= y /\ y < Rows(b, n).max
      /\ Rows(b, n).min <= y /\ y < Rows(b, n).max
           => y * World + World > n * north /\ y * World < n * south
  BY <1>1, RowsWell
<1>6. n * (b.west + Half) = n * b.west + n * Half /\ n * (b.east + Half) = n * b.east + n * Half
      /\ n * b.west \in Int /\ n * b.east \in Int /\ n * Half \in Int
  BY <1>1, <1>2, <1>3, Scaling
<1>7. x * World \in Int /\ y * World \in Int /\ (x + 1) * World = x * World + World /\ (y + 1) * World = y * World + World
  BY <1>2, Ordered
<1>8. /\ Bounds(t).west = x * World - n * Half /\ Bounds(t).east = (x + 1) * World - n * Half
      /\ Bounds(t).north = y * World /\ Bounds(t).south = (y + 1) * World
  BY <1>1 DEF Bounds
<1>9. /\ Scaled(b, z).west = n * b.west /\ Scaled(b, z).east = n * b.east
      /\ Scaled(b, z).north = n * north /\ Scaled(b, z).south = n * south
  BY <1>1 DEF Scaled
<1> HIDE DEF north, south
<1>10. ASSUME Covers(Scaled(b, z), Bounds(t)) PROVE InBox(b, Exp2(z), x, y)
  <2>1. n * north <= y * World /\ (y + 1) * World <= n * south
        /\ n * b.west <= x * World - n * Half /\ (x + 1) * World - n * Half <= n * b.east
    BY <1>8, <1>9, <1>10 DEF Covers
  <2>2. n * (b.west + Half) <= x * World /\ x * World + World <= n * (b.east + Half)  BY <1>2, <1>6, <1>7, <2>1
  <2>3. QED  BY <1>1, <1>4, <1>5, <1>7, <2>1, <2>2 DEF InBox
<1>11. ASSUME InBox(b, Exp2(z), x, y) PROVE Intersects(Scaled(b, z), Bounds(t))
  <2>1. /\ x * World + World > n * (b.west + Half) /\ x * World < n * (b.east + Half)
        /\ y * World + World > n * north /\ y * World < n * south
    BY <1>1, <1>4, <1>5, <1>11 DEF InBox
  <2>2. (x + 1) * World - n * Half > n * b.west /\ x * World - n * Half < n * b.east  BY <1>2, <1>6, <1>7, <2>1
  <2>3. QED  BY <1>7, <1>8, <1>9, <2>1, <2>2 DEF Intersects
<1>12. QED  BY <1>10, <1>11

(* Numbers line by line, as FindTiles puts tiles into its list.             *)
LEMMA Grid ==
  ASSUME NEW wide \in Nat, wide > 0, NEW tall \in Nat
  PROVE  /\ wide * tall \in Nat
         /\ \A i \in 1 .. wide * tall :
              /\ (i - 1) % wide \in 0 .. wide - 1
              /\ (i - 1) \div wide \in 0 .. tall - 1
              /\ i = ((i - 1) \div wide) * wide + ((i - 1) % wide) + 1
         /\ \A u \in 0 .. wide - 1, v \in 0 .. tall - 1 :
              /\ v * wide + u + 1 \in 1 .. wide * tall
              /\ (v * wide + u + 1 - 1) % wide = u
              /\ (v * wide + u + 1 - 1) \div wide = v
<1>1. wide * tall \in Nat /\ wide * tall = tall * wide  OBVIOUS
<1>2. ASSUME NEW i \in 1 .. wide * tall
      PROVE  /\ (i - 1) % wide \in 0 .. wide - 1
             /\ (i - 1) \div wide \in 0 .. tall - 1
             /\ i = ((i - 1) \div wide) * wide + ((i - 1) % wide) + 1
  <2>1. i - 1 \in Nat /\ i - 1 < tall * wide  BY <1>1
  <2>2. PICK a \in Nat : a = i - 1  BY <2>1
  <2>3. a % wide \in 0 .. wide - 1 /\ a = (a \div wide) * wide + (a % wide) /\ a \div wide \in Int  OBVIOUS
  <2>4. (a \div wide) * wide <= a /\ a < (a \div wide) * wide + wide  BY Whole
  <2>5. a \div wide < tall
    <3>1. (a \div wide) * wide < tall * wide  BY <1>1, <2>1, <2>2, <2>3, <2>4
    <3>2. QED  BY <2>3, <3>1, Ordered
  <2>6. a \div wide >= 0  OBVIOUS
  <2>7. QED  BY <2>2, <2>3, <2>5, <2>6
<1>3. ASSUME NEW u \in 0 .. wide - 1, NEW v \in 0 .. tall - 1
      PROVE  /\ v * wide + u + 1 \in 1 .. wide * tall
             /\ (v * wide + u + 1 - 1) % wide = u
             /\ (v * wide + u + 1 - 1) \div wide = v
  <2>1. v * wide \in Nat /\ v * wide + wide <= tall * wide  BY Ordered
  <2>2. PICK a \in Nat : a = v * wide + u  BY <2>1
  <2>3. v * wide + u + 1 - 1 = a /\ a < v * wide + wide  BY <2>1, <2>2
  <2>4. a \div wide \in Int /\ (a \div wide) * wide <= a /\ a < (a \div wide) * wide + wide  BY Whole
  <2>5. a \div wide = v
    <3>1. PICK q \in Int : q = a \div wide  BY <2>4
    <3>2. q * wide \in Int /\ (q + 1) * wide = q * wide + wide /\ (v + 1) * wide = v * wide + wide  BY <3>1, Ordered
    <3>3. q * wide < (v + 1) * wide /\ v * wide < (q + 1) * wide  BY <2>1, <2>2, <2>3, <2>4, <3>1, <3>2
    <3>4. q < v + 1
      <4>1. v + 1 \in Int  OBVIOUS
      <4>2. QED  BY <3>1, <3>3, <4>1, Ordered
    <3>5. v < q + 1
      <4>1. q + 1 \in Int  OBVIOUS
      <4>2. QED  BY <3>3, <4>1, Ordered
    <3>6. QED  BY <3>1, <3>4, <3>5
  <2>6. a = (a \div wide) * wide + (a % wide) /\ a % wide \in 0 .. wide - 1  OBVIOUS
  <2>7. a % wide = u  BY <2>1, <2>2, <2>5, <2>6
  <2>8. v * wide + u + 1 \in 1 .. wide * tall  BY <1>1, <2>1
  <2>9. QED  BY <2>3, <2>5, <2>7, <2>8
<1>4. QED  BY <1>1, <1>2, <1>3

LEMMA ClampType == ASSUME NEW a \in Int, NEW low \in Int, NEW high \in Int PROVE Clamp(a, low, high) \in Int
BY DEF Clamp

(* What FindTiles finds are requests, whatever the box ...                  *)
LEMMA EdgesType ==
  ASSUME NEW b \in Box, NEW n \in Nat, n > 0
  PROVE  /\ Columns(b, n).min \in Int /\ Columns(b, n).max \in Int
         /\ Rows(b, n).min \in Int /\ Rows(b, n).max \in Int
<1>1. World \in Nat /\ World > 0 /\ Half \in Nat /\ Half > 0  BY WorldFacts, CommandsAssumption
<1>2. b.west \in Int /\ b.east \in Int /\ b.north \in Int /\ b.south \in Int  BY DEF Box
<1>4. \A low \in Int, high \in Int : Span(low, high).min \in Int /\ Span(low, high).max \in Int  BY DEF Span
<1>5. \A lon \in Int : Wrapped(lon) \in Int
  <2> TAKE lon \in Int
  <2>1. (lon - 1) % Half \in Int /\ (-lon - 1) % Half \in Int  BY <1>1
  <2>2. QED  BY <1>1, <2>1 DEF Wrapped
<1>6. PICK west \in Int, east \in Int : west = (n * (Wrapped(b.west) + Half)) \div World
                                       /\ east = (n * (Wrapped(b.east) + Half)) \div World
  <2>1. n * (Wrapped(b.west) + Half) \in Int /\ n * (Wrapped(b.east) + Half) \in Int
    <3>1. PICK w \in Int, e \in Int : w = Wrapped(b.west) /\ e = Wrapped(b.east)  BY <1>2, <1>5
    <3>2. QED  BY <1>1, <3>1
  <2>2. QED  BY <1>1, <2>1, Whole
<1>7. Columns(b, n) = Span(Clamp(west, 0, n), Clamp(east, 0, n))  BY <1>6 DEF Columns
<1>8. PICK north \in Int, south \in Int : north = (n * Clamp(b.north, 0, World)) \div World
                                         /\ south = (n * Clamp(b.south, 0, World) + World - 1) \div World
  <2>1. PICK c \in Int, d \in Int : c = Clamp(b.north, 0, World) /\ d = Clamp(b.south, 0, World)
    <3>1. 0 \in Int /\ World \in Int  BY <1>1
    <3>2. Clamp(b.north, 0, World) \in Int /\ Clamp(b.south, 0, World) \in Int  BY <1>2, <3>1, ClampType
    <3>3. QED  BY <3>2
  <2>2. n * c \in Int /\ n * d + World - 1 \in Int  BY <1>1
  <2>3. QED  BY <1>1, <2>1, <2>2, Whole
<1>9. Rows(b, n) = Span(Clamp(north, 0, n - 1), Clamp(south, 1, n))  BY <1>8 DEF Rows
<1>10. Clamp(west, 0, n) \in Int /\ Clamp(east, 0, n) \in Int /\ Clamp(north, 0, n - 1) \in Int /\ Clamp(south, 1, n) \in Int
  <2>1. n - 1 \in Int /\ 1 \in Int /\ 0 \in Int /\ n \in Int  OBVIOUS
  <2>2. QED  BY <2>1, ClampType
<1>11. QED  BY <1>4, <1>7, <1>9, <1>10

(* The requests found, line by line.                                        *)
Lines(layer, z, west, north, wide, count) ==
  [i \in 1 .. count |->
     IF wide < 0 THEN NoTile
     ELSE [layer |-> layer, z |-> z, x |-> west + ((i - 1) % wide), y |-> north + ((i - 1) \div wide)]]

FoundAt(b, layer, z, force, west, north, wide, tall) ==
  /\ west = Columns(b, Exp2(z)).min /\ west + wide = Columns(b, Exp2(z)).max
  /\ north = Rows(b, Exp2(z)).min /\ north + tall = Rows(b, Exp2(z)).max
  /\ \/ FindTiles(b, layer, z, force) = [ok |-> FALSE, tiles |-> <<>>]
     \/ /\ wide * tall >= 0
        /\ FindTiles(b, layer, z, force) = [ok |-> TRUE, tiles |-> Lines(layer, z, west, north, wide, wide * tall)]

LEMMA FindTilesIs ==
  ASSUME NEW b \in Box, NEW layer \in Str, NEW z \in Nat, NEW force
  PROVE  \E west, north, wide, tall \in Int : FoundAt(b, layer, z, force, west, north, wide, tall)
<1>1. PICK n \in Nat : n = Exp2(z) /\ n > 0  BY Exp2Type
<1>2. PICK west, north, right, below \in Int :
        west = Columns(b, n).min /\ north = Rows(b, n).min /\ right = Columns(b, n).max /\ below = Rows(b, n).max
  BY <1>1, EdgesType
<1>3. PICK wide, tall \in Int : wide = right - west /\ tall = below - north  OBVIOUS
<1>4. wide * tall \in Int  OBVIOUS
<1> DEFINE bad == z > MaxZoom \/ wide * tall < 0 \/ (wide * tall > TileLimit /\ ~force)
<1>5. FindTiles(b, layer, z, force) =
        IF bad THEN [ok |-> FALSE, tiles |-> <<>>]
        ELSE [ok |-> TRUE, tiles |-> Lines(layer, z, west, north, wide, wide * tall)]
  BY <1>1, <1>2, <1>3 DEF FindTiles, Lines
<1>6. ~bad => wide * tall >= 0  BY <1>4
<1> HIDE DEF bad
<1>7. west + wide = right /\ north + tall = below  BY <1>3
<1> WITNESS west \in Int, north \in Int, wide \in Int, tall \in Int
<1>8. QED  BY <1>1, <1>2, <1>5, <1>6, <1>7 DEF FoundAt

LEMMA FindTilesType ==
  ASSUME NEW b \in Box, NEW layer \in Str, NEW z \in Nat, NEW force
  PROVE  FindTiles(b, layer, z, force).tiles \in Seq(Job)
<1>1. PICK west, north, wide, tall \in Int : FoundAt(b, layer, z, force, west, north, wide, tall)
  BY FindTilesIs
<1>2. CASE FindTiles(b, layer, z, force) = [ok |-> FALSE, tiles |-> <<>>]  BY <1>2
<1>3. CASE wide * tall >= 0 /\ FindTiles(b, layer, z, force) = [ok |-> TRUE, tiles |-> Lines(layer, z, west, north, wide, wide * tall)]
  <2>1. PICK count \in Nat : count = wide * tall  BY <1>3
  <2>2. ASSUME NEW i \in 1 .. count PROVE Lines(layer, z, west, north, wide, count)[i] \in Job
    <3>1. NoTile \in Job
      <4>1. <<>> \in Str  BY DEF Str
      <4>2. QED  BY <4>1 DEF NoTile, Job
    <3>2. CASE wide < 0  BY <3>1, <3>2 DEF Lines
    <3>3. CASE ~(wide < 0)
      <4>1. wide # 0  BY <2>1
      <4>2. PICK w \in Nat : w = wide /\ w > 0  BY <3>3, <4>1
      <4>3. west + ((i - 1) % w) \in Int /\ north + ((i - 1) \div w) \in Int  BY <4>2
      <4>4. PICK x \in Int, y \in Int : x = west + ((i - 1) % w) /\ y = north + ((i - 1) \div w)
        <5> DEFINE xx == west + ((i - 1) % w)
                   yy == north + ((i - 1) \div w)
        <5>1. xx \in Int /\ yy \in Int  BY <4>3
        <5> HIDE DEF xx, yy
        <5>2. \E x \in Int, y \in Int : x = xx /\ y = yy  BY <5>1
        <5>3. QED  BY <5>2 DEF xx, yy
      <4>5. Lines(layer, z, west, north, wide, count)[i] = [layer |-> layer, z |-> z, x |-> x, y |-> y]
        BY <3>3, <4>2, <4>4 DEF Lines
      <4>6. z \in Int  OBVIOUS
      <4>7. QED  BY <4>5, <4>6 DEF Job
    <3>4. QED  BY <3>2, <3>3
  <2>3. Lines(layer, z, west, north, wide, count) = [i \in 1 .. count |-> Lines(layer, z, west, north, wide, count)[i]]
    BY DEF Lines
  <2>4. Lines(layer, z, west, north, wide, count) \in [1 .. count -> Job]  BY <2>2, <2>3
  <2>5. Lines(layer, z, west, north, wide, count) \in Seq(Job)  BY <2>4, SeqDef
  <2>6. QED  BY <1>3, <2>1, <2>5
<1>4. QED  BY <1>1, <1>2, <1>3 DEF FoundAt

(* ... and for a regular box each tile in it once and no other.             *)
OccursAt(tiles, tile) == {i \in DOMAIN tiles : tiles[i] = tile}

Once(b, z, zoom, x, y, tiles, tile) ==
  /\ ~(zoom = z /\ InBox(b, Exp2(z), x, y)) => OccursAt(tiles, tile) = {}
  /\ zoom = z /\ InBox(b, Exp2(z), x, y) => \E i \in DOMAIN tiles : OccursAt(tiles, tile) = {i}

LEMMA FindTilesOnce ==
  ASSUME NEW b \in Box, Regular(b), NEW layer \in Str, NEW z \in Nat, NEW force, FindTiles(b, layer, z, force).ok,
         NEW zoom, NEW x \in Int, NEW y \in Int,
         NEW tile, tile = [layer |-> layer, z |-> zoom, x |-> x, y |-> y],
         NEW tiles, tiles = FindTiles(b, layer, z, force).tiles
  PROVE  Once(b, z, zoom, x, y, tiles, tile)
<1> SUFFICES /\ ~(zoom = z /\ InBox(b, Exp2(z), x, y)) => OccursAt(tiles, tile) = {}
             /\ zoom = z /\ InBox(b, Exp2(z), x, y) => \E i \in DOMAIN tiles : OccursAt(tiles, tile) = {i}
  BY DEF Once
<1>1. PICK west, north, wide, tall \in Int : FoundAt(b, layer, z, force, west, north, wide, tall)
  BY FindTilesIs
<1>2. /\ west = Columns(b, Exp2(z)).min /\ west + wide = Columns(b, Exp2(z)).max
      /\ north = Rows(b, Exp2(z)).min /\ north + tall = Rows(b, Exp2(z)).max
      /\ tiles = Lines(layer, z, west, north, wide, wide * tall)
  BY <1>1 DEF FoundAt
<1>3. PICK n \in Nat : n = Exp2(z) /\ n > 0  BY Exp2Type
<1>4. Columns(b, n).min < Columns(b, n).max  BY <1>3, ColumnsWell
<1>5. Rows(b, n).min < Rows(b, n).max  BY <1>3, RowsWell
<1>6. wide > 0 /\ tall > 0  BY <1>2, <1>3, <1>4, <1>5
<1>7. PICK w \in Nat, t \in Nat : w = wide /\ t = tall /\ w > 0  BY <1>6
<1>8. tiles = [i \in 1 .. w * t |-> [layer |-> layer, z |-> z, x |-> west + ((i - 1) % w), y |-> north + ((i - 1) \div w)]]
  BY <1>2, <1>6, <1>7 DEF Lines
<1>9. InBox(b, Exp2(z), x, y) <=> west <= x /\ x < west + w /\ north <= y /\ y < north + t
  BY <1>2, <1>7 DEF InBox
<1>10. /\ \A i \in 1 .. w * t :
            /\ (i - 1) % w \in 0 .. w - 1
            /\ (i - 1) \div w \in 0 .. t - 1
            /\ i = ((i - 1) \div w) * w + ((i - 1) % w) + 1
       /\ \A u \in 0 .. w - 1, v \in 0 .. t - 1 :
            /\ v * w + u + 1 \in 1 .. w * t
            /\ (v * w + u + 1 - 1) % w = u
            /\ (v * w + u + 1 - 1) \div w = v
  BY <1>7, Grid
<1>11. ASSUME NEW i \in DOMAIN tiles, tiles[i] = tile
       PROVE  zoom = z /\ InBox(b, Exp2(z), x, y) /\ i = (y - north) * w + (x - west) + 1
  <2>1. i \in 1 .. w * t  BY <1>8, <1>11
  <2>2. PICK u \in 0 .. w - 1, v \in 0 .. t - 1 : u = (i - 1) % w /\ v = (i - 1) \div w /\ i = v * w + u + 1
    <3>1. PICK u, v : u = (i - 1) % w /\ v = (i - 1) \div w  OBVIOUS
    <3>2. \A j \in 1 .. w * t :
            (j - 1) % w \in 0 .. w - 1 /\ (j - 1) \div w \in 0 .. t - 1 /\ j = ((j - 1) \div w) * w + ((j - 1) % w) + 1
      BY <1>10
    <3>3. u \in 0 .. w - 1 /\ v \in 0 .. t - 1 /\ i = v * w + u + 1  BY <2>1, <3>1, <3>2, Zenon
    <3>4. QED  BY <3>1, <3>3, Zenon
  <2>3. tiles[i] = [layer |-> layer, z |-> z, x |-> west + u, y |-> north + v]  BY <1>8, <2>1, <2>2
  <2>4. zoom = z /\ x = west + u /\ y = north + v
    <3>1. tiles[i].z = z /\ tiles[i].x = west + u /\ tiles[i].y = north + v  BY <2>3
    <3>2. tile.z = zoom /\ tile.x = x /\ tile.y = y  OBVIOUS
    <3>3. QED  BY <1>11, <3>1, <3>2
  <2>5. u = x - west /\ v = y - north  BY <2>4
  <2>6. QED  BY <1>9, <2>2, <2>4, <2>5
<1>12. ASSUME zoom = z, InBox(b, Exp2(z), x, y) PROVE \E i \in DOMAIN tiles : tiles[i] = tile
  <2>1. PICK u \in 0 .. w - 1, v \in 0 .. t - 1 : u = x - west /\ v = y - north  BY <1>9, <1>12
  <2>2. PICK i \in 1 .. w * t : i = v * w + u + 1  BY <1>10
  <2>3. (i - 1) % w = u /\ (i - 1) \div w = v  BY <1>10, <2>2
  <2>4. tiles[i] = [layer |-> layer, z |-> z, x |-> west + u, y |-> north + v]  BY <1>8, <2>3
  <2>5. west + u = x /\ north + v = y  BY <2>1
  <2>6. i \in DOMAIN tiles  BY <1>8
  <2>7. QED  BY <1>12, <2>4, <2>5, <2>6
<1>13. ASSUME zoom = z, InBox(b, Exp2(z), x, y) PROVE \E i \in DOMAIN tiles : OccursAt(tiles, tile) = {i}
  <2>1. PICK i \in DOMAIN tiles : tiles[i] = tile  BY <1>12, <1>13
  <2>2. \A j \in DOMAIN tiles : tiles[j] = tile => j = i  BY <1>11, <2>1
  <2>3. QED  BY <2>1, <2>2 DEF OccursAt
<1>14. QED  BY <1>11, <1>13 DEF OccursAt

(* The requests of one zoom after another.                                  *)
Seeded(f, o, i) == IF i = 0 THEN [ok |-> TRUE, tiles |-> <<>>] ELSE AddZoom(o, f[i - 1], o.zooms[i])

Upto(o) ==
  CHOOSE f : f = [i \in 0 .. Len(o.zooms) |->
                    IF i = 0 THEN [ok |-> TRUE, tiles |-> <<>>] ELSE AddZoom(o, f[i - 1], o.zooms[i])]

LEMMA UptoExists ==
  ASSUME NEW o, Len(o.zooms) \in Nat
  PROVE  Upto(o) = [i \in 0 .. Len(o.zooms) |-> Seeded(Upto(o), o, i)]
<1> DEFINE Some(n) == \E f : f = [i \in 0 .. n |-> Seeded(f, o, i)]
           Good == {n \in Nat : Some(n)}
<1>1. 0 \in Good
  <2> DEFINE f == [i \in 0 .. 0 |-> [ok |-> TRUE, tiles |-> <<>>]]
  <2>1. f = [i \in 0 .. 0 |-> Seeded(f, o, i)]  BY DEF Seeded
  <2>2. QED  BY <2>1
<1>2. ASSUME NEW n \in Nat, n \in Good PROVE n + 1 \in Good
  <2>1. PICK f : f = [i \in 0 .. n |-> Seeded(f, o, i)]  BY <1>2, Zenon
  <2> DEFINE g == [i \in 0 .. n + 1 |-> IF i <= n THEN f[i] ELSE Seeded(f, o, i)]
  <2>2. \A i \in 0 .. n : g[i] = f[i] /\ f[i] = Seeded(f, o, i)
    <3>1. \A i \in 0 .. n : f[i] = Seeded(f, o, i)  BY <2>1, Zenon
    <3>2. QED  BY <3>1
  <2>3. g[n + 1] = Seeded(f, o, n + 1)  OBVIOUS
  <2>4. g = [i \in 0 .. n + 1 |-> g[i]]  OBVIOUS
  <2> HIDE DEF g
  <2>5. \A i \in 0 .. n + 1 : g[i] = Seeded(g, o, i)
    <3> TAKE i \in 0 .. n + 1
    <3>1. Seeded(f, o, i) = Seeded(g, o, i)
      <4>1. CASE i = 0  BY <4>1 DEF Seeded
      <4>2. CASE i # 0
        <5>1. i - 1 \in 0 .. n  BY <4>2
        <5>2. f[i - 1] = g[i - 1]  BY <2>2, <5>1
        <5>3. QED  BY <4>2, <5>2, Zenon DEF Seeded
      <4>3. QED  BY <4>1, <4>2
    <3>2. CASE i = n + 1  BY <2>3, <3>1, <3>2
    <3>3. CASE i # n + 1
      <4>1. i \in 0 .. n  BY <3>3
      <4>2. QED  BY <2>2, <3>1, <4>1
    <3>4. QED  BY <3>2, <3>3
  <2>6. g = [i \in 0 .. n + 1 |-> Seeded(g, o, i)]  BY <2>4, <2>5, Zenon
  <2>7. n + 1 \in Nat  OBVIOUS
  <2>8. QED  BY <2>6, <2>7, Zenon
<1>3. Len(o.zooms) \in Good
  <2> HIDE DEF Good
  <2>1. PICK n \in Nat : n = Len(o.zooms)  OBVIOUS
  <2>2. \A i \in 0 .. n - 1 : i \in Good => i + 1 \in Good  BY <1>2
  <2>3. \A i \in 0 .. n : i \in Good  BY <1>1, <2>2, UpTo
  <2>4. QED  BY <2>1, <2>3
<1>4. QED  BY <1>3 DEF Upto, Seeded

SeedOption == [layer : Str, zooms : Seq(Nat), bounds : Box, force : BOOLEAN, threads : Nat]

LEMMA UptoSteps ==
  ASSUME NEW o \in SeedOption
  PROVE  /\ Upto(o)[0] = [ok |-> TRUE, tiles |-> <<>>]
         /\ \A i \in 0 .. Len(o.zooms) - 1 : Upto(o)[i + 1] = AddZoom(o, Upto(o)[i], o.zooms[i + 1])
         /\ TilesToSeed(o) = Upto(o)[Len(o.zooms)]
<1> DEFINE f == Upto(o)
<1>1. Len(o.zooms) \in Nat  BY DEF SeedOption
<1>2. f = [i \in 0 .. Len(o.zooms) |-> Seeded(f, o, i)]  BY <1>1, UptoExists, Zenon
<1>3. TilesToSeed(o) = f[Len(o.zooms)]  BY DEF TilesToSeed, Upto
<1> HIDE DEF f
<1>4. \A i \in 0 .. Len(o.zooms) : f[i] = Seeded(f, o, i)  BY <1>2, Zenon
<1>5. f[0] = [ok |-> TRUE, tiles |-> <<>>]  BY <1>1, <1>4 DEF Seeded
<1>6. ASSUME NEW i \in 0 .. Len(o.zooms) - 1 PROVE f[i + 1] = AddZoom(o, f[i], o.zooms[i + 1])
  <2>1. PICK j \in 0 .. Len(o.zooms) : j = i + 1 /\ j # 0 /\ j - 1 = i  BY <1>1
  <2>2. f[j] = AddZoom(o, f[j - 1], o.zooms[j])  BY <1>4, <2>1, Zenon DEF Seeded
  <2>3. QED  BY <2>1, <2>2
<1>7. QED  BY <1>3, <1>5, <1>6 DEF f

LEMMA SeedTypes ==
  ASSUME NEW o \in SeedOption
  PROVE  \A i \in 0 .. Len(o.zooms) : Upto(o)[i].tiles \in Seq(Job)
<1> DEFINE Good == {i \in 0 .. Len(o.zooms) : Upto(o)[i].tiles \in Seq(Job)}
<1>1. PICK n \in Nat : n = Len(o.zooms)  BY DEF SeedOption
<1>2. 0 \in Good
  <2>1. <<>> \in Seq(Job)  OBVIOUS
  <2>2. Upto(o)[0] = [ok |-> TRUE, tiles |-> <<>>]  BY UptoSteps, Zenon
  <2>3. Upto(o)[0].tiles = <<>>  BY <2>2
  <2>4. Upto(o)[0].tiles \in Seq(Job)  BY <2>1, <2>3, Zenon
  <2>5. 0 \in 0 .. Len(o.zooms)  BY <1>1
  <2>6. QED  BY <2>4, <2>5
<1>3. ASSUME NEW i \in 0 .. n - 1, i \in Good PROVE i + 1 \in Good
  <2>1. Upto(o)[i + 1] = AddZoom(o, Upto(o)[i], o.zooms[i + 1])  BY <1>1, UptoSteps
  <2>2. o.zooms[i + 1] \in Nat /\ o.layer \in Str /\ o.bounds \in Box
    <3>1. o.zooms \in Seq(Nat) /\ o.layer \in Str /\ o.bounds \in Box  BY DEF SeedOption
    <3>2. i + 1 \in 1 .. Len(o.zooms)  BY <1>1
    <3>3. QED  BY <3>1, <3>2, ElementOfSeq
  <2>3. FindTiles(o.bounds, o.layer, o.zooms[i + 1], o.force).tiles \in Seq(Job)  BY <2>2, FindTilesType
  <2>4. Upto(o)[i].tiles \o FindTiles(o.bounds, o.layer, o.zooms[i + 1], o.force).tiles \in Seq(Job)
    BY <1>3, <2>3, ConcatProperties
  <2>5. Upto(o)[i + 1].tiles \in Seq(Job)  BY <2>1, <2>4 DEF AddZoom
  <2>6. QED  BY <1>1, <2>5
<1> HIDE DEF Good
<1>4. \A i \in 0 .. n : i \in Good  BY <1>2, <1>3, UpTo
<1>5. QED  BY <1>1, <1>4 DEF Good

(* Where a request occurs in a longer list.                                 *)
LEMMA OccursFinite ==
  ASSUME NEW S, NEW s \in Seq(S), NEW x
  PROVE  IsFiniteSet(OccursAt(s, x)) /\ Cardinality(OccursAt(s, x)) \in Nat
<1>1. PICK n \in Nat : n = Len(s) /\ DOMAIN s = 1 .. n  OBVIOUS
<1>2. IsFiniteSet(1 .. n)  BY FS_Interval
<1>3. OccursAt(s, x) \subseteq 1 .. n  BY <1>1 DEF OccursAt
<1>4. IsFiniteSet(OccursAt(s, x))  BY <1>2, <1>3, FS_Subset
<1>5. QED  BY <1>4, FS_CardinalityType

LEMMA OccursMore ==
  ASSUME NEW S, NEW s \in Seq(S), NEW t \in Seq(S), NEW x
  PROVE  /\ OccursAt(t, x) = {} => OccursAt(s \o t, x) = OccursAt(s, x)
         /\ \A i \in DOMAIN t : OccursAt(t, x) = {i} =>
              Cardinality(OccursAt(s \o t, x)) = Cardinality(OccursAt(s, x)) + 1
<1>1. PICK m \in Nat : m = Len(s) /\ DOMAIN s = 1 .. m  OBVIOUS
<1>2. PICK n \in Nat : n = Len(t) /\ DOMAIN t = 1 .. n  OBVIOUS
<1> DEFINE u == s \o t
<1>3. u \in Seq(S) /\ Len(u) = m + n /\ \A i \in 1 .. m + n : u[i] = IF i <= m THEN s[i] ELSE t[i - m]
  BY <1>1, <1>2, ConcatProperties
<1>4. DOMAIN u = 1 .. m + n  BY <1>3
<1> HIDE DEF u
<1>5. OccursAt(u, x) = OccursAt(s, x) \cup {i \in m + 1 .. m + n : t[i - m] = x}
  BY <1>1, <1>3, <1>4 DEF OccursAt
<1>6. ASSUME OccursAt(t, x) = {} PROVE OccursAt(u, x) = OccursAt(s, x)
  <2>1. \A i \in m + 1 .. m + n : i - m \in 1 .. n  OBVIOUS
  <2>2. \A i \in m + 1 .. m + n : t[i - m] # x  BY <1>2, <1>6, <2>1 DEF OccursAt
  <2>3. QED  BY <1>5, <2>2
<1>7. ASSUME NEW i \in DOMAIN t, OccursAt(t, x) = {i}
      PROVE  Cardinality(OccursAt(u, x)) = Cardinality(OccursAt(s, x)) + 1
  <2>1. i \in 1 .. n /\ m + i \in m + 1 .. m + n /\ m + i - m = i  BY <1>2
  <2>2. \A j \in m + 1 .. m + n : j - m \in 1 .. n  OBVIOUS
  <2>3. \A j \in m + 1 .. m + n : t[j - m] = x <=> j - m = i  BY <1>2, <1>7, <2>2 DEF OccursAt
  <2>4. \A j \in m + 1 .. m + n : j - m = i <=> j = m + i  BY <2>1
  <2>5. {j \in m + 1 .. m + n : t[j - m] = x} = {m + i}  BY <2>1, <2>3, <2>4
  <2>6. m + i \notin OccursAt(s, x)  BY <1>1, <2>1 DEF OccursAt
  <2>7. IsFiniteSet(OccursAt(s, x))  BY OccursFinite
  <2>8. OccursAt(u, x) = OccursAt(s, x) \cup {m + i}  BY <1>5, <2>5, Zenon
  <2>9. PICK set : set = OccursAt(s, x)  OBVIOUS
  <2>10. Cardinality(set \cup {m + i}) = Cardinality(set) + 1
    <3>1. m + i \notin set /\ IsFiniteSet(set)  BY <2>6, <2>7, <2>9
    <3>2. QED  BY <3>1, FS_AddElement
  <2>11. QED  BY <2>8, <2>9, <2>10
<1>8. QED  BY <1>6, <1>7 DEF u

(* Each tile of a regular box is in the list of seed as often as its zoom   *)
(* was asked for, and no other tile is.                                     *)
AskedTo(o, z, n) == {j \in 1 .. n : o.zooms[j] = z}

Fairly(o, z, x, y, tile, i) ==
  Upto(o)[i].ok =>
    Cardinality(OccursAt(Upto(o)[i].tiles, tile)) =
      IF InBox(o.bounds, Exp2(z), x, y) THEN Cardinality(AskedTo(o, z, i)) ELSE 0

LEMMA AskedToFinite ==
  ASSUME NEW o, NEW z, NEW n \in Nat
  PROVE  /\ IsFiniteSet(AskedTo(o, z, n)) /\ Cardinality(AskedTo(o, z, n)) \in Nat
         /\ Cardinality(AskedTo(o, z, n + 1)) = Cardinality(AskedTo(o, z, n)) + (IF o.zooms[n + 1] = z THEN 1 ELSE 0)
         /\ Cardinality(AskedTo(o, z, 0)) = 0
<1>1. IsFiniteSet(1 .. n)  BY FS_Interval
<1>2. AskedTo(o, z, n) \subseteq 1 .. n  BY DEF AskedTo
<1>3. IsFiniteSet(AskedTo(o, z, n))  BY <1>1, <1>2, FS_Subset
<1>4. Cardinality(AskedTo(o, z, n)) \in Nat  BY <1>3, FS_CardinalityType
<1>5. PICK set : set = AskedTo(o, z, n)  OBVIOUS
<1>6. n + 1 \notin set  BY <1>2, <1>5
<1>7. Cardinality(set \cup {n + 1}) = Cardinality(set) + 1
  <2>1. IsFiniteSet(set)  BY <1>3, <1>5
  <2>2. QED  BY <1>6, <2>1, FS_AddElement
<1>8. \A j : j \in 1 .. n + 1 <=> j \in 1 .. n \/ j = n + 1  OBVIOUS
<1>9. AskedTo(o, z, n + 1) = IF o.zooms[n + 1] = z THEN set \cup {n + 1} ELSE set
  BY <1>5, <1>8 DEF AskedTo
<1>10. Cardinality(AskedTo(o, z, n + 1)) = Cardinality(AskedTo(o, z, n)) + (IF o.zooms[n + 1] = z THEN 1 ELSE 0)
  BY <1>4, <1>5, <1>7, <1>9
<1>11. AskedTo(o, z, 0) = {}  BY DEF AskedTo
<1>12. QED  BY <1>3, <1>4, <1>10, <1>11, FS_EmptySet

LEMMA SeedFairly ==
  ASSUME NEW o \in SeedOption, Regular(o.bounds), NEW z \in Nat, NEW x \in Int, NEW y \in Int,
         NEW tile, tile = [layer |-> o.layer, z |-> z, x |-> x, y |-> y]
  PROVE  \A i \in 0 .. Len(o.zooms) : Fairly(o, z, x, y, tile, i)
<1> DEFINE Good == {i \in 0 .. Len(o.zooms) : Fairly(o, z, x, y, tile, i)}
<1>1. PICK n \in Nat : n = Len(o.zooms)  BY DEF SeedOption
<1>2. 0 \in Good
  <2>1. Upto(o)[0] = [ok |-> TRUE, tiles |-> <<>>]  BY UptoSteps, Zenon
  <2>2. Upto(o)[0].tiles = <<>>  BY <2>1
  <2>3. OccursAt(<<>>, tile) = {}  BY DEF OccursAt
  <2>4. Cardinality(OccursAt(Upto(o)[0].tiles, tile)) = 0  BY <2>2, <2>3, FS_EmptySet
  <2>5. Cardinality(AskedTo(o, z, 0)) = 0
    <3>1. 0 \in Nat  OBVIOUS
    <3>2. QED  BY <3>1, AskedToFinite
  <2>6. 0 \in 0 .. Len(o.zooms)  BY <1>1
  <2>7. QED  BY <2>4, <2>5, <2>6 DEF Fairly
<1>3. ASSUME NEW i \in 0 .. n - 1, i \in Good PROVE i + 1 \in Good
  <2>1. Upto(o)[i + 1] = AddZoom(o, Upto(o)[i], o.zooms[i + 1])  BY <1>1, UptoSteps
  <2>2. PICK zoom : zoom = o.zooms[i + 1]  OBVIOUS
  <2>3. zoom \in Nat /\ o.layer \in Str /\ o.bounds \in Box
    <3>1. o.zooms \in Seq(Nat) /\ o.layer \in Str /\ o.bounds \in Box  BY DEF SeedOption
    <3>2. i + 1 \in 1 .. Len(o.zooms)  BY <1>1
    <3>3. QED  BY <2>2, <3>1, <3>2, ElementOfSeq
  <2>4. PICK more : more = FindTiles(o.bounds, o.layer, zoom, o.force)  OBVIOUS
  <2>5. PICK before : before = Upto(o)[i].tiles  OBVIOUS
  <2>6. more.tiles \in Seq(Job)  BY <2>3, <2>4, FindTilesType
  <2>7. before \in Seq(Job)
    <3>1. i \in 0 .. Len(o.zooms)  BY <1>1
    <3>2. QED  BY <2>5, <3>1, SeedTypes
  <2>8. Upto(o)[i + 1].tiles = before \o more.tiles
    <3>1. AddZoom(o, Upto(o)[i], zoom).tiles = Upto(o)[i].tiles \o FindTiles(o.bounds, o.layer, zoom, o.force).tiles
      BY DEF AddZoom
    <3>2. QED  BY <2>1, <2>2, <2>4, <2>5, <3>1
  <2>9. Upto(o)[i + 1].ok => Upto(o)[i].ok /\ more.ok
    <3>1. AddZoom(o, Upto(o)[i], zoom).ok => Upto(o)[i].ok /\ FindTiles(o.bounds, o.layer, zoom, o.force).ok
      BY DEF AddZoom
    <3>2. QED  BY <2>1, <2>2, <2>4, <3>1
  <2>10. ASSUME Upto(o)[i + 1].ok
         PROVE  Cardinality(OccursAt(Upto(o)[i + 1].tiles, tile)) =
                  IF InBox(o.bounds, Exp2(z), x, y) THEN Cardinality(AskedTo(o, z, i + 1)) ELSE 0
    <3>1. Cardinality(OccursAt(before, tile)) =
            IF InBox(o.bounds, Exp2(z), x, y) THEN Cardinality(AskedTo(o, z, i)) ELSE 0
      BY <1>3, <2>5, <2>9, <2>10 DEF Fairly
    <3>2. more.ok  BY <2>9, <2>10
    <3>3. /\ ~(z = zoom /\ InBox(o.bounds, Exp2(zoom), x, y)) => OccursAt(more.tiles, tile) = {}
          /\ z = zoom /\ InBox(o.bounds, Exp2(zoom), x, y) => \E j \in DOMAIN more.tiles : OccursAt(more.tiles, tile) = {j}
      <4>1. Regular(o.bounds) /\ tile = [layer |-> o.layer, z |-> z, x |-> x, y |-> y]  OBVIOUS
      <4>2. PICK tiles : tiles = FindTiles(o.bounds, o.layer, zoom, o.force).tiles /\ tiles = more.tiles  BY <2>4
      <4>3. FindTiles(o.bounds, o.layer, zoom, o.force).ok  BY <2>4, <3>2
      <4>4. Once(o.bounds, zoom, z, x, y, tiles, tile)  BY <2>3, <4>1, <4>2, <4>3, FindTilesOnce
      <4>5. QED  BY <4>2, <4>4 DEF Once
    <3>4. /\ Cardinality(AskedTo(o, z, i + 1)) = Cardinality(AskedTo(o, z, i)) + (IF zoom = z THEN 1 ELSE 0)
          /\ Cardinality(AskedTo(o, z, i)) \in Nat
      <4>1. i \in Nat  OBVIOUS
      <4>2. QED  BY <2>2, <4>1, AskedToFinite
    <3>5. CASE z = zoom /\ InBox(o.bounds, Exp2(z), x, y)
      <4>1. PICK j \in DOMAIN more.tiles : OccursAt(more.tiles, tile) = {j}  BY <3>3, <3>5
      <4>2. Cardinality(OccursAt(before \o more.tiles, tile)) = Cardinality(OccursAt(before, tile)) + 1
        BY <2>6, <2>7, <4>1, OccursMore
      <4>3. QED  BY <2>8, <3>1, <3>4, <3>5, <4>2
    <3>6. CASE ~(z = zoom /\ InBox(o.bounds, Exp2(z), x, y))
      <4>1. OccursAt(more.tiles, tile) = {}  BY <3>3, <3>6
      <4>2. OccursAt(before \o more.tiles, tile) = OccursAt(before, tile)  BY <2>6, <2>7, <4>1, OccursMore
      <4>3. QED  BY <2>8, <3>1, <3>4, <3>6, <4>2
    <3>7. QED  BY <3>5, <3>6
  <2>11. i + 1 \in 0 .. Len(o.zooms)  BY <1>1
  <2>12. QED  BY <2>10, <2>11 DEF Fairly
<1> HIDE DEF Good
<1>4. \A i \in 0 .. n : i \in Good  BY <1>2, <1>3, UpTo
<1>5. QED  BY <1>1, <1>4 DEF Good

-----------------------------------------------------------------------------
(* Commands: the shares of the threads.                                     *)

Size == Len(jobs) \div Len(at)

ShareOf(t) == IF t = Len(at) THEN Len(jobs) - (t - 1) * Size ELSE Size

Place(t, k) == (t - 1) * Size + k

LEMMA Rising == ASSUME NEW a \in Int, NEW b \in Int, NEW w \in Nat, a <= b PROVE a * w <= b * w
OBVIOUS

LEMMA SizeIs ==
  ASSUME jobs \in Seq(Job), at \in Seq(Nat), Len(at) > 0
  PROVE  Size \in Nat /\ Len(at) * Size <= Len(jobs)
<1>1. PICK n \in Nat, m \in Nat : n = Len(at) /\ m = Len(jobs) /\ n > 0  OBVIOUS
<1>2. m \div n \in Nat /\ (m \div n) * n <= m
  <2>1. m \div n \in Int /\ (m \div n) * n <= m  BY <1>1, Whole
  <2>2. m \div n >= 0  BY <1>1
  <2>3. QED  BY <2>1, <2>2
<1>3. PICK size \in Nat : size = m \div n  BY <1>2
<1>4. n * size = size * n  BY <1>1
<1>5. QED  BY <1>1, <1>2, <1>3, <1>4 DEF Size

(* A share is a stretch of the list ...                                     *)
LEMMA ShareWell ==
  ASSUME jobs \in Seq(Job), at \in Seq(Nat), NEW t \in 1 .. Len(at)
  PROVE  /\ ShareOf(t) \in 0 .. Len(jobs)
         /\ Len(Chunk(t)) = ShareOf(t)
         /\ \A k \in 1 .. ShareOf(t) : Place(t, k) \in 1 .. Len(jobs) /\ Chunk(t)[k] = jobs[Place(t, k)]
<1>1. PICK n \in Nat, m \in Nat : n = Len(at) /\ m = Len(jobs) /\ n > 0  OBVIOUS
<1>2. PICK size \in Nat : size = Size /\ n * size <= m  BY <1>1, SizeIs
<1>3. PICK before \in Nat : before = (t - 1) * size  BY <1>2
<1>4. t * size = before + size  BY <1>2, <1>3
<1>5. t * size <= n * size  BY <1>1, <1>2, Rising
<1>6. n * size \in Nat  BY <1>1, <1>2
<1>7. before + size <= m  BY <1>1, <1>2, <1>4, <1>5, <1>6
<1>8. PICK last \in 0 .. m : last = IF t = n THEN m ELSE before + size
  BY <1>1, <1>2, <1>7
<1>9. before <= last  BY <1>2, <1>7, <1>8
<1>10. PICK first \in 1 .. m + 1 : first = before + 1  BY <1>3, <1>8, <1>9
<1>11. Chunk(t) = SubSeq(jobs, first, last)
  BY <1>1, <1>2, <1>3, <1>4, <1>8, <1>10 DEF Chunk, Size
<1>12. ShareOf(t) = last - before
  <2>1. CASE t = n
    <3>1. ShareOf(t) = m - before /\ last = m  BY <1>1, <1>2, <1>3, <1>8, <2>1 DEF ShareOf
    <3>2. QED  BY <3>1
  <2>2. CASE t # n
    <3>1. ShareOf(t) = size /\ last = before + size  BY <1>1, <1>2, <1>8, <2>2 DEF ShareOf
    <3>2. QED  BY <3>1
  <2>3. QED  BY <2>1, <2>2
<1>13. /\ Len(SubSeq(jobs, first, last)) = last - before
       /\ \A k \in 1 .. last - before : SubSeq(jobs, first, last)[k] = jobs[first + k - 1]
  <2>1. first \in 1 .. Len(jobs) + 1 /\ last \in first - 1 .. Len(jobs)  BY <1>1, <1>8, <1>9, <1>10
  <2>2. \A i \in first .. last : jobs[i] \in Job
    <3>1. \A i \in 1 .. Len(jobs) : jobs[i] \in Job  OBVIOUS
    <3>2. QED  BY <2>1, <3>1
  <2>3. PICK f \in Int, l \in Int : f = first /\ l = last  BY <2>1
  <2>4. \A i \in f .. l : jobs[i] \in Job  BY <2>2, <2>3
  <2>5. /\ Len(SubSeq(jobs, f, l)) = (IF f <= l THEN l - f + 1 ELSE 0)
        /\ \A k \in 1 .. l - f + 1 : SubSeq(jobs, f, l)[k] = jobs[f + k - 1]
    BY <2>4, SubSeqProperties
  <2>6. l - f + 1 = last - before  BY <1>8, <1>10, <2>3
  <2>7. (IF f <= l THEN l - f + 1 ELSE 0) = last - before  BY <1>3, <1>8, <1>9, <1>10, <2>3
  <2>8. QED  BY <2>3, <2>5, <2>6, <2>7
<1>14. ASSUME NEW k \in 1 .. last - before
       PROVE  Place(t, k) \in 1 .. Len(jobs) /\ Chunk(t)[k] = jobs[Place(t, k)]
  <2>1. Place(t, k) = before + k  BY <1>2, <1>3 DEF Place
  <2>2. first + k - 1 = before + k  BY <1>8, <1>10
  <2>3. SubSeq(jobs, first, last)[k] = jobs[before + k]  BY <1>13, <2>2
  <2>4. before + k \in 1 .. m  BY <1>8
  <2>5. QED  BY <1>1, <1>11, <2>1, <2>3, <2>4
<1>15. Len(Chunk(t)) = last - before  BY <1>11, <1>13
<1>16. last - before \in 0 .. Len(jobs)  BY <1>1, <1>3, <1>8, <1>9
<1>17. \A k \in 1 .. ShareOf(t) : Place(t, k) \in 1 .. Len(jobs) /\ Chunk(t)[k] = jobs[Place(t, k)]  BY <1>12, <1>14
<1>18. ShareOf(t) \in 0 .. Len(jobs) /\ Len(Chunk(t)) = ShareOf(t)  BY <1>12, <1>15, <1>16
<1>19. QED  BY <1>17, <1>18

(* ... no two overlap ...                                                   *)
LEMMA SharesApart ==
  ASSUME jobs \in Seq(Job), at \in Seq(Nat), NEW t \in 1 .. Len(at), NEW u \in 1 .. Len(at),
         NEW k \in 1 .. ShareOf(t), NEW l \in 1 .. ShareOf(u), Place(t, k) = Place(u, l)
  PROVE  t = u /\ k = l
<1>1. PICK n \in Nat, m \in Nat : n = Len(at) /\ m = Len(jobs) /\ n > 0  OBVIOUS
<1>2. PICK size \in Nat : size = Size  BY <1>1, SizeIs
<1>3. k \in Nat /\ l \in Nat /\ k > 0 /\ l > 0
  <2>1. ShareOf(t) \in Int /\ ShareOf(u) \in Int  BY ShareWell
  <2>2. QED  BY <2>1
<1>4. PICK a \in Int, b \in Int : a = (t - 1) * size /\ b = (u - 1) * size  BY <1>2
<1>5. a + k = b + l  BY <1>2, <1>4 DEF Place
<1>6. ASSUME t < u PROVE FALSE
  <2>1. k <= size
    <3>1. t # Len(at)  BY <1>6
    <3>2. ShareOf(t) = size  BY <1>2, <3>1 DEF ShareOf
    <3>3. QED  BY <1>2, <3>2
  <2>2. t * size <= (u - 1) * size  BY <1>2, <1>6, Rising
  <2>3. t * size = a + size  BY <1>2, <1>4
  <2>4. a + size <= b  BY <1>4, <2>2, <2>3
  <2>5. QED  BY <1>3, <1>5, <2>1, <2>4
<1>7. ASSUME u < t PROVE FALSE
  <2>1. l <= size
    <3>1. u # Len(at)  BY <1>7
    <3>2. ShareOf(u) = size  BY <1>2, <3>1 DEF ShareOf
    <3>3. QED  BY <1>2, <3>2
  <2>2. u * size <= (t - 1) * size  BY <1>2, <1>7, Rising
  <2>3. u * size = b + size  BY <1>2, <1>4
  <2>4. b + size <= a  BY <1>4, <2>2, <2>3
  <2>5. QED  BY <1>3, <1>5, <2>1, <2>4
<1>8. t = u  BY <1>6, <1>7
<1>9. a = b  BY <1>4, <1>8
<1>10. QED  BY <1>3, <1>5, <1>8, <1>9, <1>4

(* ... and all of the list is shared out.                                   *)
LEMMA SharesAll ==
  ASSUME jobs \in Seq(Job), at \in Seq(Nat), Len(at) > 0, NEW i \in 1 .. Len(jobs)
  PROVE  \E t \in 1 .. Len(at) : \E k \in 1 .. ShareOf(t) : i = Place(t, k)
<1>1. PICK n \in Nat, m \in Nat : n = Len(at) /\ m = Len(jobs) /\ n > 0  OBVIOUS
<1>2. PICK size \in Nat : size = Size /\ n * size <= m  BY <1>1, SizeIs
<1>3. PICK before \in Nat : before = (n - 1) * size  BY <1>1, <1>2
<1>4. CASE i > before
  <2>1. ShareOf(n) = m - before  BY <1>1, <1>2, <1>3 DEF ShareOf
  <2>2. i - before \in 1 .. ShareOf(n)  BY <1>1, <1>4, <2>1
  <2>3. i = Place(n, i - before)  BY <1>2, <1>3 DEF Place
  <2>4. n \in 1 .. Len(at)  BY <1>1
  <2>5. QED  BY <2>2, <2>3, <2>4
<1>5. CASE i <= before
  <2>1. size > 0
    <3>1. size = 0 => (n - 1) * size = 0  BY <1>1
    <3>2. QED  BY <1>2, <1>3, <1>5, <3>1
  <2>2. PICK q \in Int : q = (i - 1) \div size /\ q * size <= i - 1 /\ i - 1 < q * size + size
    <3>1. i - 1 \in Int  OBVIOUS
    <3>2. QED  BY <2>1, <3>1, Whole
  <2>3. q * size \in Int /\ (q + 1) * size = q * size + size  BY <1>2, <2>2
  <2>4. q >= 0
    <3>1. q + 1 \in Int  BY <2>2
    <3>2. q + 1 <= 0 => (q + 1) * size <= 0 * size  BY <1>2, <3>1, Rising
    <3>3. 0 * size = 0  BY <1>2
    <3>4. QED  BY <2>2, <2>3, <3>1, <3>2, <3>3
  <2>5. q < n - 1
    <3>1. n - 1 <= q => (n - 1) * size <= q * size
      <4>1. n - 1 \in Int  BY <1>1
      <4>2. QED  BY <1>2, <2>2, <4>1, Rising
    <3>2. q * size < before  BY <1>5, <2>2, <2>3
    <3>3. QED  BY <1>1, <1>3, <2>2, <2>3, <3>1, <3>2
  <2>6. PICK t \in 1 .. n : t = q + 1 /\ t # n  BY <1>1, <2>4, <2>5
  <2>7. ShareOf(t) = size  BY <1>1, <1>2, <2>6 DEF ShareOf
  <2>8. PICK k \in 1 .. size : k = i - q * size
    <3>1. PICK p \in Int : p = q * size  BY <2>3
    <3>2. i - p \in 1 .. size  BY <2>2, <3>1
    <3>3. QED  BY <3>1, <3>2
  <2>9. i = Place(t, k)
    <3>1. (t - 1) * size = q * size  BY <2>6
    <3>2. QED  BY <1>2, <2>3, <2>8, <3>1 DEF Place
  <2>10. QED  BY <1>1, <2>7, <2>9
<1>6. QED  BY <1>3, <1>4, <1>5

-----------------------------------------------------------------------------
(* Commands: once all threads are through, every tile of the list was asked *)
(* for as often as it is there.                                             *)

TimesAt(tile) == {p \in Thread \X DOMAIN jobs : p[2] <= at[p[1]] /\ Chunk(p[1])[p[2]] = tile}

AllThrough == \A t \in Thread : at[t] = Len(Chunk(t))

LEMMA TimesAtIs ==
  ASSUME jobs \in Seq(Job), at \in Seq(Nat), AllThrough, NEW tile,
         NEW p, p \in TimesAt(tile)
  PROVE  /\ p = <<p[1], p[2]>> /\ p[1] \in 1 .. Len(at) /\ p[2] \in 1 .. ShareOf(p[1])
         /\ Place(p[1], p[2]) \in OccursAt(jobs, tile)
<1>1. p \in Thread \X DOMAIN jobs /\ p[2] <= at[p[1]] /\ Chunk(p[1])[p[2]] = tile  BY DEF TimesAt
<1>2. p = <<p[1], p[2]>> /\ p[1] \in Thread /\ p[2] \in DOMAIN jobs  BY <1>1
<1>3. PICK t, k : t = p[1] /\ k = p[2]  OBVIOUS
<1>4. t \in 1 .. Len(at) /\ k \in 1 .. Len(jobs)  BY <1>2, <1>3 DEF Thread
<1>5. at[t] = Len(Chunk(t)) /\ Len(Chunk(t)) = ShareOf(t) /\ ShareOf(t) \in 0 .. Len(jobs)
  <2>1. at[t] = Len(Chunk(t))  BY <1>2, <1>3 DEF AllThrough
  <2>2. QED  BY <1>4, <2>1, ShareWell
<1>6. k \in 1 .. ShareOf(t)
  <2>1. k <= at[t]  BY <1>1, <1>3
  <2>2. QED  BY <1>4, <1>5, <2>1
<1>7. Place(t, k) \in 1 .. Len(jobs) /\ Chunk(t)[k] = jobs[Place(t, k)]  BY <1>4, <1>6, ShareWell
<1>8. jobs[Place(t, k)] = tile /\ DOMAIN jobs = 1 .. Len(jobs)  BY <1>1, <1>3, <1>7
<1>9. Place(t, k) \in OccursAt(jobs, tile)  BY <1>7, <1>8 DEF OccursAt
<1>10. QED  BY <1>2, <1>3, <1>4, <1>6, <1>9

LEMMA TimesAtAll ==
  ASSUME jobs \in Seq(Job), at \in Seq(Nat), Len(at) > 0, AllThrough, NEW tile,
         NEW i, i \in OccursAt(jobs, tile)
  PROVE  \E p \in TimesAt(tile) : i = Place(p[1], p[2])
<1>1. i \in 1 .. Len(jobs) /\ jobs[i] = tile /\ DOMAIN jobs = 1 .. Len(jobs)  BY DEF OccursAt
<1>2. PICK t \in 1 .. Len(at) : \E k \in 1 .. ShareOf(t) : i = Place(t, k)  BY <1>1, SharesAll
<1>3. PICK k \in 1 .. ShareOf(t) : i = Place(t, k)  BY <1>2
<1>4. Chunk(t)[k] = jobs[i] /\ Len(Chunk(t)) = ShareOf(t) /\ ShareOf(t) \in 0 .. Len(jobs)  BY <1>3, ShareWell
<1>5. t \in Thread /\ k \in DOMAIN jobs  BY <1>1, <1>4 DEF Thread
<1>6. k <= at[t]  BY <1>4, <1>5 DEF AllThrough
<1>7. <<t, k>> \in TimesAt(tile)  BY <1>1, <1>4, <1>5, <1>6 DEF TimesAt
<1>8. QED  BY <1>3, <1>7

LEMMA TimesIs ==
  ASSUME jobs \in Seq(Job), at \in Seq(Nat), Len(at) > 0, AllThrough, NEW tile
  PROVE  Times(tile) = Cardinality(OccursAt(jobs, tile))
<1>1. PICK S, T : S = TimesAt(tile) /\ T = OccursAt(jobs, tile)  OBVIOUS
<1>2. PICK F : F = [p \in S |-> Place(p[1], p[2])]  OBVIOUS
<1>3. \A p \in S : F[p] \in T
  <2>1. ASSUME NEW p \in S PROVE F[p] \in T
    <3>1. F[p] = Place(p[1], p[2])  BY <1>2
    <3>2. p \in TimesAt(tile)  BY <1>1
    <3>3. Place(p[1], p[2]) \in OccursAt(jobs, tile)  BY <3>2, TimesAtIs
    <3>4. QED  BY <1>1, <3>1, <3>3
  <2>2. QED  BY <2>1
<1>4. F \in [S -> T]  BY <1>2, <1>3
<1>5. \A p, q \in S : F[p] = F[q] => p = q
  <2>1. ASSUME NEW p \in S, NEW q \in S, F[p] = F[q] PROVE p = q
    <3>1. p \in TimesAt(tile) /\ q \in TimesAt(tile)  BY <1>1
    <3>2. p = <<p[1], p[2]>> /\ p[1] \in 1 .. Len(at) /\ p[2] \in 1 .. ShareOf(p[1])  BY <3>1, TimesAtIs
    <3>3. q = <<q[1], q[2]>> /\ q[1] \in 1 .. Len(at) /\ q[2] \in 1 .. ShareOf(q[1])  BY <3>1, TimesAtIs
    <3>4. Place(p[1], p[2]) = Place(q[1], q[2])  BY <1>2, <2>1
    <3>5. p[1] = q[1] /\ p[2] = q[2]  BY <3>2, <3>3, <3>4, SharesApart
    <3>6. QED  BY <3>2, <3>3, <3>5
  <2>2. QED  BY <2>1
<1>6. \A i \in T : \E p \in S : F[p] = i
  <2>1. ASSUME NEW i \in T PROVE \E p \in S : F[p] = i
    <3>1. i \in OccursAt(jobs, tile)  BY <1>1
    <3>2. PICK p \in TimesAt(tile) : i = Place(p[1], p[2])  BY <3>1, TimesAtAll
    <3>3. p \in S /\ F[p] = i  BY <1>1, <1>2, <3>2
    <3>4. QED  BY <3>3
  <2>2. QED  BY <2>1
<1>7. F \in Bijection(S, T)  BY <1>4, <1>5, <1>6, Fun_IsBij
<1>8. ExistsBijection(S, T)  BY <1>7 DEF ExistsBijection
<1>9. ExistsBijection(T, S)  BY <1>8, Fun_ExistsBijSymmetric
<1>10. IsFiniteSet(T)  BY <1>1, OccursFinite
<1>11. Cardinality(S) = Cardinality(T)  BY <1>9, <1>10, FS_Bijection
<1>12. Times(tile) = Cardinality(S)  BY <1>1, Zenon DEF Times, TimesAt
<1>13. QED  BY <1>1, <1>11, <1>12

(* With no thread at all nothing is asked for.                              *)
LEMMA TimesNone ==
  ASSUME at \in Seq(Nat), Len(at) = 0, NEW tile
  PROVE  Times(tile) = 0
<1>1. Thread = {}  BY DEF Thread
<1>2. TimesAt(tile) = {}  BY <1>1 DEF TimesAt
<1>3. Times(tile) = Cardinality(TimesAt(tile))  BY Zenon DEF Times, TimesAt
<1>4. QED  BY <1>2, <1>3, FS_EmptySet

(* The tiles of the list are asked for, whichever they are.                 *)
LEMMA TimesSome ==
  ASSUME jobs \in Seq(Job), at \in Seq(Nat), Len(at) > 0, AllThrough, NEW i \in DOMAIN jobs
  PROVE  Times(jobs[i]) > 0
<1>1. i \in OccursAt(jobs, jobs[i])  BY DEF OccursAt
<1>2. IsFiniteSet(OccursAt(jobs, jobs[i])) /\ Cardinality(OccursAt(jobs, jobs[i])) \in Nat  BY OccursFinite
<1>3. Cardinality(OccursAt(jobs, jobs[i])) # 0  BY <1>1, <1>2, FS_EmptySet
<1>4. Times(jobs[i]) = Cardinality(OccursAt(jobs, jobs[i]))  BY TimesIs
<1>5. QED  BY <1>2, <1>3, <1>4

-----------------------------------------------------------------------------
(* Commands: the invariant.  A run that started has its list from its       *)
(* options, no thread is past its share, and a status of zero is left by    *)
(* Finish alone, with nothing missing.                                      *)

SeedRun == opts \in SeedOptions /\ opts.threads > 0 /\ TilesToSeed(opts).ok /\ jobs = TilesToSeed(opts).tiles

Started ==
  /\ SeedRun \/ opts \in TestOptions
  /\ jobs \in Seq(Job) /\ at \in Seq(Nat)
  /\ Len(at) = Threads(opts.threads, jobs)
  /\ \A t \in Thread : at[t] = 0 \/ at[t] <= Len(Chunk(t))

CommandsInv ==
  /\ errCount \in Nat
  /\ stage # "exited" => exit = -1
  /\ stage \in {"seed", "test"} => Started
  /\ exit = 0 => Started /\ AllThrough /\ errCount = 0

LEMMA OptionsType ==
  /\ SeedOptions \subseteq SeedOption
  /\ TestOptions \subseteq [layers : Seq(Str), z : Int, x : Int, y : Int, threads : Nat]
BY CommandsAssumption DEF SeedOption

LEMMA TilesToSeedType == ASSUME NEW o \in SeedOptions PROVE TilesToSeed(o).tiles \in Seq(Job)
<1>1. o \in SeedOption  BY OptionsType
<1>2. Len(o.zooms) \in Nat  BY <1>1 DEF SeedOption
<1>3. Len(o.zooms) \in 0 .. Len(o.zooms)  BY <1>2
<1>4. Upto(o)[Len(o.zooms)].tiles \in Seq(Job)  BY <1>1, <1>3, SeedTypes
<1>5. QED  BY <1>1, <1>4, UptoSteps

LEMMA TilesToTestType ==
  ASSUME NamesType, NEW o \in TestOptions
  PROVE  TilesToTest(o) \in Seq(Job)
<1> DEFINE names == IF o.layers = <<>> THEN [i \in DOMAIN layers |-> layers[i].id] ELSE o.layers
<1>1. o.layers \in Seq(Str) /\ o.z \in Int /\ o.x \in Int /\ o.y \in Int  BY OptionsType
<1>2. names \in Seq(Str)
  <2>1. layers \in Config  BY DEF NamesType
  <2>2. Len(layers) \in Nat /\ DOMAIN layers = 1 .. Len(layers) /\ \A i \in DOMAIN layers : IsLayer(layers[i])
    BY <2>1, LayerNamesAssumption
  <2>3. \A i \in DOMAIN layers : layers[i].id \in Str  BY <2>2 DEF IsLayer
  <2>4. [i \in DOMAIN layers |-> layers[i].id] \in Seq(Str)  BY <2>2, <2>3
  <2>5. QED  BY <1>1, <2>4
<1>3. TilesToTest(o) = [i \in DOMAIN names |-> [layer |-> names[i], z |-> o.z, x |-> o.y, y |-> o.x]]
  BY Zenon DEF TilesToTest
<1> HIDE DEF names
<1>4. DOMAIN names = 1 .. Len(names) /\ Len(names) \in Nat /\ \A i \in DOMAIN names : names[i] \in Str  BY <1>2
<1>5. \A i \in 1 .. Len(names) : [layer |-> names[i], z |-> o.z, x |-> o.y, y |-> o.x] \in Job
  BY <1>1, <1>4 DEF Job
<1>6. [i \in 1 .. Len(names) |-> [layer |-> names[i], z |-> o.z, x |-> o.y, y |-> o.x]] \in Seq(Job)
  BY <1>4, <1>5
<1>7. QED  BY <1>3, <1>4, <1>6

LEMMA StartedByRun ==
  ASSUME NEW o, NEW tiles \in Seq(Job), o.threads \in Nat, jobs' = tiles,
         at' = [t \in 1 .. Threads(o.threads, tiles) |-> 0]
  PROVE  /\ jobs' \in Seq(Job) /\ at' \in Seq(Nat)
         /\ Len(at') = Threads(o.threads, tiles)
         /\ \A t \in Thread' : at'[t] = 0
<1>1. PICK n \in Nat : n = Threads(o.threads, tiles)  BY DEF Threads
<1>2. PICK f : f = [t \in 1 .. n |-> 0]  OBVIOUS
<1>3. f \in Seq(Nat) /\ Len(f) = n /\ DOMAIN f = 1 .. n /\ \A t \in 1 .. n : f[t] = 0
  <2>1. \A t \in 1 .. n : 0 \in Nat  OBVIOUS
  <2>2. [t \in 1 .. n |-> 0] \in Seq(Nat) /\ Len([t \in 1 .. n |-> 0]) = n  BY <2>1
  <2>3. QED  BY <1>2, <2>2
<1>4. at' = f  BY <1>1, <1>2, Zenon
<1>5. QED  BY <1>1, <1>3, <1>4 DEF Thread

LEMMA CommandsInvInit == CommandsInit => CommandsInv
BY DEF CommandsInit, CommandsInv

LEMMA CommandsInvSame == CommandsInv /\ UNCHANGED commandVars => CommandsInv'
BY DEF CommandsInv, Started, SeedRun, AllThrough, Thread, Chunk, commandVars

LEMMA CommandsInvSeed ==
  ASSUME CommandsInv, Built, NEW o \in SeedOptions, Seed(o)
  PROVE  CommandsInv'
<1>1. PICK ok, tiles : /\ ok <=> o.threads > 0 /\ FindsLayer(o.layer) /\ TilesToSeed(o).ok /\ Len(TilesToSeed(o).tiles) <= RequestLimit
                       /\ tiles = TilesToSeed(o).tiles
  OBVIOUS
<1>2. CASE ok
  <2>1. stage' = "seed" /\ opts' = o /\ jobs' = tiles /\ at' = [t \in 1 .. Threads(o.threads, tiles) |-> 0]
        /\ exit' = exit /\ errCount' = errCount
    BY <1>1, <1>2 DEF Seed, Run
  <2>2. tiles \in Seq(Job) /\ o.threads \in Nat  BY <1>1, TilesToSeedType, OptionsType DEF SeedOption
  <2>3. jobs' \in Seq(Job) /\ at' \in Seq(Nat) /\ Len(at') = Threads(o.threads, tiles) /\ \A t \in Thread' : at'[t] = 0
    BY <2>1, <2>2, StartedByRun
  <2>4. SeedRun'  BY <1>1, <1>2, <2>1 DEF SeedRun
  <2>5. Threads(opts.threads, jobs)' = Threads(o.threads, tiles)  BY <2>1 DEF Threads
  <2>6. Started'  BY <2>3, <2>4, <2>5 DEF Started
  <2>7. exit = -1  BY DEF Built, CommandsInv
  <2>8. QED  BY <2>1, <2>6, <2>7 DEF CommandsInv
<1>3. CASE ~ok
  <2>1. stage' = "exited" /\ exit' = 1 /\ errCount' = errCount  BY <1>1, <1>3 DEF Seed, Run
  <2>2. QED  BY <2>1 DEF CommandsInv
<1>4. QED  BY <1>2, <1>3

LEMMA CommandsInvTest ==
  ASSUME NamesType, CommandsInv, Built, NEW o \in TestOptions, Test(o)
  PROVE  CommandsInv'
<1>1. PICK tiles : tiles = TilesToTest(o)  OBVIOUS
<1>2. PICK ok : ok <=> (\A i \in DOMAIN tiles : InRange(tiles[i]) /\ FindsLayer(tiles[i].layer)) /\ Len(tiles) <= RequestLimit
  OBVIOUS
<1>3. CASE ok
  <2>1. stage' = "test" /\ opts' = o /\ jobs' = tiles /\ at' = [t \in 1 .. Threads(o.threads, tiles) |-> 0]
        /\ exit' = exit /\ errCount' = errCount
    BY <1>1, <1>2, <1>3 DEF Test, Run
  <2>2. tiles \in Seq(Job) /\ o.threads \in Nat  BY <1>1, TilesToTestType, OptionsType
  <2>3. jobs' \in Seq(Job) /\ at' \in Seq(Nat) /\ Len(at') = Threads(o.threads, tiles) /\ \A t \in Thread' : at'[t] = 0
    BY <2>1, <2>2, StartedByRun
  <2>4. opts' \in TestOptions  BY <2>1
  <2>5. Threads(opts.threads, jobs)' = Threads(o.threads, tiles)  BY <2>1 DEF Threads
  <2>6. Started'  BY <2>3, <2>4, <2>5 DEF Started
  <2>7. exit = -1  BY DEF Built, CommandsInv
  <2>8. QED  BY <2>1, <2>6, <2>7 DEF CommandsInv
<1>4. CASE ~ok
  <2>1. stage' = "exited" /\ exit' = 1 /\ errCount' = errCount  BY <1>1, <1>2, <1>4 DEF Test, Run
  <2>2. QED  BY <2>1 DEF CommandsInv
<1>5. QED  BY <1>3, <1>4

(* A thread that is done with a tile of its share is not past it.           *)
LEMMA StartedByTile ==
  ASSUME Started, NEW t \in Thread, Busy(t), at' = [at EXCEPT ![t] = @ + 1], jobs' = jobs, opts' = opts
  PROVE  Started'
<1>1. jobs \in Seq(Job) /\ at \in Seq(Nat) /\ t \in DOMAIN at  BY DEF Started, Thread
<1>2. at[t] \in Nat /\ DOMAIN at = 1 .. Len(at)  BY <1>1
<1>3. at' \in Seq(Nat) /\ Len(at') = Len(at) /\ DOMAIN at' = DOMAIN at /\ at'[t] = at[t] + 1
      /\ \A u \in DOMAIN at : u # t => at'[u] = at[u]
  BY <1>1, <1>2
<1>4. \A u : Chunk(u)' = Chunk(u)  BY <1>3 DEF Chunk
<1>5. Len(Chunk(t)) \in Nat
  <2>1. t \in 1 .. Len(at)  BY <1>1, <1>2
  <2>2. QED  BY <1>1, <2>1, ShareWell
<1>6. at'[t] <= Len(Chunk(t))
  <2>1. at[t] < Len(Chunk(t))  BY DEF Busy
  <2>2. QED  BY <1>2, <1>3, <1>5, <2>1
<1>7. \A u \in Thread' : at'[u] = 0 \/ at'[u] <= Len(Chunk(u)')
  <2>1. ASSUME NEW u \in DOMAIN at PROVE at'[u] = 0 \/ at'[u] <= Len(Chunk(u))
    BY <1>3, <1>6 DEF Started, Thread
  <2>2. QED  BY <1>3, <1>4, <2>1 DEF Thread
<1>8. (SeedRun \/ opts \in TestOptions)'  BY DEF Started, SeedRun
<1>9. Len(at') = Threads(opts.threads, jobs)'  BY <1>3 DEF Started, Threads
<1>10. QED  BY <1>1, <1>3, <1>7, <1>8, <1>9 DEF Started

LEMMA CommandsInvFinish ==
  ASSUME CommandsInv, Finish
  PROVE  CommandsInv'
<1>1. stage' = "exited" /\ exit' = ExitStatus /\ UNCHANGED <<opts, jobs, at, panicked, errCount>>
      /\ \A t \in Thread : ~Busy(t)
  BY DEF Finish
<1>2. Started /\ errCount \in Nat  BY DEF Finish, CommandsInv
<1>3. ASSUME exit' = 0 PROVE errCount = 0 /\ panicked = {}
  <2>1. ExitStatus = 0 /\ MaxExitCode \in 1 .. StatusWidth - 1 /\ StatusWidth \in Nat  BY <1>1, <1>3, CommandsAssumption
  <2>2. PICK n \in 0 .. MaxExitCode : n = IF errCount > MaxExitCode THEN MaxExitCode ELSE errCount  BY <1>2, <2>1
  <2>3. ExitStatus = IF panicked # {} THEN 1 ELSE (n % StatusWidth)  BY <2>2, Zenon DEF ExitStatus
  <2>4. panicked = {} /\ n % StatusWidth = 0
    <3>1. panicked # {} => ExitStatus = 1  BY <2>3, Zenon
    <3>2. panicked = {}  BY <2>1, <3>1
    <3>3. QED  BY <2>1, <2>3, <3>2
  <2>5. n = 0  BY <2>1, <2>4
  <2>6. QED  BY <1>2, <2>1, <2>2, <2>4, <2>5
<1>4. ASSUME panicked = {}, NEW t \in Thread PROVE at[t] = Len(Chunk(t))
  <2>1. jobs \in Seq(Job) /\ at \in Seq(Nat) /\ t \in 1 .. Len(at) /\ at[t] \in Nat  BY <1>2 DEF Started, Thread
  <2>2. Len(Chunk(t)) \in Nat  BY <2>1, ShareWell
  <2>3. at[t] = 0 \/ at[t] <= Len(Chunk(t))  BY <1>2 DEF Started
  <2>4. ~(at[t] < Len(Chunk(t)))  BY <1>1, <1>4 DEF Busy
  <2>5. QED  BY <2>1, <2>2, <2>3, <2>4
<1>5. exit' = 0 => AllThrough  BY <1>3, <1>4 DEF AllThrough
<1>6. Started' <=> Started  BY <1>1 DEF Started, SeedRun, Thread, Chunk
<1>7. AllThrough' <=> AllThrough  BY <1>1 DEF AllThrough, Thread, Chunk
<1>8. QED  BY <1>1, <1>2, <1>3, <1>5, <1>6, <1>7 DEF CommandsInv

LEMMA CommandsInvNext == NamesType /\ CommandsInv /\ [CommandsNext]_allVars => CommandsInv'
<1> SUFFICES ASSUME NamesType, CommandsInv, [CommandsNext]_allVars PROVE CommandsInv'
  OBVIOUS
<1>1. CASE stage = "idle" /\ Next /\ UNCHANGED commandVars  BY <1>1, CommandsInvSame
<1>2. CASE Built /\ \E o \in SeedOptions : Seed(o)  BY <1>2, CommandsInvSeed
<1>3. CASE Built /\ \E o \in TestOptions : Test(o)  BY <1>3, CommandsInvTest
<1>4. ASSUME NEW t \in Thread, SeedTile(t) \/ TestTile(t) PROVE CommandsInv'
  <2>1. /\ stage \in {"seed", "test"} /\ stage' = stage /\ exit' = exit
        /\ at' = [at EXCEPT ![t] = @ + 1] /\ jobs' = jobs /\ opts' = opts
        /\ errCount' \in {errCount, errCount + 1} /\ Busy(t)
    BY <1>4 DEF SeedTile, TestTile
  <2>2. Started /\ exit = -1 /\ errCount \in Nat  BY <2>1 DEF CommandsInv
  <2>3. Started'  BY <2>1, <2>2, StartedByTile
  <2>4. errCount' \in Nat  BY <2>1, <2>2
  <2>5. QED  BY <2>1, <2>2, <2>3, <2>4 DEF CommandsInv
<1>5. ASSUME NEW t \in Thread, SeedPanics(t) PROVE CommandsInv'
  <2>1. UNCHANGED <<stage, opts, jobs, at, errCount, exit>>  BY <1>5 DEF SeedPanics
  <2>2. QED  BY <2>1 DEF CommandsInv, Started, SeedRun, AllThrough, Thread, Chunk
<1>6. ASSUME NEW t \in Thread, TestPanics(t) PROVE CommandsInv'
  <2>1. stage' = "exited" /\ exit' = 2 /\ errCount' = errCount  BY <1>6 DEF TestPanics
  <2>2. QED  BY <2>1 DEF CommandsInv
<1>7. CASE Finish  BY <1>7, CommandsInvFinish
<1>8. CASE UNCHANGED allVars
  <2>1. UNCHANGED commandVars  BY <1>8 DEF allVars
  <2>2. QED  BY <2>1, CommandsInvSame
<1>9. QED  BY <1>1, <1>2, <1>3, <1>4, <1>5, <1>6, <1>7, <1>8 DEF CommandsNext

TileAsked(z, x, y) ==
  LET tile == [layer |-> opts.layer, z |-> z, x |-> x, y |-> y] IN
  /\ Times(tile) \in {0, Asked(z)}
  /\ Covers(Scaled(opts.bounds, z), Bounds(tile)) => Times(tile) = Asked(z)
  /\ Times(tile) > 0 => Intersects(Scaled(opts.bounds, z), Bounds(tile))

SeedAsked == Regular(opts.bounds) => \A z \in Range(opts.zooms) : \A x, y \in 0 .. Exp2(z) - 1 : TileAsked(z, x, y)
TestAsked == opts.threads > 0 => errCount = 0 /\ \A i \in DOMAIN jobs : Times(jobs[i]) > 0

LEMMA TimesOfTile ==
  ASSUME Started, SeedRun, AllThrough, NEW tile
  PROVE  Times(tile) = Cardinality(OccursAt(jobs, tile))
<1>1. jobs \in Seq(Job) /\ at \in Seq(Nat) /\ Len(at) = Threads(opts.threads, jobs)  BY DEF Started
<1>2. opts.threads \in Nat /\ opts.threads > 0
  <2>1. opts \in SeedOption /\ opts.threads > 0  BY OptionsType DEF SeedRun
  <2>2. QED  BY <2>1 DEF SeedOption
<1>3. CASE Len(at) > 0  BY <1>1, <1>3, TimesIs
<1>4. CASE ~(Len(at) > 0)
  <2>1. Len(at) = 0 /\ Len(jobs) = 0  BY <1>1, <1>2, <1>4 DEF Threads
  <2>2. DOMAIN jobs = {}  BY <1>1, <2>1
  <2>3. OccursAt(jobs, tile) = {}  BY <2>2 DEF OccursAt
  <2>4. Times(tile) = 0  BY <1>1, <2>1, TimesNone
  <2>5. QED  BY <2>3, <2>4, FS_EmptySet
<1>5. QED  BY <1>3, <1>4

LEMMA SeedIsDone ==
  ASSUME Started, SeedRun, AllThrough, Regular(opts.bounds),
         NEW z \in Nat, NEW x \in 0 .. Exp2(z) - 1, NEW y \in 0 .. Exp2(z) - 1
  PROVE  TileAsked(z, x, y)
<1>1. PICK o : o = opts  OBVIOUS
<1>2. o \in SeedOption /\ TilesToSeed(o).ok /\ jobs = TilesToSeed(o).tiles  BY <1>1, OptionsType DEF SeedRun
<1>3. PICK n \in Nat : n = Len(o.zooms) /\ DOMAIN o.zooms = 1 .. n  BY <1>2 DEF SeedOption
<1>4. o.layer \in Str /\ o.bounds \in Box  BY <1>2 DEF SeedOption
<1>5. PICK tile : tile = [layer |-> o.layer, z |-> z, x |-> x, y |-> y]  OBVIOUS
<1>6. x \in Int /\ y \in Int  BY Exp2Type
<1>7. Fairly(o, z, x, y, tile, n)
  <2>1. Regular(o.bounds)  BY <1>1
  <2>2. \A i \in 0 .. Len(o.zooms) : Fairly(o, z, x, y, tile, i)  BY <1>2, <1>5, <1>6, <2>1, SeedFairly
  <2>3. n \in 0 .. Len(o.zooms)  BY <1>3
  <2>4. QED  BY <2>2, <2>3
<1>8. TilesToSeed(o) = Upto(o)[n]  BY <1>2, <1>3, UptoSteps
<1>9. Times(tile) = IF InBox(o.bounds, Exp2(z), x, y) THEN Cardinality(AskedTo(o, z, n)) ELSE 0
  <2>1. Times(tile) = Cardinality(OccursAt(jobs, tile))  BY TimesOfTile
  <2>2. QED  BY <1>2, <1>7, <1>8, <2>1 DEF Fairly
<1>10. Asked(z) = Cardinality(AskedTo(o, z, n)) /\ Asked(z) \in Nat
  <2>1. Asked(z) = Cardinality(AskedTo(o, z, n))  BY <1>1, <1>3, Zenon DEF Asked, AskedTo
  <2>2. QED  BY <2>1, AskedToFinite
<1>11. (Covers(Scaled(o.bounds, z), Bounds(tile)) => InBox(o.bounds, Exp2(z), x, y))
       /\ (InBox(o.bounds, Exp2(z), x, y) => Intersects(Scaled(o.bounds, z), Bounds(tile)))
  <2>1. Regular(o.bounds)  BY <1>1
  <2>2. QED  BY <1>4, <1>5, <1>6, <2>1, BoxWell
<1>12. /\ Times(tile) \in {0, Asked(z)}
       /\ Covers(Scaled(o.bounds, z), Bounds(tile)) => Times(tile) = Asked(z)
       /\ Times(tile) > 0 => Intersects(Scaled(o.bounds, z), Bounds(tile))
  <2>1. PICK inside : inside <=> InBox(o.bounds, Exp2(z), x, y)  OBVIOUS
  <2>2. PICK times, asked : times = Times(tile) /\ asked = Asked(z)  OBVIOUS
  <2>3. times = (IF inside THEN asked ELSE 0) /\ asked \in Nat  BY <1>9, <1>10, <2>1, <2>2
  <2>4. times \in {0, asked} /\ (inside => times = asked) /\ (times > 0 => inside)  BY <2>3
  <2>5. QED  BY <1>11, <2>1, <2>2, <2>4
<1>13. QED  BY <1>1, <1>5, <1>12 DEF TileAsked

LEMMA TestIsDone ==
  ASSUME Started, opts \in TestOptions, AllThrough, errCount = 0
  PROVE  TestAsked
<1>1. SUFFICES ASSUME opts.threads > 0, NEW i \in DOMAIN jobs PROVE Times(jobs[i]) > 0
  BY DEF TestAsked
<1>2. jobs \in Seq(Job) /\ at \in Seq(Nat) /\ Len(at) = Threads(opts.threads, jobs)  BY DEF Started
<1>3. opts.threads \in Nat  BY OptionsType
<1>4. i \in 1 .. Len(jobs)  BY <1>1, <1>2
<1>5. Len(at) > 0  BY <1>1, <1>2, <1>3, <1>4 DEF Threads
<1>6. QED  BY <1>1, <1>2, <1>5, TimesSome

LEMMA RangeOfZooms ==
  ASSUME NEW o \in SeedOption, NEW z \in Range(o.zooms)
  PROVE  z \in Nat
<1>1. o.zooms \in Seq(Nat)  BY DEF SeedOption
<1>2. PICK i \in DOMAIN o.zooms : z = o.zooms[i]  BY Zenon DEF Range
<1>3. QED  BY <1>1, <1>2

LEMMA ZeroIsAll == CommandsInv => ZeroMeansAll
<1> SUFFICES ASSUME CommandsInv, exit = 0 PROVE ZeroMeansAll
  BY DEF ZeroMeansAll
<1>1. Started /\ AllThrough /\ errCount = 0  BY DEF CommandsInv
<1>2. ZeroMeansAll <=> CASE "zooms" \in DOMAIN opts -> SeedAsked [] OTHER -> TestAsked
  BY DEF ZeroMeansAll, SeedAsked, TestAsked, TileAsked
<1>3. CASE SeedRun
  <2>1. opts \in SeedOption  BY <1>3, OptionsType DEF SeedRun
  <2>2. "zooms" \in DOMAIN opts  BY <2>1 DEF SeedOption
  <2>3. SeedAsked
    <3>1. ASSUME Regular(opts.bounds), NEW z \in Range(opts.zooms), NEW x \in 0 .. Exp2(z) - 1, NEW y \in 0 .. Exp2(z) - 1
          PROVE  TileAsked(z, x, y)
      <4>1. z \in Nat  BY <2>1, RangeOfZooms
      <4>2. QED  BY <1>1, <1>3, <3>1, <4>1, SeedIsDone
    <3>2. QED  BY <3>1 DEF SeedAsked
  <2>4. QED  BY <1>2, <2>2, <2>3
<1>4. CASE opts \in TestOptions
  <2>1. "zooms" \notin DOMAIN opts  BY <1>4, OptionsType
  <2>2. TestAsked  BY <1>1, <1>4, TestIsDone
  <2>3. QED  BY <1>2, <2>1, <2>2
<1>5. QED  BY <1>1, <1>3, <1>4 DEF Started

(* A run that started has its tiles from its options and gives each thread  *)
(* its share of them, and a status of zero is left only when every share    *)
(* is done with, nothing failed and nothing panicked (entry/seed.go,        *)
(* entry/test.go).                                                          *)
THEOREM CommandsInvariance == CommandsSpec => []CommandsInv
<1>1. CommandsSpec => []NamesType  BY CommandsRefineLayerNames, NamesTypeInvariance, PTL
<1>2. QED  BY <1>1, CommandsInvInit, CommandsInvNext, PTL DEF CommandsSpec

(* An exit status of zero means that all was done, for every box, list of   *)
(* zooms and number of threads: the list has a tile as often as its zoom is *)
(* asked for exactly when the tile is in the box's columns and rows, which  *)
(* hold every tile inside the box and none outside of it, and the shares of *)
(* the threads neither overlap nor leave a tile out (tile_request.go,       *)
(* seed.go:119, cmd/test.go:72-79).                                         *)
THEOREM ZeroIsTrue == CommandsSpec => []ZeroMeansAll
<1>1. QED  BY CommandsInvariance, ZeroIsAll, PTL
================================================================================
