------------------------------- MODULE Commands --------------------------------
(***************************************************************************)
(* The seed and test commands (pkg/entry/seed.go and test.go, with         *)
(* src/cmd and tile_request.go): the tiles asked for are found, split over *)
(* threads and rendered, and the exit status says how it went.  A render   *)
(* succeeds, fails or panics: LayerNames and LayerRender say the rest.     *)
(*                                                                         *)
(* Longitudes count units from the meridian, Half of them to either side;  *)
(* latitudes are projected and count units from the north, 2 * Half down.  *)
(***************************************************************************)
EXTENDS LayerNames

CONSTANTS
  Half,           \* units in 180 degrees, an even number
  MaxZoom,        \* 21
  TileLimit,      \* 10000, of FindTiles and of seed's maxCount
  RequestLimit,   \* math.MaxUint16
  MaxExitCode,    \* 125
  StatusWidth,    \* 256: an exit status is a byte
  SeedOptions,    \* [layer, zooms, bounds, force, threads]
  TestOptions,    \* [layers, z, x, y, threads]
  CommandConfig   \* the configurations commands are run with (a bound)

Box == [west : Int, east : Int, north : Int, south : Int]
Job == [layer : Str, z : Int, x : Int, y : Int]

ASSUME CommandsAssumption ==
  /\ Half \in Nat /\ Half > 0
  /\ {MaxZoom, TileLimit, RequestLimit, StatusWidth} \subseteq Nat
  /\ MaxExitCode \in 1 .. StatusWidth - 1
  /\ SeedOptions \subseteq [layer : Str, zooms : Seq(Nat), bounds : Box, force : BOOLEAN, threads : Nat]
  /\ TestOptions \subseteq [layers : Seq(Str), z : Int, x : Int, y : Int, threads : Nat]

VARIABLES
  stage,     \* "idle", "seed", "test" or "exited"
  opts,      \* the command's options
  jobs,      \* tileRequests
  at,        \* [threads -> tiles of its chunk the thread is done with]
  panicked,  \* threads that panicked
  errCount,  \* tests that failed
  exit       \* the exit status, or -1

commandVars == <<stage, opts, jobs, at, panicked, errCount, exit>>
allVars == <<vars, commandVars>>

World == 2 * Half

-----------------------------------------------------------------------------
(* tile_request.go.                                                         *)

(* math.Exp2: tiles to a side. *)
Exp2(z) ==
  LET exp[k \in 0 .. z] == IF k = 0 THEN 1 ELSE 2 * exp[k - 1]
  IN exp[z]

(* GetBoundsProjection: tiles of a zoom are numbered from the northwest. *)
InRange(t) == t.z \in 0 .. MaxZoom /\ t.x \in 0 .. Exp2(t.z) - 1 /\ t.y \in 0 .. Exp2(t.z) - 1

(* In units times Exp2(z), so that they are whole. *)
Bounds(t) ==
  [west |-> t.x * World - Exp2(t.z) * Half, east |-> (t.x + 1) * World - Exp2(t.z) * Half,
   north |-> t.y * World, south |-> (t.y + 1) * World]

(* Half of the world too many is taken off as often as needed. *)
Wrapped(lon) ==
  CASE lon > Half  -> ((lon - 1) % Half) + 1
    [] lon < -Half -> -(((-lon - 1) % Half) + 1)
    [] OTHER -> lon

Clamp(n, low, high) == IF n < low THEN low ELSE IF n > high THEN high ELSE n

(* The columns and rows from min to before max, which is at least one of    *)
(* each, and none when the box is the wrong way around.                     *)
Span(min, max) == [min |-> min, max |-> IF min = max THEN min + 1 ELSE max]

Columns(b, n) ==
  Span(Clamp((n * (Wrapped(b.west) + Half)) \div World, 0, n),
       Clamp((n * (Wrapped(b.east) + Half)) \div World, 0, n))

(* The south edge is rounded up.  maxLat is within the outermost rows: a box *)
(* off the map has the row next to it.                                      *)
Rows(b, n) ==
  Span(Clamp((n * Clamp(b.north, 0, World)) \div World, 0, n - 1),
       Clamp((n * Clamp(b.south, 0, World) + World - 1) \div World, 1, n))

NoTile == [layer |-> <<>>, z |-> 0, x |-> 0, y |-> 0]

(* FindTiles: a count below zero is a huge one in an unsigned integer; one  *)
(* of two negative factors is a list that nothing is put in.                *)
FindTiles(b, layer, z, force) ==
  LET cols  == Columns(b, Exp2(z))
      rows  == Rows(b, Exp2(z))
      wide  == cols.max - cols.min
      count == wide * (rows.max - rows.min)
  IN IF z > MaxZoom \/ count < 0 \/ (count > TileLimit /\ ~force)
     THEN [ok |-> FALSE, tiles |-> <<>>]
     ELSE [ok |-> TRUE, tiles |-> [i \in 1 .. count |->
             IF wide < 0 THEN NoTile
             ELSE [layer |-> layer, z |-> z, x |-> cols.min + ((i - 1) % wide), y |-> rows.min + ((i - 1) \div wide)]]]

-----------------------------------------------------------------------------
(* The commands.                                                            *)

FindsLayer(str) == \E i \in DOMAIN layers : MatchesName(layers[i], str)

(* createTileRequests, zoom after zoom: the limit is on what was found      *)
(* before.                                                                  *)
AddZoom(o, acc, z) ==
  LET more == FindTiles(o.bounds, o.layer, z, o.force) IN
  [ok |-> acc.ok /\ more.ok /\ (Len(acc.tiles) <= TileLimit \/ o.force),
   tiles |-> acc.tiles \o more.tiles]

TilesToSeed(o) ==
  LET upto[i \in 0 .. Len(o.zooms)] ==
        IF i = 0 THEN [ok |-> TRUE, tiles |-> <<>>] ELSE AddZoom(o, upto[i - 1], o.zooms[i])
  IN upto[Len(o.zooms)]

(* src/cmd/test.go hands -x to y and -y to x. *)
TilesToTest(o) ==
  LET names == IF o.layers = <<>> THEN [i \in DOMAIN layers |-> layers[i].id] ELSE o.layers
  IN [i \in DOMAIN names |-> [layer |-> names[i], z |-> o.z, x |-> o.y, y |-> o.x]]

Thread == DOMAIN at

(* No more threads than tiles. *)
Threads(threads, tiles) == IF threads > Len(tiles) THEN Len(tiles) ELSE threads

(* Mutant of Chunk: equal shares only. *)
ChunkEqually(t) ==
  LET size == Len(jobs) \div Len(at) IN SubSeq(jobs, (t - 1) * size + 1, t * size)

(* reqSplit: equal shares, and the last takes the rest. *)
Chunk(t) ==
  LET size == Len(jobs) \div Len(at)
  IN SubSeq(jobs, (t - 1) * size + 1, IF t = Len(at) THEN Len(jobs) ELSE t * size)

CommandsInit ==
  /\ Init
  /\ stage = "idle" /\ opts = <<>> /\ jobs = <<>> /\ at = <<>>
  /\ panicked = {} /\ errCount = 0 /\ exit = -1

(* The entities were built. *)
Built == place = "accepted" /\ layers \in CommandConfig /\ stage = "idle"

Run(command, o, ok, tiles) ==
  /\ IF ok
     THEN /\ stage' = command
          /\ opts' = o
          /\ jobs' = tiles
          /\ at' = [t \in 1 .. Threads(o.threads, tiles) |-> 0]
          /\ UNCHANGED exit
     ELSE stage' = "exited" /\ exit' = 1 /\ UNCHANGED <<opts, jobs, at>>
  /\ UNCHANGED <<vars, panicked, errCount>>

Seed(o) ==
  LET asked == TilesToSeed(o)
  IN Run("seed", o, o.threads > 0 /\ FindsLayer(o.layer) /\ asked.ok /\ Len(asked.tiles) <= RequestLimit, asked.tiles)

Test(o) ==
  LET asked == TilesToTest(o)
  IN Run("test", o, (\A i \in DOMAIN asked : InRange(asked[i]) /\ FindsLayer(asked[i].layer)) /\ Len(asked) <= RequestLimit,
         asked)

Busy(t) == t \notin panicked /\ at[t] < Len(Chunk(t))

(* seedThread: an error is only printed, ... *)
SeedTile(t) ==
  /\ stage = "seed" /\ Busy(t)
  /\ at' = [at EXCEPT ![t] = @ + 1]
  /\ UNCHANGED <<vars, stage, opts, jobs, panicked, errCount, exit>>

(* ... a panic ends the thread and is reported. *)
SeedPanics(t) ==
  /\ stage = "seed" /\ Busy(t)
  /\ panicked' = panicked \cup {t}
  /\ UNCHANGED <<vars, stage, opts, jobs, at, errCount, exit>>

(* testTileRequests: it fails unless the tile is rendered, saved and found  *)
(* again ...                                                                *)
TestTile(t) ==
  /\ stage = "test" /\ Busy(t)
  /\ at' = [at EXCEPT ![t] = @ + 1]
  /\ errCount' \in {errCount, errCount + 1}
  /\ UNCHANGED <<vars, stage, opts, jobs, panicked, exit>>

(* ... and nothing recovers a panic. *)
TestPanics(t) ==
  /\ stage = "test" /\ Busy(t)
  /\ stage' = "exited" /\ exit' = 2
  /\ UNCHANGED <<vars, opts, jobs, at, panicked, errCount>>

ExitStatus ==
  IF panicked # {} THEN 1 ELSE (IF errCount > MaxExitCode THEN MaxExitCode ELSE errCount) % StatusWidth

(* wg.Wait returns. *)
Finish ==
  /\ stage \in {"seed", "test"}
  /\ \A t \in Thread : ~Busy(t)
  /\ stage' = "exited"
  /\ exit' = ExitStatus
  /\ UNCHANGED <<vars, opts, jobs, at, panicked, errCount>>

CommandsNext ==
  \/ stage = "idle" /\ Next /\ UNCHANGED commandVars
  \/ Built /\ \E o \in SeedOptions : Seed(o)
  \/ Built /\ \E o \in TestOptions : Test(o)
  \/ \E t \in Thread : SeedTile(t) \/ SeedPanics(t) \/ TestTile(t) \/ TestPanics(t)
  \/ Finish

CommandsSpec == CommandsInit /\ [][CommandsNext]_allVars

-----------------------------------------------------------------------------
(* Properties.                                                              *)

Times(tile) ==
  Cardinality({p \in Thread \X DOMAIN jobs : p[2] <= at[p[1]] /\ Chunk(p[1])[p[2]] = tile})

Asked(z) == Cardinality({i \in DOMAIN opts.zooms : opts.zooms[i] = z})

(* A box of some area, the right way around, on the map and within the      *)
(* world's longitudes.                                                      *)
Regular(b) ==
  /\ -Half <= b.west /\ b.west < b.east /\ b.east <= Half
  /\ b.north < b.south /\ b.north < World /\ b.south > 0

(* Latitudes off the map are its edge. *)
Scaled(b, z) ==
  [west |-> Exp2(z) * b.west, east |-> Exp2(z) * b.east,
   north |-> Exp2(z) * Clamp(b.north, 0, World), south |-> Exp2(z) * Clamp(b.south, 0, World)]

Intersects(b, c) == c.north < b.south /\ c.south > b.north /\ c.east > b.west /\ c.west < b.east
Covers(b, c)  == b.north <= c.north /\ b.west <= c.west /\ b.south >= c.south /\ b.east >= c.east

(* An exit status of zero says that all was done.  After a seed, every tile *)
(* inside the bounds was asked for as often as its zoom was, and no tile    *)
(* more often or out of them (seed.go:119: "with no error the command exits *)
(* 0 and a partial seed looks like a complete one"); after a test with a    *)
(* thread at least, every layer's tile was rendered and none failed, 256    *)
(* failures included (cmd/test.go:72-79).                                   *)
ZeroMeansAll ==
  exit = 0 =>
    CASE "zooms" \in DOMAIN opts ->
           Regular(opts.bounds) =>
             \A z \in Range(opts.zooms) : \A x, y \in 0 .. Exp2(z) - 1 :
               LET tile == [layer |-> opts.layer, z |-> z, x |-> x, y |-> y] IN
               /\ Times(tile) \in {0, Asked(z)}
               /\ Covers(Scaled(opts.bounds, z), Bounds(tile)) => Times(tile) = Asked(z)
               /\ Times(tile) > 0 => Intersects(Scaled(opts.bounds, z), Bounds(tile))
      [] OTHER -> opts.threads > 0 => errCount = 0 /\ \A i \in DOMAIN jobs : Times(jobs[i]) > 0
=============================================================================
