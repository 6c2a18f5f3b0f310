# A verification project for tilegroxy

tilegroxy is a map tile proxy: it authenticates a tile request, looks the tile
up in a cache, renders it with a layer's provider on a miss, and reports the
request to analytics. Its configuration can be reloaded while it serves. The
modules beside this file model its core: what runs concurrently, what fails
half way, and the algorithms whose inputs come from outside. TLC checks them on
small instances, and TLAPS proves the most important results for every size.
Paths below are relative to the repository root (`src/` in `PROJECT.json`).

## 1. Inventory

| Component | State | Operations | Hard behaviour | Correct when |
|---|---|---|---|---|
| Entity generations (`internal/server/generation.go`, `tile_handler.go`) | pointer of the handler; per generation reference count, closing, closed, done; registry | acquire, release, markClosing and its timer, closeNow, add, remove, closeAll | three kinds of goroutine may find that they should close; handlers outlive their connection | never closed under a request, closed once, drained before shutdown moves on, released in the end |
| Hot reload and health's life (`server.go`, `pkg/entry/serve.go`) | health stop and drain functions, mutex, draining flag, listener, tickers | reload callback, healthReloader, SetupHealth, drain, stop | reloads run concurrently with each other and with shutdown; each step may fail | one owner of the port, no lost instance, serving entities stay open |
| Configuration watching (`pkg/config/config.go`, `cmd/serve.go`) | time of the last load | one goroutine per change event | events in bursts, a file half written, reloads out of order | the newest configuration is read, and served in the end |
| Shutdown (`shutdown.go`) | shared deadline, current phase | drain, server, health, generations, otel, logs | a phase may use up the budget | ends; later phases see what earlier ones left |
| Entities (`pkg/entry/utility.go`, `pkg/entities/entities.go`) | what was constructed and is open | configToEntities, Close | a part fails after others were built; a second Close; an overrun | all is released but what pending writes need |
| Analytics batcher (`pkg/entities/analytics/batch.go`) | channel, worker buffers, closeMutex, closed, done | Add, work, doFlush, Close | blocked producer against a waiting writer, hung flush, deadline | accepted events are settled once, nobody hangs past a context |
| Tile handler and errors (`tile_handler.go`, `error.go`) | none of its own | ServeHTTP, writeError | an error of each kind, answers with and without a tile | only what the token allows is served and counted |
| Request authentication (`internal/authentications`) | caches of results, keyset, locks | Initialize, CheckAuthentication | stale entries, key rotation, requests of one token, a script that panics | a replayed result is a fresh one, none outlives its token, locks come back |
| Layer rendering (`pkg/entities/layer`) | provider context, authentication mutex, cache write limiter | RenderTile, getProviderContext, forceReauth, writeCache, Close | shared credentials expire under concurrent requests; background writes | a retry goes out with a newer credential, slots are given back, nobody waits for a request that failed |
| Layer names, references, URL templates (`layer.go`, `layergroup.go`, `ref.go`, `internal/providers/utility.go`) | the request's layer, matches and depth of refs | parsePattern, match, validateRefs, FindLayer, Ref.GenerateTile, replacement of placeholders | ambiguous patterns, cycles, values that look like placeholders | the layer's values are the name's, refs end, the URL is its template filled |
| Fan-out providers (`blend.go`, `composite_mvt.go`, `fallback.go`, `crop.go`, `effect.go`, `transform.go`) | results per child, wait group, channels | PreAuth, GenerateTile | a child that fails, panics or sends nothing; any order | whole tiles, nothing cached that must not be, the parent returns |
| Single-source providers (`internal/providers`) | a client or a script | Initialize, GenerateTile | what a reply may be | an outcome of one of six kinds |
| Caches (`internal/caches`) | stored tiles | Lookup, Save; `multi` over several | key collisions, lifetimes, torn files, partial failure | a hit is what was saved for that tile and lives for a while |
| Health checks (`health.go`, `internal/checks`) | stored results, tickers | start, run, status, ready | checks that hang, panic or stop | ready only after checks that passed lately |
| Seed and test commands (`pkg/entry`, `cmd`) | tile list, threads, exit status | find, split, render | boundary sizes, a byte of exit status | zero means that all was done |
| Datastores, secrets, analytics writers, other commands, logging | connections, formatting | one call each | I/O | outside of the models, or one step in them |

Interactions: a change of the file reaches the watcher, whose goroutine reads it
and calls the reload callback; that builds a set of entities and calls the
combined reload function, which swaps the handler's pointer and rebuilds health.
A handler takes a reference on the generation it read, authenticates, finds the
layer by its name, renders through the layer group (cache, provider,
credentials), and records an event in the batcher of the same generation. A
provider may nest others or refer to other layers. Closing a generation closes
its layers, authentication, batchers, caches and datastores. Shutdown drains
health, stops the HTTP server, stops health, and closes every registered
generation, under one deadline. The commands use the same layer group without a
server.

The hazards of this code, each with its line and the properties that cover it,
are listed under `hazards` in `PROJECT.json`.

## 2. Modules

| Module | Models | Used by |
|---|---|---|
| `EntityLifetime` | the abstract promise of hot reload about the entities of a generation | refined by `Generations` |
| `Generations` | `generation.go`, the handler's pointer, the request side of shutdown | `MCGenerations`, `GenerationsProofs` |
| `HotReload` | the reload callback, health among reloads, the shutdown phases | `ConfigWatch` |
| `ConfigWatch` | the watcher of the configuration file, in front of `HotReload` | `MCConfigWatch`, `HotReloadProofs` |
| `EventLog` | the abstract promise of a batcher about events | refined by `Batcher` |
| `Batcher` | `pkg/entities/analytics/batch.go` | `Entities`, `EntitiesProofs` |
| `Entities` | construction and close of a generation around its `Batcher` | `MCEntities`, `EntitiesProofs` |
| `Authentication` | `internal/authentications` | `TileHandler` |
| `TileHandler` | ServeHTTP from the token to the answer, over `Authentication` | `MCTileHandler`, `TileHandlerProofs` |
| `LayerRender` | `RenderTile` with the shared provider context, `multi` and the background write | `MCLayerRender`, `LayerRenderProofs` |
| `Upstream` | what providers that nest no other may return | `FanOut` |
| `FanOut` | nesting providers over `Upstream`, with the layer's context and mutex | `MCFanOut`, `FanOutProofs` |
| `Placeholders` | the URL of a template | `LayerNames` |
| `LayerNames` | patterns, validators, refs and their limits | `Commands`, `MCLayerNames`, `CommandsProofs` |
| `Commands` | the seed and test commands over `LayerNames` | `MCCommands`, `CommandsProofs` |
| `TileCache` | the kinds of caches and `multi` | `Health` |
| `Health` | health checks and the endpoint over `TileCache` | `MCHealth`, `HealthProofs` |
| `*Proofs` | the theorems of section 5 | |

An operator whose comment begins "Mutant of" is a faulty form of the definition
next to it. No specification uses one: substituted for that definition it makes
the property named in `PROJECT.json` fail, which shows that the property depends
on the code.

### Generations

One generation is one element of `Gen`; its `refs`, `closing`, `closed` and
`done` are the fields of the Go struct, and `closes` counts calls of
`Entities.Close`. A goroutine is an element of `Req` (a handler), of `Gen` (the
timer `markClosing` starts for it) or `Shutdown`, with a place `pc` and the
generation it is about in `hold`. What the code does under `generation.mu`,
under the registry's mutex or under the handler's write lock is one action;
`ReadPointer` and `Acquire` are the two halves of the handler's read lock, and
`RequestSwap` is a writer that waits and so keeps new readers out. `closeNow` is
five actions (`CloseNow`, `CloseReturns`, `OnClosed`, `WaitReturns`,
`ReturnFromClose`), because two goroutines may be in it at once.
`TimeoutFires` is `http.TimeoutHandler` answering while the handler goes on: the
connection leaves `conn`, the reference stays. The timer fires after the reference
was taken, never while the handler still waits for the lock: its minimum of
seconds against a lock that is held for a pointer's assignment is an assumption
about time, the only one in this module.

### HotReload and ConfigWatch

A reload is named by the generation it builds and walks through
`Build, SwapHandler, LockHealth, TearDown, SetupCheckRoutines,
SetupHealthEndpoints, RecordHealth`. It may end early: `Build` may fail,
`SwapHandler` is the last for a configuration without health, and
`SetupHealthEndpoints` may fail to bind, after which `RecordHealth` still records
the pointers. From the bind on the endpoint serves, for the length of the startup
wait, before `RecordHealth` looks at the draining flag. `TearDown` (the old
listener's connections) and `SetupHealthEndpoints` (the first run of each check)
come after calls without a deadline, made under the health mutex, and may never
come. `health` is the pair of function pointers,
`bound`, `ticking` and `drained` say what runs of each health instance. Shutdown
reads the pointers, sets `draining`, drains, stops, and closes the generations
it copied. When a retired generation closes is `Generations`' subject; here it
may be at any time. The setup fails only in binding the port: the checks are
built by a pure function of a configuration that built once already.

`ConfigWatch` puts the watcher in front. `file` is the version on disk, `torn`
that it is being written (a read then is no configuration), `notice` that an
event is on its way: events that arrive together are one. One unit of `now` is
the second of both the filter (`lastLoad`) and the sleep (`due`). `ReadConfig`
is the goroutine waking up, perhaps late; `Callback` does nothing before
`Start`, when the reload function is set.

### Batcher and Entities

An event is the call of `Add` that records it. `add`, `work`, `seal` and
`close` are the places of producers, workers, the goroutine that seals and the
callers of `Close`. The channel and the buffers are sets, because no property
depends on their order. `Enter` is the read lock of `closeMutex`, refused while
`CallLock` waits, as `sync.RWMutex` does. `FlushReturns` is the writer behind the
batcher, which may succeed, fail or never return. `Pools` are the sets of workers
that a configuration may start; the others are "off". A partial batch may be found
old at any tick. The branch of `Add` that waits for `done` is left out: it cannot
be taken, which the theorem `NoSendAfterSeal` shows.

`Entities` runs `configToEntities` as `Construct`, one part at a time, each of
which may fail and leave open what was built (`held`). `Entities.Close` is two
actions around the batcher's own Close: `CloseServing` closes layers and
authentication and calls it, `CloseRest` goes on when the analytics module's
Close returned. The error it looks at joins the batcher's with that of a script's
close hook, which may fail behind a batcher that drained; after an error the
analytics and the datastores stay open. Two calls may overlap.

### Authentication and TileHandler

A token is the record of what checks read of it; whether a signature verifies
is whether the signing key is the one looked up. `cache` holds what jwt and
custom remember, `keyset` what the JWKS cache holds while the issuer's
`published` set changes. custom's steps are separate (`LockKey`, the check of
the cache under the lock, the script, its result or panic, the unlock), because
requests of one token, or of tokens that hash to one lock, meet there.
`TileHandler` goes on with parsing, permission by layer and area, the render
(which succeeds, fails in a way the answer tells apart, panics or never returns),
the answer `writeError` gives each kind of error, and the usage event. What is
answered without a look at the token (`AnswerOpenly`) rests in a place of its
own, "open".

### LayerRender

A request goes through `Start` (layer and permission), `Lookup`,
`UseContext` or `BeginAuth` (the two branches under `authMutex`), `AuthSucceeds`
or `AuthFails`, `Rendered`, `ForceReauth` and `Save`. A credential is the number
of the `PreAuth` call that returned it, `fresh` that its expiration lies ahead.
`bad` in `Lookup` is the set of tiers whose lookup fails; as in `Multi.Lookup`
a hit behind a failing tier carries that tier's error, which fails the request.
`writes` holds the background writes, at most `Slots` of them; `WriteTier`
writes one tier or fails to and goes on. Assumed of providers: each successful
`PreAuth` returns a credential of its own, and one that fails returns no context
that is still to expire. A provider may set `AuthBypass`; from then on the code
never authenticates again, so `RetryIsNewer` exempts that case.

### Upstream and FanOut

`Upstream` says of each kind of leaf provider what its construction refuses and
which outcomes one call may have: an image, an image not to be cached, an error,
an error next to an image, neither, or a panic; `GetTile` derives them from the
reply. `FanOut` takes a nesting provider of any kind over every choice of
children through construction, `PreAuth` under the layer's mutex, `GenerateTile`
of concurrent requests, and Close. A channel holds as many messages as there
are children, so a child calls and sends in one step, in any order with the
others. An image is the sequence of children it is made of; a static child
returns one shared image, whose mark "do not cache" is therefore shared too.

### Placeholders, LayerNames and Commands

Names, patterns and templates are sequences of characters, because the
properties about them are that what came out is what went in. `LayerNames`
parses and matches patterns, checks validators and refs of a configuration
(`ConstructLayerGroup`), and follows one chain of refs from layer to layer. A
layer's tree of providers is the set of those that nest no other, each with a
mark whether it is nested, because that is all that the search for refs and the
rendering depend on; `RefCycle` is what the depth-first search finds, a set of
IDs each of which refers to one of them. Only the alternatives of a regular
expression are kept: they are what its anchors miss.

`Placeholders` numbers the parameters of a template and replaces them in one
scan. A value may hold any character, also "$" and digits; the ones that are
escaped are characters of their own. `Commands` reads the options, finds the
tiles of a box, splits them over threads that each succeed, fail or panic at a
tile, and exits. Coordinates are whole units of which a tile of each zoom has a
whole number, and latitudes are projected before. The outermost rows begin at
`maxLat`, which lies a little inside them; the model therefore gives a box off the
map the row next to it. (`maxLat` is written with four digits, and at the
deepest zooms it misses the outermost rows; the model has exact numbers.)

### TileCache and Health

A tier is a map from keys to entries with an end of life; what makes the kinds
differ is how a key is made of a tile (`KeyOf`), how a TTL becomes a lifetime,
and that a file is written in two steps and is torn after a crash or under a
second writer. (A read is one step: one that overlaps a write, and sees the old
beginning with the new rest, is left out.) A client's call goes from tier to tier
as `multi` does, and a hit behind a tier that failed carries that tier's error, on
which the cache check fails. `Health`
makes each check a client of the cache with its own ticker; a run may hang, fail
or panic, its result is stored with its time, and the endpoint answers from what
is stored. The endpoint reads the results one by one; the model takes them at
one instant.

## 3. Runs

| Run | Instance | Distinct states | Shows |
|---|---|---|---|
| `generations` | 3 generations, 1 request | 323,000 | a generation is never closed under a request, is drained before shutdown moves on and released in the end; shutdown ends; refinement of `EntityLifetime` |
| `config_watch` | 3 generations, 3 edits, 3 seconds, the last without health or with | 691,000 | health has one owner and no stray instance, no endpoint stays ready once draining is set, reloads and shutdown end unless a call under the health mutex hangs, the newest configuration is read |
| `entities` | 3 events, 1 or 2 workers, 2 Closes (one bounded), queue 1, batch 2, both modes | 288,000 | events are conserved and settled, `Add` and bounded `Close` return although a flush hangs, Close releases what it may; refinement of `EventLog` |
| `layer_render` | 2 requests, 1 tile, 2 tiers, 1 slot, 3 successful `PreAuth` | 45,000 | the retry uses a newer credential, slots come back, requests return |
| `requests` | 2 requests, 2 tokens, 11 settings, 2 ticks | 337,000 | grants are the token's own, only what they allow is served and only tiles may be cached, none outlives its token, locks come back |
| `fan_out` | 2 requests, 5 kinds over 2 children of 3 kinds, 2 ticks | 537,000 | tiles are whole, nothing is cached that must not be, the layer's context is reused only while no child's has expired, requests return unless a collector is stranded |
| `names_and_commands` | 2 and 3 layers, names of 1 to 3 letters; boxes on and off the map up to zoom 2, 0 to 5 threads | 809,000 | a name is its layer's pattern filled, the URL is its template filled, refs end, a zero exit status means that all was done |
| `caches` | each kind alone and in two tiers, 2 clients, or 1 or 2 checks | 4,599,000 | a hit is whole and the tile's own, an entry lives for a while, ready is earned |
| four violation runs | an instance that shows it | | section 7 |

Why these bounds are enough for the interesting cases:

- Three generations give two reloads that overlap, two timers and shutdown at
  once. One request moves between them; with the proof for any number of
  requests a second one need not be in the run.
- Three edits over three seconds give one that is filtered, one that is torn and
  two that are accepted a second apart, whose reloads race for the mutex.
- Three events over a queue of one and two workers fill a batch, leave one over
  and let a producer wait for room. With one worker, the code's default, one
  event is in a flush that hangs, one fills the queue and the third's producer is
  parked, holding the read lock that both Closes wait for: the case `AddReturns`
  and `CloseReturns` are about.
- Two requests share a credential or a token; three successful `PreAuth` allow a
  first, a renewal by one and a renewal by the other. One slot is both free and
  full; two tiers give an order. One lock shared by two tokens is the pooled case.
- Two children come in either order, and either can be the one that fails.
- Names of up to three letters over two letters split at every place a pattern
  allows, and two values look like parameters. Eleven placeholders are what it
  takes for "$1" to be the beginning of "$10".
- Boxes lie on and off the borders of tiles, and some on and off the map; a zoom
  is asked for twice, beyond the deepest one, or none is; five threads are more
  than there are tiles in some boxes. Failures go past the width of an
  exit status.

The bounds in the specifications are `Gen` (one reload per generation), `Edits`,
`MaxClock`, `MaxTime` and a setup's `until` (the clock stops), `Event` (one `Add`
per event), `MaxToken` (calls of `PreAuth` that may succeed; later ones can only
fail), `CommandConfig` (configurations commands run with) and `hops`, which stops
one beyond the code's own `MaxRefDepth`. In `MCCommands` a `TileLimit` of 12, a
`RequestLimit` of 15 and a `StatusWidth` of 2 stand for 10000, 65535 and 256, so
that they are reached. Everything else is bounded by the code.

Deadlock is checked in `generations`, `entities`, `layer_render` and `requests`:
`Exited`, `Quiet` and their like are stuttering steps enabled only where the
program has nothing left to do, so any other state without a step would be
reported. In the other passing runs the clock reaches its bound, requests finish
or a command exits, and the behaviour really stops.

## 4. Fairness

Fairness is weak and given to single actions: goroutines the scheduler can run,
timers, and contexts with a deadline. What is outside of the program's control
is never fair: no request, reload, edit, signal or call of `Add` or `Close` need
come.

- `Generations`: timers fire, the shutdown deadline passes, and a closer goes on
  once its call returned. Neither a handler nor `Entities.Close` need return: a
  retired generation is closed under a context without a deadline, and a flush or
  a pool's Close may wait for ever. `RetiredIsReleased` has both as its
  antecedent; `ShutdownEnds` only that the closes shutdown calls itself return,
  not the handlers and not the closes that timers or handlers began.
- `ConfigWatch` (`WatchFairness`): the goroutines of reloads go on once they are
  awake (`OwnReloadStep`) and so do the shutdown phases (`OwnShutdownStep`). The
  old listener's shutdown, the checks' first runs and the close of entities need
  not return. `HealthReturns`, that no call under the health mutex hangs, is an
  antecedent of `ReloadEnds` and `ShutdownFinishes`, next to the return of the
  closes each of them waits for. The clock need not advance.
- `Batcher` and `Entities`: request contexts end (the server's timeout handler),
  as do those of bounded `Close` calls. A flush may hang for ever; where a property
  needs it to return, `FlushesReturn` is the antecedent. A script's close hook
  (`CloseRest`) may hang as well; `CloseReturns` is about the batcher's Close.
- `TileHandler`: the handler's own steps (`OwnStep`) and the fetch of a keyset,
  which has a time limit. The script and the render may hang; `ScriptReturns` and
  `RendersReturn` are the antecedents of `EveryoneAnswered`.
- `LayerRender`: the provider and the background writes need never return
  (`ProviderReturns` is the antecedent of `RequestsReturn`).
- `FanOut`: a request proceeds, and a child's call ends in one of its outcomes;
  a call to the outside that hangs for ever is not among them, so that what is
  left to hang is the collecting of results.

Taking a mutex is strongly fair (`LockKey`; `AuthStep` and `ForceReauth` in
`LayerRender`; `Proceed` in `FanOut`), since others may take it in between:
`sync.Mutex` hands the lock to a goroutine that has waited for more than a
millisecond. `names_and_commands` and `caches` check no liveness and assume no
fairness.

## 5. Proofs

The theorems hold for every value of the constants that satisfies the named
assumption of the module (distinct names, finite sets of requests or events,
positive sizes).

**GenerationsProofs.** `GenerationsInv` is inductive. `NoCloseInUse` is not by
itself: that nobody takes a reference on a generation between a closer's check
and its `closeNow` needs `ClosersSeeIdle` (whoever decided to close saw the
count at zero on a generation that is closing, or shutdown with no request left
to begin), `AcquireOpen` (a reader's generation is still the serving one),
`ReloadOrder` (a generation is replaced once and marked closing once) and
`RefsCountUsers`. `DrainedAtExit` needs `PassedIsDrained` and `CloseProgress`.
`LifetimeRefinement` shows with them that each step is a step or a stutter of
`EntityLifetime`.

**EntitiesProofs.** First the batcher alone. `BatcherInv` adds `DrainOrder` to
the properties: workers drain only after the seal, and one that exits leaves
neither channel nor buffer filled. With `SendersSeeOpen` it gives `CloseDrains`;
with `Conserved` it gives the refinement of `EventLog`. `EntInv` is `BatcherInv`
with what relates the two levels: `DatastoresOpen` (once all is built the
datastores are closed only by a call whose analytics Close had no error, and then
`CloseDrains` leaves nothing to write), `ServingClosed` (layers and
authentication are closed in every call that has begun), `CalledAnalytics` (a
call that is past analytics had the batcher's answer) and `BuiltOrNew` (nobody closes what
is not built). From it follow `PendingCanBeWritten` and `CloseReleases`, the latter
whichever of the joined errors a call met. A batcher
step keeps `BatcherInv` by the lemmas about the batcher alone.

**LayerRenderProofs.** `RetryIsNewer` needs `ForcedIsNewer`: from the moment a
request discarded the context, neither the context in place, if it is fresh,
nor one being fetched is as old as the one it saw rejected. That in turn needs
`PreAuthExcludes` (the lock is held for the whole of `PreAuth`), `PreAuthNeeded`
and `PreAuthIsNewer`, from which `ContextMovesOn` follows too. `SlotsAreWrites`
is inductive with the types.

**HotReloadProofs.** `WatchedReloads` shows that the watcher adds no step
`HotReload` does not have: a read that fails is a build that fails, and the rest
of the watcher's steps leave the reloads alone. So what holds of any reloads holds
of the watched ones. `NoStrayHealth` is not inductive alone; `ReloadInv` adds
`HoldsMutex` (the mutex is held exactly from `LockHealth` to `RecordHealth`),
`PointersCleared` (while it is held the pointers name no instance), `UpAfterBind`
(an endpoint that is bound is in its startup wait or past it) and `SnapInstalled`. From these
`OnlyOwnRuns`: past the teardown nothing runs but what the reload set up itself,
and nothing is bound before its own bind, hence `PortIsFree`. `NoneStaysReady`
follows because a bind begins a startup wait, and the wait of an instance ends
only with the look at the draining flag.

`NewestIsRead` is about the watcher itself, and `WatchInv` is what it needs of the
clock and of the goroutines that sleep: the last goroutine started wakes up one
second after the event that was accepted last (`LastSleeper`), nobody reads
before waking up (`SleepersRead`), and as soon as a goroutine was started, a
version nobody read yet is known to somebody: an event is on its way, the file
is still being written, a goroutine has still to read, or the newest is read
(`NewestIsKnown`). An event within the second after the last one is dropped
while that goroutine sleeps, and it reads what the event was about.

**TileHandlerProofs.** `HandlerInv` says for each request whose steps brought it
where it is (`OnItsWay`), that its grant is the token's until the usage event
(`GrantKept`), that what was answered was asked for and permitted
(`AnswerPermitted`) and that an answer without a tile is marked against caching
or a bare 499 (`Marked`); for the caches that a remembered result is what validation
would grant (`Remembered`); and for custom's locks that whoever is between lock
and unlock holds them (`LockHeld`), which gives `OneValidation`.
`AuthenticationAssumption` and `TileHandlerAssumption` only say what tokens,
offers, locks and asks are.

**FanOutProofs.** `FanInv` follows a request from place to place: `OnItsWay` (it
enters each with the messages of the one before cleared), `Arrived` (the images
collected are those of the children that sent one, which gives `WholeTile` once
all are good), `WishesKept` (a wish not to cache is in the image from the child
to the cache; it needs that marks on a shared static image are never taken back,
so that a step of one request cannot undo it for another) and `ContextsAgree`
(the layer's context ends no later than any child's, by the least element of a
set of times, from `WFMin` of the library, which gives `ReusedIsFresh`). What `Upstream` says of the
outcomes is used only in that a static child never asks not to be cached.

**HealthProofs.** `CacheInv` says that an entry is stored under its own tile's key
(`EntryOK`) and that a save under way writes its own tile's image (`SaveOK`);
`KeysSeparate` then gives `HitIsOwn`, from the assumption that a name determines
its safe form. `TTLIsALifetime` gives `LivesForAWhile`, which needs that only
files are written in two steps. `Earned` ties a stored result that says ok to the
last pass, which gives `ReadyIsEarned`. `TileCacheAssumption` bounds the clock and
the TTLs by the number that stands for "for ever"; a TTL is unsigned in the code.

**CommandsProofs.** About `LayerNames` first. `CommandsRefineLayerNames` lifts what
is proved there to the commands. `ChainInv` gives `ChainsOfIDsEnd`: it keeps the
IDs a request came by as a path of refs, and a path of more steps than there are
layers comes to an ID twice (the pigeonhole principle), so that the IDs between
are a set `RefCycle` would have found. `NamesInv` says that the layer found
matches the name and the context holds the match's values; that such values
fill the pattern to the very name is `MatchInv`, by induction over the segments
(the part of the name consumed so far is the segments so far, filled in), beside
an induction over the pattern for `Written`. `UrlInv` follows the URL back to its
template: the numbering `ParamIndex` is one to one, `Number` reads what `Decimal`
writes, and the scan, by induction over the template from its end, takes exactly
the digits of each parameter (`Separated`) and puts its own value there, whatever
characters that value has.

`ZeroMeansAll` needs `CommandsInv`: a run has its list of tiles from its options,
no thread is past its share, and only `Finish` leaves zero, with every share
done and no failure (`ExitStatus` stays below the width of an exit status). What
the list and the shares are is arithmetic, proved as lemmas: the columns and
rows of a box hold each tile inside it and only tiles that meet it (`BoxWell`,
from floor and ceiling divisions), `FindTiles` lists each of them once
(`FindTilesOnce`, by quotient and remainder), the list of seed has a tile as
often as its zoom was asked for (`SeedFairly`, by induction over the zooms), and
the places of the threads' shares are the places of the list, one to one
(`SharesApart`, `SharesAll`, `TimesIs`).

What recursive functions compute is proved by induction over a prefix or a
suffix: the numbers for which the statement holds are a set, and `UpTo` says that
a set with 0 that is closed under successors has all numbers. The assumptions say
what characters, values, configurations and options are: `PlaceholdersAssumption`
that a tile's numbers hold neither "$" nor "?", `LayerNamesAssumption` that
configurations are sequences of layers, `CommandsAssumption` that options are of
their Go types and `MaxExitCode` is below `StatusWidth`.

## 6. Only model-checked

The liveness properties, which are out of the provers' reach: `RetiredIsReleased`,
`ShutdownEnds`, `ReloadEnds`, `ShutdownFinishes`, `AddReturns`, `CloseReturns`,
`AcceptedIsSettled`, `RequestsReturn`, `ReturnsUnlessStranded` and
`EveryoneAnswered`. Every invariant, every action property and both refinements
that a passing run checks are proved as well. The theorems about types,
`ClosesOnce`, `AcquiredOpen`, `ServingStaysCurrent`, `RegistryForgetsDone`,
`StaysWithinBounds`, `NoSendAfterSeal` and `CloseSuccessDrains` are proved and
not repeated in a run.

## 7. Findings

Each is a violation run that checks one statement quoted from the repository in
`PROJECT.json`.

| Run | What the code does |
|---|---|
| `reload_closes_serving` | when the rebuild of health fails, the reload callback closes the entities the handler serves already |
| `older_config_wins` | two changes more than a second apart reload on goroutines of their own; the older may be installed last and stay |
| `composite_hangs` | a child of composite_mvt that fails without an image sends none, and the collector waits for it for ever |
| `validator_not_anchored` | of a validator with alternatives only the first is bound to the start and only the last to the end |

Seen in the models or while reading the code, and stated by no property, because
nothing in the repository says what should happen or because it is of less
weight:

- Reload: a generation registered after `closeAll` copied the registry is never
  closed by shutdown; one that disables health leaves the old instance running; a
  reload between shutdown's read of the health functions and its draining flag
  leaves an endpoint that stays ready; two reloads may swap the handler in one
  order and rebuild health in the other; a build that fails half way closes
  nothing; a change within the first second after startup is dropped. An endpoint
  that a reload brings up while shutdown drains answers ready during its startup
  wait, where the comment at server.go:99-101 expects it unhealthy from the start.
  A check whose first run hangs, or a connection the old health listener waits
  for, keeps the health mutex, and with it every later reload and shutdown.
- Closing: a retired generation is closed without a deadline and may hang; a
  failing close hook of a script leaves the datastores open behind a batcher that
  drained.
- Rendering: after a rejection each waiting request discards the credential the
  previous one has just fetched; a hit in a later cache tier is turned into an
  error by an earlier tier that fails; a background write may reach the cache of
  a closed generation, and seed ends without waiting for such writes; crop drops
  its secondary's mark that an image must not be cached.
- Requests: a remembered result of custom that has expired keeps being rejected
  until its entry goes (custom.go:230).
- Names and templates: an empty expression in `paramValidator` panics at
  construction (layer.go:149); a digit directly behind a placeholder is
  read as part of its number.
- Commands: `cmd/test.go:43-44` reads x from `-y` and y from `-x`; a test of all
  layers fails when one has a pattern; a test with zero threads reports success.
  In `FindTiles` a point on the east or south border is out of range, a
  longitude is wrapped by 180 degrees instead of 360, and a box's edge is
  truncated in x and rounded up in y.
- Health: the documented default delay of tile checks is 600 seconds, the code's 60.

## 8. Not modelled

- Secrets, the analytics writers, the connections of datastores and the servers
  behind caches are calls to the outside; the models take their results, delays
  and failures as nondeterministic choices where these matter.
- Pixels, vector tile contents, geohashes, the projection's trigonometry and the
  coordinates of a bounding box in a template are data conversions on floating
  point or images.
- Defaults, merging and remote sources of the configuration, the other commands,
  request logging, tracing, static resources and the website keep no state that
  a property is about.
- Shutdown's otel and log phases flush exporters. The exit on a listener error
  (`server.go`) skips every shutdown phase and is left out.
- The data race of two reload goroutines on the global viper instance is inside a
  third-party library; a read of the file is one step.

## 9. Plan

Done: all modules of section 2 and the proofs of section 5. What is left to
model: the listener's error exit, and the data race on viper as a read that may
mix two versions. What is left to prove: two simplifications that section 2
states, that the search of `validateRefs` finds a cycle exactly when `RefCycle`
holds, and that FIFO order of the batcher's channel changes nothing.
