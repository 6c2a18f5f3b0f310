------------------------------ MODULE HotReload ------------------------------
(***************************************************************************)
(* A configuration reload end to end: the callback pkg/entry/serve.go      *)
(* gives to the configuration watcher, the combined reload function of     *)
(* internal/server/server.go with its health mutex, the health subsystem   *)
(* of internal/server/health.go, and the shutdown phases that race them.   *)
(*                                                                         *)
(* The watcher starts every reload on a goroutine of its own and nothing   *)
(* orders them but the handler's lock and the health mutex.  How requests  *)
(* and timers decide when a retired generation closes is the subject of    *)
(* Generations; here it closes at any time after it was replaced.          *)
(***************************************************************************)
EXTENDS FiniteSets, Naturals

CONSTANTS
  Gen,        \* the generations that may be built (bound: one reload per element but FirstGen)
  FirstGen,   \* the generation the server starts with
  MayDisable, \* generations whose configuration may disable the health subsystem
  None        \* no generation

ASSUME HotReloadAssumption ==
  /\ FirstGen \in Gen
  /\ MayDisable \subseteq Gen
  /\ None \notin Gen

VARIABLES
  current,    \* tileHandler.entities.gen
  installed,  \* the generations the handler serves or served
  closed,     \* generations whose closed flag is set (generation.closeNow)
  released,   \* generations on whose entities Entities.Close has been called
  open,       \* the generations with entities built and not released
  place,      \* [Gen -> place of the reload callback that builds it]
  oldHealth,  \* [Gen -> healthReloader's oldHealthShutdown]
  mutex,      \* holder of healthMutex
  health,     \* *healthShutdown and *healthDrain: the instance they belong to
  bound,      \* health instances with a listener on the health port
  ticking,    \* health instances whose check tickers run
  drained,    \* health instances whose draining flag is set
  draining,   \* ListenAndServe's draining flag
  phase,      \* place of the shutdown sequence
  final,      \* buildShutdownPhases' finalHealthShutdown and finalHealthDrain
  snap        \* closeAll's copy of the registry

entityVars == <<current, installed, closed, released, open>>
healthVars == <<mutex, health, bound, ticking, drained, oldHealth>>
stopVars   == <<draining, phase, final, snap>>
vars == <<entityVars, place, healthVars, stopVars>>

(* SetupHealth of a first configuration that works. *)
Init ==
  /\ current   = FirstGen
  /\ installed = {FirstGen}
  /\ closed    = {}
  /\ released  = {}
  /\ open      = {FirstGen}
  /\ place     = [g \in Gen |-> IF g = FirstGen THEN "done" ELSE "none"]
  /\ oldHealth = [g \in Gen |-> None]
  /\ mutex     = None
  /\ health    = FirstGen
  /\ bound     = {FirstGen}
  /\ ticking   = {FirstGen}
  /\ drained   = {}
  /\ draining  = FALSE
  /\ phase     = "up"
  /\ final     = None
  /\ snap      = {}

Goto(g, p) == place' = [place EXCEPT ![g] = p]

-----------------------------------------------------------------------------
(* The reload callback of generation g.                                     *)

(* configToEntities.  On an error it returns what it made to nobody: an     *)
(* early failure has made nothing, a later one leaves the pools, caches and *)
(* batchers it had already started.                                         *)
Build(g) ==
  /\ place[g] = "none"
  /\ \/ Goto(g, "built")  /\ open' = open \cup {g}
     \/ Goto(g, "failed") /\ open' \in {open, open \cup {g}}
  /\ UNCHANGED <<current, installed, closed, released, healthVars, stopVars>>

(* handlerReloadFunc: the handler serves the new generation and the old one *)
(* is retired.  A configuration without health ends the reload here.        *)
SwapHandler(g) ==
  /\ place[g] = "built"
  /\ current' = g
  /\ installed' = installed \cup {g}
  /\ Goto(g, "swapped") \/ (g \in MayDisable /\ Goto(g, "done"))
  /\ UNCHANGED <<closed, released, open, healthVars, stopVars>>

(* Mutant of LockHealth: the mutex guards the pointers only. *)
LockPointersOnly(g) ==
  /\ place[g] = "swapped"
  /\ oldHealth' = [oldHealth EXCEPT ![g] = health]
  /\ health' = None
  /\ Goto(g, "teardown")
  /\ UNCHANGED <<entityVars, mutex, bound, ticking, drained, stopVars>>

(* healthReloader takes the mutex and clears both pointers. *)
LockHealth(g) ==
  /\ place[g] = "swapped"
  /\ mutex = None
  /\ mutex' = g
  /\ oldHealth' = [oldHealth EXCEPT ![g] = health]
  /\ health' = None
  /\ Goto(g, "teardown")
  /\ UNCHANGED <<entityVars, bound, ticking, drained, stopVars>>

(* oldHealthShutdown stops the tickers and frees the listener, and waits    *)
(* for the connections open on it under a context without a deadline; this  *)
(* is its return.                                                           *)
TearDown(g) ==
  /\ place[g] = "teardown"
  /\ bound' = bound \ {oldHealth[g]}
  /\ ticking' = ticking \ {oldHealth[g]}
  /\ Goto(g, "setup")
  /\ UNCHANGED <<entityVars, mutex, health, drained, oldHealth, stopVars>>

(* SetupHealth.  setupCheckRoutines makes each check's ticker and runs the  *)
(* check once before it goes on to the next; constructing the checks cannot *)
(* fail, configToEntities did it once already.                              *)
SetupCheckRoutines(g) ==
  /\ place[g] = "setup"
  /\ ticking' = ticking \cup {g}
  /\ Goto(g, "checking")
  /\ UNCHANGED <<entityVars, mutex, health, bound, drained, oldHealth, stopVars>>

(* The first runs are over.  setupHealthEndpoints binds the port and serves *)
(* from then on, or fails with the tickers running.                         *)
SetupHealthEndpoints(g) ==
  /\ place[g] = "checking"
  /\ \/ bound = {} /\ bound' = {g} /\ Goto(g, "serving")
     \/ UNCHANGED bound             /\ Goto(g, "unbound")
  /\ UNCHANGED <<entityVars, mutex, health, ticking, drained, oldHealth, stopVars>>

(* What RecordHealth and its mutants share: SetupHealth returns, after      *)
(* startupWaitTime or with the error, and healthReloader does as well.      *)
SetupReturns(g) ==
  /\ \/ place[g] = "serving" /\ Goto(g, "done")
     \/ place[g] = "unbound" /\ Goto(g, "rejected")
  /\ UNCHANGED <<entityVars, bound, ticking, oldHealth, stopVars>>

NewHealthDrain(g) == drained' = IF draining THEN drained \cup {g} ELSE drained

(* Mutant of RecordHealth: the pointers are recorded only after a success. *)
RecordOnSuccess(g) ==
  /\ SetupReturns(g)
  /\ health' = IF g \in bound THEN g ELSE None
  /\ NewHealthDrain(g)
  /\ mutex' = None

(* Mutant of RecordHealth: the draining flag is not looked at. *)
ForgetDraining(g) ==
  /\ SetupReturns(g)
  /\ health' = g
  /\ mutex' = None
  /\ UNCHANGED drained

(* Mutant of RecordHealth: the error return leaves the mutex locked. *)
FailLocked(g) ==
  /\ SetupReturns(g)
  /\ health' = g
  /\ NewHealthDrain(g)
  /\ mutex' = IF place[g] = "serving" THEN None ELSE g

(* The new pointers, the draining flag and the unlock, whether SetupHealth  *)
(* returned an error or not.                                                *)
RecordHealth(g) ==
  /\ SetupReturns(g)
  /\ health' = g
  /\ NewHealthDrain(g)
  /\ mutex' = None

(* newReloadCallback calls Entities.Close on the entities of a reload that  *)
(* returned an error, whatever the handler points at by then, and past      *)
(* their generation's closed flag.                                          *)
CloseRejected(g) ==
  /\ place[g] = "rejected"
  /\ released' = released \cup {g}
  /\ open' = open \ {g}
  /\ Goto(g, "failed")
  /\ UNCHANGED <<current, installed, closed, healthVars, stopVars>>

(* generation.closeNow of a generation nobody closed that way before. *)
CloseGeneration(g) ==
  /\ g \notin closed
  /\ closed' = closed \cup {g}
  /\ released' = released \cup {g}
  /\ open' = open \ {g}
  /\ UNCHANGED <<current, installed, place, healthVars, stopVars>>

(* The retired generation's last request or its timer closes it. *)
CloseRetired(g) ==
  /\ g \in installed \ {current}
  /\ CloseGeneration(g)

-----------------------------------------------------------------------------
(* Shutdown: buildShutdownPhases and runShutdown.                           *)

Signal ==
  /\ phase = "up"
  /\ phase' = "signalled"
  /\ UNCHANGED <<entityVars, place, healthVars, draining, final, snap>>

(* buildShutdownPhases reads the pointers under the mutex ... *)
ReadHealth ==
  /\ phase = "signalled"
  /\ mutex = None
  /\ final' = health
  /\ phase' = "read"
  /\ UNCHANGED <<entityVars, place, healthVars, draining, snap>>

(* ... and the drain phase takes the mutex again to set the flag. *)
SetDraining ==
  /\ phase = "read"
  /\ mutex = None
  /\ draining' = TRUE
  /\ phase' = "draining"
  /\ UNCHANGED <<entityVars, place, healthVars, final, snap>>

(* finalHealthDrain, on the instance read before. *)
DrainHealth ==
  /\ phase = "draining"
  /\ drained' = drained \cup ({final} \ {None})
  /\ phase' = "drained"
  /\ UNCHANGED <<entityVars, place, mutex, health, bound, ticking, oldHealth, draining, final, snap>>

(* The budget expires in the drain delay, the server or the health phase,   *)
(* and the sequence stops.                                                  *)
SkipRest ==
  /\ phase \in {"drained", "stopped"}
  /\ phase' = "exited"
  /\ UNCHANGED <<entityVars, place, healthVars, draining, final, snap>>

(* The server phase, then the health phase: finalHealthShutdown. *)
StopHealth ==
  /\ phase = "drained"
  /\ bound' = bound \ {final}
  /\ ticking' = ticking \ {final}
  /\ phase' = "stopped"
  /\ UNCHANGED <<entityVars, place, mutex, health, drained, oldHealth, draining, final, snap>>

(* The generations phase begins: closeAll copies the registry. *)
StartCloseAll ==
  /\ phase = "stopped"
  /\ snap' = installed \ closed
  /\ phase' = "closing"
  /\ UNCHANGED <<entityVars, place, healthVars, draining, final>>

CloseOne(g) ==
  /\ phase = "closing"
  /\ g \in snap
  /\ CloseGeneration(g)

(* Mutant of Exit: it waits for the registry to be empty. *)
ExitWhenEmpty ==
  /\ phase = "closing"
  /\ installed \subseteq closed
  /\ phase' = "exited"
  /\ UNCHANGED <<entityVars, place, healthVars, draining, final, snap>>

(* closeAll's loop is over. *)
Exit ==
  /\ phase = "closing"
  /\ snap \subseteq closed
  /\ phase' = "exited"
  /\ UNCHANGED <<entityVars, place, healthVars, draining, final, snap>>

-----------------------------------------------------------------------------
ReloadStep(g) ==
  \/ SwapHandler(g) \/ LockHealth(g) \/ TearDown(g) \/ SetupCheckRoutines(g)
  \/ SetupHealthEndpoints(g) \/ RecordHealth(g) \/ CloseRejected(g)

ShutdownStep ==
  ReadHealth \/ SetDraining \/ DrainHealth \/ SkipRest \/ StopHealth \/ StartCloseAll
    \/ (\E g \in Gen : CloseOne(g)) \/ Exit

(* The steps that wait for nothing but the scheduler, a mutex or a timer.   *)
(* The others wait for calls without a deadline: the old listener's open    *)
(* connections, the checks' first runs, Entities.Close.                     *)
OwnReloadStep(g) ==
  SwapHandler(g) \/ LockHealth(g) \/ SetupCheckRoutines(g) \/ RecordHealth(g)

OwnShutdownStep ==
  ReadHealth \/ SetDraining \/ DrainHealth \/ SkipRest \/ StopHealth \/ StartCloseAll \/ Exit

(* The process is gone; what a goroutine still did no longer matters. *)
Exited == phase = "exited" /\ UNCHANGED vars

Next ==
  \/ \E g \in Gen : Build(g) \/ ReloadStep(g) \/ CloseRetired(g)
  \/ Signal
  \/ ShutdownStep
  \/ Exited

(* Scheduled goroutines run; nothing makes a reload or a signal happen, or  *)
(* a call return.                                                           *)
Fairness ==
  /\ \A g \in Gen : WF_vars(OwnReloadStep(g))
  /\ WF_vars(OwnShutdownStep)

Spec == Init /\ [][Next]_vars /\ Fairness

-----------------------------------------------------------------------------
(* Properties.                                                              *)

TypeOK ==
  /\ current \in Gen
  /\ installed \in SUBSET Gen
  /\ closed \in SUBSET installed
  /\ released \in SUBSET Gen
  /\ open \in SUBSET Gen
  /\ place \in [Gen -> {"none", "built", "swapped", "teardown", "setup", "checking",
                        "serving", "unbound", "rejected", "failed", "done"}]
  /\ oldHealth \in [Gen -> Gen \cup {None}]
  /\ mutex \in Gen \cup {None}
  /\ health \in Gen \cup {None}
  /\ bound \in SUBSET Gen
  /\ ticking \in SUBSET Gen
  /\ drained \in SUBSET Gen
  /\ draining \in BOOLEAN
  /\ phase \in {"up", "signalled", "read", "draining", "drained", "stopped",
                "closing", "exited"}
  /\ final \in Gen \cup {None}
  /\ snap \in SUBSET Gen

(* Whatever reloads and shutdown do meanwhile, a rebuild never finds the    *)
(* health port held by an earlier instance, from the teardown to its own    *)
(* bind: they are one critical section (server.go, healthReloader's mutex). *)
PortIsFree == \A g \in Gen : place[g] \in {"setup", "checking"} => bound = {}

(* A health instance that runs can be stopped: the pointers name it, or the *)
(* reload that tears it down does, or the one that is setting it up.  None  *)
(* is lost when a rebuild fails half way or two reloads interleave          *)
(* (server.go, healthReloader).                                             *)
NoStrayHealth ==
  \A g \in bound \cup ticking :
    \/ g = health
    \/ place[g] \in {"checking", "serving", "unbound"}
    \/ \E h \in Gen : place[h] = "teardown" /\ oldHealth[h] = g

(* The endpoint reports ready although its startup wait is over. *)
StaysReady(g) == g \in bound \ drained /\ place[g] # "serving"

(* Once shutdown has set the draining flag no endpoint comes to stay ready: *)
(* one that a reload brings up meanwhile answers ready for the length of    *)
(* SetupHealth's startup wait and drains after it (server.go,               *)
(* healthReloader's check of draining under the mutex that guards it).      *)
DrainingSticks ==
  [][\A g \in Gen : draining /\ StaysReady(g)' => StaysReady(g)]_vars

(* The calls healthReloader makes under the health mutex return: the old    *)
(* subsystem's shutdown and the checks' first runs.                         *)
HealthReturns == \A g \in Gen : []<>(place[g] \notin {"teardown", "checking"})

(* Every reload whose entities were built comes to an end, whatever other   *)
(* reloads and the shutdown do with the health mutex (server.go), provided  *)
(* the calls under the mutex and the close of rejected entities return.     *)
ReloadEnds ==
  HealthReturns /\ (\A g \in Gen : []<>(place[g] # "rejected"))
    => \A g \in Gen : place[g] = "built" ~> place[g] \in {"done", "failed"}

(* Shutdown gets past the reloads that come and go with the health mutex    *)
(* (server.go, buildShutdownPhases) and past the generations they still     *)
(* install, provided no call under the mutex hangs and each generation of   *)
(* closeAll's copy is closed.                                               *)
ShutdownFinishes ==
  HealthReturns /\ (\A g \in Gen : []<>(phase # "closing" \/ g \notin snap \ closed))
    => (phase = "signalled" ~> phase = "exited")

(* What comments of the code claim and the code does not do.                *)

(* "the new generation never reaches a handler that could release it, so    *)
(* it's closed here instead ... while the old generation keeps serving"     *)
(* (serve.go): a reload never closes the entities that are serving.         *)
ServingStaysOpen ==
  phase \in {"up", "signalled", "read", "draining", "drained", "stopped"} =>
    current \notin released
=============================================================================
