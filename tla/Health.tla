-------------------------------- MODULE Health ---------------------------------
(***************************************************************************)
(* The health subsystem over the cache (internal/server/health.go,         *)
(* internal/checks): one goroutine per check runs it when its ticker says  *)
(* so and stores the result, the endpoint answers from what is stored.     *)
(* HotReload has its start and end among reloads.  A check of the cache is *)
(* a client of TileCache with a key of its own.                            *)
(***************************************************************************)
EXTENDS TileCache

CONSTANTS
  Probe   \* cacheReq, the tile of every check of the cache

Leeway == 1   \* checkLeeway
Delay  == 2   \* between two runs of a check, and its result's ttl

(* setup.checks is the sequence of the kinds of checks, each "cache" or the *)
(* validation of a tile check; the check's number is the client it is.      *)
VARIABLES
  phase,     \* "off", "starting", "serving" or "failed"
  run,       \* [Check -> what its goroutine does]
  due,       \* [Check -> when its ticker fires next]
  ticking,   \* the checks whose first run is over
  stored,    \* checkResultCache: [Check -> [ok, at]]
  before,    \* [Check -> the image a "same" check compares with]
  draining,
  good       \* [Check -> when a run last passed, 0 before], for the property

healthVars == <<phase, run, due, ticking, stored, before, draining, good>>
allVars    == <<cacheVars, healthVars>>

Check == DOMAIN setup.checks
Users == setup.users

ASSUME HealthAssumption ==
  /\ Probe \in Tile
  /\ \A s \in Setups : DOMAIN s.checks \subseteq Client

HealthInit ==
  /\ CacheInit
  /\ phase    = "off"
  /\ run      = [i \in Check |-> "none"]
  /\ due      = [i \in Check |-> 0]
  /\ ticking  = {}
  /\ stored   = [i \in Check |-> None]
  /\ before   = [i \in Check |-> None]
  /\ draining = FALSE
  /\ good     = [i \in Check |-> 0]

(* Initialize of the checks. *)
CheckFaults(check) == IF check = "cache" THEN {} ELSE {"validation", "layer", "bounds"}

(* SetupHealth constructs the checks, which may refuse their configuration, *)
(* then runs each once, one after the other, before it starts the endpoint. *)
SetupHealth ==
  /\ phase = "off" /\ state = "open" /\ Check # {}
  /\ \/ phase' = "starting"
     \/ (\E i \in Check : CheckFaults(setup.checks[i]) # {}) /\ phase' = "failed"
  /\ UNCHANGED <<cacheVars, run, due, ticking, stored, before, draining, good>>

FirstRun(i) ==
  /\ phase = "starting"
  /\ run[i] = "none" /\ \A j \in Check : j < i => j \in ticking
  /\ run' = [run EXCEPT ![i] = "running"]
  /\ due' = [due EXCEPT ![i] = clock + Delay]
  /\ UNCHANGED <<cacheVars, phase, ticking, stored, before, draining, good>>

(* setupHealthEndpoints: the port may be in use. *)
StartEndpoint ==
  /\ phase = "starting"
  /\ ticking = Check
  /\ phase' \in {"serving", "failed"}
  /\ UNCHANGED <<cacheVars, run, due, ticking, stored, before, draining, good>>

(* The goroutine's ticker fired; it keeps one tick for a goroutine that is  *)
(* late and drops the rest.                                                 *)
NextRun(i) ==
  /\ run[i] = "waiting"
  /\ clock >= due[i]
  /\ run' = [run EXCEPT ![i] = "running"]
  /\ due' = [due EXCEPT ![i] = @ + Delay * ((clock - @) \div Delay + 1)]
  /\ UNCHANGED <<cacheVars, phase, ticking, stored, before, draining, good>>

(* Mutant of TickCheck: a panic in a check counts as a pass. *)
PanicPasses(i, outcome) ==
  /\ run'     = [run EXCEPT ![i] = "waiting"]
  /\ ticking' = ticking \cup {i}
  /\ stored'  = [stored EXCEPT ![i] = [ok |-> outcome # "failed", at |-> clock]]
  /\ good'    = [good EXCEPT ![i] = IF outcome = "passed" THEN clock ELSE @]

(* The end of tickCheck: the result is stored with the time, unless the     *)
(* check panicked.                                                          *)
TickCheck(i, outcome) ==
  /\ run'     = [run EXCEPT ![i] = "waiting"]
  /\ ticking' = ticking \cup {i}
  /\ stored'  = IF outcome = "panicked" THEN stored
                ELSE [stored EXCEPT ![i] = [ok |-> outcome = "passed", at |-> clock]]
  /\ good'    = [good EXCEPT ![i] = IF outcome = "passed" THEN clock ELSE @]

(* The check of the cache: it saves a new image and looks it up again.      *)
ProbeSave(i) ==
  /\ setup.checks[i] = "cache" /\ run[i] = "running"
  /\ \/ StartSave(i, Probe) /\ run' = [run EXCEPT ![i] = "saved"] /\ UNCHANGED <<ticking, stored, good>>
     \/ TickCheck(i, "failed") /\ UNCHANGED cacheVars
  /\ UNCHANGED <<phase, due, before, draining>>

ProbeLookup(i) ==
  /\ run[i] = "saved" /\ op[i] = Idle
  /\ IF saved[i].failed
     THEN TickCheck(i, "failed") /\ UNCHANGED cacheVars
     ELSE StartLookup(i, Probe) /\ run' = [run EXCEPT ![i] = "looked"] /\ UNCHANGED <<ticking, stored, good>>
  /\ UNCHANGED <<phase, due, before, draining>>

ProbeCompare(i) ==
  /\ run[i] = "looked" /\ op[i] = Idle
  /\ TickCheck(i, IF got[i] # None /\ ~got[i].failed /\ got[i].found = saved[i].image
                  THEN "passed" ELSE "failed")
  /\ UNCHANGED <<cacheVars, phase, due, before, draining>>

(* The check of a tile: it renders one past the cache.  That may fail, or   *)
(* give no image, which every validation but "success" and the first "same" *)
(* reads from.  "same" compares it with the one before and keeps it.        *)
Validate(i, image) ==
  CASE image = "error" -> "failed"
    [] image = "none" ->
         IF setup.checks[i] = "success" \/ (setup.checks[i] = "same" /\ before[i] = None)
         THEN "passed" ELSE "panicked"
    [] image \in {"one", "other"} ->
         CASE setup.checks[i] = "success" -> "passed"
           [] setup.checks[i] = "same" -> IF before[i] \in {None, image} THEN "passed" ELSE "failed"
           [] OTHER -> IF image = "one" THEN "passed" ELSE "failed"

CheckTile(i) ==
  /\ setup.checks[i] # "cache" /\ run[i] = "running"
  /\ \E image \in {"one", "other", "none", "error"} :
       /\ TickCheck(i, Validate(i, image))
       /\ before' = [before EXCEPT ![i] =
            IF setup.checks[i] = "same" /\ image \in {"one", "other"} THEN image ELSE @]
  /\ UNCHANGED <<cacheVars, phase, due, draining>>

(* startDraining, called when shutdown begins. *)
StartDraining ==
  /\ phase = "serving" /\ ~draining
  /\ draining' = TRUE
  /\ UNCHANGED <<cacheVars, phase, run, due, ticking, stored, before, good>>

(* checkDetail. *)
CheckDetail(i) ==
  /\ stored[i] # None
  /\ stored[i].ok
  /\ stored[i].at + Delay + Leeway >= clock

(* ServeHTTP answers 200. *)
Ready == phase = "serving" /\ ~draining /\ \A i \in Check : CheckDetail(i)

(* Requests of users, and the other clients' own. *)
UserStep ==
  /\ state = "open"
  /\ \E p \in Users, t \in setup.tiles : StartSave(p, t) \/ StartLookup(p, t)

(* The process ends and starts again, with its health subsystem. *)
Restart ==
  /\ Crash
  /\ phase'    = "off"
  /\ run'      = [i \in Check |-> "none"]
  /\ due'      = [i \in Check |-> 0]
  /\ ticking'  = {}
  /\ stored'   = [i \in Check |-> None]
  /\ before'   = [i \in Check |-> None]
  /\ draining' = FALSE
  /\ good'     = [i \in Check |-> 0]

HealthNext ==
  \/ (CacheStep \/ UserStep \/ Tick) /\ UNCHANGED healthVars
  \/ SetupHealth \/ StartEndpoint \/ StartDraining \/ Restart
  \/ \E i \in Check : \/ FirstRun(i) \/ NextRun(i) \/ CheckTile(i)
                      \/ ProbeSave(i) \/ ProbeLookup(i) \/ ProbeCompare(i)

Spec == HealthInit /\ [][HealthNext]_allVars

-----------------------------------------------------------------------------
(* Properties.                                                              *)

(* The endpoint says ok only when a run of every check passed within its    *)
(* ttl and the leeway, however long a later run hangs or however often it   *)
(* panics (health.go:58-96, 306-324).                                       *)
ReadyIsEarned ==
  Ready => \A i \in Check : good[i] > 0 /\ good[i] + Delay + Leeway >= clock
=============================================================================
