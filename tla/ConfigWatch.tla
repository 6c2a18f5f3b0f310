------------------------------ MODULE ConfigWatch ------------------------------
(***************************************************************************)
(* From a change of the configuration file to the reload it causes:        *)
(* LoadAndWatchConfigFromFile (pkg/config/config.go), runServe             *)
(* (cmd/serve.go) and newReloadCallback (pkg/entry/serve.go), in front of  *)
(* HotReload.                                                              *)
(*                                                                         *)
(* The watcher's thread drops the events within a second of the one it     *)
(* last acted on, and starts a goroutine for each of the others.  That     *)
(* sleeps for a second, reads the file and calls the reload callback.  A   *)
(* version of the file is its number; one unit of time is the second of    *)
(* both.                                                                   *)
(***************************************************************************)
EXTENDS HotReload

CONSTANTS
  Edits,     \* the file is written that often (a bound)
  MaxClock   \* the clock stops there (a bound)

(* Generations are numbered in the order the goroutines start. *)
ASSUME ConfigWatchAssumption ==
  /\ Gen \subseteq Nat
  /\ Edits \in Nat
  /\ MaxClock \in Nat

VARIABLES
  file,      \* the version of the file on disk
  torn,      \* it is being written
  notice,    \* an event of the file is on its way
  now,       \* time.Now
  lastLoad,  \* lastConfigLoad
  due,       \* [Gen -> when the goroutine that builds it wakes up, or Never]
  version,   \* [Gen -> the version it is built from, 0 before it is read]
  started    \* ListenAndServe has set the reload function

fileVars  == <<file, torn, notice>>
watchVars == <<fileVars, now, lastLoad, due, version, started>>
allVars   == <<vars, watchVars>>

Never == MaxClock + 2

(* Serve's configuration is read and the watch begins.  The reload function *)
(* is there only when the entities are and SetupHealth is done.             *)
WatchInit ==
  /\ Init
  /\ file     = 1
  /\ torn     = FALSE
  /\ notice   = FALSE
  /\ now      = 0
  /\ lastLoad = 0
  /\ due      = [g \in Gen |-> Never]
  /\ version  = [g \in Gen |-> IF g = FirstGen THEN 1 ELSE 0]
  /\ started  = FALSE

Start ==
  /\ ~started
  /\ started' = TRUE
  /\ UNCHANGED <<vars, fileVars, now, lastLoad, due, version>>

(* The file is written, at once or with a pause inside. *)
Write ==
  /\ file <= Edits /\ ~torn
  /\ file' = file + 1
  /\ torn' \in BOOLEAN
  /\ notice' = TRUE
  /\ UNCHANGED <<vars, now, lastLoad, due, version, started>>

FinishWrite ==
  /\ torn
  /\ torn' = FALSE
  /\ notice' = TRUE
  /\ UNCHANGED <<vars, file, now, lastLoad, due, version, started>>

Tick ==
  /\ now < MaxClock
  /\ now' = now + 1
  /\ UNCHANGED <<vars, fileVars, lastLoad, due, version, started>>

(* OnConfigChange's function.  Several events may have become one. *)
DropEvent ==
  /\ notice
  /\ now < lastLoad + 1
  /\ notice' = FALSE
  /\ UNCHANGED <<vars, file, torn, now, lastLoad, due, version, started>>

(* The next generation to be built, while there is time for it (a bound). *)
Unused(g) == now < MaxClock /\ version[g] = 0 /\ \A h \in Gen : due[h] = Never <=> h >= g \/ h = FirstGen

(* Mutant of AcceptEvent: the goroutine does not sleep. *)
AcceptWithoutSleep(g) ==
  /\ notice
  /\ now >= lastLoad + 1
  /\ Unused(g)
  /\ notice' = FALSE
  /\ lastLoad' = now
  /\ due' = [due EXCEPT ![g] = now]
  /\ UNCHANGED <<vars, file, torn, now, version, started>>

AcceptEvent(g) ==
  /\ notice
  /\ now >= lastLoad + 1
  /\ Unused(g)
  /\ notice' = FALSE
  /\ lastLoad' = now
  /\ due' = [due EXCEPT ![g] = now + 1]
  /\ UNCHANGED <<vars, file, torn, now, version, started>>

(* The goroutine wakes up, perhaps late, and reads the file.  What is read  *)
(* while the file is being written is no configuration; the error is        *)
(* printed.                                                                 *)
ReadConfig(g) ==
  /\ due[g] <= now /\ version[g] = 0 /\ place[g] = "none"
  /\ IF torn THEN Goto(g, "failed") /\ UNCHANGED version
             ELSE version' = [version EXCEPT ![g] = file] /\ UNCHANGED place
  /\ UNCHANGED <<entityVars, healthVars, stopVars, fileVars, now, lastLoad, due, started>>

(* The callback of runServe does nothing before there is a reload function, *)
(* and calls configToEntities after.                                        *)
Callback(g) ==
  /\ version[g] # 0
  /\ place[g] = "none"
  /\ IF started THEN Build(g)
     ELSE Goto(g, "failed") /\ UNCHANGED <<entityVars, healthVars, stopVars>>
  /\ UNCHANGED watchVars

WatchStep(g) == AcceptEvent(g) \/ ReadConfig(g) \/ Callback(g)

WatchNext ==
  \/ Start \/ Write \/ FinishWrite \/ Tick \/ DropEvent
  \/ \E g \in Gen : WatchStep(g)
  \/ /\ \/ \E g \in Gen : ReloadStep(g) \/ CloseRetired(g)
        \/ started /\ Signal
        \/ ShutdownStep
        \/ Exited
     /\ UNCHANGED watchVars

(* As in HotReload; the watcher's thread and its goroutines run.            *)
WatchFairness ==
  /\ \A g \in Gen : /\ WF_allVars(OwnReloadStep(g) /\ UNCHANGED watchVars)
                    /\ WF_allVars(ReadConfig(g) \/ Callback(g))
  /\ WF_allVars(OwnShutdownStep /\ UNCHANGED watchVars)

WatchSpec == WatchInit /\ [][WatchNext]_allVars /\ WatchFairness

-----------------------------------------------------------------------------
(* Properties.                                                              *)

(* No event is on its way and no goroutine is still to read the file. *)
Quiet ==
  /\ ~notice /\ ~torn
  /\ \A g \in Gen : due[g] # Never => version[g] # 0 \/ place[g] = "failed"

(* An event is dropped only while a goroutine that will read the file later *)
(* is asleep: once one was started at all, the newest version of the file   *)
(* is read (config.go:490-501).  Before the first one, within a second of   *)
(* startup, a change is lost.                                               *)
NewestIsRead ==
  Quiet /\ (\E g \in Gen : due[g] # Never) => \E g \in Gen : version[g] = file

(* "Reloading occurs automatically within a few seconds of the              *)
(* configuration changing" (docs reloading.adoc:5): the newest              *)
(* configuration, once installed, goes on serving while the file stays as   *)
(* it is.  Not so when an older one's reload took longer (config.go:497).   *)
NewestStays ==
  Quiet /\ (\E g \in installed : version[g] = file) /\ (\A g \in Gen : place[g] \in {"none", "done", "failed"})
    => version[current] = file
=============================================================================
