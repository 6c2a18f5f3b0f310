---------------------------- MODULE HotReloadProofs ----------------------------
(***************************************************************************)
(* Proofs about the health subsystem among reloads and shutdown, and that  *)
(* the watcher of the configuration file adds no step HotReload does not   *)
(* have: what is proved of any reloads holds of those the watcher starts,  *)
(* for any number of them.                                                 *)
(***************************************************************************)
EXTENDS ConfigWatch, TLAPS

-----------------------------------------------------------------------------
(* The inductive invariant: the mutex is held from LockHealth to            *)
(* RecordHealth, while it is held the pointers name no instance, and an     *)
(* endpoint is up only after its own reload has bound it.                   *)

Rebuilding == {"teardown", "setup", "checking", "serving", "unbound"}

HoldsMutex == \A g \in Gen : place[g] \in Rebuilding <=> mutex = g

PointersCleared == mutex # None => health = None

SnapInstalled == snap \subseteq installed

UpAfterBind == \A g \in bound : place[g] \in {"serving", "done"}

ReloadInv ==
  /\ TypeOK
  /\ HoldsMutex
  /\ PointersCleared
  /\ SnapInstalled
  /\ UpAfterBind
  /\ NoStrayHealth

(* Past the teardown there runs at most what the reload has set up itself,  *)
(* and before that nothing.                                                 *)
LEMMA OnlyOwnRuns ==
  ASSUME ReloadInv, NEW g \in Gen, place[g] \in Rebuilding \ {"teardown"}
  PROVE  /\ bound \cup ticking \subseteq {g}
         /\ place[g] \in {"setup", "checking"} => bound = {}
         /\ place[g] = "setup" => ticking = {}
<1>1. mutex = g /\ health = None
  BY HotReloadAssumption DEF ReloadInv, HoldsMutex, PointersCleared
<1>2. \A h \in Gen : place[h] \in Rebuilding => h = g
  BY <1>1 DEF ReloadInv, HoldsMutex
<1>3. bound \cup ticking \subseteq Gen  BY DEF ReloadInv, TypeOK
<1>4. \A b \in bound \cup ticking : b = g /\ place[b] \in {"checking", "serving", "unbound"}
  BY <1>1, <1>2, <1>3, HotReloadAssumption DEF ReloadInv, NoStrayHealth, Rebuilding
<1>5. QED  BY <1>4 DEF ReloadInv, UpAfterBind

LEMMA ReloadInitInv == Init => ReloadInv
BY HotReloadAssumption
   DEF Init, ReloadInv, TypeOK, Rebuilding, HoldsMutex, PointersCleared, SnapInstalled,
       UpAfterBind, NoStrayHealth

(* Steps that touch neither health nor the places of those that hold its    *)
(* mutex.                                                                   *)
LEMMA ElsewhereInv ==
  ASSUME ReloadInv, TypeOK', SnapInstalled', UNCHANGED <<mutex, health, oldHealth>>,
         bound' \subseteq bound, ticking' \subseteq ticking,
         \A g \in Gen : place[g] \in Rebuilding \/ place'[g] \in Rebuilding \/ place[g] = "done"
                          => place'[g] = place[g]
  PROVE  ReloadInv'
<1>1. HoldsMutex'  BY DEF ReloadInv, HoldsMutex
<1>2. PointersCleared'  BY DEF ReloadInv, PointersCleared
<1>3. UpAfterBind'  BY DEF ReloadInv, TypeOK, UpAfterBind, Rebuilding
<1>4. NoStrayHealth'  BY DEF ReloadInv, TypeOK, NoStrayHealth, Rebuilding
<1>5. QED  BY <1>1, <1>2, <1>3, <1>4 DEF ReloadInv

(* The steps of a reload outside the critical section.                      *)
LEMMA OutsideInv ==
  ASSUME ReloadInv, NEW g \in Gen,
         Build(g) \/ SwapHandler(g) \/ CloseRejected(g) \/ CloseRetired(g) \/ CloseOne(g)
  PROVE  ReloadInv'
<1> USE DEF ReloadInv, TypeOK, SnapInstalled, Rebuilding, Goto, healthVars, stopVars
<1>1. CASE Build(g)  BY <1>1, ElsewhereInv DEF Build
<1>2. CASE SwapHandler(g)  BY <1>2, ElsewhereInv DEF SwapHandler
<1>3. CASE CloseRejected(g)  BY <1>3, ElsewhereInv DEF CloseRejected
<1>4. CASE CloseRetired(g)  BY <1>4, ElsewhereInv DEF CloseRetired, CloseGeneration
<1>5. CASE CloseOne(g)  BY <1>5, ElsewhereInv DEF CloseOne, CloseGeneration
<1>6. QED  BY <1>1, <1>2, <1>3, <1>4, <1>5

(* The shutdown phases: they only stop what runs.                           *)
LEMMA ShutdownInv ==
  ASSUME ReloadInv,
         \/ Signal \/ ReadHealth \/ SetDraining \/ DrainHealth \/ SkipRest
         \/ StopHealth \/ StartCloseAll \/ Exit
  PROVE  ReloadInv'
<1> USE DEF ReloadInv, TypeOK, SnapInstalled, healthVars, entityVars
<1>1. CASE Signal  BY <1>1, ElsewhereInv DEF Signal
<1>2. CASE ReadHealth  BY <1>2, ElsewhereInv DEF ReadHealth
<1>3. CASE SetDraining  BY <1>3, ElsewhereInv DEF SetDraining
<1>4. CASE DrainHealth  BY <1>4, ElsewhereInv DEF DrainHealth
<1>5. CASE SkipRest  BY <1>5, ElsewhereInv DEF SkipRest
<1>6. CASE StopHealth  BY <1>6, ElsewhereInv DEF StopHealth
<1>7. CASE StartCloseAll  BY <1>7, ElsewhereInv DEF StartCloseAll
<1>8. CASE Exit  BY <1>8, ElsewhereInv DEF Exit
<1>9. QED  BY <1>1, <1>2, <1>3, <1>4, <1>5, <1>6, <1>7, <1>8

(* The critical section. *)
LEMMA LockHealthInv == ASSUME ReloadInv, NEW g \in Gen, LockHealth(g) PROVE ReloadInv'
<1> USE DEF LockHealth, Goto, entityVars, stopVars
<1>1. TypeOK' /\ SnapInstalled'  BY DEF ReloadInv, TypeOK, SnapInstalled
<1>2. HoldsMutex'
  BY HotReloadAssumption DEF ReloadInv, TypeOK, HoldsMutex, Rebuilding
<1>3. PointersCleared'  BY DEF PointersCleared
<1>4. NoStrayHealth'
  <2> SUFFICES ASSUME NEW b \in bound \cup ticking
               PROVE  \E h \in Gen : place'[h] = "teardown" /\ oldHealth'[h] = b
    BY DEF NoStrayHealth
  <2>0. b \in Gen  BY DEF ReloadInv, TypeOK
  <2>1. b = health
    BY <2>0, HotReloadAssumption DEF ReloadInv, HoldsMutex, NoStrayHealth, Rebuilding
  <2>2. place'[g] = "teardown" /\ oldHealth'[g] = b
    BY <2>1 DEF ReloadInv, TypeOK
  <2>3. QED  BY <2>2
<1>5. UpAfterBind'  BY DEF ReloadInv, TypeOK, UpAfterBind
<1>6. QED  BY <1>1, <1>2, <1>3, <1>4, <1>5 DEF ReloadInv

LEMMA TearDownInv == ASSUME ReloadInv, NEW g \in Gen, TearDown(g) PROVE ReloadInv'
<1> USE DEF TearDown, Goto, entityVars, stopVars
<1>1. TypeOK' /\ SnapInstalled'  BY DEF ReloadInv, TypeOK, SnapInstalled
<1>2. HoldsMutex'  BY DEF ReloadInv, TypeOK, HoldsMutex, Rebuilding
<1>3. PointersCleared'  BY DEF ReloadInv, PointersCleared
<1>4. bound' = {} /\ ticking' = {}
  <2>1. mutex = g /\ health = None
    BY HotReloadAssumption DEF ReloadInv, HoldsMutex, PointersCleared, Rebuilding
  <2>2. \A h \in Gen : place[h] \in Rebuilding => h = g
    BY <2>1 DEF ReloadInv, HoldsMutex
  <2>3. bound \cup ticking \subseteq Gen  BY DEF ReloadInv, TypeOK
  <2>4. \A b \in bound \cup ticking : b = oldHealth[g]
    BY <2>1, <2>2, <2>3, HotReloadAssumption DEF ReloadInv, TypeOK, NoStrayHealth, Rebuilding
  <2>5. QED  BY <2>4
<1>5. NoStrayHealth' /\ UpAfterBind'  BY <1>4 DEF NoStrayHealth, UpAfterBind
<1>6. QED  BY <1>1, <1>2, <1>3, <1>5 DEF ReloadInv

(* SetupHealth, which runs nothing but its own instance.                    *)
LEMMA SetUpInv ==
  ASSUME ReloadInv, NEW g \in Gen, SetupCheckRoutines(g) \/ SetupHealthEndpoints(g)
  PROVE  ReloadInv'
<1> USE DEF SetupCheckRoutines, SetupHealthEndpoints, Goto, entityVars, stopVars
<1>1. TypeOK' /\ SnapInstalled'  BY DEF ReloadInv, TypeOK, SnapInstalled
<1>2. HoldsMutex'  BY DEF ReloadInv, TypeOK, HoldsMutex, Rebuilding
<1>3. PointersCleared'  BY DEF ReloadInv, PointersCleared
<1>4. bound \cup ticking \subseteq {g} /\ bound = {}
  BY OnlyOwnRuns DEF Rebuilding
<1>5. /\ bound' \cup ticking' \subseteq {g}
      /\ place'[g] \in {"checking", "serving", "unbound"}
      /\ bound' # {} => place'[g] = "serving"
  BY <1>4 DEF ReloadInv, TypeOK
<1>6. NoStrayHealth' /\ UpAfterBind'  BY <1>5 DEF NoStrayHealth, UpAfterBind
<1>7. QED  BY <1>1, <1>2, <1>3, <1>6 DEF ReloadInv

LEMMA RecordHealthInv == ASSUME ReloadInv, NEW g \in Gen, RecordHealth(g) PROVE ReloadInv'
<1> USE DEF RecordHealth, SetupReturns, NewHealthDrain, Goto, entityVars, stopVars
<1>1. TypeOK' /\ SnapInstalled'  BY DEF ReloadInv, TypeOK, SnapInstalled
<1>2. HoldsMutex'
  BY HotReloadAssumption DEF ReloadInv, TypeOK, HoldsMutex, Rebuilding
<1>3. PointersCleared'  BY DEF PointersCleared
<1>4. bound' \cup ticking' \subseteq {g} /\ health' = g
  BY OnlyOwnRuns DEF Rebuilding
<1>5. NoStrayHealth'  BY <1>4 DEF NoStrayHealth
<1>6. UpAfterBind'  BY <1>4 DEF ReloadInv, TypeOK, UpAfterBind
<1>7. QED  BY <1>1, <1>2, <1>3, <1>5, <1>6 DEF ReloadInv

LEMMA ReloadNextInv == ReloadInv /\ [Next]_vars => ReloadInv'
<1> SUFFICES ASSUME ReloadInv, [Next]_vars PROVE ReloadInv'
  OBVIOUS
<1>1. CASE \E g \in Gen : Build(g) \/ SwapHandler(g) \/ CloseRejected(g) \/ CloseRetired(g) \/ CloseOne(g)
  BY <1>1, OutsideInv
<1>2. CASE \E g \in Gen : LockHealth(g)  BY <1>2, LockHealthInv
<1>3. CASE \E g \in Gen : TearDown(g)  BY <1>3, TearDownInv
<1>4. CASE \E g \in Gen : SetupCheckRoutines(g) \/ SetupHealthEndpoints(g) \/ RecordHealth(g)
  BY <1>4, SetUpInv, RecordHealthInv
<1>5. CASE \/ Signal \/ ReadHealth \/ SetDraining \/ DrainHealth \/ SkipRest
           \/ StopHealth \/ StartCloseAll \/ Exit
  BY <1>5, ShutdownInv
<1>6. CASE UNCHANGED vars
  BY <1>6 DEF vars, entityVars, healthVars, stopVars, ReloadInv, TypeOK, HoldsMutex,
              PointersCleared, SnapInstalled, UpAfterBind, NoStrayHealth
<1>7. QED
  BY <1>1, <1>2, <1>3, <1>4, <1>5, <1>6 DEF Next, ReloadStep, ShutdownStep, Exited

-----------------------------------------------------------------------------
(* The watcher's steps are HotReload's, or leave its state as it is: a      *)
(* goroutine that could not read the file, or came before the server was    *)
(* started, is a build that failed.                                         *)
LEMMA WatchStepIsStep == [WatchNext]_allVars => [Next]_vars
<1> SUFFICES ASSUME [WatchNext]_allVars PROVE [Next]_vars
  OBVIOUS
<1> USE DEF entityVars, healthVars, stopVars
<1>1. CASE Start \/ Write \/ FinishWrite \/ Tick \/ DropEvent
  BY <1>1 DEF Start, Write, FinishWrite, Tick, DropEvent, vars
<1>2. CASE \E g \in Gen : AcceptEvent(g)
  BY <1>2 DEF AcceptEvent, vars
<1>3. CASE \E g \in Gen : ReadConfig(g)
  <2> PICK g \in Gen : ReadConfig(g)  BY <1>3
  <2>1. Build(g) \/ UNCHANGED vars  BY DEF ReadConfig, Build, vars
  <2>2. QED  BY <2>1 DEF Next
<1>4. CASE \E g \in Gen : Callback(g)
  <2> PICK g \in Gen : Callback(g)  BY <1>4
  <2>1. Build(g)  BY DEF Callback, Build
  <2>2. QED  BY <2>1 DEF Next
<1>5. CASE \/ \E g \in Gen : ReloadStep(g) \/ CloseRetired(g)
           \/ Signal \/ ShutdownStep \/ Exited
  BY <1>5 DEF Next
<1>6. CASE UNCHANGED allVars  BY <1>6 DEF allVars, vars
<1>7. QED  BY <1>1, <1>2, <1>3, <1>4, <1>5, <1>6 DEF WatchNext, WatchStep

(* Reloads that the watcher starts are reloads (config.go:489-508; serve.go,*)
(* newReloadCallback).                                                      *)
THEOREM WatchedReloads == WatchSpec => Init /\ [][Next]_vars
<1>1. WatchInit => Init  BY DEF WatchInit
<1>2. QED  BY <1>1, WatchStepIsStep, PTL DEF WatchSpec

(* The inductive invariant holds of every behaviour of the watcher, its     *)
(* reloads and shutdown (server.go:60-125, 370-390).                        *)
THEOREM ReloadInvariance == WatchSpec => []ReloadInv
<1>1. QED  BY WatchedReloads, ReloadInitInv, ReloadNextInv, PTL

(* Every variable of the reloads keeps its type. *)
THEOREM ReloadTypes == WatchSpec => []TypeOK
<1>1. ReloadInv => TypeOK  BY DEF ReloadInv
<1>2. QED  BY <1>1, ReloadInvariance, PTL

(* A rebuild never finds the port held by an earlier instance               *)
(* (server.go:74-98).                                                       *)
THEOREM RebuildFindsPort == WatchSpec => []PortIsFree
<1>1. ReloadInv => PortIsFree  BY OnlyOwnRuns DEF PortIsFree, Rebuilding
<1>2. QED  BY <1>1, ReloadInvariance, PTL

(* Every health instance that runs can be stopped (server.go:80-112).       *)
THEOREM HealthIsNeverLost == WatchSpec => []NoStrayHealth
<1>1. ReloadInv => NoStrayHealth  BY DEF ReloadInv
<1>2. QED  BY <1>1, ReloadInvariance, PTL

(* No endpoint comes to stay ready once shutdown has set the draining flag: *)
(* binding one begins its startup wait, and the wait ends with the flag     *)
(* passed on (health.go:226-238, server.go:88-104).                         *)
THEOREM NoneStaysReady == WatchSpec => DrainingSticks
<1> DEFINE Sticks == \A g \in Gen : draining /\ StaysReady(g)' => StaysReady(g)
<1>1. ASSUME ReloadInv, [Next]_vars PROVE Sticks
  <2> SUFFICES ASSUME NEW b \in Gen, draining, b \in bound' \ drained', place'[b] # "serving"
               PROVE  b \in bound \ drained /\ place[b] # "serving"
    BY DEF StaysReady
  <2>1. ASSUME NEW g \in Gen, SetupHealthEndpoints(g) PROVE b \in bound \ drained /\ place[b] # "serving"
    <3>1. b # g \/ b \in bound
      BY <1>1, <2>1 DEF SetupHealthEndpoints, Goto, ReloadInv, TypeOK
    <3>2. b \in bound  BY <2>1, <3>1 DEF SetupHealthEndpoints
    <3>3. QED
      BY <1>1, <2>1, <3>2, OnlyOwnRuns DEF SetupHealthEndpoints, Rebuilding
  <2>2. ASSUME NEW g \in Gen, RecordHealth(g) PROVE b \in bound \ drained /\ place[b] # "serving"
    BY <1>1, <2>2 DEF RecordHealth, SetupReturns, NewHealthDrain, Goto, ReloadInv, TypeOK
  <2>3. CASE \A g \in Gen : ~SetupHealthEndpoints(g) /\ ~RecordHealth(g)
    <3>1. bound' \subseteq bound /\ drained \subseteq drained'
      BY <1>1, <2>3
         DEF Next, Build, ReloadStep, SwapHandler, LockHealth, TearDown, SetupCheckRoutines,
             CloseRejected, CloseRetired, CloseOne, CloseGeneration, Signal, ShutdownStep,
             ReadHealth, SetDraining, DrainHealth, SkipRest, StopHealth, StartCloseAll, Exit,
             Exited, vars, healthVars
    <3>2. place[b] = "serving" => place'[b] = "serving"
      BY <1>1, <2>3
         DEF Next, Build, ReloadStep, SwapHandler, LockHealth, TearDown, SetupCheckRoutines,
             CloseRejected, CloseRetired, CloseOne, CloseGeneration, Signal, ShutdownStep,
             ReadHealth, SetDraining, DrainHealth, SkipRest, StopHealth, StartCloseAll, Exit,
             Exited, vars, Goto, ReloadInv, TypeOK
    <3>3. QED  BY <3>1, <3>2
  <2>4. QED  BY <2>1, <2>2, <2>3
<1>2. ReloadInv /\ [Next]_vars => [Sticks]_vars  BY <1>1
<1>3. QED  BY <1>2, ReloadInvariance, WatchedReloads, PTL DEF DrainingSticks

-----------------------------------------------------------------------------
(* What the watcher reads.  The inductive invariant: of the goroutines that *)
(* were started the last wakes up a second after its event, nobody reads    *)
(* before he wakes up, and a version that was not read yet is known to      *)
(* somebody who will read it.                                               *)

WatchTypes ==
  /\ file \in Nat \ {0}
  /\ now \in 0 .. MaxClock
  /\ lastLoad \in 0 .. MaxClock
  /\ due \in [Gen -> (0 .. MaxClock) \cup {Never}]
  /\ version \in [Gen -> Nat]

Unread(g) == version[g] = 0 /\ place[g] = "none"

SomeStarted == \E g \in Gen : due[g] # Never

FirstIsRead == version[FirstGen] # 0

SleepersRead == \A g \in Gen : now < due[g] => g = FirstGen \/ Unread(g)

LastSleeper == SomeStarted => \E g \in Gen : due[g] = lastLoad + 1 /\ g # FirstGen

NewestIsKnown ==
  SomeStarted => \/ notice
                 \/ torn
                 \/ \E g \in Gen : due[g] # Never /\ Unread(g)
                 \/ \E g \in Gen : version[g] = file

WatchInv ==
  /\ TypeOK
  /\ WatchTypes
  /\ FirstIsRead
  /\ SleepersRead
  /\ LastSleeper
  /\ NewestIsKnown

LEMMA WatchInitInv == WatchInit => WatchInv
<1> SUFFICES ASSUME WatchInit PROVE WatchInv
  OBVIOUS
<1>1. TypeOK  BY ReloadInitInv DEF WatchInit, ReloadInv
<1>2. WatchTypes /\ FirstIsRead /\ ~SomeStarted
  BY HotReloadAssumption, ConfigWatchAssumption
     DEF WatchInit, WatchTypes, FirstIsRead, SomeStarted, Never
<1>3. SleepersRead
  BY HotReloadAssumption DEF WatchInit, Init, SleepersRead, Unread
<1>4. QED  BY <1>1, <1>2, <1>3 DEF WatchInv, LastSleeper, NewestIsKnown

(* The file, the clock and the events.                                      *)
LEMMA OutsideWatchInv ==
  ASSUME WatchInv, TypeOK', Start \/ Write \/ FinishWrite \/ Tick \/ DropEvent
  PROVE  WatchInv'
<1> USE DEF WatchInv, WatchTypes, FirstIsRead, SleepersRead, LastSleeper, NewestIsKnown,
            SomeStarted, Unread, vars, fileVars
<1>1. CASE Start  BY <1>1 DEF Start
<1>2. CASE Write  BY <1>2 DEF Write
<1>3. CASE FinishWrite  BY <1>3 DEF FinishWrite
<1>4. CASE Tick  BY <1>4, ConfigWatchAssumption DEF Tick, Never
<1>5. CASE DropEvent
  <2>1. ASSUME SomeStarted PROVE \E g \in Gen : due[g] # Never /\ Unread(g)
    <3>1. PICK g \in Gen : due[g] = lastLoad + 1 /\ g # FirstGen  BY <2>1
    <3>2. now < due[g] /\ due[g] # Never
      BY <1>5, <3>1, ConfigWatchAssumption DEF DropEvent, Never
    <3>3. QED  BY <3>1, <3>2
  <2>2. QED  BY <1>5, <2>1 DEF DropEvent
<1>6. QED  BY <1>1, <1>2, <1>3, <1>4, <1>5

(* An event that is acted on.                                               *)
LEMMA AcceptInv ==
  ASSUME WatchInv, TypeOK', NEW g \in Gen, AcceptEvent(g)
  PROVE  WatchInv'
<1> USE DEF AcceptEvent, vars
<1>1. g # FirstGen /\ due[g] = Never /\ now < MaxClock
  BY ConfigWatchAssumption DEF Unused, WatchInv, FirstIsRead
<1>2. Unread(g)
  BY <1>1, ConfigWatchAssumption DEF WatchInv, WatchTypes, SleepersRead, Never
<1>3. WatchTypes'
  BY <1>1, ConfigWatchAssumption DEF WatchInv, WatchTypes
<1>4. due'[g] = lastLoad' + 1 /\ due'[g] # Never /\ Unread(g)'
  BY <1>1, <1>2, ConfigWatchAssumption DEF WatchInv, WatchTypes, Never, Unread
<1>5. SleepersRead'
  BY <1>4 DEF WatchInv, WatchTypes, SleepersRead, Unread
<1>6. QED
  BY <1>1, <1>3, <1>4, <1>5 DEF WatchInv, FirstIsRead, LastSleeper, NewestIsKnown

(* A goroutine reads the file: the newest version, or none while it is      *)
(* being written, and then there will be another event.                     *)
LEMMA ReadInv ==
  ASSUME WatchInv, TypeOK', NEW g \in Gen, ReadConfig(g)
  PROVE  WatchInv'
<1> USE DEF ReadConfig, fileVars
<1>1. WatchTypes' /\ FirstIsRead'
  BY HotReloadAssumption DEF WatchInv, WatchTypes, FirstIsRead
<1>2. SleepersRead'
  <2>1. ~(now < due[g])
    BY ConfigWatchAssumption DEF WatchInv, WatchTypes, Never
  <2>2. \A h \in Gen : h # g => version'[h] = version[h] /\ place'[h] = place[h]
    BY DEF WatchInv, WatchTypes, TypeOK, Goto
  <2>3. QED  BY <2>1, <2>2 DEF WatchInv, SleepersRead, Unread
<1>3. LastSleeper' /\ (SomeStarted' <=> SomeStarted)
  BY DEF WatchInv, LastSleeper, SomeStarted
<1>4. NewestIsKnown'
  <2>1. CASE torn  BY <2>1 DEF NewestIsKnown
  <2>2. CASE ~torn  BY <2>2 DEF WatchInv, WatchTypes, NewestIsKnown
  <2>3. QED  BY <2>1, <2>2
<1>5. QED  BY <1>1, <1>2, <1>3, <1>4 DEF WatchInv

(* What the reloads do with what was read is of no account here.            *)
LEMMA BuildingInv ==
  ASSUME WatchInv, TypeOK', UNCHANGED watchVars,
         \A g \in Gen : Unread(g) => place'[g] = "none"
  PROVE  WatchInv'
BY DEF WatchInv, WatchTypes, FirstIsRead, SleepersRead, LastSleeper, NewestIsKnown,
       SomeStarted, Unread, watchVars, fileVars

LEMMA CallbackInv ==
  ASSUME WatchInv, TypeOK', NEW g \in Gen, Callback(g)
  PROVE  WatchInv'
<1>1. \A h \in Gen : h # g => place'[h] = place[h]
  BY DEF Callback, Build, Goto, WatchInv, TypeOK
<1>2. ~Unread(g)  BY DEF Callback, Unread
<1>3. QED  BY <1>1, <1>2, BuildingInv DEF Callback, Unread

LEMMA ReloadingInv ==
  ASSUME WatchInv, TypeOK', UNCHANGED watchVars,
         \/ \E g \in Gen : ReloadStep(g) \/ CloseRetired(g)
         \/ Signal \/ ShutdownStep \/ Exited
  PROVE  WatchInv'
<1>1. \A h \in Gen : place[h] = "none" => place'[h] = "none"
  BY DEF WatchInv, TypeOK, ReloadStep, SwapHandler, LockHealth, TearDown, SetupCheckRoutines,
         SetupHealthEndpoints, RecordHealth, SetupReturns, CloseRejected, CloseRetired, CloseOne, CloseGeneration, Goto, Signal, ShutdownStep, ReadHealth,
         SetDraining, DrainHealth, SkipRest, StopHealth, StartCloseAll, Exit, Exited, vars
<1>2. QED  BY <1>1, BuildingInv DEF Unread

LEMMA WatchNextInv == WatchInv /\ TypeOK' /\ [WatchNext]_allVars => WatchInv'
<1> SUFFICES ASSUME WatchInv, TypeOK', [WatchNext]_allVars PROVE WatchInv'
  OBVIOUS
<1>1. CASE Start \/ Write \/ FinishWrite \/ Tick \/ DropEvent  BY <1>1, OutsideWatchInv
<1>2. CASE \E g \in Gen : AcceptEvent(g)  BY <1>2, AcceptInv
<1>3. CASE \E g \in Gen : ReadConfig(g)  BY <1>3, ReadInv
<1>4. CASE \E g \in Gen : Callback(g)  BY <1>4, CallbackInv
<1>5. CASE /\ \/ \E g \in Gen : ReloadStep(g) \/ CloseRetired(g)
              \/ Signal \/ ShutdownStep \/ Exited
           /\ UNCHANGED watchVars
  BY <1>5, ReloadingInv
<1>6. CASE UNCHANGED allVars
  BY <1>6, BuildingInv DEF allVars, vars, Unread
<1>7. QED  BY <1>1, <1>2, <1>3, <1>4, <1>5, <1>6 DEF WatchNext, WatchStep

(* The watcher's own inductive invariant holds of its specification         *)
(* (config.go:470-510).                                                     *)
THEOREM WatchInvariance == WatchSpec => []WatchInv
<1>1. QED  BY WatchInitInv, WatchNextInv, ReloadTypes, PTL DEF WatchSpec

(* No change of the file is missed once a first reload was started, however *)
(* many events come within the second and however late the goroutines wake  *)
(* up (config.go:490-501).                                                  *)
THEOREM ChangesAreNotMissed == WatchSpec => []NewestIsRead
<1>1. WatchInv => NewestIsRead
  BY DEF WatchInv, NewestIsKnown, SomeStarted, Unread, NewestIsRead, Quiet
<1>2. QED  BY <1>1, WatchInvariance, PTL
================================================================================
