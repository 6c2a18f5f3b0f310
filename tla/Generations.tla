----------------------------- MODULE Generations -----------------------------
(***************************************************************************)
(* Entity generations of the tile server (internal/server/generation.go    *)
(* and its users in tile_handler.go, server.go and shutdown.go).           *)
(*                                                                         *)
(* A configuration reload builds a whole new set of entities - one         *)
(* generation - and swaps the handler's pointer to it.  The previous       *)
(* generation has to stay usable until the last request that picked it up  *)
(* returns, has to be closed then, exactly once, and at shutdown every     *)
(* generation the registry knows is closed within one shared deadline.     *)
(* Three kinds of goroutine may find that it is their turn to close one:   *)
(* the request that drops the last reference, the timer markClosing        *)
(* starts, and the shutdown sequence.  They all go through closeNow.       *)
(*                                                                         *)
(* Every section the code runs under generation.mu, under the registry's   *)
(* mutex, or under the handler's write lock is one action.  The handler's  *)
(* read lock is held over two actions (ReadPointer, Acquire).              *)
(***************************************************************************)
EXTENDS Integers, FiniteSets

CONSTANTS
  Gen,        \* the generations that may be built (bound: one reload per element but FirstGen)
  FirstGen,   \* the generation the server starts with
  Req,        \* handler goroutines; a goroutine that returned may serve another request
  Shutdown,   \* the goroutine that runs runShutdown
  None        \* no generation

ASSUME GenerationsAssumption ==
  /\ FirstGen \in Gen
  /\ None \notin Gen
  /\ IsFiniteSet(Req)
  /\ Req \cap Gen = {}
  /\ Shutdown \notin Req \cup Gen

VARIABLES
  serving,    \* tileHandler.entities.gen
  reload,     \* [Gen -> place of the goroutine that installs this generation]
  old,        \* [Gen -> oldEntities.gen of that goroutine]
  refs,       \* generation.refs
  closing,    \* generation.closing
  closed,     \* generation.closed
  closes,     \* generation.closes
  done,       \* generation.done has been closed
  live,       \* generationRegistry.live
  pc,         \* [Actor -> place of the goroutine]
  hold,       \* [Actor -> the generation its code is about]
  conn,       \* requests whose connection http.Server still counts as active
  gens,       \* closeAll's local slice, as a set
  todo,       \* the part of gens its loop has not reached
  expired     \* the shutdown context is done

reloadVars   == <<serving, reload, old>>
countVars    == <<refs, closing>>
closeVars    == <<closed, closes, done>>
shutdownVars == <<gens, todo, expired>>
vars == <<serving, reload, old, refs, closing, closed, closes, done, live,
          pc, hold, conn, gens, todo, expired>>

(* The goroutine markClosing starts for a generation is named by that generation. *)
Actor == Req \cup Gen \cup {Shutdown}

ReloadPlace   == {"none", "added", "pending", "swapped", "finished"}
ClosePlace    == {"call", "closing", "remove", "wait"}
RequestPlace  == {"idle", "arrived", "locked", "using"} \cup ClosePlace
TimerPlace    == {"none", "sleeping", "ended"} \cup ClosePlace
ShutdownPlace == {"up", "drain", "server", "check", "loop", "idlewait",
                  "forget", "exited"} \cup ClosePlace

Init ==
  /\ serving = FirstGen
  /\ reload  = [g \in Gen |-> IF g = FirstGen THEN "finished" ELSE "none"]
  /\ old     = [g \in Gen |-> None]
  /\ refs    = [g \in Gen |-> 0]
  /\ closing = [g \in Gen |-> FALSE]
  /\ closed  = [g \in Gen |-> FALSE]
  /\ closes  = [g \in Gen |-> 0]
  /\ done    = [g \in Gen |-> FALSE]
  /\ live    = {FirstGen}
  /\ pc      = [a \in Actor |-> IF a \in Req THEN "idle"
                                ELSE IF a \in Gen THEN "none" ELSE "up"]
  /\ hold    = [a \in Actor |-> IF a \in Gen THEN a ELSE None]
  /\ conn    = {}
  /\ gens    = {}
  /\ todo    = {}
  /\ expired = FALSE

Goto(a, place) == pc' = [pc EXCEPT ![a] = place]

-----------------------------------------------------------------------------
(* Requests: tileHandler.ServeHTTP under http.Server and TimeoutHandler.    *)

(* A connection is accepted while the listeners are open, which they are    *)
(* through the drain delay.                                                 *)
Arrive(r) ==
  /\ pc[r] = "idle"
  /\ pc[Shutdown] \in {"up", "drain"}
  /\ Goto(r, "arrived")
  /\ conn' = conn \cup {r}
  /\ UNCHANGED <<reloadVars, countVars, closeVars, live, hold, shutdownVars>>

(* entityMutex.RLock and the read of h.entities.  A writer that already     *)
(* called Lock holds new readers off.                                       *)
ReadPointer(r) ==
  /\ pc[r] = "arrived"
  /\ \A g \in Gen : reload[g] # "pending"
  /\ hold' = [hold EXCEPT ![r] = serving]
  /\ Goto(r, "locked")
  /\ UNCHANGED <<reloadVars, countVars, closeVars, live, conn, shutdownVars>>

(* gen.acquire and entityMutex.RUnlock. *)
Acquire(r) ==
  /\ pc[r] = "locked"
  /\ refs' = [refs EXCEPT ![hold[r]] = @ + 1]
  /\ Goto(r, "using")
  /\ UNCHANGED <<reloadVars, closing, closeVars, live, hold, conn, shutdownVars>>

(* Mutant of Release: only the timer closes a retired generation. *)
ReleaseNeverCloses(r) ==
  /\ pc[r] = "using"
  /\ refs' = [refs EXCEPT ![hold[r]] = @ - 1]
  /\ Goto(r, "idle")
  /\ conn' = conn \ {r}
  /\ UNCHANGED <<reloadVars, closing, closeVars, live, hold, shutdownVars>>

(* The deferred gen.release: the last request of a retired generation goes  *)
(* on to close it, still inside the handler, so its connection stays active. *)
Release(r) ==
  LET g == hold[r]
      shouldClose == closing[g] /\ refs[g] - 1 <= 0 /\ ~closed[g]
  IN
  /\ pc[r] = "using"
  /\ refs' = [refs EXCEPT ![g] = @ - 1]
  /\ Goto(r, IF shouldClose THEN "call" ELSE "idle")
  /\ conn' = IF shouldClose THEN conn ELSE conn \ {r}
  /\ UNCHANGED <<reloadVars, closing, closeVars, live, hold, shutdownVars>>

(* http.TimeoutHandler answers for a handler that is still running; the     *)
(* connection is free while the goroutine keeps its reference.              *)
TimeoutFires(r) ==
  /\ r \in conn
  /\ pc[r] \notin {"arrived", "locked"}
  /\ conn' = conn \ {r}
  /\ UNCHANGED <<reloadVars, countVars, closeVars, live, pc, hold, shutdownVars>>

-----------------------------------------------------------------------------
(* Reloads: setupHandlers' reloadFunc and tileHandler.reloadEntities.  The  *)
(* configuration watcher starts each on a goroutine of its own.             *)

(* newGeneration and registry.add. *)
AddGeneration(g) ==
  /\ reload[g] = "none"
  /\ reload' = [reload EXCEPT ![g] = "added"]
  /\ live' = live \cup {g}
  /\ UNCHANGED <<serving, old, countVars, closeVars, pc, hold, conn, shutdownVars>>

(* entityMutex.Lock is called: it waits for the readers inside. *)
RequestSwap(g) ==
  /\ reload[g] = "added"
  /\ reload' = [reload EXCEPT ![g] = "pending"]
  /\ UNCHANGED <<serving, old, countVars, closeVars, live, pc, hold, conn, shutdownVars>>

(* Mutant of Swap: the pointer is written without the write lock. *)
SwapUnlocked(g) ==
  /\ reload[g] = "pending"
  /\ old' = [old EXCEPT ![g] = serving]
  /\ serving' = g
  /\ reload' = [reload EXCEPT ![g] = "swapped"]
  /\ UNCHANGED <<countVars, closeVars, live, pc, hold, conn, shutdownVars>>

(* The write lock's critical section. *)
Swap(g) ==
  /\ reload[g] = "pending"
  /\ \A r \in Req : pc[r] # "locked"
  /\ old' = [old EXCEPT ![g] = serving]
  /\ serving' = g
  /\ reload' = [reload EXCEPT ![g] = "swapped"]
  /\ UNCHANGED <<countVars, closeVars, live, pc, hold, conn, shutdownVars>>

(* oldEntities.gen.markClosing: the flag, and the goroutine that sleeps     *)
(* generationCloseFloor.                                                    *)
MarkClosing(g) ==
  /\ reload[g] = "swapped"
  /\ closing' = [closing EXCEPT ![old[g]] = TRUE]
  /\ Goto(old[g], "sleeping")
  /\ reload' = [reload EXCEPT ![g] = "finished"]
  /\ UNCHANGED <<serving, old, refs, closeVars, live, hold, conn, shutdownVars>>

(* Mutant of TimerFires: the floor is taken for a drain. *)
TimerIgnoresRefs(g) ==
  /\ pc[g] = "sleeping"
  /\ Goto(g, IF closed[g] THEN "ended" ELSE "call")
  /\ UNCHANGED <<reloadVars, countVars, closeVars, live, hold, conn, shutdownVars>>

(* The floor has passed: close an idle generation, leave a busy one to the  *)
(* last release.                                                            *)
TimerFires(g) ==
  /\ pc[g] = "sleeping"
  /\ Goto(g, IF refs[g] <= 0 /\ ~closed[g] THEN "call" ELSE "ended")
  /\ UNCHANGED <<reloadVars, countVars, closeVars, live, hold, conn, shutdownVars>>

-----------------------------------------------------------------------------
(* closeNow, run by any actor that decided to close hold[a].                *)

(* Where the caller of closeNow goes on. *)
AfterClose(a) ==
  CASE a \in Req -> "idle"
    [] a \in Gen -> "ended"
    [] OTHER     -> "forget"

(* Leaving closeNow; a request's handler returns and frees its connection. *)
ReturnFromClose(a) ==
  /\ Goto(a, AfterClose(a))
  /\ conn' = conn \ {a}

(* The locked section: the first caller closes, any other waits on done. *)
CloseNow(a) ==
  LET g == hold[a] IN
  /\ pc[a] = "call"
  /\ \/ /\ closed[g]
        /\ Goto(a, "wait")
        /\ UNCHANGED <<closed, closes>>
     \/ /\ ~closed[g]
        /\ closed' = [closed EXCEPT ![g] = TRUE]
        /\ closes' = [closes EXCEPT ![g] = @ + 1]
        /\ Goto(a, "closing")
  /\ UNCHANGED <<reloadVars, countVars, done, live, hold, conn, shutdownVars>>

(* Entities.Close returned, with or without an error: close(done). *)
CloseReturns(a) ==
  /\ pc[a] = "closing"
  /\ done' = [done EXCEPT ![hold[a]] = TRUE]
  /\ Goto(a, "remove")
  /\ UNCHANGED <<reloadVars, countVars, closed, closes, live, hold, conn, shutdownVars>>

(* onClosed, which is registry.remove. *)
OnClosed(a) ==
  /\ pc[a] = "remove"
  /\ live' = live \ {hold[a]}
  /\ ReturnFromClose(a)
  /\ UNCHANGED <<reloadVars, countVars, closeVars, hold, shutdownVars>>

(* Mutant of WaitReturns: closed is taken for finished. *)
WaitNotAtAll(a) ==
  /\ pc[a] = "wait"
  /\ ReturnFromClose(a)
  /\ UNCHANGED <<reloadVars, countVars, closeVars, live, hold, shutdownVars>>

(* The select on done and ctx.Done(); a reload's context has no deadline. *)
WaitReturns(a) ==
  /\ pc[a] = "wait"
  /\ done[hold[a]] \/ (a = Shutdown /\ expired)
  /\ ReturnFromClose(a)
  /\ UNCHANGED <<reloadVars, countVars, closeVars, live, hold, shutdownVars>>

-----------------------------------------------------------------------------
(* Shutdown: the parts of runShutdown that touch requests and generations,  *)
(* and generationRegistry.closeAll.                                         *)

Signal ==
  /\ pc[Shutdown] = "up"
  /\ Goto(Shutdown, "drain")
  /\ UNCHANGED <<reloadVars, countVars, closeVars, live, hold, conn, shutdownVars>>

(* The budget's context expires at any time after runShutdown began. *)
Expire ==
  /\ pc[Shutdown] \notin {"up", "exited"}
  /\ ~expired
  /\ expired' = TRUE
  /\ UNCHANGED <<reloadVars, countVars, closeVars, live, pc, hold, conn, gens, todo>>

(* The drain delay is over and srv.Shutdown closes the listeners, or the    *)
(* context ended first.                                                     *)
DrainOver ==
  /\ pc[Shutdown] = "drain"
  /\ \/ Goto(Shutdown, "server")
     \/ expired /\ Goto(Shutdown, "exited")
  /\ UNCHANGED <<reloadVars, countVars, closeVars, live, hold, conn, shutdownVars>>

(* srv.Shutdown returns: no active connection, or the context is done. *)
ServerStops ==
  /\ pc[Shutdown] = "server"
  /\ conn = {} \/ expired
  /\ Goto(Shutdown, "check")
  /\ UNCHANGED <<reloadVars, countVars, closeVars, live, hold, conn, shutdownVars>>

(* A spent budget skips the remaining phases; otherwise closeAll copies the *)
(* registry under its lock.                                                 *)
SnapshotOrSkip ==
  /\ pc[Shutdown] = "check"
  /\ \/ /\ expired
        /\ Goto(Shutdown, "exited")
        /\ UNCHANGED <<gens, todo>>
     \/ /\ ~expired
        /\ gens' = live
        /\ todo' = live
        /\ Goto(Shutdown, "loop")
  /\ UNCHANGED <<reloadVars, countVars, closeVars, live, hold, conn, expired>>

NextGeneration ==
  /\ pc[Shutdown] = "loop"
  /\ \/ \E g \in todo :
          /\ hold' = [hold EXCEPT ![Shutdown] = g]
          /\ todo' = todo \ {g}
          /\ Goto(Shutdown, "idlewait")
     \/ /\ todo = {}
        /\ Goto(Shutdown, "exited")
        /\ UNCHANGED <<hold, todo>>
  /\ UNCHANGED <<reloadVars, countVars, closeVars, live, conn, gens, expired>>

(* Mutant of IdleOrExpired: the deadline is ignored. *)
IdleOnly ==
  /\ pc[Shutdown] = "idlewait"
  /\ refs[hold[Shutdown]] <= 0
  /\ Goto(Shutdown, "call")
  /\ UNCHANGED <<reloadVars, countVars, closeVars, live, hold, conn, shutdownVars>>

(* waitForIdle returns. *)
IdleOrExpired ==
  /\ pc[Shutdown] = "idlewait"
  /\ refs[hold[Shutdown]] <= 0 \/ expired
  /\ Goto(Shutdown, "call")
  /\ UNCHANGED <<reloadVars, countVars, closeVars, live, hold, conn, shutdownVars>>

(* closeAll's own r.remove after closeNow. *)
Forget ==
  /\ pc[Shutdown] = "forget"
  /\ live' = live \ {hold[Shutdown]}
  /\ Goto(Shutdown, "loop")
  /\ UNCHANGED <<reloadVars, countVars, closeVars, hold, conn, shutdownVars>>

(* The process may end here; its goroutines run on until it does. *)
Exited == pc[Shutdown] = "exited" /\ UNCHANGED vars

-----------------------------------------------------------------------------
RequestStep(r) ==
  Arrive(r) \/ ReadPointer(r) \/ Acquire(r) \/ Release(r) \/ TimeoutFires(r)

ReloadStep(g) ==
  AddGeneration(g) \/ RequestSwap(g) \/ Swap(g) \/ MarkClosing(g)

CloseStep(a) ==
  CloseNow(a) \/ CloseReturns(a) \/ OnClosed(a) \/ WaitReturns(a)

ShutdownStep ==
  DrainOver \/ ServerStops \/ SnapshotOrSkip \/ NextGeneration \/ IdleOrExpired \/ Forget

Next ==
  \/ \E r \in Req : RequestStep(r)
  \/ \E g \in Gen : ReloadStep(g) \/ TimerFires(g)
  \/ \E a \in Actor : CloseStep(a)
  \/ Signal
  \/ Expire
  \/ ShutdownStep
  \/ Exited

Spec == Init /\ [][Next]_vars

(* Runnable goroutines are scheduled, timers fire and the shutdown deadline *)
(* passes.  Nothing makes a request arrive, a reload or a signal happen, a  *)
(* handler return or Entities.Close return: a retired generation is closed  *)
(* under a context without a deadline, and a flush or a pool's Close may    *)
(* wait for ever.                                                           *)
Fairness ==
  /\ \A r \in Req : WF_vars(ReadPointer(r)) /\ WF_vars(Acquire(r))
  /\ \A g \in Gen : /\ WF_vars(RequestSwap(g)) /\ WF_vars(Swap(g))
                    /\ WF_vars(MarkClosing(g)) /\ WF_vars(TimerFires(g))
  /\ \A a \in Actor : WF_vars(CloseNow(a)) /\ WF_vars(OnClosed(a)) /\ WF_vars(WaitReturns(a))
  /\ WF_vars(ShutdownStep) /\ WF_vars(Expire)

LiveSpec == Spec /\ Fairness

-----------------------------------------------------------------------------
(* Properties.                                                              *)

(* The values of the handler's pointer, the generations' fields, the        *)
(* registry and the goroutines' places.                                     *)
TypeOK ==
  /\ serving \in Gen
  /\ reload  \in [Gen -> ReloadPlace]
  /\ old     \in [Gen -> Gen \cup {None}]
  /\ refs    \in [Gen -> Nat]
  /\ closing \in [Gen -> BOOLEAN]
  /\ closed  \in [Gen -> BOOLEAN]
  /\ closes  \in [Gen -> Nat]
  /\ done    \in [Gen -> BOOLEAN]
  /\ live    \in SUBSET Gen
  /\ pc      \in [Actor -> RequestPlace \cup TimerPlace \cup ShutdownPlace]
  /\ hold    \in [Actor -> Gen \cup {None}]
  /\ conn    \in SUBSET Req
  /\ gens    \in SUBSET Gen
  /\ todo    \in SUBSET gens
  /\ expired \in BOOLEAN

Users(g) == {r \in Req : pc[r] = "using" /\ hold[r] = g}

(* Neither a reload's timer, nor another request's release, nor closeAll    *)
(* closes the entities a handler is still using; only a shutdown whose      *)
(* deadline has passed may (generation.go, closeAll and waitForIdle).       *)
NoCloseInUse ==
  \A r \in Req : pc[r] = "using" /\ closed[hold[r]] => expired

(* The pointer a reader has taken under the read lock is still the serving  *)
(* generation and still open when it takes its reference, so no request     *)
(* starts on closed entities, whatever reload and shutdown do meanwhile     *)
(* (tile_handler.go, ServeHTTP's critical section).                         *)
AcquireOpen ==
  \A r \in Req : pc[r] = "locked" => hold[r] = serving /\ ~closed[serving]

(* Entities.Close runs at most once however many of release, the timer and  *)
(* closeAll decide to close (generation.go, closeNow).                      *)
ClosedOnce ==
  \A g \in Gen : closes[g] <= 1

(* closeAll does not move past a generation whose close another goroutine   *)
(* began but has not finished, so when the shutdown sequence ends within    *)
(* its budget every generation of its snapshot is fully drained             *)
(* (generation.go, closeNow's wait on done).                                *)
DrainedAtExit ==
  pc[Shutdown] = "exited" /\ ~expired => \A g \in gens : done[g]

(* The registry forgets a generation only when its close has finished: what *)
(* shutdown does not find in live needs no release (generationRegistry).    *)
ForgottenIsDone ==
  \A g \in Gen : reload[g] # "none" /\ g \notin live => done[g] \/ expired

(* A generation that was retired stays retired: the pointer never returns   *)
(* to it, and while the server runs what it points to is open               *)
(* (tile_handler.go, reloadEntities).                                       *)
ServingIsCurrent ==
  /\ ~closing[serving]
  /\ closed[serving] => gens # {}

(* The inductive invariant: what the proofs need besides the properties.    *)

(* The reference count is the number of handlers using the generation. *)
RefsCountUsers ==
  \A g \in Gen : refs[g] = Cardinality(Users(g))

(* Every goroutine is at a place of its own code, about a generation. *)
PlacesOK ==
  /\ \A r \in Req : /\ pc[r] \in RequestPlace
                    /\ pc[r] \notin {"idle", "arrived"} => hold[r] \in Gen
                    /\ pc[r] \in {"arrived", "locked"} => r \in conn
  /\ \A g \in Gen : pc[g] \in TimerPlace /\ hold[g] = g
  /\ pc[Shutdown] \in ShutdownPlace
  /\ pc[Shutdown] \in {"idlewait", "forget"} \cup ClosePlace => hold[Shutdown] \in Gen
  /\ pc[Shutdown] \in {"up", "drain", "server", "check"} => gens = {}
  /\ pc[Shutdown] \in {"loop", "idlewait", "forget"} \cup ClosePlace => gens # {}

Installed(g) == reload[g] \in {"swapped", "finished"}

(* A generation is replaced once, and marked closing once, by the reload    *)
(* that replaced it.                                                        *)
ReloadOrder ==
  /\ Installed(serving)
  /\ ~closing[serving]
  /\ \A g \in Gen :
       /\ closing[g] => Installed(g)
       /\ pc[g] # "none" => closing[g]
       /\ reload[g] = "swapped" =>
            /\ old[g] \in Gen
            /\ old[g] # serving
            /\ Installed(old[g])
            /\ ~closing[old[g]]
  /\ \A g, h \in Gen :
       reload[g] = "swapped" /\ reload[h] = "swapped" /\ old[g] = old[h] => g = h

(* After the registry was copied no request is left that has yet to take    *)
(* its reference.                                                           *)
StoppedIsQuiet ==
  /\ pc[Shutdown] = "check" /\ ~expired => conn = {}
  /\ gens # {} => \A r \in Req : pc[r] \notin {"arrived", "locked"}

(* Whoever decided to close a generation saw it idle, and it stays idle. *)
ClosersSeeIdle ==
  /\ \A a \in Req \cup Gen : pc[a] \in ClosePlace =>
       closing[hold[a]] /\ Users(hold[a]) = {}
  /\ pc[Shutdown] \in ClosePlace => Users(hold[Shutdown]) = {} \/ expired

ClosedIsIdle ==
  \A g \in Gen : closed[g] =>
    /\ Users(g) = {} \/ (expired /\ gens # {})
    /\ closing[g] \/ gens # {}

CloseProgress ==
  /\ \A g \in Gen : closes[g] = IF closed[g] THEN 1 ELSE 0
  /\ \A g \in Gen : done[g] => closed[g]
  /\ \A a \in Actor : pc[a] = "closing" => closed[hold[a]]
  /\ \A a \in Actor : pc[a] = "remove" => done[hold[a]]
  /\ pc[Shutdown] = "forget" => done[hold[Shutdown]] \/ expired

(* What closeAll's loop has passed is drained. *)
PassedIsDrained ==
  ~expired => \A g \in gens \ todo :
    \/ done[g]
    \/ g = hold[Shutdown] /\ pc[Shutdown] \in {"idlewait", "forget"} \cup ClosePlace
ExitIsPassed ==
  pc[Shutdown] = "exited" => todo = {} \/ expired

GenerationsInv ==
  /\ TypeOK
  /\ RefsCountUsers
  /\ PlacesOK
  /\ ReloadOrder
  /\ AcquireOpen
  /\ StoppedIsQuiet
  /\ ClosersSeeIdle
  /\ ClosedIsIdle
  /\ CloseProgress
  /\ ForgottenIsDone
  /\ PassedIsDrained
  /\ ExitIsPassed

-----------------------------------------------------------------------------
(* Temporal properties.                                                     *)

(* What a's own call of Entities.Close does: it returns. *)
CloseComesBack(a) == []<>(pc[a] # "closing")

(* A retired generation is eventually closed and forgotten, provided its    *)
(* requests and the calls of Entities.Close return: neither the timer nor   *)
(* the last release misses it (generation.go, markClosing and release).     *)
RetiredIsReleased ==
  /\ \A r \in Req : []<>(pc[r] # "using")
  /\ \A a \in Actor : CloseComesBack(a)
  => \A g \in Gen : closing[g] ~> (done[g] /\ g \notin live)

(* Shutdown ends although a handler never returns, and although the close   *)
(* some reload began never returns: only the closes it calls itself must    *)
(* (shutdown.go and closeAll share one deadline, closeNow waits by it).     *)
ShutdownEnds ==
  CloseComesBack(Shutdown) => (pc[Shutdown] = "drain" ~> pc[Shutdown] = "exited")

(* The generations implement the lifetime the package documents.            *)
Lifetime == INSTANCE EntityLifetime WITH
  current   <- serving,
  installed <- {g \in Gen : reload[g] \in {"swapped", "finished"}},
  users     <- [g \in Gen |-> Users(g)],
  released  <- {g \in Gen : closed[g]},
  mode      <- IF gens = {} THEN "serving" ELSE IF expired THEN "late" ELSE "stopping"

ImplementsLifetime == Lifetime!Spec
=============================================================================
