------------------------------- MODULE Entities --------------------------------
(***************************************************************************)
(* One generation of entities around its analytics batcher: built part by  *)
(* part by configToEntities (pkg/entry/utility.go), released by            *)
(* Entities.Close (pkg/entities/entities.go), which may run again while an *)
(* earlier call waits for the batcher.  The batcher writes through the     *)
(* datastores, so what Close does after the batcher's own Close decides    *)
(* what becomes of events still on their way.                              *)
(***************************************************************************)
EXTENDS Batcher, Sequences

(* What configToEntities constructs, in order, and what of it has a Close.  *)
Steps     == <<"config", "secret", "datastores", "cache", "auth", "analytics", "layers", "checks">>
Resources == {"datastores", "cache", "auth", "analytics", "layers"}
Partial   == {"datastores", "cache", "layers"}  \* several in one: the error of one leaves others

VARIABLES
  built,   \* how many Steps are done; -1 after an error
  held,    \* the Resources that are open
  stage    \* [Closer -> stage of its Entities.Close; failed: analytics' Close had an error]

entVars == <<built, held, stage>>
allVars == <<vars, entVars>>

Ready == built = Len(Steps)

EntInit ==
  /\ Init
  /\ built = 0
  /\ held  = {}
  /\ stage = [c \in Closer |-> "new"]

(* configToEntities: the next part, or its error, which leaves open what was *)
(* built before it.                                                          *)
Construct ==
  /\ built \in 0 .. Len(Steps) - 1
  /\ LET part == Steps[built + 1] IN
     \/ /\ built' = built + 1
        /\ held'  = held \cup ({part} \cap Resources)
     \/ /\ built' = -1
        /\ held' \in {held, held \cup ({part} \cap Partial)}
  /\ UNCHANGED <<vars, stage>>

(* The layers' providers and the authentication close first, whatever       *)
(* errors they return, then the analytics module's Close is called.         *)
CloseServing(c) ==
  /\ Ready
  /\ stage[c] = "new"
  /\ CallClose(c)
  /\ stage' = [stage EXCEPT ![c] = "analytics"]
  /\ held'  = held \ {"layers", "auth"}
  /\ UNCHANGED built

(* Mutant of CloseRest: errors.Join over all of them at once. *)
CloseAllOfThem(c) ==
  /\ stage[c] = "analytics"
  /\ close[c] \in {"ok", "expired"}
  /\ stage' = [stage EXCEPT ![c] = IF close[c] = "ok" THEN "done" ELSE "failed"]
  /\ held'  = held \ {"analytics", "cache", "datastores"}
  /\ UNCHANGED <<vars, built>>

(* Mutant of CloseRest: an error of analytics returns at once. *)
CloseStopsAtError(c) ==
  /\ stage[c] = "analytics"
  /\ \/ /\ close[c] = "ok"
        /\ stage' = [stage EXCEPT ![c] = "done"]
        /\ held'  = held \ {"analytics", "cache", "datastores"}
     \/ /\ close[c] \in {"ok", "expired"}
        /\ stage' = [stage EXCEPT ![c] = "failed"]
        /\ UNCHANGED held
  /\ UNCHANGED <<vars, built>>

(* The analytics module's Close returned.  Its error joins the batcher's    *)
(* with that of the hook a custom module's script may have, which can fail  *)
(* after the batcher was drained as well; with an error the datastores stay *)
(* open.  A hook that never returns leaves the call where it is.            *)
CloseRest(c) ==
  /\ stage[c] = "analytics"
  /\ \/ /\ close[c] = "ok"
        /\ stage' = [stage EXCEPT ![c] = "done"]
        /\ held'  = held \ {"analytics", "cache", "datastores"}
     \/ /\ close[c] \in {"ok", "expired"}
        /\ stage' = [stage EXCEPT ![c] = "failed"]
        /\ held'  = held \ {"cache"}
  /\ UNCHANGED <<vars, built>>

-----------------------------------------------------------------------------
(* The batcher's steps, its Close being called by CloseServing only.        *)
BatcherStep ==
  \/ \E e \in Event : CallAdd(e) \/ AddStep(e)
  \/ \E w \in Worker : WorkStep(w) \/ FlushReturns(w)
  \/ \E c \in Closer : CloseStep(c)
  \/ CallLock
  \/ Seal

(* A configuration that was refused serves nobody. *)
Refused == built = -1 /\ UNCHANGED allVars

EntNext ==
  \/ Construct
  \/ Ready /\ (BatcherStep \/ Quiet) /\ UNCHANGED entVars
  \/ \E c \in Closer : CloseServing(c) \/ CloseRest(c)
  \/ Refused

EntSpec == EntInit /\ [][EntNext]_allVars

EntLiveSpec == EntSpec /\ Fairness

-----------------------------------------------------------------------------
(* Properties.                                                              *)

(* As long as an accepted event is neither written nor counted as failed,   *)
(* and as long as a flush is under way, the datastores it is written        *)
(* through are open, whichever calls of Close returned, with success or     *)
(* with an error (entities.go:56-64).                                       *)
PendingCanBeWritten ==
  Ready /\ (\/ \E e \in Event : add[e] = "accepted" /\ ~Settled(e)
            \/ \E w \in Worker : work[w] \in Flushing)
    => "datastores" \in held

(* Entities.Close goes on past the analytics module's error: a call that    *)
(* met one, the batcher's or the script hook's, leaves nothing open but     *)
(* what the batcher may still need, and a call that met none leaves nothing *)
(* open at all, whatever the other calls did (entities.go:56-76).           *)
CloseReleases ==
  \A c \in Closer :
    /\ stage[c] = "done"   => held = {}
    /\ stage[c] = "failed" => held \subseteq {"analytics", "datastores"}
=============================================================================
