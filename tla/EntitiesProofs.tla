---------------------------- MODULE EntitiesProofs -----------------------------
(***************************************************************************)
(* Proofs about the batcher and about construction and close of the        *)
(* entities around it, for any finite set of events, any workers, callers  *)
(* of Close, queue capacity and batch size.  BatcherInv is inductive and   *)
(* the batcher implements EventLog; then, whatever the batcher's Close     *)
(* returned and however many calls of Entities.Close there are, no         *)
(* datastore is closed under a write, and nothing else is left open.       *)
(***************************************************************************)
EXTENDS Entities, FiniteSetTheorems, TLAPS

USE BatcherAssumption
USE DEF AddPlace, WorkPlace, SealPlace, ClosePlace, Flushing, NotRunning

-----------------------------------------------------------------------------
(* Sizes of channel and buffers. *)

(* A set of events is finite, and one more event adds at most one. *)
LEMMA OneMore ==
  ASSUME NEW S \in SUBSET Event, NEW e \in Event
  PROVE  /\ IsFiniteSet(S)
         /\ Cardinality(S) \in Nat
         /\ Cardinality(S \cup {e}) \in Nat
         /\ Cardinality(S \cup {e}) <= Cardinality(S) + 1
         /\ Cardinality(S \ {e}) \in Nat
         /\ Cardinality(S \ {e}) <= Cardinality(S)
<1>1. IsFiniteSet(S)  BY FS_Subset
<1>2. Cardinality(S) \in Nat  BY <1>1, FS_CardinalityType
<1>3. Cardinality(S \cup {e}) \in {Cardinality(S), Cardinality(S) + 1}
  BY <1>1, FS_AddElement
<1>4. Cardinality(S \ {e}) \in Nat /\ Cardinality(S \ {e}) <= Cardinality(S)
  <2>1. S \ {e} \subseteq S  OBVIOUS
  <2>2. QED  BY <1>1, <2>1, FS_Subset, FS_CardinalityType
<1>5. QED  BY <1>1, <1>2, <1>3, <1>4

-----------------------------------------------------------------------------
(* The invariant holds initially. *)
LEMMA InitInv == Init => BatcherInv
<1> SUFFICES ASSUME Init PROVE BatcherInv
  OBVIOUS
<1>0. Cardinality({}) = 0  BY FS_EmptySet
<1>1. TypeOK  BY DEF Init, TypeOK
<1>2. WithinBounds  BY <1>0 DEF Init, WithinBounds
<1>3. Conserved  BY DEF Init, Conserved, Buffered
<1>4. SendersSeeOpen  BY DEF Init, SendersSeeOpen
<1>5. DrainOrder  BY <1>0 DEF Init, DrainOrder
<1>6. QED  BY <1>1, <1>2, <1>3, <1>4, <1>5 DEF BatcherInv

(* The steps of Add that move no event: only the call's own place changes.  *)
LEMMA AddPlaceInv ==
  ASSUME BatcherInv, NEW e \in Event,
         CallAdd(e) \/ Enter(e) \/ Drop(e) \/ Cancel(e)
  PROVE  BatcherInv'
<1> USE DEF BatcherInv, CallAdd, Enter, Drop, Cancel
<1>1. TypeOK'  BY DEF TypeOK
<1>2. WithinBounds'  BY DEF WithinBounds
<1>3. Conserved'  BY DEF Conserved, TypeOK, Buffered, Settled
<1>4. SendersSeeOpen'  BY DEF SendersSeeOpen, TypeOK
<1>5. DrainOrder'  BY DEF DrainOrder
<1>6. QED  BY <1>1, <1>2, <1>3, <1>4, <1>5

(* A send grows the channel within its capacity, and only while the batcher *)
(* is not sealed, so no worker has yet found the channel empty for good.    *)
LEMMA SendInv ==
  ASSUME BatcherInv, NEW e \in Event, Send(e)
  PROVE  BatcherInv'
<1> USE DEF BatcherInv, Send
<1>1. TypeOK'  BY DEF TypeOK
<1>2. WithinBounds'
  <2>1. queue \in SUBSET Event  BY DEF TypeOK
  <2>2. /\ Cardinality(queue) \in Nat
        /\ Cardinality(queue \cup {e}) \in Nat
        /\ Cardinality(queue \cup {e}) <= Cardinality(queue) + 1
    BY <2>1, OneMore
  <2>3. Cardinality(queue') <= QueueSize  BY <2>2
  <2>4. QED  BY <2>3 DEF WithinBounds
<1>3. Conserved'  BY DEF Conserved, TypeOK, Buffered, Settled
<1>4. SendersSeeOpen'  BY DEF SendersSeeOpen, TypeOK
<1>5. DrainOrder'  BY DEF DrainOrder, SendersSeeOpen, TypeOK
<1>6. QED  BY <1>1, <1>2, <1>3, <1>4, <1>5

(* A receive, in either loop, moves one event from the channel to the       *)
(* worker's buffer, which then is flushed if it is full.                    *)
LEMMA ReceiveInv ==
  ASSUME BatcherInv, NEW w \in Worker, Take(w) \/ DrainTake(w)
  PROVE  BatcherInv'
<1> USE DEF BatcherInv
<1>1. PICK e \in queue :
        Receive(w, e, buf[w] \cup {e},
                IF Cardinality(buf[w] \cup {e}) >= MaxSize
                  THEN IF work[w] = "run" THEN "flush" ELSE "drainflush"
                  ELSE work[w])
        /\ work[w] \in {"run", "drain"}
  BY DEF Take, DrainTake
<1> USE <1>1 DEF Receive
<1>t. TypeOK'  BY DEF TypeOK
<1>e. /\ e \in Event /\ queue \in SUBSET Event /\ buf[w] \in SUBSET Event
      /\ buf' = [buf EXCEPT ![w] = buf[w] \cup {e}]
      /\ queue' = queue \ {e}
  BY DEF TypeOK
<1>c. /\ Cardinality(buf[w] \cup {e}) <= MaxSize
      /\ Cardinality(buf[w] \cup {e}) \in Nat
      /\ Cardinality(queue \ {e}) <= Cardinality(queue)
      /\ Cardinality(queue \ {e}) \in Nat /\ Cardinality(queue) \in Nat
  <2>1. Cardinality(buf[w]) < MaxSize  BY DEF DrainOrder
  <2>2. /\ Cardinality(buf[w]) \in Nat
        /\ Cardinality(buf[w] \cup {e}) \in Nat
        /\ Cardinality(buf[w] \cup {e}) <= Cardinality(buf[w]) + 1
    BY <1>e, OneMore
  <2>3. /\ Cardinality(queue) \in Nat
        /\ Cardinality(queue \ {e}) \in Nat
        /\ Cardinality(queue \ {e}) <= Cardinality(queue)
    BY <1>e, OneMore
  <2>4. QED  BY <2>1, <2>2, <2>3
<1>2. WithinBounds'
  BY <1>c, <1>e DEF WithinBounds, TypeOK
<1>3. Conserved'
  <2>1. add[e] = "accepted" /\ ~Buffered(e) /\ written[e] + failed[e] = 0
    BY <1>e DEF Conserved
  <2>2. \A x \in Event : Buffered(x)' <=> Buffered(x) \/ x = e
    BY <1>e DEF Buffered, TypeOK
  <2>3. \A v, u \in Worker : v # u => buf'[v] \cap buf'[u] = {}
    BY <1>e, <2>1 DEF Conserved, Buffered, TypeOK
  <2>4. QED  BY <1>e, <2>1, <2>2, <2>3 DEF Conserved, Settled
<1>4. SendersSeeOpen'  BY DEF SendersSeeOpen
<1>5. DrainOrder'
  <2>1. /\ buf'[w] = buf[w] \cup {e}
        /\ \A v \in Worker \ {w} : buf'[v] = buf[v] /\ work'[v] = work[v]
    BY <1>e DEF TypeOK
  <2>2. /\ work'[w] \in {"run", "drain"} => Cardinality(buf[w] \cup {e}) < MaxSize
        /\ work'[w] \in {"run", "drain", "flush", "drainflush"}
        /\ work'[w] \in {"drain", "drainflush"} => work[w] = "drain"
    BY <1>c DEF TypeOK
  <2>3. \A v \in Worker : work'[v] \in {"run", "drain"} => Cardinality(buf'[v]) < MaxSize
    BY <2>1, <2>2 DEF DrainOrder
  <2>4. \A v \in Worker : work[v] \notin {"lastflush", "exited"}
    BY <1>e DEF DrainOrder
  <2>5. \A v \in Worker : work'[v] \notin {"lastflush", "exited"}
    BY <2>1, <2>2, <2>4
  <2>6. \A v \in Worker : work'[v] \in {"drain", "drainflush"} => seal = "sealed"
    BY <2>1, <2>2 DEF DrainOrder
  <2>7. \A v \in Worker : work'[v] = "off" => buf'[v] = {}
    BY <2>1, <2>2 DEF DrainOrder
  <2>8. \E v \in Worker : work'[v] # "off"  BY <2>2
  <2>9. QED  BY <2>3, <2>4, <2>5, <2>6, <2>7, <2>8 DEF DrainOrder
<1>6. QED  BY <1>t, <1>2, <1>3, <1>4, <1>5

(* A worker changes its place and moves no event. *)
LEMMA WorkPlaceInv ==
  ASSUME BatcherInv, NEW w \in Worker, AgeFlush(w) \/ SeeDone(w) \/ DrainEmpty(w)
  PROVE  BatcherInv'
<1> USE DEF BatcherInv, AgeFlush, SeeDone, DrainEmpty
<1>1. TypeOK'  BY DEF TypeOK
<1>2. WithinBounds'  BY DEF WithinBounds
<1>3. Conserved'  BY DEF Conserved, Buffered, Settled
<1>4. SendersSeeOpen'  BY DEF SendersSeeOpen
<1>5. DrainOrder'  BY DEF DrainOrder, TypeOK
<1>6. QED  BY <1>1, <1>2, <1>3, <1>4, <1>5

(* A flush settles exactly the events of one buffer, which belong to no     *)
(* other, and empties it.                                                   *)
LEMMA FlushInv ==
  ASSUME BatcherInv, NEW w \in Worker, FlushReturns(w)
  PROVE  BatcherInv'
<1> USE DEF BatcherInv, FlushReturns
<1>0. Cardinality({}) = 0  BY FS_EmptySet
<1>1. TypeOK'  BY DEF TypeOK, Count, AfterFlush
<1>2. WithinBounds'  BY <1>0 DEF WithinBounds, TypeOK
<1>3. Conserved'
  <2>1. \A e \in Event : Buffered(e)' <=> Buffered(e) /\ e \notin buf[w]
    BY DEF Buffered, Conserved, TypeOK
  <2>2. \A e \in Event : e \in buf[w] => Buffered(e)
    BY DEF Buffered
  <2>3. \A e \in Event :
          written'[e] + failed'[e] = written[e] + failed[e] + (IF e \in buf[w] THEN 1 ELSE 0)
    BY DEF Count, TypeOK
  <2>4. \A u, v \in Worker : u # v => buf'[u] \cap buf'[v] = {}
    BY DEF Conserved, TypeOK
  <2>5. QED  BY <2>1, <2>2, <2>3, <2>4 DEF Conserved, Settled, TypeOK
<1>4. SendersSeeOpen'  BY DEF SendersSeeOpen
<1>5. DrainOrder'  BY <1>0 DEF DrainOrder, TypeOK, AfterFlush
<1>6. QED  BY <1>1, <1>2, <1>3, <1>4, <1>5

(* Sealing, and the calls of Close, move no event; the seal is set when no  *)
(* producer is sending, and success is reported when every worker exited.   *)
LEMMA CloseInv ==
  ASSUME BatcherInv,
         \/ CallLock
         \/ Seal
         \/ \E c \in Closer : CallClose(c) \/ CloseStep(c)
  PROVE  BatcherInv'
<1> USE DEF BatcherInv, CallLock, Seal, CallClose, CloseStep, SeeSealed, CloseFinishes, CloseExpires
<1>1. TypeOK'  BY DEF TypeOK
<1>2. WithinBounds'  BY DEF WithinBounds
<1>3. Conserved'  BY DEF Conserved, Buffered, Settled
<1>4. SendersSeeOpen'  BY DEF SendersSeeOpen
<1>5. DrainOrder'  BY DEF DrainOrder, TypeOK
<1>6. QED  BY <1>1, <1>2, <1>3, <1>4, <1>5

(* A step that changes nothing preserves the invariant. *)
LEMMA StutterInv == BatcherInv /\ UNCHANGED vars => BatcherInv'
BY DEF BatcherInv, TypeOK, WithinBounds, Conserved, Buffered, Settled,
       SendersSeeOpen, DrainOrder, vars

(* Every step preserves the invariant. *)
LEMMA NextInv == BatcherInv /\ [Next]_vars => BatcherInv'
<1> SUFFICES ASSUME BatcherInv, [Next]_vars PROVE BatcherInv'
  OBVIOUS
<1>1. ASSUME NEW e \in Event, CallAdd(e) \/ AddStep(e) PROVE BatcherInv'
  BY <1>1, AddPlaceInv, SendInv DEF AddStep
<1>2. ASSUME NEW w \in Worker, WorkStep(w) \/ FlushReturns(w) PROVE BatcherInv'
  BY <1>2, ReceiveInv, WorkPlaceInv, FlushInv DEF WorkStep
<1>3. CASE CallLock \/ Seal \/ \E c \in Closer : CallClose(c) \/ CloseStep(c)
  BY <1>3, CloseInv
<1>4. CASE UNCHANGED vars
  BY <1>4, StutterInv
<1>5. QED  BY <1>1, <1>2, <1>3, <1>4 DEF Next, Quiet

-----------------------------------------------------------------------------
(* The inductive invariant holds in every reachable state.                  *)
THEOREM Invariance == Spec => []BatcherInv
BY InitInv, NextInv, PTL DEF Spec

(* Channel and buffers stay within their configured sizes.                  *)
THEOREM StaysWithinBounds == Spec => []WithinBounds
<1>1. BatcherInv => WithinBounds  BY DEF BatcherInv
<1>2. QED  BY <1>1, Invariance, PTL

(* No accepted event is lost or written twice, whatever Close does.         *)
THEOREM EventsConserved == Spec => []Conserved
<1>1. BatcherInv => Conserved  BY DEF BatcherInv
<1>2. QED  BY <1>1, Invariance, PTL

(* No producer sends after the seal: the case <-b.done of Add is never      *)
(* taken.                                                                   *)
THEOREM NoSendAfterSeal == Spec => []SendersSeeOpen
<1>1. BatcherInv => SendersSeeOpen  BY DEF BatcherInv
<1>2. QED  BY <1>1, Invariance, PTL

(* After a successful Close nothing is buffered: a worker that has exited   *)
(* left neither channel nor buffer behind.                                  *)
LEMMA OkIsDrained ==
  ASSUME BatcherInv, NEW c \in Closer, close[c] = "ok"
  PROVE  \A e \in Event : add[e] # "sending" /\ (add[e] = "accepted" => Settled(e))
<1>1. seal = "sealed" /\ \A w \in Worker : work[w] \in NotRunning
  BY DEF BatcherInv, DrainOrder
<1>2. queue = {} /\ \A w \in Worker : buf[w] = {}
  BY <1>1 DEF BatcherInv, DrainOrder
<1>3. QED  BY <1>1, <1>2 DEF BatcherInv, Conserved, Buffered, SendersSeeOpen

(* A Close that reports success has drained the batcher.                    *)
THEOREM CloseSuccessDrains == Spec => []CloseDrains
<1>1. BatcherInv => CloseDrains  BY OkIsDrained DEF CloseDrains
<1>2. QED  BY <1>1, Invariance, PTL

-----------------------------------------------------------------------------
(* The refinement of EventLog.                                              *)

Ended == \E c \in Closer : close[c] = "ok"

(* While fate and ended keep their values the log stutters. *)
LEMMA LogStutter ==
  ASSUME \A e \in Event : Fate(e)' = Fate(e), Ended' = Ended
  PROVE  UNCHANGED Log!logVars
BY DEF Log!logVars, Ended

(* Steps that neither move Add past its send nor write nor report success   *)
(* of a Close are invisible.                                                *)
LEMMA InvisibleSteps ==
  ASSUME BatcherInv,
         \/ UNCHANGED vars
         \/ \E e \in Event : CallAdd(e)
         \/ \E w \in Worker : WorkStep(w)
         \/ CallLock
         \/ Seal
         \/ \E c \in Closer : CallClose(c) \/ SeeSealed(c) \/ CloseExpires(c)
  PROVE  UNCHANGED Log!logVars
<1>1. UNCHANGED <<written, failed>>
  BY DEF vars, CallAdd, WorkStep, Take, AgeFlush, SeeDone, DrainTake, DrainEmpty, Receive,
         CallLock, Seal, CallClose, SeeSealed, CloseExpires
<1>2. \A e \in Event : add'[e] = add[e] \/ (add[e] = "new" /\ add'[e] = "called")
  BY DEF vars, CallAdd, WorkStep, Take, AgeFlush, SeeDone, DrainTake, DrainEmpty, Receive,
         CallLock, Seal, CallClose, SeeSealed, CloseExpires, BatcherInv, TypeOK
<1>3. \A e \in Event : Fate(e)' = Fate(e)
  BY <1>1, <1>2 DEF Fate
<1>4. \A c \in Closer : close'[c] = "ok" <=> close[c] = "ok"
  BY DEF vars, CallAdd, WorkStep, Take, AgeFlush, SeeDone, DrainTake, DrainEmpty, Receive,
         CallLock, Seal, CallClose, SeeSealed, CloseExpires, BatcherInv, TypeOK
<1>5. QED  BY <1>3, <1>4, LogStutter DEF Ended

(* Entering, a send, a drop or a cancellation decides one event's fate; no  *)
(* Close has succeeded when an event is accepted.                           *)
LEMMA AddDecides ==
  ASSUME BatcherInv, NEW e \in Event, AddStep(e)
  PROVE  [Log!Next]_(Log!logVars)
<1> USE DEF AddStep
<1>1. UNCHANGED <<close, written, failed>>
  BY DEF Enter, Send, Drop, Cancel
<1>2. \A x \in Event \ {e} : Fate(x)' = Fate(x)
  BY <1>1 DEF Enter, Send, Drop, Cancel, Fate, BatcherInv, TypeOK
<1>3. Fate(e) = "none"
  BY DEF Enter, Send, Drop, Cancel, Fate
<1>4. written[e] + failed[e] = 0 /\ written[e] = 0 /\ failed[e] = 0
  BY DEF Enter, Send, Drop, Cancel, BatcherInv, Conserved, TypeOK
<1>5. CASE Send(e)
  <2>1. Fate(e)' = "pending"
    BY <1>1, <1>4, <1>5 DEF Send, Fate, BatcherInv, TypeOK
  <2>2. ~Ended
    BY <1>5, OkIsDrained DEF Send, Ended
  <2>3. Log!Accept(e)
    BY <1>1, <1>2, <1>3, <2>1, <2>2 DEF Log!Accept, Ended
  <2>4. QED  BY <2>3 DEF Log!Next
<1>6. CASE add'[e] \in {"refused", "dropped", "cancelled"}
  <2>1. Fate(e)' = "refused"
    BY <1>6 DEF Fate
  <2>2. Log!Refuse(e)
    BY <1>1, <1>2, <1>3, <2>1 DEF Log!Refuse
  <2>3. QED  BY <2>2 DEF Log!Next
<1>7. CASE add'[e] = "sending"
  <2>1. Fate(e)' = "none"
    BY <1>7 DEF Fate
  <2>2. QED  BY <1>1, <1>2, <1>3, <2>1, LogStutter DEF Ended
<1>8. QED  BY <1>5, <1>6, <1>7 DEF Enter, Drop, Cancel, BatcherInv, TypeOK

(* A flush that returned settles its batch, which was pending as a whole.   *)
LEMMA FlushSettles ==
  ASSUME BatcherInv, NEW w \in Worker, FlushReturns(w)
  PROVE  Log!Next
<1>1. /\ UNCHANGED <<add, close>>
      /\ buf[w] \in SUBSET Event
  BY DEF FlushReturns, BatcherInv, TypeOK
<1>2. \A e \in buf[w] : Fate(e) = "pending" /\ add[e] = "accepted" /\ written[e] = 0 /\ failed[e] = 0
  BY <1>1 DEF BatcherInv, Conserved, Buffered, TypeOK, Fate, Settled
<1>3. CASE written' = Count(written, buf[w]) /\ UNCHANGED failed
  <2>1. \A e \in Event : Fate(e)' = IF e \in buf[w] THEN "written" ELSE Fate(e)
    BY <1>1, <1>2, <1>3 DEF Fate, Count
  <2>2. Log!Settle(buf[w], "written")
    BY <1>1, <1>2, <2>1 DEF Log!Settle
  <2>3. QED  BY <1>1, <2>2 DEF Log!Next
<1>4. CASE failed' = Count(failed, buf[w]) /\ UNCHANGED written
  <2>1. \A e \in Event : Fate(e)' = IF e \in buf[w] THEN "failed" ELSE Fate(e)
    BY <1>1, <1>2, <1>4 DEF Fate, Count
  <2>2. Log!Settle(buf[w], "failed")
    BY <1>1, <1>2, <2>1 DEF Log!Settle
  <2>3. QED  BY <1>1, <2>2 DEF Log!Next
<1>5. QED  BY <1>3, <1>4 DEF FlushReturns

(* A Close reports success when no event is pending. *)
LEMMA FinishEnds ==
  ASSUME BatcherInv, NEW c \in Closer, CloseFinishes(c)
  PROVE  Log!Next
<1>1. BatcherInv'
  BY CloseInv DEF CloseStep
<1>2. close'[c] = "ok" /\ UNCHANGED <<add, written, failed>>
  BY DEF CloseFinishes, BatcherInv, TypeOK
<1>3. \A w \in Worker : work[w] \in NotRunning
  BY DEF CloseFinishes
<1>4. queue = {} /\ \A w \in Worker : buf[w] = {}
  BY <1>3 DEF BatcherInv, DrainOrder
<1>5. \A e \in Event : add[e] = "accepted" => Settled(e)
  BY <1>4 DEF BatcherInv, Conserved, Buffered
<1>6. \A e \in Event : Fate(e) # "pending"
  BY <1>5 DEF Fate, Settled, BatcherInv, TypeOK
<1>7. \A e \in Event : Fate(e)' = Fate(e)
  BY <1>2 DEF Fate
<1>8. Log!End
  BY <1>2, <1>6, <1>7 DEF Log!End
<1>9. QED  BY <1>8 DEF Log!Next

(* Every step of the batcher is a step of the log or a stutter. *)
LEMMA StepRefines == BatcherInv /\ [Next]_vars => [Log!Next]_(Log!logVars)
<1> SUFFICES ASSUME BatcherInv, [Next]_vars PROVE [Log!Next]_(Log!logVars)
  OBVIOUS
<1>1. ASSUME NEW e \in Event, CallAdd(e) \/ AddStep(e) PROVE [Log!Next]_(Log!logVars)
  BY <1>1, InvisibleSteps, AddDecides
<1>2. ASSUME NEW w \in Worker, WorkStep(w) \/ FlushReturns(w) PROVE [Log!Next]_(Log!logVars)
  BY <1>2, InvisibleSteps, FlushSettles
<1>3. ASSUME NEW c \in Closer, CallClose(c) \/ CloseStep(c) PROVE [Log!Next]_(Log!logVars)
  BY <1>3, InvisibleSteps, FinishEnds DEF CloseStep
<1>4. CASE CallLock \/ Seal \/ UNCHANGED vars
  BY <1>4, InvisibleSteps
<1>5. QED  BY <1>1, <1>2, <1>3, <1>4 DEF Next, Quiet

(* The batcher implements the log of settled events. *)
THEOREM EventLogRefinement == Spec => ImplementsEventLog
<1>1. Init => Log!Init
  BY DEF Init, Log!Init, Fate
<1>2. QED  BY <1>1, StepRefines, Invariance, PTL DEF Spec, ImplementsEventLog, Log!Spec

-----------------------------------------------------------------------------
(* The inductive invariant: from the moment they are built, the datastores  *)
(* are open until a call that drained the batcher has ended.                *)

Drained(c) == stage[c] = "done" /\ close[c] = "ok"

TypeInv ==
  /\ built \in -1 .. 8
  /\ held \subseteq Resources
  /\ stage \in [Closer -> {"new", "analytics", "done", "failed"}]

BuiltOrNew == built # 8 => \A c \in Closer : stage[c] = "new"

DatastoresOpen == built >= 3 => ("datastores" \in held \/ \E c \in Closer : Drained(c))

CalledAnalytics ==
  \A c \in Closer : stage[c] \in {"done", "failed"} => close[c] \in {"ok", "expired"}

ServingClosed == \A c \in Closer : stage[c] # "new" => held \cap {"layers", "auth"} = {}

EntInv ==
  /\ BatcherInv
  /\ TypeInv
  /\ BuiltOrNew
  /\ DatastoresOpen
  /\ CalledAnalytics
  /\ ServingClosed
  /\ CloseReleases

LEMMA EightSteps == Len(Steps) = 8
BY DEF Steps

LEMMA EntInitInv == EntInit => EntInv
<1> SUFFICES ASSUME EntInit PROVE EntInv
  OBVIOUS
<1>1. BatcherInv  BY InitInv DEF EntInit
<1>2. TypeInv  BY DEF EntInit, TypeInv
<1>3. BuiltOrNew /\ DatastoresOpen /\ CalledAnalytics /\ ServingClosed /\ CloseReleases
  BY DEF EntInit, BuiltOrNew, DatastoresOpen, CalledAnalytics, ServingClosed, CloseReleases
<1>4. QED  BY <1>1, <1>2, <1>3 DEF EntInv

(* A part more, or an error. *)
LEMMA ConstructInv == EntInv /\ Construct => EntInv'
<1> SUFFICES ASSUME EntInv, Construct PROVE EntInv'
  OBVIOUS
<1>1. BatcherInv'  BY StutterInv DEF Construct, EntInv
<1>2. built \in 0 .. 7 /\ UNCHANGED <<close, stage>>
  BY EightSteps DEF Construct, vars
<1>3. \A c \in Closer : stage[c] = "new"
  BY <1>2 DEF EntInv, BuiltOrNew
<1>4. held \subseteq held' /\ held' \subseteq Resources
  BY DEF Construct, EntInv, TypeInv, Partial, Resources
<1>5. built' \in {-1, built + 1}  BY DEF Construct
<1>6. built = 2 /\ built' = 3 => "datastores" \in held'
  <2> SUFFICES ASSUME built = 2, built' = 3 PROVE "datastores" \in held'
    OBVIOUS
  <2>1. Steps[built + 1] = "datastores"  BY DEF Steps
  <2>2. held' = held \cup ({"datastores"} \cap Resources)
    <3>1. held' = held \cup ({Steps[built + 1]} \cap Resources)  BY DEF Construct
    <3>2. QED  BY <2>1, <3>1
  <2>3. QED  BY <2>2 DEF Resources
<1>7. TypeInv'  BY <1>2, <1>4, <1>5 DEF EntInv, TypeInv
<1>8. BuiltOrNew' /\ CalledAnalytics' /\ ServingClosed' /\ CloseReleases'
  BY <1>2, <1>3 DEF BuiltOrNew, CalledAnalytics, ServingClosed, CloseReleases
<1>9. DatastoresOpen'
  BY <1>2, <1>4, <1>5, <1>6 DEF EntInv, DatastoresOpen, Drained
<1>10. QED  BY <1>1, <1>7, <1>8, <1>9 DEF EntInv

(* The batcher's steps keep what a call of Close got for its result.        *)
LEMMA BatcherStepInv ==
  ASSUME EntInv, [Next]_vars, UNCHANGED entVars,
         \A c \in Closer : close[c] \in {"ok", "expired"} => close'[c] = close[c]
  PROVE  EntInv'
<1>1. BatcherInv'  BY NextInv DEF EntInv
<1>2. TypeInv' /\ BuiltOrNew'
  BY DEF EntInv, TypeInv, BuiltOrNew, entVars
<1>3. \A c \in Closer : stage[c] = "done" => close'[c] = close[c]
  BY DEF EntInv, CalledAnalytics
<1>4. DatastoresOpen' /\ CalledAnalytics' /\ ServingClosed' /\ CloseReleases'
  BY <1>3 DEF EntInv, DatastoresOpen, Drained, CalledAnalytics, ServingClosed, CloseReleases, entVars
<1>5. QED  BY <1>1, <1>2, <1>4 DEF EntInv

LEMMA ResultStays ==
  ASSUME EntInv, BatcherStep \/ Quiet
  PROVE  \A c \in Closer : close[c] \in {"ok", "expired"} => close'[c] = close[c]
<1>1. close \in [Closer -> ClosePlace]  BY DEF EntInv, BatcherInv, TypeOK
<1>2. CASE \E c \in Closer : CloseStep(c)
  BY <1>1, <1>2 DEF CloseStep, SeeSealed, CloseFinishes, CloseExpires
<1>3. CASE UNCHANGED close
  BY <1>3
<1>4. (BatcherStep \/ Quiet) => (\E c \in Closer : CloseStep(c)) \/ UNCHANGED close
  BY DEF BatcherStep, CallAdd, AddStep, Enter, Send, Drop, Cancel, WorkStep, Take, AgeFlush,
         SeeDone, DrainTake, DrainEmpty, Receive, FlushReturns, CallLock, Seal, Quiet, vars
<1>5. QED  BY <1>2, <1>3, <1>4

LEMMA CloseServingInv == ASSUME EntInv, NEW c \in Closer, CloseServing(c) PROVE EntInv'
<1>1. BatcherInv'
  BY CloseInv DEF CloseServing, EntInv
<1>2. /\ built = 8 /\ UNCHANGED built
      /\ close[c] = "new" /\ close' = [close EXCEPT ![c] = "sealing"]
      /\ stage[c] = "new" /\ stage' = [stage EXCEPT ![c] = "analytics"]
      /\ held' = held \ {"layers", "auth"}
  BY EightSteps DEF CloseServing, CallClose, Ready
<1>3. close \in [Closer -> ClosePlace]  BY DEF EntInv, BatcherInv, TypeOK
<1>4. TypeInv' /\ BuiltOrNew'
  BY <1>2 DEF EntInv, TypeInv, BuiltOrNew
<1>5. \A d \in Closer : stage'[d] \in {"done", "failed"} => stage'[d] = stage[d] /\ close'[d] = close[d]
  BY <1>2, <1>3 DEF EntInv, TypeInv
<1>6. \A d \in Closer : Drained(d) => Drained(d)'
  BY <1>2, <1>3 DEF Drained, EntInv, TypeInv
<1>7. DatastoresOpen'
  BY <1>2, <1>6 DEF EntInv, DatastoresOpen
<1>8. CalledAnalytics' /\ ServingClosed' /\ CloseReleases'
  BY <1>2, <1>5 DEF EntInv, CalledAnalytics, ServingClosed, CloseReleases
<1>9. QED  BY <1>1, <1>4, <1>7, <1>8 DEF EntInv

LEMMA CloseRestInv == ASSUME EntInv, NEW c \in Closer, CloseRest(c) PROVE EntInv'
<1>1. BatcherInv'
  BY StutterInv DEF CloseRest, EntInv
<1>2. /\ UNCHANGED <<built, close>>
      /\ close[c] \in {"ok", "expired"}
      /\ \/ /\ close[c] = "ok"
            /\ stage' = [stage EXCEPT ![c] = "done"]
            /\ held' = held \ {"analytics", "cache", "datastores"}
         \/ /\ stage' = [stage EXCEPT ![c] = "failed"]
            /\ held' = held \ {"cache"}
  BY DEF CloseRest, vars
<1>3. stage[c] = "analytics"  BY DEF CloseRest
<1>4. built = 8  BY <1>3 DEF EntInv, BuiltOrNew
<1>5. TypeInv' /\ BuiltOrNew'
  BY <1>2, <1>4 DEF EntInv, TypeInv, BuiltOrNew
<1>6. \A d \in Closer : Drained(d) => Drained(d)'
  BY <1>2, <1>3 DEF Drained, EntInv, TypeInv
<1>7. DatastoresOpen'
  <2>1. CASE stage' = [stage EXCEPT ![c] = "done"] /\ close[c] = "ok"
    BY <2>1, <1>2 DEF DatastoresOpen, Drained, EntInv, TypeInv
  <2>2. CASE held' = held \ {"cache"}
    BY <2>2, <1>2, <1>6 DEF DatastoresOpen, EntInv
  <2>3. QED  BY <2>1, <2>2, <1>2
<1>8. CalledAnalytics'
  BY <1>2 DEF CalledAnalytics, EntInv, TypeInv
<1>9. ServingClosed'
  BY <1>2, <1>3 DEF EntInv, TypeInv, ServingClosed
<1>10. CloseReleases'
  <2>1. ASSUME NEW d \in Closer, d # c
        PROVE  /\ stage'[d] = "done"   => held' = {}
               /\ stage'[d] = "failed" => held' \subseteq {"analytics", "datastores"}
    BY <2>1, <1>2 DEF CloseReleases, EntInv, TypeInv
  <2>2. held \cap {"layers", "auth"} = {}
    BY <1>3 DEF EntInv, ServingClosed
  <2>3. QED  BY <2>1, <2>2, <1>2 DEF CloseReleases, EntInv, TypeInv, Resources
<1>11. QED  BY <1>1, <1>5, <1>7, <1>8, <1>9, <1>10 DEF EntInv

LEMMA EntNextInv == EntInv /\ [EntNext]_allVars => EntInv'
<1> SUFFICES ASSUME EntInv, [EntNext]_allVars PROVE EntInv'
  OBVIOUS
<1>1. CASE Construct  BY <1>1, ConstructInv
<1>2. ASSUME BatcherStep \/ Quiet, UNCHANGED entVars PROVE EntInv'
  <2>1. Next \/ UNCHANGED vars  BY <1>2 DEF BatcherStep, Next, Quiet
  <2>2. QED  BY <2>1, <1>2, ResultStays, BatcherStepInv
<1>3. ASSUME NEW c \in Closer, CloseServing(c) \/ CloseRest(c) PROVE EntInv'
  BY <1>3, CloseServingInv, CloseRestInv
<1>4. CASE UNCHANGED allVars
  <2>1. UNCHANGED vars /\ UNCHANGED entVars  BY <1>4 DEF allVars
  <2>2. UNCHANGED close  BY <2>1 DEF vars
  <2>3. QED  BY <2>1, <2>2, BatcherStepInv
<1>5. QED  BY <1>1, <1>2, <1>3, <1>4 DEF EntNext, Refused

(* The inductive invariant holds in every reachable state.                  *)
THEOREM EntInvariance == EntSpec => []EntInv
BY EntInitInv, EntNextInv, PTL DEF EntSpec

(* Entities.Close closes no datastore under a write: neither under a flush, *)
(* nor before every accepted event was part of one.                         *)
THEOREM DatastoresOutliveWrites == EntSpec => []PendingCanBeWritten
<1>1. EntInv => PendingCanBeWritten
  <2> SUFFICES ASSUME EntInv, Ready, "datastores" \notin held
               PROVE  /\ \A e \in Event : add[e] = "accepted" => Settled(e)
                      /\ \A w \in Worker : work[w] \notin Flushing
    BY DEF PendingCanBeWritten
  <2>1. PICK c \in Closer : close[c] = "ok"
    BY EightSteps DEF EntInv, DatastoresOpen, Drained, Ready
  <2>2. \A e \in Event : add[e] = "accepted" => Settled(e)
    BY <2>1, OkIsDrained DEF EntInv
  <2>3. \A w \in Worker : work[w] \in NotRunning
    BY <2>1 DEF EntInv, BatcherInv, DrainOrder
  <2>4. QED  BY <2>2, <2>3 DEF Flushing
<1>2. QED  BY <1>1, EntInvariance, PTL

(* Entities.Close releases all it may, past the error of the batcher and    *)
(* that of a script's close hook (entities.go:56-76, custom.go:160-170).    *)
THEOREM CloseReleasesAll == EntSpec => []CloseReleases
<1>1. EntInv => CloseReleases  BY DEF EntInv
<1>2. QED  BY <1>1, EntInvariance, PTL
=============================================================================
