------------------------------- MODULE Batcher --------------------------------
(***************************************************************************)
(* The analytics batcher (pkg/entities/analytics/batch.go): request        *)
(* goroutines hand events to a bounded channel, a pool of workers gathers  *)
(* them into batches and writes each batch, and Close seals the batcher    *)
(* and waits for the workers, each wait raced against its context.         *)
(*                                                                         *)
(* The delicate part is closeMutex.  Add holds it for reading while it     *)
(* sends, which under onFull=block may take as long as the queue is full;  *)
(* Close's goroutine takes it for writing before it closes done; and a     *)
(* waiting writer keeps new readers out.                                   *)
(*                                                                         *)
(* No property tells the order of the channel from another order, so the   *)
(* channel and the buffers are sets.  Time is abstracted: a partial batch  *)
(* may be found old at any tick, a context may be done at any moment.      *)
(***************************************************************************)
EXTENDS Integers, FiniteSets

CONSTANTS
  Event,      \* the events recorded, each by a request goroutine of its own (a bound)
  Worker,     \* the worker goroutines there may be
  Pools,      \* those a configuration starts, BatchConfig.Workers of them
  Closer,     \* the goroutines that call Close
  Bounded,    \* those whose context has a deadline (shutdown, a rejected reload)
  QueueSize,  \* BatchConfig.QueueSize
  MaxSize,    \* BatchConfig.MaxSize
  OnFull      \* the values BatchConfig.OnFull may have

ASSUME BatcherAssumption ==
  /\ IsFiniteSet(Event)
  /\ Pools \subseteq (SUBSET Worker) \ {{}}
  /\ Bounded \subseteq Closer
  /\ QueueSize \in Nat \ {0}
  /\ MaxSize \in Nat \ {0}
  /\ OnFull \subseteq {"drop", "block"}

VARIABLES
  onFull,     \* cfg.OnFull, fixed when the batcher is made
  add,        \* [Event -> place or result of the Add call]
  queue,      \* the channel
  work,       \* [Worker -> place; off: not started]
  buf,        \* [Worker -> the worker's buffer]
  seal,       \* closeMutex and closed, as Close's goroutine drives them
  close,      \* [Closer -> place or result of the Close call]
  written,    \* [Event -> successful writes it was part of]
  failed      \* [Event -> failed writes it was part of]

vars == <<onFull, add, queue, work, buf, seal, close, written, failed>>

AddPlace   == {"new", "called", "sending", "accepted", "dropped", "cancelled", "refused"}
WorkPlace  == {"run", "flush", "drain", "drainflush", "lastflush", "exited", "off"}
SealPlace  == {"open", "locking", "sealed"}
ClosePlace == {"new", "sealing", "waiting", "ok", "expired"}
Flushing   == {"flush", "drainflush", "lastflush"}
NotRunning == {"exited", "off"}

(* NewBatcher. *)
Init ==
  /\ onFull  \in OnFull
  /\ add     = [e \in Event |-> "new"]
  /\ queue   = {}
  /\ \E pool \in Pools : work = [w \in Worker |-> IF w \in pool THEN "run" ELSE "off"]
  /\ buf     = [w \in Worker |-> {}]
  /\ seal    = "open"
  /\ close   = [c \in Closer |-> "new"]
  /\ written = [e \in Event |-> 0]
  /\ failed  = [e \in Event |-> 0]

-----------------------------------------------------------------------------
(* Add.                                                                     *)

CallAdd(e) ==
  /\ add[e] = "new"
  /\ add' = [add EXCEPT ![e] = "called"]
  /\ UNCHANGED <<onFull, queue, work, buf, seal, close, written, failed>>

(* closeMutex.RLock, not granted while a writer waits, and the closed check. *)
Enter(e) ==
  /\ add[e] = "called"
  /\ seal # "locking"
  /\ add' = [add EXCEPT ![e] = IF seal = "sealed" THEN "refused" ELSE "sending"]
  /\ UNCHANGED <<onFull, queue, work, buf, seal, close, written, failed>>

(* The channel send, in either mode. *)
Send(e) ==
  /\ add[e] = "sending"
  /\ Cardinality(queue) < QueueSize
  /\ queue' = queue \cup {e}
  /\ add' = [add EXCEPT ![e] = "accepted"]
  /\ UNCHANGED <<onFull, work, buf, seal, close, written, failed>>

(* The default case of the non-blocking send: noteDropped. *)
Drop(e) ==
  /\ add[e] = "sending"
  /\ onFull = "drop"
  /\ Cardinality(queue) >= QueueSize
  /\ add' = [add EXCEPT ![e] = "dropped"]
  /\ UNCHANGED <<onFull, queue, work, buf, seal, close, written, failed>>

(* Mutant of Cancel: the blocking send waits for done, not for its context. *)
CancelByDone(e) ==
  /\ add[e] = "sending"
  /\ onFull = "block"
  /\ seal = "sealed"
  /\ add' = [add EXCEPT ![e] = "cancelled"]
  /\ UNCHANGED <<onFull, queue, work, buf, seal, close, written, failed>>

(* The blocking send gives up on ctx.Done().  Its third case, done, cannot  *)
(* be ready: done is closed under the write lock (see SendersSeeOpen).      *)
Cancel(e) ==
  /\ add[e] = "sending"
  /\ onFull = "block"
  /\ add' = [add EXCEPT ![e] = "cancelled"]
  /\ UNCHANGED <<onFull, queue, work, buf, seal, close, written, failed>>

-----------------------------------------------------------------------------
(* work and doFlush.                                                        *)

Receive(w, e, batch, place) ==
  /\ queue' = queue \ {e}
  /\ buf' = [buf EXCEPT ![w] = batch]
  /\ work' = [work EXCEPT ![w] = place]
  /\ UNCHANGED <<onFull, add, seal, close, written, failed>>

(* An event arrives; a full buffer is flushed at once. *)
Take(w) ==
  /\ work[w] = "run"
  /\ \E e \in queue :
       LET batch == buf[w] \cup {e} IN
       Receive(w, e, batch, IF Cardinality(batch) >= MaxSize THEN "flush" ELSE "run")

(* Mutant of AgeFlush: a partial batch waits until it is full. *)
AgeFlushFull(w) ==
  /\ work[w] = "run"
  /\ Cardinality(buf[w]) >= MaxSize
  /\ work' = [work EXCEPT ![w] = "flush"]
  /\ UNCHANGED <<onFull, add, queue, buf, seal, close, written, failed>>

(* A tick finds the oldest event of a partial batch past maxAge. *)
AgeFlush(w) ==
  /\ work[w] = "run"
  /\ buf[w] # {}
  /\ work' = [work EXCEPT ![w] = "flush"]
  /\ UNCHANGED <<onFull, add, queue, buf, seal, close, written, failed>>

(* The receive from done. *)
SeeDone(w) ==
  /\ work[w] = "run"
  /\ seal = "sealed"
  /\ work' = [work EXCEPT ![w] = "drain"]
  /\ UNCHANGED <<onFull, add, queue, buf, seal, close, written, failed>>

DrainTake(w) ==
  /\ work[w] = "drain"
  /\ \E e \in queue :
       LET batch == buf[w] \cup {e} IN
       Receive(w, e, batch, IF Cardinality(batch) >= MaxSize THEN "drainflush" ELSE "drain")

(* Mutant of DrainEmpty: the partial batch is not written. *)
DrainForgets(w) ==
  /\ work[w] = "drain"
  /\ queue = {}
  /\ work' = [work EXCEPT ![w] = "exited"]
  /\ UNCHANGED <<onFull, add, queue, buf, seal, close, written, failed>>

(* Nothing is queued any more: the final flush, if any, and the exit. *)
DrainEmpty(w) ==
  /\ work[w] = "drain"
  /\ queue = {}
  /\ work' = [work EXCEPT ![w] = IF buf[w] # {} THEN "lastflush" ELSE "exited"]
  /\ UNCHANGED <<onFull, add, queue, buf, seal, close, written, failed>>

Count(times, batch) == [e \in Event |-> IF e \in batch THEN times[e] + 1 ELSE times[e]]

AfterFlush(place) ==
  CASE place = "flush"      -> "run"
    [] place = "drainflush" -> "drain"
    [] OTHER                -> "exited"

(* Mutant of FlushReturns: the buffer is not reset. *)
FlushKeepsBuffer(w) ==
  /\ work[w] \in Flushing
  /\ \/ written' = Count(written, buf[w]) /\ UNCHANGED failed
     \/ failed' = Count(failed, buf[w]) /\ UNCHANGED written
  /\ work' = [work EXCEPT ![w] = AfterFlush(work[w])]
  /\ UNCHANGED <<onFull, add, queue, buf, seal, close>>

(* The module's flush returned: the batch was written, or was not and is    *)
(* only counted.  It may also never return.                                 *)
FlushReturns(w) ==
  /\ work[w] \in Flushing
  /\ \/ written' = Count(written, buf[w]) /\ UNCHANGED failed
     \/ failed' = Count(failed, buf[w]) /\ UNCHANGED written
  /\ buf' = [buf EXCEPT ![w] = {}]
  /\ work' = [work EXCEPT ![w] = AfterFlush(work[w])]
  /\ UNCHANGED <<onFull, add, queue, seal, close>>

-----------------------------------------------------------------------------
(* Close.                                                                   *)

CallClose(c) ==
  /\ close[c] = "new"
  /\ close' = [close EXCEPT ![c] = "sealing"]
  /\ UNCHANGED <<onFull, add, queue, work, buf, seal, written, failed>>

(* The goroutine that won closeOnce calls closeMutex.Lock; it goes on when  *)
(* its Close gave up. *)
CallLock ==
  /\ seal = "open"
  /\ \E c \in Closer : close[c] # "new"
  /\ seal' = "locking"
  /\ UNCHANGED <<onFull, add, queue, work, buf, close, written, failed>>

(* The lock is granted: closed is set, done is closed. *)
Seal ==
  /\ seal = "locking"
  /\ \A e \in Event : add[e] # "sending"
  /\ seal' = "sealed"
  /\ UNCHANGED <<onFull, add, queue, work, buf, close, written, failed>>

SeeSealed(c) ==
  /\ close[c] = "sealing"
  /\ seal = "sealed"
  /\ close' = [close EXCEPT ![c] = "waiting"]
  /\ UNCHANGED <<onFull, add, queue, work, buf, seal, written, failed>>

(* workerWG.Wait returned: every worker has exited. *)
CloseFinishes(c) ==
  /\ close[c] = "waiting"
  /\ \A w \in Worker : work[w] \in NotRunning
  /\ close' = [close EXCEPT ![c] = "ok"]
  /\ UNCHANGED <<onFull, add, queue, work, buf, seal, written, failed>>

(* Mutant of CloseExpires: only sealing is raced against the deadline. *)
ExpireSealing(c) ==
  /\ c \in Bounded
  /\ close[c] = "sealing"
  /\ close' = [close EXCEPT ![c] = "expired"]
  /\ UNCHANGED <<onFull, add, queue, work, buf, seal, written, failed>>

(* The context is done, in either select.  The close of a generation that a *)
(* reload retired has a context without deadline.                           *)
CloseExpires(c) ==
  /\ c \in Bounded
  /\ close[c] \in {"sealing", "waiting"}
  /\ close' = [close EXCEPT ![c] = "expired"]
  /\ UNCHANGED <<onFull, add, queue, work, buf, seal, written, failed>>

-----------------------------------------------------------------------------
AddStep(e) == Enter(e) \/ Send(e) \/ Drop(e) \/ Cancel(e)

WorkStep(w) == Take(w) \/ AgeFlush(w) \/ SeeDone(w) \/ DrainTake(w) \/ DrainEmpty(w)

CloseStep(c) == SeeSealed(c) \/ CloseFinishes(c) \/ CloseExpires(c)

(* Everything recorded and closed, nothing is left to do. *)
Quiet ==
  /\ \A e \in Event : add[e] \notin {"new", "called", "sending"}
  /\ \A w \in Worker : work[w] \in NotRunning
  /\ \A c \in Closer : close[c] \in {"ok", "expired"}
  /\ UNCHANGED vars

Next ==
  \/ \E e \in Event : CallAdd(e) \/ AddStep(e)
  \/ \E w \in Worker : WorkStep(w) \/ FlushReturns(w)
  \/ \E c \in Closer : CallClose(c) \/ CloseStep(c)
  \/ CallLock
  \/ Seal
  \/ Quiet

Spec == Init /\ [][Next]_vars

(* Goroutines are scheduled, ticks come, and every context ends: a          *)
(* request's by http.TimeoutHandler, a bounded Close's by its deadline.  A  *)
(* flush need not return, and nothing makes Add or Close be called.         *)
Fairness ==
  /\ \A e \in Event : WF_vars(Enter(e)) /\ WF_vars(AddStep(e))
  /\ \A w \in Worker : WF_vars(Take(w)) /\ WF_vars(AgeFlush(w)) /\ WF_vars(WorkStep(w))
  /\ \A c \in Closer : WF_vars(CloseStep(c))
  /\ WF_vars(CallLock) /\ WF_vars(Seal)

LiveSpec == Spec /\ Fairness

-----------------------------------------------------------------------------
(* Properties.                                                              *)

TypeOK ==
  /\ onFull  \in {"drop", "block"}
  /\ add     \in [Event -> AddPlace]
  /\ queue   \in SUBSET Event
  /\ work    \in [Worker -> WorkPlace]
  /\ buf     \in [Worker -> SUBSET Event]
  /\ seal    \in SealPlace
  /\ close   \in [Closer -> ClosePlace]
  /\ written \in [Event -> Nat]
  /\ failed  \in [Event -> Nat]

(* The channel and every buffer stay within their configured size, so a     *)
(* flush is never handed more than MaxSize events (batch.go, work: the      *)
(* size check in the main loop and again in the drain loop).                *)
WithinBounds ==
  /\ Cardinality(queue) <= QueueSize
  /\ \A w \in Worker : Cardinality(buf[w]) <= MaxSize

Settled(e) == written[e] + failed[e] = 1
Buffered(e) == \E w \in Worker : e \in buf[w]

(* An event Add accepted is in exactly one place until it has been part of  *)
(* exactly one write, and an event Add did not accept is in none: nothing   *)
(* is lost, written twice or written unaccepted, whichever worker had it    *)
(* and whether the batcher was closed meanwhile (batch.go, work, doFlush).  *)
Conserved ==
  /\ \A e \in Event : IF add[e] = "accepted"
       THEN \/ e \in queue /\ ~Buffered(e) /\ written[e] + failed[e] = 0
            \/ e \notin queue /\ Buffered(e) /\ written[e] + failed[e] = 0
            \/ e \notin queue /\ ~Buffered(e) /\ Settled(e)
       ELSE e \notin queue /\ ~Buffered(e) /\ written[e] + failed[e] = 0
  /\ \A v, w \in Worker : v # w => buf[v] \cap buf[w] = {}

(* No Add is between its closed check and its send once closed is set, so   *)
(* no event is stranded behind the drain (batch.go, the comment on          *)
(* closeMutex: "a producer that passed the check could still be             *)
(* descheduled and send after the workers stopped draining").               *)
SendersSeeOpen == seal = "sealed" => \A e \in Event : add[e] # "sending"

(* When Close reports success every event ever accepted has been part of a  *)
(* write and no later Add is accepted (batch.go, Close).                    *)
CloseDrains ==
  (\E c \in Closer : close[c] = "ok") =>
    \A e \in Event : add[e] # "sending" /\ (add[e] = "accepted" => Settled(e))

(* The inductive invariant: beyond the above, a worker drains only after    *)
(* the seal, and has left nothing when it exits.                            *)
DrainOrder ==
  /\ \A w \in Worker : work[w] \in {"drain", "drainflush", "lastflush", "exited"} => seal = "sealed"
  /\ \A w \in Worker : work[w] \in {"lastflush", "exited"} => queue = {}
  /\ \A w \in Worker : work[w] \in NotRunning => buf[w] = {}
  /\ \E w \in Worker : work[w] # "off"
  /\ \A w \in Worker : work[w] \in {"run", "drain"} => Cardinality(buf[w]) < MaxSize
  /\ \A c \in Closer : close[c] \in {"waiting", "ok"} => seal = "sealed"
  /\ \A c \in Closer : close[c] = "ok" => \A w \in Worker : work[w] \in NotRunning

BatcherInv ==
  /\ TypeOK
  /\ WithinBounds
  /\ Conserved
  /\ SendersSeeOpen
  /\ DrainOrder

(* Every Add returns once its context is done or there is room, even when   *)
(* every flush hangs and a Close waits for the write lock behind a producer *)
(* parked on the full queue (batch.go, Add).                                *)
AddReturns ==
  \A e \in Event : add[e] = "called" ~> add[e] \in {"accepted", "dropped", "cancelled", "refused"}

FlushesReturn == \A w \in Worker : []<>(work[w] \notin Flushing)

(* Every Close with a deadline returns, even when a flush hangs or a        *)
(* producer is parked on a full queue, and every other one does as long as  *)
(* flushes return (batch.go, Close).                                        *)
CloseReturns ==
  /\ \A c \in Bounded : close[c] = "sealing" ~> close[c] \in {"ok", "expired"}
  /\ FlushesReturn => \A c \in Closer : close[c] = "sealing" ~> close[c] \in {"ok", "expired"}

(* An accepted event is written or counted as failed in time, provided      *)
(* flushes return: a partial batch does not wait for more events            *)
(* (batch.go, work's age check and its drain).                              *)
AcceptedIsSettled ==
  FlushesReturn => \A e \in Event : add[e] = "accepted" ~> Settled(e)

Fate(e) ==
  CASE add[e] \in {"new", "called", "sending"} -> "none"
    [] add[e] # "accepted" /\ add[e] \notin {"new", "called", "sending"} -> "refused"
    [] add[e] = "accepted" /\ written[e] > 0 -> "written"
    [] add[e] = "accepted" /\ written[e] = 0 /\ failed[e] > 0 -> "failed"
    [] OTHER -> "pending"

Log == INSTANCE EventLog WITH
  fate  <- [e \in Event |-> Fate(e)],
  ended <- \E c \in Closer : close[c] = "ok"

(* The batcher implements the log of settled events. *)
ImplementsEventLog == Log!Spec
=============================================================================
