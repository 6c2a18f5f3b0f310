-------------------------- MODULE GenerationsProofs --------------------------
(***************************************************************************)
(* Proofs about Generations for any finite set of requests and any set of  *)
(* generations.  GenerationsInv is inductive; the safety properties follow *)
(* from it, and so does the step simulation of EntityLifetime.             *)
(***************************************************************************)
EXTENDS Generations, FiniteSetTheorems, TLAPS

USE DEF Actor, ClosePlace, RequestPlace, TimerPlace, ShutdownPlace, ReloadPlace

-----------------------------------------------------------------------------
(* Users of a generation. *)

(* The users of a generation are finitely many: they are requests. *)
LEMMA UsersFinite ==
  ASSUME NEW g PROVE IsFiniteSet(Users(g)) /\ IsFiniteSet(Users(g)')
<1>1. Users(g) \subseteq Req /\ Users(g)' \subseteq Req  BY DEF Users
<1>2. QED  BY <1>1, GenerationsAssumption, FS_Subset

(* A goroutine that moves between places other than "using" changes no      *)
(* generation's users.                                                      *)
LEMMA UsersSame ==
  ASSUME TypeOK, NEW a \in Actor, NEW place,
         pc[a] # "using", place # "using", Goto(a, place),
         \A r \in Req \ {a} : hold'[r] = hold[r]
  PROVE  \A g : Users(g)' = Users(g)
<1>1. \A r \in Req : r # a => pc'[r] = pc[r]
  BY DEF TypeOK, Goto
<1>2. pc'[a] = place
  BY DEF TypeOK, Goto
<1>3. QED  BY <1>1, <1>2 DEF Users

(* A count of zero means no user. *)
LEMMA NoUsers ==
  ASSUME TypeOK, RefsCountUsers, NEW g \in Gen, refs[g] <= 0
  PROVE  Users(g) = {}
<1>1. Cardinality(Users(g)) = 0  BY DEF TypeOK, RefsCountUsers
<1>2. QED  BY <1>1, UsersFinite, FS_EmptySet

(* Arrive preserves the inductive invariant. *)
LEMMA ArriveInv ==
  ASSUME GenerationsInv, NEW r \in Req, Arrive(r)
  PROVE  GenerationsInv'
<1> USE GenerationsAssumption DEF GenerationsInv, Arrive, Goto, vars, reloadVars, countVars, closeVars, shutdownVars, AfterClose, ReturnFromClose
<1>u. \A h : Users(h)' = Users(h)
  BY UsersSame DEF TypeOK, PlacesOK, ReloadOrder, Users
<1>1. TypeOK'
  BY <1>u DEF TypeOK, PlacesOK, ReloadOrder
<1>2. RefsCountUsers'
  BY <1>u DEF RefsCountUsers
<1>3. PlacesOK'
  BY <1>u DEF PlacesOK, TypeOK, ReloadOrder, ForgottenIsDone, CloseProgress, ClosedIsIdle
<1>4. ReloadOrder'
  BY <1>u DEF ReloadOrder, TypeOK, Installed, PlacesOK
<1>5. AcquireOpen'
  BY <1>u DEF AcquireOpen, TypeOK, PlacesOK, ClosedIsIdle, ReloadOrder, StoppedIsQuiet, ClosersSeeIdle
<1>6. StoppedIsQuiet'
  BY <1>u DEF StoppedIsQuiet, TypeOK, PlacesOK
<1>7. ClosersSeeIdle'
  BY <1>u DEF ClosersSeeIdle, TypeOK, PlacesOK, ReloadOrder, RefsCountUsers
<1>8. ClosedIsIdle'
  BY <1>u DEF ClosedIsIdle, TypeOK, PlacesOK, ClosersSeeIdle
<1>9. CloseProgress'
  BY <1>u DEF CloseProgress, TypeOK, PlacesOK
<1>10. ForgottenIsDone'
  BY <1>u DEF ForgottenIsDone, TypeOK, CloseProgress, PlacesOK
<1>11. PassedIsDrained'
  BY <1>u DEF PassedIsDrained, TypeOK, PlacesOK, CloseProgress
<1>12. ExitIsPassed'
  BY <1>u DEF ExitIsPassed, TypeOK, PlacesOK
<1>q. QED  BY <1>1, <1>2, <1>3, <1>4, <1>5, <1>6, <1>7, <1>8, <1>9, <1>10, <1>11, <1>12

(* ReadPointer preserves the inductive invariant. *)
LEMMA ReadPointerInv ==
  ASSUME GenerationsInv, NEW r \in Req, ReadPointer(r)
  PROVE  GenerationsInv'
<1> USE GenerationsAssumption DEF GenerationsInv, ReadPointer, Goto, vars, reloadVars, countVars, closeVars, shutdownVars, AfterClose, ReturnFromClose
<1>u. \A h : Users(h)' = Users(h)
  BY UsersSame DEF TypeOK, PlacesOK, ReloadOrder, Users
<1>1. TypeOK'
  BY <1>u DEF TypeOK, PlacesOK, ReloadOrder
<1>2. RefsCountUsers'
  BY <1>u DEF RefsCountUsers
<1>3. PlacesOK'
  BY <1>u DEF PlacesOK, TypeOK, ReloadOrder, ForgottenIsDone, CloseProgress, ClosedIsIdle
<1>4. ReloadOrder'
  BY <1>u DEF ReloadOrder, TypeOK, Installed, PlacesOK
<1>5. AcquireOpen'
  BY <1>u DEF AcquireOpen, TypeOK, PlacesOK, ClosedIsIdle, ReloadOrder, StoppedIsQuiet, ClosersSeeIdle
<1>6. StoppedIsQuiet'
  BY <1>u DEF StoppedIsQuiet, TypeOK, PlacesOK
<1>7. ClosersSeeIdle'
  BY <1>u DEF ClosersSeeIdle, TypeOK, PlacesOK, ReloadOrder, RefsCountUsers
<1>8. ClosedIsIdle'
  BY <1>u DEF ClosedIsIdle, TypeOK, PlacesOK, ClosersSeeIdle
<1>9. CloseProgress'
  BY <1>u DEF CloseProgress, TypeOK, PlacesOK
<1>10. ForgottenIsDone'
  BY <1>u DEF ForgottenIsDone, TypeOK, CloseProgress, PlacesOK
<1>11. PassedIsDrained'
  BY <1>u DEF PassedIsDrained, TypeOK, PlacesOK, CloseProgress
<1>12. ExitIsPassed'
  BY <1>u DEF ExitIsPassed, TypeOK, PlacesOK
<1>q. QED  BY <1>1, <1>2, <1>3, <1>4, <1>5, <1>6, <1>7, <1>8, <1>9, <1>10, <1>11, <1>12

(* AddGeneration preserves the inductive invariant. *)
LEMMA AddGenerationInv ==
  ASSUME GenerationsInv, NEW g \in Gen, AddGeneration(g)
  PROVE  GenerationsInv'
<1> USE GenerationsAssumption DEF GenerationsInv, AddGeneration, Goto, vars, reloadVars, countVars, closeVars, shutdownVars, AfterClose, ReturnFromClose
<1>u. \A h : Users(h)' = Users(h)
  BY DEF Users
<1>1. TypeOK'
  BY <1>u DEF TypeOK, PlacesOK, ReloadOrder
<1>2. RefsCountUsers'
  BY <1>u DEF RefsCountUsers
<1>3. PlacesOK'
  BY <1>u DEF PlacesOK, TypeOK, ReloadOrder, ForgottenIsDone, CloseProgress, ClosedIsIdle
<1>4. ReloadOrder'
  BY <1>u DEF ReloadOrder, TypeOK, Installed, PlacesOK
<1>5. AcquireOpen'
  BY <1>u DEF AcquireOpen, TypeOK, PlacesOK, ClosedIsIdle, ReloadOrder, StoppedIsQuiet, ClosersSeeIdle
<1>6. StoppedIsQuiet'
  BY <1>u DEF StoppedIsQuiet, TypeOK, PlacesOK
<1>7. ClosersSeeIdle'
  BY <1>u DEF ClosersSeeIdle, TypeOK, PlacesOK, ReloadOrder, RefsCountUsers
<1>8. ClosedIsIdle'
  BY <1>u DEF ClosedIsIdle, TypeOK, PlacesOK, ClosersSeeIdle
<1>9. CloseProgress'
  BY <1>u DEF CloseProgress, TypeOK, PlacesOK
<1>10. ForgottenIsDone'
  BY <1>u DEF ForgottenIsDone, TypeOK, CloseProgress, PlacesOK
<1>11. PassedIsDrained'
  BY <1>u DEF PassedIsDrained, TypeOK, PlacesOK, CloseProgress
<1>12. ExitIsPassed'
  BY <1>u DEF ExitIsPassed, TypeOK, PlacesOK
<1>q. QED  BY <1>1, <1>2, <1>3, <1>4, <1>5, <1>6, <1>7, <1>8, <1>9, <1>10, <1>11, <1>12

(* RequestSwap preserves the inductive invariant. *)
LEMMA RequestSwapInv ==
  ASSUME GenerationsInv, NEW g \in Gen, RequestSwap(g)
  PROVE  GenerationsInv'
<1> USE GenerationsAssumption DEF GenerationsInv, RequestSwap, Goto, vars, reloadVars, countVars, closeVars, shutdownVars, AfterClose, ReturnFromClose
<1>u. \A h : Users(h)' = Users(h)
  BY DEF Users
<1>1. TypeOK'
  BY <1>u DEF TypeOK, PlacesOK, ReloadOrder
<1>2. RefsCountUsers'
  BY <1>u DEF RefsCountUsers
<1>3. PlacesOK'
  BY <1>u DEF PlacesOK, TypeOK, ReloadOrder, ForgottenIsDone, CloseProgress, ClosedIsIdle
<1>4. ReloadOrder'
  BY <1>u DEF ReloadOrder, TypeOK, Installed, PlacesOK
<1>5. AcquireOpen'
  BY <1>u DEF AcquireOpen, TypeOK, PlacesOK, ClosedIsIdle, ReloadOrder, StoppedIsQuiet, ClosersSeeIdle
<1>6. StoppedIsQuiet'
  BY <1>u DEF StoppedIsQuiet, TypeOK, PlacesOK
<1>7. ClosersSeeIdle'
  BY <1>u DEF ClosersSeeIdle, TypeOK, PlacesOK, ReloadOrder, RefsCountUsers
<1>8. ClosedIsIdle'
  BY <1>u DEF ClosedIsIdle, TypeOK, PlacesOK, ClosersSeeIdle
<1>9. CloseProgress'
  BY <1>u DEF CloseProgress, TypeOK, PlacesOK
<1>10. ForgottenIsDone'
  BY <1>u DEF ForgottenIsDone, TypeOK, CloseProgress, PlacesOK
<1>11. PassedIsDrained'
  BY <1>u DEF PassedIsDrained, TypeOK, PlacesOK, CloseProgress
<1>12. ExitIsPassed'
  BY <1>u DEF ExitIsPassed, TypeOK, PlacesOK
<1>q. QED  BY <1>1, <1>2, <1>3, <1>4, <1>5, <1>6, <1>7, <1>8, <1>9, <1>10, <1>11, <1>12

(* Swap preserves the inductive invariant. *)
LEMMA SwapInv ==
  ASSUME GenerationsInv, NEW g \in Gen, Swap(g)
  PROVE  GenerationsInv'
<1> USE GenerationsAssumption DEF GenerationsInv, Swap, Goto, vars, reloadVars, countVars, closeVars, shutdownVars, AfterClose, ReturnFromClose
<1>u. \A h : Users(h)' = Users(h)
  BY DEF Users
<1>1. TypeOK'
  BY <1>u DEF TypeOK, PlacesOK, ReloadOrder
<1>2. RefsCountUsers'
  BY <1>u DEF RefsCountUsers
<1>3. PlacesOK'
  BY <1>u DEF PlacesOK, TypeOK, ReloadOrder, ForgottenIsDone, CloseProgress, ClosedIsIdle
<1>4. ReloadOrder'
  BY <1>u DEF ReloadOrder, TypeOK, Installed, PlacesOK
<1>5. AcquireOpen'
  BY <1>u DEF AcquireOpen, TypeOK, PlacesOK, ClosedIsIdle, ReloadOrder, StoppedIsQuiet, ClosersSeeIdle
<1>6. StoppedIsQuiet'
  BY <1>u DEF StoppedIsQuiet, TypeOK, PlacesOK
<1>7. ClosersSeeIdle'
  BY <1>u DEF ClosersSeeIdle, TypeOK, PlacesOK, ReloadOrder, RefsCountUsers
<1>8. ClosedIsIdle'
  BY <1>u DEF ClosedIsIdle, TypeOK, PlacesOK, ClosersSeeIdle
<1>9. CloseProgress'
  BY <1>u DEF CloseProgress, TypeOK, PlacesOK
<1>10. ForgottenIsDone'
  BY <1>u DEF ForgottenIsDone, TypeOK, CloseProgress, PlacesOK
<1>11. PassedIsDrained'
  BY <1>u DEF PassedIsDrained, TypeOK, PlacesOK, CloseProgress
<1>12. ExitIsPassed'
  BY <1>u DEF ExitIsPassed, TypeOK, PlacesOK
<1>q. QED  BY <1>1, <1>2, <1>3, <1>4, <1>5, <1>6, <1>7, <1>8, <1>9, <1>10, <1>11, <1>12

(* MarkClosing preserves the inductive invariant. *)
LEMMA MarkClosingInv ==
  ASSUME GenerationsInv, NEW g \in Gen, MarkClosing(g)
  PROVE  GenerationsInv'
<1> USE GenerationsAssumption DEF GenerationsInv, MarkClosing, Goto, vars, reloadVars, countVars, closeVars, shutdownVars, AfterClose, ReturnFromClose
<1>u. \A h : Users(h)' = Users(h)
  BY UsersSame DEF TypeOK, PlacesOK, ReloadOrder, Users
<1>1. TypeOK'
  BY <1>u DEF TypeOK, PlacesOK, ReloadOrder
<1>2. RefsCountUsers'
  BY <1>u DEF RefsCountUsers
<1>3. PlacesOK'
  BY <1>u DEF PlacesOK, TypeOK, ReloadOrder, ForgottenIsDone, CloseProgress, ClosedIsIdle
<1>4. ReloadOrder'
  BY <1>u DEF ReloadOrder, TypeOK, Installed, PlacesOK
<1>5. AcquireOpen'
  BY <1>u DEF AcquireOpen, TypeOK, PlacesOK, ClosedIsIdle, ReloadOrder, StoppedIsQuiet, ClosersSeeIdle
<1>6. StoppedIsQuiet'
  BY <1>u DEF StoppedIsQuiet, TypeOK, PlacesOK
<1>7. ClosersSeeIdle'
  <2>1. ASSUME NEW b \in Req \cup Gen, pc'[b] \in ClosePlace
        PROVE  (closing[hold[b]] /\ Users(hold[b]) = {})'
    <3>1. pc[b] \in ClosePlace /\ hold'[b] = hold[b] /\ hold[b] \in Gen
      BY <2>1 DEF TypeOK, PlacesOK
    <3>2. closing[hold[b]] /\ Users(hold[b]) = {}
      BY <3>1 DEF ClosersSeeIdle
    <3>3. QED  BY <1>u, <3>1, <3>2 DEF TypeOK, ReloadOrder
  <2>2. (pc[Shutdown] \in ClosePlace => Users(hold[Shutdown]) = {} \/ expired)'
    BY <1>u, NoUsers DEF ClosersSeeIdle, TypeOK, PlacesOK
  <2>3. QED  BY <2>1, <2>2 DEF ClosersSeeIdle
<1>8. ClosedIsIdle'
  BY <1>u DEF ClosedIsIdle, TypeOK, PlacesOK, ClosersSeeIdle
<1>9. CloseProgress'
  BY <1>u DEF CloseProgress, TypeOK, PlacesOK
<1>10. ForgottenIsDone'
  BY <1>u DEF ForgottenIsDone, TypeOK, CloseProgress, PlacesOK
<1>11. PassedIsDrained'
  BY <1>u DEF PassedIsDrained, TypeOK, PlacesOK, ReloadOrder
<1>12. ExitIsPassed'
  BY <1>u DEF ExitIsPassed, TypeOK, PlacesOK
<1>q. QED  BY <1>1, <1>2, <1>3, <1>4, <1>5, <1>6, <1>7, <1>8, <1>9, <1>10, <1>11, <1>12

(* TimerFires preserves the inductive invariant. *)
LEMMA TimerFiresInv ==
  ASSUME GenerationsInv, NEW g \in Gen, TimerFires(g)
  PROVE  GenerationsInv'
<1> USE GenerationsAssumption DEF GenerationsInv, TimerFires, Goto, vars, reloadVars, countVars, closeVars, shutdownVars, AfterClose, ReturnFromClose
<1>u. \A h : Users(h)' = Users(h)
  BY UsersSame DEF TypeOK, PlacesOK, ReloadOrder, Users
<1>1. TypeOK'
  BY <1>u DEF TypeOK, PlacesOK, ReloadOrder
<1>2. RefsCountUsers'
  BY <1>u DEF RefsCountUsers
<1>3. PlacesOK'
  BY <1>u DEF PlacesOK, TypeOK, ReloadOrder, ForgottenIsDone, CloseProgress, ClosedIsIdle
<1>4. ReloadOrder'
  BY <1>u DEF ReloadOrder, TypeOK, Installed, PlacesOK
<1>5. AcquireOpen'
  BY <1>u DEF AcquireOpen, TypeOK, PlacesOK, ClosedIsIdle, ReloadOrder, StoppedIsQuiet, ClosersSeeIdle
<1>6. StoppedIsQuiet'
  BY <1>u DEF StoppedIsQuiet, TypeOK, PlacesOK
<1>7. ClosersSeeIdle'
  <2>1. ASSUME NEW b \in Req \cup Gen, pc'[b] \in ClosePlace
        PROVE  (closing[hold[b]] /\ Users(hold[b]) = {})'
    <3>1. CASE b = g
      <4>1. pc[g] = "sleeping" /\ refs[g] <= 0 /\ hold'[b] = g
        BY <2>1, <3>1 DEF TypeOK, PlacesOK
      <4>2. closing[g] /\ Users(g) = {}
        BY <4>1, NoUsers DEF ReloadOrder
      <4>3. QED  BY <1>u, <4>1, <4>2
    <3>2. CASE b # g
      <4>1. pc[b] \in ClosePlace /\ hold'[b] = hold[b]
        BY <2>1, <3>2 DEF TypeOK
      <4>2. closing[hold[b]] /\ Users(hold[b]) = {}
        BY <4>1 DEF ClosersSeeIdle
      <4>3. QED  BY <1>u, <4>1, <4>2
    <3>3. QED  BY <3>1, <3>2
  <2>2. (pc[Shutdown] \in ClosePlace => Users(hold[Shutdown]) = {} \/ expired)'
    BY <1>u, NoUsers DEF ClosersSeeIdle, TypeOK, PlacesOK
  <2>3. QED  BY <2>1, <2>2 DEF ClosersSeeIdle
<1>8. ClosedIsIdle'
  BY <1>u DEF ClosedIsIdle, TypeOK, PlacesOK, ClosersSeeIdle
<1>9. CloseProgress'
  BY <1>u DEF CloseProgress, TypeOK, PlacesOK
<1>10. ForgottenIsDone'
  BY <1>u DEF ForgottenIsDone, TypeOK, CloseProgress, PlacesOK
<1>11. PassedIsDrained'
  BY <1>u DEF PassedIsDrained, TypeOK, PlacesOK, CloseProgress
<1>12. ExitIsPassed'
  BY <1>u DEF ExitIsPassed, TypeOK, PlacesOK
<1>q. QED  BY <1>1, <1>2, <1>3, <1>4, <1>5, <1>6, <1>7, <1>8, <1>9, <1>10, <1>11, <1>12

(* TimeoutFires preserves the inductive invariant. *)
LEMMA TimeoutFiresInv ==
  ASSUME GenerationsInv, NEW r \in Req, TimeoutFires(r)
  PROVE  GenerationsInv'
<1> USE GenerationsAssumption DEF GenerationsInv, TimeoutFires, Goto, vars, reloadVars, countVars, closeVars, shutdownVars, AfterClose, ReturnFromClose
<1>u. \A h : Users(h)' = Users(h)
  BY DEF Users
<1>1. TypeOK'
  BY <1>u DEF TypeOK, PlacesOK, ReloadOrder
<1>2. RefsCountUsers'
  BY <1>u DEF RefsCountUsers
<1>3. PlacesOK'
  BY <1>u DEF PlacesOK, TypeOK, ReloadOrder, ForgottenIsDone, CloseProgress, ClosedIsIdle
<1>4. ReloadOrder'
  BY <1>u DEF ReloadOrder, TypeOK, Installed, PlacesOK
<1>5. AcquireOpen'
  BY <1>u DEF AcquireOpen, TypeOK, PlacesOK, ClosedIsIdle, ReloadOrder, StoppedIsQuiet, ClosersSeeIdle
<1>6. StoppedIsQuiet'
  BY <1>u DEF StoppedIsQuiet, TypeOK, PlacesOK
<1>7. ClosersSeeIdle'
  BY <1>u DEF ClosersSeeIdle, TypeOK, PlacesOK, ReloadOrder, RefsCountUsers
<1>8. ClosedIsIdle'
  BY <1>u DEF ClosedIsIdle, TypeOK, PlacesOK, ClosersSeeIdle
<1>9. CloseProgress'
  BY <1>u DEF CloseProgress, TypeOK, PlacesOK
<1>10. ForgottenIsDone'
  BY <1>u DEF ForgottenIsDone, TypeOK, CloseProgress, PlacesOK
<1>11. PassedIsDrained'
  BY <1>u DEF PassedIsDrained, TypeOK, PlacesOK, CloseProgress
<1>12. ExitIsPassed'
  BY <1>u DEF ExitIsPassed, TypeOK, PlacesOK
<1>q. QED  BY <1>1, <1>2, <1>3, <1>4, <1>5, <1>6, <1>7, <1>8, <1>9, <1>10, <1>11, <1>12

(* CloseNow preserves the inductive invariant. *)
LEMMA CloseNowInv ==
  ASSUME GenerationsInv, NEW a \in Actor, CloseNow(a)
  PROVE  GenerationsInv'
<1> USE GenerationsAssumption DEF GenerationsInv, CloseNow, Goto, vars, reloadVars, countVars, closeVars, shutdownVars, AfterClose, ReturnFromClose
<1>u. \A h : Users(h)' = Users(h)
  BY UsersSame DEF TypeOK, PlacesOK, ReloadOrder, Users
<1>h. hold[a] \in Gen
  BY DEF TypeOK, PlacesOK
<1>1. TypeOK'
  <2>1. closed' \in [Gen -> BOOLEAN] /\ closes' \in [Gen -> Nat]
    <3>1. closes[hold[a]] + 1 \in Nat  BY <1>h DEF TypeOK
    <3>2. CASE closed[hold[a]]  BY <3>2 DEF TypeOK
    <3>3. CASE ~closed[hold[a]]
      <4>1. closes' = [closes EXCEPT ![hold[a]] = closes[hold[a]] + 1]  BY <3>3
      <4>2. closed' = [closed EXCEPT ![hold[a]] = TRUE]  BY <3>3
      <4>3. QED  BY <3>1, <4>1, <4>2 DEF TypeOK
    <3>4. QED  BY <3>2, <3>3
  <2>2. pc' \in [Actor -> RequestPlace \cup TimerPlace \cup ShutdownPlace]
    BY DEF TypeOK
  <2>3. QED  BY <2>1, <2>2 DEF TypeOK
<1>2. RefsCountUsers'
  BY <1>u DEF RefsCountUsers
<1>3. PlacesOK'
  BY <1>u DEF PlacesOK, TypeOK, ReloadOrder, ForgottenIsDone, CloseProgress, ClosedIsIdle
<1>4. ReloadOrder'
  BY <1>u DEF ReloadOrder, TypeOK, Installed, PlacesOK
<1>5. AcquireOpen'
  BY <1>u DEF AcquireOpen, TypeOK, PlacesOK, ClosedIsIdle, ReloadOrder, StoppedIsQuiet, ClosersSeeIdle
<1>6. StoppedIsQuiet'
  BY <1>u DEF StoppedIsQuiet, TypeOK, PlacesOK
<1>7. ClosersSeeIdle'
  <2>1. ASSUME NEW b \in Req \cup Gen, pc'[b] \in ClosePlace
        PROVE  (closing[hold[b]] /\ Users(hold[b]) = {})'
    <3>1. pc[b] \in ClosePlace /\ hold'[b] = hold[b] /\ hold[b] \in Gen
      BY <2>1 DEF TypeOK, PlacesOK
    <3>2. closing[hold[b]] /\ Users(hold[b]) = {}
      BY <3>1 DEF ClosersSeeIdle
    <3>3. QED  BY <1>u, <3>1, <3>2 DEF TypeOK, ReloadOrder
  <2>2. (pc[Shutdown] \in ClosePlace => Users(hold[Shutdown]) = {} \/ expired)'
    BY <1>u, NoUsers DEF ClosersSeeIdle, TypeOK, PlacesOK
  <2>3. QED  BY <2>1, <2>2 DEF ClosersSeeIdle
<1>8. ClosedIsIdle'
  <2> SUFFICES ASSUME NEW g \in Gen, closed'[g]
               PROVE  /\ Users(g) = {} \/ (expired /\ gens # {})
                      /\ closing[g] \/ gens # {}
    BY <1>u DEF ClosedIsIdle
  <2>1. CASE closed[g]  BY <2>1 DEF ClosedIsIdle
  <2>2. CASE ~closed[g]
    <3>1. g = hold[a] /\ pc[a] \in ClosePlace  BY <2>2, <1>h DEF TypeOK
    <3>2. CASE a \in Req \cup Gen  BY <3>1, <3>2 DEF ClosersSeeIdle
    <3>3. CASE a = Shutdown
      <4>1. gens # {}  BY <3>1, <3>3 DEF PlacesOK, TypeOK
      <4>2. Users(g) = {} \/ expired  BY <3>1, <3>3 DEF ClosersSeeIdle
      <4>3. QED  BY <4>1, <4>2
    <3>4. QED  BY <3>2, <3>3 DEF Actor
  <2>3. QED  BY <2>1, <2>2
<1>9. CloseProgress'
  BY <1>u DEF CloseProgress, TypeOK, PlacesOK
<1>10. ForgottenIsDone'
  BY <1>u DEF ForgottenIsDone, TypeOK, CloseProgress, PlacesOK
<1>11. PassedIsDrained'
  BY <1>u DEF PassedIsDrained, TypeOK, PlacesOK, CloseProgress
<1>12. ExitIsPassed'
  BY <1>u DEF ExitIsPassed, TypeOK, PlacesOK
<1>q. QED  BY <1>1, <1>2, <1>3, <1>4, <1>5, <1>6, <1>7, <1>8, <1>9, <1>10, <1>11, <1>12

(* CloseReturns preserves the inductive invariant. *)
LEMMA CloseReturnsInv ==
  ASSUME GenerationsInv, NEW a \in Actor, CloseReturns(a)
  PROVE  GenerationsInv'
<1> USE GenerationsAssumption DEF GenerationsInv, CloseReturns, Goto, vars, reloadVars, countVars, closeVars, shutdownVars, AfterClose, ReturnFromClose
<1>u. \A h : Users(h)' = Users(h)
  BY UsersSame DEF TypeOK, PlacesOK, ReloadOrder, Users
<1>1. TypeOK'
  BY <1>u DEF TypeOK, PlacesOK, ReloadOrder
<1>2. RefsCountUsers'
  BY <1>u DEF RefsCountUsers
<1>3. PlacesOK'
  BY <1>u DEF PlacesOK, TypeOK, ReloadOrder, ForgottenIsDone, CloseProgress, ClosedIsIdle
<1>4. ReloadOrder'
  BY <1>u DEF ReloadOrder, TypeOK, Installed, PlacesOK
<1>5. AcquireOpen'
  BY <1>u DEF AcquireOpen, TypeOK, PlacesOK, ClosedIsIdle, ReloadOrder, StoppedIsQuiet, ClosersSeeIdle
<1>6. StoppedIsQuiet'
  BY <1>u DEF StoppedIsQuiet, TypeOK, PlacesOK
<1>7. ClosersSeeIdle'
  BY <1>u DEF ClosersSeeIdle, TypeOK, PlacesOK, ReloadOrder, RefsCountUsers
<1>8. ClosedIsIdle'
  BY <1>u DEF ClosedIsIdle, TypeOK, PlacesOK, ClosersSeeIdle
<1>9. CloseProgress'
  BY <1>u DEF CloseProgress, TypeOK, PlacesOK
<1>10. ForgottenIsDone'
  BY <1>u DEF ForgottenIsDone, TypeOK, CloseProgress, PlacesOK
<1>11. PassedIsDrained'
  BY <1>u DEF PassedIsDrained, TypeOK, PlacesOK, CloseProgress
<1>12. ExitIsPassed'
  BY <1>u DEF ExitIsPassed, TypeOK, PlacesOK
<1>q. QED  BY <1>1, <1>2, <1>3, <1>4, <1>5, <1>6, <1>7, <1>8, <1>9, <1>10, <1>11, <1>12

(* OnClosed preserves the inductive invariant. *)
LEMMA OnClosedInv ==
  ASSUME GenerationsInv, NEW a \in Actor, OnClosed(a)
  PROVE  GenerationsInv'
<1> USE GenerationsAssumption DEF GenerationsInv, OnClosed, Goto, vars, reloadVars, countVars, closeVars, shutdownVars, AfterClose, ReturnFromClose
<1>u. \A h : Users(h)' = Users(h)
  BY UsersSame DEF TypeOK, PlacesOK, ReloadOrder, Users
<1>1. TypeOK'
  BY <1>u DEF TypeOK, PlacesOK, ReloadOrder
<1>2. RefsCountUsers'
  BY <1>u DEF RefsCountUsers
<1>3. PlacesOK'
  BY <1>u DEF PlacesOK, TypeOK, ReloadOrder, ForgottenIsDone, CloseProgress, ClosedIsIdle
<1>4. ReloadOrder'
  BY <1>u DEF ReloadOrder, TypeOK, Installed, PlacesOK
<1>5. AcquireOpen'
  BY <1>u DEF AcquireOpen, TypeOK, PlacesOK, ClosedIsIdle, ReloadOrder, StoppedIsQuiet, ClosersSeeIdle
<1>6. StoppedIsQuiet'
  BY <1>u DEF StoppedIsQuiet, TypeOK, PlacesOK
<1>7. ClosersSeeIdle'
  BY <1>u DEF ClosersSeeIdle, TypeOK, PlacesOK, ReloadOrder, RefsCountUsers
<1>8. ClosedIsIdle'
  BY <1>u DEF ClosedIsIdle, TypeOK, PlacesOK, ClosersSeeIdle
<1>9. CloseProgress'
  BY <1>u DEF CloseProgress, TypeOK, PlacesOK
<1>10. ForgottenIsDone'
  BY <1>u DEF ForgottenIsDone, TypeOK, CloseProgress, PlacesOK
<1>11. PassedIsDrained'
  BY <1>u DEF PassedIsDrained, TypeOK, PlacesOK, CloseProgress
<1>12. ExitIsPassed'
  BY <1>u DEF ExitIsPassed, TypeOK, PlacesOK
<1>q. QED  BY <1>1, <1>2, <1>3, <1>4, <1>5, <1>6, <1>7, <1>8, <1>9, <1>10, <1>11, <1>12

(* WaitReturns preserves the inductive invariant. *)
LEMMA WaitReturnsInv ==
  ASSUME GenerationsInv, NEW a \in Actor, WaitReturns(a)
  PROVE  GenerationsInv'
<1> USE GenerationsAssumption DEF GenerationsInv, WaitReturns, Goto, vars, reloadVars, countVars, closeVars, shutdownVars, AfterClose, ReturnFromClose
<1>u. \A h : Users(h)' = Users(h)
  BY UsersSame DEF TypeOK, PlacesOK, ReloadOrder, Users
<1>1. TypeOK'
  BY <1>u DEF TypeOK, PlacesOK, ReloadOrder
<1>2. RefsCountUsers'
  BY <1>u DEF RefsCountUsers
<1>3. PlacesOK'
  BY <1>u DEF PlacesOK, TypeOK, ReloadOrder, ForgottenIsDone, CloseProgress, ClosedIsIdle
<1>4. ReloadOrder'
  BY <1>u DEF ReloadOrder, TypeOK, Installed, PlacesOK
<1>5. AcquireOpen'
  BY <1>u DEF AcquireOpen, TypeOK, PlacesOK, ClosedIsIdle, ReloadOrder, StoppedIsQuiet, ClosersSeeIdle
<1>6. StoppedIsQuiet'
  BY <1>u DEF StoppedIsQuiet, TypeOK, PlacesOK
<1>7. ClosersSeeIdle'
  BY <1>u DEF ClosersSeeIdle, TypeOK, PlacesOK, ReloadOrder, RefsCountUsers
<1>8. ClosedIsIdle'
  BY <1>u DEF ClosedIsIdle, TypeOK, PlacesOK, ClosersSeeIdle
<1>9. CloseProgress'
  BY <1>u DEF CloseProgress, TypeOK, PlacesOK
<1>10. ForgottenIsDone'
  BY <1>u DEF ForgottenIsDone, TypeOK, CloseProgress, PlacesOK
<1>11. PassedIsDrained'
  BY <1>u DEF PassedIsDrained, TypeOK, PlacesOK, CloseProgress
<1>12. ExitIsPassed'
  BY <1>u DEF ExitIsPassed, TypeOK, PlacesOK
<1>q. QED  BY <1>1, <1>2, <1>3, <1>4, <1>5, <1>6, <1>7, <1>8, <1>9, <1>10, <1>11, <1>12

(* Signal preserves the inductive invariant. *)
LEMMA SignalInv ==
  ASSUME GenerationsInv, Signal
  PROVE  GenerationsInv'
<1> USE GenerationsAssumption DEF GenerationsInv, Signal, Goto, vars, reloadVars, countVars, closeVars, shutdownVars, AfterClose, ReturnFromClose
<1>u. \A h : Users(h)' = Users(h)
  BY UsersSame DEF TypeOK, PlacesOK, ReloadOrder, Users
<1>1. TypeOK'
  BY <1>u DEF TypeOK, PlacesOK, ReloadOrder
<1>2. RefsCountUsers'
  BY <1>u DEF RefsCountUsers
<1>3. PlacesOK'
  BY <1>u DEF PlacesOK, TypeOK, ReloadOrder, ForgottenIsDone, CloseProgress, ClosedIsIdle
<1>4. ReloadOrder'
  BY <1>u DEF ReloadOrder, TypeOK, Installed, PlacesOK
<1>5. AcquireOpen'
  BY <1>u DEF AcquireOpen, TypeOK, PlacesOK, ClosedIsIdle, ReloadOrder, StoppedIsQuiet, ClosersSeeIdle
<1>6. StoppedIsQuiet'
  BY <1>u DEF StoppedIsQuiet, TypeOK, PlacesOK
<1>7. ClosersSeeIdle'
  BY <1>u DEF ClosersSeeIdle, TypeOK, PlacesOK, ReloadOrder, RefsCountUsers
<1>8. ClosedIsIdle'
  BY <1>u DEF ClosedIsIdle, TypeOK, PlacesOK, ClosersSeeIdle
<1>9. CloseProgress'
  BY <1>u DEF CloseProgress, TypeOK, PlacesOK
<1>10. ForgottenIsDone'
  BY <1>u DEF ForgottenIsDone, TypeOK, CloseProgress, PlacesOK
<1>11. PassedIsDrained'
  BY <1>u DEF PassedIsDrained, TypeOK, PlacesOK, CloseProgress
<1>12. ExitIsPassed'
  BY <1>u DEF ExitIsPassed, TypeOK, PlacesOK
<1>q. QED  BY <1>1, <1>2, <1>3, <1>4, <1>5, <1>6, <1>7, <1>8, <1>9, <1>10, <1>11, <1>12

(* Expire preserves the inductive invariant. *)
LEMMA ExpireInv ==
  ASSUME GenerationsInv, Expire
  PROVE  GenerationsInv'
<1> USE GenerationsAssumption DEF GenerationsInv, Expire, Goto, vars, reloadVars, countVars, closeVars, shutdownVars, AfterClose, ReturnFromClose
<1>u. \A h : Users(h)' = Users(h)
  BY DEF Users
<1>1. TypeOK'
  BY <1>u DEF TypeOK, PlacesOK, ReloadOrder
<1>2. RefsCountUsers'
  BY <1>u DEF RefsCountUsers
<1>3. PlacesOK'
  BY <1>u DEF PlacesOK, TypeOK, ReloadOrder, ForgottenIsDone, CloseProgress, ClosedIsIdle
<1>4. ReloadOrder'
  BY <1>u DEF ReloadOrder, TypeOK, Installed, PlacesOK
<1>5. AcquireOpen'
  BY <1>u DEF AcquireOpen, TypeOK, PlacesOK, ClosedIsIdle, ReloadOrder, StoppedIsQuiet, ClosersSeeIdle
<1>6. StoppedIsQuiet'
  BY <1>u DEF StoppedIsQuiet, TypeOK, PlacesOK
<1>7. ClosersSeeIdle'
  BY <1>u DEF ClosersSeeIdle, TypeOK, PlacesOK, ReloadOrder, RefsCountUsers
<1>8. ClosedIsIdle'
  BY <1>u DEF ClosedIsIdle, TypeOK, PlacesOK, ClosersSeeIdle
<1>9. CloseProgress'
  BY <1>u DEF CloseProgress, TypeOK, PlacesOK
<1>10. ForgottenIsDone'
  BY <1>u DEF ForgottenIsDone, TypeOK, CloseProgress, PlacesOK
<1>11. PassedIsDrained'
  BY <1>u DEF PassedIsDrained, TypeOK, PlacesOK, CloseProgress
<1>12. ExitIsPassed'
  BY <1>u DEF ExitIsPassed, TypeOK, PlacesOK
<1>q. QED  BY <1>1, <1>2, <1>3, <1>4, <1>5, <1>6, <1>7, <1>8, <1>9, <1>10, <1>11, <1>12

(* DrainOver preserves the inductive invariant. *)
LEMMA DrainOverInv ==
  ASSUME GenerationsInv, DrainOver
  PROVE  GenerationsInv'
<1> USE GenerationsAssumption DEF GenerationsInv, DrainOver, Goto, vars, reloadVars, countVars, closeVars, shutdownVars, AfterClose, ReturnFromClose
<1>u. \A h : Users(h)' = Users(h)
  BY UsersSame DEF TypeOK, PlacesOK, ReloadOrder, Users
<1>1. TypeOK'
  BY <1>u DEF TypeOK, PlacesOK, ReloadOrder
<1>2. RefsCountUsers'
  BY <1>u DEF RefsCountUsers
<1>3. PlacesOK'
  BY <1>u DEF PlacesOK, TypeOK, ReloadOrder, ForgottenIsDone, CloseProgress, ClosedIsIdle
<1>4. ReloadOrder'
  BY <1>u DEF ReloadOrder, TypeOK, Installed, PlacesOK
<1>5. AcquireOpen'
  BY <1>u DEF AcquireOpen, TypeOK, PlacesOK, ClosedIsIdle, ReloadOrder, StoppedIsQuiet, ClosersSeeIdle
<1>6. StoppedIsQuiet'
  BY <1>u DEF StoppedIsQuiet, TypeOK, PlacesOK
<1>7. ClosersSeeIdle'
  <2>1. ASSUME NEW b \in Req \cup Gen, pc'[b] \in ClosePlace
        PROVE  (closing[hold[b]] /\ Users(hold[b]) = {})'
    <3>1. pc[b] \in ClosePlace /\ hold'[b] = hold[b] /\ hold[b] \in Gen
      BY <2>1 DEF TypeOK, PlacesOK
    <3>2. closing[hold[b]] /\ Users(hold[b]) = {}
      BY <3>1 DEF ClosersSeeIdle
    <3>3. QED  BY <1>u, <3>1, <3>2 DEF TypeOK, ReloadOrder
  <2>2. (pc[Shutdown] \in ClosePlace => Users(hold[Shutdown]) = {} \/ expired)'
    BY <1>u, NoUsers DEF ClosersSeeIdle, TypeOK, PlacesOK
  <2>3. QED  BY <2>1, <2>2 DEF ClosersSeeIdle
<1>8. ClosedIsIdle'
  BY <1>u DEF ClosedIsIdle, TypeOK, PlacesOK, ClosersSeeIdle
<1>9. CloseProgress'
  BY <1>u DEF CloseProgress, TypeOK, PlacesOK
<1>10. ForgottenIsDone'
  BY <1>u DEF ForgottenIsDone, TypeOK, CloseProgress, PlacesOK
<1>11. PassedIsDrained'
  BY <1>u DEF PassedIsDrained, TypeOK, PlacesOK, CloseProgress
<1>12. ExitIsPassed'
  BY <1>u DEF ExitIsPassed, TypeOK, PlacesOK
<1>q. QED  BY <1>1, <1>2, <1>3, <1>4, <1>5, <1>6, <1>7, <1>8, <1>9, <1>10, <1>11, <1>12

(* ServerStops preserves the inductive invariant. *)
LEMMA ServerStopsInv ==
  ASSUME GenerationsInv, ServerStops
  PROVE  GenerationsInv'
<1> USE GenerationsAssumption DEF GenerationsInv, ServerStops, Goto, vars, reloadVars, countVars, closeVars, shutdownVars, AfterClose, ReturnFromClose
<1>u. \A h : Users(h)' = Users(h)
  BY UsersSame DEF TypeOK, PlacesOK, ReloadOrder, Users
<1>1. TypeOK'
  BY <1>u DEF TypeOK, PlacesOK, ReloadOrder
<1>2. RefsCountUsers'
  BY <1>u DEF RefsCountUsers
<1>3. PlacesOK'
  BY <1>u DEF PlacesOK, TypeOK, ReloadOrder, ForgottenIsDone, CloseProgress, ClosedIsIdle
<1>4. ReloadOrder'
  BY <1>u DEF ReloadOrder, TypeOK, Installed, PlacesOK
<1>5. AcquireOpen'
  BY <1>u DEF AcquireOpen, TypeOK, PlacesOK, ClosedIsIdle, ReloadOrder, StoppedIsQuiet, ClosersSeeIdle
<1>6. StoppedIsQuiet'
  BY <1>u DEF StoppedIsQuiet, TypeOK, PlacesOK
<1>7. ClosersSeeIdle'
  BY <1>u DEF ClosersSeeIdle, TypeOK, PlacesOK, ReloadOrder, RefsCountUsers
<1>8. ClosedIsIdle'
  BY <1>u DEF ClosedIsIdle, TypeOK, PlacesOK, ClosersSeeIdle
<1>9. CloseProgress'
  BY <1>u DEF CloseProgress, TypeOK, PlacesOK
<1>10. ForgottenIsDone'
  BY <1>u DEF ForgottenIsDone, TypeOK, CloseProgress, PlacesOK
<1>11. PassedIsDrained'
  BY <1>u DEF PassedIsDrained, TypeOK, PlacesOK, CloseProgress
<1>12. ExitIsPassed'
  BY <1>u DEF ExitIsPassed, TypeOK, PlacesOK
<1>q. QED  BY <1>1, <1>2, <1>3, <1>4, <1>5, <1>6, <1>7, <1>8, <1>9, <1>10, <1>11, <1>12

(* SnapshotOrSkip preserves the inductive invariant. *)
LEMMA SnapshotOrSkipInv ==
  ASSUME GenerationsInv, SnapshotOrSkip
  PROVE  GenerationsInv'
<1> USE GenerationsAssumption DEF GenerationsInv, SnapshotOrSkip, Goto, vars, reloadVars, countVars, closeVars, shutdownVars, AfterClose, ReturnFromClose
<1>u. \A h : Users(h)' = Users(h)
  BY UsersSame DEF TypeOK, PlacesOK, ReloadOrder, Users
<1>l. ~expired => serving \in live
  BY DEF TypeOK, PlacesOK, ReloadOrder, Installed, ForgottenIsDone, CloseProgress, ClosedIsIdle
<1>1. TypeOK'
  BY <1>u DEF TypeOK, PlacesOK, ReloadOrder
<1>2. RefsCountUsers'
  BY <1>u DEF RefsCountUsers
<1>3. PlacesOK'
  BY <1>u, <1>l DEF PlacesOK, TypeOK, ReloadOrder, ForgottenIsDone, CloseProgress, ClosedIsIdle
<1>4. ReloadOrder'
  BY <1>u DEF ReloadOrder, TypeOK, Installed, PlacesOK
<1>5. AcquireOpen'
  BY <1>u DEF AcquireOpen, TypeOK, PlacesOK, ClosedIsIdle, ReloadOrder, StoppedIsQuiet, ClosersSeeIdle
<1>6. StoppedIsQuiet'
  BY <1>u DEF StoppedIsQuiet, TypeOK, PlacesOK
<1>7. ClosersSeeIdle'
  <2>1. \A b \in Req \cup Gen : (pc[b] \in ClosePlace => closing[hold[b]] /\ Users(hold[b]) = {})'
    <3> SUFFICES ASSUME NEW b \in Req \cup Gen, pc'[b] \in ClosePlace
                 PROVE  closing[hold[b]] /\ Users(hold[b]) = {}
      BY <1>u
    <3>1. b # Shutdown  OBVIOUS
    <3>2. pc[b] \in ClosePlace  BY <3>1 DEF TypeOK
    <3>3. QED  BY <3>2 DEF ClosersSeeIdle
  <2>2. (pc[Shutdown] \in ClosePlace => Users(hold[Shutdown]) = {} \/ expired)'
    BY <1>u, NoUsers DEF ClosersSeeIdle, TypeOK, PlacesOK
  <2>3. QED  BY <2>1, <2>2 DEF ClosersSeeIdle
<1>8. ClosedIsIdle'
  BY <1>u DEF ClosedIsIdle, TypeOK, PlacesOK, ClosersSeeIdle
<1>9. CloseProgress'
  BY <1>u DEF CloseProgress, TypeOK, PlacesOK
<1>10. ForgottenIsDone'
  BY <1>u DEF ForgottenIsDone, TypeOK, CloseProgress, PlacesOK
<1>11. PassedIsDrained'
  BY <1>u DEF PassedIsDrained, TypeOK, PlacesOK, CloseProgress
<1>12. ExitIsPassed'
  BY <1>u DEF ExitIsPassed, TypeOK, PlacesOK
<1>q. QED  BY <1>1, <1>2, <1>3, <1>4, <1>5, <1>6, <1>7, <1>8, <1>9, <1>10, <1>11, <1>12

(* NextGeneration preserves the inductive invariant. *)
LEMMA NextGenerationInv ==
  ASSUME GenerationsInv, NextGeneration
  PROVE  GenerationsInv'
<1> USE GenerationsAssumption DEF GenerationsInv, NextGeneration, Goto, vars, reloadVars, countVars, closeVars, shutdownVars, AfterClose, ReturnFromClose
<1>u. \A h : Users(h)' = Users(h)
  BY UsersSame DEF TypeOK, PlacesOK, ReloadOrder, Users
<1>1. TypeOK'
  BY <1>u DEF TypeOK, PlacesOK, ReloadOrder
<1>2. RefsCountUsers'
  BY <1>u DEF RefsCountUsers
<1>3. PlacesOK'
  BY <1>u DEF PlacesOK, TypeOK, ReloadOrder, ForgottenIsDone, CloseProgress, ClosedIsIdle
<1>4. ReloadOrder'
  BY <1>u DEF ReloadOrder, TypeOK, Installed, PlacesOK
<1>5. AcquireOpen'
  BY <1>u DEF AcquireOpen, TypeOK, PlacesOK, ClosedIsIdle, ReloadOrder, StoppedIsQuiet, ClosersSeeIdle
<1>6. StoppedIsQuiet'
  BY <1>u DEF StoppedIsQuiet, TypeOK, PlacesOK
<1>7. ClosersSeeIdle'
  <2>1. ASSUME NEW b \in Req \cup Gen, pc'[b] \in ClosePlace
        PROVE  (closing[hold[b]] /\ Users(hold[b]) = {})'
    <3>1. pc[b] \in ClosePlace /\ hold'[b] = hold[b] /\ hold[b] \in Gen
      BY <2>1 DEF TypeOK, PlacesOK
    <3>2. closing[hold[b]] /\ Users(hold[b]) = {}
      BY <3>1 DEF ClosersSeeIdle
    <3>3. QED  BY <1>u, <3>1, <3>2 DEF TypeOK, ReloadOrder
  <2>2. (pc[Shutdown] \in ClosePlace => Users(hold[Shutdown]) = {} \/ expired)'
    BY <1>u, NoUsers DEF ClosersSeeIdle, TypeOK, PlacesOK
  <2>3. QED  BY <2>1, <2>2 DEF ClosersSeeIdle
<1>8. ClosedIsIdle'
  BY <1>u DEF ClosedIsIdle, TypeOK, PlacesOK, ClosersSeeIdle
<1>9. CloseProgress'
  BY <1>u DEF CloseProgress, TypeOK, PlacesOK
<1>10. ForgottenIsDone'
  BY <1>u DEF ForgottenIsDone, TypeOK, CloseProgress, PlacesOK
<1>11. PassedIsDrained'
  BY <1>u DEF PassedIsDrained, TypeOK, PlacesOK, CloseProgress
<1>12. ExitIsPassed'
  BY <1>u DEF ExitIsPassed, TypeOK, PlacesOK
<1>q. QED  BY <1>1, <1>2, <1>3, <1>4, <1>5, <1>6, <1>7, <1>8, <1>9, <1>10, <1>11, <1>12

(* IdleOrExpired preserves the inductive invariant. *)
LEMMA IdleOrExpiredInv ==
  ASSUME GenerationsInv, IdleOrExpired
  PROVE  GenerationsInv'
<1> USE GenerationsAssumption DEF GenerationsInv, IdleOrExpired, Goto, vars, reloadVars, countVars, closeVars, shutdownVars, AfterClose, ReturnFromClose
<1>u. \A h : Users(h)' = Users(h)
  BY UsersSame DEF TypeOK, PlacesOK, ReloadOrder, Users
<1>1. TypeOK'
  BY <1>u DEF TypeOK, PlacesOK, ReloadOrder
<1>2. RefsCountUsers'
  BY <1>u DEF RefsCountUsers
<1>3. PlacesOK'
  BY <1>u DEF PlacesOK, TypeOK, ReloadOrder, ForgottenIsDone, CloseProgress, ClosedIsIdle
<1>4. ReloadOrder'
  BY <1>u DEF ReloadOrder, TypeOK, Installed, PlacesOK
<1>5. AcquireOpen'
  BY <1>u DEF AcquireOpen, TypeOK, PlacesOK, ClosedIsIdle, ReloadOrder, StoppedIsQuiet, ClosersSeeIdle
<1>6. StoppedIsQuiet'
  BY <1>u DEF StoppedIsQuiet, TypeOK, PlacesOK
<1>7. ClosersSeeIdle'
  <2>1. \A b \in Req \cup Gen : (pc[b] \in ClosePlace => closing[hold[b]] /\ Users(hold[b]) = {})'
    BY <1>u DEF ClosersSeeIdle, TypeOK, PlacesOK, ReloadOrder
  <2>2. (pc[Shutdown] \in ClosePlace => Users(hold[Shutdown]) = {} \/ expired)'
    BY <1>u, NoUsers DEF ClosersSeeIdle, TypeOK, PlacesOK
  <2>3. QED  BY <2>1, <2>2 DEF ClosersSeeIdle
<1>8. ClosedIsIdle'
  BY <1>u DEF ClosedIsIdle, TypeOK, PlacesOK, ClosersSeeIdle
<1>9. CloseProgress'
  BY <1>u DEF CloseProgress, TypeOK, PlacesOK
<1>10. ForgottenIsDone'
  BY <1>u DEF ForgottenIsDone, TypeOK, CloseProgress, PlacesOK
<1>11. PassedIsDrained'
  BY <1>u DEF PassedIsDrained, TypeOK, PlacesOK, CloseProgress
<1>12. ExitIsPassed'
  BY <1>u DEF ExitIsPassed, TypeOK, PlacesOK
<1>q. QED  BY <1>1, <1>2, <1>3, <1>4, <1>5, <1>6, <1>7, <1>8, <1>9, <1>10, <1>11, <1>12

(* Forget preserves the inductive invariant. *)
LEMMA ForgetInv ==
  ASSUME GenerationsInv, Forget
  PROVE  GenerationsInv'
<1> USE GenerationsAssumption DEF GenerationsInv, Forget, Goto, vars, reloadVars, countVars, closeVars, shutdownVars, AfterClose, ReturnFromClose
<1>u. \A h : Users(h)' = Users(h)
  BY UsersSame DEF TypeOK, PlacesOK, ReloadOrder, Users
<1>1. TypeOK'
  BY <1>u DEF TypeOK, PlacesOK, ReloadOrder
<1>2. RefsCountUsers'
  BY <1>u DEF RefsCountUsers
<1>3. PlacesOK'
  BY <1>u DEF PlacesOK, TypeOK, ReloadOrder, ForgottenIsDone, CloseProgress, ClosedIsIdle
<1>4. ReloadOrder'
  BY <1>u DEF ReloadOrder, TypeOK, Installed, PlacesOK
<1>5. AcquireOpen'
  BY <1>u DEF AcquireOpen, TypeOK, PlacesOK, ClosedIsIdle, ReloadOrder, StoppedIsQuiet, ClosersSeeIdle
<1>6. StoppedIsQuiet'
  BY <1>u DEF StoppedIsQuiet, TypeOK, PlacesOK
<1>7. ClosersSeeIdle'
  BY <1>u DEF ClosersSeeIdle, TypeOK, PlacesOK, ReloadOrder, RefsCountUsers
<1>8. ClosedIsIdle'
  BY <1>u DEF ClosedIsIdle, TypeOK, PlacesOK, ClosersSeeIdle
<1>9. CloseProgress'
  BY <1>u DEF CloseProgress, TypeOK, PlacesOK
<1>10. ForgottenIsDone'
  BY <1>u DEF ForgottenIsDone, TypeOK, CloseProgress, PlacesOK
<1>11. PassedIsDrained'
  BY <1>u DEF PassedIsDrained, TypeOK, PlacesOK, CloseProgress
<1>12. ExitIsPassed'
  BY <1>u DEF ExitIsPassed, TypeOK, PlacesOK
<1>q. QED  BY <1>1, <1>2, <1>3, <1>4, <1>5, <1>6, <1>7, <1>8, <1>9, <1>10, <1>11, <1>12

(* The step that takes a reference: one more user of the serving           *)
(* generation, which is neither closing nor closed.                         *)
LEMMA AcquireInv ==
  ASSUME GenerationsInv, NEW r \in Req, Acquire(r)
  PROVE  GenerationsInv'
<1> USE GenerationsAssumption DEF GenerationsInv, Acquire, Goto, reloadVars, closeVars, shutdownVars
<1>h. hold[r] = serving /\ serving \in Gen /\ ~closed[serving] /\ ~closing[serving] /\ gens = {}
  BY DEF TypeOK, AcquireOpen, ReloadOrder, StoppedIsQuiet
<1>n. r \notin Users(serving)
  BY DEF Users
<1>u. /\ Users(serving)' = Users(serving) \cup {r}
      /\ \A g : g # serving => Users(g)' = Users(g)
  BY <1>h DEF Users, TypeOK
<1>1. TypeOK'
  BY <1>h DEF TypeOK
<1>2. RefsCountUsers'
  <2>1. Cardinality(Users(serving) \cup {r}) = Cardinality(Users(serving)) + 1
    BY <1>n, UsersFinite, FS_AddElement
  <2>2. QED  BY <1>h, <1>u, <2>1 DEF RefsCountUsers, TypeOK
<1>3. PlacesOK'
  BY <1>h DEF PlacesOK, TypeOK
<1>4. ReloadOrder'
  BY DEF ReloadOrder, Installed, TypeOK
<1>5. AcquireOpen'
  BY DEF AcquireOpen, TypeOK
<1>6. StoppedIsQuiet'
  BY DEF StoppedIsQuiet, TypeOK
<1>7. ClosersSeeIdle'
  <2>1. ASSUME NEW a \in Actor, pc'[a] \in ClosePlace
        PROVE  pc[a] \in ClosePlace /\ hold'[a] = hold[a]
    BY <2>1 DEF TypeOK
  <2>2. \A a \in Req \cup Gen : (pc[a] \in ClosePlace => closing[hold[a]] /\ Users(hold[a]) = {})'
    BY <1>h, <1>u, <2>1 DEF ClosersSeeIdle
  <2>3. (pc[Shutdown] \in ClosePlace => Users(hold[Shutdown]) = {} \/ expired)'
    BY <1>h, <2>1 DEF PlacesOK
  <2>4. QED  BY <2>2, <2>3 DEF ClosersSeeIdle
<1>8. ClosedIsIdle'
  BY <1>h, <1>u DEF ClosedIsIdle
<1>9. CloseProgress'
  BY DEF CloseProgress, TypeOK
<1>10. ForgottenIsDone'
  BY DEF ForgottenIsDone
<1>11. PassedIsDrained'
  BY DEF PassedIsDrained, TypeOK
<1>12. ExitIsPassed'
  BY DEF ExitIsPassed, TypeOK
<1>q. QED  BY <1>1, <1>2, <1>3, <1>4, <1>5, <1>6, <1>7, <1>8, <1>9, <1>10, <1>11, <1>12

(* The step that gives one back: if the generation is closing and the count *)
(* reaches zero, the request goes on to close an idle generation.           *)
LEMMA ReleaseInv ==
  ASSUME GenerationsInv, NEW r \in Req, Release(r)
  PROVE  GenerationsInv'
<1> USE GenerationsAssumption DEF GenerationsInv, Release, Goto, reloadVars, closeVars, shutdownVars
<1>h. hold[r] \in Gen /\ r \in Users(hold[r])
  BY DEF PlacesOK, Users
<1>u. /\ Users(hold[r])' = Users(hold[r]) \ {r}
      /\ \A g : g # hold[r] => Users(g)' = Users(g)
  BY <1>h DEF Users, TypeOK
<1>c. Cardinality(Users(hold[r]) \ {r}) = Cardinality(Users(hold[r])) - 1
  BY <1>h, UsersFinite, FS_RemoveElement
<1>p. pc' = [pc EXCEPT ![r] = "call"] \/ pc' = [pc EXCEPT ![r] = "idle"]
  OBVIOUS
<1>f. refs' = [refs EXCEPT ![hold[r]] = refs[hold[r]] - 1]
  OBVIOUS
<1>t. hold' = hold /\ closing' = closing /\ closed' = closed
  OBVIOUS
<1>2. RefsCountUsers'
  BY <1>h, <1>u, <1>c, <1>f, <1>t DEF RefsCountUsers, TypeOK
<1>1. TypeOK'
  <2>1. Cardinality(Users(hold[r]) \ {r}) \in Nat
    BY UsersFinite, FS_RemoveElement, FS_CardinalityType
  <2>2. refs' \in [Gen -> Nat]
    BY <1>c, <1>h, <1>f, <2>1 DEF TypeOK, RefsCountUsers
  <2>3. QED  BY <1>p, <2>2 DEF TypeOK
<1>3. PlacesOK'
  BY <1>h, <1>p DEF PlacesOK, TypeOK
<1>4. ReloadOrder'
  BY <1>p DEF ReloadOrder, Installed, TypeOK
<1>5. AcquireOpen'
  BY <1>p DEF AcquireOpen, TypeOK
<1>6. StoppedIsQuiet'
  BY <1>p DEF StoppedIsQuiet, TypeOK
<1>7. ClosersSeeIdle'
  <2>1. ASSUME NEW b \in Req \cup Gen, pc'[b] \in ClosePlace
        PROVE  (closing[hold[b]] /\ Users(hold[b]) = {})'
    <3>1. CASE b = r
      <4>1. closing[hold[r]] /\ refs[hold[r]] - 1 <= 0
        BY <2>1, <3>1 DEF TypeOK
      <4>2. IsFiniteSet(Users(hold[r]) \ {r}) /\ Cardinality(Users(hold[r]) \ {r}) \in Nat
        BY UsersFinite, FS_RemoveElement, FS_CardinalityType
      <4>3. Cardinality(Users(hold[r]) \ {r}) = 0
        BY <1>h, <1>c, <4>1, <4>2 DEF RefsCountUsers, TypeOK
      <4>4. Users(hold[r]) \ {r} = {}
        BY <4>2, <4>3, FS_EmptySet
      <4>5. QED  BY <1>t, <1>u, <3>1, <4>1, <4>4
    <3>2. CASE b # r
      <4>1. pc[b] \in ClosePlace
        BY <1>p, <2>1, <3>2 DEF TypeOK
      <4>2. closing[hold[b]] /\ Users(hold[b]) = {}
        BY <4>1 DEF ClosersSeeIdle
      <4>3. hold[b] # hold[r]
        BY <1>h, <4>2
      <4>4. QED  BY <1>t, <1>u, <4>2, <4>3
    <3>3. QED  BY <3>1, <3>2
  <2>2. (pc[Shutdown] \in ClosePlace => Users(hold[Shutdown]) = {} \/ expired)'
    BY <1>u, <1>t, <1>p DEF ClosersSeeIdle, TypeOK
  <2>3. QED  BY <2>1, <2>2 DEF ClosersSeeIdle
<1>8. ClosedIsIdle'
  BY <1>h, <1>u, <1>t DEF ClosedIsIdle
<1>9. CloseProgress'
  BY <1>p DEF CloseProgress, TypeOK
<1>10. ForgottenIsDone'
  BY DEF ForgottenIsDone
<1>11. PassedIsDrained'
  BY <1>p DEF PassedIsDrained, TypeOK
<1>12. ExitIsPassed'
  BY <1>p DEF ExitIsPassed, TypeOK
<1>q. QED  BY <1>1, <1>2, <1>3, <1>4, <1>5, <1>6, <1>7, <1>8, <1>9, <1>10, <1>11, <1>12

-----------------------------------------------------------------------------
(* The invariant holds initially. *)
LEMMA InitInv == Init => GenerationsInv
<1> SUFFICES ASSUME Init PROVE GenerationsInv
  OBVIOUS
<1> USE GenerationsAssumption DEF Init
<1>1. \A g : Users(g) = {}
  BY DEF Users
<1>2. RefsCountUsers
  BY <1>1, FS_EmptySet DEF RefsCountUsers
<1>3. TypeOK /\ PlacesOK
  BY DEF TypeOK, PlacesOK
<1>4. ReloadOrder /\ AcquireOpen /\ StoppedIsQuiet
  BY DEF ReloadOrder, Installed, AcquireOpen, StoppedIsQuiet
<1>5. ClosersSeeIdle /\ ClosedIsIdle /\ CloseProgress
  BY DEF ClosersSeeIdle, ClosedIsIdle, CloseProgress
<1>6. ForgottenIsDone /\ PassedIsDrained /\ ExitIsPassed
  BY DEF ForgottenIsDone, PassedIsDrained, ExitIsPassed
<1>7. QED  BY <1>2, <1>3, <1>4, <1>5, <1>6 DEF GenerationsInv

(* A step that changes nothing preserves the invariant. *)
LEMMA StutterInv ==
  ASSUME GenerationsInv, UNCHANGED vars
  PROVE  GenerationsInv'
BY DEF GenerationsInv, vars, TypeOK, RefsCountUsers, PlacesOK, ReloadOrder, Installed,
       AcquireOpen, StoppedIsQuiet, ClosersSeeIdle, ClosedIsIdle, CloseProgress,
       ForgottenIsDone, PassedIsDrained, ExitIsPassed, Users

(* Every step preserves the invariant. *)
LEMMA NextInv == GenerationsInv /\ [Next]_vars => GenerationsInv'
<1> SUFFICES ASSUME GenerationsInv, [Next]_vars PROVE GenerationsInv'
  OBVIOUS
<1>1. ASSUME NEW r \in Req, RequestStep(r) PROVE GenerationsInv'
  BY <1>1, ArriveInv, ReadPointerInv, AcquireInv, ReleaseInv, TimeoutFiresInv DEF RequestStep
<1>2. ASSUME NEW g \in Gen, ReloadStep(g) \/ TimerFires(g) PROVE GenerationsInv'
  BY <1>2, AddGenerationInv, RequestSwapInv, SwapInv, MarkClosingInv, TimerFiresInv DEF ReloadStep
<1>3. ASSUME NEW a \in Actor, CloseStep(a) PROVE GenerationsInv'
  BY <1>3, CloseNowInv, CloseReturnsInv, OnClosedInv, WaitReturnsInv DEF CloseStep
<1>4. ASSUME Signal \/ Expire \/ ShutdownStep PROVE GenerationsInv'
  BY <1>4, SignalInv, ExpireInv, DrainOverInv, ServerStopsInv, SnapshotOrSkipInv,
     NextGenerationInv, IdleOrExpiredInv, ForgetInv DEF ShutdownStep
<1>5. CASE UNCHANGED vars
  BY <1>5, StutterInv
<1>6. QED  BY <1>1, <1>2, <1>3, <1>4, <1>5 DEF Next, Exited

(* The inductive invariant holds in every reachable state, for any number   *)
(* of requests, reloads and closers.                                        *)
THEOREM Invariance == Spec => []GenerationsInv
BY InitInv, NextInv, PTL DEF Spec

(* The variables stay within their types.                                   *)
THEOREM TypeCorrect == Spec => []TypeOK
BY Invariance, PTL DEF GenerationsInv

(* No goroutine closes entities a handler is using before the shutdown      *)
(* deadline (NoCloseInUse).                                                 *)
THEOREM NeverClosedInUse == Spec => []NoCloseInUse
<1>1. GenerationsInv => NoCloseInUse
  BY DEF GenerationsInv, NoCloseInUse, ClosedIsIdle, PlacesOK, Users
<1>2. QED  BY Invariance, <1>1, PTL

(* A request takes its reference on the open serving generation.            *)
THEOREM AcquiredOpen == Spec => []AcquireOpen
BY Invariance, PTL DEF GenerationsInv

(* Entities.Close runs at most once per generation.                         *)
THEOREM ClosesOnce == Spec => []ClosedOnce
<1>1. GenerationsInv => ClosedOnce
  BY DEF GenerationsInv, CloseProgress, ClosedOnce
<1>2. QED  BY Invariance, <1>1, PTL

(* A shutdown that ends within its budget has drained its whole snapshot.   *)
THEOREM DrainsBeforeExit == Spec => []DrainedAtExit
<1>1. GenerationsInv => DrainedAtExit
  BY DEF GenerationsInv, PassedIsDrained, ExitIsPassed, DrainedAtExit, TypeOK
<1>2. QED  BY Invariance, <1>1, PTL

(* The generation the handler points at was never retired, and is open until *)
(* shutdown has copied the registry (ServingIsCurrent).                     *)
THEOREM ServingStaysCurrent == Spec => []ServingIsCurrent
<1>1. GenerationsInv => ServingIsCurrent
  BY DEF GenerationsInv, TypeOK, ReloadOrder, ClosedIsIdle, ServingIsCurrent
<1>2. QED  BY <1>1, Invariance, PTL

(* The registry only forgets generations whose close has finished.          *)
THEOREM RegistryForgetsDone == Spec => []ForgottenIsDone
BY Invariance, PTL DEF GenerationsInv

-----------------------------------------------------------------------------
(* The refinement of EntityLifetime.                                        *)

(* Every step but Acquire and Release keeps the users of every generation. *)
LEMMA KeepsUsers ==
  ASSUME GenerationsInv,
         \/ \E r \in Req : Arrive(r) \/ ReadPointer(r) \/ TimeoutFires(r)
         \/ \E g \in Gen : ReloadStep(g) \/ TimerFires(g)
         \/ \E a \in Actor : CloseStep(a)
         \/ Signal \/ Expire \/ ShutdownStep
  PROVE  \A h : Users(h)' = Users(h)
<1> USE GenerationsAssumption DEF GenerationsInv, Goto, reloadVars, countVars,
        closeVars, shutdownVars, AfterClose, ReturnFromClose
<1>1. ASSUME NEW r \in Req, Arrive(r) \/ ReadPointer(r) \/ TimeoutFires(r)
      PROVE  \A h : Users(h)' = Users(h)
  <2>1. CASE Arrive(r)  BY <2>1, UsersSame DEF Arrive
  <2>2. CASE ReadPointer(r)  BY <2>2, UsersSame DEF ReadPointer, TypeOK
  <2>3. CASE TimeoutFires(r)  BY <2>3 DEF TimeoutFires, Users
  <2>4. QED  BY <1>1, <2>1, <2>2, <2>3
<1>2. ASSUME NEW g \in Gen, ReloadStep(g) \/ TimerFires(g)
      PROVE  \A h : Users(h)' = Users(h)
  <2>1. CASE AddGeneration(g) \/ RequestSwap(g) \/ Swap(g)
    BY <2>1 DEF AddGeneration, RequestSwap, Swap, Users
  <2>2. CASE MarkClosing(g)
    BY <2>2, UsersSame DEF MarkClosing, ReloadOrder, PlacesOK
  <2>3. CASE TimerFires(g)
    BY <2>3, UsersSame DEF TimerFires
  <2>4. QED  BY <1>2, <2>1, <2>2, <2>3 DEF ReloadStep
<1>3. ASSUME NEW a \in Actor, CloseStep(a)
      PROVE  \A h : Users(h)' = Users(h)
  BY <1>3, UsersSame DEF CloseStep, CloseNow, CloseReturns, OnClosed, WaitReturns
<1>4. ASSUME Signal \/ Expire
      PROVE  \A h : Users(h)' = Users(h)
  BY <1>4, UsersSame DEF Signal, Expire, Users
<1>5. ASSUME ShutdownStep
      PROVE  \A h : Users(h)' = Users(h)
  <2>1. pc[Shutdown] # "using" /\ \A r \in Req \ {Shutdown} : hold'[r] = hold[r]
    BY <1>5 DEF ShutdownStep, DrainOver, ServerStops, SnapshotOrSkip, NextGeneration,
                IdleOrExpired, Forget, TypeOK
  <2>2. \E place : place # "using" /\ Goto(Shutdown, place)
    BY <1>5 DEF ShutdownStep, DrainOver, ServerStops, SnapshotOrSkip, NextGeneration,
                IdleOrExpired, Forget
  <2>3. QED  BY <2>1, <2>2, UsersSame
<1>6. QED  BY <1>1, <1>2, <1>3, <1>4, <1>5

(* A step that keeps what the abstract state is made of is a stutter. *)
LEMMA AbstractStutter ==
  ASSUME UNCHANGED <<serving, closed, gens, expired>>,
         \A g \in Gen : Installed(g)' = Installed(g),
         \A h : Users(h)' = Users(h)
  PROVE  UNCHANGED Lifetime!lifetimeVars
<1>1. [g \in Gen |-> Users(g)]' = [g \in Gen |-> Users(g)]
  OBVIOUS
<1>2. {g \in Gen : reload[g] \in {"swapped", "finished"}}' =
      {g \in Gen : reload[g] \in {"swapped", "finished"}}
  BY DEF Installed
<1>3. {g \in Gen : closed[g]}' = {g \in Gen : closed[g]}
  OBVIOUS
<1>4. QED  BY <1>1, <1>2, <1>3 DEF Lifetime!lifetimeVars

(* Acquire begins a request on the current generation, which is open. *)
LEMMA AcquireBegins ==
  ASSUME GenerationsInv, NEW r \in Req, Acquire(r)
  PROVE  Lifetime!Begin(r)
<1> USE GenerationsAssumption DEF GenerationsInv, Acquire, Goto, reloadVars, closeVars, shutdownVars
<1>1. hold[r] = serving /\ serving \in Gen /\ ~closed[serving] /\ gens = {}
  BY DEF TypeOK, AcquireOpen, StoppedIsQuiet
<1>2. \A g \in Gen : r \notin Users(g)
  BY DEF Users
<1>3. /\ Users(serving)' = Users(serving) \cup {r}
      /\ \A g : g # serving => Users(g)' = Users(g)
  BY <1>1 DEF Users, TypeOK
<1>4. [g \in Gen |-> Users(g)]' = [[g \in Gen |-> Users(g)] EXCEPT ![serving] = @ \cup {r}]
  BY <1>1, <1>3
<1>5. QED  BY <1>1, <1>2, <1>4 DEF Lifetime!Begin

(* Release ends it. *)
LEMMA ReleaseEnds ==
  ASSUME GenerationsInv, NEW r \in Req, Release(r)
  PROVE  hold[r] \in Gen /\ Lifetime!End(r, hold[r])
<1> USE GenerationsAssumption DEF GenerationsInv, Release, Goto, reloadVars, closeVars, shutdownVars
<1>1. hold[r] \in Gen /\ r \in Users(hold[r])
  BY DEF PlacesOK, Users
<1>2. /\ Users(hold[r])' = Users(hold[r]) \ {r}
      /\ \A g : g # hold[r] => Users(g)' = Users(g)
  BY <1>1 DEF Users, TypeOK
<1>3. [g \in Gen |-> Users(g)]' = [[g \in Gen |-> Users(g)] EXCEPT ![hold[r]] = @ \ {r}]
  BY <1>1, <1>2
<1>4. QED  BY <1>1, <1>3 DEF Lifetime!End

(* The closing branch of closeNow releases the generation; a late caller    *)
(* changes nothing.                                                         *)
LEMMA CloseNowReleases ==
  ASSUME GenerationsInv, NEW a \in Actor, CloseNow(a),
         NEW g \in Gen, g = hold[a]
  PROVE  Lifetime!Release(g) \/ UNCHANGED Lifetime!lifetimeVars
<1> USE GenerationsAssumption DEF GenerationsInv, CloseNow, Goto, reloadVars, countVars, shutdownVars
<1>u. \A h : Users(h)' = Users(h)
  BY KeepsUsers DEF CloseStep
<1>1. CASE closed[hold[a]]
  BY <1>1, <1>u, AbstractStutter DEF Installed
<1>2. CASE ~closed[hold[a]]
  <2>1. hold[a] # serving \/ gens # {}
    BY DEF ClosersSeeIdle, ReloadOrder, PlacesOK
  <2>2. Users(hold[a]) = {} \/ (expired /\ gens # {})
    BY DEF ClosersSeeIdle, PlacesOK
  <2>3. {h \in Gen : closed[h]}' = {h \in Gen : closed[h]} \cup {g}
    BY <1>2 DEF TypeOK
  <2>4. [h \in Gen |-> Users(h)]' = [h \in Gen |-> Users(h)]
    BY <1>u
  <2>5. QED  BY <1>2, <2>1, <2>2, <2>3, <2>4 DEF Lifetime!Release
<1>3. QED  BY <1>1, <1>2

(* Swap installs a generation that was never current. *)
LEMMA SwapInstalls ==
  ASSUME GenerationsInv, NEW g \in Gen, Swap(g)
  PROVE  Lifetime!Install(g)
<1> USE DEF GenerationsInv, Swap, countVars, closeVars, shutdownVars
<1>1. {h \in Gen : reload[h] \in {"swapped", "finished"}}' =
      {h \in Gen : reload[h] \in {"swapped", "finished"}} \cup {g}
  BY DEF TypeOK
<1>2. [h \in Gen |-> Users(h)]' = [h \in Gen |-> Users(h)]
  BY KeepsUsers DEF ReloadStep
<1>3. QED  BY <1>1, <1>2 DEF Lifetime!Install

(* Every step of the generations is a step of the lifetime or a stutter. *)
LEMMA StepRefines ==
  ASSUME GenerationsInv, [Next]_vars
  PROVE  [Lifetime!Next]_(Lifetime!lifetimeVars)
<1> USE DEF reloadVars, countVars, closeVars, shutdownVars
<1>1. ASSUME NEW r \in Req, RequestStep(r) PROVE [Lifetime!Next]_(Lifetime!lifetimeVars)
  <2>1. CASE Acquire(r)  BY <2>1, AcquireBegins DEF Lifetime!Next
  <2>2. CASE Release(r)  BY <2>2, ReleaseEnds DEF Lifetime!Next
  <2>3. CASE Arrive(r) \/ ReadPointer(r) \/ TimeoutFires(r)
    BY <2>3, KeepsUsers, AbstractStutter DEF Arrive, ReadPointer, TimeoutFires, Installed
  <2>4. QED  BY <1>1, <2>1, <2>2, <2>3 DEF RequestStep
<1>2. ASSUME NEW g \in Gen, ReloadStep(g) \/ TimerFires(g)
      PROVE  [Lifetime!Next]_(Lifetime!lifetimeVars)
  <2>u. \A h : Users(h)' = Users(h)
    BY <1>2, KeepsUsers
  <2>1. CASE Swap(g)  BY <2>1, SwapInstalls DEF Lifetime!Next
  <2>2. CASE AddGeneration(g) \/ RequestSwap(g) \/ MarkClosing(g) \/ TimerFires(g)
    <3>1. UNCHANGED <<serving, closed, gens, expired>>
      BY <2>2 DEF AddGeneration, RequestSwap, MarkClosing, TimerFires
    <3>2. \A h \in Gen : Installed(h)' = Installed(h)
      BY <2>2 DEF AddGeneration, RequestSwap, MarkClosing, TimerFires, Installed,
                  GenerationsInv, TypeOK
    <3>3. QED  BY <2>u, <3>1, <3>2, AbstractStutter
  <2>3. QED  BY <1>2, <2>1, <2>2 DEF ReloadStep
<1>3. ASSUME NEW a \in Actor, CloseStep(a) PROVE [Lifetime!Next]_(Lifetime!lifetimeVars)
  <2>1. CASE CloseNow(a)
    <3>1. PICK g \in Gen : g = hold[a]
      BY <2>1 DEF CloseNow, GenerationsInv, PlacesOK
    <3>2. Lifetime!Release(g) \/ UNCHANGED Lifetime!lifetimeVars
      BY <2>1, <3>1, CloseNowReleases
    <3>3. QED  BY <3>2 DEF Lifetime!Next
  <2>2. CASE CloseReturns(a) \/ OnClosed(a) \/ WaitReturns(a)
    BY <1>3, <2>2, KeepsUsers, AbstractStutter DEF CloseReturns, OnClosed, WaitReturns, Installed
  <2>3. QED  BY <1>3, <2>1, <2>2 DEF CloseStep
<1>4. ASSUME Signal \/ Expire \/ ShutdownStep PROVE [Lifetime!Next]_(Lifetime!lifetimeVars)
  <2>u. [g \in Gen |-> Users(g)]' = [g \in Gen |-> Users(g)] /\ \A h : Users(h)' = Users(h)
    BY <1>4, KeepsUsers
  <2>1. CASE UNCHANGED <<gens, expired>>
    <3>1. UNCHANGED <<serving, closed, reload>>
      BY <1>4 DEF Signal, Expire, ShutdownStep, DrainOver, ServerStops, SnapshotOrSkip,
                  NextGeneration, IdleOrExpired, Forget
    <3>2. QED  BY <2>u, <2>1, <3>1, AbstractStutter DEF Installed
  <2>2. CASE Expire
    <3>1. gens' = gens /\ expired' = TRUE /\ ~expired /\ UNCHANGED <<serving, closed, reload>>
      BY <2>2 DEF Expire
    <3>2. QED
      BY <2>u, <3>1 DEF Lifetime!Next, Lifetime!ChangeMode, Lifetime!lifetimeVars
  <2>3. CASE SnapshotOrSkip /\ ~expired
    <3>1. gens = {} /\ serving \in live
      BY <2>3 DEF SnapshotOrSkip, GenerationsInv, TypeOK, PlacesOK, ReloadOrder, Installed,
                  ForgottenIsDone, CloseProgress, ClosedIsIdle
    <3>2. gens' = live /\ expired' = expired /\ UNCHANGED <<serving, closed, reload>>
      BY <2>3 DEF SnapshotOrSkip
    <3>3. QED
      BY <2>u, <2>3, <3>1, <3>2 DEF Lifetime!Next, Lifetime!ChangeMode, Lifetime!lifetimeVars
  <2>4. QED
    BY <1>4, <2>1, <2>2, <2>3 DEF Signal, ShutdownStep, DrainOver, ServerStops,
       SnapshotOrSkip, NextGeneration, IdleOrExpired, Forget
<1>5. CASE UNCHANGED vars
  <2>1. \A h : Users(h)' = Users(h)  BY <1>5 DEF vars, Users
  <2>2. QED  BY <1>5, <2>1, AbstractStutter DEF vars, Installed
<1>6. QED  BY <1>1, <1>2, <1>3, <1>4, <1>5 DEF Next, Exited

(* The generations implement the promised lifetime of entities. *)
THEOREM LifetimeRefinement == Spec => ImplementsLifetime
<1>1. Init => Lifetime!Init
  <2> SUFFICES ASSUME Init PROVE Lifetime!Init
    OBVIOUS
  <2>1. \A g : Users(g) = {}  BY GenerationsAssumption DEF Init, Users
  <2>2. {g \in Gen : reload[g] \in {"swapped", "finished"}} = {FirstGen}
    BY GenerationsAssumption DEF Init
  <2>3. {g \in Gen : closed[g]} = {}  BY DEF Init
  <2>4. [g \in Gen |-> Users(g)] = [g \in Gen |-> {}]  BY <2>1
  <2>5. QED  BY <2>2, <2>3, <2>4 DEF Init, Lifetime!Init
<1>2. GenerationsInv /\ [Next]_vars => [Lifetime!Next]_(Lifetime!lifetimeVars)
  BY StepRefines
<1>3. QED  BY <1>1, <1>2, Invariance, PTL DEF Spec, ImplementsLifetime, Lifetime!Spec

=============================================================================
