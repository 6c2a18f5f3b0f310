------------------------------ MODULE EventLog -------------------------------
(***************************************************************************)
(* What an analytics batcher promises about events: an event it accepted   *)
(* is settled exactly once, by a write that succeeded or by one that       *)
(* failed, and when Close reports success no accepted event is left and    *)
(* none will be accepted.                                                  *)
(***************************************************************************)
CONSTANT Event

VARIABLES
  fate,   \* [Event -> what became of it]
  ended   \* a Close has reported success

logVars == <<fate, ended>>

Init ==
  /\ fate  = [e \in Event |-> "none"]
  /\ ended = FALSE

Accept(e) ==
  /\ ~ended
  /\ fate[e] = "none"
  /\ fate' = [fate EXCEPT ![e] = "pending"]
  /\ UNCHANGED ended

Refuse(e) ==
  /\ fate[e] = "none"
  /\ fate' = [fate EXCEPT ![e] = "refused"]
  /\ UNCHANGED ended

(* One write settles a whole batch. *)
Settle(batch, outcome) ==
  /\ \A e \in batch : fate[e] = "pending"
  /\ fate' = [e \in Event |-> IF e \in batch THEN outcome ELSE fate[e]]
  /\ UNCHANGED ended

End ==
  /\ \A e \in Event : fate[e] # "pending"
  /\ ended' = TRUE
  /\ UNCHANGED fate

Next ==
  \/ \E e \in Event : Accept(e) \/ Refuse(e)
  \/ \E batch \in SUBSET Event : Settle(batch, "written") \/ Settle(batch, "failed")
  \/ End

Spec == Init /\ [][Next]_logVars
=============================================================================
