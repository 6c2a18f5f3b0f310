--------------------------- MODULE EntityLifetime ----------------------------
(***************************************************************************)
(* What hot reload and shutdown promise about the entities of a            *)
(* generation, without saying how: requests only ever begin on the current *)
(* generation and only while it is open, a generation is released once,    *)
(* never under a request unless the shutdown deadline has passed, and      *)
(* never while it is current unless the server is stopping.                *)
(***************************************************************************)
CONSTANTS Gen, FirstGen, Req

VARIABLES
  current,    \* the generation new requests are given
  installed,  \* the generations that are or were current
  users,      \* [Gen -> the requests using it]
  released,   \* the generations whose release has begun
  mode        \* "serving", then "stopping", then "late" (past the deadline)

lifetimeVars == <<current, installed, users, released, mode>>

Init ==
  /\ current   = FirstGen
  /\ installed = {FirstGen}
  /\ users     = [g \in Gen |-> {}]
  /\ released  = {}
  /\ mode      = "serving"

Install(g) ==
  /\ g \notin installed
  /\ current' = g
  /\ installed' = installed \cup {g}
  /\ UNCHANGED <<users, released, mode>>

Begin(r) ==
  /\ mode = "serving"
  /\ current \notin released
  /\ \A g \in Gen : r \notin users[g]
  /\ users' = [users EXCEPT ![current] = @ \cup {r}]
  /\ UNCHANGED <<current, installed, released, mode>>

End(r, g) ==
  /\ r \in users[g]
  /\ users' = [users EXCEPT ![g] = @ \ {r}]
  /\ UNCHANGED <<current, installed, released, mode>>

Release(g) ==
  /\ g \notin released
  /\ g # current \/ mode # "serving"
  /\ users[g] = {} \/ mode = "late"
  /\ released' = released \cup {g}
  /\ UNCHANGED <<current, installed, users, mode>>

ChangeMode ==
  /\ \/ mode = "serving"  /\ mode' = "stopping"
     \/ mode = "stopping" /\ mode' = "late"
  /\ UNCHANGED <<current, installed, users, released>>

Next ==
  \/ \E g \in Gen : Install(g) \/ Release(g)
  \/ \E r \in Req : Begin(r)
  \/ \E r \in Req, g \in Gen : End(r, g)
  \/ ChangeMode

Spec == Init /\ [][Next]_lifetimeVars
=============================================================================
