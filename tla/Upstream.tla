------------------------------- MODULE Upstream --------------------------------
(***************************************************************************)
(* The providers that nest no other: what their Initialize may refuse, and *)
(* what one GenerateTile returns for what came back from outside           *)
(* (internal/providers: static, proxy, url template, cgi, postgis_mvt,     *)
(* custom; GetTile of pkg/utility.go).                                     *)
(*                                                                         *)
(* An outcome is "image", "skip" (an image with ForceSkipCache), "error",  *)
(* "both" (an image next to an error), "nothing" or "panic".  Of a name, a *)
(* type, a status or a script what counts is whether the configuration     *)
(* accepts it.                                                             *)
(***************************************************************************)
EXTENDS Integers

(* What makes Initialize of each return an error.                           *)
StaticFaults   == {"no image", "unreadable image"}
ProxyFaults    == {"no url", "unknown srid"}
TemplateFaults == {"no template", "unknown srid"}
CGIFaults      == {"no exec", "no uri"}
PostgisFaults  == {"bad column", "no datastore"}
CustomFaults   == {"unreadable file", "no preAuth", "no generateTile", "wrong close"}

Faults ==
  [static |-> StaticFaults,
   remote |-> ProxyFaults \cup TemplateFaults \cup CGIFaults \cup PostgisFaults,
   custom |-> CustomFaults]

-----------------------------------------------------------------------------
MaxLength == 1     \* ClientConfig.MaxLength, in units of a body

(* A reply of an HTTP server: the Content-Length it declares, or -1, and    *)
(* the length of the body that arrives before the connection ends.          *)
Replies ==
  [status : {"listed", "other"}, type : {"listed", "other"},
   declared : {-1, 1, 2}, body : 1 .. 2, cut : BOOLEAN]

Clients == [unknownLength : BOOLEAN]

(* GetTile, from client.Do on.  The length is checked as declared, and      *)
(* again as received.                                                       *)
GetTile(client, r) ==
  IF /\ r.status = "listed"
     /\ r.type = "listed"
     /\ IF r.declared = -1 THEN client.unknownLength ELSE r.declared <= MaxLength
     /\ ~r.cut
     /\ r.body <= MaxLength
  THEN "image" ELSE "error"

(* GenerateTile of proxy and, through it, of url template: the placeholders *)
(* may fail to resolve, and so may the call.                                *)
ProxyTile(client) == {"error"} \cup {GetTile(client, r) : r \in Replies}

(* GenerateTile of cgi: the script's output is an image however long it is, *)
(* and whatever its type unless invalidAsError.                             *)
CGITile(invalidAsError) ==
  {"error"} \cup
  {IF r.status = "listed" /\ (invalidAsError => r.type = "listed") THEN "image" ELSE "error" :
     r \in Replies}

(* GenerateTile of postgis_mvt: without a connection, bounds or a filter    *)
(* there is an error, but the error of the query comes with an image.       *)
PostgisTile == {"error"} \cup {IF scanned THEN "image" ELSE "both" : scanned \in BOOLEAN}

(* GenerateTile of a script: whatever it does. *)
CustomTile == {"image", "skip", "error", "both", "nothing", "panic"}

(* GenerateTile of static: the one image it was constructed with. *)
StaticTile == {"image"}

(* By kind: "remote" is any that waits for a reply and runs no script. *)
Outcomes ==
  [static |-> StaticTile,
   remote |-> UNION ({ProxyTile(c) : c \in Clients} \cup {CGITile(b) : b \in BOOLEAN} \cup {PostgisTile}),
   custom |-> CustomTile]

-----------------------------------------------------------------------------
(* PreAuth.  A script's context may expire and its call may fail or panic;  *)
(* the others need no credential.                                           *)
BypassesAuth(leaf) == leaf # "custom"
AuthMayFail(leaf)  == leaf = "custom"
=============================================================================
