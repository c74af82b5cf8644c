----------------------------- MODULE Ownership -----------------------------
(***************************************************************************)
(* What servers promise each other about a group of objects that they      *)
(* share by key: one server has the group, from its first object to its    *)
(* last.  A server that dies leaves what it has, and as nobody can tell    *)
(* the owner of an object from its key, nobody removes it or claims the    *)
(* group ever after.                                                       *)
(***************************************************************************)
CONSTANTS Servers, Nobody, Objects, First

VARIABLES
  owner,   \* the server that has the group
  held,    \* the objects of the group that exist
  live     \* does the owner go on?

groupVars == <<owner, held, live>>

GroupInit == owner = Nobody /\ held = {} /\ live = FALSE

\* The first object is the claim to the group.
Claim(s) ==
  /\ owner = Nobody
  /\ owner' = s
  /\ held' = {First}
  /\ live' = TRUE

Add(o) ==
  /\ live
  /\ o \notin held
  /\ held' = held \cup {o}
  /\ UNCHANGED <<owner, live>>

Remove(o) ==
  /\ live
  /\ o \in held \ {First}
  /\ held' = held \ {o}
  /\ UNCHANGED <<owner, live>>

\* The claim goes last.
Release ==
  /\ live
  /\ held = {First}
  /\ owner' = Nobody
  /\ held' = {}
  /\ live' = FALSE

Die ==
  /\ live
  /\ live' = FALSE
  /\ UNCHANGED <<owner, held>>

GroupNext ==
  \/ \E s \in Servers : Claim(s)
  \/ \E o \in Objects : Add(o) \/ Remove(o)
  \/ Release
  \/ Die

GroupSpec == GroupInit /\ [][GroupNext]_groupVars
=============================================================================
