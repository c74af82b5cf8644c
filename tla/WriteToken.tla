---------------------------- MODULE WriteToken ----------------------------
(***************************************************************************)
(* What the server promises about the write access to the board: it is a   *)
(* token held by at most one client that is logged in, and it moves only   *)
(* in the ways listed here.  As long as there is a docent somebody holds   *)
(* the token.                                                              *)
(***************************************************************************)
CONSTANTS Clients, Nobody

VARIABLES present, docent, writer

tokenVars == <<present, docent, writer>>

TokenInit == present = {} /\ docent = Nobody /\ writer = Nobody

Join(c) ==
  /\ c \notin present
  /\ present' = present \cup {c}
  /\ UNCHANGED <<docent, writer>>

\* A docent takes the token over at login.
JoinAsDocent(c) ==
  /\ c \notin present
  /\ present' = present \cup {c}
  /\ docent' = c
  /\ writer' = c

\* A client that leaves hands the token to the docent, a docent that holds it
\* drops it.
Leave(c) ==
  /\ c \in present
  /\ present' = present \ {c}
  /\ docent' = IF docent = c THEN Nobody ELSE docent
  /\ writer' = IF writer = c THEN docent' ELSE writer

\* The docent gives the token to a client, or takes it back.
Assign(c) ==
  /\ docent # Nobody
  /\ c \in present
  /\ writer' = c
  /\ UNCHANGED <<present, docent>>

\* The holder gives the token up where there is no docent to give it to.
Drop ==
  /\ docent = Nobody
  /\ writer' = Nobody
  /\ UNCHANGED <<present, docent>>

\* Without a docent a free token may be taken.
Take(c) ==
  /\ docent = Nobody
  /\ writer = Nobody
  /\ c \in present
  /\ writer' = c
  /\ UNCHANGED <<present, docent>>

TokenNext ==
  \/ \E c \in Clients :
       Join(c) \/ JoinAsDocent(c) \/ Leave(c) \/ Assign(c) \/ Take(c)
  \/ Drop

TokenSpec == TokenInit /\ [][TokenNext]_tokenVars

=============================================================================
