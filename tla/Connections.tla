---------------------------- MODULE Connections ----------------------------
(***************************************************************************)
(* The sockets of the server process as its threads see them: the state of *)
(* the client at the other end, what a send() on it does, and whether the  *)
(* process itself is still alive.  A connection is named by its file       *)
(* descriptor, which the kernel hands out again after close().             *)
(*                                                                         *)
(* The sockets and signals belong to the operating system; they are        *)
(* modelled from how the server uses them: send() without MSG_NOSIGNAL,    *)
(* SIGPIPE left at its default action.                                     *)
(***************************************************************************)
EXTENDS Integers, FiniteSets

CONSTANTS
  Clients,   \* file descriptors accept() may return
  Nobody     \* the NULL pointer, or the free state of a lock

ASSUME NobodyAssumption == Nobody \notin Clients

VARIABLES
  peer,      \* peer[c]: the other end of connection c
  server     \* the server process

connVars == <<peer, server>>

(***************************************************************************)
(* "none": no connection.  "closed": the client closed, its FIN arrived.   *)
(* "provoked": a send went to a closed client, its RST is on the way.      *)
(* "aborted": the RST arrived, the error is pending on the socket.         *)
(* "broken": the next send raises SIGPIPE.                                 *)
(***************************************************************************)
PeerStates == {"none", "open", "closed", "provoked", "aborted", "broken"}

\* "killed": by SIGPIPE.  "crashed": by a NULL dereference.
ServerStates == {"running", "stopping", "exited", "killed", "crashed"}

ConnTypeOK ==
  /\ peer \in [Clients -> PeerStates]
  /\ server \in ServerStates

ConnInit ==
  /\ peer = [c \in Clients |-> "none"]
  /\ server = "running"

Running == server \in {"running", "stopping"}

AfterSend(p) ==
  CASE p = "closed"  -> "provoked"
    [] p = "aborted" -> "broken"
    [] OTHER         -> p

\* send() returns -1: the pending ECONNRESET is reported once.
SendFails(c) == peer[c] = "aborted"

\* recv() that returns -1 reports the pending error too.
AfterFailedRecv(p) == IF p = "aborted" THEN "broken" ELSE p

\* One send() to each connection of S.
SendTo(S) ==
  /\ peer' = [c \in Clients |-> IF c \in S THEN AfterSend(peer[c]) ELSE peer[c]]
  /\ server' = IF \E c \in S : peer[c] = "broken" THEN "killed" ELSE server

\* A NULL dereference: SIGSEGV ends the process.
Crash ==
  /\ server' = "crashed"
  /\ UNCHANGED peer

\* The client closes its socket, orderly or by a reset.
PeerLeaves(c, how) ==
  /\ peer[c] = "open"
  /\ peer' = [peer EXCEPT ![c] = how]
  /\ UNCHANGED server

\* The RST a send provoked arrives.
ResetArrives(c) ==
  /\ peer[c] = "provoked"
  /\ peer' = [peer EXCEPT ![c] = "broken"]
  /\ UNCHANGED server

=============================================================================
