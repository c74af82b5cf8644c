-------------------------- MODULE ClientProperties --------------------------
(***************************************************************************)
(* What the client promises about the user's edits and commands, and how   *)
(* its threads can hang.                                                   *)
(***************************************************************************)
EXTENDS Client

\* Every variable has its type.
TypeOK == AgentTypeOK /\ CommandTypeOK /\ UiTypeOK
-----------------------------------------------------------------------------
(***************************************************************************)
(* An edit reaches the server: a board that has not been sent is carried   *)
(* by an armed timer, a signal handler, a changed handler that is about to *)
(* arm or to trigger, or an agent that has been signalled and not yet      *)
(* sent; or its trigger came before the agent waited (client.c:214-233,    *)
(* liveagent_thread.c:38-111).                                             *)
(***************************************************************************)
EditCarried ==
  blackboard = "unsent" /\ client = "running" /\ ~Cancelled =>
    \/ timer \/ \E t \in alive : alarm[t] # "none"
    \/ stage \in {"locked", "trigger"}
    \/ agent \notin {"starting", "waiting"}
    \/ "agent" \in missed

(***************************************************************************)
(* The last command the user has triggered reaches the server: the command *)
(* thread has been signalled or holds its mutex to send, unless the click  *)
(* came before the thread waited (command_thread.c:186-244).               *)
(***************************************************************************)
CommandCarried ==
  wanted /\ client = "running" /\ ~Cancelled =>
    command \in {"signalled", "running"} \/ "command" \in missed

(***************************************************************************)
(* A condition variable is signalled while its thread is elsewhere only    *)
(* until the thread has begun to wait: from then on the thread keeps the   *)
(* mutex while it works, so that a trigger waits for it.                   *)
(***************************************************************************)
MissedOnlyAtStart ==
  [][/\ "agent" \in missed' \ missed => agent = "starting"
     /\ "command" \in missed' \ missed => command \in {"starting", "login"}]_vars
-----------------------------------------------------------------------------
\* t uses the board: it sends it, as the agent or in the signal handler, or it
\* has just replaced it.
UsesBoard(t) ==
  \/ t = "agent" /\ agent = "sending"
  \/ alarm[t] = "send"
  \/ gdk = t /\ stage = "locked"

(***************************************************************************)
(* Until the client ends one thread at a time uses the board: an edit does *)
(* not free the text that the agent or a signal handler is sending, and    *)
(* two board messages are never mixed on the connection, wherever the      *)
(* signal interrupts a thread (liveagent_thread.c:38-66, 88-111,           *)
(* client.c:214-233).                                                      *)
(***************************************************************************)
BoardUsedAlone ==
  client = "running" /\ ~Cancelled =>
    \A t, u \in Threads : UsesBoard(t) /\ UsesBoard(u) => t = u
-----------------------------------------------------------------------------
\* The mutex an editor waits for; the lock a thread without the GDK lock waits for.
EditorWaits ==
  IF stage = "lock" THEN board_mutex
  ELSE IF stage = "trigger" THEN trigger_la_mutex ELSE Free

ThreadWaits(t) ==
  CASE t = "main"     -> gdk
    [] t = "agent"    -> IF agent = "signalled" THEN trigger_la_mutex
                         ELSE IF agent = "boarding" THEN board_mutex ELSE Free
    [] t = "command"  -> IF command = "starting" THEN cdata_mutex ELSE Free
    [] t = "listener" ->
         IF listener \notin {"recv", "status"} /\ gdk # Free THEN gdk
         ELSE IF listener \in {"status", "show"} THEN cdata_mutex ELSE Free

\* The holder of the lock that t waits for next, or Free.
WaitsFor(t) ==
  IF ~Lives(t) \/ alarm[t] = "send" THEN Free
  ELSE IF alarm[t] = "lock" THEN IF agent = "reading" THEN "agent" ELSE board_mutex
  ELSE IF gdk = t THEN EditorWaits ELSE ThreadWaits(t)

\* The threads t waits for, directly or through others.
Further(S) == S \cup ({WaitsFor(u) : u \in S} \cap Threads)
Behind(t) == Further(Further(Further({WaitsFor(t)} \cap Threads)))

\* t waits for itself or for a thread that has ended.
Hung(t) == t \in Behind(t) \/ ~(Behind(t) \subseteq alive)

(***************************************************************************)
(* A thread hangs for two reasons only.  The signal handler waits for a    *)
(* mutex that the interrupted thread, or one that waits for it, holds; or  *)
(* a thread was cancelled with a mutex that was not destroyed              *)
(* (liveagent_thread.c:38-66, client.c:437-461).                           *)
(***************************************************************************)
OnlyKnownHangs ==
  client = "running" =>
    \A t \in alive : Hung(t) =>
      \/ \E u \in Behind(t) : alarm[u] = "lock"
      \/ Cancelled /\ ~(Behind(t) \subseteq alive)

(***************************************************************************)
(* Once the user has confirmed the end, or the server has closed the       *)
(* connection, the client ends, unless one of those hangs is met           *)
(* (client.c:432-461).                                                     *)
(***************************************************************************)
Over == client # "running" \/ \E t \in alive : Hung(t)
QuitCompletes == quit ~> Over
=============================================================================
