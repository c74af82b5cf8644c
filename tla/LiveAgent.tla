----------------------------- MODULE LiveAgent -----------------------------
(***************************************************************************)
(* The client's path from an edit to the server: the "changed" handler of  *)
(* the text buffer (client.c), the live agent and its SIGALRM handler      *)
(* (liveagent_thread.c), and the mutexes of the client (utils.c).          *)
(*                                                                         *)
(* The "changed" handler runs in whatever thread holds the GDK lock: the   *)
(* main thread for a key, the listener for a board from the server.  The   *)
(* timer's signal is directed at the process: it interrupts any thread     *)
(* that does not block it, and outside its handler no thread does.         *)
(***************************************************************************)
EXTENDS Integers

CONSTANTS
  ResetLimits,   \* values dilat_max_reset may take (5 and more in the code)
  AlarmThreads   \* threads the kernel may deliver SIGALRM to

Threads == {"main", "listener", "command", "agent"}

ASSUME ResetLimitsAssumption == ResetLimits \subseteq Nat /\ ResetLimits # {}
ASSUME AlarmThreadsAssumption == AlarmThreads \subseteq Threads

VARIABLES
  client,            \* the client process
  alive,             \* threads that have not ended
  alarm,             \* where each thread is in the SIGALRM handler
  timer,             \* ITIMER_REAL is armed, or its signal is pending
  gdk,               \* holder of the GDK lock
  changes,           \* "changed" signals the holder of gdk still emits
  stage,             \* where that holder is in on_text_buffer_changed
  write,             \* cdata.write
  counter,           \* timer starts since the last direct trigger
  blackboard,        \* "null", or whether its content has been sent
  board_mutex,
  agent,             \* program counter of the live agent
  trigger_la_mutex,
  missed             \* history: triggers that found nobody waiting and that no
                     \* later one has made up for

processVars == <<client, alive>>
alarmVars == <<alarm, timer>>
editVars == <<gdk, changes, stage, write, counter>>
sendVars == <<blackboard, board_mutex>>
laVars == <<agent, trigger_la_mutex>>
agentVars == <<processVars, alarmVars, editVars, sendVars, laVars, missed>>

(***************************************************************************)
(* A mutex is the name of its holder.  After pthread_mutex_destroy() of a  *)
(* free mutex, lock and unlock return at once with EINVAL, which nobody    *)
(* tests; destroying a mutex that is held fails and changes nothing.       *)
(***************************************************************************)
Free == "free"
Destroyed == "destroyed"

Available(mutex) == mutex \in {Free, Destroyed}
TakenBy(mutex, t) == IF mutex = Destroyed THEN Destroyed ELSE t
Released(mutex, t) == IF mutex = t THEN Free ELSE mutex
AfterDestroy(mutex) == IF mutex = Free THEN Destroyed ELSE mutex

\* "killed": SIGALRM at its default action.  "crashed": strlen(NULL).
ClientStates == {"running", "killed", "crashed", "exited"}
Stages == {"none", "lock", "locked", "trigger"}
AgentStates == {"starting", "waiting", "signalled", "reading", "boarding", "sending"}
AlarmStates == {"none", "lock", "send"}

AgentTypeOK ==
  /\ client \in ClientStates
  /\ alive \subseteq Threads
  /\ alarm \in [Threads -> AlarmStates]
  /\ timer \in BOOLEAN
  /\ gdk \in {Free, "main", "listener"}
  /\ changes \in 0..2
  /\ stage \in Stages
  /\ write \in BOOLEAN
  /\ counter \in Nat
  /\ blackboard \in {"null", "unsent", "sent"}
  /\ board_mutex \in Threads \cup {Free, Destroyed}
  /\ agent \in AgentStates
  /\ trigger_la_mutex \in {Free, "agent"}
  /\ missed \subseteq {"agent", "command"}

AgentInit ==
  /\ client = "running"
  /\ alive = Threads
  /\ alarm = [t \in Threads |-> "none"]
  /\ timer = FALSE
  /\ gdk = Free
  /\ changes = 0
  /\ stage = "none"
  /\ write = FALSE
  /\ counter = 0
  /\ blackboard = "null"
  /\ board_mutex = Free
  /\ agent = "starting"
  /\ trigger_la_mutex = Free
  /\ missed = {}

Lives(t) == client = "running" /\ t \in alive
Runs(t) == Lives(t) /\ alarm[t] = "none"
-----------------------------------------------------------------------------
(***************************************************************************)
(* on_text_buffer_changed, by the thread t that holds the GDK lock.        *)
(***************************************************************************)
Editing(t, here) == Runs(t) /\ gdk = t /\ stage = here

\* The buffer has changed: without write access the handler does nothing.
ChangeBuffer(t) ==
  /\ Editing(t, "none")
  /\ changes > 0
  /\ changes' = changes - 1
  /\ stage' = IF write THEN "lock" ELSE "none"
  /\ UNCHANGED <<processVars, alarmVars, gdk, write, counter, sendVars, laVars, missed>>

AssignBoard(t) ==
  /\ Editing(t, "lock")
  /\ Available(board_mutex)
  /\ board_mutex' = TakenBy(board_mutex, t)
  /\ blackboard' = "unsent"
  /\ stage' = "locked"
  /\ UNCHANGED <<processVars, alarmVars, gdk, changes, write, counter, laVars, missed>>

\* The timer is started, or the agent is to be triggered: dilat_max_reset
\* follows the typing rate, any of ResetLimits.
ArmOrTrigger ==
  \E limit \in ResetLimits :
    IF counter < limit
      THEN timer' = TRUE /\ counter' = counter + 1 /\ stage' = "none"
      ELSE stage' = "trigger" /\ UNCHANGED <<timer, counter>>

\* Fault: the mutex is kept beyond the assignment.
KeepBoard(t) ==
  /\ Editing(t, "locked")
  /\ ArmOrTrigger
  /\ UNCHANGED <<processVars, alarm, gdk, changes, write, sendVars, laVars, missed>>

\* Fault: an edit below the limit is counted, but starts no timer.
CountOnly(t) ==
  /\ Editing(t, "locked")
  /\ board_mutex' = Released(board_mutex, t)
  /\ \E limit \in ResetLimits :
       IF counter < limit THEN counter' = counter + 1 /\ stage' = "none"
       ELSE stage' = "trigger" /\ UNCHANGED counter
  /\ UNCHANGED <<processVars, alarmVars, gdk, changes, write, blackboard, laVars, missed>>

UnlockBoard(t) ==
  /\ Editing(t, "locked")
  /\ board_mutex' = Released(board_mutex, t)
  /\ ArmOrTrigger
  /\ UNCHANGED <<processVars, alarm, gdk, changes, write, blackboard, laVars, missed>>

\* trigger_liveagent: pthread_cond_signal wakes the agent only if it waits.
TriggerLiveAgent(t) ==
  /\ Editing(t, "trigger")
  /\ trigger_la_mutex = Free
  /\ IF agent \in {"waiting", "signalled"}
       THEN agent' = "signalled" /\ UNCHANGED missed
       ELSE missed' = missed \cup {"agent"} /\ UNCHANGED agent
  /\ counter' = 0
  /\ stage' = "none"
  /\ UNCHANGED <<processVars, alarmVars, gdk, changes, write, sendVars, trigger_la_mutex>>

ChangedHandler(t) ==
  \/ ChangeBuffer(t) \/ AssignBoard(t) \/ UnlockBoard(t) \/ TriggerLiveAgent(t)
-----------------------------------------------------------------------------
(***************************************************************************)
(* send_board_content, in the agent or in the signal handler: la_data is   *)
(* read under its mutex, which the agent holds in "reading"; the board is  *)
(* sent with board_mutex held.                                             *)
(***************************************************************************)

\* Fault: the mutex is given back before the board is sent.
LockToRead(t) ==
  /\ Available(board_mutex)
  /\ client' = IF blackboard = "null" THEN "crashed" ELSE client
  /\ UNCHANGED <<alive, blackboard, board_mutex>>

LockToSend(t) ==
  /\ Available(board_mutex)
  /\ IF blackboard = "null"
       THEN client' = "crashed" /\ UNCHANGED board_mutex
       ELSE board_mutex' = TakenBy(board_mutex, t) /\ UNCHANGED client
  /\ UNCHANGED <<alive, blackboard>>

SendAndUnlock(t) ==
  /\ blackboard' = "sent"
  /\ missed' = missed \ {"agent"}
  /\ board_mutex' = Released(board_mutex, t)

\* la_data is set, the handler installed and the first pthread_cond_wait
\* reached, which unlocks trigger_la_mutex.
InstallHandler ==
  /\ Runs("agent") /\ agent = "starting"
  /\ agent' = "waiting"
  /\ UNCHANGED <<processVars, alarmVars, editVars, sendVars, trigger_la_mutex, missed>>

\* Fault: the mutex is not kept while the board is sent.
WakeUnlocked(from) ==
  /\ Runs("agent") /\ agent = from
  /\ agent' = "reading"
  /\ UNCHANGED <<processVars, alarmVars, editVars, sendVars, trigger_la_mutex, missed>>

\* pthread_cond_wait returns with the mutex: signalled, or, from "waiting",
\* without a signal, which POSIX allows also after a signal handler.
LiveAgentWakes(from) ==
  /\ Runs("agent") /\ agent = from
  /\ trigger_la_mutex' = "agent"
  /\ agent' = "reading"
  /\ UNCHANGED <<processVars, alarmVars, editVars, sendVars, missed>>

AgentReads ==
  /\ Runs("agent") /\ agent = "reading"
  /\ agent' = "boarding"
  /\ UNCHANGED <<processVars, alarmVars, editVars, sendVars, trigger_la_mutex, missed>>

AgentLocks ==
  /\ Runs("agent") /\ agent = "boarding"
  /\ LockToSend("agent")
  /\ agent' = "sending"
  /\ UNCHANGED <<alarmVars, editVars, trigger_la_mutex, missed>>

AgentSends ==
  /\ Runs("agent") /\ agent = "sending"
  /\ SendAndUnlock("agent")
  /\ trigger_la_mutex' = Free
  /\ agent' = "waiting"
  /\ UNCHANGED <<processVars, alarmVars, editVars>>

AgentWork ==
  \/ InstallHandler \/ LiveAgentWakes("signalled")
  \/ AgentReads \/ AgentLocks \/ AgentSends
-----------------------------------------------------------------------------
\* The timer expires in thread t; before sigaction the signal is fatal.
AlarmIn(t) ==
  /\ t \in AlarmThreads
  /\ timer /\ Runs(t)
  /\ timer' = FALSE
  /\ IF agent = "starting"
       THEN client' = "killed" /\ UNCHANGED alarm
       ELSE alarm' = [alarm EXCEPT ![t] = "lock"] /\ UNCHANGED client
  /\ UNCHANGED <<alive, editVars, sendVars, laVars, missed>>

\* The handler waits for la_data_mutex, then for board_mutex, also where the
\* interrupted thread itself holds it.
AlarmLocks(t) ==
  /\ Lives(t) /\ alarm[t] = "lock"
  /\ agent # "reading"
  /\ LockToSend(t)
  /\ alarm' = [alarm EXCEPT ![t] = "send"]
  /\ UNCHANGED <<timer, editVars, laVars, missed>>

\* recv says whether t was interrupted in recv(), which then fails with
\* EINTR (no SA_RESTART) and ends the thread.
AlarmSends(t, recv) ==
  /\ Lives(t) /\ alarm[t] = "send"
  /\ SendAndUnlock(t)
  /\ alarm' = [alarm EXCEPT ![t] = "none"]
  /\ alive' = IF recv THEN alive \ {t} ELSE alive
  /\ UNCHANGED <<client, timer, editVars, laVars>>

=============================================================================
