------------------------------- MODULE Client -------------------------------
(***************************************************************************)
(* The client process: the main thread with the GTK loop, its buttons and  *)
(* the end of the process (client.c), and the listener thread              *)
(* (listener_thread.c), composed with the command thread and the live      *)
(* agent.  What the server sends and what the user does is arbitrary       *)
(* within Incoming and Clicks.                                             *)
(*                                                                         *)
(* GTK is external: events are dispatched with the GDK lock held,          *)
(* gtk_dialog_run gives it back while the dialog is open, and a dialog is  *)
(* modal: nothing else in the window can be used.                          *)
(***************************************************************************)
EXTENDS ClientCommand

CONSTANTS
  Roles,     \* roles the server gives
  Incoming,  \* kinds of messages the server sends
  Clicks     \* what the user does

ASSUME RolesAssumption == Roles \subseteq {"STUDENT", "DOCENT"}
ASSUME IncomingAssumption ==
  Incoming \subseteq {"status", "board", "error", "query", "close", "failure"}
ASSUME ClicksAssumption ==
  Clicks \subseteq {"type", "request", "log", "remove", "quit", "quit_all"}

VARIABLES
  main,        \* program counter of the main thread
  listener,    \* program counter of the listener
  role,        \* cdata.role, as the server will report it
  editable,    \* the text and the clear button are enabled
  requestOn,   \* the request button is enabled
  docentOn,    \* the docent's buttons are enabled
  quit         \* gtk_main_quit was called

enabledVars == <<editable, requestOn, docentOn>>
uiVars == <<main, listener, role, enabledVars, quit>>
vars == <<agentVars, commandVars, uiVars>>

MainStates == {"loop", "asking", "asking_all", "joining"}
Popups == {"alerting", "questioning", "parting"}
ListenerStates ==
  {"recv", "status", "show", "board", "error", "query", "close"} \cup Popups

UiTypeOK ==
  /\ main \in MainStates
  /\ listener \in ListenerStates
  /\ role \in Roles
  /\ editable \in BOOLEAN /\ requestOn \in BOOLEAN /\ docentOn \in BOOLEAN
  /\ quit \in BOOLEAN

\* create_window enables everything; the first status disables.
Init ==
  /\ AgentInit
  /\ CommandInit
  /\ main = "loop"
  /\ listener = "recv"
  /\ role \in Roles
  /\ editable = TRUE /\ requestOn = TRUE /\ docentOn = TRUE
  /\ quit = FALSE
-----------------------------------------------------------------------------
(***************************************************************************)
(* The main thread.                                                        *)
(***************************************************************************)

\* The loop dispatches an event: the GDK lock is free and taken by main.
Dispatching == Runs("main") /\ gdk = Free
UserActs(click) ==
  /\ click \in Clicks
  /\ Dispatching
  /\ main = "loop" /\ listener \notin Popups /\ ~quit

\* An edit by the user: the handler runs with the GDK lock held.
Type ==
  /\ UserActs("type") /\ editable
  /\ gdk' = "main"
  /\ changes' = 1
  /\ UNCHANGED <<processVars, alarmVars, stage, write, counter, sendVars, laVars,
                 missed, commandVars, uiVars>>

\* "changed" has been emitted for each change: the lock is given back.
EditDone(t) ==
  /\ Editing(t, "none") /\ changes = 0
  /\ gdk' = Free
  /\ listener' = IF t = "listener" THEN "recv" ELSE listener
  /\ UNCHANGED <<processVars, alarmVars, changes, stage, write, counter, sendVars,
                 laVars, missed, commandVars, main, role, enabledVars, quit>>

\* The command buttons: when they are enabled and what they trigger.
Enabled(button) ==
  CASE button = "request" -> requestOn
    [] button = "log"     -> editable
    [] button = "remove"  -> docentOn
    [] OTHER              -> FALSE

\* Fault: what the button says instead of the command.
ButtonLabel(button) == IF button = "log" THEN "archive" ELSE "write access"

CommandOf(button) == IF button = "log" THEN "clear" ELSE "request"

\* Triggering touches nothing of the live agent but the history.
TriggerOnly(type) ==
  TriggerCommand(type) /\ UNCHANGED <<processVars, alarmVars, editVars, sendVars, laVars>>

Click(button) ==
  /\ UserActs(button) /\ Enabled(button)
  /\ TriggerOnly(CommandOf(button))
  /\ requestOn' = (requestOn /\ button # "request")
  /\ UNCHANGED <<main, listener, role, editable, docentOn, quit>>

\* The quit button or the window's close box, or the button that also ends
\* the server, ask first.
AskToQuit ==
  /\ \E button \in {"quit", "quit_all"} :
       /\ UserActs(button) /\ (button = "quit_all" => docentOn)
       /\ main' = IF button = "quit" THEN "asking" ELSE "asking_all"
  /\ UNCHANGED <<agentVars, commandVars, listener, role, enabledVars, quit>>

Answer(yes) ==
  /\ Dispatching
  /\ main \in {"asking", "asking_all"}
  /\ main' = "loop"
  /\ quit' = (quit \/ yes)
  /\ IF yes /\ main = "asking_all"
       THEN TriggerOnly("shutdown")
       ELSE UNCHANGED <<agentVars, commandVars>>
  /\ UNCHANGED <<listener, role, enabledVars>>

\* gtk_main returns; the two mutexes are destroyed and the threads cancelled.
LeaveLoop ==
  /\ Dispatching
  /\ main = "loop" /\ quit
  /\ main' = "joining"
  /\ board_mutex' = AfterDestroy(board_mutex)
  /\ cdata_mutex' = AfterDestroy(cdata_mutex)
  /\ UNCHANGED <<processVars, alarmVars, editVars, blackboard, laVars, missed,
                 command, command_type, trigger_cmd_mutex, wanted,
                 listener, role, enabledVars, quit>>

\* The three pthread_join return when the threads have ended.
ExitClient ==
  /\ Runs("main") /\ main = "joining"
  /\ alive = {"main"}
  /\ client' = "exited"
  /\ UNCHANGED <<alive, alarmVars, editVars, sendVars, laVars, missed, commandVars,
                 uiVars>>

(***************************************************************************)
(* Deferred cancellation: a cancelled thread ends where it blocks in       *)
(* recv(), send(), a dialog or pthread_cond_wait(), with the mutexes it    *)
(* holds; the last takes its mutex back first.  Waiting for a mutex is no  *)
(* such place.  It never returns from a recv() or a wait it has begun.     *)
(***************************************************************************)
Cancelled == main = "joining"

Cancel(t) ==
  /\ Cancelled
  /\ alive' = alive \ {t}
  /\ UNCHANGED <<client, alarmVars, editVars, sendVars, agent, missed,
                 command, command_type, cdata_mutex, wanted, uiVars>>

CancelListener ==
  /\ Runs("listener") /\ listener \in {"recv"} \cup Popups
  /\ Cancel("listener")
  /\ UNCHANGED <<trigger_la_mutex, trigger_cmd_mutex>>

\* Fault: cancellation is disabled while the agent waits.
CancelSendingAgent ==
  /\ Runs("agent") /\ agent = "sending"
  /\ Cancel("agent")
  /\ trigger_la_mutex' = "agent"
  /\ UNCHANGED trigger_cmd_mutex

CancelAgent ==
  /\ Runs("agent") /\ agent \in {"waiting", "signalled", "sending"}
  /\ Cancel("agent")
  /\ trigger_la_mutex' = "agent"
  /\ UNCHANGED trigger_cmd_mutex

CancelCommand ==
  /\ Runs("command") /\ command \in {"login", "waiting", "signalled", "running"}
  /\ Cancel("command")
  /\ trigger_cmd_mutex' = IF command = "login" THEN trigger_cmd_mutex ELSE "command"
  /\ UNCHANGED trigger_la_mutex

\* In the send() of the signal handler.
CancelAlarm(t) ==
  /\ t # "main" /\ Lives(t) /\ alarm[t] = "send"
  /\ Cancel(t)
  /\ UNCHANGED <<trigger_la_mutex, trigger_cmd_mutex>>
-----------------------------------------------------------------------------
(***************************************************************************)
(* The listener.                                                           *)
(***************************************************************************)
Listening(states) == Runs("listener") /\ listener \in states

Receive(kind) ==
  /\ Listening({"recv"}) /\ ~Cancelled
  /\ kind \in Incoming \ {"failure"}
  /\ listener' = kind
  /\ UNCHANGED <<agentVars, commandVars, main, role, enabledVars, quit>>

\* recv() returns -1.
ReceiveFailure ==
  /\ Listening({"recv"}) /\ ~Cancelled
  /\ "failure" \in Incoming
  /\ alive' = alive \ {"listener"}
  /\ UNCHANGED <<client, alarmVars, editVars, sendVars, laVars, missed, commandVars,
                 uiVars>>

StoreStatus ==
  /\ Listening({"status"}) /\ Available(cdata_mutex)
  /\ write' \in BOOLEAN
  /\ listener' = "show"
  /\ UNCHANGED <<processVars, alarmVars, gdk, changes, stage, counter, sendVars,
                 laVars, missed, commandVars, main, role, enabledVars, quit>>

\* updateGUIstate.
ShowStatus ==
  /\ Listening({"show"}) /\ gdk = Free /\ Available(cdata_mutex)
  /\ editable' = write
  /\ requestOn' = (role # "DOCENT")
  /\ docentOn' = (role = "DOCENT")
  /\ listener' = "recv"
  /\ UNCHANGED <<agentVars, commandVars, main, role, quit>>

\* updateBoard: gtk_text_buffer_set_text deletes the old text, then inserts the
\* new one; each emits "changed" if there is anything to delete or to insert.
UpdateBoard ==
  /\ Listening({"board"}) /\ gdk = Free
  /\ gdk' = "listener"
  /\ changes' \in 0..2
  /\ UNCHANGED <<processVars, alarmVars, stage, write, counter, sendVars, laVars,
                 missed, commandVars, uiVars>>

\* popupMessage or popupQuestionDialog: the dialog is open.
PopupFor == [error |-> "alerting", query |-> "questioning", close |-> "parting"]
OpenPopup ==
  /\ Listening(DOMAIN PopupFor) /\ gdk = Free
  /\ listener' = PopupFor[listener]
  /\ UNCHANGED <<agentVars, commandVars, main, role, enabledVars, quit>>

\* The user has answered: the request button is enabled again, the reply is
\* sent, or the client quits and the thread ends.
ClosePopup ==
  /\ Listening(Popups) /\ gdk = Free
  /\ requestOn' = (requestOn \/ listener = "alerting")
  /\ IF listener = "parting"
       THEN quit' = TRUE /\ alive' = alive \ {"listener"} /\ UNCHANGED listener
       ELSE listener' = "recv" /\ UNCHANGED <<quit, alive>>
  /\ UNCHANGED <<client, alarmVars, editVars, sendVars, laVars, missed, commandVars,
                 main, role, editable, docentOn>>
-----------------------------------------------------------------------------
User == Type \/ AskToQuit \/ \E button \in Clicks : Click(button)

Editor(t) ==
  \/ ChangedHandler(t) /\ UNCHANGED <<commandVars, uiVars>>
  \/ EditDone(t)

MainWork ==
  Editor("main") \/ (\E yes \in BOOLEAN : Answer(yes)) \/ LeaveLoop \/ ExitClient

ListenerWork ==
  \/ Editor("listener")
  \/ StoreStatus \/ ShowStatus \/ UpdateBoard \/ OpenPopup \/ ClosePopup
  \/ CancelListener

LiveAgentWork ==
  \/ /\ AgentWork
     /\ Cancelled => agent \notin {"waiting", "signalled"}
     /\ UNCHANGED <<commandVars, uiVars>>
  \/ CancelAgent

CommandThreadWork ==
  \/ /\ CommandWork
     /\ Cancelled => command \notin {"waiting", "signalled"}
     /\ UNCHANGED uiVars
  \/ CancelCommand

\* The handler returns into the interrupted thread, or is cancelled.
HandlerWork(t) ==
  \/ /\ AlarmLocks(t) \/ AlarmSends(t, t = "listener" /\ listener = "recv")
     /\ UNCHANGED <<commandVars, uiVars>>
  \/ CancelAlarm(t)

Expire == (\E t \in Threads : AlarmIn(t)) /\ UNCHANGED <<commandVars, uiVars>>

SpuriousWakeup ==
  /\ ~Cancelled
  /\ \/ LiveAgentWakes("waiting") /\ UNCHANGED <<commandVars, uiVars>>
     \/ CommandWakes("waiting") /\ UNCHANGED uiVars

Next ==
  \/ User \/ MainWork
  \/ ListenerWork \/ (\E kind \in Incoming : Receive(kind)) \/ ReceiveFailure
  \/ LiveAgentWork \/ CommandThreadWork \/ SpuriousWakeup
  \/ Expire \/ \E t \in Threads : HandlerWork(t)

Spec == Init /\ [][Next]_vars

(***************************************************************************)
(* Every thread that can go on does, the timer expires and the user        *)
(* answers an open dialog.  A lock is not promised to those who wait for   *)
(* it: instead, boards from the server, and waits that return without a    *)
(* signal, come to an end.  Nothing makes the user type or click, or the   *)
(* server send.                                                            *)
(***************************************************************************)
Fairness ==
  /\ WF_vars(MainWork) /\ WF_vars(ListenerWork)
  /\ WF_vars(LiveAgentWork) /\ WF_vars(CommandThreadWork)
  /\ WF_vars(Expire)
  /\ \A t \in AlarmThreads : WF_vars(HandlerWork(t))

Lull == <>[][~(SpuriousWakeup \/ UpdateBoard)]_vars

FairSpec == Spec /\ Fairness /\ Lull

=============================================================================
