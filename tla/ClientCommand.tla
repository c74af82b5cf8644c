--------------------------- MODULE ClientCommand ---------------------------
(***************************************************************************)
(* command_thread.c: the one command a button leaves for the command       *)
(* thread, its condition variable and the messages the thread sends.       *)
(***************************************************************************)
EXTENDS LiveAgent

VARIABLES
  command,            \* program counter of the command thread
  command_type,       \* the command triggered last
  trigger_cmd_mutex,
  cdata_mutex,
  wanted              \* history: the last triggered command is not sent yet

commandVars == <<command, command_type, trigger_cmd_mutex, cdata_mutex, wanted>>

CommandTypes == {"login", "request", "clear", "shutdown"}
CommandStates == {"starting", "login", "waiting", "signalled", "running"}

CommandTypeOK ==
  /\ command \in CommandStates
  /\ command_type \in CommandTypes
  /\ trigger_cmd_mutex \in {Free, "command"}
  /\ cdata_mutex \in {Free, Destroyed, "command"}
  /\ wanted \in BOOLEAN

CommandInit ==
  /\ command = "starting"
  /\ command_type = "login"
  /\ trigger_cmd_mutex = Free
  /\ cdata_mutex = Free
  /\ wanted = FALSE

CommandFrame == UNCHANGED <<command_type, wanted>>

\* The login is sent with the client data locked.
LoginLocks ==
  /\ Runs("command") /\ command = "starting"
  /\ Available(cdata_mutex)
  /\ cdata_mutex' = TakenBy(cdata_mutex, "command")
  /\ command' = "login"
  /\ CommandFrame
  /\ UNCHANGED <<agentVars, trigger_cmd_mutex>>

\* Then the thread locks its mutex and waits, which unlocks it.
SendLogin ==
  /\ Runs("command") /\ command = "login"
  /\ cdata_mutex' = Released(cdata_mutex, "command")
  /\ command' = "waiting"
  /\ CommandFrame
  /\ UNCHANGED <<agentVars, trigger_cmd_mutex>>

\* Fault: the thread waits, and the mutex is free, while it sends.
WakeWithoutMutex(from) ==
  /\ Runs("command") /\ command = from
  /\ command' = "running"
  /\ CommandFrame
  /\ UNCHANGED <<agentVars, cdata_mutex, trigger_cmd_mutex>>

\* Signalled, or, from "waiting", a wakeup without a signal: nothing is tested.
CommandWakes(from) ==
  /\ Runs("command") /\ command = from
  /\ trigger_cmd_mutex' = "command"
  /\ command' = "running"
  /\ CommandFrame
  /\ UNCHANGED <<agentVars, cdata_mutex>>

\* send_board_clean, send_request, send_shutdown: what a message looks like
\* is not in the model, that it has been sent is.
Sent == wanted' = FALSE /\ missed' = missed \ {"command"}

\* The mutex is kept while the message of command_type is sent.
SendCommand ==
  /\ Runs("command") /\ command = "running"
  /\ command_type = "login" => Available(cdata_mutex)
  /\ Sent
  /\ trigger_cmd_mutex' = Free
  /\ command' = "waiting"
  /\ UNCHANGED <<processVars, alarmVars, editVars, sendVars, laVars, command_type,
                 cdata_mutex>>

CommandWork ==
  \/ LoginLocks \/ SendLogin \/ CommandWakes("signalled") \/ SendCommand

\* trigger_command, in the main thread: pthread_cond_signal wakes the thread
\* only if it waits.
Trigger(type) ==
  /\ command_type' = type
  /\ wanted' = TRUE
  /\ IF command \in {"waiting", "signalled"}
       THEN command' = "signalled" /\ UNCHANGED missed
       ELSE missed' = missed \cup {"command"} /\ UNCHANGED command
  /\ UNCHANGED <<trigger_cmd_mutex, cdata_mutex>>

\* Fault: a command is not signalled when it is the last one again.
TriggerNew(type) ==
  /\ trigger_cmd_mutex = Free
  /\ \/ type # command_type /\ Trigger(type)
     \/ /\ type = command_type
        /\ wanted' = TRUE
        /\ UNCHANGED <<missed, command, command_type, trigger_cmd_mutex, cdata_mutex>>

TriggerCommand(type) == trigger_cmd_mutex = Free /\ Trigger(type)

=============================================================================
