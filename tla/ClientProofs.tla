---------------------------- MODULE ClientProofs ----------------------------
(***************************************************************************)
(* Theorems about the client, for any messages from the server, any clicks *)
(* of the user, any limit of the resets of the timer, and whichever        *)
(* threads its signal interrupts.                                          *)
(***************************************************************************)
EXTENDS ClientProperties, TLAPS

-----------------------------------------------------------------------------
(***************************************************************************)
(* Types.                                                                  *)
(***************************************************************************)

\* What is done to a mutex leaves it one.
LEMMA MutexType ==
  ASSUME NEW holders, NEW m \in holders \cup {Free, Destroyed}, NEW t \in holders
  PROVE  /\ TakenBy(m, t) \in holders \cup {Free, Destroyed}
         /\ Released(m, t) \in holders \cup {Free, Destroyed}
         /\ AfterDestroy(m) \in holders \cup {Free, Destroyed}
BY DEF TakenBy, Released, AfterDestroy

\* The changed handler.
LEMMA EditType ==
  ASSUME TypeOK, NEW t \in {"main", "listener"}, Editor(t)
  PROVE  TypeOK'
<1>0. t \in Threads
  BY DEF Threads
<1>1. CASE ChangedHandler(t) /\ UNCHANGED <<commandVars, uiVars>>
  <2>1. CommandTypeOK' /\ UiTypeOK'
    BY <1>1 DEF TypeOK, CommandTypeOK, UiTypeOK, commandVars, uiVars, enabledVars
  <2>2. CASE ChangeBuffer(t)
    <3>1. changes' \in 0..2 /\ stage' \in Stages
      BY <2>2 DEF TypeOK, AgentTypeOK, ChangeBuffer, Stages
    <3>. QED
      BY <2>1, <2>2, <3>1 DEF TypeOK, AgentTypeOK, ChangeBuffer, processVars, alarmVars,
                              sendVars, laVars
  <2>3. CASE AssignBoard(t)
    <3>1. board_mutex' \in Threads \cup {Free, Destroyed} /\ stage' \in Stages
      BY <1>0, <2>3, MutexType DEF TypeOK, AgentTypeOK, AssignBoard, Stages
    <3>. QED
      BY <2>1, <2>3, <3>1 DEF TypeOK, AgentTypeOK, AssignBoard, processVars, alarmVars,
                              sendVars, laVars
  <2>4. CASE UnlockBoard(t)
    <3>1. board_mutex' \in Threads \cup {Free, Destroyed}
      BY <1>0, <2>4, MutexType DEF TypeOK, AgentTypeOK, UnlockBoard
    <3>2. timer' \in BOOLEAN /\ stage' \in Stages /\ counter' \in Nat
      <4>1. PICK limit \in ResetLimits :
              IF counter < limit
                THEN timer' = TRUE /\ counter' = counter + 1 /\ stage' = "none"
                ELSE stage' = "trigger" /\ UNCHANGED <<timer, counter>>
        BY <2>4 DEF UnlockBoard, ArmOrTrigger
      <4>2. CASE counter < limit
        BY <4>1, <4>2 DEF TypeOK, AgentTypeOK, Stages
      <4>3. CASE ~(counter < limit)
        BY <4>1, <4>3 DEF TypeOK, AgentTypeOK, Stages
      <4>. QED BY <4>2, <4>3
    <3>. QED
      BY <2>1, <2>4, <3>1, <3>2 DEF TypeOK, AgentTypeOK, UnlockBoard, processVars,
                                    sendVars, laVars
  <2>5. CASE TriggerLiveAgent(t)
    <3>1. agent' \in AgentStates /\ missed' \subseteq {"agent", "command"} /\ stage' \in Stages
      BY <2>5 DEF TypeOK, AgentTypeOK, TriggerLiveAgent, Stages, AgentStates
    <3>. QED
      BY <2>1, <2>5, <3>1 DEF TypeOK, AgentTypeOK, TriggerLiveAgent, processVars, alarmVars,
                              sendVars
  <2>. QED BY <1>1, <2>2, <2>3, <2>4, <2>5 DEF ChangedHandler
<1>2. CASE EditDone(t)
  <2>1. AgentTypeOK'
    BY <1>2 DEF TypeOK, AgentTypeOK, EditDone, processVars, alarmVars, sendVars, laVars
  <2>2. CommandTypeOK' /\ UiTypeOK'
    BY <1>2 DEF TypeOK, CommandTypeOK, UiTypeOK, EditDone, commandVars, enabledVars,
                ListenerStates
  <2>. QED BY <2>1, <2>2 DEF TypeOK
<1>. QED BY <1>1, <1>2 DEF Editor

\* A command is triggered.
LEMMA TriggerType ==
  ASSUME TypeOK, NEW type \in CommandTypes, TriggerOnly(type)
  PROVE  AgentTypeOK' /\ CommandTypeOK'
<1>1. missed' \subseteq {"agent", "command"} /\ command' \in CommandStates
  BY DEF TypeOK, AgentTypeOK, CommandTypeOK, TriggerOnly, TriggerCommand, Trigger,
         CommandStates
<1>2. AgentTypeOK'
  BY <1>1 DEF TypeOK, AgentTypeOK, TriggerOnly, processVars, alarmVars, editVars, sendVars,
              laVars
<1>3. CommandTypeOK'
  BY <1>1 DEF TypeOK, CommandTypeOK, TriggerOnly, TriggerCommand, Trigger
<1>. QED BY <1>2, <1>3

\* What the user does and the end of the main thread.
LEMMA MainType ==
  ASSUME TypeOK, User \/ (\E yes \in BOOLEAN : Answer(yes)) \/ LeaveLoop \/ ExitClient
  PROVE  TypeOK'
<1>1. CASE Type
  BY <1>1 DEF TypeOK, AgentTypeOK, CommandTypeOK, UiTypeOK, Type, processVars, alarmVars,
              sendVars, laVars, commandVars, uiVars, enabledVars
<1>2. CASE AskToQuit
  BY <1>2 DEF TypeOK, AgentTypeOK, CommandTypeOK, UiTypeOK, AskToQuit, agentVars,
              processVars, alarmVars, editVars, sendVars, laVars, commandVars, enabledVars,
              MainStates
<1>3. ASSUME NEW button \in Clicks, Click(button) PROVE TypeOK'
  <2>1. CommandOf(button) \in CommandTypes
    BY DEF CommandOf, CommandTypes
  <2>2. AgentTypeOK' /\ CommandTypeOK'
    BY <1>3, <2>1, TriggerType DEF Click
  <2>3. UiTypeOK'
    BY <1>3 DEF TypeOK, UiTypeOK, Click
  <2>. QED BY <2>2, <2>3 DEF TypeOK
<1>4. ASSUME NEW yes \in BOOLEAN, Answer(yes) PROVE TypeOK'
  <2>1. AgentTypeOK' /\ CommandTypeOK'
    <3>1. CASE TriggerOnly("shutdown")
      BY <3>1, TriggerType DEF CommandTypes
    <3>2. CASE UNCHANGED <<agentVars, commandVars>>
      BY <3>2 DEF TypeOK, AgentTypeOK, CommandTypeOK, agentVars, processVars, alarmVars,
                  editVars, sendVars, laVars, commandVars
    <3>. QED BY <1>4, <3>1, <3>2 DEF Answer
  <2>2. UiTypeOK'
    BY <1>4 DEF TypeOK, UiTypeOK, Answer, MainStates, enabledVars
  <2>. QED BY <2>1, <2>2 DEF TypeOK
<1>5. CASE LeaveLoop
  <2>1. /\ board_mutex' \in Threads \cup {Free, Destroyed}
        /\ cdata_mutex' \in {Free, Destroyed, "command"}
    BY <1>5 DEF TypeOK, AgentTypeOK, CommandTypeOK, LeaveLoop, AfterDestroy
  <2>2. AgentTypeOK'
    BY <1>5, <2>1 DEF TypeOK, AgentTypeOK, LeaveLoop, processVars, alarmVars, editVars, laVars
  <2>3. CommandTypeOK' /\ UiTypeOK'
    BY <1>5, <2>1 DEF TypeOK, CommandTypeOK, UiTypeOK, LeaveLoop, enabledVars, MainStates
  <2>. QED BY <2>2, <2>3 DEF TypeOK
<1>6. CASE ExitClient
  BY <1>6 DEF TypeOK, AgentTypeOK, CommandTypeOK, UiTypeOK, ExitClient, alarmVars, editVars,
              sendVars, laVars, commandVars, uiVars, enabledVars, ClientStates
<1>. QED BY <1>1, <1>2, <1>3, <1>4, <1>5, <1>6 DEF User

\* The listener outside the changed handler.
LEMMA ListenerType ==
  ASSUME TypeOK,
         \/ StoreStatus \/ ShowStatus \/ UpdateBoard \/ OpenPopup \/ ClosePopup
         \/ ReceiveFailure \/ \E kind \in Incoming : Receive(kind)
  PROVE  TypeOK'
<1>1. CASE StoreStatus
  BY <1>1 DEF TypeOK, AgentTypeOK, CommandTypeOK, UiTypeOK, StoreStatus, processVars,
              alarmVars, sendVars, laVars, commandVars, enabledVars, ListenerStates
<1>2. CASE ShowStatus
  BY <1>2 DEF TypeOK, AgentTypeOK, CommandTypeOK, UiTypeOK, ShowStatus, agentVars,
              processVars, alarmVars, editVars, sendVars, laVars, commandVars, ListenerStates
<1>3. CASE UpdateBoard
  BY <1>3 DEF TypeOK, AgentTypeOK, CommandTypeOK, UiTypeOK, UpdateBoard, processVars,
              alarmVars, sendVars, laVars, commandVars, uiVars, enabledVars
<1>4. CASE OpenPopup
  <2>1. listener' \in ListenerStates
    BY <1>4 DEF OpenPopup, Listening, PopupFor, ListenerStates, Popups
  <2>. QED
    BY <1>4, <2>1 DEF TypeOK, AgentTypeOK, CommandTypeOK, UiTypeOK, OpenPopup, agentVars,
              processVars, alarmVars, editVars, sendVars, laVars, commandVars, enabledVars
<1>5. CASE ClosePopup
  <2>1. alive' \subseteq Threads /\ listener' \in ListenerStates /\ quit' \in BOOLEAN
    BY <1>5 DEF TypeOK, AgentTypeOK, UiTypeOK, ClosePopup, ListenerStates
  <2>. QED
    BY <1>5, <2>1 DEF TypeOK, AgentTypeOK, CommandTypeOK, UiTypeOK, ClosePopup,
                      alarmVars, editVars, sendVars, laVars, commandVars
<1>6. CASE ReceiveFailure
  BY <1>6 DEF TypeOK, AgentTypeOK, CommandTypeOK, UiTypeOK, ReceiveFailure, alarmVars,
              editVars, sendVars, laVars, commandVars, uiVars, enabledVars
<1>7. ASSUME NEW kind \in Incoming, Receive(kind) PROVE TypeOK'
  <2>1. listener' \in ListenerStates
    BY <1>7, IncomingAssumption DEF Receive, ListenerStates
  <2>. QED
    BY <1>7, <2>1 DEF TypeOK, AgentTypeOK, CommandTypeOK, UiTypeOK, Receive, agentVars,
              processVars, alarmVars, editVars, sendVars, laVars, commandVars, enabledVars
<1>. QED BY <1>1, <1>2, <1>3, <1>4, <1>5, <1>6, <1>7

\* The agent, whether signalled or not.
LEMMA AgentType ==
  ASSUME TypeOK, AgentWork \/ LiveAgentWakes("waiting"), UNCHANGED <<commandVars, uiVars>>
  PROVE  TypeOK'
<1>1. CommandTypeOK' /\ UiTypeOK'
  BY DEF TypeOK, CommandTypeOK, UiTypeOK, commandVars, uiVars, enabledVars
<1>2. CASE InstallHandler
  BY <1>1, <1>2 DEF TypeOK, AgentTypeOK, InstallHandler, processVars, alarmVars, editVars,
                    sendVars, AgentStates
<1>3. ASSUME NEW from, LiveAgentWakes(from) PROVE TypeOK'
  BY <1>1, <1>3 DEF TypeOK, AgentTypeOK, LiveAgentWakes, processVars, alarmVars, editVars,
                    sendVars, AgentStates
<1>4. CASE AgentReads
  BY <1>1, <1>4 DEF TypeOK, AgentTypeOK, AgentReads, processVars, alarmVars, editVars,
                    sendVars, AgentStates
<1>5. CASE AgentLocks
  <2>1. /\ board_mutex' \in Threads \cup {Free, Destroyed}
        /\ client' \in ClientStates
    BY <1>5, MutexType DEF TypeOK, AgentTypeOK, AgentLocks, LockToSend, Threads, ClientStates
  <2>. QED
    BY <1>1, <1>5, <2>1 DEF TypeOK, AgentTypeOK, AgentLocks, LockToSend, alarmVars, editVars,
                            AgentStates
<1>6. CASE AgentSends
  <2>1. board_mutex' \in Threads \cup {Free, Destroyed}
    BY <1>6, MutexType DEF TypeOK, AgentTypeOK, AgentSends, SendAndUnlock, Threads
  <2>. QED
    BY <1>1, <1>6, <2>1 DEF TypeOK, AgentTypeOK, AgentSends, SendAndUnlock, processVars,
                            alarmVars, editVars, AgentStates
<1>. QED BY <1>2, <1>3, <1>4, <1>5, <1>6 DEF AgentWork

\* The command thread, whether signalled or not.
LEMMA CommandType ==
  ASSUME TypeOK, CommandWork \/ CommandWakes("waiting"), UNCHANGED uiVars
  PROVE  TypeOK'
<1>1. UiTypeOK'
  BY DEF TypeOK, UiTypeOK, uiVars, enabledVars
<1>2. CASE SendCommand
  <2>1. AgentTypeOK'
    BY <1>2 DEF TypeOK, AgentTypeOK, SendCommand, Sent, processVars, alarmVars, editVars,
                sendVars, laVars
  <2>2. CommandTypeOK'
    BY <1>2 DEF TypeOK, CommandTypeOK, SendCommand, Sent, CommandStates
  <2>. QED BY <1>1, <2>1, <2>2 DEF TypeOK
<1>3. CASE LoginLocks \/ SendLogin \/ \E from \in CommandStates : CommandWakes(from)
  <2>1. AgentTypeOK'
    BY <1>3 DEF TypeOK, AgentTypeOK, LoginLocks, SendLogin, CommandWakes, agentVars,
                processVars, alarmVars, editVars, sendVars, laVars
  <2>2. cdata_mutex' \in {Free, Destroyed, "command"}
    BY <1>3 DEF TypeOK, CommandTypeOK, LoginLocks, SendLogin, CommandWakes, TakenBy, Released
  <2>3. CommandTypeOK'
    BY <1>3, <2>2 DEF TypeOK, CommandTypeOK, LoginLocks, SendLogin, CommandWakes,
                      CommandFrame, CommandStates
  <2>. QED BY <1>1, <2>1, <2>3 DEF TypeOK
<1>. QED BY <1>2, <1>3 DEF CommandWork, CommandStates

\* Cancellation.
LEMMA CancelType ==
  ASSUME TypeOK,
         \/ CancelListener \/ CancelAgent \/ CancelCommand
         \/ \E t \in Threads : CancelAlarm(t)
  PROVE  TypeOK'
<1>1. PICK t \in Threads : Cancel(t)
  BY DEF CancelListener, CancelAgent, CancelCommand, CancelAlarm, Threads
<1>2. /\ trigger_la_mutex' \in {Free, "agent"}
      /\ trigger_cmd_mutex' \in {Free, "command"}
  BY DEF TypeOK, AgentTypeOK, CommandTypeOK, CancelListener, CancelAgent, CancelCommand,
         CancelAlarm
<1>3. AgentTypeOK'
  BY <1>1, <1>2 DEF TypeOK, AgentTypeOK, Cancel, alarmVars, editVars, sendVars
<1>4. CommandTypeOK' /\ UiTypeOK'
  BY <1>1, <1>2 DEF TypeOK, CommandTypeOK, UiTypeOK, Cancel, uiVars, enabledVars
<1>. QED BY <1>3, <1>4 DEF TypeOK

\* The timer and the signal handler.
LEMMA AlarmType ==
  ASSUME TypeOK, NEW t \in Threads, UNCHANGED <<commandVars, uiVars>>,
         AlarmIn(t) \/ AlarmLocks(t) \/ AlarmSends(t, t = "listener" /\ listener = "recv")
  PROVE  TypeOK'
<1>1. CommandTypeOK' /\ UiTypeOK'
  BY DEF TypeOK, CommandTypeOK, UiTypeOK, commandVars, uiVars, enabledVars
<1>2. CASE AlarmIn(t)
  <2>1. alarm' \in [Threads -> AlarmStates] /\ client' \in ClientStates
    BY <1>2 DEF TypeOK, AgentTypeOK, AlarmIn, AlarmStates, ClientStates
  <2>. QED
    BY <1>1, <1>2, <2>1 DEF TypeOK, AgentTypeOK, AlarmIn, editVars, sendVars, laVars
<1>3. CASE AlarmLocks(t)
  <2>1. alarm' \in [Threads -> AlarmStates] /\ client' \in ClientStates
    BY <1>3 DEF TypeOK, AgentTypeOK, AlarmLocks, LockToSend, AlarmStates, ClientStates
  <2>2. board_mutex' \in Threads \cup {Free, Destroyed}
    BY <1>3, MutexType DEF TypeOK, AgentTypeOK, AlarmLocks, LockToSend
  <2>. QED
    BY <1>1, <1>3, <2>1, <2>2 DEF TypeOK, AgentTypeOK, AlarmLocks, LockToSend, editVars, laVars
<1>4. ASSUME NEW recv, AlarmSends(t, recv) PROVE TypeOK'
  <2>1. alarm' \in [Threads -> AlarmStates] /\ alive' \subseteq Threads
    BY <1>4 DEF TypeOK, AgentTypeOK, AlarmSends, AlarmStates
  <2>2. board_mutex' \in Threads \cup {Free, Destroyed}
    BY <1>4, MutexType DEF TypeOK, AgentTypeOK, AlarmSends, SendAndUnlock
  <2>. QED
    BY <1>1, <1>4, <2>1, <2>2 DEF TypeOK, AgentTypeOK, AlarmSends, SendAndUnlock, editVars,
                                  laVars
<1>. QED BY <1>2, <1>3, <1>4

\* Every step keeps the types.
LEMMA TypeStep == TypeOK /\ [Next]_vars => TypeOK'
<1>. SUFFICES ASSUME TypeOK, [Next]_vars PROVE TypeOK'
  OBVIOUS
<1>1. CASE UNCHANGED vars
  BY <1>1 DEF TypeOK, AgentTypeOK, CommandTypeOK, UiTypeOK, vars, agentVars, processVars,
              alarmVars, editVars, sendVars, laVars, commandVars, uiVars, enabledVars
<1>2. CASE User \/ MainWork
  BY <1>2, EditType, MainType DEF MainWork
<1>3. CASE ListenerWork \/ ReceiveFailure \/ \E kind \in Incoming : Receive(kind)
  BY <1>3, EditType, ListenerType, CancelType DEF ListenerWork
<1>4. CASE LiveAgentWork \/ CommandThreadWork \/ SpuriousWakeup
  BY <1>4, AgentType, CommandType, CancelType
  DEF LiveAgentWork, CommandThreadWork, SpuriousWakeup
<1>5. CASE Expire \/ \E t \in Threads : HandlerWork(t)
  BY <1>5, AlarmType, CancelType DEF Expire, HandlerWork
<1>. QED BY <1>1, <1>2, <1>3, <1>4, <1>5 DEF Next

\* Every variable has its type.
THEOREM TypeCorrect == Spec => []TypeOK
<1>1. Init => TypeOK
  <2>1. ASSUME AgentInit PROVE AgentTypeOK
    <3>1. alarm \in [Threads -> AlarmStates]
      BY <2>1 DEF AgentInit, AlarmStates
    <3>2. /\ client \in ClientStates /\ alive \subseteq Threads
          /\ stage \in Stages /\ agent \in AgentStates
          /\ missed \subseteq {"agent", "command"}
      BY <2>1 DEF AgentInit, ClientStates, Stages, AgentStates
    <3>3. timer \in BOOLEAN /\ write \in BOOLEAN
      BY <2>1 DEF AgentInit
    <3>4. changes \in 0..2 /\ counter \in Nat
      BY <2>1 DEF AgentInit
    <3>5. /\ gdk \in {Free, "main", "listener"}
          /\ board_mutex \in Threads \cup {Free, Destroyed}
          /\ trigger_la_mutex \in {Free, "agent"}
          /\ blackboard \in {"null", "unsent", "sent"}
      BY <2>1 DEF AgentInit
    <3>. QED BY <3>1, <3>2, <3>3, <3>4, <3>5 DEF AgentTypeOK
  <2>2. CommandInit => CommandTypeOK
    BY DEF CommandInit, CommandTypeOK, CommandTypes, CommandStates
  <2>3. Init => UiTypeOK
    BY DEF Init, UiTypeOK, MainStates, ListenerStates
  <2>. QED BY <2>1, <2>2, <2>3 DEF Init, TypeOK
<1>. QED BY <1>1, TypeStep, PTL DEF Spec
-----------------------------------------------------------------------------
(***************************************************************************)
(* Who holds what.                                                         *)
(***************************************************************************)

\* The agent and the command thread keep the mutex of their condition variable
\* while they work, and only then.
AgentHolds ==
  /\ agent \in {"reading", "boarding", "sending"} => trigger_la_mutex = "agent"
  /\ agent \in {"starting", "waiting", "signalled"} /\ "agent" \in alive =>
       trigger_la_mutex = Free

CommandHolds ==
  /\ command = "running" => trigger_cmd_mutex = "command"
  /\ cdata_mutex = "command" => command = "login"

\* Who has the board's mutex is assigning the board, sending it, or in the
\* signal handler.
BoardHeld ==
  \A t \in Threads : board_mutex = t =>
    \/ alarm[t] # "none"
    \/ gdk = t /\ stage = "locked"
    \/ t = "agent" /\ agent = "sending"

\* The listener has the GDK lock only while it shows a board.
ListenerShows == gdk = "listener" => listener = "board"

\* Only the listener ends before the threads are cancelled, and it holds
\* nothing then.
HoldersAlive ==
  /\ "main" \in alive
  /\ ~Cancelled => {"agent", "command"} \subseteq alive
  /\ ~Cancelled /\ "listener" \notin alive => board_mutex # "listener" /\ gdk # "listener"

HoldInv == AgentHolds /\ CommandHolds /\ BoardHeld /\ ListenerShows /\ HoldersAlive

\* The changed handler.
LEMMA EditHolds ==
  ASSUME TypeOK, HoldInv, NEW t \in {"main", "listener"}, Editor(t)
  PROVE  HoldInv'
<1>0. t \in Threads /\ t # "agent" /\ t # "command" /\ t # Free /\ t # Destroyed
  BY DEF Threads, Free, Destroyed
<1>1. gdk = t /\ alarm[t] = "none"
  BY DEF Editor, ChangedHandler, ChangeBuffer, AssignBoard, UnlockBoard, TriggerLiveAgent,
         EditDone, Editing, Runs
<1>2. UNCHANGED <<alive, alarm, command, trigger_cmd_mutex, cdata_mutex, main>>
  BY DEF Editor, ChangedHandler, ChangeBuffer, AssignBoard, UnlockBoard, TriggerLiveAgent,
         EditDone, processVars, alarmVars, commandVars, uiVars
<1>3. AgentHolds'
  BY <1>2 DEF HoldInv, AgentHolds, TypeOK, AgentTypeOK, Editor, ChangedHandler, ChangeBuffer,
              AssignBoard, UnlockBoard, TriggerLiveAgent, EditDone, laVars, Free
<1>4. CommandHolds'
  BY <1>2 DEF HoldInv, CommandHolds
<1>5. BoardHeld'
  <2>1. CASE AssignBoard(t)
    BY <1>0, <1>1, <1>2, <2>1 DEF AssignBoard, TakenBy, BoardHeld, Threads, Free, Destroyed
  <2>2. CASE UnlockBoard(t)
    <3>1. board_mutex' # t /\ (board_mutex' = board_mutex \/ board_mutex' = Free)
      BY <1>0, <2>2 DEF UnlockBoard, Released
    <3>. QED
      BY <1>0, <1>1, <1>2, <2>2, <3>1
      DEF UnlockBoard, HoldInv, BoardHeld, Threads, Free, laVars
  <2>3. CASE ChangeBuffer(t) \/ TriggerLiveAgent(t) \/ EditDone(t)
    BY <1>1, <1>2, <2>3
    DEF ChangeBuffer, TriggerLiveAgent, EditDone, Editing, HoldInv, BoardHeld, sendVars,
        laVars
  <2>. QED BY <2>1, <2>2, <2>3 DEF Editor, ChangedHandler
<1>6. ListenerShows'
  BY <1>1 DEF HoldInv, ListenerShows, Editor, ChangedHandler, ChangeBuffer, AssignBoard,
              UnlockBoard, TriggerLiveAgent, EditDone, uiVars, Free
<1>7. HoldersAlive'
  <2>1. gdk' = gdk \/ gdk' = Free
    BY DEF Editor, ChangedHandler, ChangeBuffer, AssignBoard, UnlockBoard, TriggerLiveAgent,
           EditDone
  <2>2. t = "listener" => "listener" \in alive
    BY DEF Editor, ChangedHandler, ChangeBuffer, AssignBoard, UnlockBoard, TriggerLiveAgent,
           EditDone, Editing, Runs, Lives
  <2>3. board_mutex' \in {board_mutex, t, Free, Destroyed}
    BY DEF Editor, ChangedHandler, ChangeBuffer, AssignBoard, UnlockBoard, TriggerLiveAgent,
           EditDone, sendVars, TakenBy, Released
  <2>. QED
    BY <1>2, <2>1, <2>2, <2>3 DEF HoldInv, HoldersAlive, Cancelled, Free, Destroyed
<1>. QED BY <1>3, <1>4, <1>5, <1>6, <1>7 DEF HoldInv

\* A step that changes none of what the invariant is about.
LEMMA HoldKept ==
  ASSUME HoldInv, UNCHANGED <<agent, trigger_la_mutex, alive, command, trigger_cmd_mutex,
                              cdata_mutex, board_mutex, alarm, gdk, stage, main>>,
         listener = "board" => gdk # "listener" \/ listener' = "board"
  PROVE  HoldInv'
BY DEF HoldInv, AgentHolds, CommandHolds, BoardHeld, ListenerShows, HoldersAlive, Cancelled

\* What the user does.
LEMMA MainHolds ==
  ASSUME TypeOK, HoldInv,
         User \/ (\E yes \in BOOLEAN : Answer(yes)) \/ LeaveLoop \/ ExitClient
  PROVE  HoldInv'
<1>1. CASE Type
  <2>1. gdk = Free /\ gdk' = "main"
    BY <1>1 DEF Type, UserActs, Dispatching
  <2>. QED
    BY <1>1, <2>1 DEF Type, HoldInv, AgentHolds, CommandHolds, BoardHeld, ListenerShows,
      HoldersAlive, Cancelled, Threads, Free, processVars, alarmVars, sendVars, laVars,
      commandVars, uiVars
<1>2. ASSUME NEW type, TriggerOnly(type), UNCHANGED listener, ~Cancelled', ~Cancelled
      PROVE  HoldInv'
  <2>1. command' = "running" => command = "running"
    BY <1>2 DEF TriggerOnly, TriggerCommand, Trigger
  <2>2. cdata_mutex = "command" => command' = command
    BY <1>2 DEF TriggerOnly, TriggerCommand, Trigger, HoldInv, CommandHolds
  <2>3. CommandHolds'
    BY <1>2, <2>1, <2>2 DEF TriggerOnly, TriggerCommand, Trigger, HoldInv, CommandHolds
  <2>. QED
    BY <1>2, <2>3 DEF TriggerOnly, HoldInv, AgentHolds, BoardHeld, ListenerShows,
      HoldersAlive, processVars, alarmVars, editVars, sendVars, laVars
<1>3. ASSUME NEW button \in Clicks, Click(button) PROVE HoldInv'
  BY <1>2, <1>3 DEF Click, UserActs, Cancelled
<1>4. ASSUME UNCHANGED <<agentVars, commandVars, listener>>, ~Cancelled', ~Cancelled
      PROVE  HoldInv'
  BY <1>4 DEF agentVars, processVars, alarmVars, editVars, sendVars, laVars, commandVars,
    HoldInv, AgentHolds, CommandHolds, BoardHeld, ListenerShows, HoldersAlive
<1>5. CASE AskToQuit
  BY <1>4, <1>5 DEF AskToQuit, UserActs, Cancelled
<1>6. ASSUME NEW yes \in BOOLEAN, Answer(yes) PROVE HoldInv'
  BY <1>2, <1>4, <1>6 DEF Answer, Cancelled
<1>7. CASE LeaveLoop
  <2>1. \A t \in Threads : board_mutex' = t => board_mutex = t
    BY <1>7 DEF LeaveLoop, AfterDestroy, Threads, Destroyed
  <2>2. cdata_mutex' = "command" => cdata_mutex = "command"
    BY <1>7 DEF LeaveLoop, AfterDestroy, Destroyed
  <2>. QED
    BY <1>7, <2>1, <2>2 DEF LeaveLoop, HoldInv, AgentHolds, CommandHolds, BoardHeld,
      ListenerShows, HoldersAlive, Cancelled, processVars, alarmVars, editVars, laVars
<1>8. CASE ExitClient
  BY <1>8, HoldKept DEF ExitClient, alarmVars, editVars, sendVars, laVars, commandVars, uiVars
<1>. QED BY <1>1, <1>3, <1>5, <1>6, <1>7, <1>8 DEF User

\* The listener outside the changed handler.
LEMMA ListenerHolds ==
  ASSUME TypeOK, HoldInv,
         \/ StoreStatus \/ ShowStatus \/ UpdateBoard \/ OpenPopup \/ ClosePopup
         \/ ReceiveFailure \/ \E kind \in Incoming : Receive(kind)
  PROVE  HoldInv'
<1>1. CASE StoreStatus \/ ShowStatus \/ OpenPopup \/ \E kind \in Incoming : Receive(kind)
  <2>1. listener # "board"
    BY <1>1 DEF StoreStatus, ShowStatus, OpenPopup, PopupFor, Receive, Listening
  <2>. QED
    BY <1>1, <2>1, HoldKept DEF StoreStatus, ShowStatus, OpenPopup, Receive, agentVars,
      processVars, alarmVars, editVars, sendVars, laVars, commandVars
<1>2. CASE UpdateBoard
  <2>1. listener = "board" /\ "listener" \in alive /\ gdk = Free
    BY <1>2 DEF UpdateBoard, Listening, Runs, Lives
  <2>. QED
    BY <1>2, <2>1 DEF UpdateBoard, HoldInv, AgentHolds, CommandHolds, BoardHeld,
      ListenerShows, HoldersAlive, Cancelled, Threads, Free, processVars, alarmVars,
      sendVars, laVars, commandVars, uiVars
<1>3. CASE ClosePopup \/ ReceiveFailure
  <2>1. gdk # "listener" /\ alarm["listener"] = "none"
    BY <1>3 DEF ClosePopup, ReceiveFailure, Listening, Popups, Runs, HoldInv, ListenerShows
  <2>2. board_mutex # "listener"
    BY <2>1 DEF HoldInv, BoardHeld, Threads
  <2>3. /\ alive' \in {alive, alive \ {"listener"}}
        /\ UNCHANGED <<agent, trigger_la_mutex, command, trigger_cmd_mutex, cdata_mutex,
                       board_mutex, alarm, gdk, stage, main>>
    BY <1>3 DEF ClosePopup, ReceiveFailure, uiVars, alarmVars, editVars, sendVars, laVars,
                commandVars
  <2>. QED
    BY <2>1, <2>2, <2>3 DEF HoldInv, AgentHolds, CommandHolds, BoardHeld, ListenerShows,
      HoldersAlive, Cancelled
<1>. QED BY <1>1, <1>2, <1>3

\* A step of the agent.
LEMMA AgentStepHolds ==
  ASSUME TypeOK, HoldInv, AgentWork \/ LiveAgentWakes("waiting"),
         UNCHANGED <<commandVars, uiVars>>
  PROVE  HoldInv'
<1>1. /\ "agent" \in alive
      /\ UNCHANGED <<alive, alarm, gdk, stage, command, trigger_cmd_mutex, cdata_mutex,
                     main, listener>>
  BY DEF AgentWork, InstallHandler, LiveAgentWakes, AgentReads, AgentLocks, LockToSend,
         AgentSends, Runs, Lives, processVars, alarmVars, editVars, commandVars, uiVars
<1>2. CommandHolds' /\ ListenerShows'
  BY <1>1 DEF HoldInv, CommandHolds, ListenerShows
<1>3. AgentHolds'
  BY <1>1 DEF HoldInv, AgentHolds, AgentWork, InstallHandler, LiveAgentWakes, AgentReads,
              AgentLocks, AgentSends
<1>4. BoardHeld'
  <2>1. CASE AgentLocks
    BY <1>1, <2>1 DEF AgentLocks, LockToSend, TakenBy, HoldInv, BoardHeld, Threads, Destroyed,
                      Available, Free
  <2>2. CASE AgentSends
    <3>1. board_mutex' # "agent" /\ (board_mutex' = board_mutex \/ board_mutex' = Free)
      BY <2>2 DEF AgentSends, SendAndUnlock, Released, Free
    <3>. QED BY <1>1, <3>1 DEF HoldInv, BoardHeld, Threads, Free
  <2>3. CASE InstallHandler \/ AgentReads \/ LiveAgentWakes("waiting")
             \/ LiveAgentWakes("signalled")
    <3>1. board_mutex' = board_mutex
      BY <2>3 DEF InstallHandler, AgentReads, LiveAgentWakes, sendVars
    <3>2. agent # "sending"
      BY <2>3 DEF InstallHandler, AgentReads, LiveAgentWakes
    <3>. QED BY <1>1, <3>1, <3>2 DEF HoldInv, BoardHeld
  <2>. QED BY <2>1, <2>2, <2>3 DEF AgentWork
<1>5. HoldersAlive'
  <2>1. board_mutex' = "listener" => board_mutex = "listener"
    BY DEF AgentWork, InstallHandler, LiveAgentWakes, AgentReads, AgentLocks, LockToSend,
           AgentSends, SendAndUnlock, TakenBy, Released, sendVars, Free, Destroyed
  <2>. QED BY <1>1, <2>1 DEF HoldInv, HoldersAlive, Cancelled
<1>. QED BY <1>2, <1>3, <1>4, <1>5 DEF HoldInv

\* A step of the command thread.
LEMMA CommandStepHolds ==
  ASSUME TypeOK, HoldInv, CommandWork \/ CommandWakes("waiting"), UNCHANGED uiVars
  PROVE  HoldInv'
<1>1. UNCHANGED <<agent, trigger_la_mutex, alive, alarm, gdk, stage, board_mutex, main,
                  listener>>
  BY DEF CommandWork, LoginLocks, SendLogin, CommandWakes, SendCommand, agentVars,
         processVars, alarmVars, editVars, sendVars, laVars, uiVars
<1>2. CommandHolds'
  BY DEF HoldInv, CommandHolds, CommandWork, LoginLocks, SendLogin, CommandWakes,
         SendCommand, TakenBy, Released, Free, Destroyed
<1>. QED
  BY <1>1, <1>2 DEF HoldInv, AgentHolds, BoardHeld, ListenerShows, HoldersAlive, Cancelled

\* Cancellation: a thread that ends keeps what it holds.
LEMMA CancelHolds ==
  ASSUME TypeOK, HoldInv,
         \/ CancelListener \/ CancelAgent \/ CancelCommand
         \/ \E t \in Threads : CancelAlarm(t)
  PROVE  HoldInv'
<1>1. PICK t \in Threads \ {"main"} : Cancel(t)
  BY DEF CancelListener, CancelAgent, CancelCommand, CancelAlarm, Threads
<1>2. Cancelled'
  BY <1>1 DEF Cancel, Cancelled, uiVars
<1>3. AgentHolds'
  BY <1>1 DEF HoldInv, AgentHolds, CancelListener, CancelAgent, CancelCommand, CancelAlarm,
              Cancel
<1>4. CommandHolds'
  BY <1>1 DEF HoldInv, CommandHolds, CancelListener, CancelAgent, CancelCommand, CancelAlarm,
              Cancel
<1>5. BoardHeld' /\ ListenerShows'
  BY <1>1 DEF HoldInv, BoardHeld, ListenerShows, Cancel, alarmVars, editVars, sendVars, uiVars
<1>6. HoldersAlive'
  BY <1>1, <1>2 DEF HoldInv, HoldersAlive, Cancel
<1>. QED BY <1>3, <1>4, <1>5, <1>6 DEF HoldInv

\* The timer and the signal handler.
LEMMA AlarmHolds ==
  ASSUME TypeOK, HoldInv, NEW t \in Threads, UNCHANGED <<commandVars, uiVars>>,
         AlarmIn(t) \/ AlarmLocks(t) \/ AlarmSends(t, t = "listener" /\ listener = "recv")
  PROVE  HoldInv'
<1>1. UNCHANGED <<agent, trigger_la_mutex, command, trigger_cmd_mutex, cdata_mutex, gdk,
                  stage, main, listener>>
  BY DEF AlarmIn, AlarmLocks, AlarmSends, editVars, laVars, commandVars, uiVars
<1>2. CASE AlarmIn(t)
  <2>1. board_mutex' = board_mutex /\ alive' = alive
    BY <1>2 DEF AlarmIn, sendVars
  <2>2. \A u \in Threads : alarm[u] # "none" => alarm'[u] # "none"
    BY <1>2 DEF AlarmIn, TypeOK, AgentTypeOK
  <2>. QED
    BY <1>1, <2>1, <2>2 DEF HoldInv, AgentHolds, CommandHolds, BoardHeld, ListenerShows,
      HoldersAlive, Cancelled
<1>3. CASE AlarmLocks(t)
  <2>1. alive' = alive /\ t \in alive
    BY <1>3 DEF AlarmLocks, LockToSend, Lives
  <2>2. board_mutex' \in {board_mutex, t, Destroyed}
    BY <1>3 DEF AlarmLocks, LockToSend, TakenBy
  <2>3. alarm'[t] # "none" /\ \A u \in Threads : alarm[u] # "none" => alarm'[u] # "none"
    BY <1>3 DEF AlarmLocks, TypeOK, AgentTypeOK
  <2>4. BoardHeld'
    BY <1>1, <2>2, <2>3 DEF HoldInv, BoardHeld, Threads, Destroyed
  <2>. QED
    BY <1>1, <2>1, <2>2, <2>4 DEF HoldInv, AgentHolds, CommandHolds, ListenerShows,
      HoldersAlive, Cancelled, Destroyed
<1>4. CASE AlarmSends(t, t = "listener" /\ listener = "recv")
  <2>1. board_mutex' # t /\ board_mutex' \in {board_mutex, Free}
    BY <1>4 DEF AlarmSends, SendAndUnlock, Released, Threads, Free
  <2>2. \A u \in Threads \ {t} : alarm'[u] = alarm[u]
    BY <1>4 DEF AlarmSends, TypeOK, AgentTypeOK
  <2>3. BoardHeld'
    BY <1>1, <2>1, <2>2 DEF HoldInv, BoardHeld, Threads, Free
  <2>4. \/ alive' = alive
        \/ t = "listener" /\ listener = "recv" /\ alive' = alive \ {t}
    BY <1>4 DEF AlarmSends
  <2>. QED
    BY <1>1, <2>1, <2>3, <2>4 DEF HoldInv, AgentHolds, CommandHolds, ListenerShows,
      HoldersAlive, Cancelled, Free
<1>. QED BY <1>2, <1>3, <1>4

\* Every step.
LEMMA HoldStep == TypeOK /\ HoldInv /\ [Next]_vars => HoldInv'
<1>. SUFFICES ASSUME TypeOK, HoldInv, [Next]_vars PROVE HoldInv'
  OBVIOUS
<1>1. CASE UNCHANGED vars
  BY <1>1, HoldKept DEF vars, agentVars, processVars, alarmVars, editVars, sendVars, laVars,
                        commandVars, uiVars
<1>2. CASE User \/ MainWork
  BY <1>2, EditHolds, MainHolds DEF MainWork
<1>3. CASE ListenerWork \/ ReceiveFailure \/ \E kind \in Incoming : Receive(kind)
  BY <1>3, EditHolds, ListenerHolds, CancelHolds DEF ListenerWork
<1>4. CASE LiveAgentWork \/ CommandThreadWork \/ SpuriousWakeup
  BY <1>4, AgentStepHolds, CommandStepHolds, CancelHolds
  DEF LiveAgentWork, CommandThreadWork, SpuriousWakeup
<1>5. CASE Expire \/ \E t \in Threads : HandlerWork(t)
  BY <1>5, AlarmHolds, CancelHolds DEF Expire, HandlerWork
<1>. QED BY <1>1, <1>2, <1>3, <1>4, <1>5 DEF Next

(***************************************************************************)
(* The inductive invariant of the client's mutexes: the agent and the      *)
(* command thread keep theirs while they work, the board's mutex is held   *)
(* only in the steps that need it, and who holds one is alive until the    *)
(* threads are cancelled (liveagent_thread.c:68-111,                       *)
(* command_thread.c:186-244, client.c:214-233, 437-461).                   *)
(***************************************************************************)
THEOREM MutexesHeld == Spec => [](TypeOK /\ HoldInv)
<1>1. Init => HoldInv
  BY DEF Init, AgentInit, CommandInit, HoldInv, AgentHolds, CommandHolds, BoardHeld,
         ListenerShows, HoldersAlive, Cancelled, Threads, Free
<1>2. TypeOK /\ HoldInv /\ [Next]_vars => HoldInv'
  BY HoldStep
<1>. QED BY <1>1, <1>2, TypeCorrect, PTL DEF Spec
-----------------------------------------------------------------------------
(***************************************************************************)
(* Who uses the board.                                                     *)
(***************************************************************************)

\* The thread in the changed handler replaces the board; u sends it.
Replaces(u) == gdk = u /\ stage = "locked"
SendsAsAgent(u) == u = "agent" /\ agent = "sending"

(***************************************************************************)
(* Until the client ends, who uses the board holds its mutex, and no       *)
(* thread is interrupted by the signal handler while it does and sends     *)
(* from there as well.  Only the holder of the GDK lock is in the changed  *)
(* handler.                                                                *)
(***************************************************************************)
UseInv ==
  /\ client = "running" /\ ~Cancelled =>
       /\ board_mutex # Destroyed
       /\ \A u \in Threads : UsesBoard(u) => board_mutex = u
       /\ \A u \in Threads : alarm[u] = "send" => ~Replaces(u) /\ ~SendsAsAgent(u)
  /\ stage # "none" => gdk # Free

\* A step that changes nothing of what is used, or that ends the client.
LEMMA UseKept ==
  ASSUME UseInv, UNCHANGED <<alarm, gdk, stage>>,
         client' = "running" /\ ~Cancelled' =>
           client = "running" /\ ~Cancelled /\ UNCHANGED <<board_mutex, agent>>
  PROVE  UseInv'
BY DEF UseInv, UsesBoard, Replaces, SendsAsAgent

\* A step of the agent elsewhere than at its send.
LEMMA UseBeside ==
  ASSUME UseInv, UNCHANGED <<board_mutex, alarm, gdk, stage, client, main>>,
         agent' # "sending"
  PROVE  UseInv'
BY DEF UseInv, UsesBoard, Replaces, SendsAsAgent, Cancelled

\* While the mutex is free nobody uses the board.
LEMMA NobodyUses ==
  ASSUME UseInv, client = "running", ~Cancelled, Available(board_mutex), NEW u \in Threads
  PROVE  ~UsesBoard(u) /\ board_mutex = Free
BY DEF UseInv, Available, Threads, Free

\* The holder of the mutex is the only one that uses the board.
LEMMA OneUses ==
  ASSUME UseInv, client = "running", ~Cancelled, NEW t \in Threads, UsesBoard(t),
         NEW u \in Threads, UsesBoard(u)
  PROVE  u = t /\ board_mutex = t
BY DEF UseInv

\* The changed handler.
LEMMA EditorUses ==
  ASSUME TypeOK, UseInv, NEW t \in {"main", "listener"}, Editor(t)
  PROVE  UseInv'
<1>0. t \in Threads /\ t # "agent" /\ t # Free /\ t # Destroyed
  BY DEF Threads, Free, Destroyed
<1>1. /\ client = "running" /\ gdk = t /\ alarm[t] = "none"
      /\ UNCHANGED <<client, alarm, main>>
  BY DEF Editor, ChangedHandler, ChangeBuffer, AssignBoard, UnlockBoard, TriggerLiveAgent,
         EditDone, Editing, Runs, Lives, processVars, alarmVars, uiVars
<1>2. CASE AssignBoard(t)
  <2>1. /\ Available(board_mutex) /\ board_mutex' = TakenBy(board_mutex, t)
        /\ stage' = "locked" /\ UNCHANGED <<gdk, agent>>
    BY <1>2 DEF AssignBoard, laVars
  <2>2. ASSUME ~Cancelled
        PROVE  board_mutex' = t
    BY <1>0, <1>1, <2>1, <2>2, NobodyUses DEF TakenBy, Free, Destroyed
  <2>3. ASSUME ~Cancelled, NEW u \in Threads
        PROVE  (UsesBoard(u)' => u = t) /\ alarm[u] # "send"
    <3>1. ~UsesBoard(u)
      BY <1>1, <2>1, <2>3, NobodyUses
    <3>. QED BY <1>1, <2>1, <3>1 DEF UsesBoard
  <2>. QED BY <1>0, <1>1, <2>1, <2>2, <2>3 DEF UseInv, Cancelled
<1>3. CASE UnlockBoard(t)
  <2>1. /\ board_mutex' = Released(board_mutex, t) /\ stage = "locked" /\ stage' # "locked"
        /\ UNCHANGED <<gdk, agent>>
    BY <1>3 DEF UnlockBoard, ArmOrTrigger, Editing, laVars
  <2>2. UsesBoard(t)
    BY <1>1, <2>1 DEF UsesBoard
  <2>3. ASSUME ~Cancelled
        PROVE  board_mutex' = Free
    BY <1>0, <1>1, <2>1, <2>2, <2>3, OneUses DEF Released
  <2>4. ASSUME ~Cancelled, NEW u \in Threads
        PROVE  ~UsesBoard(u)' /\ alarm[u] # "send"
    <3>1. UsesBoard(u) => u = t
      BY <1>0, <1>1, <2>2, <2>4, OneUses
    <3>2. CASE u = t
      BY <1>0, <1>1, <2>1, <3>2 DEF UsesBoard
    <3>3. CASE u # t
      BY <1>1, <2>1, <3>1, <3>3 DEF UsesBoard
    <3>. QED BY <3>2, <3>3
  <2>. QED BY <1>0, <1>1, <2>1, <2>3, <2>4 DEF UseInv, Cancelled, Free, Destroyed
<1>4. CASE ChangeBuffer(t) \/ TriggerLiveAgent(t) \/ EditDone(t)
  <2>1. /\ board_mutex' = board_mutex
        /\ stage \in {"none", "trigger"} /\ stage' \in {"none", "lock"}
        /\ stage' = "none" \/ gdk' = gdk
    BY <1>4 DEF ChangeBuffer, TriggerLiveAgent, EditDone, Editing, sendVars
  <2>2. agent' \in {agent, "signalled"}
    BY <1>4 DEF ChangeBuffer, TriggerLiveAgent, EditDone, laVars
  <2>. QED
    BY <1>0, <1>1, <2>1, <2>2 DEF UseInv, UsesBoard, Replaces, SendsAsAgent, Cancelled
<1>. QED BY <1>2, <1>3, <1>4 DEF Editor, ChangedHandler

\* A thread that locks the board's mutex to send.
LEMMA SenderLocks ==
  ASSUME TypeOK, UseInv, NEW t \in Threads, LockToSend(t), client = "running",
         UNCHANGED <<gdk, stage, main>>,
         \/ t = "agent" /\ agent' = "sending" /\ alarm' = alarm /\ alarm[t] = "none"
         \/ agent' = agent /\ alarm' = [alarm EXCEPT ![t] = "send"]
  PROVE  UseInv'
<1>. SUFFICES ASSUME client' = "running", ~Cancelled
              PROVE  /\ board_mutex' # Destroyed
                     /\ \A u \in Threads : UsesBoard(u)' => board_mutex' = u
                     /\ \A u \in Threads :
                          alarm'[u] = "send" => ~Replaces(u)' /\ ~SendsAsAgent(u)'
  BY DEF UseInv, Cancelled
<1>1. Available(board_mutex) /\ board_mutex' = TakenBy(board_mutex, t)
  BY DEF LockToSend
<1>2. board_mutex' = t
  BY <1>1, NobodyUses DEF TakenBy, Free, Destroyed
<1>3. \A u \in Threads : ~UsesBoard(u)
  BY <1>1, NobodyUses
<1>4. alarm \in [Threads -> AlarmStates] /\ Destroyed \notin Threads
  BY DEF TypeOK, AgentTypeOK, Threads, Destroyed
<1>. QED BY <1>2, <1>3, <1>4 DEF UsesBoard, Replaces, SendsAsAgent

\* A thread that has sent, and unlocks.
LEMMA SenderUnlocks ==
  ASSUME TypeOK, UseInv, NEW t \in Threads, SendAndUnlock(t), client = "running",
         UNCHANGED <<gdk, stage, main, client>>,
         \/ /\ t = "agent" /\ agent = "sending" /\ agent' = "waiting"
            /\ alarm' = alarm /\ alarm[t] = "none"
         \/ agent' = agent /\ alarm[t] = "send" /\ alarm' = [alarm EXCEPT ![t] = "none"]
  PROVE  UseInv'
<1>. SUFFICES ASSUME ~Cancelled
              PROVE  /\ board_mutex' # Destroyed
                     /\ \A u \in Threads : ~UsesBoard(u)' /\ alarm'[u] # "send"
  BY DEF UseInv, Cancelled, UsesBoard
<1>1. alarm \in [Threads -> AlarmStates] /\ gdk # "agent"
  BY DEF TypeOK, AgentTypeOK, Free
<1>2. UsesBoard(t)
  BY DEF UsesBoard
<1>3. board_mutex' = Free
  BY <1>2, OneUses DEF SendAndUnlock, Released
<1>4. ASSUME NEW u \in Threads
      PROVE  ~UsesBoard(u)' /\ alarm'[u] # "send"
  <2>1. CASE u # t
    <3>1. ~UsesBoard(u)
      BY <1>2, <2>1, OneUses
    <3>. QED BY <1>1, <2>1, <3>1 DEF UsesBoard
  <2>2. CASE u = t
    <3>1. alarm[t] = "send" => ~Replaces(t) /\ ~SendsAsAgent(t)
      BY DEF UseInv
    <3>. QED BY <1>1, <2>2, <3>1 DEF UsesBoard, Replaces, SendsAsAgent
  <2>. QED BY <2>1, <2>2
<1>. QED BY <1>3, <1>4 DEF Free, Destroyed

\* Every step.
LEMMA UseStep == TypeOK /\ UseInv /\ [Next]_vars => UseInv'
<1>. SUFFICES ASSUME TypeOK, UseInv, [Next]_vars PROVE UseInv'
  OBVIOUS
<1>1. CASE UNCHANGED vars
  BY <1>1, UseKept DEF vars, agentVars, processVars, alarmVars, editVars, sendVars, laVars,
                       uiVars, Cancelled
<1>2. CASE User \/ MainWork
  <2>1. ASSUME UNCHANGED <<board_mutex, alarm, gdk, stage, client, agent>>,
               main' # "joining", main # "joining"
        PROVE  UseInv'
    BY <2>1, UseKept DEF Cancelled
  <2>2. CASE Type
    <3>1. gdk = Free /\ gdk' = "main" /\ stage' = stage /\ stage = "none"
      BY <2>2 DEF Type, UserActs, Dispatching, UseInv
    <3>2. UNCHANGED <<client, alarm, board_mutex, agent, main>>
      BY <2>2 DEF Type, processVars, alarmVars, sendVars, laVars, uiVars
    <3>. QED BY <3>1, <3>2 DEF UseInv, UsesBoard, Replaces, SendsAsAgent, Cancelled, Free
  <2>3. ASSUME NEW button \in Clicks, Click(button) PROVE UseInv'
    BY <2>1, <2>3 DEF Click, UserActs, TriggerOnly, processVars, alarmVars, editVars, sendVars,
      laVars
  <2>4. CASE AskToQuit
    BY <2>1, <2>4 DEF AskToQuit, UserActs, agentVars, processVars, alarmVars, editVars,
      sendVars, laVars
  <2>5. ASSUME NEW yes \in BOOLEAN, Answer(yes) PROVE UseInv'
    BY <2>1, <2>5 DEF Answer, TriggerOnly, agentVars, processVars, alarmVars, editVars,
      sendVars, laVars
  <2>6. CASE LeaveLoop \/ ExitClient
    BY <2>6, UseKept DEF LeaveLoop, ExitClient, Cancelled, alarmVars, editVars
  <2>. QED
    BY <1>2, <2>2, <2>3, <2>4, <2>5, <2>6, EditorUses DEF User, MainWork
<1>3. CASE ListenerWork \/ ReceiveFailure \/ \E kind \in Incoming : Receive(kind)
  <2>1. CASE \/ ClosePopup \/ ReceiveFailure \/ StoreStatus \/ ShowStatus \/ OpenPopup
             \/ \E kind \in Incoming : Receive(kind)
    BY <2>1, UseKept DEF ClosePopup, ReceiveFailure, StoreStatus, ShowStatus, OpenPopup,
      Receive, Cancelled, agentVars, processVars, alarmVars, editVars, sendVars, laVars, uiVars
  <2>2. CASE UpdateBoard
    <3>1. gdk = Free /\ gdk' = "listener" /\ stage' = stage /\ stage = "none"
      BY <2>2 DEF UpdateBoard, UseInv
    <3>2. UNCHANGED <<client, alarm, board_mutex, agent, main>>
      BY <2>2 DEF UpdateBoard, processVars, alarmVars, sendVars, laVars, uiVars
    <3>. QED BY <3>1, <3>2 DEF UseInv, UsesBoard, Replaces, SendsAsAgent, Cancelled, Free
  <2>3. CASE CancelListener
    BY <2>3, UseKept DEF CancelListener, Cancel, Cancelled, alarmVars, editVars, uiVars
  <2>. QED BY <1>3, <2>1, <2>2, <2>3, EditorUses DEF ListenerWork
<1>4. CASE LiveAgentWork \/ CommandThreadWork \/ SpuriousWakeup
  <2>1. CASE CancelAgent \/ CancelCommand
    BY <2>1, UseKept DEF CancelAgent, CancelCommand, Cancel, Cancelled, alarmVars, editVars,
      uiVars
  <2>2. CASE (CommandWork \/ CommandWakes("waiting")) /\ UNCHANGED uiVars
    BY <2>2, UseKept DEF CommandWork, LoginLocks, SendLogin, CommandWakes, SendCommand, Sent,
      Cancelled, agentVars, processVars, alarmVars, editVars, sendVars, laVars, uiVars
  <2>3. CASE /\ InstallHandler \/ AgentReads
                \/ LiveAgentWakes("signalled") \/ LiveAgentWakes("waiting")
             /\ UNCHANGED uiVars
    BY <2>3, UseBeside DEF InstallHandler, AgentReads, LiveAgentWakes, processVars, alarmVars,
      editVars, sendVars, uiVars
  <2>4. CASE AgentLocks /\ UNCHANGED uiVars
    BY <2>4, SenderLocks DEF AgentLocks, Runs, Lives, alarmVars, editVars, uiVars, Threads
  <2>5. CASE AgentSends /\ UNCHANGED uiVars
    BY <2>5, SenderUnlocks DEF AgentSends, Runs, Lives, processVars, alarmVars, editVars,
      uiVars, Threads
  <2>. QED
    BY <1>4, <2>1, <2>2, <2>3, <2>4, <2>5 DEF LiveAgentWork, AgentWork, CommandThreadWork,
      SpuriousWakeup
<1>5. CASE Expire \/ \E t \in Threads : HandlerWork(t)
  <2>1. ASSUME NEW t \in Threads, AlarmIn(t), UNCHANGED uiVars PROVE UseInv'
    <3>1. alarm' = alarm \/ alarm' = [alarm EXCEPT ![t] = "lock"]
      BY <2>1 DEF AlarmIn
    <3>2. UNCHANGED <<gdk, stage, board_mutex, agent, main>> /\ client = "running"
      BY <2>1 DEF AlarmIn, Runs, Lives, editVars, sendVars, laVars, uiVars
    <3>3. \A u \in Threads : alarm'[u] = "send" => alarm[u] = "send"
      BY <3>1 DEF TypeOK, AgentTypeOK
    <3>. QED BY <3>2, <3>3 DEF UseInv, UsesBoard, Replaces, SendsAsAgent, Cancelled
  <2>2. ASSUME NEW t \in Threads, AlarmLocks(t), UNCHANGED uiVars PROVE UseInv'
    BY <2>2, SenderLocks DEF AlarmLocks, Lives, editVars, laVars, uiVars
  <2>3. ASSUME NEW t \in Threads, NEW recv, AlarmSends(t, recv), UNCHANGED uiVars
        PROVE  UseInv'
    BY <2>3, SenderUnlocks DEF AlarmSends, Lives, editVars, laVars, uiVars
  <2>4. ASSUME NEW t \in Threads, CancelAlarm(t) PROVE UseInv'
    BY <2>4, UseKept DEF CancelAlarm, Cancel, Cancelled, alarmVars, editVars, uiVars
  <2>. QED BY <1>5, <2>1, <2>2, <2>3, <2>4 DEF Expire, HandlerWork
<1>. QED BY <1>1, <1>2, <1>3, <1>4, <1>5 DEF Next

(***************************************************************************)
(* Until the client ends one thread at a time uses the board, though the   *)
(* signal handler may interrupt any thread at any place: it takes the      *)
(* mutex before it sends, and a thread that holds it is never the one that *)
(* sends in the handler (liveagent_thread.c:38-66, 88-111,                 *)
(* client.c:214-233).                                                      *)
(***************************************************************************)
THEOREM BoardNotShared == Spec => []BoardUsedAlone
<1>1. Init => UseInv
  BY DEF Init, AgentInit, UseInv, UsesBoard, Replaces, SendsAsAgent, Threads, Free, Destroyed
<1>2. TypeOK /\ UseInv /\ [Next]_vars => UseInv'
  BY UseStep
<1>3. UseInv => BoardUsedAlone
  BY DEF UseInv, BoardUsedAlone
<1>. QED BY <1>1, <1>2, <1>3, TypeCorrect, PTL DEF Spec
-----------------------------------------------------------------------------
(***************************************************************************)
(* What carries an edit, and a command.                                    *)
(***************************************************************************)

\* A step that is no step of the edit or of its way to the server: a thread that
\* ends is not in the signal handler.
LEMMA EditKept ==
  ASSUME EditCarried, UNCHANGED <<client, timer, alarm, stage, blackboard, agent>>,
         Cancelled => Cancelled', \A t \in alive \ alive' : alarm[t] = "none",
         "agent" \in missed => "agent" \in missed'
  PROVE  EditCarried'
BY DEF EditCarried

\* The changed handler.
LEMMA EditorCarries ==
  ASSUME EditCarried, NEW t \in {"main", "listener"}, Editor(t)
  PROVE  EditCarried'
<1>1. CASE ChangeBuffer(t) \/ EditDone(t)
  <2>1. stage \notin {"locked", "trigger"}
    BY <1>1 DEF ChangeBuffer, EditDone, Editing
  <2>. QED
    BY <1>1, <2>1 DEF ChangeBuffer, EditDone, Editor, ChangedHandler, EditCarried, Cancelled,
                      processVars, alarmVars, sendVars, laVars, uiVars
<1>2. CASE AssignBoard(t)
  BY <1>2 DEF AssignBoard, EditCarried
<1>3. CASE UnlockBoard(t)
  BY <1>3 DEF UnlockBoard, ArmOrTrigger, EditCarried
<1>4. CASE TriggerLiveAgent(t)
  BY <1>4 DEF TriggerLiveAgent, EditCarried
<1>. QED BY <1>1, <1>2, <1>3, <1>4 DEF Editor, ChangedHandler

\* The agent: what it has been signalled for it sends.
LEMMA AgentCarries ==
  ASSUME EditCarried, AgentWork \/ LiveAgentWakes("waiting"), UNCHANGED uiVars
  PROVE  EditCarried'
<1>1. CASE InstallHandler
  BY <1>1 DEF InstallHandler, EditCarried, Cancelled, processVars, alarmVars, editVars,
              sendVars, uiVars
<1>2. CASE \/ LiveAgentWakes("waiting") \/ LiveAgentWakes("signalled")
           \/ AgentReads \/ AgentLocks
  BY <1>2 DEF LiveAgentWakes, AgentReads, AgentLocks, EditCarried
<1>3. CASE AgentSends
  BY <1>3 DEF AgentSends, SendAndUnlock, EditCarried
<1>. QED BY <1>1, <1>2, <1>3 DEF AgentWork

\* The timer and the signal handler.
LEMMA AlarmCarries ==
  ASSUME TypeOK, EditCarried, NEW t \in Threads, UNCHANGED uiVars,
         AlarmIn(t) \/ AlarmLocks(t) \/ \E recv : AlarmSends(t, recv)
  PROVE  EditCarried'
<1>1. CASE AlarmIn(t)
  <2>1. client' = "running" => t \in alive' /\ alarm'[t] = "lock"
    BY <1>1 DEF AlarmIn, Runs, Lives, TypeOK, AgentTypeOK
  <2>. QED BY <2>1 DEF EditCarried
<1>2. CASE AlarmLocks(t)
  <2>1. t \in alive' /\ alarm'[t] = "send"
    BY <1>2 DEF AlarmLocks, LockToSend, Lives, TypeOK, AgentTypeOK
  <2>. QED BY <2>1 DEF EditCarried
<1>3. ASSUME NEW recv, AlarmSends(t, recv) PROVE EditCarried'
  BY <1>3 DEF AlarmSends, SendAndUnlock, EditCarried
<1>. QED BY <1>1, <1>2, <1>3

\* Every step.
LEMMA EditStep == TypeOK /\ EditCarried /\ [Next]_vars => EditCarried'
<1>. SUFFICES ASSUME TypeOK, EditCarried, [Next]_vars PROVE EditCarried'
  OBVIOUS
<1>1. CASE UNCHANGED vars
  BY <1>1 DEF vars, agentVars, processVars, alarmVars, editVars, sendVars, laVars, uiVars,
              EditCarried, Cancelled
<1>2. CASE User \/ MainWork
  <2>1. ASSUME NEW type, TriggerOnly(type), main' # "joining", main # "joining"
        PROVE  EditCarried'
    BY <2>1, EditKept DEF TriggerOnly, TriggerCommand, Trigger, Cancelled, processVars,
      alarmVars, editVars, sendVars, laVars
  <2>2. ASSUME UNCHANGED agentVars, main' # "joining", main # "joining"
        PROVE  EditCarried'
    BY <2>2, EditKept DEF agentVars, Cancelled, processVars, alarmVars, editVars, sendVars,
      laVars
  <2>3. CASE Type
    BY <2>3, EditKept DEF Type, Cancelled, processVars, alarmVars, sendVars, laVars, uiVars
  <2>4. ASSUME NEW button \in Clicks, Click(button) PROVE EditCarried'
    BY <2>1, <2>4 DEF Click, UserActs
  <2>5. CASE AskToQuit
    BY <2>2, <2>5 DEF AskToQuit, UserActs
  <2>6. ASSUME NEW yes \in BOOLEAN, Answer(yes) PROVE EditCarried'
    BY <2>1, <2>2, <2>6 DEF Answer
  <2>7. CASE LeaveLoop
    BY <2>7 DEF LeaveLoop, EditCarried, Cancelled
  <2>8. CASE ExitClient
    BY <2>8 DEF ExitClient, EditCarried
  <2>. QED
    BY <1>2, <2>3, <2>4, <2>5, <2>6, <2>7, <2>8, EditorCarries DEF User, MainWork
<1>3. CASE ListenerWork \/ ReceiveFailure \/ \E kind \in Incoming : Receive(kind)
  <2>1. CASE ClosePopup \/ ReceiveFailure
    BY <2>1, EditKept DEF ClosePopup, ReceiveFailure, Listening, Runs, Cancelled, alarmVars,
      editVars, sendVars, laVars, uiVars
  <2>2. CASE \/ StoreStatus \/ ShowStatus \/ UpdateBoard \/ OpenPopup
             \/ \E kind \in Incoming : Receive(kind)
    BY <2>2, EditKept DEF StoreStatus, ShowStatus, UpdateBoard, OpenPopup, Receive, Cancelled,
      agentVars, processVars, alarmVars, editVars, sendVars, laVars, uiVars
  <2>3. CASE CancelListener
    BY <2>3 DEF CancelListener, Cancel, EditCarried, Cancelled, uiVars
  <2>. QED BY <1>3, <2>1, <2>2, <2>3, EditorCarries DEF ListenerWork
<1>4. CASE LiveAgentWork \/ CommandThreadWork \/ SpuriousWakeup
  <2>1. CASE CancelAgent \/ CancelCommand
    BY <2>1 DEF CancelAgent, CancelCommand, Cancel, EditCarried, Cancelled, uiVars
  <2>2. CASE (CommandWork \/ CommandWakes("waiting")) /\ UNCHANGED uiVars
    BY <2>2, EditKept DEF CommandWork, LoginLocks, SendLogin, CommandWakes, SendCommand, Sent,
      Cancelled, agentVars, processVars, alarmVars, editVars, sendVars, laVars, uiVars
  <2>. QED
    BY <1>4, <2>1, <2>2, AgentCarries DEF LiveAgentWork, CommandThreadWork, SpuriousWakeup
<1>5. CASE Expire \/ \E t \in Threads : HandlerWork(t)
  <2>1. ASSUME NEW t \in Threads, CancelAlarm(t) PROVE EditCarried'
    BY <2>1 DEF CancelAlarm, Cancel, EditCarried, Cancelled, uiVars
  <2>. QED BY <1>5, <2>1, AlarmCarries DEF Expire, HandlerWork
<1>. QED BY <1>1, <1>2, <1>3, <1>4, <1>5 DEF Next

(***************************************************************************)
(* An edit that has not been sent is carried by the timer, by a signal     *)
(* handler, by the changed handler or by the agent, unless its trigger     *)
(* came before the agent waited (client.c:214-233,                         *)
(* liveagent_thread.c:38-111).                                             *)
(***************************************************************************)
THEOREM EditsCarried == Spec => []EditCarried
<1>1. Init => EditCarried
  BY DEF Init, AgentInit, EditCarried
<1>. QED BY <1>1, EditStep, TypeCorrect, PTL DEF Spec

\* What a step that is none of the commands leaves alone.
Unrelated ==
  /\ UNCHANGED <<wanted, command>>
  /\ client' = "running" => client = "running"
  /\ Cancelled => Cancelled'
  /\ "command" \in missed => "command" \in missed'

\* A command that was carried still is.
LEMMA CommandKept == CommandCarried /\ Unrelated => CommandCarried'
BY DEF CommandCarried, Unrelated

\* Every step.
LEMMA CommandStep == CommandCarried /\ [Next]_vars => CommandCarried'
<1>. SUFFICES ASSUME CommandCarried, [Next]_vars PROVE CommandCarried'
  OBVIOUS
<1>0. ASSUME NEW t, Editor(t) PROVE Unrelated
  BY <1>0 DEF Editor, ChangedHandler, ChangeBuffer, AssignBoard, UnlockBoard,
    TriggerLiveAgent, EditDone, Unrelated, Cancelled, processVars, commandVars, uiVars
<1>1. CASE UNCHANGED vars
  BY <1>1, CommandKept DEF vars, agentVars, processVars, commandVars, uiVars, Unrelated,
    Cancelled
<1>2. CASE User \/ MainWork
  <2>1. ASSUME NEW type, TriggerOnly(type) PROVE CommandCarried'
    BY <2>1 DEF TriggerOnly, TriggerCommand, Trigger, CommandCarried
  <2>2. CASE Type \/ AskToQuit \/ LeaveLoop \/ ExitClient
    BY <2>2, CommandKept DEF Type, AskToQuit, UserActs, LeaveLoop, ExitClient, Unrelated,
      Cancelled, agentVars, processVars, commandVars, uiVars
  <2>3. ASSUME NEW yes \in BOOLEAN, Answer(yes) PROVE CommandCarried'
    BY <2>1, <2>3, CommandKept DEF Answer, Unrelated, Cancelled, agentVars, processVars,
      commandVars
  <2>4. ASSUME NEW button \in Clicks, Click(button) PROVE CommandCarried'
    BY <2>1, <2>4 DEF Click
  <2>. QED
    BY <1>0, <1>2, <2>2, <2>3, <2>4, CommandKept DEF User, MainWork
<1>3. CASE ListenerWork \/ ReceiveFailure \/ \E kind \in Incoming : Receive(kind)
  BY <1>0, <1>3, CommandKept DEF ListenerWork, StoreStatus, ShowStatus, UpdateBoard, OpenPopup,
    ClosePopup, CancelListener, Cancel, ReceiveFailure, Receive, Unrelated, Cancelled,
    agentVars, processVars, commandVars, uiVars
<1>4. CASE LiveAgentWork \/ CommandThreadWork \/ SpuriousWakeup
  <2>1. CASE CancelAgent \/ CancelCommand
    BY <2>1, CommandKept DEF CancelAgent, CancelCommand, Cancel, Unrelated, Cancelled, uiVars
  <2>2. CASE (CommandWork \/ CommandWakes("waiting")) /\ UNCHANGED uiVars
    <3>1. CASE LoginLocks \/ SendLogin
      BY <2>2, <3>1 DEF LoginLocks, SendLogin, CommandFrame, CommandCarried, Cancelled,
        agentVars, processVars, uiVars
    <3>2. CASE CommandWakes("waiting") \/ CommandWakes("signalled")
      BY <3>2 DEF CommandWakes, CommandCarried
    <3>3. CASE SendCommand
      BY <3>3 DEF SendCommand, Sent, CommandCarried
    <3>. QED BY <2>2, <3>1, <3>2, <3>3 DEF CommandWork
  <2>3. CASE /\ AgentWork \/ LiveAgentWakes("waiting")
             /\ UNCHANGED <<commandVars, uiVars>>
    <3>1. /\ client' = "running" => client = "running"
          /\ "command" \in missed => "command" \in missed'
      BY <2>3 DEF AgentWork, InstallHandler, LiveAgentWakes, AgentReads, AgentLocks,
        LockToSend, AgentSends, SendAndUnlock, processVars
    <3>. QED BY <2>3, <3>1, CommandKept DEF Unrelated, Cancelled, commandVars, uiVars
  <2>. QED
    BY <1>4, <2>1, <2>2, <2>3 DEF LiveAgentWork, CommandThreadWork, SpuriousWakeup
<1>5. CASE Expire \/ \E t \in Threads : HandlerWork(t)
  <2>1. ASSUME NEW t, NEW recv, AlarmIn(t) \/ AlarmLocks(t) \/ AlarmSends(t, recv),
               UNCHANGED <<commandVars, uiVars>>
        PROVE  Unrelated
    <3>1. client' = "running" => client = "running"
      BY <2>1 DEF AlarmIn, AlarmLocks, LockToSend, AlarmSends, Runs, Lives
    <3>2. "command" \in missed => "command" \in missed'
      BY <2>1 DEF AlarmIn, AlarmLocks, AlarmSends, SendAndUnlock
    <3>. QED BY <2>1, <3>1, <3>2 DEF Unrelated, Cancelled, commandVars, uiVars
  <2>2. ASSUME NEW t, CancelAlarm(t) PROVE Unrelated
    BY <2>2 DEF CancelAlarm, Cancel, Unrelated, Cancelled, uiVars
  <2>. QED BY <1>5, <2>1, <2>2, CommandKept DEF Expire, HandlerWork
<1>. QED BY <1>1, <1>2, <1>3, <1>4, <1>5 DEF Next

(***************************************************************************)
(* The last command triggered and not yet sent is with the command thread, *)
(* unless the click came before the thread waited                          *)
(* (command_thread.c:186-244).                                             *)
(***************************************************************************)
THEOREM CommandsCarried == Spec => []CommandCarried
<1>1. Init => CommandCarried
  BY DEF Init, CommandInit, CommandCarried
<1>. QED BY <1>1, CommandStep, PTL DEF Spec

\* A trigger that finds its thread elsewhere than at its condition variable.
LEMMA AgentMissed ==
  ASSUME TypeOK, HoldInv, NEW t, TriggerLiveAgent(t), missed' # missed
  PROVE  missed' = missed \cup {"agent"} /\ agent = "starting"
<1>1. agent \notin {"waiting", "signalled"} /\ missed' = missed \cup {"agent"}
  BY DEF TriggerLiveAgent
<1>2. trigger_la_mutex # "agent"
  BY DEF TriggerLiveAgent, Free
<1>. QED
  BY <1>1, <1>2 DEF HoldInv, AgentHolds, TypeOK, AgentTypeOK, AgentStates

\* The same for the command thread.
LEMMA CommandMissed ==
  ASSUME TypeOK, HoldInv, NEW type, TriggerCommand(type), missed' # missed
  PROVE  missed' = missed \cup {"command"} /\ command \in {"starting", "login"}
<1>1. command \notin {"waiting", "signalled"} /\ missed' = missed \cup {"command"}
  BY DEF TriggerCommand, Trigger
<1>2. trigger_cmd_mutex # "command"
  BY DEF TriggerCommand, Free
<1>. QED
  BY <1>1, <1>2 DEF HoldInv, CommandHolds, TypeOK, CommandTypeOK, CommandStates

\* No other step misses a trigger.
LEMMA MissedSteps ==
  ASSUME [Next]_vars
  PROVE  \/ missed' \subseteq missed
         \/ \E t : TriggerLiveAgent(t)
         \/ \E type : TriggerCommand(type)
<1>0. ASSUME NEW t, Editor(t) PROVE missed' = missed \/ TriggerLiveAgent(t)
  BY <1>0 DEF Editor, ChangedHandler, ChangeBuffer, AssignBoard, UnlockBoard, EditDone
<1>1. CASE UNCHANGED vars
  BY <1>1 DEF vars, agentVars
<1>2. CASE User \/ MainWork
  BY <1>0, <1>2 DEF User, Type, AskToQuit, Click, MainWork, Answer, LeaveLoop, ExitClient,
                    TriggerOnly, agentVars
<1>3. CASE ListenerWork \/ ReceiveFailure \/ \E kind \in Incoming : Receive(kind)
  BY <1>0, <1>3 DEF ListenerWork, StoreStatus, ShowStatus, UpdateBoard, OpenPopup, ClosePopup,
                    CancelListener, Cancel, ReceiveFailure, Receive, agentVars
<1>4. CASE LiveAgentWork \/ CommandThreadWork \/ SpuriousWakeup
  BY <1>4 DEF LiveAgentWork, CommandThreadWork, SpuriousWakeup, AgentWork, InstallHandler,
              LiveAgentWakes, AgentReads, AgentLocks, AgentSends, SendAndUnlock, CancelAgent,
              CommandWork, LoginLocks, SendLogin, CommandWakes, SendCommand, Sent,
              CancelCommand, Cancel, agentVars
<1>5. CASE Expire \/ \E t \in Threads : HandlerWork(t)
  BY <1>5 DEF Expire, HandlerWork, AlarmIn, AlarmLocks, AlarmSends, SendAndUnlock, CancelAlarm,
              Cancel
<1>. QED BY <1>1, <1>2, <1>3, <1>4, <1>5 DEF Next

(***************************************************************************)
(* A trigger gets lost only before its thread has begun to wait, since the *)
(* thread keeps the mutex of its condition variable while it works         *)
(* (command_thread.c:186-244, liveagent_thread.c:68-111).                  *)
(***************************************************************************)
THEOREM TriggersMissedAtStart == Spec => MissedOnlyAtStart
<1>1. TypeOK /\ HoldInv /\ [Next]_vars =>
        [/\ "agent" \in missed' \ missed => agent = "starting"
         /\ "command" \in missed' \ missed => command \in {"starting", "login"}]_vars
  BY MissedSteps, AgentMissed, CommandMissed
<1>. QED BY <1>1, MutexesHeld, PTL DEF Spec, MissedOnlyAtStart
-----------------------------------------------------------------------------
(***************************************************************************)
(* Who waits for whom.  Along a chain of waits in which nobody is in the   *)
(* signal handler the rank falls.                                          *)
(***************************************************************************)
Rank(t) ==
  IF board_mutex = t THEN 0
  ELSE IF t \in {"agent", "command"} THEN 1
  ELSE IF gdk = t THEN 2 ELSE 3

\* The holder of the board's mutex waits for nobody.
LEMMA BoardHolderGoesOn ==
  ASSUME TypeOK, HoldInv, NEW t \in Threads, board_mutex = t, alarm[t] # "lock"
  PROVE  WaitsFor(t) \notin Threads
<1>0. Free \notin Threads
  BY DEF Free, Threads
<1>1. CASE ~Lives(t) \/ alarm[t] = "send"
  BY <1>0, <1>1 DEF WaitsFor
<1>2. CASE Lives(t) /\ alarm[t] = "none"
  <2>1. CASE gdk = t /\ stage = "locked"
    BY <1>0, <1>2, <2>1 DEF WaitsFor, EditorWaits
  <2>2. CASE t = "agent" /\ agent = "sending"
    <3>1. gdk # t
      BY <2>2 DEF TypeOK, AgentTypeOK, Free
    <3>. QED BY <1>0, <1>2, <2>2, <3>1 DEF WaitsFor, ThreadWaits
  <2>. QED BY <1>2, <2>1, <2>2 DEF HoldInv, BoardHeld
<1>. QED
  BY <1>1, <1>2 DEF TypeOK, AgentTypeOK, AlarmStates

\* Who waits has a higher rank than who is waited for.
LEMMA RankFalls ==
  ASSUME TypeOK, HoldInv, NEW t \in Threads, alarm[t] # "lock", WaitsFor(t) \in Threads
  PROVE  Rank(WaitsFor(t)) < Rank(t)
<1>0. Free \notin Threads /\ Destroyed \notin Threads
  BY DEF Free, Destroyed, Threads
<1>1. Lives(t) /\ board_mutex # t
  BY <1>0, BoardHolderGoesOn DEF WaitsFor
<1>2. WaitsFor(t) = IF gdk = t THEN EditorWaits ELSE ThreadWaits(t)
  BY <1>0 DEF WaitsFor
<1>3. gdk \in {Free, "main", "listener"} /\ trigger_la_mutex \in {Free, "agent"}
      /\ cdata_mutex \in {Free, Destroyed, "command"}
  BY DEF TypeOK, AgentTypeOK, CommandTypeOK
<1>4. CASE gdk = t
  <2>1. t \notin {"agent", "command"}
    BY <1>3, <1>4, <1>0
  <2>2. Rank(t) = 2
    BY <1>1, <1>4, <2>1 DEF Rank
  <2>3. WaitsFor(t) \in {board_mutex, "agent"}
    BY <1>0, <1>2, <1>3, <1>4 DEF EditorWaits
  <2>. QED BY <2>2, <2>3 DEF Rank
<1>5. CASE gdk # t
  <2>1. CASE t = "agent"
    <3>1. agent = "boarding" /\ WaitsFor(t) = board_mutex
      <4>1. agent = "signalled" => trigger_la_mutex = Free
        BY <1>1, <2>1 DEF HoldInv, AgentHolds, Lives
      <4>. QED BY <1>0, <1>2, <1>5, <2>1, <4>1 DEF ThreadWaits
    <3>. QED BY <1>1, <2>1, <3>1 DEF Rank
  <2>2. CASE t = "command"
    <3>1. command = "starting" /\ cdata_mutex = "command"
      BY <1>0, <1>2, <1>3, <1>5, <2>2 DEF ThreadWaits
    <3>. QED BY <3>1 DEF HoldInv, CommandHolds
  <2>3. CASE t \in {"main", "listener"}
    <3>1. Rank(t) = 3
      BY <1>1, <1>5, <2>3 DEF Rank
    <3>2. WaitsFor(t) \in {gdk, "command"}
      BY <1>0, <1>2, <1>3, <1>5, <2>3 DEF ThreadWaits
    <3>. QED BY <3>1, <3>2 DEF Rank
  <2>. QED BY <2>1, <2>2, <2>3 DEF Threads
<1>. QED BY <1>4, <1>5

\* Until the threads are cancelled, who is waited for is alive.
LEMMA HolderLives ==
  ASSUME TypeOK, HoldInv, ~Cancelled, NEW t \in Threads, WaitsFor(t) \in Threads
  PROVE  WaitsFor(t) \in alive
<1>1. WaitsFor(t) \in {board_mutex, gdk, trigger_la_mutex, cdata_mutex, "agent", Free}
  BY DEF WaitsFor, EditorWaits, ThreadWaits, Threads
<1>2. WaitsFor(t) = "listener" => "listener" \in {board_mutex, gdk}
  BY <1>1 DEF TypeOK, AgentTypeOK, CommandTypeOK, Free, Destroyed
<1>. QED BY <1>2 DEF HoldInv, HoldersAlive, Threads

\* What holds for the threads of S and whatever they wait for.
LEMMA FurtherRank ==
  ASSUME TypeOK, HoldInv, NEW n \in Nat, NEW S \in SUBSET Threads,
         \A u \in S : Rank(u) < n /\ alarm[u] # "lock"
  PROVE  \A u \in Further(S) : Rank(u) < n
<1>. SUFFICES ASSUME NEW u \in S, WaitsFor(u) \in Threads
              PROVE  Rank(WaitsFor(u)) < n
  BY DEF Further
<1>1. Rank(WaitsFor(u)) < Rank(u)
  BY RankFalls
<1>. QED BY <1>1 DEF Rank

\* Whoever living threads wait for is alive.
LEMMA FurtherLives ==
  ASSUME TypeOK, HoldInv, ~Cancelled, NEW S \in SUBSET Threads, S \subseteq alive
  PROVE  Further(S) \subseteq alive
BY HolderLives DEF Further

\* One more step along the waits keeps those found before.
LEMMA FurtherGrows ==
  ASSUME NEW S \in SUBSET Threads
  PROVE  S \subseteq Further(S) /\ Further(S) \in SUBSET Threads
BY DEF Further

(***************************************************************************)
(* A thread hangs only through the signal handler, or after a thread was   *)
(* cancelled with a mutex (liveagent_thread.c:38-66, client.c:437-461).    *)
(***************************************************************************)
THEOREM HangsKnown == Spec => []OnlyKnownHangs
<1>1. ASSUME TypeOK, HoldInv PROVE OnlyKnownHangs
  <2>. SUFFICES ASSUME NEW t \in alive, Hung(t),
                       \A u \in Behind(t) : alarm[u] # "lock"
                PROVE  Cancelled /\ ~(Behind(t) \subseteq alive)
    BY DEF OnlyKnownHangs
  <2>. DEFINE A == {WaitsFor(t)} \cap Threads
              B == Further(A)
              C == Further(B)
  <2>1. t \in Threads
    BY <1>1 DEF TypeOK, AgentTypeOK
  <2>2. /\ A \in SUBSET Threads /\ B \in SUBSET Threads /\ C \in SUBSET Threads
        /\ A \subseteq B /\ B \subseteq C /\ C \subseteq Further(C)
    BY FurtherGrows
  <2>3. Behind(t) = Further(C)
    BY DEF Behind
  <2>4. ASSUME t \in Behind(t) PROVE FALSE
    <3>1. Rank(t) \in Nat
      BY DEF Rank
    <3>2. \A u \in A : Rank(u) < Rank(t)
      BY <1>1, <2>1, <2>4, RankFalls
    <3>3. \A u \in A \cup B \cup C : alarm[u] # "lock"
      BY <2>2, <2>3
    <3>4. \A u \in B : Rank(u) < Rank(t)
      BY <1>1, <2>2, <3>1, <3>2, <3>3, FurtherRank
    <3>5. \A u \in C : Rank(u) < Rank(t)
      BY <1>1, <2>2, <3>1, <3>3, <3>4, FurtherRank
    <3>6. \A u \in Further(C) : Rank(u) < Rank(t)
      BY <1>1, <2>2, <3>1, <3>3, <3>5, FurtherRank
    <3>. QED BY <2>3, <2>4, <3>1, <3>6
  <2>5. ~(Behind(t) \subseteq alive)
    BY <2>4 DEF Hung
  <2>6. ASSUME ~Cancelled PROVE Behind(t) \subseteq alive
    <3>1. A \subseteq alive
      BY <1>1, <2>1, <2>6, HolderLives
    <3>2. B \subseteq alive
      BY <1>1, <2>2, <2>6, <3>1, FurtherLives
    <3>3. C \subseteq alive
      BY <1>1, <2>2, <2>6, <3>2, FurtherLives
    <3>. QED BY <1>1, <2>2, <2>3, <2>6, <3>3, FurtherLives
  <2>. QED BY <2>5, <2>6
<1>. QED BY <1>1, MutexesHeld, PTL

-----------------------------------------------------------------------------
(***************************************************************************)
(* Waits that return without a signal.  POSIX allows them, the threads     *)
(* test nothing after theirs, and both failures below need one.            *)
(***************************************************************************)

\* There is a board, or nothing is under way that would send one.
NoBoardNoSend ==
  /\ client # "crashed"
  /\ blackboard = "null" =>
       /\ ~timer /\ stage \notin {"locked", "trigger"}
       /\ agent \in {"starting", "waiting"}
       /\ \A t \in Threads : alarm[t] = "none"

\* A step that sends nothing and keeps what is to be sent.
LEMMA NoSendKept ==
  ASSUME NoBoardNoSend, UNCHANGED <<client, timer, stage, blackboard, agent, alarm>>
  PROVE  NoBoardNoSend'
BY DEF NoBoardNoSend

\* Every step but a spurious wakeup.
LEMMA NoSendStep ==
  ASSUME TypeOK, NoBoardNoSend, [Next]_vars, ~SpuriousWakeup
  PROVE  NoBoardNoSend'
<1>1. CASE UNCHANGED vars
  BY <1>1, NoSendKept DEF vars, agentVars, processVars, alarmVars, editVars, sendVars, laVars
<1>2. ASSUME NEW t \in {"main", "listener"}, Editor(t)
      PROVE  NoBoardNoSend'
  <2>1. CASE ChangeBuffer(t) \/ EditDone(t)
    BY <2>1 DEF ChangeBuffer, EditDone, NoBoardNoSend, processVars, alarmVars, sendVars, laVars
  <2>2. CASE AssignBoard(t)
    BY <2>2 DEF AssignBoard, NoBoardNoSend, processVars
  <2>3. CASE UnlockBoard(t) \/ TriggerLiveAgent(t)
    BY <2>3 DEF UnlockBoard, TriggerLiveAgent, Editing, NoBoardNoSend, processVars, sendVars
  <2>. QED BY <1>2, <2>1, <2>2, <2>3 DEF Editor, ChangedHandler
<1>3. CASE User \/ (\E yes \in BOOLEAN : Answer(yes)) \/ LeaveLoop
  BY <1>3, NoSendKept DEF User, Type, AskToQuit, Click, TriggerOnly, Answer, LeaveLoop,
    agentVars, processVars, alarmVars, editVars, sendVars, laVars
<1>4. CASE ExitClient
  BY <1>4 DEF ExitClient, NoBoardNoSend, alarmVars, editVars, sendVars, laVars
<1>5. CASE \/ StoreStatus \/ ShowStatus \/ UpdateBoard \/ OpenPopup \/ ClosePopup
           \/ CancelListener \/ CancelAgent \/ CancelCommand \/ ReceiveFailure
           \/ (\E kind \in Incoming : Receive(kind))
           \/ (\E t \in Threads : CancelAlarm(t))
  BY <1>5, NoSendKept DEF StoreStatus, ShowStatus, UpdateBoard, OpenPopup, ClosePopup,
    CancelListener, CancelAgent, CancelCommand, CancelAlarm, Cancel, ReceiveFailure, Receive,
    agentVars, processVars, alarmVars, editVars, sendVars, laVars
<1>6. CASE CommandWork
  BY <1>6, NoSendKept DEF CommandWork, LoginLocks, SendLogin, CommandWakes, SendCommand,
    agentVars, processVars, alarmVars, editVars, sendVars, laVars
<1>7. CASE AgentWork
  BY <1>7 DEF AgentWork, InstallHandler, LiveAgentWakes, AgentReads, AgentLocks, LockToSend,
    AgentSends, SendAndUnlock, NoBoardNoSend, processVars, alarmVars, editVars, sendVars
<1>8. ASSUME NEW t \in Threads,
             AlarmIn(t) \/ AlarmLocks(t) \/ \E recv : AlarmSends(t, recv)
      PROVE  NoBoardNoSend'
  BY <1>8 DEF AlarmIn, AlarmLocks, LockToSend, AlarmSends, SendAndUnlock, NoBoardNoSend,
    processVars, editVars, sendVars, laVars
<1>. QED
  BY <1>1, <1>2, <1>3, <1>4, <1>5, <1>6, <1>7, <1>8
  DEF Next, MainWork, ListenerWork, LiveAgentWork, CommandThreadWork, Expire, HandlerWork

(***************************************************************************)
(* Without spurious wakeups the client never takes the length of a NULL    *)
(* board: the timer, the signal handler and a trigger all follow an edit   *)
(* that has stored one (liveagent_thread.c:38-66, client.c:214-233).       *)
(***************************************************************************)
THEOREM CrashNeedsSpuriousWakeup ==
  Spec /\ [][~SpuriousWakeup]_vars => [](client # "crashed")
<1>1. Init => NoBoardNoSend
  BY DEF Init, AgentInit, NoBoardNoSend
<1>2. TypeOK /\ NoBoardNoSend /\ [Next]_vars /\ [~SpuriousWakeup]_vars => NoBoardNoSend'
  <2>1. NoBoardNoSend /\ UNCHANGED vars => NoBoardNoSend'
    BY NoSendKept DEF vars, agentVars, processVars, alarmVars, editVars, sendVars, laVars
  <2>. QED BY <2>1, NoSendStep
<1>3. NoBoardNoSend => client # "crashed"
  BY DEF NoBoardNoSend
<1>. QED BY <1>1, <1>2, <1>3, TypeCorrect, PTL DEF Spec

\* A thread that goes to send a command has one to send.
CommandWanted == command \in {"signalled", "running"} => wanted

\* The command thread sends a command.
CommandSent == command = "running" /\ command' = "waiting"

\* Every step but a spurious wakeup.
LEMMA WantedStep ==
  ASSUME CommandWanted, [Next]_vars, ~SpuriousWakeup
  PROVE  CommandWanted'
<1>1. CASE UNCHANGED <<command, wanted>>
  BY <1>1 DEF CommandWanted
<1>2. ASSUME NEW type, TriggerOnly(type)
      PROVE  CommandWanted'
  BY <1>2 DEF TriggerOnly, TriggerCommand, Trigger, CommandWanted
<1>3. CASE CommandWork
  BY <1>3 DEF CommandWork, LoginLocks, SendLogin, CommandWakes, SendCommand, CommandFrame,
    Sent, CommandWanted
<1>4. CASE User \/ MainWork
  BY <1>1, <1>2, <1>4 DEF User, Type, AskToQuit, Click, MainWork, Answer, LeaveLoop,
    ExitClient, Editor, EditDone, commandVars
<1>5. CASE ListenerWork \/ ReceiveFailure \/ \E kind \in Incoming : Receive(kind)
  BY <1>1, <1>5 DEF ListenerWork, Editor, EditDone, StoreStatus, ShowStatus, UpdateBoard,
    OpenPopup, ClosePopup, CancelListener, Cancel, ReceiveFailure, Receive, commandVars
<1>6. CASE LiveAgentWork \/ CommandThreadWork \/ Expire \/ \E t \in Threads : HandlerWork(t)
  BY <1>1, <1>3, <1>6 DEF LiveAgentWork, CancelAgent, CommandThreadWork, CancelCommand,
    Cancel, Expire, HandlerWork, CancelAlarm, commandVars
<1>7. CASE UNCHANGED vars
  BY <1>1, <1>7 DEF vars, commandVars
<1>. QED BY <1>4, <1>5, <1>6, <1>7 DEF Next

(***************************************************************************)
(* Without spurious wakeups the command thread sends only commands the     *)
(* user has triggered, and none of them twice (command_thread.c:186-244).  *)
(***************************************************************************)
THEOREM RepeatNeedsSpuriousWakeup ==
  Spec /\ [][~SpuriousWakeup]_vars => [][CommandSent => wanted /\ ~wanted']_vars
<1>1. Init => CommandWanted
  BY DEF Init, CommandInit, CommandWanted
<1>2. CommandWanted /\ [Next]_vars /\ [~SpuriousWakeup]_vars => CommandWanted'
  <2>1. CommandWanted /\ UNCHANGED vars => CommandWanted'
    BY DEF vars, commandVars, CommandWanted
  <2>. QED BY <2>1, WantedStep
<1>3. CommandWanted /\ [Next]_vars => [CommandSent => wanted /\ ~wanted']_vars
  <2>. SUFFICES ASSUME CommandWanted, [Next]_vars, CommandSent
                PROVE  wanted /\ ~wanted'
    OBVIOUS
  <2>1. wanted
    BY DEF CommandWanted, CommandSent
  <2>2. SendCommand
    BY DEF CommandSent, Next, User, Type, AskToQuit, Click, TriggerOnly, TriggerCommand,
      Trigger, MainWork, Answer, LeaveLoop, ExitClient, Editor, EditDone, ListenerWork,
      StoreStatus, ShowStatus, UpdateBoard, OpenPopup, ClosePopup, CancelListener, Cancel,
      ReceiveFailure, Receive, LiveAgentWork, CancelAgent, CommandThreadWork, CommandWork,
      LoginLocks, SendLogin, CommandWakes, CancelCommand, SpuriousWakeup, Expire, HandlerWork,
      CancelAlarm, commandVars, vars
  <2>. QED BY <2>1, <2>2 DEF SendCommand, Sent
<1>. QED BY <1>1, <1>2, <1>3, PTL DEF Spec

=============================================================================
