--------------------------- MODULE Broadcasting ---------------------------
(***************************************************************************)
(* broadcasting.c: the trigger shared by all client threads (one type      *)
(* variable and one condition variable without a predicate) and the        *)
(* broadcasting agent, which keeps trigger_mutex from its wakeup to its    *)
(* next wait.                                                              *)
(***************************************************************************)
EXTENDS ClientList, Blackboard

CONSTANTS
  AgentStart,   \* where the agent is when the first client connects
  Recorded      \* which of the histories "status" and "shown" are kept

ASSUME AgentStartAssumption == AgentStart \in {"starting", "waiting"}
ASSUME RecordedAssumption == Recorded \subseteq {"status", "shown"}

VARIABLES
  agent,            \* program counter of the broadcasting agent
  broadcast_type,
  outgoing,         \* the board message the agent has built
  status,           \* status[c]: last status message sent on c
  shown             \* shown[c]: last board content that crossed connection c

castVars == <<agent, broadcast_type, outgoing, status, shown>>

(***************************************************************************)
(* "starting": before the first wait.  "waiting": in pthread_cond_wait.    *)
(* "signalled": out of the wait set, competing for trigger_mutex.          *)
(* "woken": holds trigger_mutex, before the switch.  "copied": holds       *)
(* trigger_mutex and a copy of the board, before start_iteration.          *)
(***************************************************************************)
AgentStates == {"starting", "waiting", "signalled", "woken", "copied"}
BroadcastTypes == {"STATUS", "BLACKBOARD", "CLEAR"}

NoStatus == [write |-> FALSE, dcount |-> 0, tcount |-> 0, scount |-> 0 - 1]
Statuses == [write : BOOLEAN, dcount : {0, 1}, tcount : {0, 1}, scount : Int]

CastTypeOK ==
  /\ agent \in AgentStates
  /\ broadcast_type \in BroadcastTypes
  /\ outgoing \in BoardStates \cup {"nothing"}
  /\ status \in [Clients -> Statuses]
  /\ shown \in [Clients -> BoardStates \cup {"nothing"}]

CastInit ==
  /\ agent = AgentStart
  /\ broadcast_type = "STATUS"
  /\ outgoing = "nothing"
  /\ status = [c \in Clients |-> NoStatus]
  /\ shown = [c \in Clients |-> "nothing"]

TriggerMutexFree == agent \notin {"woken", "copied"}

\* trigger_broadcast: store the type, signal, all under trigger_mutex.
TriggerBroadcast(type) ==
  /\ TriggerMutexFree
  /\ broadcast_type' = type
  /\ agent' = IF agent = "waiting" THEN "signalled" ELSE agent

\* The status message broadcast_status builds for the entry of u.
StatusFor(u) ==
  LET dcount == IF DocentExists THEN 1 ELSE 0
      tcount == IF TutorExists THEN 1 ELSE 0
  IN [write |-> u = user_write, dcount |-> dcount, tcount |-> tcount,
      scount |-> client_counter - dcount - tcount]

\* The messages as they leave; both records are histories no thread reads.
RecordStatus ==
  IF "status" \notin Recorded THEN UNCHANGED status
  ELSE status' = [u \in Clients |-> IF u \in members THEN StatusFor(u)
                                                     ELSE status[u]]

RecordBoard(S, content) ==
  IF "shown" \notin Recorded THEN UNCHANGED shown
  ELSE shown' = [u \in Clients |-> IF u \in S THEN content ELSE shown[u]]

\* Whom broadcast_blackboard sends the board to.
Receivers == IF broadcast_type = "BLACKBOARD" THEN members \ {user_write}
                                              ELSE members

AgentStep(from, to) ==
  /\ Running
  /\ agent = from
  /\ agent' = to
  /\ UNCHANGED <<broadcast_type, listVars, boardVars>>

AgentFirstWait ==
  /\ AgentStep("starting", "waiting")
  /\ UNCHANGED <<outgoing, status, shown, connVars>>

AgentWakes ==
  /\ AgentStep("signalled", "woken")
  /\ UNCHANGED <<outgoing, status, shown, connVars>>

\* pthread_cond_wait may return without a signal; no predicate is re-checked.
SpuriousWakeup ==
  /\ AgentStep("waiting", "woken")
  /\ UNCHANGED <<outgoing, status, shown, connVars>>

BroadcastStatus ==
  /\ AgentStep("woken", "waiting")
  /\ broadcast_type = "STATUS"
  /\ cl_mutex = Nobody
  /\ SendTo(members)
  /\ RecordStatus
  /\ UNCHANGED <<outgoing, shown>>

\* Fault: the board is copied without its semaphore.
CopyBoardUnlocked ==
  /\ AgentStep("woken", "copied")
  /\ broadcast_type # "STATUS"
  /\ outgoing' = board
  /\ UNCHANGED <<status, shown, connVars>>

CopyBoardToSend ==
  /\ AgentStep("woken", "copied")
  /\ broadcast_type # "STATUS"
  /\ bsem = Nobody
  /\ outgoing' = board
  /\ UNCHANGED <<status, shown, connVars>>

BroadcastBlackboard ==
  /\ AgentStep("copied", "waiting")
  /\ cl_mutex = Nobody
  /\ SendTo(Receivers)
  /\ RecordBoard(Receivers, outgoing)
  /\ outgoing' = "nothing"
  /\ UNCHANGED status

AgentNext ==
  \/ AgentFirstWait \/ AgentWakes \/ SpuriousWakeup
  \/ BroadcastStatus \/ CopyBoardToSend \/ BroadcastBlackboard

=============================================================================
