------------------------------ MODULE Server ------------------------------
(***************************************************************************)
(* The server process: one client thread per connection (client_thread.c)  *)
(* running the handlers of message_handler.c, together with the client     *)
(* list, the board, the archiver and the broadcasting agent.               *)
(*                                                                         *)
(* A handler is cut where another thread can come in between: at every     *)
(* acquisition of a lock that another step may hold, and between two reads *)
(* of shared data that no lock protects.                                   *)
(***************************************************************************)
EXTENDS Broadcasting

CONSTANTS
  Inputs,     \* the kinds of messages and failures of this instance
  Compliant   \* TRUE: the clients send only what their user interface offers

InputKinds == {"INDIFFERENT", "STUDENT", "DOCENT", "board", "clear", "request",
               "reply", "shutdown", "unknown", "close", "abort"}

ASSUME InputsAssumption == Inputs \subseteq InputKinds
ASSUME CompliantAssumption ==
  Compliant \in BOOLEAN /\ (Compliant => "status" \in Recorded)

VARIABLES
  pc,        \* pc[c]: where the thread of connection c is
  msg,       \* msg[c]: the message it works on
  unread,    \* unread[c]: the payload of a refused board is still in the stream
  queries    \* queries[c]: ids in the queries sent on c and not answered

threadVars == <<pc, msg, unread, queries>>
vars == <<connVars, listVars, boardVars, castVars, threadVars>>

(***************************************************************************)
(* "locked_trigger": trigger_status() while holding the list mutex.        *)
(* "trigger": trigger_broadcast() holding nothing, then the receive loop.  *)
(* "receive": recv() of the payload while holding bsem.                    *)
(***************************************************************************)
Labels == {"none", "login", "add", "initial_board", "send_board", "idle",
           "check_write", "clear_trigger", "clear_wait", "board_lock",
           "receive", "locked_trigger", "trigger", "remove", "logout_trigger"}

NoMessage == [type |-> "none", content |-> "empty"]
Messages == [type : {"none", "board", "clear"}, content : BoardStates]

ThreadTypeOK ==
  /\ pc \in [Clients -> Labels]
  /\ msg \in [Clients -> Messages]
  /\ unread \in [Clients -> BOOLEAN]
  /\ queries \in [Clients -> SUBSET (0..MaxCid)]

Init ==
  /\ ConnInit /\ ListInit /\ BoardInit /\ CastInit
  /\ pc = [c \in Clients |-> "none"]
  /\ msg = [c \in Clients |-> NoMessage]
  /\ unread = [c \in Clients |-> FALSE]
  /\ queries = [c \in Clients |-> {}]

At(c, label) == Running /\ pc[c] = label
Goto(c, label) == pc' = [pc EXCEPT ![c] = label]
GotoWith(c, label, m) == Goto(c, label) /\ msg' = [msg EXCEPT ![c] = m]
-----------------------------------------------------------------------------
(***************************************************************************)
(* Login.                                                                  *)
(***************************************************************************)

\* login_thread: accept() and the start of the client thread.
Accept(c) ==
  /\ At(c, "none")
  /\ peer' = [peer EXCEPT ![c] = "open"]
  /\ Goto(c, "login")
  /\ UNCHANGED <<server, listVars, boardVars, castVars, msg, unread, queries>>

\* close(socket_fd) and the end of the thread.
CloseSocket(c) ==
  /\ peer' = [peer EXCEPT ![c] = "none"]
  /\ UNCHANGED server
  /\ GotoWith(c, "none", NoMessage)
  /\ unread' = [unread EXCEPT ![c] = FALSE]
  /\ queries' = [queries EXCEPT ![c] = {}]

Forget(c) ==
  /\ status' = [status EXCEPT ![c] = NoStatus]
  /\ shown' = [shown EXCEPT ![c] = "nothing"]

\* No login message, a malformed one, or the connection ends before it.
LoginFails(c) ==
  /\ At(c, "login")
  /\ CloseSocket(c)
  /\ UNCHANGED <<listVars, boardVars, castVars>>

\* The role granted: INDIFFERENT is resolved under the list mutex, the test
\* of a DOCENT login is not.
GrantedRole(wish) ==
  IF wish = "STUDENT" \/ DocentExists THEN "STUDENT" ELSE "DOCENT"

\* Take a client id and a role; both are read again only by add_client.
Login(c, wish) ==
  /\ At(c, "login")
  /\ wish = "INDIFFERENT" => cl_mutex = Nobody
  /\ CountCid
  /\ IF NextCid = 0
       THEN CloseSocket(c) /\ UNCHANGED <<role, cid>>
       ELSE /\ cid' = [cid EXCEPT ![c] = NextCid]
            /\ role' = [role EXCEPT ![c] = GrantedRole(wish)]
            /\ Goto(c, "add")
            /\ UNCHANGED <<connVars, msg, unread, queries>>
  /\ UNCHANGED <<members, user_docent, user_write, client_counter, cl_mutex,
                 boardVars, castVars>>

EnterList(c) ==
  /\ At(c, "add")
  /\ AddClient(c)
  /\ Goto(c, "initial_board")
  /\ UNCHANGED <<connVars, boardVars, castVars, msg, unread, queries>>

\* Copy the board under bsem ...
CopyInitialBoard(c) ==
  /\ At(c, "initial_board")
  /\ bsem = Nobody
  /\ GotoWith(c, "send_board", [type |-> "none", content |-> board])
  /\ UNCHANGED <<connVars, listVars, boardVars, castVars, unread, queries>>

\* ... and send it after the unlock.
SendInitialBoard(c) ==
  /\ At(c, "send_board")
  /\ SendTo({c})
  /\ RecordBoard({c}, msg[c].content)
  /\ GotoWith(c, "trigger", NoMessage)
  /\ UNCHANGED <<listVars, boardVars, agent, broadcast_type, outgoing, status,
                 unread, queries>>
-----------------------------------------------------------------------------
(***************************************************************************)
(* Board and clear messages: board_handler.                                *)
(***************************************************************************)

CanReceive(c) == At(c, "idle") /\ ~unread[c]

\* A board refused for lack of write access: the payload is not consumed.
RefuseBoard(c, m) ==
  /\ GotoWith(c, "idle", NoMessage)
  /\ unread' = [unread EXCEPT ![c] = m.type = "board" /\ m.content # "empty"]
  /\ UNCHANGED queries

\* An accepted board is what its sender already shows.
AcceptBoard(c, m) ==
  /\ IF m.type = "clear"
       THEN Goto(c, "clear_trigger") /\ UNCHANGED shown
       ELSE Goto(c, "board_lock") /\ RecordBoard({c}, m.content)
  /\ UNCHANGED <<msg, unread, queries>>

\* has_write_access() without the list mutex, first read of user_write.
ReadBoard(c, m) ==
  /\ CanReceive(c)
  /\ IF user_write = Nobody
       THEN RefuseBoard(c, m)
       ELSE GotoWith(c, "check_write", m) /\ UNCHANGED <<unread, queries>>
  /\ UNCHANGED <<connVars, listVars, boardVars, castVars>>

\* The second read, dereferenced.
CheckWrite(c) ==
  /\ At(c, "check_write")
  /\ IF user_write = Nobody
       THEN Crash /\ UNCHANGED <<threadVars, shown>>
       ELSE /\ IF HasWriteAccess(c)
                 THEN AcceptBoard(c, msg[c])
                 ELSE RefuseBoard(c, msg[c]) /\ UNCHANGED shown
            /\ UNCHANGED connVars
  /\ UNCHANGED <<listVars, boardVars, agent, broadcast_type, outgoing, status>>

\* lock_sem(asem), twice: trigger the archiver, wait for it.
LockTrigger(c, from, to) ==
  /\ At(c, from)
  /\ asem > 0
  /\ asem' = asem - 1
  /\ Goto(c, to)
  /\ UNCHANGED <<connVars, listVars, board, bsem, archiver, archived, castVars,
                 msg, unread, queries>>


\* Fault: the board is locked before the archiver is triggered.
BoardLockedFirst(c) ==
  /\ At(c, "clear_trigger")
  /\ asem > 0 /\ bsem = Nobody
  /\ asem' = asem - 1 /\ bsem' = c
  /\ Goto(c, "clear_wait")
  /\ UNCHANGED <<connVars, listVars, board, archiver, archived, castVars,
                 msg, unread, queries>>

TriggerArchiver(c) == LockTrigger(c, "clear_trigger", "clear_wait")
AwaitArchiver(c) == LockTrigger(c, "clear_wait", "board_lock")

\* Lock bsem and zero the board; with no payload that is all.
EraseBoard(c) ==
  /\ At(c, "board_lock")
  /\ bsem = Nobody
  /\ IF msg[c].content = "empty"
       THEN board' = "empty" /\ bsem' = Nobody /\ Goto(c, "trigger")
       ELSE board' = "torn" /\ bsem' = c /\ Goto(c, "receive")
  /\ UNCHANGED <<connVars, listVars, asem, archiver, archived, castVars, msg,
                 unread, queries>>

StoreBoard(c, content) ==
  /\ board' = content
  /\ bsem' = Nobody
  /\ UNCHANGED <<server, listVars, asem, archiver, archived, castVars, unread,
                 queries>>

\* recv() of the payload under bsem, store, unlock.
ReceiveBoard(c) ==
  /\ At(c, "receive")
  /\ StoreBoard(c, msg[c].content)
  /\ Goto(c, "trigger")
  /\ UNCHANGED <<peer, msg>>

\* The connection ended inside the payload: a short count is not noticed.
ReceiveShort(c) ==
  /\ At(c, "receive")
  /\ peer[c] # "open"
  /\ StoreBoard(c, "garbage")
  /\ Goto(c, "trigger")
  /\ UNCHANGED <<peer, msg>>

\* Faults: the error path forgets the unlock; it closes the socket at once.
ReceiveFailsLocked(c) ==
  /\ At(c, "receive")
  /\ peer[c] \in {"aborted", "broken"}
  /\ board' = "empty"
  /\ peer' = [peer EXCEPT ![c] = AfterFailedRecv(@)]
  /\ GotoWith(c, "remove", NoMessage)
  /\ UNCHANGED <<server, listVars, bsem, asem, archiver, archived, castVars,
                 unread, queries>>
ReceiveFailsCloses(c) ==
  /\ At(c, "receive")
  /\ peer[c] \in {"aborted", "broken"}
  /\ StoreBoard(c, "empty")
  /\ peer' = [peer EXCEPT ![c] = "none"]
  /\ GotoWith(c, "none", NoMessage)

\* recv() returns -1: the zeroed board stays, nobody is told.
ReceiveFails(c) ==
  /\ At(c, "receive")
  /\ peer[c] \in {"aborted", "broken"}
  /\ StoreBoard(c, "empty")
  /\ peer' = [peer EXCEPT ![c] = AfterFailedRecv(@)]
  /\ GotoWith(c, "remove", NoMessage)
-----------------------------------------------------------------------------
(***************************************************************************)
(* Requests for write access and the docent's replies.                     *)
(***************************************************************************)

NoAnswer(c) ==
  /\ Goto(c, "idle")
  /\ UNCHANGED <<connVars, listVars, msg, unread, queries>>

\* The docent takes the write access back; the former writer is notified and
\* the status triggered with the list mutex held.
TakeBack(c) ==
  /\ IF user_write = Nobody THEN Crash ELSE SendTo({user_write})
  /\ SetWriteUser(user_docent, c)
  /\ Goto(c, "locked_trigger")
  /\ UNCHANGED <<msg, unread, queries>>

\* The writer gives the write access back to the docent, if there is one.
GiveBack(c) ==
  /\ SetWriteUser(user_docent, c)
  /\ Goto(c, "locked_trigger")
  /\ UNCHANGED <<connVars, msg, unread, queries>>

\* Without docent and tutor the access is free.
TakeFree(c) ==
  /\ SetWriteUser(c, Nobody)
  /\ Goto(c, "trigger")
  /\ UNCHANGED <<connVars, msg, unread, queries>>

\* Ask the docent; if that send fails the requester is thrown out.
QueryDocent(c) ==
  /\ SendTo({user_docent})
  /\ UNCHANGED <<listVars, msg, unread>>
  /\ IF SendFails(user_docent)
       THEN Goto(c, "remove") /\ UNCHANGED queries
       ELSE /\ Goto(c, "idle")
            /\ queries' = [queries EXCEPT ![user_docent] = @ \cup {cid[c]}]

\* request_handler; write: the privilege asked for.
Request(c, write) ==
  /\ CanReceive(c)
  /\ cl_mutex = Nobody
  /\ IF write = HasWriteAccess(c) THEN NoAnswer(c)
     ELSE IF IsDocent(c)          THEN TakeBack(c)
     ELSE IF ~write               THEN GiveBack(c)
     ELSE IF DocentExists         THEN QueryDocent(c)
     ELSE IF TutorExists          THEN NoAnswer(c)
     ELSE TakeFree(c)
  /\ UNCHANGED <<boardVars, castVars>>

\* Fault: the new writer is not announced.
GrantSilently(c, user) ==
  /\ SetWriteUser(user, Nobody)
  /\ Goto(c, "idle")
  /\ UNCHANGED connVars

Grant(c, user) ==
  /\ SetWriteUser(user, Nobody)
  /\ Goto(c, "trigger")
  /\ UNCHANGED connVars

\* The denial is sent to the entry found, without a test that there is one.
Deny(c, user) ==
  /\ IF user = Nobody THEN Crash ELSE SendTo({user})
  /\ Goto(c, "idle")
  /\ UNCHANGED listVars

\* reply_handler; the reply answers the query about client id k.
Reply(c, k, write) ==
  /\ CanReceive(c)
  /\ k \in queries[c]
  /\ cl_mutex = Nobody
  /\ queries' = [queries EXCEPT ![c] = @ \ {k}]
  /\ IF ~IsDocent(c) THEN Goto(c, "remove") /\ UNCHANGED <<connVars, listVars>>
     ELSE IF ~write  THEN Deny(c, UserWithCid(k))
     ELSE IF UserWithCid(k) = Nobody
          THEN Goto(c, "idle") /\ UNCHANGED <<connVars, listVars>>
     ELSE Grant(c, UserWithCid(k))
  /\ UNCHANGED <<boardVars, castVars, msg, unread>>
-----------------------------------------------------------------------------
(***************************************************************************)
(* Triggers, shutdown and the end of a connection.                         *)
(***************************************************************************)

\* The trigger_status() calls inside the locked part of request_handler.
LockedTrigger(c) ==
  /\ At(c, "locked_trigger")
  /\ TriggerBroadcast("STATUS")
  /\ cl_mutex' = Nobody
  /\ Goto(c, "idle")
  /\ UNCHANGED <<members, role, cid, user_docent, user_write, client_counter,
                 cid_counter, connVars, boardVars, outgoing, status, shown,
                 msg, unread, queries>>

TypeToTrigger(m) ==
  CASE m.type = "board" -> "BLACKBOARD"
    [] m.type = "clear" -> "CLEAR"
    [] OTHER            -> "STATUS"

Trigger(c) ==
  /\ At(c, "trigger")
  /\ TriggerBroadcast(TypeToTrigger(msg[c]))
  /\ GotoWith(c, "idle", NoMessage)
  /\ UNCHANGED <<connVars, listVars, boardVars, outgoing, status, shown, unread,
                 queries>>

\* shutdown_handler: SIGINT to the process group.
Shutdown(c) ==
  /\ CanReceive(c)
  /\ cl_mutex = Nobody
  /\ IF IsDocent(c)
       THEN server' = "stopping" /\ Goto(c, "idle")
       ELSE Goto(c, "remove") /\ UNCHANGED server
  /\ UNCHANGED <<peer, listVars, boardVars, castVars, msg, unread, queries>>

\* The main thread has cleaned up and exits.
Exit ==
  /\ server = "stopping"
  /\ server' = "exited"
  /\ UNCHANGED <<peer, listVars, boardVars, castVars, threadVars>>

ThrowOut(c) ==
  /\ Goto(c, "remove")
  /\ UNCHANGED <<connVars, listVars, boardVars, castVars, msg, unread, queries>>

\* A header with a type the loop does not know, or a clear with a length.
UnknownMessage(c) == CanReceive(c) /\ ThrowOut(c)

\* The text left over from a refused board is read as a header: a character
\* is no message type.
LeftOverText(c) == At(c, "idle") /\ unread[c] /\ ThrowOut(c)

\* recv() of the header returns 0 or -1.
Disconnected(c) ==
  /\ At(c, "idle")
  /\ peer[c] # "open"
  /\ peer' = [peer EXCEPT ![c] = AfterFailedRecv(@)]
  /\ Goto(c, "remove")
  /\ UNCHANGED <<server, listVars, boardVars, castVars, msg, unread, queries>>

\* Fault: a client that cannot be found by its descriptor is left listed.
LeaveUnlisted(c) ==
  /\ At(c, "remove")
  /\ cl_mutex = Nobody
  /\ Goto(c, "logout_trigger")
  /\ UNCHANGED <<connVars, listVars, boardVars, castVars, msg, unread, queries>>

LeaveList(c) ==
  /\ At(c, "remove")
  /\ IF c \in members
       THEN RemoveClient(c) /\ UNCHANGED connVars
       ELSE cl_mutex = Nobody /\ Crash /\ UNCHANGED listVars
  /\ Goto(c, "logout_trigger")
  /\ UNCHANGED <<boardVars, castVars, msg, unread, queries>>

LogoutTrigger(c) ==
  /\ At(c, "logout_trigger")
  /\ TriggerBroadcast("STATUS")
  /\ Forget(c)
  /\ CloseSocket(c)
  /\ UNCHANGED <<listVars, boardVars, outgoing>>
-----------------------------------------------------------------------------
\* The user interface enables editing and clearing by the last status, the
\* docent can only ask for the access, everybody else toggles it.
OffersWriting(c) == Compliant => status[c].write
OffersRequest(c, write) ==
  Compliant => write = (role[c] = "DOCENT" \/ ~status[c].write)
OffersShutdown(c) == Compliant => role[c] = "DOCENT"

\* What the clients send: nondeterministic within Inputs.
Message(c) ==
  \/ /\ "board" \in Inputs /\ OffersWriting(c)
     /\ \E text \in Contents \cup {"empty"} :
          ReadBoard(c, [type |-> "board", content |-> text])
  \/ /\ "clear" \in Inputs /\ OffersWriting(c)
     /\ ReadBoard(c, [type |-> "clear", content |-> "empty"])
  \/ /\ "request" \in Inputs
     /\ \E write \in BOOLEAN : OffersRequest(c, write) /\ Request(c, write)
  \/ "reply" \in Inputs /\ \E k \in queries[c], write \in BOOLEAN :
       Reply(c, k, write)
  \/ "shutdown" \in Inputs /\ OffersShutdown(c) /\ Shutdown(c)
  \/ "unknown" \in Inputs /\ ~Compliant /\ UnknownMessage(c)

\* The steps a client thread takes by itself once it has a message.
ThreadStep(c) ==
  \/ EnterList(c) \/ CopyInitialBoard(c) \/ SendInitialBoard(c)
  \/ CheckWrite(c) \/ TriggerArchiver(c) \/ AwaitArchiver(c) \/ EraseBoard(c)
  \/ ReceiveBoard(c) \/ ReceiveShort(c) \/ ReceiveFails(c)
  \/ LockedTrigger(c) \/ Trigger(c)
  \/ LeftOverText(c) \/ Disconnected(c) \/ LeaveList(c) \/ LogoutTrigger(c)

\* The network and the client at the other end of the connection.
PeerStep(c) ==
  /\ Running
  /\ \/ "close" \in Inputs /\ PeerLeaves(c, "closed")
     \/ "abort" \in Inputs /\ PeerLeaves(c, "aborted")
     \/ ResetArrives(c)
  /\ UNCHANGED <<listVars, boardVars, castVars, threadVars>>

ClientNext(c) ==
  \/ Accept(c) \/ LoginFails(c)
  \/ \E wish \in LoginRoles \cap Inputs : Login(c, wish)
  \/ Message(c) \/ ThreadStep(c) \/ PeerStep(c)

\* The archiver is a process of its own, followed while the server lives.
ArchiverNext ==
  /\ Running
  /\ ArchiverStep
  /\ UNCHANGED <<connVars, listVars, castVars, threadVars>>

Next ==
  \/ \E c \in Clients : ClientNext(c)
  \/ AgentNext /\ UNCHANGED threadVars
  \/ ArchiverNext
  \/ Exit

Spec == Init /\ [][Next]_vars

(***************************************************************************)
(* A thread that can go on does so, and one that waits for a mutex or a    *)
(* semaphore which is released again and again gets it in the end: the     *)
(* kernel queues the waiters of a System V semaphore, and for the mutexes  *)
(* it is an assumption on the scheduler.  The payload a client announced   *)
(* arrives or the connection ends: the client sends both in one send().    *)
(* Nothing makes a client send, connect or leave, the agent wake           *)
(* spuriously, or the debug thread run.                                    *)
(***************************************************************************)
AgentWork ==
  /\ AgentFirstWait \/ AgentWakes
     \/ BroadcastStatus \/ CopyBoardToSend \/ BroadcastBlackboard
  /\ UNCHANGED threadVars

ArchiverWork ==
  /\ Running
  /\ ArchiverWakes \/ ArchiveBoard \/ ArchiverNotifies \/ ArchiverResets
  /\ UNCHANGED <<connVars, listVars, castVars, threadVars>>

Fairness ==
  /\ \A c \in Clients : SF_vars(ThreadStep(c))
  /\ SF_vars(AgentWork)
  /\ SF_vars(ArchiverWork)

FairSpec == Spec /\ Fairness

=============================================================================
