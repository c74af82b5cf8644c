---------------------------- MODULE ServerProofs ----------------------------
(***************************************************************************)
(* Theorems about the server, for every set of connections, every set of   *)
(* board texts and every width of the client ids.                          *)
(***************************************************************************)
EXTENDS ServerProperties, TLAPS

-----------------------------------------------------------------------------
(***************************************************************************)
(* What the operators return.                                              *)
(***************************************************************************)

\* get_next_cid stays within the width of the counter.
LEMMA NextCidType ==
  ASSUME cid_counter \in 0..MaxCid
  PROVE  NextCid \in 0..MaxCid
BY MaxCidAssumption DEF NextCid

\* get_user_cid returns a listed entry or NULL.
LEMMA UserType ==
  ASSUME NEW k
  PROVE  UserWithCid(k) \in members \cup {Nobody}
BY DEF UserWithCid

\* The status message broadcast_status builds is one.
LEMMA StatusForType ==
  ASSUME ListTypeOK, NEW u
  PROVE  StatusFor(u) \in Statuses
<1>. DEFINE d == IF DocentExists THEN 1 ELSE 0
            t == IF TutorExists THEN 1 ELSE 0
<1>1. d \in {0, 1} /\ t \in {0, 1}  OBVIOUS
<1>2. client_counter - d - t \in Int  BY <1>1 DEF ListTypeOK
<1>3. (u = user_write) \in BOOLEAN  OBVIOUS
<1>. HIDE DEF d, t
<1>4. [write |-> u = user_write, dcount |-> d, tcount |-> t,
       scount |-> client_counter - d - t] \in Statuses
  BY <1>1, <1>2, <1>3 DEF Statuses
<1>. QED BY <1>4 DEF StatusFor, d, t

\* close() and the end of a thread.
LEMMA CloseSocketType ==
  ASSUME ConnTypeOK, ThreadTypeOK, NEW c \in Clients, CloseSocket(c)
  PROVE  ConnTypeOK' /\ ThreadTypeOK'
<1>1. ConnTypeOK'
  BY DEF ConnTypeOK, CloseSocket, PeerStates
<1>2. pc' \in [Clients -> Labels]
  BY DEF ThreadTypeOK, CloseSocket, GotoWith, Goto, Labels
<1>3. msg' \in [Clients -> Messages]
  BY DEF ThreadTypeOK, CloseSocket, GotoWith, NoMessage, Messages, BoardStates
<1>4. unread' \in [Clients -> BOOLEAN]
  BY DEF ThreadTypeOK, CloseSocket
<1>5. queries' \in [Clients -> SUBSET (0..MaxCid)]
  BY DEF ThreadTypeOK, CloseSocket
<1>. QED BY <1>1, <1>2, <1>3, <1>4, <1>5 DEF ThreadTypeOK

\* A board refused for lack of write access.
LEMMA RefuseBoardType ==
  ASSUME ThreadTypeOK, NEW c \in Clients, NEW m, RefuseBoard(c, m)
  PROVE  ThreadTypeOK'
<1>1. pc' \in [Clients -> Labels]
  BY DEF ThreadTypeOK, RefuseBoard, GotoWith, Goto, Labels
<1>2. msg' \in [Clients -> Messages]
  BY DEF ThreadTypeOK, RefuseBoard, GotoWith, NoMessage, Messages, BoardStates
<1>3. unread' \in [Clients -> BOOLEAN]
  BY DEF ThreadTypeOK, RefuseBoard
<1>4. queries' \in [Clients -> SUBSET (0..MaxCid)]
  BY DEF ThreadTypeOK, RefuseBoard
<1>. QED BY <1>1, <1>2, <1>3, <1>4 DEF ThreadTypeOK

\* A login takes a client id and a role, or is closed.
LEMMA LoginType ==
  ASSUME TypeOK, NEW c \in Clients, NEW wish \in LoginRoles, Login(c, wish)
  PROVE  TypeOK'
<1>1. NextCid \in 0..MaxCid /\ cid_counter' \in 0..MaxCid
  BY NextCidType, MaxCidAssumption DEF TypeOK, ListTypeOK, Login, CountCid
<1>2. BoardTypeOK' /\ CastTypeOK'
  BY DEF TypeOK, BoardTypeOK, CastTypeOK, Login, boardVars, castVars
<1>3. CASE NextCid = 0
  <2>1. ConnTypeOK' /\ ThreadTypeOK'
    BY <1>3, CloseSocketType DEF TypeOK, Login
  <2>2. ListTypeOK'
    BY <1>1, <1>3 DEF TypeOK, ListTypeOK, Login
  <2>. QED BY <1>2, <2>1, <2>2 DEF TypeOK
<1>4. CASE NextCid # 0
  <2>1. ConnTypeOK' /\ ThreadTypeOK'
    BY <1>4 DEF TypeOK, ConnTypeOK, ThreadTypeOK, Login, Goto, Labels, connVars
  <2>2. ListTypeOK'
    BY <1>1, <1>4 DEF TypeOK, ListTypeOK, Login, GrantedRole, EntryRoles
  <2>. QED BY <1>2, <2>1, <2>2 DEF TypeOK
<1>. QED BY <1>3, <1>4

\* remove_client unlinks an entry, or crashes without one.
LEMMA LeaveListType ==
  ASSUME ListTypeOK, NEW c \in Clients, LeaveList(c)
  PROVE  ListTypeOK'
<1>1. CASE c \in members
  <2>1. RemoveClient(c)  BY <1>1 DEF LeaveList
  <2>2. members' \subseteq Clients /\ role' \in [Clients -> EntryRoles]
    BY <2>1 DEF ListTypeOK, RemoveClient, Unlink, EntryRoles
  <2>3. cid' \in [Clients -> 0..MaxCid]
    BY <2>1, MaxCidAssumption DEF ListTypeOK, RemoveClient, Unlink
  <2>4. user_docent' \in Clients \cup {Nobody}
    BY <2>1 DEF ListTypeOK, RemoveClient, Unlink, PointersLeave
  <2>5. user_write' \in Clients \cup {Nobody}
    BY <2>1 DEF ListTypeOK, RemoveClient, Unlink, PointersLeave
  <2>6. client_counter' \in Int /\ cid_counter' \in 0..MaxCid
    BY <2>1 DEF ListTypeOK, RemoveClient, Unlink
  <2>7. cl_mutex' \in Clients \cup {Nobody}
    BY <2>1 DEF ListTypeOK, RemoveClient
  <2>. QED BY <2>2, <2>3, <2>4, <2>5, <2>6, <2>7 DEF ListTypeOK
<1>2. CASE c \notin members
  <2>1. UNCHANGED listVars  BY <1>2 DEF LeaveList
  <2>. QED BY <2>1 DEF ListTypeOK, listVars
<1>. QED BY <1>1, <1>2

\* The headers that announce a board are messages.
LEMMA BoardMessage ==
  ASSUME NEW text \in Contents \cup {"empty"}
  PROVE  [type |-> "board", content |-> text] \in Messages
BY DEF Messages, BoardStates

\* A clear is a message too.
LEMMA ClearMessage == [type |-> "clear", content |-> "empty"] \in Messages
BY DEF Messages, BoardStates

-----------------------------------------------------------------------------
(***************************************************************************)
(* Type correctness.                                                       *)
(***************************************************************************)

\* Every step keeps every variable in its domain.  One step per action; under
\* it one per component the action writes, then the components it leaves alone.

LEMMA TypeOKStep ==
  ASSUME TypeOK, [Next]_vars
  PROVE  TypeOK'
<1>1. ASSUME NEW c \in Clients, Accept(c)
      PROVE  TypeOK'
  <2>1. ConnTypeOK'
    BY <1>1 DEF TypeOK, ConnTypeOK, Accept, PeerStates
  <2>2. ThreadTypeOK'
    BY <1>1 DEF TypeOK, ThreadTypeOK, Accept, Goto, Labels
  <2>3. ListTypeOK' /\ BoardTypeOK' /\ CastTypeOK'
    BY <1>1 DEF TypeOK, ListTypeOK, BoardTypeOK, CastTypeOK, listVars,
        boardVars, castVars, Accept
  <2>. QED BY <2>1, <2>2, <2>3 DEF TypeOK
<1>2. ASSUME NEW c \in Clients, LoginFails(c)
      PROVE  TypeOK'
  <2>1. ConnTypeOK' /\ ThreadTypeOK'
    BY <1>2, CloseSocketType DEF TypeOK, ConnTypeOK, ThreadTypeOK, LoginFails
  <2>2. ListTypeOK' /\ BoardTypeOK' /\ CastTypeOK'
    BY <1>2 DEF TypeOK, ListTypeOK, BoardTypeOK, CastTypeOK, listVars,
        boardVars, castVars, LoginFails
  <2>. QED BY <2>1, <2>2 DEF TypeOK
<1>3. ASSUME NEW c \in Clients, NEW wish \in LoginRoles, Login(c, wish)
      PROVE  TypeOK'
  BY <1>3, LoginType
<1>4. ASSUME NEW c \in Clients, EnterList(c)
      PROVE  TypeOK'
  <2>1. ListTypeOK'
    BY <1>4 DEF TypeOK, ListTypeOK, EnterList, AddClient
  <2>2. ThreadTypeOK'
    BY <1>4 DEF TypeOK, ThreadTypeOK, EnterList, Goto, Labels
  <2>3. ConnTypeOK' /\ BoardTypeOK' /\ CastTypeOK'
    BY <1>4 DEF TypeOK, ConnTypeOK, BoardTypeOK, CastTypeOK, connVars,
        boardVars, castVars, EnterList
  <2>. QED BY <2>1, <2>2, <2>3 DEF TypeOK
<1>5. ASSUME NEW c \in Clients, CopyInitialBoard(c)
      PROVE  TypeOK'
  <2>1. ThreadTypeOK'
    BY <1>5 DEF TypeOK, ThreadTypeOK, CopyInitialBoard, GotoWith, Goto,
        Labels, Messages, BoardTypeOK
  <2>2. ConnTypeOK' /\ ListTypeOK' /\ BoardTypeOK' /\ CastTypeOK'
    BY <1>5 DEF TypeOK, ConnTypeOK, ListTypeOK, BoardTypeOK, CastTypeOK,
        connVars, listVars, boardVars, castVars, CopyInitialBoard
  <2>. QED BY <2>1, <2>2 DEF TypeOK
<1>6. ASSUME NEW c \in Clients, SendInitialBoard(c)
      PROVE  TypeOK'
  <2>1. ConnTypeOK'
    BY <1>6 DEF TypeOK, ConnTypeOK, SendInitialBoard, SendTo, AfterSend,
        PeerStates, ServerStates
  <2>2. CastTypeOK'
    BY <1>6 DEF TypeOK, CastTypeOK, SendInitialBoard, RecordBoard,
        ThreadTypeOK, Messages
  <2>3. ThreadTypeOK'
    BY <1>6 DEF TypeOK, ThreadTypeOK, SendInitialBoard, GotoWith, Goto,
        NoMessage, Labels, Messages, BoardStates
  <2>4. ListTypeOK' /\ BoardTypeOK'
    BY <1>6 DEF TypeOK, ListTypeOK, BoardTypeOK, listVars, boardVars,
        SendInitialBoard
  <2>. QED BY <2>1, <2>2, <2>3, <2>4 DEF TypeOK
<1>7. ASSUME NEW c \in Clients, NEW m \in Messages, ReadBoard(c, m)
      PROVE  TypeOK'
  <2>1. ThreadTypeOK'
    BY <1>7, RefuseBoardType DEF TypeOK, ThreadTypeOK, ReadBoard,
        GotoWith, Goto, Labels
  <2>2. ConnTypeOK' /\ ListTypeOK' /\ BoardTypeOK' /\ CastTypeOK'
    BY <1>7 DEF TypeOK, ConnTypeOK, ListTypeOK, BoardTypeOK, CastTypeOK,
        connVars, listVars, boardVars, castVars, ReadBoard
  <2>. QED BY <2>1, <2>2 DEF TypeOK
<1>8. ASSUME NEW c \in Clients, CheckWrite(c)
      PROVE  TypeOK'
  <2>1. ConnTypeOK'
    BY <1>8 DEF TypeOK, ConnTypeOK, CheckWrite, Crash, ServerStates, connVars
  <2>2. CastTypeOK'
    BY <1>8 DEF TypeOK, CastTypeOK, CheckWrite, AcceptBoard, RecordBoard,
        ThreadTypeOK, Messages
  <2>3. ThreadTypeOK'
    BY <1>8, RefuseBoardType DEF TypeOK, ThreadTypeOK, CheckWrite,
        AcceptBoard, threadVars, Goto, Labels
  <2>4. ListTypeOK' /\ BoardTypeOK'
    BY <1>8 DEF TypeOK, ListTypeOK, BoardTypeOK, listVars, boardVars,
        CheckWrite
  <2>. QED BY <2>1, <2>2, <2>3, <2>4 DEF TypeOK
<1>9. ASSUME NEW c \in Clients, TriggerArchiver(c)
      PROVE  TypeOK'
  <2>1. BoardTypeOK'
    BY <1>9 DEF TypeOK, BoardTypeOK, TriggerArchiver, LockTrigger
  <2>2. ThreadTypeOK'
    BY <1>9 DEF TypeOK, ThreadTypeOK, TriggerArchiver, LockTrigger, Goto,
        Labels
  <2>3. ConnTypeOK' /\ ListTypeOK' /\ CastTypeOK'
    BY <1>9 DEF TypeOK, ConnTypeOK, ListTypeOK, CastTypeOK, connVars,
        listVars, castVars, TriggerArchiver, LockTrigger
  <2>. QED BY <2>1, <2>2, <2>3 DEF TypeOK
<1>10. ASSUME NEW c \in Clients, AwaitArchiver(c)
      PROVE  TypeOK'
  <2>1. BoardTypeOK'
    BY <1>10 DEF TypeOK, BoardTypeOK, AwaitArchiver, LockTrigger
  <2>2. ThreadTypeOK'
    BY <1>10 DEF TypeOK, ThreadTypeOK, AwaitArchiver, LockTrigger, Goto, Labels
  <2>3. ConnTypeOK' /\ ListTypeOK' /\ CastTypeOK'
    BY <1>10 DEF TypeOK, ConnTypeOK, ListTypeOK, CastTypeOK, connVars,
        listVars, castVars, AwaitArchiver, LockTrigger
  <2>. QED BY <2>1, <2>2, <2>3 DEF TypeOK
<1>11. ASSUME NEW c \in Clients, EraseBoard(c)
      PROVE  TypeOK'
  <2>1. BoardTypeOK'
    BY <1>11 DEF TypeOK, BoardTypeOK, EraseBoard, BoardStates
  <2>2. ThreadTypeOK'
    BY <1>11 DEF TypeOK, ThreadTypeOK, EraseBoard, Goto, Labels
  <2>3. ConnTypeOK' /\ ListTypeOK' /\ CastTypeOK'
    BY <1>11 DEF TypeOK, ConnTypeOK, ListTypeOK, CastTypeOK, connVars,
        listVars, castVars, EraseBoard
  <2>. QED BY <2>1, <2>2, <2>3 DEF TypeOK
<1>12. ASSUME NEW c \in Clients, ReceiveBoard(c)
      PROVE  TypeOK'
  <2>1. ConnTypeOK'
    BY <1>12 DEF TypeOK, ConnTypeOK, ReceiveBoard, StoreBoard, connVars
  <2>2. BoardTypeOK'
    BY <1>12 DEF TypeOK, BoardTypeOK, ReceiveBoard, StoreBoard,
        ThreadTypeOK, Messages
  <2>3. ThreadTypeOK'
    BY <1>12 DEF TypeOK, ThreadTypeOK, ReceiveBoard, StoreBoard, Goto, Labels
  <2>4. ListTypeOK' /\ CastTypeOK'
    BY <1>12 DEF TypeOK, ListTypeOK, CastTypeOK, listVars, castVars,
        ReceiveBoard, StoreBoard
  <2>. QED BY <2>1, <2>2, <2>3, <2>4 DEF TypeOK
<1>13. ASSUME NEW c \in Clients, ReceiveShort(c)
      PROVE  TypeOK'
  <2>1. ConnTypeOK'
    BY <1>13 DEF TypeOK, ConnTypeOK, ReceiveShort, StoreBoard, connVars
  <2>2. BoardTypeOK'
    BY <1>13 DEF TypeOK, BoardTypeOK, ReceiveShort, StoreBoard, BoardStates
  <2>3. ThreadTypeOK'
    BY <1>13 DEF TypeOK, ThreadTypeOK, ReceiveShort, StoreBoard, Goto, Labels
  <2>4. ListTypeOK' /\ CastTypeOK'
    BY <1>13 DEF TypeOK, ListTypeOK, CastTypeOK, listVars, castVars,
        ReceiveShort, StoreBoard
  <2>. QED BY <2>1, <2>2, <2>3, <2>4 DEF TypeOK
<1>14. ASSUME NEW c \in Clients, ReceiveFails(c)
      PROVE  TypeOK'
  <2>1. ConnTypeOK'
    BY <1>14 DEF TypeOK, ConnTypeOK, ReceiveFails, StoreBoard,
        AfterFailedRecv, PeerStates
  <2>2. BoardTypeOK'
    BY <1>14 DEF TypeOK, BoardTypeOK, ReceiveFails, StoreBoard, BoardStates
  <2>3. ThreadTypeOK'
    BY <1>14 DEF TypeOK, ThreadTypeOK, ReceiveFails, StoreBoard,
        GotoWith, Goto, NoMessage, Labels, Messages, BoardStates
  <2>4. ListTypeOK' /\ CastTypeOK'
    BY <1>14 DEF TypeOK, ListTypeOK, CastTypeOK, listVars, castVars,
        ReceiveFails, StoreBoard
  <2>. QED BY <2>1, <2>2, <2>3, <2>4 DEF TypeOK
<1>15. ASSUME NEW c \in Clients, NEW write \in BOOLEAN, Request(c, write)
      PROVE  TypeOK'
  <2>1. ConnTypeOK'
    BY <1>15 DEF TypeOK, ConnTypeOK, Request, NoAnswer, TakeBack,
        GiveBack, TakeFree, QueryDocent, Crash, SendTo, AfterSend,
        PeerStates, ServerStates, connVars
  <2>2. ListTypeOK'
    BY <1>15 DEF TypeOK, ListTypeOK, Request, NoAnswer, TakeBack,
        GiveBack, TakeFree, QueryDocent, SetWriteUser, listVars
  <2>3. ThreadTypeOK'
    BY <1>15 DEF TypeOK, ThreadTypeOK, Request, ListTypeOK, DocentExists,
        NoAnswer, TakeBack, GiveBack, TakeFree, QueryDocent,
        SetWriteUser, Goto, Labels
  <2>4. BoardTypeOK' /\ CastTypeOK'
    BY <1>15 DEF TypeOK, BoardTypeOK, CastTypeOK, boardVars, castVars, Request
  <2>. QED BY <2>1, <2>2, <2>3, <2>4 DEF TypeOK
<1>16. ASSUME NEW c \in Clients, NEW k \in queries[c], NEW write \in BOOLEAN,
    Reply(c, k, write)
      PROVE  TypeOK'
  <2>1. ConnTypeOK'
    BY <1>16 DEF TypeOK, ConnTypeOK, Reply, Deny, Grant, Crash, SendTo,
        AfterSend, PeerStates, ServerStates, connVars
  <2>2. ListTypeOK'
    BY <1>16, UserType DEF TypeOK, ListTypeOK, Reply, Deny, Grant,
        SetWriteUser, listVars
  <2>3. ThreadTypeOK'
    BY <1>16 DEF TypeOK, ThreadTypeOK, Reply, Deny, Grant, Goto, Labels
  <2>4. BoardTypeOK' /\ CastTypeOK'
    BY <1>16 DEF TypeOK, BoardTypeOK, CastTypeOK, boardVars, castVars, Reply
  <2>. QED BY <2>1, <2>2, <2>3, <2>4 DEF TypeOK
<1>17. ASSUME NEW c \in Clients, Shutdown(c)
      PROVE  TypeOK'
  <2>1. ConnTypeOK'
    BY <1>17 DEF TypeOK, ConnTypeOK, Shutdown, ServerStates
  <2>2. ThreadTypeOK'
    BY <1>17 DEF TypeOK, ThreadTypeOK, Shutdown, Goto, Labels
  <2>3. ListTypeOK' /\ BoardTypeOK' /\ CastTypeOK'
    BY <1>17 DEF TypeOK, ListTypeOK, BoardTypeOK, CastTypeOK, listVars,
        boardVars, castVars, Shutdown
  <2>. QED BY <2>1, <2>2, <2>3 DEF TypeOK
<1>18. ASSUME NEW c \in Clients, UnknownMessage(c)
      PROVE  TypeOK'
  <2>1. ThreadTypeOK'
    BY <1>18 DEF TypeOK, ThreadTypeOK, UnknownMessage, ThrowOut, Goto, Labels
  <2>2. ConnTypeOK' /\ ListTypeOK' /\ BoardTypeOK' /\ CastTypeOK'
    BY <1>18 DEF TypeOK, ConnTypeOK, ListTypeOK, BoardTypeOK, CastTypeOK,
        connVars, listVars, boardVars, castVars, UnknownMessage, ThrowOut
  <2>. QED BY <2>1, <2>2 DEF TypeOK
<1>19. ASSUME NEW c \in Clients, LockedTrigger(c)
      PROVE  TypeOK'
  <2>1. ListTypeOK'
    BY <1>19 DEF TypeOK, ListTypeOK, LockedTrigger
  <2>2. CastTypeOK'
    BY <1>19 DEF TypeOK, CastTypeOK, LockedTrigger, TriggerBroadcast,
        AgentStates, BroadcastTypes
  <2>3. ThreadTypeOK'
    BY <1>19 DEF TypeOK, ThreadTypeOK, LockedTrigger, Goto, Labels
  <2>4. ConnTypeOK' /\ BoardTypeOK'
    BY <1>19 DEF TypeOK, ConnTypeOK, BoardTypeOK, connVars, boardVars,
        LockedTrigger
  <2>. QED BY <2>1, <2>2, <2>3, <2>4 DEF TypeOK
<1>20. ASSUME NEW c \in Clients, Trigger(c)
      PROVE  TypeOK'
  <2>1. CastTypeOK'
    BY <1>20 DEF TypeOK, CastTypeOK, Trigger, TypeToTrigger,
        TriggerBroadcast, AgentStates, BroadcastTypes
  <2>2. ThreadTypeOK'
    BY <1>20 DEF TypeOK, ThreadTypeOK, Trigger, GotoWith, Goto,
        NoMessage, Labels, Messages, BoardStates
  <2>3. ConnTypeOK' /\ ListTypeOK' /\ BoardTypeOK'
    BY <1>20 DEF TypeOK, ConnTypeOK, ListTypeOK, BoardTypeOK, connVars,
        listVars, boardVars, Trigger
  <2>. QED BY <2>1, <2>2, <2>3 DEF TypeOK
<1>21. ASSUME NEW c \in Clients, LeftOverText(c)
      PROVE  TypeOK'
  <2>1. ThreadTypeOK'
    BY <1>21 DEF TypeOK, ThreadTypeOK, LeftOverText, ThrowOut, Goto, Labels
  <2>2. ConnTypeOK' /\ ListTypeOK' /\ BoardTypeOK' /\ CastTypeOK'
    BY <1>21 DEF TypeOK, ConnTypeOK, ListTypeOK, BoardTypeOK, CastTypeOK,
        connVars, listVars, boardVars, castVars, LeftOverText, ThrowOut
  <2>. QED BY <2>1, <2>2 DEF TypeOK
<1>22. ASSUME NEW c \in Clients, Disconnected(c)
      PROVE  TypeOK'
  <2>1. ConnTypeOK'
    BY <1>22 DEF TypeOK, ConnTypeOK, Disconnected, AfterFailedRecv, PeerStates
  <2>2. ThreadTypeOK'
    BY <1>22 DEF TypeOK, ThreadTypeOK, Disconnected, Goto, Labels
  <2>3. ListTypeOK' /\ BoardTypeOK' /\ CastTypeOK'
    BY <1>22 DEF TypeOK, ListTypeOK, BoardTypeOK, CastTypeOK, listVars,
        boardVars, castVars, Disconnected
  <2>. QED BY <2>1, <2>2, <2>3 DEF TypeOK
<1>23. ASSUME NEW c \in Clients, LeaveList(c)
      PROVE  TypeOK'
  <2>1. ConnTypeOK'
    BY <1>23 DEF TypeOK, ConnTypeOK, LeaveList, Crash, ServerStates, connVars
  <2>2. ListTypeOK'
    BY <1>23, LeaveListType DEF TypeOK, ListTypeOK, LeaveList
  <2>3. ThreadTypeOK'
    BY <1>23 DEF TypeOK, ThreadTypeOK, LeaveList, Goto, Labels
  <2>4. BoardTypeOK' /\ CastTypeOK'
    BY <1>23 DEF TypeOK, BoardTypeOK, CastTypeOK, boardVars, castVars,
        LeaveList
  <2>. QED BY <2>1, <2>2, <2>3, <2>4 DEF TypeOK
<1>24. ASSUME NEW c \in Clients, LogoutTrigger(c)
      PROVE  TypeOK'
  <2>1. ConnTypeOK' /\ ThreadTypeOK'
    BY <1>24, CloseSocketType DEF TypeOK, ConnTypeOK, ThreadTypeOK,
        LogoutTrigger
  <2>2. CastTypeOK'
    BY <1>24 DEF TypeOK, CastTypeOK, LogoutTrigger, Forget, NoStatus,
        Statuses, TriggerBroadcast, AgentStates, BroadcastTypes
  <2>3. ListTypeOK' /\ BoardTypeOK'
    BY <1>24 DEF TypeOK, ListTypeOK, BoardTypeOK, listVars, boardVars,
        LogoutTrigger
  <2>. QED BY <2>1, <2>2, <2>3 DEF TypeOK
<1>25. ASSUME NEW c \in Clients, PeerStep(c)
      PROVE  TypeOK'
  <2>1. ConnTypeOK'
    BY <1>25 DEF TypeOK, ConnTypeOK, PeerStep, PeerLeaves, ResetArrives,
        PeerStates
  <2>2. ListTypeOK' /\ BoardTypeOK' /\ CastTypeOK' /\ ThreadTypeOK'
    BY <1>25 DEF TypeOK, ListTypeOK, BoardTypeOK, CastTypeOK,
        ThreadTypeOK, listVars, boardVars, castVars, threadVars, PeerStep
  <2>. QED BY <2>1, <2>2 DEF TypeOK
<1>26. ASSUME AgentNext, UNCHANGED threadVars
      PROVE  TypeOK'
  <2>1. ConnTypeOK'
    BY <1>26 DEF TypeOK, ConnTypeOK, AgentNext, AgentFirstWait,
        AgentWakes, SpuriousWakeup, BroadcastStatus, CopyBoardToSend,
        BroadcastBlackboard, SendTo, AfterSend, PeerStates, ServerStates,
        connVars
  <2>2. CastTypeOK'
    BY <1>26, StatusForType DEF TypeOK, CastTypeOK, AgentNext,
        AgentFirstWait, AgentWakes, SpuriousWakeup, BroadcastStatus,
        CopyBoardToSend, BroadcastBlackboard, AgentStep, AgentStates,
        BoardTypeOK, RecordStatus, RecordBoard
  <2>3. ListTypeOK' /\ BoardTypeOK' /\ ThreadTypeOK'
    BY <1>26 DEF TypeOK, ListTypeOK, BoardTypeOK, ThreadTypeOK, listVars,
        boardVars, threadVars, AgentNext, AgentFirstWait, AgentWakes,
        SpuriousWakeup, BroadcastStatus, CopyBoardToSend,
        BroadcastBlackboard, AgentStep
  <2>. QED BY <2>1, <2>2, <2>3 DEF TypeOK
<1>27. ASSUME ArchiverNext
      PROVE  TypeOK'
  <2>1. BoardTypeOK'
    BY <1>27 DEF TypeOK, BoardTypeOK, ArchiverNext, ArchiverStep,
        ArchiverWakes, ArchiveBoard, ArchiverNotifies, ArchiverResets,
        ArchiverUnlocks, DebugArchive, ArchiverDies
  <2>2. ConnTypeOK' /\ ListTypeOK' /\ CastTypeOK' /\ ThreadTypeOK'
    BY <1>27 DEF TypeOK, ConnTypeOK, ListTypeOK, CastTypeOK,
        ThreadTypeOK, connVars, listVars, castVars, threadVars,
        ArchiverNext
  <2>. QED BY <2>1, <2>2 DEF TypeOK
<1>28. ASSUME Exit
      PROVE  TypeOK'
  <2>1. ConnTypeOK'
    BY <1>28 DEF TypeOK, ConnTypeOK, Exit, ServerStates
  <2>2. ListTypeOK' /\ BoardTypeOK' /\ CastTypeOK' /\ ThreadTypeOK'
    BY <1>28 DEF TypeOK, ListTypeOK, BoardTypeOK, CastTypeOK,
        ThreadTypeOK, listVars, boardVars, castVars, threadVars, Exit
  <2>. QED BY <2>1, <2>2 DEF TypeOK
<1>29. CASE UNCHANGED vars
  BY <1>29 DEF TypeOK, ConnTypeOK, ListTypeOK, BoardTypeOK, CastTypeOK,
    ThreadTypeOK, vars, connVars, listVars, boardVars, castVars, threadVars
<1>. QED
  BY <1>1, <1>2, <1>3, <1>4, <1>5, <1>6, <1>7, <1>8, <1>9, <1>10, <1>11, <1>12,
    <1>13, <1>14, <1>15, <1>16, <1>17, <1>18, <1>19, <1>20, <1>21, <1>22,
    <1>23, <1>24, <1>25, <1>26, <1>27, <1>28,
    <1>29, ClearMessage, BoardMessage
  DEF Next, ClientNext, Message, ThreadStep

\* The program starts within the domains.
LEMMA TypeOKInit == Init => TypeOK
<1>. SUFFICES ASSUME Init PROVE TypeOK  OBVIOUS
<1>1. ConnTypeOK
  BY DEF Init, ConnInit, ConnTypeOK, PeerStates, ServerStates
<1>2. ListTypeOK
  BY MaxCidAssumption DEF Init, ListInit, ListTypeOK, EntryRoles
<1>3. BoardTypeOK
  BY DEF Init, BoardInit, BoardTypeOK, BoardStates
<1>4. CastTypeOK
  BY AgentStartAssumption
  DEF Init, CastInit, CastTypeOK, AgentStates, BroadcastTypes, NoStatus,
      Statuses
<1>5. ThreadTypeOK
  BY DEF Init, ThreadTypeOK, Labels, NoMessage, Messages, BoardStates
<1>. QED BY <1>1, <1>2, <1>3, <1>4, <1>5 DEF TypeOK

\* In every behaviour of the server every variable stays within its domain.
THEOREM TypeCorrect == Spec => []TypeOK
BY TypeOKInit, TypeOKStep, PTL DEF Spec

=============================================================================
