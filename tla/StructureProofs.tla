-------------------------- MODULE StructureProofs --------------------------
(***************************************************************************)
(* The safety of the shared structures of the server: client list, board,  *)
(* locks.  None of the four invariants is inductive alone: that a pointer  *)
(* into the list is valid needs to know which thread is in the list, that  *)
(* the board is whole when its semaphore is free needs the content of the  *)
(* messages.  StructInv is their conjunction with the types, and inductive.*)
(***************************************************************************)
EXTENDS ServerProofs

StructInv ==
  /\ TypeOK
  /\ ListMatchesThreads
  /\ PointersValid
  /\ LocksMatchSections
  /\ NoTornCopy

\* No client writes the mark of an unfinished board.
LEMMA BoardNotTorn ==
  ASSUME NEW text \in Contents \cup {"empty"}
  PROVE  text # "torn"
BY ContentsAssumption

\* An entry is added and removed by the thread of its connection only.
LEMMA ListMatchesThreadsStep ==
  ASSUME StructInv, [Next]_vars
  PROVE  ListMatchesThreads'
<1>1. ASSUME NEW c \in Clients, Accept(c)
      PROVE  ListMatchesThreads'
  BY <1>1 DEF Accept, Goto, listVars, At, StructInv, TypeOK, ConnTypeOK,
      ThreadTypeOK, ListTypeOK, ListMatchesThreads, ListedLabels, Labels
<1>2. ASSUME NEW c \in Clients, LoginFails(c)
      PROVE  ListMatchesThreads'
  BY <1>2 DEF LoginFails, CloseSocket, GotoWith, Goto, listVars, At,
      StructInv, TypeOK, ConnTypeOK, ThreadTypeOK, ListTypeOK,
      ListMatchesThreads, ListedLabels, Labels
<1>3. ASSUME NEW c \in Clients, NEW wish \in LoginRoles, Login(c, wish)
      PROVE  ListMatchesThreads'
  BY <1>3 DEF Login, CloseSocket, GotoWith, Goto, connVars, At, StructInv,
      TypeOK, ConnTypeOK, ThreadTypeOK, ListTypeOK, ListMatchesThreads,
      ListedLabels, Labels
<1>4. ASSUME NEW c \in Clients, EnterList(c)
      PROVE  ListMatchesThreads'
  BY <1>4 DEF EnterList, AddClient, Goto, connVars, At, StructInv, TypeOK,
      ConnTypeOK, ThreadTypeOK, ListTypeOK, ListMatchesThreads, ListedLabels,
      Labels
<1>5. ASSUME NEW c \in Clients, CopyInitialBoard(c)
      PROVE  ListMatchesThreads'
  BY <1>5 DEF CopyInitialBoard, GotoWith, Goto, connVars, listVars, At,
      StructInv, TypeOK, ConnTypeOK, ThreadTypeOK, ListTypeOK,
      ListMatchesThreads, ListedLabels, Labels
<1>6. ASSUME NEW c \in Clients, SendInitialBoard(c)
      PROVE  ListMatchesThreads'
  BY <1>6 DEF SendInitialBoard, SendTo, AfterSend, GotoWith, Goto, listVars,
      At, StructInv, TypeOK, ConnTypeOK, ThreadTypeOK, ListTypeOK,
      ListMatchesThreads, ListedLabels, Labels
<1>7. ASSUME NEW c \in Clients, NEW m \in Messages, m.content # "torn",
             ReadBoard(c, m)
      PROVE  ListMatchesThreads'
  BY <1>7 DEF ReadBoard, RefuseBoard, GotoWith, Goto, connVars, listVars,
      CanReceive, At, StructInv, TypeOK, ConnTypeOK, ThreadTypeOK, ListTypeOK,
      ListMatchesThreads, ListedLabels, Labels
<1>8. ASSUME NEW c \in Clients, CheckWrite(c)
      PROVE  ListMatchesThreads'
  BY <1>8 DEF CheckWrite, Crash, AcceptBoard, RefuseBoard, GotoWith, Goto,
      connVars, listVars, threadVars, At, StructInv, TypeOK, ConnTypeOK,
      ThreadTypeOK, ListTypeOK, ListMatchesThreads, ListedLabels, Labels
<1>9. ASSUME NEW c \in Clients, TriggerArchiver(c)
      PROVE  ListMatchesThreads'
  BY <1>9 DEF TriggerArchiver, LockTrigger, Goto, connVars, listVars, At,
      StructInv, TypeOK, ConnTypeOK, ThreadTypeOK, ListTypeOK,
      ListMatchesThreads, ListedLabels, Labels
<1>10. ASSUME NEW c \in Clients, AwaitArchiver(c)
      PROVE  ListMatchesThreads'
  BY <1>10 DEF AwaitArchiver, LockTrigger, Goto, connVars, listVars, At,
      StructInv, TypeOK, ConnTypeOK, ThreadTypeOK, ListTypeOK,
      ListMatchesThreads, ListedLabels, Labels
<1>11. ASSUME NEW c \in Clients, EraseBoard(c)
      PROVE  ListMatchesThreads'
  BY <1>11 DEF EraseBoard, Goto, connVars, listVars, At, StructInv, TypeOK,
      ConnTypeOK, ThreadTypeOK, ListTypeOK, ListMatchesThreads, ListedLabels,
      Labels
<1>12. ASSUME NEW c \in Clients, ReceiveBoard(c)
      PROVE  ListMatchesThreads'
  BY <1>12 DEF ReceiveBoard, StoreBoard, Goto, listVars, At, StructInv,
      TypeOK, ConnTypeOK, ThreadTypeOK, ListTypeOK, ListMatchesThreads,
      ListedLabels, Labels
<1>13. ASSUME NEW c \in Clients, ReceiveShort(c)
      PROVE  ListMatchesThreads'
  BY <1>13 DEF ReceiveShort, StoreBoard, Goto, listVars, At, StructInv,
      TypeOK, ConnTypeOK, ThreadTypeOK, ListTypeOK, ListMatchesThreads,
      ListedLabels, Labels
<1>14. ASSUME NEW c \in Clients, ReceiveFails(c)
      PROVE  ListMatchesThreads'
  BY <1>14 DEF ReceiveFails, StoreBoard, AfterFailedRecv, GotoWith, Goto,
      listVars, At, StructInv, TypeOK, ConnTypeOK, ThreadTypeOK, ListTypeOK,
      ListMatchesThreads, ListedLabels, Labels
<1>15. ASSUME NEW c \in Clients, NEW write \in BOOLEAN, Request(c, write)
      PROVE  ListMatchesThreads'
  BY <1>15 DEF Request, NoAnswer, TakeBack, GiveBack, TakeFree, QueryDocent,
      SetWriteUser, Crash, SendTo, AfterSend, Goto, connVars, listVars,
      CanReceive, At, StructInv, TypeOK, ConnTypeOK, ThreadTypeOK, ListTypeOK,
      ListMatchesThreads, ListedLabels, Labels
<1>16. ASSUME NEW c \in Clients, NEW k \in queries[c], NEW write \in BOOLEAN,
              Reply(c, k, write)
      PROVE  ListMatchesThreads'
  BY <1>16 DEF Reply, Deny, Grant, SetWriteUser, Crash, SendTo, AfterSend,
      Goto, connVars, listVars, CanReceive, At, StructInv, TypeOK, ConnTypeOK,
      ThreadTypeOK, ListTypeOK, ListMatchesThreads, ListedLabels, Labels
<1>17. ASSUME NEW c \in Clients, Shutdown(c)
      PROVE  ListMatchesThreads'
  BY <1>17 DEF Shutdown, Goto, listVars, CanReceive, At, StructInv, TypeOK,
      ConnTypeOK, ThreadTypeOK, ListTypeOK, ListMatchesThreads, ListedLabels,
      Labels
<1>18. ASSUME NEW c \in Clients, UnknownMessage(c)
      PROVE  ListMatchesThreads'
  BY <1>18 DEF UnknownMessage, ThrowOut, Goto, connVars, listVars, CanReceive,
      At, StructInv, TypeOK, ConnTypeOK, ThreadTypeOK, ListTypeOK,
      ListMatchesThreads, ListedLabels, Labels
<1>19. ASSUME NEW c \in Clients, LockedTrigger(c)
      PROVE  ListMatchesThreads'
  BY <1>19 DEF LockedTrigger, Goto, connVars, At, StructInv, TypeOK,
      ConnTypeOK, ThreadTypeOK, ListTypeOK, ListMatchesThreads, ListedLabels,
      Labels
<1>20. ASSUME NEW c \in Clients, Trigger(c)
      PROVE  ListMatchesThreads'
  BY <1>20 DEF Trigger, GotoWith, Goto, connVars, listVars, At, StructInv,
      TypeOK, ConnTypeOK, ThreadTypeOK, ListTypeOK, ListMatchesThreads,
      ListedLabels, Labels
<1>21. ASSUME NEW c \in Clients, LeftOverText(c)
      PROVE  ListMatchesThreads'
  BY <1>21 DEF LeftOverText, ThrowOut, Goto, connVars, listVars, At,
      StructInv, TypeOK, ConnTypeOK, ThreadTypeOK, ListTypeOK,
      ListMatchesThreads, ListedLabels, Labels
<1>22. ASSUME NEW c \in Clients, Disconnected(c)
      PROVE  ListMatchesThreads'
  BY <1>22 DEF Disconnected, AfterFailedRecv, Goto, listVars, At, StructInv,
      TypeOK, ConnTypeOK, ThreadTypeOK, ListTypeOK, ListMatchesThreads,
      ListedLabels, Labels
<1>23. ASSUME NEW c \in Clients, LeaveList(c)
      PROVE  ListMatchesThreads'
  BY <1>23 DEF LeaveList, RemoveClient, Unlink, Crash, Goto, connVars,
      listVars, At, StructInv, TypeOK, ConnTypeOK, ThreadTypeOK, ListTypeOK,
      ListMatchesThreads, ListedLabels, Labels
<1>24. ASSUME NEW c \in Clients, LogoutTrigger(c)
      PROVE  ListMatchesThreads'
  BY <1>24 DEF LogoutTrigger, CloseSocket, GotoWith, Goto, listVars, At,
      StructInv, TypeOK, ConnTypeOK, ThreadTypeOK, ListTypeOK,
      ListMatchesThreads, ListedLabels, Labels
<1>25. ASSUME NEW c \in Clients, PeerStep(c)
      PROVE  ListMatchesThreads'
  BY <1>25 DEF PeerStep, PeerLeaves, ResetArrives, listVars, threadVars,
      StructInv, TypeOK, ConnTypeOK, ThreadTypeOK, ListTypeOK,
      ListMatchesThreads, ListedLabels, Labels
<1>26. ASSUME AgentNext, UNCHANGED threadVars
      PROVE  ListMatchesThreads'
  BY <1>26 DEF AgentNext, AgentFirstWait, AgentWakes, SpuriousWakeup,
      BroadcastStatus, CopyBoardToSend, BroadcastBlackboard, AgentStep,
      SendTo, AfterSend, connVars, listVars, threadVars, StructInv, TypeOK,
      ConnTypeOK, ThreadTypeOK, ListTypeOK, ListMatchesThreads, ListedLabels,
      Labels
<1>27. ASSUME ArchiverNext
      PROVE  ListMatchesThreads'
  BY <1>27 DEF ArchiverNext, connVars, listVars, threadVars, StructInv,
      TypeOK, ConnTypeOK, ThreadTypeOK, ListTypeOK, ListMatchesThreads,
      ListedLabels, Labels
<1>28. ASSUME Exit
      PROVE  ListMatchesThreads'
  BY <1>28 DEF Exit, listVars, threadVars, StructInv, TypeOK, ConnTypeOK,
      ThreadTypeOK, ListTypeOK, ListMatchesThreads, ListedLabels, Labels
<1>29. CASE UNCHANGED vars
  BY <1>29 DEF vars, connVars, listVars, boardVars, castVars, threadVars,
      StructInv, TypeOK, ConnTypeOK, ThreadTypeOK, ListTypeOK,
      ListMatchesThreads, ListedLabels, Labels
<1>. QED
  BY <1>1, <1>2, <1>3, <1>4, <1>5, <1>6, <1>7, <1>8, <1>9, <1>10, <1>11,
    <1>12, <1>13, <1>14, <1>15, <1>16, <1>17, <1>18, <1>19, <1>20, <1>21,
    <1>22, <1>23, <1>24, <1>25, <1>26, <1>27, <1>28, <1>29, BoardMessage,
    ClearMessage, BoardNotTorn
  DEF Next, ClientNext, Message, ThreadStep

\* The pointers into the list follow the logins, logouts and handovers.
LEMMA PointersValidStep ==
  ASSUME StructInv, [Next]_vars
  PROVE  PointersValid'
<1>1. ASSUME NEW c \in Clients, Accept(c)
      PROVE  PointersValid'
  BY <1>1 DEF Accept, listVars, At, StructInv, TypeOK, ThreadTypeOK,
      ListTypeOK, ListMatchesThreads, ListedLabels, Labels, PointersValid
<1>2. ASSUME NEW c \in Clients, LoginFails(c)
      PROVE  PointersValid'
  BY <1>2 DEF LoginFails, listVars, At, StructInv, TypeOK, ThreadTypeOK,
      ListTypeOK, ListMatchesThreads, ListedLabels, Labels, PointersValid
<1>3. ASSUME NEW c \in Clients, NEW wish \in LoginRoles, Login(c, wish)
      PROVE  PointersValid'
  BY <1>3 DEF Login, At, StructInv, TypeOK, ThreadTypeOK, ListTypeOK,
      ListMatchesThreads, ListedLabels, Labels, PointersValid
<1>4. ASSUME NEW c \in Clients, EnterList(c)
      PROVE  PointersValid'
  BY <1>4, NobodyAssumption DEF EnterList, AddClient, At, StructInv, TypeOK,
      ThreadTypeOK, ListTypeOK, ListMatchesThreads, ListedLabels, Labels,
      PointersValid
<1>5. ASSUME NEW c \in Clients, CopyInitialBoard(c)
      PROVE  PointersValid'
  BY <1>5 DEF CopyInitialBoard, listVars, At, StructInv, TypeOK, ThreadTypeOK,
      ListTypeOK, ListMatchesThreads, ListedLabels, Labels, PointersValid
<1>6. ASSUME NEW c \in Clients, SendInitialBoard(c)
      PROVE  PointersValid'
  BY <1>6 DEF SendInitialBoard, listVars, At, StructInv, TypeOK, ThreadTypeOK,
      ListTypeOK, ListMatchesThreads, ListedLabels, Labels, PointersValid
<1>7. ASSUME NEW c \in Clients, NEW m \in Messages, m.content # "torn",
             ReadBoard(c, m)
      PROVE  PointersValid'
  BY <1>7 DEF ReadBoard, listVars, CanReceive, At, StructInv, TypeOK,
      ThreadTypeOK, ListTypeOK, ListMatchesThreads, ListedLabels, Labels,
      PointersValid
<1>8. ASSUME NEW c \in Clients, CheckWrite(c)
      PROVE  PointersValid'
  BY <1>8 DEF CheckWrite, listVars, At, StructInv, TypeOK, ThreadTypeOK,
      ListTypeOK, ListMatchesThreads, ListedLabels, Labels, PointersValid
<1>9. ASSUME NEW c \in Clients, TriggerArchiver(c)
      PROVE  PointersValid'
  BY <1>9 DEF TriggerArchiver, LockTrigger, listVars, At, StructInv, TypeOK,
      ThreadTypeOK, ListTypeOK, ListMatchesThreads, ListedLabels, Labels,
      PointersValid
<1>10. ASSUME NEW c \in Clients, AwaitArchiver(c)
      PROVE  PointersValid'
  BY <1>10 DEF AwaitArchiver, LockTrigger, listVars, At, StructInv, TypeOK,
      ThreadTypeOK, ListTypeOK, ListMatchesThreads, ListedLabels, Labels,
      PointersValid
<1>11. ASSUME NEW c \in Clients, EraseBoard(c)
      PROVE  PointersValid'
  BY <1>11 DEF EraseBoard, listVars, At, StructInv, TypeOK, ThreadTypeOK,
      ListTypeOK, ListMatchesThreads, ListedLabels, Labels, PointersValid
<1>12. ASSUME NEW c \in Clients, ReceiveBoard(c)
      PROVE  PointersValid'
  BY <1>12 DEF ReceiveBoard, StoreBoard, listVars, At, StructInv, TypeOK,
      ThreadTypeOK, ListTypeOK, ListMatchesThreads, ListedLabels, Labels,
      PointersValid
<1>13. ASSUME NEW c \in Clients, ReceiveShort(c)
      PROVE  PointersValid'
  BY <1>13 DEF ReceiveShort, StoreBoard, listVars, At, StructInv, TypeOK,
      ThreadTypeOK, ListTypeOK, ListMatchesThreads, ListedLabels, Labels,
      PointersValid
<1>14. ASSUME NEW c \in Clients, ReceiveFails(c)
      PROVE  PointersValid'
  BY <1>14 DEF ReceiveFails, StoreBoard, listVars, At, StructInv, TypeOK,
      ThreadTypeOK, ListTypeOK, ListMatchesThreads, ListedLabels, Labels,
      PointersValid
<1>15. ASSUME NEW c \in Clients, NEW write \in BOOLEAN, Request(c, write)
      PROVE  PointersValid'
  <2>. DEFINE Kept == UNCHANGED <<members, role, user_docent, user_write>>
  <2>1. CASE NoAnswer(c) \/ QueryDocent(c)
    <3>1. Kept  BY <2>1 DEF NoAnswer, QueryDocent, listVars
    <3>. QED BY <3>1 DEF StructInv, PointersValid
  <2>2. CASE (TakeBack(c) /\ IsDocent(c)) \/ GiveBack(c)
    <3>1. /\ user_write' = user_docent
          /\ UNCHANGED <<members, role, user_docent>>
      BY <2>2 DEF TakeBack, GiveBack, SetWriteUser
    <3>. QED BY <3>1 DEF StructInv, PointersValid
  <2>3. CASE TakeFree(c)
    <3>1. user_write' = c /\ UNCHANGED <<members, role, user_docent>>
      BY <2>3 DEF TakeFree, SetWriteUser
    <3>2. c \in members
      BY <1>15 DEF Request, CanReceive, At, StructInv, ListMatchesThreads,
        ListedLabels, Labels
    <3>. QED BY <3>1, <3>2, NobodyAssumption DEF StructInv, PointersValid,
        TypeOK, ListTypeOK
  <2>. QED BY <1>15, <2>1, <2>2, <2>3 DEF Request
<1>16. ASSUME NEW c \in Clients, NEW k \in queries[c], NEW write \in BOOLEAN,
              Reply(c, k, write)
      PROVE  PointersValid'
  <2>1. CASE UNCHANGED listVars
    BY <2>1 DEF listVars, StructInv, PointersValid
  <2>2. CASE Grant(c, UserWithCid(k)) /\ UserWithCid(k) # Nobody
    <3>1. /\ user_write' = UserWithCid(k)
          /\ UNCHANGED <<members, role, user_docent>>
      BY <2>2 DEF Grant, SetWriteUser
    <3>2. UserWithCid(k) \in members  BY <2>2, UserType
    <3>. QED BY <2>2, <3>1, <3>2 DEF StructInv, PointersValid
  <2>. QED BY <1>16, <2>1, <2>2 DEF Reply, Deny, listVars
<1>17. ASSUME NEW c \in Clients, Shutdown(c)
      PROVE  PointersValid'
  BY <1>17 DEF Shutdown, listVars, CanReceive, At, StructInv, TypeOK,
      ThreadTypeOK, ListTypeOK, ListMatchesThreads, ListedLabels, Labels,
      PointersValid
<1>18. ASSUME NEW c \in Clients, UnknownMessage(c)
      PROVE  PointersValid'
  BY <1>18 DEF UnknownMessage, ThrowOut, listVars, CanReceive, At, StructInv,
      TypeOK, ThreadTypeOK, ListTypeOK, ListMatchesThreads, ListedLabels,
      Labels, PointersValid
<1>19. ASSUME NEW c \in Clients, LockedTrigger(c)
      PROVE  PointersValid'
  BY <1>19 DEF LockedTrigger, At, StructInv, TypeOK, ThreadTypeOK, ListTypeOK,
      ListMatchesThreads, ListedLabels, Labels, PointersValid
<1>20. ASSUME NEW c \in Clients, Trigger(c)
      PROVE  PointersValid'
  BY <1>20 DEF Trigger, listVars, At, StructInv, TypeOK, ThreadTypeOK,
      ListTypeOK, ListMatchesThreads, ListedLabels, Labels, PointersValid
<1>21. ASSUME NEW c \in Clients, LeftOverText(c)
      PROVE  PointersValid'
  BY <1>21 DEF LeftOverText, ThrowOut, listVars, At, StructInv, TypeOK,
      ThreadTypeOK, ListTypeOK, ListMatchesThreads, ListedLabels, Labels,
      PointersValid
<1>22. ASSUME NEW c \in Clients, Disconnected(c)
      PROVE  PointersValid'
  BY <1>22 DEF Disconnected, listVars, At, StructInv, TypeOK, ThreadTypeOK,
      ListTypeOK, ListMatchesThreads, ListedLabels, Labels, PointersValid
<1>23. ASSUME NEW c \in Clients, LeaveList(c)
      PROVE  PointersValid'
  BY <1>23 DEF LeaveList, RemoveClient, Unlink, PointersLeave, listVars, At,
      StructInv, TypeOK, ThreadTypeOK, ListTypeOK, ListMatchesThreads,
      ListedLabels, Labels, PointersValid
<1>24. ASSUME NEW c \in Clients, LogoutTrigger(c)
      PROVE  PointersValid'
  BY <1>24 DEF LogoutTrigger, listVars, At, StructInv, TypeOK, ThreadTypeOK,
      ListTypeOK, ListMatchesThreads, ListedLabels, Labels, PointersValid
<1>25. ASSUME NEW c \in Clients, PeerStep(c)
      PROVE  PointersValid'
  BY <1>25 DEF PeerStep, listVars, StructInv, TypeOK, ThreadTypeOK,
      ListTypeOK, ListMatchesThreads, ListedLabels, Labels, PointersValid
<1>26. ASSUME AgentNext, UNCHANGED threadVars
      PROVE  PointersValid'
  BY <1>26 DEF AgentNext, AgentFirstWait, AgentWakes, SpuriousWakeup,
      BroadcastStatus, CopyBoardToSend, BroadcastBlackboard, AgentStep,
      listVars, StructInv, TypeOK, ThreadTypeOK, ListTypeOK,
      ListMatchesThreads, ListedLabels, Labels, PointersValid
<1>27. ASSUME ArchiverNext
      PROVE  PointersValid'
  BY <1>27 DEF ArchiverNext, listVars, StructInv, TypeOK, ThreadTypeOK,
      ListTypeOK, ListMatchesThreads, ListedLabels, Labels, PointersValid
<1>28. ASSUME Exit
      PROVE  PointersValid'
  BY <1>28 DEF Exit, listVars, StructInv, TypeOK, ThreadTypeOK, ListTypeOK,
      ListMatchesThreads, ListedLabels, Labels, PointersValid
<1>29. CASE UNCHANGED vars
  BY <1>29 DEF vars, connVars, listVars, boardVars, castVars, threadVars,
      StructInv, TypeOK, ThreadTypeOK, ListTypeOK, ListMatchesThreads,
      ListedLabels, Labels, PointersValid
<1>. QED
  BY <1>1, <1>2, <1>3, <1>4, <1>5, <1>6, <1>7, <1>8, <1>9, <1>10, <1>11,
    <1>12, <1>13, <1>14, <1>15, <1>16, <1>17, <1>18, <1>19, <1>20, <1>21,
    <1>22, <1>23, <1>24, <1>25, <1>26, <1>27, <1>28, <1>29, BoardMessage,
    ClearMessage, BoardNotTorn
  DEF Next, ClientNext, Message, ThreadStep

\* A lock is taken and released with the step into and out of its section.
LEMMA LocksMatchSectionsStep ==
  ASSUME StructInv, [Next]_vars
  PROVE  LocksMatchSections'
<1>1. ASSUME NEW c \in Clients, Accept(c)
      PROVE  LocksMatchSections'
  BY <1>1 DEF Accept, Goto, boardVars, listVars, At, StructInv, TypeOK,
      ThreadTypeOK, LocksMatchSections
<1>2. ASSUME NEW c \in Clients, LoginFails(c)
      PROVE  LocksMatchSections'
  BY <1>2 DEF LoginFails, CloseSocket, GotoWith, Goto, boardVars, listVars,
      At, StructInv, TypeOK, ThreadTypeOK, LocksMatchSections
<1>3. ASSUME NEW c \in Clients, NEW wish \in LoginRoles, Login(c, wish)
      PROVE  LocksMatchSections'
  BY <1>3 DEF Login, CloseSocket, GotoWith, Goto, boardVars, At, StructInv,
      TypeOK, ThreadTypeOK, LocksMatchSections
<1>4. ASSUME NEW c \in Clients, EnterList(c)
      PROVE  LocksMatchSections'
  BY <1>4 DEF EnterList, AddClient, Goto, boardVars, At, StructInv, TypeOK,
      ThreadTypeOK, LocksMatchSections
<1>5. ASSUME NEW c \in Clients, CopyInitialBoard(c)
      PROVE  LocksMatchSections'
  BY <1>5 DEF CopyInitialBoard, GotoWith, Goto, listVars, boardVars, At,
      StructInv, TypeOK, ThreadTypeOK, LocksMatchSections
<1>6. ASSUME NEW c \in Clients, SendInitialBoard(c)
      PROVE  LocksMatchSections'
  BY <1>6 DEF SendInitialBoard, GotoWith, Goto, listVars, boardVars, At,
      StructInv, TypeOK, ThreadTypeOK, LocksMatchSections
<1>7. ASSUME NEW c \in Clients, NEW m \in Messages, m.content # "torn",
             ReadBoard(c, m)
      PROVE  LocksMatchSections'
  BY <1>7 DEF ReadBoard, RefuseBoard, GotoWith, Goto, listVars, boardVars,
      CanReceive, At, StructInv, TypeOK, ThreadTypeOK, LocksMatchSections
<1>8. ASSUME NEW c \in Clients, CheckWrite(c)
      PROVE  LocksMatchSections'
  BY <1>8 DEF CheckWrite, AcceptBoard, RefuseBoard, GotoWith, Goto, listVars,
      boardVars, threadVars, At, StructInv, TypeOK, ThreadTypeOK,
      LocksMatchSections
<1>9. ASSUME NEW c \in Clients, TriggerArchiver(c)
      PROVE  LocksMatchSections'
  BY <1>9 DEF TriggerArchiver, LockTrigger, Goto, listVars, At, StructInv,
      TypeOK, ThreadTypeOK, LocksMatchSections
<1>10. ASSUME NEW c \in Clients, AwaitArchiver(c)
      PROVE  LocksMatchSections'
  BY <1>10 DEF AwaitArchiver, LockTrigger, Goto, listVars, At, StructInv,
      TypeOK, ThreadTypeOK, LocksMatchSections
<1>11. ASSUME NEW c \in Clients, EraseBoard(c)
      PROVE  LocksMatchSections'
  BY <1>11, NobodyAssumption DEF EraseBoard, Goto, listVars, At, StructInv,
      TypeOK, ThreadTypeOK, LocksMatchSections
<1>12. ASSUME NEW c \in Clients, ReceiveBoard(c)
      PROVE  LocksMatchSections'
  BY <1>12, NobodyAssumption DEF ReceiveBoard, StoreBoard, Goto, At, listVars,
      NoTornCopy, StructInv, TypeOK, ThreadTypeOK, LocksMatchSections
<1>13. ASSUME NEW c \in Clients, ReceiveShort(c)
      PROVE  LocksMatchSections'
  BY <1>13, NobodyAssumption DEF ReceiveShort, StoreBoard, Goto, listVars, At,
      StructInv, TypeOK, ThreadTypeOK, LocksMatchSections
<1>14. ASSUME NEW c \in Clients, ReceiveFails(c)
      PROVE  LocksMatchSections'
  BY <1>14, NobodyAssumption DEF ReceiveFails, StoreBoard, GotoWith, Goto,
      listVars, At, StructInv, TypeOK, ThreadTypeOK, LocksMatchSections
<1>15. ASSUME NEW c \in Clients, NEW write \in BOOLEAN, Request(c, write)
      PROVE  LocksMatchSections'
  <2>1. UNCHANGED boardVars /\ cl_mutex = Nobody /\ pc[c] = "idle"
    BY <1>15 DEF Request, CanReceive, At
  <2>2. \E label \in Labels \ {"receive"} : Goto(c, label)
    BY <1>15 DEF Request, NoAnswer, TakeBack, GiveBack, TakeFree, QueryDocent,
      Labels
  <2>3. \A d \in Clients : bsem' = d <=> pc'[d] = "receive"
    BY <2>1, <2>2 DEF StructInv, LocksMatchSections, TypeOK, ThreadTypeOK,
      boardVars, Goto
  <2>4. \/ cl_mutex' = c /\ Goto(c, "locked_trigger")
        \/ /\ cl_mutex' = Nobody
           /\ \E l \in {"idle", "remove", "trigger"} : Goto(c, l)
    <3>1. CASE NoAnswer(c) \/ QueryDocent(c)
      BY <2>1, <3>1 DEF NoAnswer, QueryDocent, listVars
    <3>2. CASE TakeBack(c) \/ GiveBack(c)
      BY <3>2 DEF TakeBack, GiveBack, SetWriteUser
    <3>3. CASE TakeFree(c)
      BY <3>3 DEF TakeFree, SetWriteUser
    <3>. QED BY <1>15, <3>1, <3>2, <3>3 DEF Request
  <2>5. \A d \in Clients : pc[d] # "locked_trigger"
    BY <2>1, NobodyAssumption DEF StructInv, LocksMatchSections
  <2>6. \A d \in Clients : cl_mutex' = d <=> pc'[d] = "locked_trigger"
    BY <2>4, <2>5, NobodyAssumption DEF Goto, StructInv, TypeOK, ThreadTypeOK
  <2>. QED BY <2>1, <2>3, <2>6 DEF StructInv, LocksMatchSections, boardVars
<1>16. ASSUME NEW c \in Clients, NEW k \in queries[c], NEW write \in BOOLEAN,
              Reply(c, k, write)
      PROVE  LocksMatchSections'
  BY <1>16 DEF Reply, Deny, Grant, SetWriteUser, Goto, listVars, boardVars,
      CanReceive, At, StructInv, TypeOK, ThreadTypeOK, LocksMatchSections
<1>17. ASSUME NEW c \in Clients, Shutdown(c)
      PROVE  LocksMatchSections'
  BY <1>17 DEF Shutdown, Goto, listVars, boardVars, CanReceive, At, StructInv,
      TypeOK, ThreadTypeOK, LocksMatchSections
<1>18. ASSUME NEW c \in Clients, UnknownMessage(c)
      PROVE  LocksMatchSections'
  BY <1>18 DEF UnknownMessage, ThrowOut, Goto, listVars, boardVars,
      CanReceive, At, StructInv, TypeOK, ThreadTypeOK, LocksMatchSections
<1>19. ASSUME NEW c \in Clients, LockedTrigger(c)
      PROVE  LocksMatchSections'
  BY <1>19, NobodyAssumption DEF LockedTrigger, Goto, boardVars, At,
      StructInv, TypeOK, ThreadTypeOK, LocksMatchSections
<1>20. ASSUME NEW c \in Clients, Trigger(c)
      PROVE  LocksMatchSections'
  BY <1>20 DEF Trigger, GotoWith, Goto, listVars, boardVars, At, StructInv,
      TypeOK, ThreadTypeOK, LocksMatchSections
<1>21. ASSUME NEW c \in Clients, LeftOverText(c)
      PROVE  LocksMatchSections'
  BY <1>21 DEF LeftOverText, ThrowOut, Goto, listVars, boardVars, At,
      StructInv, TypeOK, ThreadTypeOK, LocksMatchSections
<1>22. ASSUME NEW c \in Clients, Disconnected(c)
      PROVE  LocksMatchSections'
  BY <1>22 DEF Disconnected, Goto, listVars, boardVars, At, StructInv, TypeOK,
      ThreadTypeOK, LocksMatchSections
<1>23. ASSUME NEW c \in Clients, LeaveList(c)
      PROVE  LocksMatchSections'
  BY <1>23, NobodyAssumption DEF LeaveList, RemoveClient, Unlink,
      PointersLeave, Goto, listVars, boardVars, At, StructInv, TypeOK,
      ThreadTypeOK, LocksMatchSections
<1>24. ASSUME NEW c \in Clients, LogoutTrigger(c)
      PROVE  LocksMatchSections'
  BY <1>24 DEF LogoutTrigger, CloseSocket, GotoWith, Goto, listVars,
      boardVars, At, StructInv, TypeOK, ThreadTypeOK, LocksMatchSections
<1>25. ASSUME NEW c \in Clients, PeerStep(c)
      PROVE  LocksMatchSections'
  BY <1>25 DEF PeerStep, listVars, boardVars, threadVars, StructInv, TypeOK,
      ThreadTypeOK, LocksMatchSections
<1>26. ASSUME AgentNext, UNCHANGED threadVars
      PROVE  LocksMatchSections'
  BY <1>26 DEF AgentNext, AgentFirstWait, AgentWakes, SpuriousWakeup,
      BroadcastStatus, CopyBoardToSend, BroadcastBlackboard, AgentStep,
      listVars, boardVars, threadVars, StructInv, TypeOK, ThreadTypeOK,
      LocksMatchSections
<1>27. ASSUME ArchiverNext
      PROVE  LocksMatchSections'
  BY <1>27 DEF ArchiverNext, ArchiverStep, ArchiverWakes, ArchiveBoard,
      ArchiverNotifies, ArchiverResets, ArchiverUnlocks, DebugArchive,
      ArchiverDies, listVars, threadVars, StructInv, TypeOK, ThreadTypeOK,
      LocksMatchSections
<1>28. ASSUME Exit
      PROVE  LocksMatchSections'
  BY <1>28 DEF Exit, listVars, boardVars, threadVars, StructInv, TypeOK,
      ThreadTypeOK, LocksMatchSections
<1>29. CASE UNCHANGED vars
  BY <1>29 DEF vars, connVars, listVars, boardVars, castVars, threadVars,
      StructInv, TypeOK, ThreadTypeOK, LocksMatchSections
<1>. QED
  BY <1>1, <1>2, <1>3, <1>4, <1>5, <1>6, <1>7, <1>8, <1>9, <1>10, <1>11,
    <1>12, <1>13, <1>14, <1>15, <1>16, <1>17, <1>18, <1>19, <1>20, <1>21,
    <1>22, <1>23, <1>24, <1>25, <1>26, <1>27, <1>28, <1>29, BoardMessage,
    ClearMessage, BoardNotTorn
  DEF Next, ClientNext, Message, ThreadStep

\* The board is copied under its semaphore only.
LEMMA NoTornCopyStep ==
  ASSUME StructInv, [Next]_vars
  PROVE  NoTornCopy'
<1>1. ASSUME NEW c \in Clients, Accept(c)
      PROVE  NoTornCopy'
  BY <1>1 DEF Accept, boardVars, castVars, StructInv, TypeOK, ThreadTypeOK,
      LocksMatchSections, NoTornCopy
<1>2. ASSUME NEW c \in Clients, LoginFails(c)
      PROVE  NoTornCopy'
  BY <1>2 DEF LoginFails, CloseSocket, GotoWith, NoMessage, boardVars,
      castVars, StructInv, TypeOK, ThreadTypeOK, LocksMatchSections,
      NoTornCopy
<1>3. ASSUME NEW c \in Clients, NEW wish \in LoginRoles, Login(c, wish)
      PROVE  NoTornCopy'
  BY <1>3 DEF Login, CloseSocket, GotoWith, NoMessage, boardVars, castVars,
      StructInv, TypeOK, ThreadTypeOK, LocksMatchSections, NoTornCopy
<1>4. ASSUME NEW c \in Clients, EnterList(c)
      PROVE  NoTornCopy'
  BY <1>4 DEF EnterList, boardVars, castVars, StructInv, TypeOK, ThreadTypeOK,
      LocksMatchSections, NoTornCopy
<1>5. ASSUME NEW c \in Clients, CopyInitialBoard(c)
      PROVE  NoTornCopy'
  BY <1>5 DEF CopyInitialBoard, GotoWith, boardVars, castVars, StructInv,
      TypeOK, ThreadTypeOK, LocksMatchSections, NoTornCopy
<1>6. ASSUME NEW c \in Clients, SendInitialBoard(c)
      PROVE  NoTornCopy'
  BY <1>6 DEF SendInitialBoard, GotoWith, NoMessage, boardVars, StructInv,
      TypeOK, ThreadTypeOK, LocksMatchSections, NoTornCopy
<1>7. ASSUME NEW c \in Clients, NEW m \in Messages, m.content # "torn",
             ReadBoard(c, m)
      PROVE  NoTornCopy'
  BY <1>7 DEF ReadBoard, RefuseBoard, GotoWith, NoMessage, boardVars,
      castVars, StructInv, TypeOK, ThreadTypeOK, LocksMatchSections,
      NoTornCopy
<1>8. ASSUME NEW c \in Clients, CheckWrite(c)
      PROVE  NoTornCopy'
  BY <1>8 DEF CheckWrite, AcceptBoard, RefuseBoard, GotoWith, NoMessage,
      boardVars, threadVars, StructInv, TypeOK, ThreadTypeOK,
      LocksMatchSections, NoTornCopy
<1>9. ASSUME NEW c \in Clients, TriggerArchiver(c)
      PROVE  NoTornCopy'
  BY <1>9 DEF TriggerArchiver, LockTrigger, castVars, StructInv, TypeOK,
      ThreadTypeOK, LocksMatchSections, NoTornCopy
<1>10. ASSUME NEW c \in Clients, AwaitArchiver(c)
      PROVE  NoTornCopy'
  BY <1>10 DEF AwaitArchiver, LockTrigger, castVars, StructInv, TypeOK,
      ThreadTypeOK, LocksMatchSections, NoTornCopy
<1>11. ASSUME NEW c \in Clients, EraseBoard(c)
      PROVE  NoTornCopy'
  BY <1>11 DEF EraseBoard, castVars, StructInv, TypeOK, ThreadTypeOK,
      LocksMatchSections, NoTornCopy
<1>12. ASSUME NEW c \in Clients, ReceiveBoard(c)
      PROVE  NoTornCopy'
  BY <1>12 DEF ReceiveBoard, StoreBoard, castVars, StructInv, TypeOK,
      ThreadTypeOK, LocksMatchSections, NoTornCopy
<1>13. ASSUME NEW c \in Clients, ReceiveShort(c)
      PROVE  NoTornCopy'
  BY <1>13 DEF ReceiveShort, StoreBoard, castVars, StructInv, TypeOK,
      ThreadTypeOK, LocksMatchSections, NoTornCopy
<1>14. ASSUME NEW c \in Clients, ReceiveFails(c)
      PROVE  NoTornCopy'
  BY <1>14 DEF ReceiveFails, StoreBoard, GotoWith, NoMessage, castVars,
      StructInv, TypeOK, ThreadTypeOK, LocksMatchSections, NoTornCopy
<1>15. ASSUME NEW c \in Clients, NEW write \in BOOLEAN, Request(c, write)
      PROVE  NoTornCopy'
  BY <1>15 DEF Request, NoAnswer, TakeBack, GiveBack, TakeFree, QueryDocent,
      boardVars, castVars, StructInv, TypeOK, ThreadTypeOK,
      LocksMatchSections, NoTornCopy
<1>16. ASSUME NEW c \in Clients, NEW k \in queries[c], NEW write \in BOOLEAN,
              Reply(c, k, write)
      PROVE  NoTornCopy'
  BY <1>16 DEF Reply, Deny, Grant, boardVars, castVars, StructInv, TypeOK,
      ThreadTypeOK, LocksMatchSections, NoTornCopy
<1>17. ASSUME NEW c \in Clients, Shutdown(c)
      PROVE  NoTornCopy'
  BY <1>17 DEF Shutdown, boardVars, castVars, StructInv, TypeOK, ThreadTypeOK,
      LocksMatchSections, NoTornCopy
<1>18. ASSUME NEW c \in Clients, UnknownMessage(c)
      PROVE  NoTornCopy'
  BY <1>18 DEF UnknownMessage, ThrowOut, boardVars, castVars, StructInv,
      TypeOK, ThreadTypeOK, LocksMatchSections, NoTornCopy
<1>19. ASSUME NEW c \in Clients, LockedTrigger(c)
      PROVE  NoTornCopy'
  BY <1>19 DEF LockedTrigger, boardVars, StructInv, TypeOK, ThreadTypeOK,
      LocksMatchSections, NoTornCopy
<1>20. ASSUME NEW c \in Clients, Trigger(c)
      PROVE  NoTornCopy'
  BY <1>20 DEF Trigger, GotoWith, NoMessage, boardVars, StructInv, TypeOK,
      ThreadTypeOK, LocksMatchSections, NoTornCopy
<1>21. ASSUME NEW c \in Clients, LeftOverText(c)
      PROVE  NoTornCopy'
  BY <1>21 DEF LeftOverText, ThrowOut, boardVars, castVars, StructInv, TypeOK,
      ThreadTypeOK, LocksMatchSections, NoTornCopy
<1>22. ASSUME NEW c \in Clients, Disconnected(c)
      PROVE  NoTornCopy'
  BY <1>22 DEF Disconnected, boardVars, castVars, StructInv, TypeOK,
      ThreadTypeOK, LocksMatchSections, NoTornCopy
<1>23. ASSUME NEW c \in Clients, LeaveList(c)
      PROVE  NoTornCopy'
  BY <1>23 DEF LeaveList, boardVars, castVars, StructInv, TypeOK,
      ThreadTypeOK, LocksMatchSections, NoTornCopy
<1>24. ASSUME NEW c \in Clients, LogoutTrigger(c)
      PROVE  NoTornCopy'
  BY <1>24 DEF LogoutTrigger, CloseSocket, GotoWith, NoMessage, boardVars,
      StructInv, TypeOK, ThreadTypeOK, LocksMatchSections, NoTornCopy
<1>25. ASSUME NEW c \in Clients, PeerStep(c)
      PROVE  NoTornCopy'
  BY <1>25 DEF PeerStep, boardVars, castVars, threadVars, StructInv, TypeOK,
      ThreadTypeOK, LocksMatchSections, NoTornCopy
<1>26. ASSUME AgentNext, UNCHANGED threadVars
      PROVE  NoTornCopy'
  BY <1>26 DEF AgentNext, AgentFirstWait, AgentWakes, SpuriousWakeup,
      BroadcastStatus, CopyBoardToSend, BroadcastBlackboard, AgentStep,
      boardVars, threadVars, StructInv, TypeOK, ThreadTypeOK,
      LocksMatchSections, NoTornCopy
<1>27. ASSUME ArchiverNext
      PROVE  NoTornCopy'
  BY <1>27 DEF ArchiverNext, ArchiverStep, ArchiverWakes, ArchiveBoard,
      ArchiverNotifies, ArchiverResets, ArchiverUnlocks, DebugArchive,
      ArchiverDies, castVars, threadVars, StructInv, TypeOK, ThreadTypeOK,
      LocksMatchSections, NoTornCopy
<1>28. ASSUME Exit
      PROVE  NoTornCopy'
  BY <1>28 DEF Exit, boardVars, castVars, threadVars, StructInv, TypeOK,
      ThreadTypeOK, LocksMatchSections, NoTornCopy
<1>29. CASE UNCHANGED vars
  BY <1>29 DEF vars, connVars, listVars, boardVars, castVars, threadVars,
      StructInv, TypeOK, ThreadTypeOK, LocksMatchSections, NoTornCopy
<1>. QED
  BY <1>1, <1>2, <1>3, <1>4, <1>5, <1>6, <1>7, <1>8, <1>9, <1>10, <1>11,
    <1>12, <1>13, <1>14, <1>15, <1>16, <1>17, <1>18, <1>19, <1>20, <1>21,
    <1>22, <1>23, <1>24, <1>25, <1>26, <1>27, <1>28, <1>29, BoardMessage,
    ClearMessage, BoardNotTorn
  DEF Next, ClientNext, Message, ThreadStep

-----------------------------------------------------------------------------
(***************************************************************************)
(* The invariants.                                                         *)
(***************************************************************************)

\* The server starts with an empty list, a whole board and free locks.
LEMMA StructInvInit == Init => StructInv
<1>. SUFFICES ASSUME Init PROVE StructInv  OBVIOUS
<1>1. ListMatchesThreads
  BY DEF Init, ConnInit, ListInit, ListMatchesThreads, ListedLabels
<1>2. PointersValid
  BY DEF Init, ListInit, PointersValid
<1>3. LocksMatchSections
  BY NobodyAssumption DEF Init, ListInit, BoardInit, LocksMatchSections
<1>4. NoTornCopy
  BY DEF Init, BoardInit, CastInit, NoMessage, NoTornCopy
<1>. QED BY TypeOKInit, <1>1, <1>2, <1>3, <1>4 DEF StructInv

\* Every step keeps the conjunction.
LEMMA StructInvStep == StructInv /\ [Next]_vars => StructInv'
BY TypeOKStep, ListMatchesThreadsStep, PointersValidStep,
   LocksMatchSectionsStep, NoTornCopyStep
DEF StructInv

\* The inductive invariant holds in every reachable state.
THEOREM StructureKept == Spec => []StructInv
BY StructInvInit, StructInvStep, PTL DEF Spec

\* remove_client finds the entry of its thread, whatever the interleaving of
\* logins, logouts and handlers.
THEOREM ListCorrect == Spec => []ListMatchesThreads
<1>1. StructInv => ListMatchesThreads  BY DEF StructInv
<1>. QED BY StructureKept, <1>1, PTL

\* user_docent and user_write never dangle.
THEOREM PointersCorrect == Spec => []PointersValid
<1>1. StructInv => PointersValid  BY DEF StructInv
<1>. QED BY StructureKept, <1>1, PTL

\* No handler leaks the list mutex or the board semaphore.
THEOREM LocksCorrect == Spec => []LocksMatchSections
<1>1. StructInv => LocksMatchSections  BY DEF StructInv
<1>. QED BY StructureKept, <1>1, PTL

\* No login, broadcast or archive gets a board that is being replaced.
THEOREM CopiesWhole == Spec => []NoTornCopy
<1>1. StructInv => NoTornCopy  BY DEF StructInv
<1>. QED BY StructureKept, <1>1, PTL

=============================================================================
