--------------------------- MODULE PromiseProofs ---------------------------
(***************************************************************************)
(* What the server promises to its clients, proved from StructInv: where a *)
(* NULL pointer may be dereferenced, and that the write access is a token. *)
(***************************************************************************)
EXTENDS StructureProofs

-----------------------------------------------------------------------------
(***************************************************************************)
(* NULL dereferences.                                                      *)
(***************************************************************************)

\* No send ends in a NULL dereference.
LEMMA SendKills ==
  ASSUME NEW S, SendTo(S)
  PROVE  server' \in {server, "killed"}
BY DEF SendTo

\* A step dereferences NULL only in the two known places: the docent's take-
\* back finds a writer, remove_client finds its entry.
LEMMA CrashStep ==
  ASSUME StructInv, [Next]_vars
  PROVE  KnownCrash
<1>1. ASSUME NEW c \in Clients, Accept(c)
      PROVE  KnownCrash
  BY <1>1 DEF Accept, At, KnownCrash
<1>2. ASSUME NEW c \in Clients, LoginFails(c)
      PROVE  KnownCrash
  BY <1>2 DEF LoginFails, CloseSocket, At, KnownCrash
<1>3. ASSUME NEW c \in Clients, NEW wish \in LoginRoles, Login(c, wish)
      PROVE  KnownCrash
  BY <1>3 DEF Login, CloseSocket, connVars, At, KnownCrash
<1>4. ASSUME NEW c \in Clients, EnterList(c)
      PROVE  KnownCrash
  BY <1>4 DEF EnterList, connVars, At, KnownCrash
<1>5. ASSUME NEW c \in Clients, CopyInitialBoard(c)
      PROVE  KnownCrash
  BY <1>5 DEF CopyInitialBoard, connVars, At, KnownCrash
<1>6. ASSUME NEW c \in Clients, SendInitialBoard(c)
      PROVE  KnownCrash
  BY <1>6, SendKills DEF SendInitialBoard, At, KnownCrash
<1>7. ASSUME NEW c \in Clients, NEW m \in Messages, m.content # "torn",
             ReadBoard(c, m)
      PROVE  KnownCrash
  BY <1>7 DEF ReadBoard, connVars, At, KnownCrash
<1>8. ASSUME NEW c \in Clients, CheckWrite(c)
      PROVE  KnownCrash
  BY <1>8 DEF CheckWrite, Crash, connVars, At, KnownCrash
<1>9. ASSUME NEW c \in Clients, TriggerArchiver(c)
      PROVE  KnownCrash
  BY <1>9 DEF TriggerArchiver, LockTrigger, connVars, At, KnownCrash
<1>10. ASSUME NEW c \in Clients, AwaitArchiver(c)
      PROVE  KnownCrash
  BY <1>10 DEF AwaitArchiver, LockTrigger, connVars, At, KnownCrash
<1>11. ASSUME NEW c \in Clients, EraseBoard(c)
      PROVE  KnownCrash
  BY <1>11 DEF EraseBoard, connVars, At, KnownCrash
<1>12. ASSUME NEW c \in Clients, ReceiveBoard(c)
      PROVE  KnownCrash
  BY <1>12 DEF ReceiveBoard, StoreBoard, At, KnownCrash
<1>13. ASSUME NEW c \in Clients, ReceiveShort(c)
      PROVE  KnownCrash
  BY <1>13 DEF ReceiveShort, StoreBoard, At, KnownCrash
<1>14. ASSUME NEW c \in Clients, ReceiveFails(c)
      PROVE  KnownCrash
  BY <1>14 DEF ReceiveFails, StoreBoard, At, KnownCrash
<1>15. ASSUME NEW c \in Clients, NEW write \in BOOLEAN, Request(c, write)
      PROVE  KnownCrash
  <2>1. CASE NoAnswer(c) \/ GiveBack(c) \/ TakeFree(c)
    BY <2>1 DEF NoAnswer, GiveBack, TakeFree, connVars, KnownCrash
  <2>2. CASE TakeBack(c) /\ IsDocent(c)
    <3>1. user_write # Nobody
      BY <2>2 DEF IsDocent, StructInv, PointersValid
    <3>. QED BY <2>2, <3>1, SendKills DEF TakeBack, KnownCrash
  <2>3. CASE QueryDocent(c)
    BY <2>3, SendKills DEF QueryDocent, KnownCrash
  <2>. QED BY <1>15, <2>1, <2>2, <2>3 DEF Request
<1>16. ASSUME NEW c \in Clients, NEW k \in queries[c], NEW write \in BOOLEAN,
              Reply(c, k, write)
      PROVE  KnownCrash
  <2>1. CASE Deny(c, UserWithCid(k)) /\ IsDocent(c)
    <3>1. CASE UserWithCid(k) = Nobody
      BY <1>16, <2>1, <3>1 DEF KnownCrash
    <3>2. CASE UserWithCid(k) # Nobody
      BY <2>1, <3>2, SendKills DEF Deny, KnownCrash
    <3>. QED BY <3>1, <3>2
  <2>2. CASE UNCHANGED connVars
    BY <2>2 DEF connVars, KnownCrash
  <2>. QED BY <1>16, <2>1, <2>2 DEF Reply, Grant
<1>17. ASSUME NEW c \in Clients, Shutdown(c)
      PROVE  KnownCrash
  BY <1>17 DEF Shutdown, At, KnownCrash
<1>18. ASSUME NEW c \in Clients, UnknownMessage(c)
      PROVE  KnownCrash
  BY <1>18 DEF UnknownMessage, ThrowOut, connVars, At, KnownCrash
<1>19. ASSUME NEW c \in Clients, LockedTrigger(c)
      PROVE  KnownCrash
  BY <1>19 DEF LockedTrigger, connVars, At, KnownCrash
<1>20. ASSUME NEW c \in Clients, Trigger(c)
      PROVE  KnownCrash
  BY <1>20 DEF Trigger, connVars, At, KnownCrash
<1>21. ASSUME NEW c \in Clients, LeftOverText(c)
      PROVE  KnownCrash
  BY <1>21 DEF LeftOverText, ThrowOut, connVars, At, KnownCrash
<1>22. ASSUME NEW c \in Clients, Disconnected(c)
      PROVE  KnownCrash
  BY <1>22 DEF Disconnected, At, KnownCrash
<1>23. ASSUME NEW c \in Clients, LeaveList(c)
      PROVE  KnownCrash
  BY <1>23 DEF LeaveList, At, StructInv, ListMatchesThreads, ListedLabels,
      Labels, connVars, KnownCrash
<1>24. ASSUME NEW c \in Clients, LogoutTrigger(c)
      PROVE  KnownCrash
  BY <1>24 DEF LogoutTrigger, CloseSocket, At, KnownCrash
<1>25. ASSUME NEW c \in Clients, PeerStep(c)
      PROVE  KnownCrash
  BY <1>25 DEF PeerStep, PeerLeaves, ResetArrives, KnownCrash
<1>26. ASSUME AgentNext, UNCHANGED threadVars
      PROVE  KnownCrash
  BY <1>26, SendKills DEF AgentNext, AgentFirstWait, AgentWakes,
      SpuriousWakeup, BroadcastStatus, CopyBoardToSend, BroadcastBlackboard,
      connVars, KnownCrash
<1>27. ASSUME ArchiverNext
      PROVE  KnownCrash
  BY <1>27 DEF ArchiverNext, connVars, KnownCrash
<1>28. ASSUME Exit
      PROVE  KnownCrash
  BY <1>28 DEF Exit, KnownCrash
<1>29. CASE UNCHANGED vars
  BY <1>29 DEF vars, connVars, listVars, boardVars, castVars, threadVars,
      KnownCrash
<1>. QED
  BY <1>1, <1>2, <1>3, <1>4, <1>5, <1>6, <1>7, <1>8, <1>9, <1>10, <1>11,
    <1>12, <1>13, <1>14, <1>15, <1>16, <1>17, <1>18, <1>19, <1>20, <1>21,
    <1>22, <1>23, <1>24, <1>25, <1>26, <1>27, <1>28, <1>29, BoardMessage,
    ClearMessage, BoardNotTorn
  DEF Next, ClientNext, Message, ThreadStep

\* The server dereferences NULL for a denied user that is gone and between the
\* two reads of has_write_access, and nowhere else.
THEOREM CrashesKnown == Spec => OnlyKnownCrashes
<1>1. StructInv /\ [Next]_vars => [KnownCrash]_vars
  BY CrashStep
<1>. QED BY StructureKept, <1>1, PTL DEF Spec, OnlyKnownCrashes

-----------------------------------------------------------------------------
(***************************************************************************)
(* The write access is the token of WriteToken.                            *)
(***************************************************************************)

\* A step that leaves the list and both pointers alone is a stutter.
LEMMA TokenStutters ==
  ASSUME UNCHANGED <<members, user_docent, user_write>>
  PROVE  UNCHANGED Token!tokenVars
BY DEF Token!tokenVars

\* add_client: a docent takes the token over, a student joins without it.
LEMMA EnterListJoins ==
  ASSUME StructInv, NEW c \in Clients, EnterList(c)
  PROVE  Token!TokenNext
<1>1. c \notin members
  BY DEF EnterList, At, StructInv, ListMatchesThreads, ListedLabels
<1>2. CASE role[c] = "DOCENT"
  <2>1. Token!JoinAsDocent(c)
    BY <1>1, <1>2 DEF EnterList, AddClient, Token!JoinAsDocent
  <2>. QED BY <2>1 DEF Token!TokenNext
<1>3. CASE role[c] # "DOCENT"
  <2>1. Token!Join(c)
    BY <1>1, <1>3 DEF EnterList, AddClient, Token!Join
  <2>. QED BY <2>1 DEF Token!TokenNext
<1>. QED BY <1>2, <1>3

\* remove_client hands the token of a leaving writer to the docent.
LEMMA LeaveListLeaves ==
  ASSUME StructInv, NEW c \in Clients, LeaveList(c)
  PROVE  Token!TokenNext
<1>1. c \in members
  BY DEF LeaveList, At, StructInv, ListMatchesThreads, ListedLabels, Labels
<1>2. Token!Leave(c)
  BY <1>1 DEF LeaveList, RemoveClient, Unlink, PointersLeave, Token!Leave
<1>. QED BY <1>2 DEF Token!TokenNext

\* request_handler: the docent assigns the token to itself, a writer drops it
\* or returns it to the docent, and a free token is taken.
LEMMA RequestMoves ==
  ASSUME StructInv, NEW c \in Clients, NEW write \in BOOLEAN,
         Request(c, write)
  PROVE  [Token!TokenNext]_Token!tokenVars
<1>1. c \in members
  BY DEF Request, CanReceive, At, StructInv, ListMatchesThreads, ListedLabels,
    Labels
<1>2. CASE NoAnswer(c) \/ QueryDocent(c)
  BY <1>2, TokenStutters DEF NoAnswer, QueryDocent, listVars
<1>3. CASE TakeBack(c) \/ GiveBack(c)
  <2>1. /\ user_write' = user_docent
        /\ UNCHANGED <<members, user_docent>>
    BY <1>3 DEF TakeBack, GiveBack, SetWriteUser
  <2>2. CASE user_docent = Nobody
    <3>1. Token!Drop  BY <2>1, <2>2 DEF Token!Drop
    <3>. QED BY <3>1 DEF Token!TokenNext
  <2>3. CASE user_docent # Nobody
    <3>1. user_docent \in members /\ user_docent \in Clients
      BY <2>3 DEF StructInv, PointersValid, TypeOK, ListTypeOK
    <3>2. Token!Assign(user_docent)
      BY <2>1, <2>3, <3>1 DEF Token!Assign
    <3>. QED BY <3>1, <3>2 DEF Token!TokenNext
  <2>. QED BY <2>2, <2>3
<1>4. CASE TakeFree(c) /\ ~DocentExists /\ ~TutorExists
  <2>1. user_docent = Nobody /\ user_write = Nobody
    BY <1>4 DEF DocentExists, TutorExists
  <2>2. Token!Take(c)
    BY <1>1, <1>4, <2>1 DEF TakeFree, SetWriteUser, Token!Take
  <2>. QED BY <2>2 DEF Token!TokenNext
<1>. QED BY <1>2, <1>3, <1>4 DEF Request

\* reply_handler: only the docent assigns the token, to a listed client.
LEMMA ReplyAssigns ==
  ASSUME StructInv, NEW c \in Clients, NEW k \in queries[c],
         NEW write \in BOOLEAN, Reply(c, k, write)
  PROVE  [Token!TokenNext]_Token!tokenVars
<1>1. CASE UNCHANGED listVars
  BY <1>1, TokenStutters DEF listVars
<1>2. CASE /\ IsDocent(c)
           /\ UserWithCid(k) # Nobody
           /\ Grant(c, UserWithCid(k))
  <2>1. UserWithCid(k) \in members /\ UserWithCid(k) \in Clients
    BY <1>2, UserType DEF StructInv, TypeOK, ListTypeOK
  <2>2. Token!Assign(UserWithCid(k))
    BY <1>2, <2>1 DEF IsDocent, Grant, SetWriteUser, Token!Assign
  <2>. QED BY <2>1, <2>2 DEF Token!TokenNext
<1>. QED BY <1>1, <1>2 DEF Reply, Deny

\* Every step of the server is a step of the token or leaves it alone.
LEMMA TokenStep ==
  ASSUME StructInv, [Next]_vars
  PROVE  [Token!TokenNext]_Token!tokenVars
<1>1. ASSUME NEW c \in Clients, Accept(c)
      PROVE  [Token!TokenNext]_Token!tokenVars
  BY <1>1, TokenStutters DEF Accept, listVars
<1>2. ASSUME NEW c \in Clients, LoginFails(c)
      PROVE  [Token!TokenNext]_Token!tokenVars
  BY <1>2, TokenStutters DEF LoginFails, listVars
<1>3. ASSUME NEW c \in Clients, NEW wish \in LoginRoles, Login(c, wish)
      PROVE  [Token!TokenNext]_Token!tokenVars
  BY <1>3, TokenStutters DEF Login
<1>4. ASSUME NEW c \in Clients, EnterList(c)
      PROVE  [Token!TokenNext]_Token!tokenVars
  BY <1>4, EnterListJoins
<1>5. ASSUME NEW c \in Clients, CopyInitialBoard(c)
      PROVE  [Token!TokenNext]_Token!tokenVars
  BY <1>5, TokenStutters DEF CopyInitialBoard, listVars
<1>6. ASSUME NEW c \in Clients, SendInitialBoard(c)
      PROVE  [Token!TokenNext]_Token!tokenVars
  BY <1>6, TokenStutters DEF SendInitialBoard, listVars
<1>7. ASSUME NEW c \in Clients, NEW m \in Messages, m.content # "torn",
             ReadBoard(c, m)
      PROVE  [Token!TokenNext]_Token!tokenVars
  BY <1>7, TokenStutters DEF ReadBoard, listVars
<1>8. ASSUME NEW c \in Clients, CheckWrite(c)
      PROVE  [Token!TokenNext]_Token!tokenVars
  BY <1>8, TokenStutters DEF CheckWrite, listVars
<1>9. ASSUME NEW c \in Clients, TriggerArchiver(c)
      PROVE  [Token!TokenNext]_Token!tokenVars
  BY <1>9, TokenStutters DEF TriggerArchiver, LockTrigger, listVars
<1>10. ASSUME NEW c \in Clients, AwaitArchiver(c)
      PROVE  [Token!TokenNext]_Token!tokenVars
  BY <1>10, TokenStutters DEF AwaitArchiver, LockTrigger, listVars
<1>11. ASSUME NEW c \in Clients, EraseBoard(c)
      PROVE  [Token!TokenNext]_Token!tokenVars
  BY <1>11, TokenStutters DEF EraseBoard, listVars
<1>12. ASSUME NEW c \in Clients, ReceiveBoard(c)
      PROVE  [Token!TokenNext]_Token!tokenVars
  BY <1>12, TokenStutters DEF ReceiveBoard, StoreBoard, listVars
<1>13. ASSUME NEW c \in Clients, ReceiveShort(c)
      PROVE  [Token!TokenNext]_Token!tokenVars
  BY <1>13, TokenStutters DEF ReceiveShort, StoreBoard, listVars
<1>14. ASSUME NEW c \in Clients, ReceiveFails(c)
      PROVE  [Token!TokenNext]_Token!tokenVars
  BY <1>14, TokenStutters DEF ReceiveFails, StoreBoard, listVars
<1>15. ASSUME NEW c \in Clients, NEW write \in BOOLEAN, Request(c, write)
      PROVE  [Token!TokenNext]_Token!tokenVars
  BY <1>15, RequestMoves
<1>16. ASSUME NEW c \in Clients, NEW k \in queries[c], NEW write \in BOOLEAN,
              Reply(c, k, write)
      PROVE  [Token!TokenNext]_Token!tokenVars
  BY <1>16, ReplyAssigns
<1>17. ASSUME NEW c \in Clients, Shutdown(c)
      PROVE  [Token!TokenNext]_Token!tokenVars
  BY <1>17, TokenStutters DEF Shutdown, listVars
<1>18. ASSUME NEW c \in Clients, UnknownMessage(c)
      PROVE  [Token!TokenNext]_Token!tokenVars
  BY <1>18, TokenStutters DEF UnknownMessage, ThrowOut, listVars
<1>19. ASSUME NEW c \in Clients, LockedTrigger(c)
      PROVE  [Token!TokenNext]_Token!tokenVars
  BY <1>19, TokenStutters DEF LockedTrigger
<1>20. ASSUME NEW c \in Clients, Trigger(c)
      PROVE  [Token!TokenNext]_Token!tokenVars
  BY <1>20, TokenStutters DEF Trigger, listVars
<1>21. ASSUME NEW c \in Clients, LeftOverText(c)
      PROVE  [Token!TokenNext]_Token!tokenVars
  BY <1>21, TokenStutters DEF LeftOverText, ThrowOut, listVars
<1>22. ASSUME NEW c \in Clients, Disconnected(c)
      PROVE  [Token!TokenNext]_Token!tokenVars
  BY <1>22, TokenStutters DEF Disconnected, listVars
<1>23. ASSUME NEW c \in Clients, LeaveList(c)
      PROVE  [Token!TokenNext]_Token!tokenVars
  BY <1>23, LeaveListLeaves
<1>24. ASSUME NEW c \in Clients, LogoutTrigger(c)
      PROVE  [Token!TokenNext]_Token!tokenVars
  BY <1>24, TokenStutters DEF LogoutTrigger, listVars
<1>25. ASSUME NEW c \in Clients, PeerStep(c)
      PROVE  [Token!TokenNext]_Token!tokenVars
  BY <1>25, TokenStutters DEF PeerStep, listVars
<1>26. ASSUME AgentNext, UNCHANGED threadVars
      PROVE  [Token!TokenNext]_Token!tokenVars
  BY <1>26, TokenStutters DEF AgentNext, AgentFirstWait, AgentWakes,
      SpuriousWakeup, BroadcastStatus, CopyBoardToSend, BroadcastBlackboard,
      AgentStep, listVars
<1>27. ASSUME ArchiverNext
      PROVE  [Token!TokenNext]_Token!tokenVars
  BY <1>27, TokenStutters DEF ArchiverNext, listVars
<1>28. ASSUME Exit
      PROVE  [Token!TokenNext]_Token!tokenVars
  BY <1>28, TokenStutters DEF Exit, listVars
<1>29. CASE UNCHANGED vars
  BY <1>29, TokenStutters DEF vars, listVars
<1>. QED
  BY <1>1, <1>2, <1>3, <1>4, <1>5, <1>6, <1>7, <1>8, <1>9, <1>10, <1>11,
    <1>12, <1>13, <1>14, <1>15, <1>16, <1>17, <1>18, <1>19, <1>20, <1>21,
    <1>22, <1>23, <1>24, <1>25, <1>26, <1>27, <1>28, <1>29, BoardMessage,
    ClearMessage, BoardNotTorn
  DEF Next, ClientNext, Message, ThreadStep

\* The server implements the write token of WriteToken.
THEOREM WriteTokenImplemented == Spec => WriteTokenKept
<1>1. Init => Token!TokenInit
  BY DEF Init, ListInit, Token!TokenInit
<1>2. StructInv /\ [Next]_vars => [Token!TokenNext]_Token!tokenVars
  BY TokenStep
<1>. QED
  BY StructureKept, <1>1, <1>2, PTL DEF Spec, WriteTokenKept, Token!TokenSpec

=============================================================================
