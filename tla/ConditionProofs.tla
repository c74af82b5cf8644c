-------------------------- MODULE ConditionProofs --------------------------
(***************************************************************************)
(* Under which condition the server keeps the promises it breaks in        *)
(* general: it dereferences no NULL pointer while nobody leaves, a clear   *)
(* loses nothing while nobody else writes, and no threads wait for each    *)
(* other while the list's mutex is not kept over a handover.  The          *)
(* conditions are properties of the steps, so the theorems say which step  *)
(* of another thread each of the three failures needs.                     *)
(***************************************************************************)
EXTENDS BalanceProofs, PromiseProofs

-----------------------------------------------------------------------------
(***************************************************************************)
(* NULL dereferences.                                                      *)
(***************************************************************************)

\* No client is removed from the list.
NobodyLeaves == members \subseteq members'

\* Each unanswered query is about a client that is still listed.
QueriesAnswerable ==
  \A c \in Clients : \A k \in queries[c] : \E u \in members : cid[u] = k

\* An entry keeps its id as long as it is in the list.
LEMMA EntriesKeepIds ==
  ASSUME StructInv, [Next]_vars, NEW u \in members, u \in members'
  PROVE  cid'[u] = cid[u]
<1>1. u \in Clients /\ pc[u] \in ListedLabels /\ cid \in [Clients -> 0..MaxCid]
  BY DEF StructInv, TypeOK, ListTypeOK, ListMatchesThreads
<1>2. ASSUME NEW c \in Clients, NEW wish \in LoginRoles, Login(c, wish)
      PROVE  cid'[u] = cid[u]
  BY <1>1, <1>2 DEF Login, At, ListedLabels
<1>3. ASSUME NEW c \in Clients, EnterList(c)
      PROVE  cid'[u] = cid[u]
  BY <1>3 DEF EnterList, AddClient
<1>4. ASSUME NEW c \in Clients, LeaveList(c)
      PROVE  cid'[u] = cid[u]
  BY <1>1, <1>4 DEF LeaveList, RemoveClient, Unlink, listVars
<1>. QED BY <1>2, <1>3, <1>4, ListSteps DEF IdsStay

\* While nobody leaves, queries stay answerable.
LEMMA AnswerableStep ==
  ASSUME StructInv, QueriesAnswerable, NobodyLeaves, [Next]_vars
  PROVE  QueriesAnswerable'
<1>1. \A u \in members : u \in members' /\ cid'[u] = cid[u]
  BY EntriesKeepIds DEF NobodyLeaves
<1>2. CASE \A c \in Clients : queries'[c] \subseteq queries[c]
  BY <1>1, <1>2 DEF QueriesAnswerable
<1>3. ASSUME NEW u \in members,
             \A c \in Clients : queries'[c] \subseteq queries[c] \cup {cid[u]}
      PROVE  QueriesAnswerable'
  BY <1>1, <1>3 DEF QueriesAnswerable
<1>. QED BY <1>2, <1>3, QueriesMoves DEF QueriesMove

\* A listed id is found.
LEMMA UserFound ==
  ASSUME StructInv, NEW k, \E u \in members : cid[u] = k
  PROVE  UserWithCid(k) # Nobody
BY NobodyAssumption DEF UserWithCid, StructInv, TypeOK, ListTypeOK

\* The server crashes in this step, though there is a docent.
CrashesBesideDocent == server' = "crashed" /\ server # "crashed" /\ DocentExists

(***************************************************************************)
(* As long as no client leaves the list, the server dereferences no NULL   *)
(* pointer while there is a docent: a denied user is still listed, and     *)
(* user_write is not NULL between the two reads of has_write_access        *)
(* (message_handler.c reply_handler, client_list.c:236).  So each crash    *)
(* needs a client that leaves, or a session without a docent in which a    *)
(* writer gives the access back during another one's test.                 *)
(***************************************************************************)
THEOREM CrashNeedsLeaver ==
  Spec /\ [][NobodyLeaves]_vars => [][~CrashesBesideDocent]_vars
<1>1. Init => QueriesAnswerable
  BY DEF Init, QueriesAnswerable
<1>2. /\ StructInv /\ QueriesAnswerable
      /\ [Next]_vars /\ [NobodyLeaves]_vars
      => QueriesAnswerable'
  <2>. SUFFICES ASSUME StructInv, QueriesAnswerable, [Next]_vars, [NobodyLeaves]_vars
                PROVE  QueriesAnswerable'
    OBVIOUS
  <2>1. CASE NobodyLeaves
    BY <2>1, AnswerableStep
  <2>2. CASE UNCHANGED vars
    BY <2>2 DEF vars, listVars, threadVars, QueriesAnswerable
  <2>. QED BY <2>1, <2>2
<1>3. /\ StructInv /\ QueriesAnswerable /\ [Next]_vars => [~CrashesBesideDocent]_vars
  <2>. SUFFICES ASSUME StructInv, QueriesAnswerable, [Next]_vars, CrashesBesideDocent
                PROVE  FALSE
    OBVIOUS
  <2>1. user_write # Nobody
    BY DEF CrashesBesideDocent, DocentExists, StructInv, PointersValid
  <2>2. KnownCrash
    BY CrashStep
  <2>3. PICK c \in Clients : \E k \in queries[c] : UserWithCid(k) = Nobody
    BY <2>1, <2>2 DEF KnownCrash, CrashesBesideDocent
  <2>. QED BY <2>3, UserFound DEF QueriesAnswerable
<1>. QED BY <1>1, <1>2, <1>3, StructureKept, PTL DEF Spec

-----------------------------------------------------------------------------
(***************************************************************************)
(* Clearing the board.                                                     *)
(***************************************************************************)

\* The clear of c is about to lock the board.
Erases(c) == pc[c] = "board_lock" /\ msg[c].type = "clear"

\* Somebody clears the board.
ClearUnderWay ==
  \E c \in Clients : pc[c] \in {"clear_trigger", "clear_wait"} \/ Erases(c)

\* While somebody clears the board nobody stores a text in it.
ClearsAlone == ClearUnderWay => board' \in {board, "empty"}

BoardSaved == board \in {archived, "empty"}

(***************************************************************************)
(* A clear that has its archive, or whose archive is written and not yet   *)
(* announced, finds the board in the archive file.                         *)
(***************************************************************************)
ClearsSaved ==
  /\ Clearing # {} /\ (asem > 0 \/ archiver \in {"notify", "reset"}) => BoardSaved
  /\ \A c \in Clients : Erases(c) => BoardSaved

\* Without a waiting clear the semaphore is at most one.
OneWithoutClear == Clearing = {} => asem \in {0, 1}

\* A thread comes to the erasing of a clear only from its wait.
LEMMA ErasesFromWait ==
  ASSUME StructInv, [Next]_vars, NEW c \in Clients, Erases(c)'
  PROVE  Erases(c) \/ AwaitArchiver(c)
<1>0. pc \in [Clients -> Labels] /\ msg \in [Clients -> Messages]
  BY DEF StructInv, TypeOK, ThreadTypeOK
<1>2. ASSUME NEW d \in Clients, PeerStep(d)
      PROVE  Erases(c)
  BY <1>2 DEF PeerStep, threadVars, Erases
<1>3. ASSUME \/ AgentNext /\ UNCHANGED threadVars
             \/ ArchiverNext \/ Exit \/ UNCHANGED vars
      PROVE  Erases(c)
  BY <1>3 DEF ArchiverNext, Exit, vars, threadVars, Erases
<1>4. ASSUME NEW d \in Clients,
             \/ Accept(d) \/ LoginFails(d)
             \/ \E wish \in LoginRoles : Login(d, wish)
      PROVE  Erases(c)
  BY <1>0, <1>4 DEF Accept, LoginFails, Login, CloseSocket, GotoWith, Goto, At, Erases
<1>5. ASSUME NEW d \in Clients, Message(d)
      PROVE  Erases(c)
  <2>1. pc[d] # "board_lock"
    BY <1>5 DEF Message, ReadBoard, Request, Reply, Shutdown, UnknownMessage, CanReceive, At
  <2>2. \E label : label # "board_lock" /\ (pc' = pc \/ Goto(d, label))
    BY <1>5 DEF Message, ReadBoard, RefuseBoard, GotoWith, Request, Reply, Shutdown,
      UnknownMessage, ThrowOut, NoAnswer, TakeBack, GiveBack, TakeFree, QueryDocent, Deny,
      Grant
  <2>3. msg' = msg \/ \E m : msg' = [msg EXCEPT ![d] = m]
    BY <1>5 DEF Message, ReadBoard, RefuseBoard, GotoWith, Request, Reply, Shutdown,
      UnknownMessage, ThrowOut, NoAnswer, TakeBack, GiveBack, TakeFree, QueryDocent
  <2>. QED BY <1>0, <2>1, <2>2, <2>3 DEF Erases, Goto
<1>6. ASSUME NEW d \in Clients, CheckWrite(d)
      PROVE  Erases(c)
  BY <1>0, <1>6 DEF CheckWrite, AcceptBoard, RefuseBoard, GotoWith, Goto, At, Erases,
    threadVars
<1>7. ASSUME NEW d \in Clients, AwaitArchiver(d)
      PROVE  Erases(c) \/ AwaitArchiver(c)
  BY <1>0, <1>7 DEF AwaitArchiver, LockTrigger, Goto, Erases
<1>8. ASSUME NEW d \in Clients, ThreadStep(d), ~CheckWrite(d), ~AwaitArchiver(d)
      PROVE  Erases(c)
  <2>1. \E label : label # "board_lock" /\ Goto(d, label)
    BY <1>8 DEF ThreadStep, EnterList, CopyInitialBoard, SendInitialBoard, TriggerArchiver,
      LockTrigger, EraseBoard, ReceiveBoard, ReceiveShort, ReceiveFails, GotoWith,
      LockedTrigger, Trigger, LeftOverText, ThrowOut, Disconnected, LeaveList, LogoutTrigger,
      CloseSocket
  <2>2. msg' = msg \/ \E m : msg' = [msg EXCEPT ![d] = m]
    BY <1>8 DEF ThreadStep, EnterList, CopyInitialBoard, SendInitialBoard, TriggerArchiver,
      LockTrigger, EraseBoard, ReceiveBoard, ReceiveShort, ReceiveFails, GotoWith,
      LockedTrigger, Trigger, LeftOverText, ThrowOut, Disconnected, LeaveList, LogoutTrigger,
      CloseSocket
  <2>. QED BY <1>0, <2>1, <2>2 DEF Erases, Goto
<1>. QED
  BY <1>2, <1>3, <1>4, <1>5, <1>6, <1>7, <1>8 DEF Next, ClientNext

\* A step of a client or the agent leaves the archive file alone.
LEMMA ArchiverArchives ==
  ASSUME [Next]_vars, ~ArchiverNext
  PROVE  archived' = archived
<1>1. ASSUME NEW c \in Clients, ThreadStep(c)
      PROVE  archived' = archived
  BY <1>1 DEF ThreadStep, EnterList, CopyInitialBoard, SendInitialBoard, CheckWrite,
    TriggerArchiver, AwaitArchiver, LockTrigger, EraseBoard, ReceiveBoard, ReceiveShort,
    ReceiveFails, StoreBoard, LockedTrigger, Trigger, LeftOverText, ThrowOut, Disconnected,
    LeaveList, LogoutTrigger, boardVars
<1>2. ASSUME NEW c \in Clients, Message(c)
      PROVE  archived' = archived
  BY <1>2 DEF Message, ReadBoard, Request, Reply, Shutdown, UnknownMessage, ThrowOut, boardVars
<1>3. ASSUME NEW c \in Clients,
             \/ Accept(c) \/ LoginFails(c) \/ PeerStep(c)
             \/ \E wish \in LoginRoles : Login(c, wish)
      PROVE  archived' = archived
  BY <1>3 DEF Accept, LoginFails, Login, PeerStep, boardVars
<1>4. ASSUME AgentNext \/ Exit \/ UNCHANGED vars
      PROVE  archived' = archived
  BY <1>4 DEF AgentNext, AgentFirstWait, AgentWakes, SpuriousWakeup, BroadcastStatus,
    CopyBoardToSend, BroadcastBlackboard, AgentStep, Exit, vars, boardVars
<1>. QED BY <1>1, <1>2, <1>3, <1>4 DEF Next, ClientNext

\* The two locks of a clear: when the first one takes the semaphore while the
\* archiver is not waiting for it, another clear has brought it there.
LEMMA LocksSave ==
  ASSUME StructInv, ParityInv, OneWithoutClear, ClearsSaved, [Next]_vars,
         NEW c \in Clients, TriggerArchiver(c) \/ AwaitArchiver(c)
  PROVE  OneWithoutClear' /\ ClearsSaved'
<1>1. /\ asem \in 1..2 /\ asem' = asem - 1
      /\ UNCHANGED <<archiver, board, archived>>
  BY DEF TriggerArchiver, AwaitArchiver, LockTrigger, ParityInv
<1>2. OneWithoutClear'
  BY <1>1 DEF OneWithoutClear
<1>3. BoardSaved' <=> BoardSaved
  BY <1>1 DEF BoardSaved
<1>4. CASE TriggerArchiver(c)
  <2>1. \A d \in Clients : Erases(d)' => Erases(d)
    <3>. SUFFICES ASSUME NEW d \in Clients, Erases(d)', AwaitArchiver(d)
                  PROVE  FALSE
      BY ErasesFromWait
    <3>. QED BY <1>4 DEF TriggerArchiver, AwaitArchiver, LockTrigger, At, Goto, StructInv,
           TypeOK, ThreadTypeOK
  <2>2. ASSUME asem' > 0 \/ archiver' \in {"notify", "reset"}
        PROVE  BoardSaved
    <3>1. CASE Clearing # {}
      BY <1>1, <3>1 DEF ClearsSaved
    <3>2. CASE Clearing = {}
      <4>1. asem = 1 /\ archiver # "notify"
        BY <1>1, <3>2 DEF OneWithoutClear, ParityInv
      <4>2. Cardinality(Clearing) = 0
        BY <3>2, FS_EmptySet
      <4>3. archiver # "reset"
        BY <4>1, <4>2 DEF ParityInv
      <4>. QED BY <1>1, <2>2, <4>1, <4>3
    <3>. QED BY <3>1, <3>2
  <2>. QED BY <1>2, <1>3, <2>1, <2>2 DEF ClearsSaved
<1>5. CASE AwaitArchiver(c)
  <2>1. c \in Clearing
    BY <1>5 DEF AwaitArchiver, LockTrigger, At, Clearing, ClearsIn
  <2>2. BoardSaved
    BY <1>1, <2>1 DEF ClearsSaved
  <2>. QED BY <1>2, <1>3, <2>2 DEF ClearsSaved
<1>. QED BY <1>4, <1>5

\* The archiver saves the board before it notifies.
LEMMA ArchiverSaves ==
  ASSUME StructInv, ParityInv, OneWithoutClear, ClearsSaved, [Next]_vars, ArchiverNext
  PROVE  OneWithoutClear' /\ ClearsSaved'
<1>1. UNCHANGED <<pc, msg>> /\ Clearing' = Clearing
  BY DEF ArchiverNext, threadVars, Clearing, ClearsIn
<1>2. board' = board
  BY DEF ArchiverNext, ArchiverStep, ArchiverWakes, ArchiveBoard, ArchiverNotifies,
    ArchiverResets, ArchiverUnlocks, DebugArchive, ArchiverDies
<1>3. CASE ArchiveBoard \/ DebugArchive
  <2>1. BoardSaved' /\ asem' = asem
    BY <1>2, <1>3 DEF ArchiveBoard, DebugArchive, BoardSaved
  <2>. QED BY <1>1, <2>1 DEF ClearsSaved, OneWithoutClear
<1>4. CASE \/ ArchiverWakes \/ ArchiverNotifies \/ ArchiverResets \/ ArchiverDies
  <2>1. archived' = archived /\ (BoardSaved' <=> BoardSaved)
    BY <1>2, <1>4 DEF ArchiverWakes, ArchiverNotifies, ArchiverResets, ArchiverUnlocks,
      ArchiverDies, BoardSaved
  <2>2. asem' > 0 \/ archiver' \in {"notify", "reset"}
          => asem > 0 \/ archiver \in {"notify", "reset"}
    BY <1>4 DEF ArchiverWakes, ArchiverNotifies, ArchiverResets, ArchiverUnlocks, ArchiverDies
  <2>3. OneWithoutClear'
    <3>. SUFFICES ASSUME Clearing = {}
                  PROVE  asem' \in {0, 1}
      BY <1>1 DEF OneWithoutClear
    <3>1. Cardinality(Clearing) = 0
      BY FS_EmptySet
    <3>2. CASE ArchiverResets
      BY <3>1, <3>2 DEF ArchiverResets, ArchiverUnlocks, ParityInv
    <3>3. CASE ArchiverNotifies
      BY <3>3 DEF ArchiverNotifies, ArchiverUnlocks, ParityInv
    <3>4. CASE ArchiverWakes \/ ArchiverDies
      BY <3>4 DEF ArchiverWakes, ArchiverDies, OneWithoutClear
    <3>. QED BY <1>4, <3>2, <3>3, <3>4
  <2>. QED BY <1>1, <2>1, <2>2, <2>3 DEF ClearsSaved, Erases
<1>. QED BY <1>3, <1>4 DEF ArchiverNext, ArchiverStep

\* Every other step changes the board only when nobody clears it.
LEMMA ClearsSavedStep ==
  ASSUME StructInv, ParityInv, OneWithoutClear, ClearsSaved, ClearsAlone, [Next]_vars
  PROVE  OneWithoutClear' /\ ClearsSaved'
<1>1. CASE ArchiverNext
  BY <1>1, ArchiverSaves
<1>2. ASSUME NEW c \in Clients, TriggerArchiver(c) \/ AwaitArchiver(c)
      PROVE  OneWithoutClear' /\ ClearsSaved'
  BY <1>2, LocksSave
<1>3. CASE /\ ~ArchiverNext
           /\ \A c \in Clients : ~TriggerArchiver(c) /\ ~AwaitArchiver(c)
  <2>1. HandshakeRests
    BY <1>3, HandshakeSteps DEF StructInv
  <2>2. \A c \in Clients : Erases(c)' => Erases(c)
    BY <1>3, ErasesFromWait
  <2>3. archived' = archived
    BY <1>3, ArchiverArchives
  <2>4. CASE ClearUnderWay
    <3>1. BoardSaved => BoardSaved'
      BY <2>3, <2>4 DEF ClearsAlone, BoardSaved
    <3>. QED BY <2>1, <2>2, <3>1 DEF HandshakeRests, OneWithoutClear, ClearsSaved
  <2>5. CASE ~ClearUnderWay
    <3>1. Clearing = {} /\ \A c \in Clients : ~Erases(c)
      BY <2>5 DEF ClearUnderWay, Clearing, ClearsIn
    <3>. QED BY <2>1, <2>2, <3>1 DEF HandshakeRests, OneWithoutClear, ClearsSaved
  <2>. QED BY <2>4, <2>5
<1>. QED BY <1>1, <1>2, <1>3

(***************************************************************************)
(* As long as nobody stores a text while a clear is under way, a clear     *)
(* erases nothing that is not in the archive file, however many clears     *)
(* overlap: a notification another clear has taken does not let it pass    *)
(* before its archive (message_handler.c:243-260, archiver.c:100-118).     *)
(* What the clear of the code can lose is only a text that a second writer *)
(* stores between the archive and the erasing.                             *)
(***************************************************************************)
THEOREM ClearArchivesAlone ==
  Spec /\ [][ClearsAlone]_vars => ClearedIsArchived
<1>. DEFINE Cleared ==
       \A c \in Clients :
         pc[c] = "board_lock" /\ pc'[c] # "board_lock" /\ msg[c].type = "clear"
           => board \in {archived, "empty"}
<1>1. Init => ParityInv /\ OneWithoutClear /\ ClearsSaved
  <2>1. Init => Clearing = {} /\ \A c \in Clients : ~Erases(c)
    BY DEF Init, Clearing, ClearsIn, Erases
  <2>. QED BY <2>1, FS_EmptySet DEF Init, BoardInit, ParityInv, OneWithoutClear, ClearsSaved
<1>2. /\ StructInv /\ ParityInv /\ OneWithoutClear /\ ClearsSaved
      /\ [Next]_vars /\ [ClearsAlone]_vars
      => ParityInv' /\ OneWithoutClear' /\ ClearsSaved'
  <2>. SUFFICES ASSUME StructInv, ParityInv, OneWithoutClear, ClearsSaved,
                       [Next]_vars, [ClearsAlone]_vars
                PROVE  ParityInv' /\ OneWithoutClear' /\ ClearsSaved'
    OBVIOUS
  <2>1. ParityInv'
    BY ParityStep DEF StructInv
  <2>2. UNCHANGED vars => ClearsAlone
    BY DEF vars, boardVars, ClearsAlone
  <2>. QED BY <2>1, <2>2, ClearsSavedStep
<1>3. StructInv /\ ClearsSaved /\ [Next]_vars => [Cleared]_vars
  BY DEF ClearsSaved, Erases, BoardSaved
<1>. QED
  BY <1>1, <1>2, <1>3, StructureKept, PTL DEF Spec, ClearedIsArchived

-----------------------------------------------------------------------------
(***************************************************************************)
(* Deadlock.                                                               *)
(***************************************************************************)

\* No handler returns from the step with the list mutex: the docent does not
\* take the write access back, and no tutor gives it back.
ListNotKept == cl_mutex' = Nobody

(***************************************************************************)
(* The two handovers of request_handler that trigger the status with the   *)
(* list mutex held are the only cause of a deadlock: without them no       *)
(* thread ever waits for itself (message_handler.c:336-417,                *)
(* broadcasting.c:32-96).                                                  *)
(***************************************************************************)
THEOREM DeadlockNeedsHandover ==
  Spec /\ [][ListNotKept]_vars => [](\A t \in Threads : ~InCycle(t))
<1>1. Init => cl_mutex = Nobody
  BY DEF Init, ListInit
<1>2. cl_mutex = Nobody /\ [Next]_vars /\ [ListNotKept]_vars => (cl_mutex = Nobody)'
  BY DEF ListNotKept, vars, listVars
<1>3. StructInv /\ OnlyInversionDeadlocks /\ cl_mutex = Nobody
        => \A t \in Threads : ~InCycle(t)
  <2>. SUFFICES ASSUME StructInv, OnlyInversionDeadlocks, cl_mutex = Nobody,
                       NEW t \in Threads, InCycle(t)
                PROVE  FALSE
    OBVIOUS
  <2>. DEFINE w1 == WaitsFor(t)
              w2 == WaitsFor(w1)
              w3 == WaitsFor(w2)
              w4 == WaitsFor(w3)
  <2>1. t \in {w1, w2, w3, w4}
    BY DEF InCycle
  <2>2. t = "agent" /\ t # Nobody /\ t # bsem
    BY NobodyAssumption, ThreadsAssumption DEF OnlyInversionDeadlocks, StructInv, TypeOK,
      BoardTypeOK, Threads
  <2>3. WaitsFor(bsem) = Nobody /\ WaitsFor(Nobody) = Nobody
    BY BoardHolderGoesOn
  <2>4. w1 \in {bsem, Nobody}
    BY <2>2 DEF WaitsFor, ListHolder, BoardHolder
  <2>5. w2 = Nobody /\ w3 = Nobody /\ w4 = Nobody
    BY <2>3, <2>4
  <2>. QED BY <2>1, <2>2, <2>4, <2>5
<1>. QED
  BY <1>1, <1>2, <1>3, StructureKept, InversionOnly, PTL DEF Spec

=============================================================================
