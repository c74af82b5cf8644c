--------------------------- MODULE BalanceProofs ---------------------------
(***************************************************************************)
(* What the counters of the server add up to: client ids, the number of    *)
(* entries, the value of the archiver's semaphore; that its locks and      *)
(* semaphores admit one deadlock only; and that no trigger of a status is  *)
(* lost.                                                                   *)
(***************************************************************************)
EXTENDS StructureProofs, FiniteSetTheorems

-----------------------------------------------------------------------------
(***************************************************************************)
(* Client ids.                                                             *)
(***************************************************************************)

\* A connection with one of these labels has taken an id.
Holding == ListedLabels \cup {"add"}

\* What a step does that gives no id and takes none back.
IdsStay ==
  /\ UNCHANGED <<members, role, cid, client_counter, cid_counter>>
  /\ \A c \in Clients : pc'[c] \in Holding => pc[c] \in Holding

\* A thread that has an id and goes on with it.
LEMMA HolderGoesOn ==
  ASSUME StructInv, NEW c \in Clients, NEW label, pc[c] \in Holding,
         UNCHANGED <<members, role, cid, client_counter, cid_counter>>,
         pc' = pc \/ Goto(c, label)
  PROVE  IdsStay
BY DEF IdsStay, StructInv, TypeOK, ThreadTypeOK, Goto

\* A connection that begins or ends has no id.
LEMMA OutsiderGoesOn ==
  ASSUME StructInv, NEW c \in Clients, NEW label \in {"none", "login"},
         UNCHANGED <<members, role, cid, client_counter, cid_counter>>,
         Goto(c, label)
  PROVE  IdsStay
BY DEF IdsStay, StructInv, TypeOK, ThreadTypeOK, Goto, Holding, ListedLabels, Labels

\* Ids are given by Login, entries come with EnterList and go with LeaveList.
LEMMA ListSteps ==
  ASSUME StructInv, [Next]_vars
  PROVE  \/ IdsStay
         \/ \E c \in Clients, wish \in LoginRoles : Login(c, wish)
         \/ \E c \in Clients : EnterList(c) \/ LeaveList(c)
<1>1. ASSUME NEW c \in Clients, Accept(c) \/ LoginFails(c) \/ LogoutTrigger(c)
      PROVE  IdsStay
  BY <1>1, OutsiderGoesOn DEF Accept, LoginFails, LogoutTrigger, CloseSocket, GotoWith,
    listVars
<1>2. ASSUME NEW c \in Clients, Message(c)
      PROVE  IdsStay
  <2>1. pc[c] \in Holding
    BY <1>2 DEF Message, ReadBoard, Request, Reply, Shutdown, UnknownMessage, CanReceive, At,
      Holding, ListedLabels, Labels
  <2>2. UNCHANGED <<members, role, cid, client_counter, cid_counter>>
    BY <1>2 DEF Message, ReadBoard, Request, Reply, Shutdown, UnknownMessage, ThrowOut,
      NoAnswer, TakeBack, GiveBack, TakeFree, QueryDocent, Deny, Grant, SetWriteUser, listVars
  <2>3. \E label : pc' = pc \/ Goto(c, label)
    BY <1>2 DEF Message, ReadBoard, RefuseBoard, GotoWith, Request, Reply, Shutdown,
      UnknownMessage, ThrowOut, NoAnswer, TakeBack, GiveBack, TakeFree, QueryDocent, Deny,
      Grant
  <2>. QED BY <2>1, <2>2, <2>3, HolderGoesOn
<1>3. ASSUME NEW c \in Clients, ThreadStep(c), ~EnterList(c), ~LeaveList(c), ~LogoutTrigger(c)
      PROVE  IdsStay
  <2>1. pc[c] \in Holding
    BY <1>3 DEF ThreadStep, CopyInitialBoard, SendInitialBoard, CheckWrite, TriggerArchiver,
      AwaitArchiver, LockTrigger, EraseBoard, ReceiveBoard, ReceiveShort, ReceiveFails,
      LockedTrigger, Trigger, LeftOverText, Disconnected, At, Holding, ListedLabels, Labels
  <2>2. UNCHANGED <<members, role, cid, client_counter, cid_counter>>
    BY <1>3 DEF ThreadStep, CopyInitialBoard, SendInitialBoard, CheckWrite, TriggerArchiver,
      AwaitArchiver, LockTrigger, EraseBoard, ReceiveBoard, ReceiveShort, ReceiveFails,
      StoreBoard, LockedTrigger, Trigger, LeftOverText, ThrowOut, Disconnected, listVars
  <2>3. \E label : pc' = pc \/ Goto(c, label)
    BY <1>3 DEF ThreadStep, CopyInitialBoard, SendInitialBoard, CheckWrite, AcceptBoard,
      RefuseBoard, TriggerArchiver, AwaitArchiver, LockTrigger, EraseBoard, ReceiveBoard,
      ReceiveShort, ReceiveFails, GotoWith, LockedTrigger, Trigger, LeftOverText, ThrowOut,
      Disconnected, threadVars
  <2>. QED BY <2>1, <2>2, <2>3, HolderGoesOn
<1>4. ASSUME \/ \E c \in Clients : PeerStep(c)
             \/ AgentNext /\ UNCHANGED threadVars
             \/ ArchiverNext \/ Exit \/ UNCHANGED vars
      PROVE  IdsStay
  BY <1>4 DEF PeerStep, AgentNext, AgentFirstWait, AgentWakes, SpuriousWakeup,
    BroadcastStatus, CopyBoardToSend, BroadcastBlackboard, AgentStep, ArchiverNext, Exit,
    vars, listVars, threadVars, IdsStay
<1>. QED
  BY <1>1, <1>2, <1>3, <1>4 DEF Next, ClientNext

\* get_next_cid counts up by one or refuses.
LEMMA NextCidCounts ==
  ASSUME StructInv, NextCid # 0
  PROVE  NextCid = cid_counter + 1
<1>1. cid_counter \in 0..MaxCid /\ MaxCid \in Nat
  BY MaxCidAssumption DEF StructInv, TypeOK, ListTypeOK
<1>2. cid_counter # MaxCid
  BY <1>1 DEF NextCid
<1>. QED BY <1>1, <1>2 DEF NextCid

\* No id is above the counter.
IdsCounted == \A c \in Clients : cid[c] <= cid_counter

\* A login takes the id after the counter, a step that gives none keeps them all.
LEMMA IdsStep ==
  ASSUME StructInv, CidsUnique, IdsCounted, [Next]_vars
  PROVE  CidsUnique' /\ IdsCounted'
<1>. DEFINE H == {c \in Clients : pc[c] \in Holding}
<1>0. CidsUnique <=> \A c, d \in H : cid[c] # 0 /\ (c # d => cid[c] # cid[d])
  BY DEF CidsUnique, Holding
<1>1. CidsUnique' <=> \A c, d \in H' : cid'[c] # 0 /\ (c # d => cid'[c] # cid'[d])
  BY DEF CidsUnique, Holding
<1>2. /\ cid \in [Clients -> 0..MaxCid] /\ cid_counter \in 0..MaxCid
      /\ pc \in [Clients -> Labels] /\ MaxCid \in Nat
  BY MaxCidAssumption DEF StructInv, TypeOK, ListTypeOK, ThreadTypeOK
<1>3. CASE IdsStay
  <2>1. H' \subseteq H
    BY <1>3 DEF IdsStay
  <2>. QED BY <1>0, <1>1, <1>3, <2>1 DEF IdsStay, IdsCounted
<1>4. ASSUME NEW c \in Clients, NEW wish \in LoginRoles, Login(c, wish)
      PROVE  CidsUnique' /\ IdsCounted'
  <2>1. CASE NextCid = 0
    <3>1. cid' = cid /\ cid_counter' = MaxCid
      BY <1>4, <2>1 DEF Login, CountCid
    <3>2. H' \subseteq H
      BY <1>2, <1>4, <2>1 DEF Login, CloseSocket, GotoWith, Goto, Holding, ListedLabels, Labels
    <3>. QED BY <1>0, <1>1, <1>2, <3>1, <3>2 DEF IdsCounted
  <2>2. CASE NextCid # 0
    <3>1. NextCid = cid_counter + 1
      BY <2>2, NextCidCounts
    <3>2. cid' = [cid EXCEPT ![c] = cid_counter + 1] /\ cid_counter' = cid_counter + 1
      BY <1>4, <2>2, <3>1 DEF Login, CountCid
    <3>3. H' \subseteq H \cup {c}
      BY <1>2, <1>4, <2>2 DEF Login, Goto
    <3>4. \A d \in Clients : d # c => cid'[d] = cid[d] /\ cid[d] < cid'[c]
      BY <1>2, <3>2 DEF IdsCounted
    <3>5. IdsCounted'
      BY <1>2, <3>2, <3>4 DEF IdsCounted
    <3>6. cid'[c] # 0
      BY <1>2, <3>2
    <3>. QED BY <1>0, <1>1, <1>2, <3>3, <3>4, <3>5, <3>6
  <2>. QED BY <2>1, <2>2
<1>5. ASSUME NEW c \in Clients, EnterList(c)
      PROVE  CidsUnique' /\ IdsCounted'
  <2>1. UNCHANGED <<cid, cid_counter>> /\ pc[c] = "add"
    BY <1>5 DEF EnterList, AddClient, At
  <2>2. H' \subseteq H
    BY <1>2, <1>5, <2>1 DEF EnterList, Goto, Holding
  <2>. QED BY <1>0, <1>1, <2>1, <2>2 DEF IdsCounted
<1>6. ASSUME NEW c \in Clients, LeaveList(c)
      PROVE  CidsUnique' /\ IdsCounted'
  <2>1. H' \subseteq H \ {c}
    BY <1>2, <1>6 DEF LeaveList, Goto, Holding, ListedLabels, Labels
  <2>2. cid_counter' = cid_counter /\ (cid' = cid \/ cid' = [cid EXCEPT ![c] = 0])
    BY <1>6 DEF LeaveList, RemoveClient, Unlink, listVars
  <2>3. \A d \in Clients : d # c => cid'[d] = cid[d]
    BY <1>2, <2>2
  <2>4. cid'[c] <= cid_counter
    BY <1>2, <2>2 DEF IdsCounted
  <2>5. IdsCounted'
    BY <2>2, <2>3, <2>4 DEF IdsCounted
  <2>. QED BY <1>0, <1>1, <2>1, <2>3, <2>5
<1>. QED BY <1>3, <1>4, <1>5, <1>6, ListSteps

(***************************************************************************)
(* Ids are unique also after the overflow of the counter: it stays at its  *)
(* last value and every further login is refused (client_list.c:181-196).  *)
(***************************************************************************)
THEOREM IdsUnique == Spec => []CidsUnique
<1>1. Init => CidsUnique /\ IdsCounted
  BY MaxCidAssumption DEF Init, ListInit, CidsUnique, IdsCounted, ListedLabels, Labels
<1>2. StructInv /\ CidsUnique /\ IdsCounted /\ [Next]_vars => CidsUnique' /\ IdsCounted'
  BY IdsStep
<1>. QED BY <1>1, <1>2, StructureKept, PTL DEF Spec

\* No query is about an id above the counter.
QueriesCounted == \A c \in Clients : \A k \in queries[c] : k <= cid_counter

\* Queries are answered or forgotten, or one is added for the id of a listed client.
QueriesMove ==
  \/ \A c \in Clients : queries'[c] \subseteq queries[c]
  \/ \E u \in members : /\ cid_counter' = cid_counter
                        /\ \A c \in Clients : queries'[c] \subseteq queries[c] \cup {cid[u]}

\* This is all a step does to the queries.
LEMMA QueriesMoves ==
  ASSUME StructInv, [Next]_vars
  PROVE  QueriesMove
<1>0. queries \in [Clients -> SUBSET (0..MaxCid)]
  BY DEF StructInv, TypeOK, ThreadTypeOK
<1>1. ASSUME NEW u \in Clients, NEW write \in BOOLEAN, Request(u, write)
      PROVE  QueriesMove
  <2>1. CASE queries' = queries
    BY <2>1 DEF QueriesMove
  <2>2. CASE QueryDocent(u)
    <3>1. cid_counter' = cid_counter
      BY <2>2 DEF QueryDocent, listVars
    <3>2. \A c \in Clients : queries'[c] \subseteq queries[c] \cup {cid[u]}
      BY <1>0, <2>2 DEF QueryDocent
    <3>3. u \in members
      BY <1>1 DEF Request, CanReceive, At, StructInv, ListMatchesThreads, ListedLabels, Labels
    <3>. QED BY <3>1, <3>2, <3>3 DEF QueriesMove
  <2>. QED BY <1>1, <2>1, <2>2 DEF Request, NoAnswer, TakeBack, GiveBack, TakeFree
<1>2. ASSUME NEW u \in Clients, NEW k \in queries[u], NEW write \in BOOLEAN,
             Reply(u, k, write)
      PROVE  QueriesMove
  BY <1>0, <1>2 DEF Reply, QueriesMove
<1>3. ASSUME NEW u \in Clients,
             \/ LoginFails(u) \/ LogoutTrigger(u)
             \/ \E wish \in LoginRoles : Login(u, wish)
      PROVE  QueriesMove
  BY <1>0, <1>3 DEF LoginFails, LogoutTrigger, Login, CloseSocket, QueriesMove
<1>4. ASSUME NEW u \in Clients,
             \/ Accept(u) \/ PeerStep(u)
             \/ ThreadStep(u) /\ ~LogoutTrigger(u)
             \/ (\E m : ReadBoard(u, m)) \/ Shutdown(u) \/ UnknownMessage(u)
      PROVE  queries' = queries
  BY <1>4 DEF Accept, PeerStep, ThreadStep, EnterList, CopyInitialBoard, SendInitialBoard,
    CheckWrite, AcceptBoard, RefuseBoard, TriggerArchiver, AwaitArchiver, LockTrigger,
    EraseBoard, ReceiveBoard, ReceiveShort, ReceiveFails, StoreBoard, LockedTrigger, Trigger,
    LeftOverText, ThrowOut, Disconnected, LeaveList, ReadBoard, Shutdown, UnknownMessage,
    threadVars
<1>5. ASSUME \/ AgentNext /\ UNCHANGED threadVars
             \/ ArchiverNext \/ Exit \/ UNCHANGED vars
      PROVE  queries' = queries
  BY <1>5 DEF ArchiverNext, Exit, vars, threadVars
<1>6. queries' = queries => QueriesMove
  BY DEF QueriesMove
<1>7. ASSUME NEW u \in Clients, ClientNext(u)
      PROVE  QueriesMove
  BY <1>1, <1>2, <1>3, <1>4, <1>6, <1>7 DEF ClientNext, Message
<1>. QED BY <1>5, <1>6, <1>7 DEF Next

\* No query is about an id above the counter, which never goes back.
LEMMA QueriesStep ==
  ASSUME StructInv, IdsCounted, QueriesCounted, [Next]_vars
  PROVE  QueriesCounted'
<1>1. /\ queries \in [Clients -> SUBSET (0..MaxCid)] /\ cid_counter \in 0..MaxCid
      /\ cid \in [Clients -> 0..MaxCid] /\ MaxCid \in Nat
  BY MaxCidAssumption DEF StructInv, TypeOK, ListTypeOK, ThreadTypeOK
<1>2. cid_counter' \in Nat /\ cid_counter <= cid_counter'
  <2>1. ASSUME NEW c \in Clients, NEW wish \in LoginRoles, Login(c, wish)
        PROVE  cid_counter' \in Nat /\ cid_counter <= cid_counter'
    <3>1. CASE NextCid = 0
      BY <1>1, <2>1, <3>1 DEF Login, CountCid
    <3>2. CASE NextCid # 0
      <4>1. cid_counter' = cid_counter + 1
        BY <2>1, <3>2, NextCidCounts DEF Login, CountCid
      <4>. QED BY <1>1, <4>1
    <3>. QED BY <3>1, <3>2
  <2>2. ASSUME NEW c \in Clients, EnterList(c) \/ LeaveList(c)
        PROVE  cid_counter' = cid_counter
    BY <2>2 DEF EnterList, AddClient, LeaveList, RemoveClient, Unlink, listVars
  <2>3. CASE IdsStay
    BY <1>1, <2>3 DEF IdsStay
  <2>. QED BY <1>1, <2>1, <2>2, <2>3, ListSteps
<1>3. QueriesMove
  BY QueriesMoves
<1>. QED
  <2>1. CASE \A c \in Clients : queries'[c] \subseteq queries[c]
    <3>. SUFFICES ASSUME NEW c \in Clients, NEW k \in queries[c]
                  PROVE  k <= cid_counter'
      BY <2>1 DEF QueriesCounted
    <3>1. k \in Int /\ k <= cid_counter
      BY <1>1 DEF QueriesCounted
    <3>. QED BY <1>1, <1>2, <3>1
  <2>2. ASSUME NEW u \in members, cid_counter' = cid_counter,
               \A c \in Clients : queries'[c] \subseteq queries[c] \cup {cid[u]}
        PROVE  QueriesCounted'
    BY <2>2 DEF QueriesCounted, IdsCounted, StructInv, TypeOK, ListTypeOK
  <2>. QED BY <1>3, <2>1, <2>2 DEF QueriesMove

(***************************************************************************)
(* A login never gets an id an unanswered query is about: the ids only     *)
(* count up, and at the overflow the counter stays and logins are refused  *)
(* (client_list.c:181-196), so a reply that comes late can only be about   *)
(* the client that asked (message_handler.c, reply_handler).               *)
(***************************************************************************)
THEOREM RepliesReachAskers == Spec => QueriedIdsNotReused
<1>. DEFINE Fresh == \A u \in Clients : pc[u] = "login" /\ pc'[u] = "add" =>
                       \A c \in Clients : cid'[u] \notin queries[c]
<1>1. Init => IdsCounted /\ QueriesCounted /\ CidsUnique
  BY MaxCidAssumption DEF Init, ListInit, IdsCounted, QueriesCounted, CidsUnique, ListedLabels,
    Labels
<1>2. StructInv /\ CidsUnique /\ IdsCounted /\ QueriesCounted /\ [Next]_vars
        => CidsUnique' /\ IdsCounted' /\ QueriesCounted'
  BY IdsStep, QueriesStep
<1>3. StructInv /\ QueriesCounted /\ [Next]_vars => Fresh
  <2>. SUFFICES ASSUME StructInv, QueriesCounted, [Next]_vars,
                       NEW u \in Clients, pc[u] = "login", pc'[u] = "add"
                PROVE  \A c \in Clients : cid'[u] \notin queries[c]
    OBVIOUS
  <2>1. /\ queries \in [Clients -> SUBSET (0..MaxCid)] /\ cid_counter \in 0..MaxCid
        /\ cid \in [Clients -> 0..MaxCid] /\ pc \in [Clients -> Labels] /\ MaxCid \in Nat
    BY MaxCidAssumption DEF StructInv, TypeOK, ListTypeOK, ThreadTypeOK
  <2>2. ~IdsStay
    BY DEF IdsStay, Holding, ListedLabels
  <2>3. ASSUME NEW c \in Clients, EnterList(c) \/ LeaveList(c)
        PROVE  FALSE
    BY <2>1, <2>3 DEF EnterList, LeaveList, At, Goto
  <2>4. PICK c \in Clients, wish \in LoginRoles : Login(c, wish)
    BY <2>2, <2>3, ListSteps
  <2>5. c = u /\ NextCid # 0
    BY <2>1, <2>4 DEF Login, CloseSocket, GotoWith, Goto
  <2>6. cid'[u] = cid_counter + 1
    BY <2>1, <2>4, <2>5, NextCidCounts DEF Login
  <2>7. \A d \in Clients : \A k \in queries[d] : k \in Int /\ k <= cid_counter
    BY <2>1 DEF QueriesCounted
  <2>. QED BY <2>1, <2>6, <2>7
<1>4. StructInv /\ QueriesCounted /\ [Next]_vars => [Fresh]_vars
  BY <1>3
<1>. QED
  BY <1>1, <1>2, <1>4, StructureKept, PTL DEF Spec, QueriedIdsNotReused
-----------------------------------------------------------------------------
(***************************************************************************)
(* The number of entries.                                                  *)
(***************************************************************************)

\* The list is finite and its counter right.
Counted == IsFiniteSet(members) /\ client_counter = Cardinality(members)

\* The counter changes with the list, by one entry.
LEMMA CountStep ==
  ASSUME StructInv, Counted, [Next]_vars
  PROVE  Counted'
<1>1. CASE IdsStay
  BY <1>1 DEF IdsStay, Counted
<1>2. ASSUME NEW c \in Clients, NEW wish \in LoginRoles, Login(c, wish)
      PROVE  Counted'
  BY <1>2 DEF Login, Counted
<1>3. ASSUME NEW c \in Clients, EnterList(c)
      PROVE  Counted'
  <2>1. c \notin members
    BY <1>3 DEF EnterList, At, StructInv, ListMatchesThreads, ListedLabels
  <2>2. members' = members \cup {c} /\ client_counter' = client_counter + 1
    BY <1>3 DEF EnterList, AddClient
  <2>3. IsFiniteSet(members \cup {c}) /\ Cardinality(members \cup {c}) = Cardinality(members) + 1
    BY <2>1, FS_AddElement DEF Counted
  <2>. QED BY <2>2, <2>3 DEF Counted
<1>4. ASSUME NEW c \in Clients, LeaveList(c)
      PROVE  Counted'
  <2>1. c \in members
    BY <1>4 DEF LeaveList, At, StructInv, ListMatchesThreads, ListedLabels, Labels
  <2>2. members' = members \ {c} /\ client_counter' = client_counter - 1
    BY <1>4, <2>1 DEF LeaveList, RemoveClient, Unlink
  <2>3. IsFiniteSet(members \ {c}) /\ Cardinality(members \ {c}) = Cardinality(members) - 1
    BY <2>1, FS_RemoveElement DEF Counted
  <2>. QED BY <2>2, <2>3 DEF Counted
<1>. QED BY <1>1, <1>2, <1>3, <1>4, ListSteps

\* Docent and tutor are different entries: there are at least as many entries as
\* broadcast_status takes off for them.
LEMMA StudentsNotNegative ==
  ASSUME StructInv, Counted, NEW u
  PROVE  StatusFor(u).scount >= 0
<1>. DEFINE d == IF DocentExists THEN 1 ELSE 0
            t == IF TutorExists THEN 1 ELSE 0
            D == IF DocentExists THEN {user_docent} ELSE {}
            T == IF TutorExists THEN {user_write} ELSE {}
<1>1. StatusFor(u).scount = client_counter - d - t
  BY DEF StatusFor
<1>2. D \cup T \in SUBSET members
  BY DEF DocentExists, TutorExists, StructInv, PointersValid
<1>3. IsFiniteSet(D) /\ Cardinality(D) = d
  BY FS_EmptySet, FS_Singleton
<1>4. IsFiniteSet(D \cup T) /\ Cardinality(D \cup T) = d + t
  <2>1. CASE TutorExists
    <3>1. user_write \notin D
      BY <2>1 DEF TutorExists
    <3>. QED BY <1>3, <2>1, <3>1, FS_AddElement
  <2>2. CASE ~TutorExists
    <3>1. D \cup T = D /\ t = 0
      BY <2>2
    <3>. QED BY <1>3, <3>1
  <2>. QED BY <2>1, <2>2
<1>5. Cardinality(D \cup T) <= Cardinality(members) /\ Cardinality(members) \in Nat
  BY <1>2, FS_Subset, FS_CardinalityType DEF Counted
<1>6. d \in {0, 1} /\ t \in {0, 1}
  OBVIOUS
<1>. HIDE DEF d, t, D, T
<1>. QED BY <1>1, <1>4, <1>5, <1>6 DEF Counted

(***************************************************************************)
(* The counter of the list is its length, and the number of students a     *)
(* status message carries never wraps below zero (broadcasting.c:69-94).   *)
(***************************************************************************)
THEOREM EntriesCounted == Spec => []CountsRight
<1>1. Init => Counted
  BY FS_EmptySet DEF Init, ListInit, Counted
<1>2. StructInv /\ Counted /\ [Next]_vars => Counted'
  BY CountStep
<1>3. StructInv /\ Counted => CountsRight
  BY StudentsNotNegative DEF CountsRight, Counted
<1>. QED BY <1>1, <1>2, <1>3, StructureKept, PTL DEF Spec
-----------------------------------------------------------------------------
(***************************************************************************)
(* The semaphore of the archiver.  A clear locks it twice and the archiver *)
(* unlocks it twice: what stays the same is the parity of its value and    *)
(* the number of clears between their two locks.                           *)
(***************************************************************************)
Clearing == ClearsIn("clear_wait")

ParityInv ==
  /\ IsFiniteSet(Clearing)
  /\ asem \in 0..2
  /\ archiver \in {"archive", "notify"} => asem = 0
  /\ archiver = "reset" => asem < 2
  /\ archiver \in {"wait", "archive", "notify"} => (asem + Cardinality(Clearing)) % 2 = 1
  /\ archiver = "reset" => (asem + Cardinality(Clearing)) % 2 = 0

\* A step that neither locks nor unlocks the semaphore.
LEMMA ParityKept ==
  ASSUME ParityInv, UNCHANGED <<asem, archiver>>, Clearing' = Clearing
  PROVE  ParityInv'
BY DEF ParityInv

\* A thread that moves between labels other than "clear_wait".
LEMMA ClearingStays ==
  ASSUME TypeOK, NEW c \in Clients, NEW label, label # "clear_wait", pc[c] # "clear_wait",
         pc' = pc \/ Goto(c, label)
  PROVE  Clearing' = Clearing
BY DEF Clearing, ClearsIn, TypeOK, ThreadTypeOK, Goto

\* The first lock of a clear.
LEMMA TriggerParity ==
  ASSUME TypeOK, ParityInv, NEW c \in Clients, TriggerArchiver(c)
  PROVE  ParityInv'
<1>1. asem > 0 /\ asem' = asem - 1 /\ archiver' = archiver /\ pc[c] = "clear_trigger"
  BY DEF TriggerArchiver, LockTrigger, At
<1>2. Clearing' = Clearing \cup {c} /\ c \notin Clearing
  BY <1>1 DEF Clearing, ClearsIn, TypeOK, ThreadTypeOK, TriggerArchiver, LockTrigger, Goto
<1>3. /\ IsFiniteSet(Clearing') /\ Cardinality(Clearing') = Cardinality(Clearing) + 1
      /\ Cardinality(Clearing) \in Nat
  BY <1>2, FS_AddElement, FS_CardinalityType DEF ParityInv
<1>4. asem' + Cardinality(Clearing') = asem + Cardinality(Clearing)
  BY <1>1, <1>3 DEF ParityInv
<1>. QED BY <1>1, <1>3, <1>4 DEF ParityInv

\* The second lock of a clear.
LEMMA AwaitParity ==
  ASSUME TypeOK, ParityInv, NEW c \in Clients, AwaitArchiver(c)
  PROVE  ParityInv'
<1>1. asem > 0 /\ asem' = asem - 1 /\ archiver' = archiver /\ pc[c] = "clear_wait"
  BY DEF AwaitArchiver, LockTrigger, At
<1>2. Clearing' = Clearing \ {c} /\ c \in Clearing
  BY <1>1 DEF Clearing, ClearsIn, TypeOK, ThreadTypeOK, AwaitArchiver, LockTrigger, Goto
<1>3. /\ IsFiniteSet(Clearing') /\ Cardinality(Clearing') = Cardinality(Clearing) - 1
      /\ Cardinality(Clearing) \in Nat
  BY <1>2, FS_RemoveElement, FS_CardinalityType DEF ParityInv
<1>4. asem' + Cardinality(Clearing') = asem + Cardinality(Clearing) - 2
  BY <1>1, <1>3 DEF ParityInv
<1>5. (asem + Cardinality(Clearing) - 2) % 2 = (asem + Cardinality(Clearing)) % 2
  BY <1>3 DEF ParityInv
<1>. QED BY <1>1, <1>3, <1>4, <1>5 DEF ParityInv

\* The archiver.
LEMMA ArchiverParity ==
  ASSUME TypeOK, ParityInv, ArchiverNext
  PROVE  ParityInv'
<1>1. Clearing' = Clearing
  BY DEF ArchiverNext, threadVars, Clearing, ClearsIn
<1>2. Cardinality(Clearing) \in Nat
  BY FS_CardinalityType DEF ParityInv
<1>3. CASE ArchiverWakes
  BY <1>1, <1>3 DEF ArchiverWakes, ParityInv
<1>4. CASE ArchiveBoard
  BY <1>1, <1>4 DEF ArchiveBoard, ParityInv
<1>5. CASE ArchiverNotifies
  BY <1>1, <1>2, <1>5 DEF ArchiverNotifies, ArchiverUnlocks, ParityInv
<1>6. CASE ArchiverResets
  BY <1>1, <1>2, <1>6 DEF ArchiverResets, ArchiverUnlocks, ParityInv
<1>7. CASE DebugArchive
  BY <1>1, <1>7, ParityKept DEF DebugArchive
<1>8. CASE ArchiverDies
  BY <1>1, <1>8 DEF ArchiverDies, ParityInv
<1>. QED BY <1>3, <1>4, <1>5, <1>6, <1>7, <1>8 DEF ArchiverNext, ArchiverStep

\* A step that has no part in the handshake.
HandshakeRests == UNCHANGED <<asem, archiver>> /\ Clearing' = Clearing

\* Only the two locks of a clear and the archiver have a part in it.
LEMMA HandshakeSteps ==
  ASSUME TypeOK, [Next]_vars
  PROVE  \/ \E c \in Clients : TriggerArchiver(c) \/ AwaitArchiver(c)
         \/ ArchiverNext
         \/ HandshakeRests
<1>1. ASSUME NEW c \in Clients,
             \/ Accept(c) \/ LoginFails(c)
             \/ \E wish \in LoginRoles : Login(c, wish)
      PROVE  HandshakeRests
  <2>1. UNCHANGED <<asem, archiver>>
    BY <1>1 DEF Accept, LoginFails, Login, boardVars
  <2>2. Clearing' = Clearing
    BY <1>1 DEF Accept, LoginFails, Login, CloseSocket, GotoWith, Goto, At, Clearing, ClearsIn,
      TypeOK, ThreadTypeOK
  <2>. QED BY <2>1, <2>2 DEF HandshakeRests
<1>2. ASSUME NEW c \in Clients, Message(c)
      PROVE  HandshakeRests
  <2>1. UNCHANGED <<asem, archiver>>
    BY <1>2 DEF Message, ReadBoard, Request, Reply, Shutdown, UnknownMessage, ThrowOut,
      boardVars
  <2>2. pc[c] # "clear_wait"
    BY <1>2 DEF Message, ReadBoard, Request, Reply, Shutdown, UnknownMessage, CanReceive, At
  <2>3. \E label : label # "clear_wait" /\ (pc' = pc \/ Goto(c, label))
    BY <1>2 DEF Message, ReadBoard, RefuseBoard, GotoWith, Request, Reply, Shutdown,
      UnknownMessage, ThrowOut, NoAnswer, TakeBack, GiveBack, TakeFree, QueryDocent, Deny,
      Grant
  <2>. QED BY <2>1, <2>2, <2>3, ClearingStays DEF HandshakeRests
<1>3. ASSUME NEW c \in Clients, ThreadStep(c)
      PROVE  TriggerArchiver(c) \/ AwaitArchiver(c) \/ HandshakeRests
  <2>1. CASE TriggerArchiver(c) \/ AwaitArchiver(c)
    BY <2>1
  <2>2. CASE ~TriggerArchiver(c) /\ ~AwaitArchiver(c)
    <3>1. UNCHANGED <<asem, archiver>>
      BY <1>3, <2>2 DEF ThreadStep, EnterList, CopyInitialBoard, SendInitialBoard, CheckWrite,
        EraseBoard, ReceiveBoard, ReceiveShort, ReceiveFails, StoreBoard, LockedTrigger,
        Trigger, LeftOverText, ThrowOut, Disconnected, LeaveList, LogoutTrigger, boardVars
    <3>2. pc[c] # "clear_wait"
      BY <1>3, <2>2 DEF ThreadStep, EnterList, CopyInitialBoard, SendInitialBoard, CheckWrite,
        EraseBoard, ReceiveBoard, ReceiveShort, ReceiveFails, LockedTrigger, Trigger,
        LeftOverText, Disconnected, LeaveList, LogoutTrigger, At
    <3>3. \E label : label # "clear_wait" /\ (pc' = pc \/ Goto(c, label))
      BY <1>3, <2>2 DEF ThreadStep, EnterList, CopyInitialBoard, SendInitialBoard, CheckWrite,
        AcceptBoard, RefuseBoard, EraseBoard, ReceiveBoard, ReceiveShort, ReceiveFails,
        GotoWith, LockedTrigger, Trigger, LeftOverText, ThrowOut, Disconnected, LeaveList,
        LogoutTrigger, CloseSocket, threadVars
    <3>. QED BY <3>1, <3>2, <3>3, ClearingStays DEF HandshakeRests
  <2>. QED BY <2>1, <2>2
<1>4. ASSUME \/ \E c \in Clients : PeerStep(c)
             \/ AgentNext /\ UNCHANGED threadVars
             \/ Exit \/ UNCHANGED vars
      PROVE  HandshakeRests
  <2>1. UNCHANGED <<asem, archiver, pc>>
    BY <1>4 DEF PeerStep, AgentNext, AgentFirstWait, AgentWakes, SpuriousWakeup,
      BroadcastStatus, CopyBoardToSend, BroadcastBlackboard, AgentStep, Exit, vars, boardVars,
      threadVars
  <2>. QED BY <2>1 DEF Clearing, ClearsIn, HandshakeRests
<1>. QED
  BY <1>1, <1>2, <1>3, <1>4 DEF Next, ClientNext

\* Every step.
LEMMA ParityStep ==
  ASSUME TypeOK, ParityInv, [Next]_vars
  PROVE  ParityInv'
BY HandshakeSteps, TriggerParity, AwaitParity, ArchiverParity, ParityKept DEF HandshakeRests

(***************************************************************************)
(* The archiver's semaphore stays within two, and is one whenever no clear *)
(* waits and the archiver is back at its wait: the next clear waits for    *)
(* its own archive (archiver.c:100-118, message_handler.c:243-247).        *)
(***************************************************************************)
THEOREM HandshakeKept == Spec => []HandshakeBalanced
<1>1. Init => ParityInv
  <2>1. Init => Clearing = {}
    BY DEF Init, Clearing, ClearsIn
  <2>. QED BY <2>1, FS_EmptySet DEF Init, BoardInit, ParityInv
<1>2. TypeOK /\ ParityInv /\ [Next]_vars => ParityInv'
  BY ParityStep
<1>3. ParityInv => HandshakeBalanced
  <2>. SUFFICES ASSUME ParityInv, archiver = "wait", Clearing = {}
                PROVE  asem = 1
    BY DEF HandshakeBalanced, ParityInv, Clearing
  <2>1. Cardinality(Clearing) = 0
    BY FS_EmptySet
  <2>. QED BY <2>1 DEF ParityInv
<1>. QED BY <1>1, <1>2, <1>3, TypeCorrect, PTL DEF Spec
-----------------------------------------------------------------------------
(***************************************************************************)
(* Deadlock.                                                               *)
(***************************************************************************)

\* Whom anybody waits for.
LEMMA WaitedFor ==
  ASSUME NEW t
  PROVE  WaitsFor(t) \in {cl_mutex, bsem, "agent", "archiver", Nobody}
BY DEF WaitsFor, ListHolder, BoardHolder, TriggerHolder

\* The thread that has the board's semaphore waits for nobody, and nobody is
\* waited for by Nobody.
LEMMA BoardHolderGoesOn ==
  ASSUME StructInv
  PROVE  WaitsFor(bsem) = Nobody /\ WaitsFor(Nobody) = Nobody
<1>1. WaitsFor(Nobody) = Nobody
  BY ThreadsAssumption, NobodyAssumption DEF WaitsFor
<1>2. CASE bsem \in Clients
  <2>1. pc[bsem] = "receive"
    BY <1>2 DEF StructInv, LocksMatchSections
  <2>. QED BY <1>1, <1>2, <2>1, ThreadsAssumption DEF WaitsFor
<1>. QED BY <1>1, <1>2 DEF StructInv, TypeOK, BoardTypeOK

(***************************************************************************)
(* The only deadlock is the one of the agent and the thread that keeps the *)
(* list: the board's semaphore and the archiver are part of no cycle       *)
(* (message_handler.c:336-417, broadcasting.c:32-96).                      *)
(***************************************************************************)
THEOREM InversionOnly == Spec => []OnlyInversionDeadlocks
<1>1. ASSUME StructInv, NEW t \in Threads, InCycle(t)
      PROVE  t \in {"agent", cl_mutex}
  <2>. DEFINE w1 == WaitsFor(t)
              w2 == WaitsFor(w1)
              w3 == WaitsFor(w2)
              w4 == WaitsFor(w3)
  <2>1. t \in {w1, w2, w3, w4}
    BY <1>1 DEF InCycle
  <2>2. t \in {cl_mutex, bsem, "agent", "archiver"}
    <3>1. t # Nobody
      BY NobodyAssumption, ThreadsAssumption DEF Threads
    <3>. QED BY <2>1, <3>1, WaitedFor
  <2>3. WaitsFor(bsem) = Nobody /\ WaitsFor(Nobody) = Nobody
    BY <1>1, BoardHolderGoesOn
  <2>4. WaitsFor("archiver") \in {bsem, Nobody}
    BY DEF WaitsFor, BoardHolder
  <2>5. bsem # "archiver" /\ Nobody # "archiver" /\ t # Nobody
    BY <1>1, NobodyAssumption, ThreadsAssumption DEF StructInv, TypeOK, BoardTypeOK, Threads
  <2>6. CASE t = bsem
    <3>1. w1 = Nobody /\ w2 = Nobody /\ w3 = Nobody /\ w4 = Nobody
      BY <2>3, <2>6
    <3>. QED BY <2>1, <2>5, <3>1
  <2>7. CASE t = "archiver"
    <3>1. /\ w1 \in {bsem, Nobody} /\ w2 \in {bsem, Nobody}
          /\ w3 \in {bsem, Nobody} /\ w4 \in {bsem, Nobody}
      BY <2>3, <2>4, <2>7
    <3>. QED BY <2>1, <2>5, <2>7, <3>1
  <2>. QED BY <2>2, <2>6, <2>7
<1>2. StructInv => OnlyInversionDeadlocks
  BY <1>1 DEF OnlyInversionDeadlocks
<1>. QED BY <1>2, StructureKept, PTL
-----------------------------------------------------------------------------
(***************************************************************************)
(* Status messages.  Every change of what they carry is followed by a      *)
(* trigger of the same thread, and a trigger finds the agent waiting or    *)
(* already signalled, as long as no board is broadcast instead and the     *)
(* agent waits before the first client connects.                           *)
(***************************************************************************)
StatusOnly ==
  /\ Inputs \cap {"board", "clear"} = {}
  /\ AgentStart = "waiting" /\ "status" \in Recorded

NoBoards ==
  /\ broadcast_type = "STATUS" /\ agent \in {"waiting", "signalled", "woken"}
  /\ \A c \in Clients : msg[c].type = "none"
  /\ \A c \in Clients : pc[c] # "check_write"

\* A thread with one of these labels is going to trigger a status.
Announcing == {"initial_board", "send_board", "trigger", "locked_trigger", "logout_trigger"}

Announced ==
  \/ agent \in {"signalled", "woken"}
  \/ \E c \in Clients : pc[c] \in Announcing
  \/ \A u \in members : peer[u] = "open" => status[u] = StatusFor(u)

\* A send leaves no connection open that was not.
LEMMA SendOpens ==
  ASSUME StructInv, NEW S, SendTo(S), NEW u \in Clients, peer'[u] = "open"
  PROVE  peer[u] = "open"
BY DEF SendTo, AfterSend

\* Nor does the report of an error.
LEMMA FailureOpens ==
  ASSUME StructInv, NEW c \in Clients, peer' = [peer EXCEPT ![c] = AfterFailedRecv(@)],
         NEW u \in Clients, peer'[u] = "open"
  PROVE  peer[u] = "open"
BY DEF AfterFailedRecv, StructInv, TypeOK, ConnTypeOK

\* A step that changes nothing a status message carries.
LEMMA AnnouncedKept ==
  ASSUME StructInv, Announced,
         UNCHANGED <<agent, status, members, user_docent, user_write, client_counter>>,
         \A u \in members : peer'[u] = "open" => peer[u] = "open",
         \A c \in Clients : pc[c] \in Announcing => pc'[c] \in Announcing
  PROVE  Announced'
<1>1. \A u : StatusFor(u)' = StatusFor(u)
  BY DEF StatusFor, DocentExists, TutorExists
<1>. QED BY <1>1 DEF Announced

\* Without boards every trigger is a status.
LEMMA NoBoardsStep ==
  ASSUME StatusOnly, StructInv, NoBoards, [Next]_vars
  PROVE  NoBoards'
<1>0. /\ msg \in [Clients -> Messages] /\ pc \in [Clients -> Labels]
  BY DEF StructInv, TypeOK, ThreadTypeOK
<1>1. ASSUME NEW c \in Clients,
             \/ UNCHANGED msg
             \/ \E m : msg' = [msg EXCEPT ![c] = m] /\ m.type = "none",
             \/ UNCHANGED pc
             \/ \E label : Goto(c, label) /\ label # "check_write",
             broadcast_type' = "STATUS", agent' \in {"waiting", "signalled", "woken"}
      PROVE  NoBoards'
  BY <1>0, <1>1 DEF NoBoards, Goto
<1>2. \A c \in Clients : TypeToTrigger(msg[c]) = "STATUS"
  BY DEF NoBoards, TypeToTrigger
<1>3. ASSUME NEW type, TriggerBroadcast(type)
      PROVE  agent' \in {"waiting", "signalled", "woken"} /\ broadcast_type' = type
  BY <1>3 DEF TriggerBroadcast, NoBoards
<1>4. NoMessage.type = "none"
  BY DEF NoMessage
<1>5. ASSUME NEW c \in Clients,
             \/ Accept(c) \/ LoginFails(c)
             \/ \E wish \in LoginRoles : Login(c, wish)
      PROVE  NoBoards'
  BY <1>1, <1>4, <1>5 DEF Accept, LoginFails, Login, CloseSocket, GotoWith, castVars, NoBoards
<1>6. ASSUME NEW c \in Clients, Message(c)
      PROVE  NoBoards'
  <2>1. \/ \E write \in BOOLEAN : Request(c, write)
        \/ \E k \in queries[c], write \in BOOLEAN : Reply(c, k, write)
        \/ Shutdown(c) \/ UnknownMessage(c)
    BY <1>6 DEF StatusOnly, Message
  <2>2. UNCHANGED <<msg, castVars>>
    BY <2>1 DEF Request, Reply, Shutdown, UnknownMessage, ThrowOut, NoAnswer, TakeBack,
      GiveBack, TakeFree, QueryDocent
  <2>3. \/ Goto(c, "idle") \/ Goto(c, "remove")
        \/ Goto(c, "trigger") \/ Goto(c, "locked_trigger")
    <3>1. ASSUME NEW write \in BOOLEAN, Request(c, write)
          PROVE  \/ Goto(c, "idle") \/ Goto(c, "remove")
                 \/ Goto(c, "trigger") \/ Goto(c, "locked_trigger")
      BY <3>1 DEF Request, NoAnswer, TakeBack, GiveBack, TakeFree, QueryDocent
    <3>2. ASSUME NEW k \in queries[c], NEW write \in BOOLEAN, Reply(c, k, write)
          PROVE  Goto(c, "idle") \/ Goto(c, "remove") \/ Goto(c, "trigger")
      BY <3>2 DEF Reply, Deny, Grant
    <3>3. CASE Shutdown(c) \/ UnknownMessage(c)
      BY <3>3 DEF Shutdown, UnknownMessage, ThrowOut
    <3>. QED BY <2>1, <3>1, <3>2, <3>3
  <2>4. \E label : Goto(c, label) /\ label # "check_write"
    <3>1. /\ "idle" # "check_write" /\ "remove" # "check_write"
          /\ "trigger" # "check_write" /\ "locked_trigger" # "check_write"
      OBVIOUS
    <3>. QED BY <2>3, <3>1
  <2>. QED BY <1>1, <2>2, <2>4 DEF castVars, NoBoards
<1>7. ASSUME NEW c \in Clients, Trigger(c) \/ LockedTrigger(c) \/ LogoutTrigger(c)
      PROVE  NoBoards'
  <2>1. TriggerBroadcast("STATUS")
    BY <1>2, <1>7 DEF Trigger, LockedTrigger, LogoutTrigger
  <2>. QED
    BY <1>1, <1>3, <1>4, <1>7, <2>1 DEF Trigger, LockedTrigger, LogoutTrigger, CloseSocket,
      GotoWith
<1>8. ASSUME NEW c \in Clients, ThreadStep(c), ~Trigger(c), ~LockedTrigger(c),
             ~LogoutTrigger(c)
      PROVE  NoBoards'
  <2>1. UNCHANGED <<agent, broadcast_type>>
    BY <1>8 DEF ThreadStep, EnterList, CopyInitialBoard, SendInitialBoard, CheckWrite,
      TriggerArchiver, AwaitArchiver, LockTrigger, EraseBoard, ReceiveBoard, ReceiveShort,
      ReceiveFails, StoreBoard, LeftOverText, ThrowOut, Disconnected, LeaveList, castVars
  <2>2. ~CheckWrite(c)
    BY DEF NoBoards, CheckWrite, At
  <2>3. \/ UNCHANGED pc
        \/ \E label : Goto(c, label) /\ label # "check_write"
    BY <1>8, <2>2 DEF ThreadStep, EnterList, CopyInitialBoard, SendInitialBoard,
      TriggerArchiver, AwaitArchiver, LockTrigger, EraseBoard, ReceiveBoard, ReceiveShort,
      ReceiveFails, GotoWith, LeftOverText, ThrowOut, Disconnected, LeaveList
  <2>4. \/ UNCHANGED msg
        \/ \E m : msg' = [msg EXCEPT ![c] = m] /\ m.type = "none"
    BY <1>4, <1>8, <2>2 DEF ThreadStep, EnterList, CopyInitialBoard, SendInitialBoard,
      TriggerArchiver, AwaitArchiver, LockTrigger, EraseBoard, ReceiveBoard, ReceiveShort,
      ReceiveFails, GotoWith, LeftOverText, ThrowOut, Disconnected, LeaveList
  <2>. QED BY <1>1, <2>1, <2>3, <2>4 DEF NoBoards
<1>9. CASE AgentNext /\ UNCHANGED threadVars
  <2>1. broadcast_type' = "STATUS" /\ agent' \in {"waiting", "signalled", "woken"}
    BY <1>9 DEF AgentNext, AgentFirstWait, AgentWakes, SpuriousWakeup, BroadcastStatus,
      CopyBoardToSend, BroadcastBlackboard, AgentStep, NoBoards
  <2>. QED BY <1>9, <2>1 DEF threadVars, NoBoards
<1>10. CASE (\E c \in Clients : PeerStep(c)) \/ ArchiverNext \/ Exit \/ UNCHANGED vars
  BY <1>10 DEF PeerStep, ArchiverNext, Exit, vars, castVars, threadVars, NoBoards
<1>. QED BY <1>5, <1>6, <1>7, <1>8, <1>9, <1>10 DEF Next, ClientNext

\* Every step that changes what a status message carries is announced.
LEMMA AnnouncedStep ==
  ASSUME StatusOnly, StructInv, NoBoards, Announced, [Next]_vars
  PROVE  Announced'
<1>0. /\ pc \in [Clients -> Labels] /\ members \subseteq Clients
      /\ peer \in [Clients -> PeerStates]
  BY DEF StructInv, TypeOK, ThreadTypeOK, ListTypeOK, ConnTypeOK
<1>1. ASSUME NEW c \in Clients, NEW label \in Announcing, Goto(c, label)
      PROVE  Announced'
  BY <1>0, <1>1 DEF Announced, Goto
<1>2. ASSUME NEW c \in Clients, NEW label, Goto(c, label), pc[c] \notin Announcing,
             UNCHANGED <<castVars, members, user_docent, user_write, client_counter>>,
             \A u \in members : peer'[u] = "open" => peer[u] = "open"
      PROVE  Announced'
  <2>1. \A d \in Clients : pc[d] \in Announcing => pc'[d] \in Announcing
    BY <1>0, <1>2 DEF Goto
  <2>. QED BY <1>2, <2>1, AnnouncedKept DEF castVars
<1>3. ASSUME NEW c \in Clients,
             \/ Accept(c) \/ LoginFails(c)
             \/ \E wish \in LoginRoles : Login(c, wish)
      PROVE  Announced'
  <2>1. pc[c] \notin Announcing /\ c \notin members
    BY <1>3 DEF Accept, LoginFails, Login, At, Announcing, StructInv, ListMatchesThreads,
      ListedLabels
  <2>2. \A u \in members : peer'[u] = "open" => peer[u] = "open"
    BY <1>0, <1>3, <2>1 DEF Accept, LoginFails, Login, CloseSocket, connVars
  <2>3. /\ UNCHANGED <<castVars, members, user_docent, user_write, client_counter>>
        /\ \E label : Goto(c, label)
    BY <1>3 DEF Accept, LoginFails, Login, CloseSocket, GotoWith, listVars
  <2>. QED BY <1>2, <2>1, <2>2, <2>3
<1>4. ASSUME NEW c \in Clients,
             EnterList(c) \/ CopyInitialBoard(c) \/ SendInitialBoard(c) \/ LeaveList(c)
      PROVE  Announced'
  BY <1>1, <1>4 DEF EnterList, CopyInitialBoard, SendInitialBoard, LeaveList, GotoWith,
    Announcing
<1>5. ASSUME NEW c \in Clients, Trigger(c) \/ LockedTrigger(c) \/ LogoutTrigger(c)
      PROVE  Announced'
  <2>1. agent' = "signalled"
    BY <1>5 DEF Trigger, LockedTrigger, LogoutTrigger, TriggerBroadcast, TriggerMutexFree,
      NoBoards
  <2>. QED BY <2>1 DEF Announced
<1>6. ASSUME NEW c \in Clients, Message(c)
      PROVE  Announced'
  <2>1. CASE pc' = pc /\ peer' = peer /\ UNCHANGED <<castVars, listVars>>
    BY <2>1, AnnouncedKept DEF castVars, listVars
  <2>2. pc[c] \notin Announcing
    BY <1>6 DEF Message, ReadBoard, Request, Reply, Shutdown, UnknownMessage, CanReceive, At,
      Announcing
  <2>3. ASSUME NEW write \in BOOLEAN, Request(c, write) PROVE Announced'
    <3>1. CASE TakeBack(c) \/ GiveBack(c) \/ TakeFree(c)
      BY <1>1, <3>1 DEF TakeBack, GiveBack, TakeFree, Announcing
    <3>2. CASE NoAnswer(c)
      BY <1>2, <2>2, <2>3, <3>2 DEF Request, NoAnswer, connVars, listVars
    <3>3. CASE QueryDocent(c)
      <4>1. \A u \in members : peer'[u] = "open" => peer[u] = "open"
        BY <1>0, <3>3, SendOpens DEF QueryDocent
      <4>2. UNCHANGED <<castVars, listVars>> /\ \E label : Goto(c, label)
        BY <2>3, <3>3 DEF Request, QueryDocent
      <4>. QED BY <1>2, <2>2, <4>1, <4>2 DEF listVars
    <3>. QED BY <2>3, <3>1, <3>2, <3>3 DEF Request
  <2>4. ASSUME NEW k \in queries[c], NEW write \in BOOLEAN, Reply(c, k, write)
        PROVE  Announced'
    <3>1. CASE Grant(c, UserWithCid(k))
      BY <1>1, <3>1 DEF Grant, Announcing
    <3>2. CASE ~Grant(c, UserWithCid(k))
      <4>1. /\ UNCHANGED <<castVars, listVars>>
            /\ \E label : Goto(c, label)
        BY <2>4, <3>2 DEF Reply, Deny
      <4>2. UNCHANGED peer \/ \E S : SendTo(S)
        BY <2>4, <3>2 DEF Reply, Deny, Crash, connVars
      <4>3. \A u \in members : peer'[u] = "open" => peer[u] = "open"
        BY <1>0, <4>2, SendOpens
      <4>. QED BY <1>2, <2>2, <4>1, <4>3 DEF listVars
    <3>. QED BY <3>1, <3>2
  <2>5. CASE Shutdown(c) \/ UnknownMessage(c)
    <3>1. /\ UNCHANGED <<castVars, listVars, peer>>
          /\ \E label : Goto(c, label)
      BY <2>5 DEF Shutdown, UnknownMessage, ThrowOut, connVars
    <3>. QED BY <1>2, <2>2, <3>1 DEF listVars
  <2>. QED BY <1>6, <2>3, <2>4, <2>5 DEF Message, StatusOnly
<1>7. ASSUME NEW c \in Clients,
             \/ TriggerArchiver(c) \/ AwaitArchiver(c) \/ EraseBoard(c)
             \/ ReceiveBoard(c) \/ ReceiveShort(c) \/ ReceiveFails(c)
             \/ LeftOverText(c) \/ Disconnected(c)
      PROVE  Announced'
  <2>1. pc[c] \notin Announcing
    BY <1>7 DEF TriggerArchiver, AwaitArchiver, LockTrigger, EraseBoard, ReceiveBoard,
      ReceiveShort, ReceiveFails, LeftOverText, Disconnected, At, Announcing
  <2>2. /\ UNCHANGED <<castVars, listVars>>
        /\ \E label : Goto(c, label)
    BY <1>7 DEF TriggerArchiver, AwaitArchiver, LockTrigger, EraseBoard, ReceiveBoard,
      ReceiveShort, ReceiveFails, StoreBoard, GotoWith, LeftOverText, ThrowOut, Disconnected
  <2>3. UNCHANGED peer \/ peer' = [peer EXCEPT ![c] = AfterFailedRecv(@)]
    BY <1>7 DEF TriggerArchiver, AwaitArchiver, LockTrigger, EraseBoard, ReceiveBoard,
      ReceiveShort, ReceiveFails, LeftOverText, ThrowOut, Disconnected, connVars
  <2>4. \A u \in members : peer'[u] = "open" => peer[u] = "open"
    BY <1>0, <2>3, FailureOpens
  <2>. QED BY <1>2, <2>1, <2>2, <2>4 DEF listVars
<1>8. CASE AgentNext /\ UNCHANGED threadVars
  <2>1. CASE AgentWakes \/ SpuriousWakeup
    BY <2>1 DEF AgentWakes, SpuriousWakeup, AgentStep, Announced
  <2>2. CASE BroadcastStatus
    <3>1. UNCHANGED <<members, user_docent, user_write, client_counter>>
      BY <2>2 DEF BroadcastStatus, AgentStep, listVars
    <3>2. \A u : StatusFor(u)' = StatusFor(u)
      BY <3>1 DEF StatusFor, DocentExists, TutorExists
    <3>3. \A u \in members : status'[u] = StatusFor(u)
      BY <1>0, <2>2 DEF BroadcastStatus, RecordStatus, StatusOnly
    <3>. QED BY <3>1, <3>2, <3>3 DEF Announced
  <2>3. CASE AgentFirstWait \/ CopyBoardToSend \/ BroadcastBlackboard
    BY <2>3 DEF AgentFirstWait, CopyBoardToSend, BroadcastBlackboard, AgentStep, NoBoards
  <2>. QED BY <1>8, <2>1, <2>2, <2>3 DEF AgentNext
<1>9. CASE (\E c \in Clients : PeerStep(c)) \/ ArchiverNext \/ Exit \/ UNCHANGED vars
  <2>1. UNCHANGED <<listVars, castVars, pc>>
    BY <1>9 DEF PeerStep, ArchiverNext, Exit, vars, threadVars
  <2>2. \A u \in members : peer'[u] = "open" => peer[u] = "open"
    BY <1>0, <1>9 DEF PeerStep, PeerLeaves, ResetArrives, ArchiverNext, Exit, vars, connVars
  <2>. QED BY <2>1, <2>2, AnnouncedKept DEF listVars, castVars
<1>10. ASSUME NEW c \in Clients, CheckWrite(c) PROVE Announced'
  BY <1>10 DEF CheckWrite, At, NoBoards
<1>. QED
  BY <1>3, <1>4, <1>5, <1>6, <1>7, <1>8, <1>9, <1>10 DEF Next, ClientNext, ThreadStep

(***************************************************************************)
(* When the server is at rest every connected client has been sent the     *)
(* current write permission and numbers, although the condition variable   *)
(* has no predicate: provided nobody sends boards and the agent waits      *)
(* before the first client comes (broadcasting.c:31-36, 174-196).          *)
(***************************************************************************)
THEOREM StatusReaches == StatusOnly => (Spec => []StatusUpToDate)
<1>. SUFFICES ASSUME StatusOnly PROVE Spec => []StatusUpToDate
  OBVIOUS
<1>1. Init => NoBoards /\ Announced
  BY DEF StatusOnly, Init, ListInit, CastInit, NoBoards, NoMessage, Announced
<1>2. StructInv /\ NoBoards /\ Announced /\ [Next]_vars => NoBoards' /\ Announced'
  BY NoBoardsStep, AnnouncedStep
<1>3. NoBoards /\ Announced => StatusUpToDate
  BY DEF Announced, StatusUpToDate, Quiet, Announcing
<1>. QED BY <1>1, <1>2, <1>3, StructureKept, PTL DEF Spec

=============================================================================
