-------------------------- MODULE ServerProperties --------------------------
(***************************************************************************)
(* The properties of the server: Server.tla says what the code does, this  *)
(* module what it has to guarantee.                                        *)
(***************************************************************************)
EXTENDS Server

\* Every variable stays within its domain (all modules of the server).
TypeOK ==
  ConnTypeOK /\ ListTypeOK /\ BoardTypeOK /\ CastTypeOK /\ ThreadTypeOK

-----------------------------------------------------------------------------
(***************************************************************************)
(* Safety of the client list.                                              *)
(***************************************************************************)

\* The labels of a thread whose connection has an entry in the list.
ListedLabels == Labels \ {"none", "login", "add", "logout_trigger"}

\* A connection is in the client list exactly from add_client to
\* remove_client of its own thread, and its descriptor is open all that time:
\* remove_client always finds its entry, and no send through an entry goes to
\* a descriptor that accept() has handed to another client.
ListMatchesThreads ==
  /\ \A c \in Clients : c \in members <=> pc[c] \in ListedLabels
  /\ \A c \in Clients : peer[c] = "none" <=> pc[c] = "none"

\* user_docent and user_write never dangle: they are NULL or point to a listed
\* entry, the docent's entry has role DOCENT, and while there is a docent
\* somebody has write access, which the take-back in request_handler
\* dereferences without a test.
PointersValid ==
  /\ user_docent \in members \cup {Nobody}
  /\ user_write \in members \cup {Nobody}
  /\ user_docent # Nobody => role[user_docent] = "DOCENT" /\ user_write # Nobody

\* client_counter is the length of the list, and the number of students a
\* status message carries (a uint16_t difference) never wraps below zero.
CountsRight ==
  /\ client_counter = Cardinality(members)
  /\ \A u \in members : StatusFor(u).scount >= 0

\* Client ids of the listed and of the entering clients are distinct and not
\* zero, even after the id counter has overflowed.
CidsUnique ==
  LET holders == {c \in Clients : pc[c] \in ListedLabels \cup {"add"}}
  IN \A c, d \in holders : cid[c] # 0 /\ (c # d => cid[c] # cid[d])

\* A login is never given an id that a query the docent has not answered yet is
\* about: however late the docent's reply comes, and whoever has left and logged
\* in meanwhile, it grants or denies the write access to the client that asked.
QueriedIdsNotReused ==
  [][\A u \in Clients :
       pc[u] = "login" /\ pc'[u] = "add" =>
         \A c \in Clients : cid'[u] \notin queries[c]]_vars

\* Each lock kept across steps is held by exactly the thread that is in the
\* section it protects: no early return of a handler leaks it, and the board
\* is in an intermediate state only while its semaphore is taken.
LocksMatchSections ==
  /\ \A c \in Clients : cl_mutex = c <=> pc[c] = "locked_trigger"
  /\ \A c \in Clients : bsem = c <=> pc[c] = "receive"
  /\ board = "torn" => bsem # Nobody

-----------------------------------------------------------------------------
(***************************************************************************)
(* Deadlock.                                                               *)
(***************************************************************************)

Threads == Clients \cup {"agent", "archiver"}

\* The agent and the archiver serve no connection.
ASSUME ThreadsAssumption == {"agent", "archiver"} \cap (Clients \cup {Nobody}) = {}

ListHolder == cl_mutex
BoardHolder == bsem
TriggerHolder == IF TriggerMutexFree THEN Nobody ELSE "agent"

\* The thread t waits for, or Nobody.
WaitsFor(t) ==
  IF t = "agent" THEN
    CASE agent = "copied" -> ListHolder
      [] agent = "woken" /\ broadcast_type = "STATUS" -> ListHolder
      [] agent = "woken" /\ broadcast_type # "STATUS" -> BoardHolder
      [] OTHER -> Nobody
  ELSE IF t = "archiver" THEN
    IF archiver = "archive" THEN BoardHolder ELSE Nobody
  ELSE IF t \in Clients THEN
    CASE pc[t] \in {"add", "remove"} -> ListHolder
      [] pc[t] \in {"initial_board", "board_lock"} -> BoardHolder
      [] pc[t] \in {"trigger", "locked_trigger", "logout_trigger"} -> TriggerHolder
      [] pc[t] \in {"clear_trigger", "clear_wait"} /\ asem = 0 -> "archiver"
      [] OTHER -> Nobody
  ELSE Nobody

\* Whether t waits for itself.  Only holders of the list mutex, of the trigger
\* mutex, of the board semaphore and the archiver are waited for: a cycle has
\* at most four threads.
InCycle(t) ==
  LET w1 == WaitsFor(t)
      w2 == WaitsFor(w1)
      w3 == WaitsFor(w2)
  IN t \in {w1, w2, w3, WaitsFor(w3)}

\* The locks and semaphores of the server admit one deadlock only: the
\* broadcasting agent, holding trigger_mutex, waits for the client list while
\* request_handler, holding the client list, waits for trigger_mutex.  The
\* archiver handshake and the board semaphore are part of no cycle.
OnlyInversionDeadlocks ==
  \A t \in Threads : InCycle(t) => t \in {"agent", cl_mutex}

-----------------------------------------------------------------------------
(***************************************************************************)
(* What the clients get to see.                                            *)
(***************************************************************************)

\* Nothing is under way inside the server.
Quiet ==
  /\ Running
  /\ agent = "waiting"
  /\ \A c \in Clients : pc[c] \in {"none", "login", "idle"} /\ ~unread[c]

\* When the server is at rest every connected client has been sent the current
\* write permission and the current numbers of users: no trigger is lost in
\* the condition variable without predicate, as long as no board message
\* triggers the agent.
StatusUpToDate ==
  Quiet => \A u \in members : peer[u] = "open" => status[u] = StatusFor(u)

\* When the server is at rest every connected client without write access
\* shows the board the server holds.
BoardUpToDate ==
  Quiet => \A u \in members \ {user_write} :
             peer[u] = "open" => shown[u] = board

\* Nobody copies the board out of shared memory (for the login, a broadcast
\* or the archive) while board_handler is between zeroing and storing it.
NoTornCopy ==
  /\ outgoing # "torn"
  /\ archived # "torn"
  /\ \A c \in Clients : msg[c].content # "torn"

-----------------------------------------------------------------------------
(***************************************************************************)
(* Clearing the board.                                                     *)
(***************************************************************************)

ClearsIn(label) == {c \in Clients : pc[c] = label}

\* The two lock_sem of a clear and the two unlock_sem of the archiver stay
\* balanced however many clears overlap: the semaphore never exceeds two, and
\* when no clear waits and the archiver is back at wait_sem it is one again,
\* so the next clear waits for its archive.
HandshakeBalanced ==
  /\ asem \in 0..2
  /\ archiver = "wait" /\ ClearsIn("clear_wait") = {} => asem = 1

\* A clear erases nothing that is not in the archive file.
ClearedIsArchived ==
  [][\A c \in Clients :
       pc[c] = "board_lock" /\ pc'[c] # "board_lock" /\ msg[c].type = "clear"
         => board \in {archived, "empty"}]_vars

\* A clear that has triggered the archiver ends, with the board erased.
ClearCompletes ==
  \A c \in Clients :
    (pc[c] = "clear_trigger") ~> (pc[c] = "trigger" \/ ~Running)

-----------------------------------------------------------------------------
(***************************************************************************)
(* Failures and progress.                                                  *)
(***************************************************************************)

\* A NULL dereference comes from a denied user that is gone, or from the second
\* read of has_write_access.
KnownCrash ==
  server' = "crashed" /\ server # "crashed" =>
    \E c \in Clients :
      \/ pc[c] = "check_write" /\ user_write = Nobody
      \/ IsDocent(c) /\ \E k \in queries[c] : UserWithCid(k) = Nobody

\* The server dereferences NULL in two places only: for a denied user that is
\* gone, and between the two unlocked reads of has_write_access.  Neither
\* remove_client nor the docent's take-back ever does.
OnlyKnownCrashes == [][KnownCrash]_vars

\* No NULL pointer is dereferenced.
NeverCrashes == server # "crashed"

\* A client whose board came too late is not thrown out for it.
LateWriterStays ==
  \A c \in Clients : pc[c] = "remove" /\ unread[c] => peer[c] # "open"

\* A client that left or was thrown out is removed and its socket closed.
LogoutCompletes ==
  \A c \in Clients : (pc[c] = "remove") ~> (pc[c] = "none" \/ ~Running)

\* A trigger that reached the agent is followed by its broadcast.
TriggerServed == (agent = "signalled") ~> (agent = "waiting" \/ ~Running)

\* Every change of the write access is announced to every connected client.
ChangeAnnounced ==
  \A u \in Clients :
    LET outdated == /\ u \in members
                    /\ peer[u] = "open"
                    /\ status[u].write # (u = user_write)
    IN outdated ~> (~outdated \/ ~Running)

-----------------------------------------------------------------------------
\* The entries and the two pointers of the list as the state of WriteToken.
Token == INSTANCE WriteToken
  WITH present <- members, docent <- user_docent, writer <- user_write

\* The write access of the server is the token of WriteToken: it is held by
\* one listed client and moves only by login and logout, by the docent, by its
\* holder, or to the first who asks when it is free.
WriteTokenKept == Token!TokenSpec

=============================================================================
