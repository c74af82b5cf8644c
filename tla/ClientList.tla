---------------------------- MODULE ClientList ----------------------------
(***************************************************************************)
(* client_list.c: the entries of the logged-in clients, the two pointers   *)
(* into them (user_docent, user_write), the counter of entries, the        *)
(* counter of client ids and the mutex.  The doubly linked list is a set   *)
(* of descriptors: no operation of the program depends on its order.       *)
(* An operation that locks, works and unlocks is one step guarded by the   *)
(* free mutex; cl_mutex names the thread that keeps it across steps.       *)
(***************************************************************************)
EXTENDS Connections

CONSTANT MaxCid   \* largest value of the uint16_t counter

ASSUME MaxCidAssumption == MaxCid \in Nat \ {0}

VARIABLES
  members,         \* connections with an entry in the list
  role,            \* cdata->role
  cid,             \* cdata->cid
  user_docent,
  user_write,
  client_counter,
  cid_counter,
  cl_mutex         \* holder of the list mutex

listVars == <<members, role, cid, user_docent, user_write, client_counter,
              cid_counter, cl_mutex>>

\* What a login may ask for, and what an entry holds.
LoginRoles == {"INDIFFERENT", "STUDENT", "DOCENT"}
EntryRoles == {"none", "STUDENT", "DOCENT"}

ListTypeOK ==
  /\ members \subseteq Clients
  /\ role \in [Clients -> EntryRoles]
  /\ cid \in [Clients -> 0..MaxCid]
  /\ user_docent \in Clients \cup {Nobody}
  /\ user_write \in Clients \cup {Nobody}
  /\ client_counter \in Int
  /\ cid_counter \in 0..MaxCid
  /\ cl_mutex \in Clients \cup {Nobody}

ListInit ==
  /\ members = {}
  /\ role = [c \in Clients |-> "none"]
  /\ cid = [c \in Clients |-> 0]
  /\ user_docent = Nobody
  /\ user_write = Nobody
  /\ client_counter = 0
  /\ cid_counter = 0
  /\ cl_mutex = Nobody

DocentExists == user_docent # Nobody
\* Fault: a writer counts as tutor only beside a docent.
TutorOnlyBesideDocent == user_docent # Nobody /\ user_docent # user_write
TutorExists == user_write # Nobody /\ user_docent # user_write
HasWriteAccess(c) == user_write # Nobody /\ user_write = c
IsDocent(c) == user_docent # Nobody /\ user_docent = c

UserWithCid(k) ==
  IF \E u \in members : cid[u] = k
    THEN CHOOSE u \in members : cid[u] = k
    ELSE Nobody

\* Fault: the increment is not cut to sixteen bits.
NextCidUncut == cid_counter + 1

\* get_next_cid: ++cid_counter in uint16_t; on overflow 0 is returned and
\* the counter stays at its last value.
NextCid == (cid_counter + 1) % (MaxCid + 1)

\* Fault: the counter is not set back after its overflow.
CountCidWraps == cid_counter' = NextCid
CountCid == cid_counter' = IF NextCid = 0 THEN MaxCid ELSE NextCid

AddClient(c) ==
  /\ cl_mutex = Nobody
  /\ members' = members \cup {c}
  /\ client_counter' = client_counter + 1
  /\ IF role[c] = "DOCENT"
       THEN user_docent' = c /\ user_write' = c
       ELSE UNCHANGED <<user_docent, user_write>>
  /\ UNCHANGED <<role, cid, cid_counter, cl_mutex>>

\* Faults: the pointer to a writer that leaves stays; the docent does not
\* inherit the access.
WriterStays(c) ==
  /\ user_docent' = IF c = user_docent THEN Nobody ELSE user_docent
  /\ UNCHANGED user_write
AccessDropped(c) ==
  /\ user_docent' = IF c = user_docent THEN Nobody ELSE user_docent
  /\ user_write' = IF c = user_write THEN Nobody ELSE user_write

\* The writer that leaves hands the access to the docent; a docent that
\* leaves with it drops it.
PointersLeave(c) ==
  /\ user_write' = IF c # user_write THEN user_write
                   ELSE IF c = user_docent THEN Nobody
                   ELSE user_docent
  /\ user_docent' = IF c = user_docent THEN Nobody ELSE user_docent

Unlink(c) ==
  /\ cl_mutex = Nobody
  /\ members' = members \ {c}
  /\ PointersLeave(c)
  /\ role' = [role EXCEPT ![c] = "none"]
  /\ cid' = [cid EXCEPT ![c] = 0]
  /\ UNCHANGED cid_counter

\* Faults: the counter is not decremented; the mutex is not released.
RemoveUncounted(c) == Unlink(c) /\ UNCHANGED <<client_counter, cl_mutex>>
RemoveKeepsMutex(c) ==
  Unlink(c) /\ client_counter' = client_counter - 1 /\ cl_mutex' = c

\* The entry of c is unlinked and freed, and the pointers leave it.
RemoveClient(c) ==
  Unlink(c) /\ client_counter' = client_counter - 1 /\ UNCHANGED cl_mutex

\* set_write_user, called with the list mutex held by c if it keeps it.
SetWriteUser(u, keeper) ==
  /\ user_write' = u
  /\ cl_mutex' = keeper
  /\ UNCHANGED <<members, role, cid, user_docent, client_counter, cid_counter>>

=============================================================================
