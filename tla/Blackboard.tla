---------------------------- MODULE Blackboard ----------------------------
(***************************************************************************)
(* The board in shared memory (blackboard.c), its semaphore bsem, and the  *)
(* archiver process (archiver.c) with the trigger semaphore asem it shares *)
(* with the clear branch of board_handler.                                 *)
(***************************************************************************)
EXTENDS Connections

CONSTANTS
  Contents,   \* the texts a client may write
  Debug       \* TRUE: the archiver runs its debug thread

ASSUME ContentsAssumption ==
  Contents \cap {"nothing", "welcome", "empty", "garbage", "torn"} = {}
ASSUME DebugAssumption == Debug \in BOOLEAN

VARIABLES
  board,      \* the shared memory segment
  bsem,       \* holder of the board semaphore across steps, else Nobody
  asem,       \* value of the archiver's trigger semaphore
  archiver,   \* program counter of the archiver's main loop
  archived    \* the content appended last to the archive file

boardVars == <<board, bsem, asem, archiver, archived>>

(***************************************************************************)
(* "empty": all zero.  "garbage": uninitialized buffer bytes copied after  *)
(* a short recv().  "torn": board_handler has zeroed the segment and has   *)
(* not stored the new content yet.                                         *)
(***************************************************************************)
BoardStates == Contents \cup {"welcome", "empty", "garbage", "torn"}

BoardTypeOK ==
  /\ board \in BoardStates
  /\ bsem \in Clients \cup {Nobody}
  /\ asem \in Nat
  /\ archiver \in {"wait", "archive", "notify", "reset", "dead"}
  /\ archived \in BoardStates \cup {"nothing"}

BoardInit ==
  /\ board = "welcome"
  /\ bsem = Nobody
  /\ asem = 1
  /\ archiver = "wait"
  /\ archived = "nothing"

\* wait_sem: the archiver passes when the trigger semaphore is zero.
ArchiverWakes ==
  /\ archiver = "wait"
  /\ asem = 0
  /\ archiver' = "archive"
  /\ UNCHANGED <<board, bsem, asem, archived>>

\* Lock, append the board to the archive, unlock.
ArchiveBoard ==
  /\ archiver = "archive"
  /\ bsem = Nobody
  /\ archived' = board
  /\ archiver' = "notify"
  /\ UNCHANGED <<board, bsem, asem>>

\* The two unlock_sem calls: notify the board handler, reset the trigger.
ArchiverUnlocks(from, to) ==
  /\ archiver = from
  /\ asem' = asem + 1
  /\ archiver' = to
  /\ UNCHANGED <<board, bsem, archived>>


\* Fault: the trigger is not reset after the notification.
NotifiesOnly == ArchiverUnlocks("notify", "wait")
ArchiverNotifies == ArchiverUnlocks("notify", "reset")
ArchiverResets == ArchiverUnlocks("reset", "wait")

\* One period of the debug thread.
DebugArchive ==
  /\ Debug
  /\ archiver # "dead"
  /\ bsem = Nobody
  /\ archived' = board
  /\ UNCHANGED <<board, bsem, asem, archiver>>

\* The SIGINT of a shutdown reaches the archiver, which does not handle it.
ArchiverDies ==
  /\ server = "stopping"
  /\ archiver # "dead"
  /\ archiver' = "dead"
  /\ UNCHANGED <<board, bsem, asem, archived>>

ArchiverStep ==
  \/ ArchiverWakes \/ ArchiveBoard \/ ArchiverNotifies \/ ArchiverResets
  \/ DebugArchive \/ ArchiverDies

=============================================================================
