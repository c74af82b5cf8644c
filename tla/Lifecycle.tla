----------------------------- MODULE Lifecycle -----------------------------
(***************************************************************************)
(* Server processes from start to exit: the lock file (singelton.c), the   *)
(* IPC objects the whole system shares by key (server.c, mq.c,             *)
(* semaphore.c, blackboard.c), the logger and archiver they fork           *)
(* (logger.c, archiver.c), and SIGINT to the process group                 *)
(* (signal_handler.c, shutdown_handler).                                   *)
(*                                                                         *)
(* Each server starts once; starting the program again is another server.  *)
(* All run in the same directory.  What client threads and the agent do to *)
(* the objects is any sequence of logging and using.                       *)
(***************************************************************************)
EXTENDS Integers, FiniteSets

CONSTANTS
  Servers,
  Nobody,
  QueueSize,     \* messages the queue holds: a write to a full one fails
  Interruptible  \* servers whose waitpid() is not restarted after the signal
                 \* handler: signal() has either semantics, as the C library
                 \* it is linked with decides

ASSUME NobodyAssumption == Nobody \notin Servers
ASSUME ServersAssumption == Servers \cap {"none", "forked", "ended"} = {}
ASSUME QueueSizeAssumption == QueueSize \in Nat \ {0}
ASSUME InterruptibleAssumption == Interruptible \subseteq Servers

Objects == {"mq", "bsem", "shm", "asem"}
Kinds == {"logger", "archiver"}

VARIABLES
  pc,       \* where main() of each server is
  file,     \* the lock file each server has opened, named by its creator
  path,     \* the file that is called server.lock
  locks,    \* servers that hold the lock on the file they have opened
  ipc,      \* the server that created each existing object
  queue,    \* number of messages in the message queue
  child,    \* each server's children: where they are, or, when running, the
            \* server whose objects they use
  early,    \* history: servers whose waitpid() was interrupted
  asked     \* history: servers interrupted while both children were running

lockVars == <<file, path, locks>>
vars == <<pc, lockVars, ipc, queue, child, early, asked>>

Starting == {"off", "opened", "locked"}
Creating == {"mq", "bsem", "shm", "asem"}
Waiting == {"wait_logger", "wait_archiver"}
Deleting == {"del_asem", "del_shm", "del_bsem", "del_mq"}
Leaving == {"close", "unlink"}
Ended == {"done", "failed"}
Phases == Starting \cup Creating \cup {"fork_logger", "fork_archiver", "threads"}
          \cup Waiting \cup Deleting \cup Leaving \cup Ended

TypeOK ==
  /\ pc \in [Servers -> Phases]
  /\ file \in [Servers -> Servers \cup {Nobody}]
  /\ path \in Servers \cup {Nobody}
  /\ locks \subseteq Servers
  /\ ipc \in [Objects -> Servers \cup {Nobody}]
  /\ queue \in 0..QueueSize
  /\ child \in [Servers -> [Kinds -> Servers \cup {"none", "forked", "ended"}]]
  /\ early \subseteq Servers
  /\ asked \subseteq Servers

Init ==
  /\ pc = [s \in Servers |-> "off"]
  /\ file = [s \in Servers |-> Nobody]
  /\ path = Nobody
  /\ locks = {}
  /\ ipc = [o \in Objects |-> Nobody]
  /\ queue = 0
  /\ child = [s \in Servers |-> [k \in Kinds |-> "none"]]
  /\ early = {}
  /\ asked = {}

Go(s, phase) == pc' = [pc EXCEPT ![s] = phase]
SetChild(s, k, state) == child' = [child EXCEPT ![s][k] = state]

\* The descriptor is closed, which releases the lock.
CloseFile(s) == file' = [file EXCEPT ![s] = Nobody] /\ locks' = locks \ {s}
KeepFile == UNCHANGED <<file, locks>>

\* exit(), or death by a signal: the IPC objects and the children stay.
Fail(s) == Go(s, "failed") /\ CloseFile(s)
-----------------------------------------------------------------------------
(***************************************************************************)
(* The start.                                                              *)
(***************************************************************************)

\* create_lock: open() creates the file unless there is one.
OpenLockFile(s) ==
  /\ pc[s] = "off"
  /\ Go(s, "opened")
  /\ path' = IF path = Nobody THEN s ELSE path
  /\ file' = [file EXCEPT ![s] = path']
  /\ UNCHANGED <<locks, ipc, queue, child, early, asked>>

\* fcntl(F_SETLK).
LockFile(s) ==
  /\ pc[s] = "opened"
  /\ IF \E t \in locks : file[t] = file[s]
       THEN Fail(s)
       ELSE Go(s, "locked") /\ locks' = locks \cup {s} /\ UNCHANGED file
  /\ UNCHANGED <<path, ipc, queue, child, early, asked>>

\* The signal handler is installed and the port bound, if it can be.
Bind(s) ==
  /\ pc[s] = "locked"
  /\ \/ Go(s, "mq") /\ KeepFile
     \/ Fail(s)
  /\ UNCHANGED <<path, ipc, queue, child, early, asked>>

\* create_mq, init_sem and init_blackboard, with IPC_CREAT | IPC_EXCL.
\* Fault: without IPC_EXCL the object of another server is taken over.
CreateOrOpen(s, o, next) ==
  /\ pc[s] = o
  /\ ipc' = [ipc EXCEPT ![o] = s]
  /\ Go(s, next)
  /\ UNCHANGED <<lockVars, queue, child, early, asked>>

Create(s, o, next) ==
  /\ pc[s] = o
  /\ IF ipc[o] = Nobody
       THEN ipc' = [ipc EXCEPT ![o] = s] /\ Go(s, next) /\ KeepFile
       ELSE Fail(s) /\ UNCHANGED ipc
  /\ UNCHANGED <<path, queue, child, early, asked>>

CreateQueue(s) == Create(s, "mq", "bsem")
CreateBoardSemaphore(s) == Create(s, "bsem", "shm")
CreateBoard(s) == Create(s, "shm", "asem")
CreateArchiverSemaphore(s) == Create(s, "asem", "fork_logger")

Fork(s, k, here, next) ==
  /\ pc[s] = here
  /\ \/ SetChild(s, k, "forked") /\ Go(s, next) /\ KeepFile
     \/ Fail(s) /\ UNCHANGED child
  /\ UNCHANGED <<path, ipc, queue, early, asked>>

\* write_mq, with IPC_NOWAIT, to the queue that has the key.
CanLog == ipc["mq"] # Nobody /\ queue < QueueSize

ForkLogger(s) == Fork(s, "logger", "fork_logger", "fork_archiver")
ForkArchiver(s) == Fork(s, "archiver", "fork_archiver", "threads")

\* The agent and the login thread are created, and main logs that.
StartThreads(s) ==
  /\ pc[s] = "threads"
  /\ IF CanLog THEN Go(s, "wait_logger") /\ queue' = queue + 1 /\ KeepFile
               ELSE Fail(s) /\ UNCHANGED queue
  /\ UNCHANGED <<path, ipc, child, early, asked>>

(***************************************************************************)
(* The end.                                                                *)
(***************************************************************************)
\* Fault: the child is not waited for.
WaitNoHang(s, k, here, next) ==
  /\ pc[s] = here
  /\ Go(s, next)
  /\ UNCHANGED <<lockVars, ipc, queue, child, early, asked>>

Wait(s, k, here, next) ==
  /\ pc[s] = here
  /\ child[s][k] = "ended"
  /\ Go(s, next)
  /\ UNCHANGED <<lockVars, ipc, queue, child, early, asked>>

WaitLogger(s) == Wait(s, "logger", "wait_logger", "wait_archiver")
WaitArchiver(s) == Wait(s, "archiver", "wait_archiver", "del_asem")

\* Fault: the queue and the archiver's semaphore change places.
DeleteQueueFirst(s, o, here, next) ==
  LET o2 == IF o = "mq" THEN "asem" ELSE IF o = "asem" THEN "mq" ELSE o IN
  /\ pc[s] = here
  /\ ipc' = [ipc EXCEPT ![o2] = Nobody]
  /\ queue' = IF o2 = "mq" THEN 0 ELSE queue
  /\ Go(s, next)
  /\ UNCHANGED <<lockVars, child, early, asked>>

\* Fault: the queue stays.
DeleteAllButQueue(s, o, here, next) ==
  /\ pc[s] = here
  /\ ipc' = IF o = "mq" THEN ipc ELSE [ipc EXCEPT ![o] = Nobody]
  /\ Go(s, next)
  /\ UNCHANGED <<lockVars, queue, child, early, asked>>

\* By its id: an object that another server has created by now is not touched.
\* (delete_mq exits if the queue is gone; ObjectsTogether says that it is not.)
Delete(s, o, here, next) ==
  /\ pc[s] = here
  /\ ipc' = [ipc EXCEPT ![o] = IF @ = s THEN Nobody ELSE @]
  /\ queue' = IF o = "mq" THEN 0 ELSE queue
  /\ Go(s, next)
  /\ UNCHANGED <<lockVars, child, early, asked>>

DeleteArchiverSemaphore(s) == Delete(s, "asem", "del_asem", "del_shm")
DeleteBoard(s) == Delete(s, "shm", "del_shm", "del_bsem")
DeleteBoardSemaphore(s) == Delete(s, "bsem", "del_bsem", "del_mq")
DeleteQueue(s) == Delete(s, "mq", "del_mq", "close")

\* delete_lock: close() releases the lock, then the name goes.
CloseLockFile(s) ==
  /\ pc[s] = "close"
  /\ CloseFile(s)
  /\ Go(s, "unlink")
  /\ UNCHANGED <<path, ipc, queue, child, early, asked>>

UnlinkLockFile(s) ==
  /\ pc[s] = "unlink"
  /\ path' = Nobody
  /\ Go(s, "done")
  /\ UNCHANGED <<file, locks, ipc, queue, child, early, asked>>
-----------------------------------------------------------------------------
(***************************************************************************)
(* The threads run until the process exits.                                *)
(***************************************************************************)
Threaded(s) == pc[s] \in Waiting \cup Deleting \cup Leaving

\* Fault: a full queue is not noticed.
LogAnyway(s) ==
  /\ Threaded(s)
  /\ ipc["mq"] # Nobody
  /\ queue' = queue + 1
  /\ UNCHANGED <<pc, lockVars, ipc, child, early, asked>>

ThreadLogs(s) ==
  /\ Threaded(s)
  /\ IF CanLog THEN queue' = queue + 1 /\ UNCHANGED pc /\ KeepFile
               ELSE Fail(s) /\ UNCHANGED queue
  /\ UNCHANGED <<path, ipc, child, early, asked>>

\* get_sem, get_blackboard or semop find the object deleted: exit().
ThreadMisses(s) ==
  /\ Threaded(s)
  /\ \E o \in Objects \ {"mq"} : ipc[o] # s
  /\ Fail(s)
  /\ UNCHANGED <<path, ipc, queue, child, early, asked>>
-----------------------------------------------------------------------------
(***************************************************************************)
(* The children.                                                           *)
(***************************************************************************)
Needed(k) == IF k = "logger" THEN {"mq"} ELSE {"asem", "bsem", "shm"}

\* execlp, then get_mq, or get_sem and get_blackboard, by key.
Exec(s, k) ==
  /\ child[s][k] = "forked"
  /\ SetChild(s, k, IF \E o \in Needed(k) : ipc[o] = Nobody THEN "ended"
                    ELSE ipc[IF k = "logger" THEN "mq" ELSE "asem"])
  /\ UNCHANGED <<pc, lockVars, ipc, queue, early, asked>>

\* execlp or fopen fails.
ExecFails(s, k) ==
  /\ child[s][k] = "forked"
  /\ SetChild(s, k, "ended")
  /\ UNCHANGED <<pc, lockVars, ipc, queue, early, asked>>

Running(s, k) == child[s][k] \in Servers

\* read_mq.
Read(s) ==
  /\ Running(s, "logger")
  /\ ipc["mq"] = child[s]["logger"]
  /\ queue > 0
  /\ queue' = queue - 1
  /\ UNCHANGED <<pc, lockVars, ipc, child, early, asked>>

\* msgrcv or semop fail: what the child waits for has been deleted.
ObjectGone(s, k) ==
  /\ Running(s, k)
  /\ \E o \in Needed(k) : ipc[o] # child[s][k]
  /\ SetChild(s, k, "ended")
  /\ UNCHANGED <<pc, lockVars, ipc, queue, early, asked>>
-----------------------------------------------------------------------------
(***************************************************************************)
(* SIGINT to the process group of s: from the terminal, or from            *)
(* shutdown_handler.  A child runs the server's handler until execlp has   *)
(* replaced it, and is killed after.  In the server a waitpid() may return *)
(* early, and a thread that is blocked in semop() gets EINTR and exits.    *)
(***************************************************************************)
Alive(s) == pc[s] \notin Ended \cup {"off"}

InterruptChildren(s) ==
  child' = [child EXCEPT ![s] =
              [k \in Kinds |-> IF Running(s, k) THEN "ended" ELSE child[s][k]]]

Asks(s) ==
  asked' = IF \A k \in Kinds : Running(s, k) THEN asked \cup {s} ELSE asked

AfterWait == [wait_logger |-> "wait_archiver", wait_archiver |-> "del_asem"]

InterruptServer(s) ==
  \/ pc[s] \in {"opened", "locked"} /\ Fail(s) /\ UNCHANGED early
  \/ pc[s] \notin {"opened", "locked"} /\ UNCHANGED <<pc, early>> /\ KeepFile
  \/ /\ pc[s] \in Waiting /\ s \in Interruptible
     /\ Go(s, AfterWait[pc[s]])
     /\ early' = early \cup {s}
     /\ KeepFile
  \/ Threaded(s) /\ Fail(s) /\ UNCHANGED early

\* Fault: the signal is sent to the server alone.
InterruptServerOnly(s) ==
  /\ Alive(s)
  /\ InterruptServer(s)
  /\ Asks(s)
  /\ UNCHANGED <<path, ipc, queue, child>>

Interrupt(s) ==
  /\ Alive(s)
  /\ InterruptChildren(s)
  /\ InterruptServer(s)
  /\ Asks(s)
  /\ UNCHANGED <<path, ipc, queue>>

\* SIGKILL, or a crash of a thread.
Kill(s) ==
  /\ Alive(s)
  /\ Fail(s)
  /\ UNCHANGED <<path, ipc, queue, child, early, asked>>
-----------------------------------------------------------------------------
StartUp(s) ==
  \/ LockFile(s) \/ Bind(s)
  \/ CreateQueue(s) \/ CreateBoardSemaphore(s) \/ CreateBoard(s)
  \/ CreateArchiverSemaphore(s)
  \/ ForkLogger(s) \/ ForkArchiver(s) \/ StartThreads(s)

ShutDown(s) ==
  \/ WaitLogger(s) \/ WaitArchiver(s)
  \/ DeleteArchiverSemaphore(s) \/ DeleteBoard(s) \/ DeleteBoardSemaphore(s)
  \/ DeleteQueue(s)
  \/ CloseLockFile(s) \/ UnlinkLockFile(s)

Main(s) == StartUp(s) \/ ShutDown(s)
Child(s, k) == Exec(s, k) \/ ObjectGone(s, k)

Next ==
  \E s \in Servers :
    \/ OpenLockFile(s) \/ Main(s) \/ ThreadLogs(s) \/ ThreadMisses(s)
    \/ Read(s) \/ Interrupt(s) \/ Kill(s)
    \/ \E k \in Kinds : Child(s, k) \/ ExecFails(s, k)

Spec == Init /\ [][Next]_vars

\* main() and the children go on; nothing makes anybody start or end a server.
Fairness ==
  \A s \in Servers : WF_vars(Main(s)) /\ WF_vars(\E k \in Kinds : Child(s, k))

FairSpec == Spec /\ Fairness
-----------------------------------------------------------------------------
(***************************************************************************)
(* A server has the board, its semaphores and the queue from the creation  *)
(* of the queue to its deletion: no two servers do.  The lock file alone   *)
(* does not ensure it, as its name outlives the lock (singelton.c:64-70).  *)
(* The documentation promises it of the server                             *)
(* (komponentenentwurf.tex:53).                                            *)
(***************************************************************************)
Active == {"bsem", "shm", "asem", "fork_logger", "fork_archiver", "threads"}
          \cup Waiting \cup Deleting
OneServer == \A s, t \in Servers : pc[s] \in Active /\ pc[t] \in Active => s = t

(***************************************************************************)
(* While there is any object, there is a queue, of the same server: so a   *)
(* start that meets what another server has left fails at the queue, the   *)
(* first object it creates, and leaves nothing of its own                  *)
(* (server.c:188-195, 248-255).                                            *)
(***************************************************************************)
ObjectsTogether ==
  /\ \A o \in Objects : ipc[o] # Nobody => ipc["mq"] = ipc[o]
  /\ \A s \in Servers : pc[s] \in Creating \ {"mq"} => ipc[pc[s]] = Nobody

(***************************************************************************)
(* A server that exits with success has deleted its objects, and its       *)
(* children have ended, unless a wait was interrupted (server.c:236-259).  *)
(***************************************************************************)
CleanExit ==
  \A s \in Servers : pc[s] = "done" =>
    /\ \A o \in Objects : ipc[o] # s
    /\ s \notin early => \A k \in Kinds : child[s][k] = "ended"

(***************************************************************************)
(* A logger or archiver works for the server that forked it, although it   *)
(* finds queue and semaphores by a key that all servers share; after an    *)
(* interrupted wait it may find those of the next server                   *)
(* (logger.c:44, archiver.c:60-68).                                        *)
(***************************************************************************)
OwnChildren ==
  \A s \in Servers, k \in Kinds : Running(s, k) /\ s \notin early => child[s][k] = s

(***************************************************************************)
(* The objects are one group: the queue is the claim to it, created first  *)
(* and deleted last, and what a server that was killed leaves behind keeps *)
(* every later start out (server.c:188-200, 248-258).                      *)
(***************************************************************************)
Group == INSTANCE Ownership WITH
  First <- "mq",
  owner <- ipc["mq"],
  held <- {o \in Objects : ipc[o] # Nobody},
  live <- \E s \in Servers : pc[s] \in Active
GroupOwned == Group!GroupSpec

(***************************************************************************)
(* SIGINT after both children have been started ends the server, and no    *)
(* child is left running (server.c:99-103, 236-259).                       *)
(***************************************************************************)
InterruptEnds ==
  asked # {} ~>
    \A s \in asked : pc[s] \in Ended /\ \A k \in Kinds : ~Running(s, k)
=============================================================================
