-------------------------- MODULE LifecycleProofs --------------------------
(***************************************************************************)
(* Theorems about the life of servers, for any number of servers, any size *)
(* of the message queue, and whichever waits the signal interrupts.        *)
(***************************************************************************)
EXTENDS Lifecycle, TLAPS

-----------------------------------------------------------------------------
(***************************************************************************)
(* Types.                                                                  *)
(***************************************************************************)
ChildStates == Servers \cup {"none", "forked", "ended"}

\* The phases by name.
LEMMA PhasesKnown ==
  /\ Ended \subseteq Phases /\ Starting \subseteq Phases /\ Creating \subseteq Phases
  /\ Waiting \subseteq Phases /\ Deleting \subseteq Phases /\ Leaving \subseteq Phases
  /\ {"fork_logger", "fork_archiver", "threads"} \subseteq Phases
  /\ "failed" \in Phases
BY DEF Phases, Ended, Starting, Creating, Waiting, Deleting, Leaving

\* A server that goes to a phase, or fails.
LEMMA GoType ==
  ASSUME TypeOK, NEW s \in Servers, NEW p \in Phases, Go(s, p)
  PROVE  pc' \in [Servers -> Phases]
BY DEF TypeOK, Go

\* A server that fails closes its lock file.
LEMMA FailType ==
  ASSUME TypeOK, NEW s \in Servers, Fail(s)
  PROVE  /\ pc' \in [Servers -> Phases]
         /\ file' \in [Servers -> Servers \cup {Nobody}]
         /\ locks' \subseteq Servers
BY PhasesKnown DEF TypeOK, Fail, Go, CloseFile

\* A child that changes its state.
LEMMA SetChildType ==
  ASSUME TypeOK, NEW s \in Servers, NEW k \in Kinds, NEW x \in ChildStates,
         SetChild(s, k, x)
  PROVE  child' \in [Servers -> [Kinds -> ChildStates]]
BY DEF TypeOK, SetChild, ChildStates

\* Creating the lock file, locking it and binding the port.
LEMMA OpenType ==
  ASSUME TypeOK, NEW s \in Servers, OpenLockFile(s) \/ LockFile(s) \/ Bind(s)
  PROVE  TypeOK'
<1>1. CASE OpenLockFile(s)
  <2>1. pc' \in [Servers -> Phases]
    BY <1>1, GoType, PhasesKnown DEF OpenLockFile, Starting
  <2>2. path' \in Servers \cup {Nobody}
    BY <1>1 DEF TypeOK, OpenLockFile
  <2>3. file' \in [Servers -> Servers \cup {Nobody}]
    BY <1>1, <2>2 DEF TypeOK, OpenLockFile
  <2>. QED BY <1>1, <2>1, <2>2, <2>3 DEF TypeOK, OpenLockFile
<1>2. CASE LockFile(s)
  <2>1. CASE Fail(s)
    BY <1>2, <2>1, FailType DEF TypeOK, LockFile
  <2>2. CASE Go(s, "locked") /\ locks' = locks \cup {s} /\ UNCHANGED file
    BY <1>2, <2>2, GoType, PhasesKnown DEF TypeOK, LockFile, Starting
  <2>. QED BY <1>2, <2>1, <2>2 DEF LockFile
<1>3. CASE Bind(s)
  <2>1. CASE Fail(s)
    BY <1>3, <2>1, FailType DEF TypeOK, Bind
  <2>2. CASE Go(s, "mq") /\ KeepFile
    BY <1>3, <2>2, GoType, PhasesKnown DEF TypeOK, Bind, Creating, KeepFile
  <2>. QED BY <1>3, <2>1, <2>2 DEF Bind
<1>. QED BY <1>1, <1>2, <1>3

\* The creation of an object.
LEMMA CreateType ==
  ASSUME TypeOK, NEW s \in Servers, NEW o \in Objects, NEW next \in Phases,
         Create(s, o, next)
  PROVE  TypeOK'
<1>1. CASE ipc[o] = Nobody
  BY <1>1, GoType DEF TypeOK, Create, KeepFile
<1>2. CASE ipc[o] # Nobody
  BY <1>2, FailType DEF TypeOK, Create
<1>. QED BY <1>1, <1>2

\* A fork.
LEMMA ForkType ==
  ASSUME TypeOK, NEW s \in Servers, NEW k \in Kinds, NEW here, NEW next \in Phases,
         Fork(s, k, here, next)
  PROVE  TypeOK'
<1>1. CASE Fail(s) /\ UNCHANGED child
  BY <1>1, FailType DEF TypeOK, Fork
<1>2. CASE SetChild(s, k, "forked") /\ Go(s, next) /\ KeepFile
  <2>1. child' \in [Servers -> [Kinds -> ChildStates]]
    BY <1>2, SetChildType DEF ChildStates
  <2>. QED BY <1>2, <2>1, GoType DEF TypeOK, Fork, KeepFile, ChildStates
<1>. QED BY <1>1, <1>2 DEF Fork

\* The start of the threads, and logging.
LEMMA LogType ==
  ASSUME TypeOK, NEW s \in Servers, StartThreads(s) \/ ThreadLogs(s)
  PROVE  TypeOK'
<1>1. CASE ~CanLog
  <2>1. Fail(s) /\ UNCHANGED <<queue, path, ipc, child, early, asked>>
    BY <1>1 DEF StartThreads, ThreadLogs
  <2>. QED BY <2>1, FailType DEF TypeOK
<1>2. CASE CanLog
  <2>1. queue' \in 0..QueueSize
    BY <1>2, QueueSizeAssumption DEF TypeOK, CanLog, StartThreads, ThreadLogs
  <2>2. pc' \in [Servers -> Phases]
    BY <1>2, GoType, PhasesKnown DEF TypeOK, StartThreads, ThreadLogs, Waiting
  <2>. QED BY <1>2, <2>1, <2>2 DEF TypeOK, StartThreads, ThreadLogs, KeepFile
<1>. QED BY <1>1, <1>2

\* Every step of the regular end.
LEMMA ShutDownType ==
  ASSUME TypeOK, NEW s \in Servers, ShutDown(s)
  PROVE  TypeOK'
<1>1. ASSUME NEW k \in Kinds, NEW here, NEW next \in Phases, Wait(s, k, here, next)
      PROVE  TypeOK'
  BY <1>1, GoType DEF TypeOK, Wait, lockVars
<1>2. ASSUME NEW o \in Objects, NEW here, NEW next \in Phases, Delete(s, o, here, next)
      PROVE  TypeOK'
  BY <1>2, GoType, QueueSizeAssumption DEF TypeOK, Delete, lockVars
<1>3. CASE WaitLogger(s) \/ WaitArchiver(s)
  BY <1>1, <1>3, PhasesKnown DEF WaitLogger, WaitArchiver, Kinds, Waiting, Deleting
<1>4. CASE \/ DeleteArchiverSemaphore(s) \/ DeleteBoard(s)
           \/ DeleteBoardSemaphore(s) \/ DeleteQueue(s)
  BY <1>2, <1>4, PhasesKnown
  DEF DeleteArchiverSemaphore, DeleteBoard, DeleteBoardSemaphore, DeleteQueue,
      Objects, Deleting, Leaving
<1>5. CASE CloseLockFile(s)
  BY <1>5, GoType, PhasesKnown DEF TypeOK, CloseLockFile, CloseFile, Leaving
<1>6. CASE UnlinkLockFile(s)
  BY <1>6, GoType, PhasesKnown DEF TypeOK, UnlinkLockFile, Ended
<1>. QED BY <1>3, <1>4, <1>5, <1>6 DEF ShutDown

\* Every step of a child.
LEMMA ChildType ==
  ASSUME TypeOK, NEW s \in Servers, NEW k \in Kinds, Child(s, k) \/ ExecFails(s, k)
  PROVE  TypeOK'
<1>1. PICK x \in ChildStates : SetChild(s, k, x)
  <2>1. CASE Exec(s, k)
    BY <2>1 DEF Exec, Needed, Objects, ChildStates, TypeOK, Kinds
  <2>. QED BY <2>1 DEF Child, ObjectGone, ExecFails, ChildStates
<1>2. child' \in [Servers -> [Kinds -> ChildStates]]
  BY <1>1, SetChildType
<1>3. UNCHANGED <<pc, lockVars, ipc, queue, early, asked>>
  BY DEF Child, Exec, ObjectGone, ExecFails
<1>. QED BY <1>2, <1>3 DEF TypeOK, ChildStates, lockVars

\* SIGINT to the process group.
LEMMA InterruptType ==
  ASSUME TypeOK, NEW s \in Servers, Interrupt(s)
  PROVE  TypeOK'
<1>1. child' \in [Servers -> [Kinds -> ChildStates]]
  <2>1. [k \in Kinds |-> IF Running(s, k) THEN "ended" ELSE child[s][k]]
          \in [Kinds -> ChildStates]
    BY DEF TypeOK, ChildStates
  <2>. QED BY <2>1 DEF TypeOK, Interrupt, InterruptChildren, ChildStates
<1>2. asked' \subseteq Servers
  BY DEF TypeOK, Interrupt, Asks
<1>3. /\ pc' \in [Servers -> Phases] /\ early' \subseteq Servers
      /\ file' \in [Servers -> Servers \cup {Nobody}] /\ locks' \subseteq Servers
  <2>1. CASE Fail(s) /\ UNCHANGED early
    BY <2>1, FailType DEF TypeOK
  <2>2. CASE UNCHANGED <<pc, early>> /\ KeepFile
    BY <2>2 DEF TypeOK, KeepFile
  <2>3. CASE /\ pc[s] \in Waiting
             /\ Go(s, AfterWait[pc[s]])
             /\ early' = early \cup {s}
             /\ KeepFile
    <3>1. AfterWait[pc[s]] \in Phases
      BY <2>3, PhasesKnown DEF AfterWait, Waiting, Deleting
    <3>. QED BY <2>3, <3>1, GoType DEF TypeOK, KeepFile
  <2>. QED BY <2>1, <2>2, <2>3 DEF Interrupt, InterruptServer
<1>. QED BY <1>1, <1>2, <1>3 DEF TypeOK, Interrupt, ChildStates

\* Every step keeps the types.
LEMMA TypeStep ==
  ASSUME TypeOK, [Next]_vars
  PROVE  TypeOK'
<1>1. CASE UNCHANGED vars
  BY <1>1 DEF TypeOK, vars, lockVars
<1>2. ASSUME NEW s \in Servers, StartUp(s)
      PROVE  TypeOK'
  <2>1. CASE \/ CreateQueue(s) \/ CreateBoardSemaphore(s) \/ CreateBoard(s)
             \/ CreateArchiverSemaphore(s)
    BY <2>1, CreateType, PhasesKnown
    DEF CreateQueue, CreateBoardSemaphore, CreateBoard, CreateArchiverSemaphore,
        Objects, Creating
  <2>2. CASE ForkLogger(s) \/ ForkArchiver(s)
    BY <2>2, ForkType, PhasesKnown DEF ForkLogger, ForkArchiver, Kinds
  <2>. QED BY <1>2, <2>1, <2>2, OpenType, LogType DEF StartUp
<1>3. ASSUME NEW s \in Servers, ThreadMisses(s) \/ Kill(s)
      PROVE  TypeOK'
  BY <1>3, FailType DEF TypeOK, ThreadMisses, Kill
<1>4. ASSUME NEW s \in Servers, Read(s)
      PROVE  TypeOK'
  BY <1>4, QueueSizeAssumption DEF TypeOK, Read, lockVars
<1>. QED BY <1>1, <1>2, <1>3, <1>4, OpenType, LogType, ShutDownType, ChildType,
            InterruptType DEF Next, Main

(***************************************************************************)
(* Every variable keeps its type; the queue never holds more than its size *)
(* (mq.c:77-82).                                                           *)
(***************************************************************************)
THEOREM TypeCorrect == Spec => []TypeOK
<1>1. Init => TypeOK
  BY QueueSizeAssumption DEF Init, TypeOK, Phases, Starting
<1>. QED BY <1>1, TypeStep, PTL DEF Spec
-----------------------------------------------------------------------------
(***************************************************************************)
(* Who has the objects.  The queue is created first and deleted last.      *)
(***************************************************************************)

\* An active server has the queue.
HasQueue == \A s \in Servers : pc[s] \in Active => ipc["mq"] = s

\* No object is without a queue of the same server.
Together == \A o \in Objects : ipc[o] # Nobody => ipc["mq"] = ipc[o]

\* The objects a server has not created yet, or has deleted.
Lacking(phase) ==
  IF phase \in Starting \cup Leaving \cup {"mq", "done"} THEN Objects
  ELSE IF phase \in {"bsem", "del_mq"} THEN {"bsem", "shm", "asem"}
  ELSE IF phase \in {"shm", "del_bsem"} THEN {"shm", "asem"}
  ELSE IF phase \in {"asem", "del_shm"} THEN {"asem"}
  ELSE {}

Lacks == \A s \in Servers : \A o \in Lacking(pc[s]) : ipc[o] # s

ObjectInv == HasQueue /\ Together /\ Lacks

\* A server that ends, or goes from a phase to one in which it is as active and
\* lacks no more, while the objects stay.
LEMMA ObjectsKept ==
  ASSUME TypeOK, ObjectInv, UNCHANGED ipc,
         \A t \in Servers : pc'[t] # pc[t] =>
           /\ pc'[t] \in Active => pc[t] \in Active
           /\ Lacking(pc'[t]) \subseteq Lacking(pc[t])
  PROVE  ObjectInv'
<1>1. \A t \in Servers : pc'[t] \in Active => pc[t] \in Active
  OBVIOUS
<1>2. \A t \in Servers : Lacking(pc'[t]) \subseteq Lacking(pc[t])
  OBVIOUS
<1>3. HasQueue'  BY <1>1 DEF ObjectInv, HasQueue
<1>4. Together'  BY DEF ObjectInv, Together
<1>5. Lacks'  BY <1>2 DEF ObjectInv, Lacks, Lacking
<1>. QED BY <1>3, <1>4, <1>5 DEF ObjectInv

\* One server moves so.
LEMMA MoveKeeps ==
  ASSUME TypeOK, ObjectInv, UNCHANGED ipc, NEW s \in Servers, NEW p, Go(s, p),
         p \in Active => pc[s] \in Active,
         Lacking(p) \subseteq Lacking(pc[s])
  PROVE  ObjectInv'
<1>1. \A t \in Servers : pc'[t] = IF t = s THEN p ELSE pc[t]
  BY DEF Go, TypeOK
<1>. QED BY <1>1, ObjectsKept

\* A failure moves the server to a phase without objects of its own.
LEMMA FailKeeps ==
  ASSUME TypeOK, ObjectInv, UNCHANGED ipc, NEW s \in Servers, Fail(s)
  PROVE  ObjectInv'
BY MoveKeeps DEF Fail, Active, Waiting, Deleting, Lacking, Starting, Leaving

\* The creation of an object moves its creator past the phases that lack it.
LEMMA CreateKeeps ==
  ASSUME TypeOK, ObjectInv, NEW s \in Servers,
         \/ CreateQueue(s) \/ CreateBoardSemaphore(s) \/ CreateBoard(s)
         \/ CreateArchiverSemaphore(s)
  PROVE  ObjectInv'
<1>. DEFINE After == [mq |-> "bsem", bsem |-> "shm", shm |-> "asem", asem |-> "fork_logger"]
<1>1. PICK o \in Objects : Create(s, o, After[o])
  BY DEF CreateQueue, CreateBoardSemaphore, CreateBoard, CreateArchiverSemaphore, Objects
<1>2. CASE ipc[o] # Nobody
  BY <1>1, <1>2, FailKeeps DEF Create
<1>3. CASE ipc[o] = Nobody
  <2>1. /\ ipc' = [ipc EXCEPT ![o] = s] /\ pc[s] = o
        /\ pc' = [pc EXCEPT ![s] = After[o]]
    BY <1>1, <1>3 DEF Create, Go
  <2>2. \A t \in Servers \ {s} : pc'[t] = pc[t]
    BY <2>1 DEF TypeOK
  <2>3. pc'[s] = After[o] /\ After[o] \in Active
    BY <2>1 DEF TypeOK, Active, Objects
  <2>4. \A q \in Objects : ipc'[q] = IF q = o THEN s ELSE ipc[q]
    BY <2>1 DEF TypeOK
  <2>5. IF o = "mq" THEN \A q \in Objects : ipc[q] = Nobody ELSE ipc["mq"] = s
    <3>1. o # "mq" => pc[s] \in Active
      BY <2>1 DEF Active, Objects
    <3>. QED BY <3>1, <1>3 DEF ObjectInv, HasQueue, Together, Objects
  <2>6. \A t \in Servers \ {s} : pc[t] \notin Active
    BY <2>5, NobodyAssumption DEF ObjectInv, HasQueue, Objects
  <2>7. ipc'["mq"] = s
    BY <2>4, <2>5 DEF Objects
  <2>8. HasQueue'
    BY <2>2, <2>6, <2>7 DEF HasQueue
  <2>9. Together'
    BY <2>4, <2>5, <2>7 DEF ObjectInv, Together
  <2>10. Lacks'
    <3>1. ASSUME NEW t \in Servers \ {s}, NEW q \in Lacking(pc[t])
          PROVE  ipc'[q] # t
      <4>1. q \in Objects
        BY DEF Lacking, Objects
      <4>. QED BY <4>1, <2>4 DEF ObjectInv, Lacks
    <3>2. ASSUME NEW q \in Lacking(After[o])
          PROVE  ipc'[q] # s
      <4>1. q \in Objects /\ q # o /\ q \in Lacking(pc[s])
        BY <2>1 DEF Lacking, Objects, Starting, Leaving
      <4>. QED BY <4>1, <2>4 DEF ObjectInv, Lacks
    <3>. QED BY <2>2, <2>3, <3>1, <3>2 DEF Lacks, Lacking
  <2>. QED BY <2>8, <2>9, <2>10 DEF ObjectInv
<1>. QED BY <1>2, <1>3

\* The deletion of an object moves its owner past the phases that need it.
LEMMA DeleteKeeps ==
  ASSUME TypeOK, ObjectInv, NEW s \in Servers,
         \/ DeleteArchiverSemaphore(s) \/ DeleteBoard(s)
         \/ DeleteBoardSemaphore(s) \/ DeleteQueue(s)
  PROVE  ObjectInv'
<1>. DEFINE Here == [asem |-> "del_asem", shm |-> "del_shm", bsem |-> "del_bsem", mq |-> "del_mq"]
            After == [asem |-> "del_shm", shm |-> "del_bsem", bsem |-> "del_mq", mq |-> "close"]
<1>1. PICK o \in Objects : Delete(s, o, Here[o], After[o])
  BY DEF DeleteArchiverSemaphore, DeleteBoard, DeleteBoardSemaphore, DeleteQueue, Objects
<1>2. /\ ipc' = [ipc EXCEPT ![o] = IF @ = s THEN Nobody ELSE @]
      /\ pc[s] = Here[o] /\ pc' = [pc EXCEPT ![s] = After[o]]
  BY <1>1 DEF Delete, Go
<1>3. \A t \in Servers \ {s} : pc'[t] = pc[t]
  BY <1>2 DEF TypeOK
<1>4. pc'[s] = After[o] /\ pc[s] \in Active
  BY <1>2 DEF TypeOK, Active, Deleting, Objects
<1>5. \A q \in Objects : ipc'[q] = IF q = o /\ ipc[q] = s THEN Nobody ELSE ipc[q]
  BY <1>2 DEF TypeOK
<1>6. ipc["mq"] = s
  BY <1>4 DEF ObjectInv, HasQueue
<1>7. \A t \in Servers \ {s} : pc'[t] \notin Active
  BY <1>3, <1>6 DEF ObjectInv, HasQueue
<1>8. HasQueue'
  <2>1. o = "mq" => pc'[s] \notin Active
    BY <1>4 DEF Active, Waiting, Deleting
  <2>2. o # "mq" => ipc'["mq"] = s
    BY <1>5, <1>6 DEF Objects
  <2>. QED BY <1>7, <2>1, <2>2 DEF HasQueue
<1>9. Together'
  <2>1. CASE o # "mq"
    BY <1>5, <2>1, NobodyAssumption DEF ObjectInv, Together, Objects
  <2>2. CASE o = "mq"
    <3>1. \A q \in Objects \ {"mq"} : q \in Lacking(pc[s])
      BY <1>2, <2>2 DEF Lacking, Objects, Starting, Leaving
    <3>2. \A q \in Objects \ {"mq"} : ipc[q] = Nobody
      BY <3>1, <1>6 DEF ObjectInv, Lacks, Together
    <3>. QED BY <1>5, <1>6, <2>2, <3>2 DEF Together
  <2>. QED BY <2>1, <2>2
<1>10. Lacks'
  <2>1. \A t \in Servers : \A q \in Lacking(pc[t]) : ipc'[q] # t
    <3>1. \A p : Lacking(p) \subseteq Objects
      BY DEF Lacking, Objects
    <3>. QED BY <3>1, <1>5, NobodyAssumption DEF ObjectInv, Lacks
  <2>2. Lacking(After[o]) \subseteq Lacking(pc[s]) \cup {o}
    BY <1>2 DEF Lacking, Objects, Starting, Leaving
  <2>3. ipc'[o] # s
    BY <1>5, NobodyAssumption
  <2>4. \A q \in Lacking(After[o]) : ipc'[q] # s
    BY <2>1, <2>2, <2>3
  <2>. QED BY <1>3, <1>4, <2>1, <2>4 DEF Lacks, Lacking
<1>. QED BY <1>8, <1>9, <1>10 DEF ObjectInv

\* A signal leaves the objects alone.
LEMMA InterruptKeeps ==
  ASSUME TypeOK, ObjectInv, NEW s \in Servers, Interrupt(s)
  PROVE  ObjectInv'
<1>1. UNCHANGED ipc
  BY DEF Interrupt
<1>2. CASE Fail(s)
  BY <1>1, <1>2, FailKeeps
<1>3. CASE UNCHANGED pc
  BY <1>1, <1>3, ObjectsKept
<1>4. CASE pc[s] \in Waiting /\ Go(s, AfterWait[pc[s]])
  <2>1. AfterWait[pc[s]] \in {"wait_archiver", "del_asem"} /\ pc[s] \in Active
    BY <1>4 DEF AfterWait, Waiting, Active
  <2>2. Lacking(AfterWait[pc[s]]) = {}
    BY <2>1 DEF Lacking, Starting, Leaving
  <2>. QED BY <1>1, <1>4, <2>1, <2>2, MoveKeeps
<1>. QED BY <1>2, <1>3, <1>4 DEF Interrupt, InterruptServer

\* Every step keeps the objects with one server.
LEMMA ObjectStep ==
  ASSUME TypeOK, ObjectInv, [Next]_vars
  PROVE  ObjectInv'
<1>1. CASE UNCHANGED vars
  BY <1>1, ObjectsKept DEF vars
<1>2. ASSUME NEW s \in Servers, OpenLockFile(s) \/ LockFile(s) \/ Bind(s)
      PROVE  ObjectInv'
  <2>1. UNCHANGED ipc
    BY <1>2 DEF OpenLockFile, LockFile, Bind
  <2>2. CASE Fail(s)
    BY <2>1, <2>2, FailKeeps
  <2>3. ASSUME ~Fail(s)
        PROVE  \E p \in {"opened", "locked", "mq"} : Go(s, p) /\ Lacking(pc[s]) = Objects
    BY <1>2, <2>3 DEF OpenLockFile, LockFile, Bind, Lacking, Starting
  <2>4. \A p \in {"opened", "locked", "mq"} : p \notin Active /\ Lacking(p) = Objects
    BY DEF Active, Waiting, Deleting, Lacking, Starting
  <2>. QED BY <2>1, <2>2, <2>3, <2>4, MoveKeeps
<1>3. ASSUME NEW s \in Servers, ForkLogger(s) \/ ForkArchiver(s) \/ StartThreads(s)
      PROVE  ObjectInv'
  <2>1. UNCHANGED ipc /\ pc[s] \in Active
    BY <1>3 DEF ForkLogger, ForkArchiver, Fork, StartThreads, Active
  <2>2. Fail(s) \/ \E p \in {"fork_archiver", "threads", "wait_logger"} : Go(s, p)
    BY <1>3 DEF ForkLogger, ForkArchiver, Fork, StartThreads
  <2>3. \A p \in {"fork_archiver", "threads", "wait_logger"} : Lacking(p) = {}
    BY DEF Lacking, Starting, Leaving
  <2>. QED BY <2>1, <2>2, <2>3, FailKeeps, MoveKeeps
<1>4. ASSUME NEW s \in Servers, WaitLogger(s) \/ WaitArchiver(s)
      PROVE  ObjectInv'
  <2>1. UNCHANGED ipc /\ pc[s] \in Active
    BY <1>4 DEF WaitLogger, WaitArchiver, Wait, Active, Waiting
  <2>2. \E p \in {"wait_archiver", "del_asem"} : Go(s, p)
    BY <1>4 DEF WaitLogger, WaitArchiver, Wait
  <2>3. \A p \in {"wait_archiver", "del_asem"} : Lacking(p) = {}
    BY DEF Lacking, Starting, Leaving
  <2>. QED BY <2>1, <2>2, <2>3, MoveKeeps
<1>5. ASSUME NEW s \in Servers, CloseLockFile(s) \/ UnlinkLockFile(s)
      PROVE  ObjectInv'
  <2>1. UNCHANGED ipc /\ Lacking(pc[s]) = Objects
    BY <1>5 DEF CloseLockFile, UnlinkLockFile, Lacking, Leaving
  <2>2. \E p \in {"unlink", "done"} : Go(s, p)
    BY <1>5 DEF CloseLockFile, UnlinkLockFile
  <2>3. \A p \in {"unlink", "done"} : p \notin Active /\ Lacking(p) = Objects
    BY DEF Lacking, Leaving, Active, Waiting, Deleting
  <2>. QED BY <2>1, <2>2, <2>3, MoveKeeps
<1>6. ASSUME NEW s \in Servers, ThreadLogs(s) \/ ThreadMisses(s) \/ Kill(s) \/ Read(s)
      PROVE  ObjectInv'
  <2>1. UNCHANGED ipc /\ (Fail(s) \/ UNCHANGED pc)
    BY <1>6 DEF ThreadLogs, ThreadMisses, Kill, Read
  <2>. QED BY <2>1, FailKeeps, ObjectsKept
<1>7. ASSUME NEW s \in Servers, NEW k \in Kinds, Child(s, k) \/ ExecFails(s, k)
      PROVE  ObjectInv'
  <2>1. UNCHANGED <<ipc, pc>>
    BY <1>7 DEF Child, Exec, ObjectGone, ExecFails
  <2>. QED BY <2>1, ObjectsKept
<1>. QED BY <1>1, <1>2, <1>3, <1>4, <1>5, <1>6, <1>7, CreateKeeps, DeleteKeeps,
            InterruptKeeps DEF Next, Main, StartUp, ShutDown

(***************************************************************************)
(* The inductive invariant of the objects: an active server has the queue, *)
(* every object belongs to the owner of the queue, and no server owns one  *)
(* that its phase has not created yet or has deleted                       *)
(* (server.c:188-217, 249-259).                                            *)
(***************************************************************************)
THEOREM ObjectsKeptTogether == Spec => [](TypeOK /\ ObjectInv)
<1>1. Init => ObjectInv
  BY NobodyAssumption
  DEF Init, ObjectInv, HasQueue, Together, Lacks, Active, Waiting, Deleting, Lacking, Objects
<1>2. TypeOK /\ ObjectInv /\ [Next]_vars => ObjectInv'
  BY ObjectStep
<1>. QED BY <1>1, <1>2, TypeCorrect, PTL DEF Spec

(***************************************************************************)
(* At most one server has the board, its semaphores and the queue,         *)
(* whatever becomes of the lock file (singelton.c:64-70).                  *)
(***************************************************************************)
THEOREM OneServerOnly == Spec => []OneServer
<1>1. ObjectInv => OneServer
  BY DEF ObjectInv, HasQueue, OneServer
<1>. QED BY <1>1, ObjectsKeptTogether, PTL

(***************************************************************************)
(* A start fails at the queue or not at all for objects left over          *)
(* (server.c:188-195).                                                     *)
(***************************************************************************)
THEOREM StartsClean == Spec => []ObjectsTogether
<1>1. ASSUME ObjectInv, NEW s \in Servers, pc[s] \in Creating \ {"mq"}
      PROVE  ipc[pc[s]] = Nobody
  <2>1. ipc["mq"] = s
    BY <1>1 DEF ObjectInv, HasQueue, Active, Creating
  <2>2. pc[s] \in Lacking(pc[s]) /\ pc[s] \in Objects
    BY <1>1 DEF Lacking, Creating, Objects, Starting, Leaving
  <2>. QED BY <1>1, <2>1, <2>2 DEF ObjectInv, Lacks, Together
<1>2. ObjectInv => ObjectsTogether
  BY <1>1 DEF ObjectsTogether, ObjectInv, Together
<1>. QED BY <1>2, ObjectsKeptTogether, PTL
-----------------------------------------------------------------------------
(***************************************************************************)
(* The children.                                                           *)
(***************************************************************************)

\* Where a server is that has waited for the child.
Past(k) == Deleting \cup Leaving \cup {"done"}
           \cup (IF k = "logger" THEN {"wait_archiver"} ELSE {})

\* What a server has waited for has ended, unless the wait was interrupted.
WaitedFor ==
  \A s \in Servers \ early, k \in Kinds : pc[s] \in Past(k) => child[s][k] = "ended"

\* The queue stays while a child has yet to look for it.
ForkedOwn ==
  \A s \in Servers \ early, k \in Kinds : child[s][k] = "forked" => ipc["mq"] = s

ChildInv == WaitedFor /\ ForkedOwn /\ OwnChildren

\* A step of a server that leaves the children alone.
LEMMA ChildrenKept ==
  ASSUME TypeOK, ChildInv, UNCHANGED <<child, early>>,
         \A t \in Servers : ipc["mq"] = t => ipc'["mq"] = t,
         \A t \in Servers, k \in Kinds : pc'[t] \in Past(k) => pc[t] \in Past(k)
  PROVE  ChildInv'
<1>1. WaitedFor'  BY DEF ChildInv, WaitedFor, Past
<1>2. ForkedOwn'  BY DEF ChildInv, ForkedOwn
<1>3. OwnChildren'  BY DEF ChildInv, OwnChildren, Running
<1>. QED BY <1>1, <1>2, <1>3 DEF ChildInv

\* A move between phases that demand the same of the children.
LEMMA GoKeepsChildren ==
  ASSUME TypeOK, ChildInv, UNCHANGED <<child, early>>,
         \A t \in Servers : ipc["mq"] = t => ipc'["mq"] = t,
         NEW s \in Servers, NEW p, Go(s, p),
         \A k \in Kinds : p \in Past(k) => pc[s] \in Past(k)
  PROVE  ChildInv'
<1>1. \A t \in Servers : pc'[t] = IF t = s THEN p ELSE pc[t]
  BY DEF Go, TypeOK
<1>. QED BY <1>1, ChildrenKept

\* A failure demands nothing of the children.
LEMMA FailKeepsChildren ==
  ASSUME TypeOK, ChildInv, UNCHANGED <<child, early, ipc>>, NEW s \in Servers, Fail(s)
  PROVE  ChildInv'
BY GoKeepsChildren DEF Fail, Past, Deleting, Leaving

\* The steps of the start.
LEMMA StartKeepsChildren ==
  ASSUME TypeOK, ObjectInv, ChildInv, NEW s \in Servers,
         OpenLockFile(s) \/ StartUp(s)
  PROVE  ChildInv'
<1>1. CASE OpenLockFile(s) \/ LockFile(s) \/ Bind(s) \/ StartThreads(s)
  <2>1. UNCHANGED <<child, early, ipc>>
    BY <1>1 DEF OpenLockFile, LockFile, Bind, StartThreads
  <2>2. Fail(s) \/ \E p \in {"opened", "locked", "mq", "wait_logger"} : Go(s, p)
    BY <1>1 DEF OpenLockFile, LockFile, Bind, StartThreads
  <2>. QED BY <2>1, <2>2, FailKeepsChildren, GoKeepsChildren DEF Past, Deleting, Leaving
<1>2. ASSUME NEW o \in Objects, NEW p \in {"bsem", "shm", "asem", "fork_logger"},
             Create(s, o, p)
      PROVE  ChildInv'
  <2>1. CASE ipc[o] = Nobody
    <3>1. \A t \in Servers : ipc["mq"] = t => ipc'["mq"] = t
      BY <1>2, <2>1, NobodyAssumption DEF TypeOK, Create, Objects
    <3>2. UNCHANGED <<child, early>> /\ Go(s, p)
      BY <1>2, <2>1 DEF Create
    <3>. QED BY <3>1, <3>2, GoKeepsChildren DEF Past, Deleting, Leaving
  <2>2. CASE ipc[o] # Nobody
    BY <1>2, <2>2, FailKeepsChildren DEF Create
  <2>. QED BY <2>1, <2>2
<1>3. ASSUME NEW k \in Kinds, NEW here \in {"fork_logger", "fork_archiver"},
             NEW p \in {"fork_archiver", "threads"}, Fork(s, k, here, p)
      PROVE  ChildInv'
  <2>1. CASE Fail(s) /\ UNCHANGED child
    BY <1>3, <2>1, FailKeepsChildren DEF Fork
  <2>2. CASE SetChild(s, k, "forked") /\ Go(s, p)
    <3>1. /\ UNCHANGED <<ipc, early>> /\ ipc["mq"] = s
          /\ child' = [child EXCEPT ![s][k] = "forked"]
          /\ pc' = [pc EXCEPT ![s] = p]
      BY <1>3, <2>2 DEF Fork, SetChild, Go, ObjectInv, HasQueue, Active
    <3>2. \A t \in Servers, l \in Kinds :
            child'[t][l] = IF t = s /\ l = k THEN "forked" ELSE child[t][l]
      BY <3>1 DEF TypeOK
    <3>3. \A t \in Servers : pc'[t] = IF t = s THEN p ELSE pc[t]
      BY <3>1 DEF TypeOK
    <3>4. \A l \in Kinds : p \notin Past(l)
      BY DEF Past, Deleting, Leaving
    <3>5. WaitedFor'
      BY <3>1, <3>2, <3>3, <3>4 DEF ChildInv, WaitedFor, Past
    <3>6. ForkedOwn'
      BY <3>1, <3>2 DEF ChildInv, ForkedOwn
    <3>7. OwnChildren'
      <4>1. ASSUME NEW t \in Servers, NEW l \in Kinds, child'[t][l] \in Servers,
                   ~(t = s /\ l = k), t \notin early
            PROVE  child'[t][l] = t
        BY <3>2, <4>1 DEF ChildInv, OwnChildren, Running
      <4>2. child'[s][k] \notin Servers
        BY <3>2, ServersAssumption
      <4>. QED BY <3>1, <4>1, <4>2 DEF OwnChildren, Running
    <3>. QED BY <3>5, <3>6, <3>7 DEF ChildInv
  <2>. QED BY <1>3, <2>1, <2>2 DEF Fork
<1>4. CASE \/ CreateQueue(s) \/ CreateBoardSemaphore(s) \/ CreateBoard(s)
           \/ CreateArchiverSemaphore(s)
  BY <1>2, <1>4
  DEF CreateQueue, CreateBoardSemaphore, CreateBoard, CreateArchiverSemaphore, Objects
<1>5. CASE ForkLogger(s) \/ ForkArchiver(s)
  BY <1>3, <1>5 DEF ForkLogger, ForkArchiver, Kinds
<1>. QED BY <1>1, <1>4, <1>5 DEF StartUp

\* The steps of the end.
LEMMA EndKeepsChildren ==
  ASSUME TypeOK, ObjectInv, ChildInv, NEW s \in Servers, ShutDown(s)
  PROVE  ChildInv'
<1>1. ASSUME NEW k \in Kinds, NEW p, Go(s, p), UNCHANGED <<child, early, ipc>>,
             child[s][k] = "ended",
             \A l \in Kinds : p \in Past(l) => l = k \/ pc[s] \in Past(l)
      PROVE  ChildInv'
  <2>1. \A t \in Servers : pc'[t] = IF t = s THEN p ELSE pc[t]
    BY <1>1 DEF Go, TypeOK
  <2>2. WaitedFor'
    BY <1>1, <2>1 DEF ChildInv, WaitedFor, Past
  <2>3. ForkedOwn' /\ OwnChildren'
    BY <1>1 DEF ChildInv, ForkedOwn, OwnChildren, Running
  <2>. QED BY <2>2, <2>3 DEF ChildInv
<1>2. CASE WaitLogger(s)
  BY <1>1, <1>2 DEF WaitLogger, Wait, Past, Kinds, Deleting, Leaving, lockVars
<1>3. CASE WaitArchiver(s)
  BY <1>1, <1>3 DEF WaitArchiver, Wait, Past, Kinds, Deleting, Leaving, lockVars
<1>4. CASE DeleteArchiverSemaphore(s) \/ DeleteBoard(s) \/ DeleteBoardSemaphore(s)
  <2>1. PICK o \in Objects \ {"mq"}, p \in {"del_shm", "del_bsem", "del_mq"} :
          Delete(s, o, pc[s], p) /\ pc[s] \in Deleting
    BY <1>4
    DEF DeleteArchiverSemaphore, DeleteBoard, DeleteBoardSemaphore, Delete, Objects, Deleting
  <2>2. \A t \in Servers : ipc["mq"] = t => ipc'["mq"] = t
    BY <2>1 DEF TypeOK, Delete, Objects
  <2>. QED BY <2>1, <2>2, GoKeepsChildren DEF Delete, Past
<1>5. CASE DeleteQueue(s)
  <2>1. /\ UNCHANGED <<child, early>> /\ pc[s] = "del_mq" /\ Go(s, "close")
        /\ ipc' = [ipc EXCEPT !["mq"] = IF @ = s THEN Nobody ELSE @]
    BY <1>5 DEF DeleteQueue, Delete
  <2>2. \A t \in Servers : pc'[t] = IF t = s THEN "close" ELSE pc[t]
    BY <2>1 DEF Go, TypeOK
  <2>3. \A k \in Kinds : pc[s] \in Past(k)
    BY <2>1 DEF Past, Deleting
  <2>4. s \notin early => \A k \in Kinds : child[s][k] = "ended"
    BY <2>3 DEF ChildInv, WaitedFor
  <2>5. WaitedFor'
    BY <2>1, <2>2, <2>4 DEF ChildInv, WaitedFor
  <2>6. ForkedOwn'
    BY <2>1, <2>4 DEF ChildInv, ForkedOwn, TypeOK, Objects
  <2>7. OwnChildren'
    BY <2>1 DEF ChildInv, OwnChildren, Running
  <2>. QED BY <2>5, <2>6, <2>7 DEF ChildInv
<1>6. CASE CloseLockFile(s) \/ UnlinkLockFile(s)
  <2>1. /\ UNCHANGED <<child, early, ipc>>
        /\ \E p \in {"unlink", "done"} : Go(s, p) /\ pc[s] \in Leaving
    BY <1>6 DEF CloseLockFile, UnlinkLockFile, Leaving
  <2>. QED BY <2>1, GoKeepsChildren DEF Past
<1>. QED BY <1>2, <1>3, <1>4, <1>5, <1>6 DEF ShutDown

\* A child finds the queue, or its semaphores and the board, by their keys.
LEMMA ChildKeepsChildren ==
  ASSUME TypeOK, ObjectInv, ChildInv, NEW s \in Servers, NEW k \in Kinds,
         Child(s, k) \/ ExecFails(s, k)
  PROVE  ChildInv'
<1>1. PICK x : SetChild(s, k, x) /\ x # "forked" /\
               (child[s][k] = "ended" => x = "ended") /\
               (s \notin early /\ x \in Servers => x = s)
  <2>1. CASE Exec(s, k)
    <3>. DEFINE o == IF k = "logger" THEN "mq" ELSE "asem"
    <3>1. CASE \E q \in Needed(k) : ipc[q] = Nobody
      BY <2>1, <3>1, ServersAssumption DEF Exec
    <3>2. CASE ~ \E q \in Needed(k) : ipc[q] = Nobody
      <4>1. o \in Objects /\ ipc[o] # Nobody /\ ipc[o] \in Servers
        BY <3>2 DEF Needed, Objects, Kinds, TypeOK
      <4>2. s \notin early => ipc[o] = s
        BY <2>1, <4>1 DEF ChildInv, ForkedOwn, Exec, ObjectInv, Together
      <4>3. SetChild(s, k, ipc[o]) /\ child[s][k] = "forked"
        BY <2>1, <3>2 DEF Exec
      <4>. QED BY <4>1, <4>2, <4>3, ServersAssumption
    <3>. QED BY <3>1, <3>2
  <2>2. CASE ObjectGone(s, k) \/ ExecFails(s, k)
    BY <2>2, ServersAssumption DEF ObjectGone, ExecFails
  <2>. QED BY <2>1, <2>2 DEF Child
<1>2. UNCHANGED <<pc, ipc, early>>
  BY DEF Child, Exec, ObjectGone, ExecFails
<1>3. \A t \in Servers, l \in Kinds :
        child'[t][l] = IF t = s /\ l = k THEN x ELSE child[t][l]
  BY <1>1 DEF TypeOK, SetChild
<1>4. WaitedFor'
  BY <1>1, <1>2, <1>3 DEF ChildInv, WaitedFor, Past
<1>5. ForkedOwn'
  BY <1>1, <1>2, <1>3 DEF ChildInv, ForkedOwn
<1>6. OwnChildren'
  BY <1>1, <1>2, <1>3 DEF ChildInv, OwnChildren, Running
<1>. QED BY <1>4, <1>5, <1>6 DEF ChildInv

\* A signal ends children and attaches none.
LEMMA InterruptKeepsChildren ==
  ASSUME TypeOK, ObjectInv, ChildInv, NEW s \in Servers, Interrupt(s)
  PROVE  ChildInv'
<1>1. UNCHANGED ipc /\ early \subseteq early'
  BY DEF Interrupt, InterruptServer
<1>2. \A t \in Servers, k \in Kinds :
        child'[t][k] = child[t][k] \/ (child'[t][k] = "ended" /\ child[t][k] \in Servers)
  BY DEF Interrupt, InterruptChildren, TypeOK, Running
<1>3. \A t \in Servers \ early', k \in Kinds : pc'[t] \in Past(k) => pc[t] \in Past(k)
  <2>1. CASE Fail(s)
    BY <2>1 DEF Fail, Go, TypeOK, Past, Deleting, Leaving
  <2>2. CASE UNCHANGED pc
    BY <2>2
  <2>3. CASE Go(s, AfterWait[pc[s]]) /\ early' = early \cup {s}
    BY <2>3 DEF Go, TypeOK
  <2>. QED BY <2>1, <2>2, <2>3 DEF Interrupt, InterruptServer
<1>4. WaitedFor'
  <2>1. ASSUME NEW t \in Servers \ early', NEW k \in Kinds, pc'[t] \in Past(k)
        PROVE  child'[t][k] = "ended"
    <3>1. child[t][k] = "ended"
      BY <1>1, <1>3, <2>1 DEF ChildInv, WaitedFor
    <3>. QED BY <1>2, <3>1
  <2>. QED BY <2>1 DEF WaitedFor, Past
<1>5. ForkedOwn'
  BY <1>1, <1>2 DEF ChildInv, ForkedOwn
<1>6. OwnChildren'
  BY <1>1, <1>2, ServersAssumption DEF ChildInv, OwnChildren, Running
<1>. QED BY <1>4, <1>5, <1>6 DEF ChildInv

\* Every step keeps the children with their server.
LEMMA ChildStep ==
  ASSUME TypeOK, ObjectInv, ChildInv, [Next]_vars
  PROVE  ChildInv'
<1>1. CASE UNCHANGED vars
  BY <1>1, ChildrenKept DEF vars
<1>2. ASSUME NEW s \in Servers, ThreadLogs(s) \/ ThreadMisses(s) \/ Kill(s) \/ Read(s)
      PROVE  ChildInv'
  <2>1. UNCHANGED <<child, early, ipc>> /\ (Fail(s) \/ UNCHANGED pc)
    BY <1>2 DEF ThreadLogs, ThreadMisses, Kill, Read
  <2>. QED BY <2>1, FailKeepsChildren, ChildrenKept
<1>. QED BY <1>1, <1>2, StartKeepsChildren, EndKeepsChildren, ChildKeepsChildren,
            InterruptKeepsChildren DEF Next, Main

(***************************************************************************)
(* The inductive invariant of the children: a server past a wait has no    *)
(* such child left, unless the wait was interrupted; until then a child    *)
(* that has not attached yet finds the queue of its own server             *)
(* (server.c:236-247).                                                     *)
(***************************************************************************)
THEOREM ChildrenKeptOwn == Spec => [](TypeOK /\ ObjectInv /\ ChildInv)
<1>1. Init => ChildInv
  BY ServersAssumption
  DEF Init, ChildInv, WaitedFor, ForkedOwn, OwnChildren, Running, Past, Deleting, Leaving
<1>2. TypeOK /\ ObjectInv /\ ChildInv /\ [Next]_vars => ChildInv'
  BY ChildStep
<1>. QED BY <1>1, <1>2, ObjectsKeptTogether, PTL DEF Spec

(***************************************************************************)
(* No logger and no archiver works on the objects of another server,       *)
(* unless a wait of its own server was interrupted (logger.c:44,           *)
(* archiver.c:60-68).                                                      *)
(***************************************************************************)
THEOREM ChildrenOwn == Spec => []OwnChildren
BY ChildrenKeptOwn, PTL DEF ChildInv

(***************************************************************************)
(* A server that exits with success leaves neither objects nor children,   *)
(* unless a wait was interrupted (server.c:236-259).                       *)
(***************************************************************************)
THEOREM ExitsClean == Spec => []CleanExit
<1>1. ASSUME ObjectInv, ChildInv, NEW s \in Servers, pc[s] = "done"
      PROVE  /\ \A o \in Objects : ipc[o] # s
             /\ s \notin early => \A k \in Kinds : child[s][k] = "ended"
  <2>1. Lacking(pc[s]) = Objects
    BY <1>1 DEF Lacking
  <2>2. \A k \in Kinds : pc[s] \in Past(k)
    BY <1>1 DEF Past
  <2>. QED BY <1>1, <2>1, <2>2 DEF ObjectInv, Lacks, ChildInv, WaitedFor
<1>2. ObjectInv /\ ChildInv => CleanExit
  BY <1>1 DEF CleanExit
<1>. QED BY <1>2, ChildrenKeptOwn, PTL
-----------------------------------------------------------------------------
(***************************************************************************)
(* The objects as one group.                                               *)
(***************************************************************************)
Held == {o \in Objects : ipc[o] # Nobody}
Live == \E s \in Servers : pc[s] \in Active

\* Where the objects stay and nobody becomes active, the owner dies or goes on.
LEMMA GroupKept ==
  ASSUME UNCHANGED ipc, \A t \in Servers : pc'[t] \in Active => pc[t] \in Active
  PROVE  [Group!GroupNext]_Group!groupVars
<1>1. Held' = Held /\ ipc'["mq"] = ipc["mq"]
  BY DEF Held
<1>2. Live' => Live
  BY DEF Live
<1>3. CASE Live' = Live
  BY <1>1, <1>3 DEF Group!groupVars, Held, Live
<1>4. CASE Live /\ ~Live'
  BY <1>1, <1>4 DEF Group!GroupNext, Group!Die, Held, Live
<1>5. (Live' = Live) \/ (Live /\ ~Live')
  BY <1>2 DEF Live
<1>. QED BY <1>3, <1>4, <1>5

\* A server that goes to another phase, or fails.
LEMMA GroupMove ==
  ASSUME TypeOK, UNCHANGED ipc, NEW s \in Servers, NEW p, Go(s, p),
         p \in Active => pc[s] \in Active
  PROVE  [Group!GroupNext]_Group!groupVars
<1>1. \A t \in Servers : pc'[t] = IF t = s THEN p ELSE pc[t]
  BY DEF Go, TypeOK
<1>. QED BY <1>1, GroupKept

LEMMA GroupFail ==
  ASSUME TypeOK, UNCHANGED ipc, NEW s \in Servers, Fail(s)
  PROVE  [Group!GroupNext]_Group!groupVars
BY GroupMove DEF Fail, Active, Waiting, Deleting

\* Creating the queue is the claim; the other objects are added.
LEMMA GroupCreate ==
  ASSUME TypeOK, ObjectInv, NEW s \in Servers,
         \/ CreateQueue(s) \/ CreateBoardSemaphore(s) \/ CreateBoard(s)
         \/ CreateArchiverSemaphore(s)
  PROVE  [Group!GroupNext]_Group!groupVars
<1>. DEFINE After == [mq |-> "bsem", bsem |-> "shm", shm |-> "asem", asem |-> "fork_logger"]
<1>1. PICK o \in Objects : Create(s, o, After[o])
  BY DEF CreateQueue, CreateBoardSemaphore, CreateBoard, CreateArchiverSemaphore, Objects
<1>2. CASE ipc[o] # Nobody
  BY <1>1, <1>2, GroupFail DEF Create
<1>3. CASE ipc[o] = Nobody
  <2>1. /\ ipc' = [ipc EXCEPT ![o] = s] /\ pc[s] = o
        /\ pc' = [pc EXCEPT ![s] = After[o]]
    BY <1>1, <1>3 DEF Create, Go
  <2>2. \A q \in Objects : ipc'[q] = IF q = o THEN s ELSE ipc[q]
    BY <2>1 DEF TypeOK
  <2>3. Live'
    BY <2>1 DEF TypeOK, Active, Objects, Live
  <2>4. Held' = Held \cup {o} /\ o \notin Held
    BY <1>3, <2>2, NobodyAssumption DEF Held
  <2>5. CASE o = "mq"
    <3>1. Held = {} /\ ipc["mq"] = Nobody
      BY <1>3, <2>5 DEF ObjectInv, Together, Held
    <3>2. Held' = {"mq"} /\ ipc'["mq"] = s
      BY <2>2, <2>4, <2>5, <3>1 DEF Objects
    <3>. QED BY <2>3, <3>1, <3>2 DEF Group!GroupNext, Group!Claim, Held, Live
  <2>6. CASE o # "mq"
    <3>1. Live
      BY <2>1, <2>6 DEF Live, Active, Objects
    <3>2. ipc'["mq"] = ipc["mq"] /\ Live' = Live
      BY <2>2, <2>3, <2>6, <3>1 DEF Objects, Live
    <3>. QED BY <2>4, <3>1, <3>2 DEF Group!GroupNext, Group!Add, Held, Live
  <2>. QED BY <2>5, <2>6
<1>. QED BY <1>2, <1>3

\* The claim is given up when nothing else is left.
LEMMA GroupDelete ==
  ASSUME TypeOK, ObjectInv, NEW s \in Servers,
         \/ DeleteArchiverSemaphore(s) \/ DeleteBoard(s)
         \/ DeleteBoardSemaphore(s) \/ DeleteQueue(s)
  PROVE  [Group!GroupNext]_Group!groupVars
<1>. DEFINE Here == [asem |-> "del_asem", shm |-> "del_shm", bsem |-> "del_bsem", mq |-> "del_mq"]
            After == [asem |-> "del_shm", shm |-> "del_bsem", bsem |-> "del_mq", mq |-> "close"]
<1>1. PICK o \in Objects : Delete(s, o, Here[o], After[o])
  BY DEF DeleteArchiverSemaphore, DeleteBoard, DeleteBoardSemaphore, DeleteQueue, Objects
<1>2. /\ ipc' = [ipc EXCEPT ![o] = IF @ = s THEN Nobody ELSE @]
      /\ pc[s] = Here[o] /\ pc' = [pc EXCEPT ![s] = After[o]]
  BY <1>1 DEF Delete, Go
<1>3. \A q \in Objects : ipc'[q] = IF q = o /\ ipc[q] = s THEN Nobody ELSE ipc[q]
  BY <1>2 DEF TypeOK
<1>4. \A t \in Servers : pc'[t] = IF t = s THEN After[o] ELSE pc[t]
  BY <1>2 DEF TypeOK
<1>5. pc[s] \in Active /\ ipc["mq"] = s
  BY <1>2 DEF ObjectInv, HasQueue, Active, Deleting, Objects
<1>6. CASE ipc[o] # s
  <2>1. UNCHANGED ipc
    BY <1>2, <1>6 DEF TypeOK
  <2>. QED BY <1>4, <1>5, <2>1, GroupKept
<1>7. CASE ipc[o] = s /\ o # "mq"
  <2>1. Live /\ Live'
    BY <1>4, <1>5, <1>7 DEF Live, Active, Deleting, Objects
  <2>2. ipc'["mq"] = ipc["mq"] /\ Held' = Held \ {o} /\ o \in Held \ {"mq"}
    BY <1>3, <1>7, NobodyAssumption DEF Held, Objects
  <2>3. Live' = Live
    BY <2>1 DEF Live
  <2>. QED BY <2>1, <2>2, <2>3 DEF Group!GroupNext, Group!Remove, Held, Live
<1>8. CASE o = "mq"
  <2>1. \A q \in Objects \ {"mq"} : q \in Lacking(pc[s])
    BY <1>2, <1>8 DEF Lacking, Objects, Starting, Leaving
  <2>2. Held = {"mq"}
    BY <1>5, <2>1, NobodyAssumption DEF ObjectInv, Lacks, Together, Held, Objects
  <2>3. Held' = {} /\ ipc'["mq"] = Nobody
    <3>1. ipc'["mq"] = Nobody
      BY <1>3, <1>5, <1>8 DEF Objects
    <3>2. \A q \in Objects : ipc'[q] = Nobody
      BY <1>3, <2>2, <3>1 DEF Held
    <3>. QED BY <3>1, <3>2 DEF Held
  <2>4. Live
    BY <1>5 DEF Live
  <2>5. ~Live'
    <3>1. pc'[s] \notin Active
      BY <1>4, <1>8 DEF Active, Waiting, Deleting
    <3>2. \A t \in Servers \ {s} : pc'[t] \notin Active
      BY <1>4, <1>5 DEF ObjectInv, HasQueue
    <3>. QED BY <3>1, <3>2 DEF Live
  <2>6. Live' = FALSE
    BY <2>5 DEF Live
  <2>. QED BY <2>2, <2>3, <2>4, <2>6 DEF Group!GroupNext, Group!Release, Held, Live
<1>. QED BY <1>6, <1>7, <1>8

\* Every step is a step of the group, or leaves it as it is.
LEMMA GroupStep ==
  ASSUME TypeOK, ObjectInv, [Next]_vars
  PROVE  [Group!GroupNext]_Group!groupVars
<1>1. CASE UNCHANGED vars
  BY <1>1, GroupKept DEF vars
<1>2. ASSUME NEW s \in Servers, OpenLockFile(s) \/ LockFile(s) \/ Bind(s)
      PROVE  [Group!GroupNext]_Group!groupVars
  <2>1. UNCHANGED ipc
    BY <1>2 DEF OpenLockFile, LockFile, Bind
  <2>2. Fail(s) \/ \E p \in {"opened", "locked", "mq"} : Go(s, p)
    BY <1>2 DEF OpenLockFile, LockFile, Bind
  <2>3. \A p \in {"opened", "locked", "mq"} : p \notin Active
    BY DEF Active, Waiting, Deleting
  <2>. QED BY <2>1, <2>2, <2>3, GroupFail, GroupMove
<1>3. ASSUME NEW s \in Servers, ForkLogger(s) \/ ForkArchiver(s) \/ StartThreads(s)
      PROVE  [Group!GroupNext]_Group!groupVars
  <2>1. UNCHANGED ipc /\ pc[s] \in Active
    BY <1>3 DEF ForkLogger, ForkArchiver, Fork, StartThreads, Active
  <2>2. Fail(s) \/ \E p \in {"fork_archiver", "threads", "wait_logger"} : Go(s, p)
    BY <1>3 DEF ForkLogger, ForkArchiver, Fork, StartThreads
  <2>. QED BY <2>1, <2>2, GroupFail, GroupMove
<1>4. ASSUME NEW s \in Servers, WaitLogger(s) \/ WaitArchiver(s)
      PROVE  [Group!GroupNext]_Group!groupVars
  <2>1. UNCHANGED ipc /\ pc[s] \in Active
    BY <1>4 DEF WaitLogger, WaitArchiver, Wait, Active, Waiting
  <2>2. \E p \in {"wait_archiver", "del_asem"} : Go(s, p)
    BY <1>4 DEF WaitLogger, WaitArchiver, Wait
  <2>. QED BY <2>1, <2>2, GroupMove
<1>5. ASSUME NEW s \in Servers, CloseLockFile(s) \/ UnlinkLockFile(s)
      PROVE  [Group!GroupNext]_Group!groupVars
  <2>1. UNCHANGED ipc
    BY <1>5 DEF CloseLockFile, UnlinkLockFile
  <2>2. \E p \in {"unlink", "done"} : Go(s, p)
    BY <1>5 DEF CloseLockFile, UnlinkLockFile
  <2>3. \A p \in {"unlink", "done"} : p \notin Active
    BY DEF Active, Waiting, Deleting
  <2>. QED BY <2>1, <2>2, <2>3, GroupMove
<1>6. ASSUME NEW s \in Servers, ThreadLogs(s) \/ ThreadMisses(s) \/ Kill(s) \/ Read(s)
      PROVE  [Group!GroupNext]_Group!groupVars
  <2>1. UNCHANGED ipc /\ (Fail(s) \/ UNCHANGED pc)
    BY <1>6 DEF ThreadLogs, ThreadMisses, Kill, Read
  <2>. QED BY <2>1, GroupFail, GroupKept
<1>7. ASSUME NEW s \in Servers, NEW k \in Kinds, Child(s, k) \/ ExecFails(s, k)
      PROVE  [Group!GroupNext]_Group!groupVars
  <2>1. UNCHANGED <<ipc, pc>>
    BY <1>7 DEF Child, Exec, ObjectGone, ExecFails
  <2>. QED BY <2>1, GroupKept
<1>8. ASSUME NEW s \in Servers, Interrupt(s)
      PROVE  [Group!GroupNext]_Group!groupVars
  <2>1. UNCHANGED ipc
    BY <1>8 DEF Interrupt
  <2>2. Fail(s) \/ UNCHANGED pc \/ (pc[s] \in Waiting /\ Go(s, AfterWait[pc[s]]))
    BY <1>8 DEF Interrupt, InterruptServer
  <2>3. pc[s] \in Waiting => pc[s] \in Active
    BY DEF Active
  <2>. QED BY <2>1, <2>2, <2>3, GroupFail, GroupKept, GroupMove
<1>. QED BY <1>1, <1>2, <1>3, <1>4, <1>5, <1>6, <1>7, <1>8, GroupCreate, GroupDelete
         DEF Next, Main, StartUp, ShutDown

(***************************************************************************)
(* The servers implement the group: the queue is the claim, and no step of *)
(* any server touches what another one has (server.c:188-200, 248-258).    *)
(***************************************************************************)
THEOREM GroupIsOwned == Spec => GroupOwned
<1>1. Init => Group!GroupInit
  BY DEF Init, Group!GroupInit, Active, Waiting, Deleting, Objects
<1>2. TypeOK /\ ObjectInv /\ [Next]_vars => [Group!GroupNext]_Group!groupVars
  BY GroupStep
<1>. QED BY <1>1, <1>2, ObjectsKeptTogether, PTL DEF Spec, GroupOwned, Group!GroupSpec

(***************************************************************************)
(* The price of IPC_EXCL: once a server has died and left its queue, no    *)
(* step of any server removes an object, and none gets past the creation   *)
(* of its queue (mq.c, server.c:188).                                      *)
(***************************************************************************)
OrphansStay ==
  [][ipc["mq"] # Nobody /\ ~Live => UNCHANGED ipc /\ ~Live']_vars

THEOREM OrphansStayForever == Spec => OrphansStay
<1>1. TypeOK /\ ObjectInv /\ [Next]_vars =>
        [ipc["mq"] # Nobody /\ ~Live => UNCHANGED ipc /\ ~Live']_vars
  <2>. SUFFICES ASSUME TypeOK, ObjectInv, [Next]_vars, ipc["mq"] # Nobody, ~Live
                PROVE  UNCHANGED ipc /\ ~Live'
    OBVIOUS
  <2>1. [Group!GroupNext]_Group!groupVars
    BY GroupStep
  <2>2. Held' = Held /\ ipc'["mq"] = ipc["mq"] /\ ~Live'
    BY <2>1 DEF Group!GroupNext, Group!Claim, Group!Add, Group!Remove, Group!Release,
                Group!Die, Group!groupVars, Held, Live
  <2>3. TypeOK' /\ Together /\ Together'
    BY TypeStep, ObjectStep DEF ObjectInv
  <2>4. \A o \in Objects : ipc'[o] = ipc[o]
    BY <2>2, <2>3 DEF Held, Together
  <2>5. UNCHANGED ipc
    BY <2>3, <2>4 DEF TypeOK
  <2>. QED BY <2>2, <2>5
<1>. QED BY <1>1, ObjectsKeptTogether, PTL DEF Spec, OrphansStay
=============================================================================
