# Virtual blackboard: TLA+ models, checks and proofs

The program is a client/server blackboard in C (`src/src/server`, `src/src/client`).
A docent, students and tutors log in over TCP; at most one of them at a time may
write on the board; the server stores the board in shared memory, sends it and
status messages to everybody, and archives it when it is cleared. This directory
models the server with its processes, threads, locks and semaphores, the life of
the server processes from start to exit, the client process with its four threads,
and the text handler that keeps the board within its bounds. Paths below are
relative to `src/src/`.

## Inventory of the system

| Component | State | Operations | Hard because | Correct when |
|---|---|---|---|---|
| client threads, message handlers (`server/client_thread.c`, `message_handler.c`) | one thread per connection | login, board, clear, request, reply, shutdown, logout | unlocked reads of the list, locks kept over other calls, early returns, partial `recv()` | locks are released on every path, entries come and go with their thread, no NULL dereference |
| client list (`server/client_list.c`) | linked list, `user_docent`, `user_write`, `client_counter`, `cid_counter`, mutex | add, remove, look-ups, ids, iteration | check-then-act between threads, counter overflow | pointers never dangle, ids are unique, counts match |
| broadcasting agent (`server/broadcasting.c`) | `broadcast_type`, condition variable, `trigger_mutex` | trigger, status, board to readers, board to all | one overwritten type, no predicate, mutex kept while sending | every change reaches every client |
| board (`server/blackboard.c`, `semaphore.c`) | shared memory, semaphore `bsem` | copy, erase, store | `recv()` inside the section | nobody copies a half-written board |
| archiver (`server/archiver.c`) | process, semaphore `asem` | wait for the trigger, append, notify, reset; debug thread | two locks by the clear against two unlocks by the archiver | a clear erases only what is archived |
| login thread (`server/login_thread.c`) | listening sockets, `accept_fd` | select, accept, start a client thread | a local variable shared with the new thread | one thread per connection |
| server lifecycle (`server/server.c`, `signal_handler.c`, `singelton.c`) | lock file, IPC objects, child processes | start, SIGINT, wait, delete, exit | deletion while threads run, restart after a kill | one server at a time, nothing is left behind |
| logger (`server/logger.c`, `mq.c`, `utils.c`) | bounded message queue | log from every thread, write the file | `IPC_NOWAIT` and exit on a full queue | logging does not stop the server |
| client threads (`client/command_thread.c`, `listener_thread.c`, `liveagent_thread.c`) | `command_type`, timer, board and data mutexes | send commands, send the board, receive | overwritten commands, a signal handler that takes a mutex | each command is sent once, the last text is sent |
| client interface (`client/client.c`, `gui.c`) | permissions shown, text buffer | editing within 80 x 15, buttons | bounds with UTF-8 and pasted lines | the text always fits the board |
| message layout (`server/message_builder.c`, `net_message.*`) | none | build, byte order | - | - |

In the server the client threads call the list, the board semaphore, the archiver's semaphore
and the trigger; the agent takes the trigger mutex, then the board semaphore or
the list; the archiver is a process that shares the two semaphores and the board.
Logger and archiver are children the server forks, with IPC objects found by a key
that every server on the machine shares. In the client the main thread (GTK) leaves
one command for the command thread, edits go through a timer and its signal handler
or the live agent, and the listener changes what the interface enables.
`PROJECT.json` lists every hazard with its line and the properties that cover it.

## Modules

```
Connections <- ClientList --\
           \<- Blackboard ---+- Broadcasting <- Server <- ServerProperties <- MCServer
                                                          |        \<- ServerProofs <- StructureProofs <- PromiseProofs
                                              WriteToken -/ (INSTANCE)                             \<- BalanceProofs
PromiseProofs, BalanceProofs <- ConditionProofs
LiveAgent <- ClientCommand <- Client <- ClientProperties <- ClientProofs
Ownership <- (INSTANCE) Lifecycle <- LifecycleProofs
BoardText <- MCBoardText
         \<- BoardTextProofs
```

The server:

* `Connections` - sockets as the kernel shows them to the server (external): FIN,
  RST, the error that is reported once, SIGPIPE on a broken connection (the code
  neither ignores it nor passes `MSG_NOSIGNAL`), and whether the process lives.
* `ClientList` - `client_list.c`. The doubly linked list is a set of descriptors;
  `members`, `role`, `cid` are the entries, `user_docent`/`user_write` the pointers
  with `Nobody` for NULL. Operations that lock, work and unlock are one step;
  `cl_mutex` names a thread that keeps the mutex across steps.
* `Blackboard` - `blackboard.c`, `archiver.c`. The board's content is a text, or
  "torn" between `memset` and `memcpy`, "empty", or "garbage" (uninitialized bytes
  after a short `recv()`). `asem` is the value of the archiver's semaphore.
* `Broadcasting` - `broadcasting.c`. The agent's program counter says whether it is
  in `pthread_cond_wait`, out of the wait set, or holds `trigger_mutex`. `status` and
  `shown` are histories of what the clients have received (kept only in the runs
  that ask for them: constant `Recorded`).
* `Server` - `client_thread.c`, `message_handler.c`: one program counter per
  connection, one action per stretch of a handler between two points where another
  thread can come in (acquiring a lock some step holds, two unlocked reads).
  `Message` is the `switch` of the receive loop; `Inputs` selects the message kinds of
  an instance. With `Compliant` the clients send only what the user interface
  enables (`client.c:89-96`, `command_thread.c:228-237`); without it, anything.
* `ServerProperties` - all properties of the server. `WriteToken` - the abstract
  promise about the write access; `ServerProperties!Token` is the refinement mapping.
* `MCServer` - instances for TLC. `ServerProofs`, `StructureProofs`, `PromiseProofs`,
  `BalanceProofs`, `ConditionProofs` - theorems.

The client:

* `LiveAgent` - the client's mutexes (`client/utils.c`), the "changed" handler of the
  text buffer (`client.c`), the live agent and its SIGALRM handler
  (`liveagent_thread.c`). A mutex is the name of its holder; `pthread_mutex_destroy`
  makes a free one "destroyed", after which lock and unlock return at once, and fails
  on a held one. `alarm[t]` is where thread `t` is in the signal handler, which may
  interrupt any thread at any point. `blackboard` says whether the board's text is
  NULL, sent or not yet sent.
* `ClientCommand` - `command_thread.c`: the condition variable without a predicate
  and the one `command_type` the next click overwrites.
* `Client` - the GTK loop with its buttons and dialogs, the listener
  (`listener_thread.c`), and the end of the process: `gtk_main_quit`, the two mutexes
  destroyed, three threads cancelled and joined. Deferred cancellation ends a thread
  only where it blocks, with the mutexes it holds. GTK itself is external: events are
  dispatched with the GDK lock held, a dialog is modal and gives the lock back.
* `ClientProperties` - its properties; `WaitsFor`, `Behind` and `Hung` say who waits for
  whom. `ClientProofs` - theorems.

The rest:

* `Lifecycle` - any number of servers started at any time in one directory: the lock
  file with its name and its lock (`singelton.c`), the message queue, the semaphores
  and the shared memory by key (`server.c`, `mq.c`, `semaphore.c`, `blackboard.c`), fork
  and exec of logger and archiver, SIGINT to the process group, waits, deletion and
  kills. `ipc[o]` is the server that created the object `o`; a child that runs is named
  by the server whose objects it has found. Its properties are in the same module,
  `LifecycleProofs` holds the theorems. `Ownership` is the abstract promise about the
  IPC objects: the first one claims the group, only the owner adds and removes, and
  what a dead owner leaves stays. `Lifecycle!Group` is the refinement mapping.
* `BoardText` - `on_insert_text` of `client/gui.c`: its loops over the pasted text in
  closed form, and deletion (GTK, external). `MCBoardText` - texts for TLC,
  `BoardTextProofs` - theorems.

Definitions marked `Fault` in a comment are deliberately wrong variants of the
definition after them. No specification uses them; each shows that a property would
notice that bug (`PROJECT.json`, "mutants").

### Abstractions

Server:

* A client id and a role are taken in one step (`Login`): `get_next_cid` has its own
  mutex and the id is read again only after `add_client`. A role byte that is none of
  the three is treated by the code like STUDENT.
* A `send()` never blocks. An announced payload arrives, is cut short, or fails.
* Messages are read whole: a `recv()` of a header or of the one to three bytes after
  it that fails is `Disconnected`. A left-over text is read as a header of unknown
  type: no character of a text has the value of a message type the loop knows.
* Freed entries are gone: reading one after `free()` in the unlocked test of
  `has_write_access` is not modelled, the change of the pointer to NULL between its
  two loads is (the build uses no optimization, `Makefile:3`).
* `malloc` does not fail. Names are left out, the order of the list too.
* After a shutdown request the server is "stopping": the archiver may die at any
  time and the server may exit at any time, with no thread joined. The archiver does
  not die while it holds the board semaphore. How the process ends is `Lifecycle`.

Client:

* Taking a lock and what follows up to the next lock or blocking call is one step;
  so are a `send()` and the wait after it, an unlock and the timer after it, and the
  handler's installation and the agent's first wait.
* The mutex `la_data_mutex` is held exactly while the agent is "reading".
* `dilat_max_reset` follows the typing rate: it is any of `ResetLimits` at each edit.
* Of a message only its kind is kept. What the server sends is arbitrary, so the
  client is checked against more servers than the one in `Server`.

Lifecycle: each server starts once (another start is another server); SIGINT reaches
the whole group in one step; log lines are counted and not read; options and
addresses are left out. What threads do to the objects is any sequence of logging
and using. `signal()` may or may not restart `waitpid()`: constant `Interruptible`.

Board text: a byte is a letter, a newline, or one of the two bytes of a longer
character. Characters of three bytes, which the correction in `gui.c` does not expect,
are left out.

## Runs

| Run | Instance | Shows |
|---|---|---|
| `access` | `MCServer`, 3 connections, ids up to 3, no boards | `ListMatchesThreads`, `PointersValid`, `CountsRight`, `CidsUnique`, `StatusUpToDate`; the write access is the token of `WriteToken` (`WriteTokenKept`); a login never gets an id that an unanswered query is about (`QueriedIdsNotReused`) |
| `faults` | `MCServer`, 2 connections, closes, resets, boards, requests, shutdown | `TypeOK`, `ListMatchesThreads`, `LocksMatchSections`, `OnlyKnownCrashes` |
| `board` | `MCServer`, 2 connections, boards, clears, requests, debug thread, agent not yet waiting | `NoTornCopy`, `HandshakeBalanced`, `OnlyInversionDeadlocks` |
| `progress` | `MCServer`, 2 connections, clears, fairness | `ClearCompletes`, `LogoutCompletes`, `TriggerServed` |
| `client` | `ClientProperties`, a student's client, fairness | `TypeOK`, `EditCarried` and `CommandCarried`: no edit and no command is forgotten; `BoardUsedAlone`: the text is not replaced while it is sent; `MissedOnlyAtStart`; `OnlyKnownHangs`; `QuitCompletes` |
| `lifecycle` | `Lifecycle`, 3 servers, fairness | `TypeOK`, `OneServer`, `ObjectsTogether`, `CleanExit`, `OwnChildren`, `InterruptEnds`; the IPC objects are a group of `Ownership` (`GroupOwned`) |
| `inversion` | violation, 2 students, fairness | `ChangeAnnounced` fails: the deadlock of `request_handler` (list, then trigger mutex) and the agent (trigger mutex, then list) |
| `denied` | violation | `NeverCrashes` fails: the denial is sent to a client that has left |
| `unarchived` | violation | `ClearedIsArchived` fails: a board accepted from the former writer is stored between archive and erasure |
| `stale` | violation | `BoardUpToDate` fails: a login's status trigger replaces the board's trigger |
| `late` | violation | `LateWriterStays` fails: the text of a refused board is taken for a header |
| `text` | violation, `MCBoardText`, board of 2 x 3 | `InsertKeepsBounds` fails: a text cut before its first newline is pasted into a full line, which gets longer than the board |

The first five violation runs use `MCServer` with `Compliant = TRUE`: every counterexample
is a behaviour the program's own client can cause. Each of the six contradicts a
sentence of the documentation or a comment, quoted under "findings" in `PROJECT.json`.

### Bounds

Server. Three connections are the least with a docent, a writer and a further
client; two suffice where the property is about one thread against another, and
the agent and the archiver are always there. Descriptors are reused after a logout,
so every instance has logins without end. `MaxCid` bounds the 16-bit id counter at 2
or 3: the overflow of `get_next_cid` is reached, and after it logins fail as in the
code. One text is enough to tell a stored board from the welcome text, an erased, a
torn and a garbled one. There is no state constraint. `ClientSymmetry` is used in
the runs without liveness: no definition singles out a connection.

Client. The threads are the four of the program. `ResetLimits = {1}`: the first edit
arms the timer, the second triggers the agent, which are the two cases. `AlarmThreads`
are the main thread and the listener, the two that edit and that block in the signal
handler with a lock held; with all four as `AlarmThreads` the safety properties were
checked as well (1.8 million states, no error), too long for a run with liveness. Of the
incoming messages and the clicks those are in that change a lock or end a thread:
`error` and `query` open a dialog like `close` does, without its ending the client. The
theorems cover all values.

Lifecycle. Three servers: one that ends, one that opened the old lock file before its
name was removed, and one that creates it anew, which is the least for two holders of
the lock. A queue of one message is full after one write. One server's waits are
interrupted by the signal and the others' are not.

Text. Two rows of three bytes have a first, a last and a full line, and room for a
character of two bytes; the pasted texts have up to three bytes and each position of
a newline in them.

### Deadlock

Deadlock checking is off in all runs but `text`, because the systems may stop: the server exits,
is killed by SIGPIPE or crashes, and meets the lock inversion, which
`OnlyInversionDeadlocks` and `ChangeAnnounced` examine instead; the client exits, is
killed by an early SIGALRM or meets the hangs of `OnlyKnownHangs`; all servers of
`Lifecycle` end.

### Fairness

`Server!FairSpec`: strong fairness of each client thread's own steps, of the agent
and of the archiver: a thread that can run does, a waiter of a System V semaphore is
queued by the kernel, and a waiter of a mutex that is released again and again gets
it, which is an assumption on the scheduler. Nothing is assumed of what clients
send, of spurious wakeups or of the debug thread. `ReceiveShort` and `ReceiveFails` are
among the fair steps only as alternatives to `ReceiveBoard`: a payload arrives or the
connection ends. The progress run has no requests (its lock inversion would stop
everything, see `inversion`) and no shutdown (it kills the archiver under a clear).

`Client!FairSpec`: weak fairness of every thread, of the signal handlers and of the
timer: a thread that can go on does, a timer expires. It includes the user's answer to
an open dialog, which `QuitCompletes` cannot do without. Instead of strong fairness for
the waiters of a mutex, `Lull` says that boards from the server and wakeups without a
signal come to an end. Nothing makes the user type or click.

`Lifecycle!FairSpec`: weak fairness of each `main()` and of each server's children.
Nothing makes anybody start, interrupt or kill a server, and no log line is written
or read for sure.

## Proofs

TLAPS checks the following for every value of the constants. The only assumptions are
the named ones on the constants, which TLC evaluates in every run, and the
hypotheses named with a theorem below: for the server
`NobodyAssumption`, `MaxCidAssumption`, `ContentsAssumption`, `AgentStartAssumption`,
`RecordedAssumption`, `InputsAssumption`, `CompliantAssumption`, `DebugAssumption`,
`ThreadsAssumption`; for the client `ResetLimitsAssumption`, `AlarmThreadsAssumption`,
`RolesAssumption`, `IncomingAssumption`, `ClicksAssumption`; for the lifecycle
`NobodyAssumption`, `ServersAssumption`, `QueueSizeAssumption`, `InterruptibleAssumption`.

Server: every set of connections and of texts, every `MaxCid >= 1`, any inputs.

* `ServerProofs!TypeCorrect`: `Spec => []TypeOK`. `TypeOK` is inductive; one step per
  action, under it one per component.
* `StructureProofs`: `StructInv` is the conjunction of `TypeOK`, `ListMatchesThreads`,
  `PointersValid`, `LocksMatchSections` and `NoTornCopy`. None of the last four is
  inductive alone. A pointer stays valid because the thread that sets it is in the
  list; `TakeFree` and `LeaveList` need `ListMatchesThreads` for that. A board is whole
  when its semaphore is free only if the message being stored is not torn, and a
  message is not torn because it was copied under a free semaphore. `ListCorrect`,
  `PointersCorrect`, `LocksCorrect` and `CopiesWhole` follow.
* `PromiseProofs!CrashesKnown`: `Spec => OnlyKnownCrashes`. With `StructInv` the
  take-back finds a writer and `remove_client` its entry, so the two remaining NULL
  dereferences are the only ones.
* `PromiseProofs!WriteTokenImplemented`: `Spec => WriteTokenKept`, the refinement of
  `WriteToken`: joins, leaves and handovers map to token steps, all others stutter.
* `BalanceProofs!IdsUnique`: `Spec => []CidsUnique`. The strengthening is that no id is
  above the counter; at the overflow no id is given.
* `BalanceProofs!EntriesCounted`: `Spec => []CountsRight`. The list is finite, and its
  counter moves with it, by one entry; the students are the list without the docent
  and the tutors, so their number is not negative.
* `BalanceProofs!HandshakeKept`: `Spec => []HandshakeBalanced`. `ParityInv`: a clear locks
  the archiver's semaphore twice and the archiver unlocks it twice, so the parity of its
  value plus the number of clears between their locks depends only on where the archiver
  is. It holds for any number of concurrent clears.
* `BalanceProofs!InversionOnly`: `Spec => []OnlyInversionDeadlocks`. The holder of the
  board's semaphore waits for nobody, so a cycle cannot pass through it.
* `BalanceProofs!StatusReaches`: `StatusOnly => (Spec => []StatusUpToDate)`. Without boards,
  and with an agent that waits before the first client connects, a trigger is never
  lost: while a client has an old status, the agent is signalled or some thread is
  going to trigger (`Announced`). Both hypotheses are needed: `stale` shows a trigger
  replaced by another, and an agent that does not wait yet misses its first trigger.
* `BalanceProofs!RepliesReachAskers`: `Spec => QueriedIdsNotReused`. `QueriesCounted`: no
  queried id is above the counter, and the counter never goes back.

Three promises do not hold in general: `denied`, `unarchived` and `inversion` show how each is
broken. `ConditionProofs` says what each of these failures needs. A condition is
an action formula in the hypothesis, `[][..]_vars`, which many behaviours satisfy:
those in which no client takes that one step.

* `CrashNeedsLeaver`: while no client leaves the list, the server dereferences no NULL
  pointer beside a docent. `QueriesAnswerable`: each unanswered query is about a client
  still listed. A session without a docent is excluded because there a writer may
  hand back during another thread's `has_write_access`.
* `ClearArchivesAlone`: `ClearedIsArchived` holds if nobody stores a text while a clear
  is under way, however many clears overlap. `ClearsSaved` relates the board to the
  archive while a notification is under way, and rests on the parity of `ParityInv`:
  a clear does not pass on the notification of an older archive.
* `DeadlockNeedsHandover`: while no handover keeps the list's mutex over a trigger,
  no thread waits for itself.

Client: every role, every set of messages and clicks, every thread the signal may
reach, every reset limit.

* `ClientProofs!TypeCorrect`: `Spec => []TypeOK`.
* `ClientProofs!MutexesHeld`: `HoldInv` says for each mutex in which steps of which thread
  it is held, that the agent and the command thread keep theirs while they work, and
  that holders are alive until the threads are cancelled.
* `ClientProofs!EditsCarried` and `CommandsCarried`: `EditCarried` and `CommandCarried` are
  inductive with the types: each step hands the edit, or the command, on.
* `ClientProofs!TriggersMissedAtStart`: from `HoldInv`, since a trigger needs the mutex
  the thread keeps.
* `ClientProofs!HangsKnown`: along a chain of waits without a signal handler the rank of
  the threads (board mutex, agent or command thread, GDK lock, others) falls, so no
  chain closes; before the cancellation its end is alive.
* `ClientProofs!BoardNotShared`: `Spec => []BoardUsedAlone`. `UseInv`: until the threads are
  cancelled, who uses the text holds its mutex, and a thread that sends it in the
  signal handler was not interrupted at a place where it uses it too.
* `ClientProofs!CrashNeedsSpuriousWakeup` and `RepeatNeedsSpuriousWakeup`: a NULL text is sent, or
  a command the user did not give or one already sent, only after a wakeup without a
  signal, which POSIX allows and neither `pthread_cond_wait` checks.

Lifecycle: any number of servers, any queue size, any set of interruptible servers.

* `LifecycleProofs!TypeCorrect`; `ObjectsKeptTogether`: an active server has the queue,
  every object belongs to the owner of the queue, and no server owns what its phase
  lacks. `OneServerOnly` and `StartsClean` follow: it is the exclusive creation of the queue
  that admits one server, not the lock file.
* `LifecycleProofs!ChildrenKeptOwn`: unless a wait was interrupted, a server past a wait
  has no such child, and a child that attaches finds its own server's queue. `ChildrenOwn`
  and `ExitsClean` follow.
* `GroupIsOwned`: `Spec => GroupOwned`, the refinement of `Ownership`. `OrphansStayForever`: the
  objects of a server that was killed keep every later server from starting.

Board text: every size of the board and every set of texts whose characters are
whole (`Proper`, a hypothesis of each theorem). The loops' closed form speaks of the
least or greatest position with a property; that it exists is proved from the
well-founded order of finite sets (`LeastNat`).

* `CharactersStayWhole`: no step leaves half a character, wherever a text is cut.
* `InLineStaysInBounds`: what has no newline in it keeps the bounds of rows and columns.
* `RowsStayBounded`: the board exceeds its rows by one at most. It can do so: on a board
  of two rows of three bytes, "\na\n" pasted before "aa" gives three rows, because at the
  second newline the line counts as full, and that branch (`client/gui.c:147-173`) inserts
  a newline whose number it does not count: its test of the rows always holds. So what `text` refutes fails by a long line or by
  one row.

Only model-checked: all liveness (`ClearCompletes`, `LogoutCompletes`, `TriggerServed`,
`QuitCompletes`, `InterruptEnds`), which is beyond the prover like `ENABLED`. All
invariants and action properties of the passing runs are proved, `StatusUpToDate` under
the hypothesis `StatusOnly`, which the run that checks it satisfies.

## Not modelled

* The linked list under the set of entries: `previous`/`next`, allocation and `free`, and
  with them the unlocked read of an entry after its `free` (`client_list.c:236`). It
  would be a refinement of `ClientList`.
* The login thread's `accept_fd`, which the new thread reads through a pointer
  (`login_thread.c:70-78`): in `Server` a descriptor and its thread are one, which that
  race breaks.
* Blocking of `send()`, and a client that announces a payload and sends nothing: no
  progress holds with them, and none is claimed.
* `Client` and `Server` composed: each is checked against an environment that may do
  more than the other does (`Incoming`, `Inputs`).
* Characters of three bytes in `on_insert_text`.
* Construction of the windows, message layout and byte order, names, the text of log
  lines, the archive's file format, address resolution and option parsing: no state
  other parts depend on.
