# A verification project for the module 3 programs

The repository holds some twenty small, independent C programs (`3.1` to
`3.18`, `3.cross1`, `3.cross2`) about processes, inter-process communication
and sockets on Linux.  This directory keeps TLA+ models of those that have a
protocol of their own, the TLC runs that check them on small instances, and
proofs, checked by TLAPS, of what holds for every instance.

There is no shared library: a component below is one program, or one pair of
programs that talk to each other.

## 1. Inventory

| Part | Processes | State it keeps | How they interact | What is hard |
|---|---|---|---|---|
| `3.cross2/taxi.c` | a command line (CLI), one process per driver | the CLI's table of drivers with a *copy* of each status; the driver's status, start time and timer | two bounded POSIX message queues per driver; `mq_timedreceive` of 2 s one way, blocking `mq_send` the other; one-shot `timerfd`, `poll` | late answers, stale copies, two full queues, descriptors that leak, whole seconds against nanoseconds, drivers that die |
| `3.cross1` (`server.c`, `client1.c`, `client2.c`) | one server, clients | a table of (ip, port, counter), shifted down on removal | UDP over raw sockets, which also deliver the server's own answers | lost packets, crashed clients that keep their slot, a full table, indices after a shift |
| `3.18` (`server.c`, `client.c`) | one server, clients | `fds`, `current_size`, `nfds`, `compress_array`; `buff` of the dialogue | TCP; `poll` over all sockets, then a blocking dialogue with one client | the scan changes the table it walks, clients leave in the middle, stale `buff` |
| `3.15` (`server.c`, `client.c`) | a parent, one child per client, clients | `nclients` in every process, the process table | the same dialogue in a forked child | zombies, a count that is a copy, users who do nothing |
| `3.3` (`main.c`, `list.c`) | one | a doubly linked list, `database.txt` | a menu | pointers at the head, the middle and the end; what is on disk after an exit |
| `3.8` (`write.c`, `read.c`) | a writer, a reader | a named pipe, two System V semaphores with `SEM_UNDO` | strict alternation | start order, kills, values left behind, what an exit undoes |
| `3.10` (`write.c`, `read.c`) | the same | the same with named POSIX semaphores, unlinked by either at its end | the same | a name and an open semaphore part ways |
| `3.9`, `3.11` (`main.c`) | a parent, its child | `file.txt`, two semaphores (System V; POSIX and never unlinked) | the same, over a file | the order of two opens, leftovers of interrupted runs |
| `3.6` (`sender.c`, `receiver.c`) | two | one System V queue | both send and receive the same message type; whoever ends removes the queue | one takes its own text, calls that fail unnoticed |
| `3.7` (`sender.c`, `receiver.c`) | two | a named POSIX queue of numbers, the number being the priority | non-blocking receives; both unlink the name at their end | a name removed under a running sender, 255 overtaking |
| `3.14` (`client1.c`, `client2.c`) | two | sockets | one line each in turn, over UDP, nothing is sent again | lost and late datagrams, restarts |
| `3.4` (`main.c`), `3.16` (`server.c`, `client.c`) | a writer, a reader | a pipe; a TCP connection; a file | a stream whose end is a `close` or an exit | ends held open, an end that is a failure |
| `3.5` (`main.c`) | a parent, its child | `numbers.txt`, the flag `canRead` | SIGUSR1 and SIGUSR2, sleeps | signals that merge, overtake one another or come between the read and the reset of the flag |
| `3.12`, `3.13` (`main.c`) | a parent, its child | a shared array, `n_msg`, `pos_minmax` | nothing but sleeps | increments that get lost, an index outside the array |
| `3.1`, `3.2`, `3.17` | | none that a second step depends on | | not modelled, see section 8 |

What makes each of the modelled parts correct:

* **Taxi.**  A driver works on one task at a time and for as long as it was
  asked; the CLI shows a working driver as busy; a command comes back to the
  prompt; CLI and driver do not block each other for good.
* **Echo server.**  The answers to one peer are numbered 1, 2, 3, ...
  whatever other peers come, go, crash or are refused.
* **Calculator servers.**  Every client that connects is served and closed,
  in its turn, and gets the result of its own numbers.
* **Phone book.**  The pointers implement a sequence in the order of the last
  names; what is deleted is gone from the file.
* **Semaphore programs.**  A message is handed over before the next one is
  sent, none twice, none out of order, and both programs end.
* **Chats, numbers, streams, signals, shared memory.**  The two processes of a
  pair stay in step unless something was lost; nothing counts as complete that
  is not; neither end of a stream waits for ever for the other.

## 2. Modules

| Module | Role |
|---|---|
| `Taxi` | CLI, drivers, queues, timers, clock of `3.cross2` |
| `Dispatch` | what the dispatcher promises about tasks; `Taxi` refines it |
| `TaxiProofs` | theorems about `Taxi` |
| `EchoServer` | server and clients of `3.cross1` over lossy buffers |
| `EchoSessions` | one numbered session per peer; `EchoServer` refines it |
| `EchoProofs` | theorems about `EchoServer`, the refinement among them |
| `SysVFifoProofs`, `PosixFifoProofs` | theorems about the two pipes, the refinements of `Handoff` among them |
| `ServerProofs` | theorems about `ForkServer` and `PollServer`, over one invariant of the dialogue |
| `QueueChat`, `NumberQueue`, `UdpChat` | 3.6, 3.7, 3.14 |
| `ByteStream` | the pipe of 3.4 and the connection of 3.16 |
| `SignalFile` | 3.5 |
| `SharedMinMax` | 3.12 and 3.13 |
| `MCPairs` | the six modules before this line in one instance, a behaviour being of one of them |
| `PairsProofs` | theorems about the six pairs |
| `Calculator` | `dostuff` and the client, shared by `3.18` and `3.15`, over a connection that may break |
| `PollServer` | `main` of `3.18`, composed with `Calculator` |
| `ForkServer` | `main` of `3.15`, composed with `Calculator` |
| `PhoneList` | list, menu and file of `3.3` |
| `PhoneProofs` | theorems about `PhoneList`: the pointers are a sequence |
| `Semaphores` | System V semaphores with `semadj`, for `3.8` and `3.9` (and `3.11` with `Undo = FALSE`) |
| `Handoff` | messages in order, at most `Ahead` on their way; both pipes refine it |
| `SysVFifo`, `PosixFifo` | `3.8` and `3.10` |
| `FileLockstep` | `3.9` (`Undo = TRUE`) and `3.11` (`Undo = FALSE`) |
| `FileLockstepProofs` | theorems about `FileLockstep` |
| `MC*` | instances: symmetry sets, values a `.cfg` cannot write |

### How state and actions correspond to the code

`PROJECT.json` ("map") gives the lines of every definition; the conventions
are these.  A process is a variable for its place in the program (`pc`,
`phase[p]`, `stage[c]`, `writer`, `child`, ...) and one per variable of the
code that a later step reads.  An action is the code from one blocking or
visible system call to the next, because nothing in between can be seen by
anyone else.  Queues, pipes, sockets, semaphores and files are variables of
their own, with the behaviour the kernel gives them, and marked external.

* **`Taxi`.**  `UserStep` is a command typed at the prompt (`create_driver`,
  `send_task`, `get_status`, `get_drivers`, end of input).  `OpenForStatus`,
  `SendStatus`, `ReceiveReply`, `TimeOut` are `update_driver_status`;
  `OpenForTask`, `SendTask` the end of `send_task`.  `UpdateReturns` is what
  the caller does with the refreshed copy, and includes the check of line 187.
  `CreateCmdQueue`, `CreateRespQueue`, `CreateTimer`, `StartupFails` are the
  driver up to its loop; `TakeCommand`, `SendReply`, `TimerBranch`,
  `PollFails` the loop.  Time is counted in boundaries of the second (`Tick`),
  because the code subtracts `tv_sec` only; a timer for *t* seconds fires
  between the *t*-th and the next boundary (`TimerExpires`).
* **`EchoServer`.**  `Echo`, `Close`, `Refuse`, `Skip` are the branches of the
  server's loop for a packet; `ShiftDown` is the loop of `reset_client`.
  `Arrive` loses a packet when the buffer is full.  A client starts, sends
  a line (which may begin with CLOSE), prints an answer, quits with a CLOSE,
  or crashes and is started again on the same port.
* **`PollServer`.**  `Poll` sets `revents`, `PollAccept` (`Accepting`) is the
  accept loop, `Serve`, `PollDoStuff` and `EndService` the branch of a client,
  `Advance` the step of the scan, `ScanDone` and `Compress` the two nested loops
  after it (`Kept` are the entries they keep).
* **`ForkServer`.**  `ForkAccept`, `Count`, `Fork`, `ForkFails` are the parent,
  `ForkDoStuff` a step of a child's dialogue; `ChildEnds` is everything from the
  return of `dostuff` to `exit`, with `nclients--` on the child's copy.
* **`Calculator`.**  `Greet`, `ReadOperation`, `ReadFirst`, `ReadSecond` go from one
  read of `dostuff` to the next, `WriteNothing` is its `write(sock, NULL, 0)`.
  `asked` counts the `recv`s for which `client.c` owes a line.  A question takes one;
  the result, which is all 20480 bytes of `buff`, takes 21 or more (`Pieces`), and
  the user is asked for a line after each.  `dostuff` reads none of those, so the
  model counts the questions and leaves the lines out (`Answer`).
* **`PhoneList`.**  A loop `current = current->next` is a recursive function,
  `Current`, of as many steps as there are cells and one (`Walk`), which shows
  whether it ends (`Endless`).  `Link` and `Unlink` are the branches of
  `InsertIntoList` and of the removal in `list.c`, pointer by pointer; `Add`,
  `Delete`, `Redact`, `Read`/`ReadRecord`/`ReadDone`, `Display`, `Exit` are the
  menu with what it prints (`said`).  `misled` is history: it is set when the
  menu keeps a pointer to a freed node.
* **Semaphore programs.**  One action per `P`, `V`, open, `sem_open`,
  `sem_unlink`, read, write and exit.  `Leave` applies the adjustments the kernel recorded.  `Kill` and
  `Interrupt` may come at any point.  In `PosixFifo` each of the two names has its
  semaphores, named and held apart, so that a process may hold an old one of one
  name and a new one of the other; the pipe loses what is in it when nobody has it
  open any more (`KeptBy`).
* **`QueueChat`.**  `Starts` is `msgget`; `Sends` and `Receives` are `msgsnd`
  and `msgrcv`, which fail unnoticed once the queue is gone.  `uneven` is
  history: a text was lost with a killed program, or one too many was sent.
* **`NumberQueue`.**  `name` is the queue under the name and `held` the one each
  process has open: `mq_unlink` parts the two (`Unlinks`, `SenderUnlinks`), and a
  queue is gone with its last name and user (`Kept`).
* **`UdpChat`.**  A datagram is named by the line of `client2` that it is or
  answers; `mail` is a set, since UDP keeps no order.
* **`ByteStream`.**  `open` has the ends each process holds open: after the fork
  of 3.4 all four.  `counted` tells 3.4, whose reader knows how much to expect,
  from 3.16, whose reader goes on to the end.  `file` is what the reader's file has
  and `missed` what a write to it lost: 3.4 looks at the result of neither `fprintf`
  nor `fclose`, and `server.c` takes a short write for a whole one (`Save`).
* **`SignalFile`.**  The parent's actions are its `kill`s, its write and its last
  `SIGKILL`; the child's are its poll of `canRead`, its read and its reset of the
  flag; `Handle` may come between any two.  Sleeps are no guard; `late` is history:
  a signal was sent before the child was done with the last one.  `offset` is what
  was read and `printed` what stdio has let through (`Prints`): on a terminal (`tty`)
  all whole lines, elsewhere perhaps nothing, and what it holds back goes with the
  `SIGKILL`.
* **`SharedMinMax`.**  Every access to shared memory is an action; `n_msg++` is
  `Load` and `Bump`.  An index outside the array ends the behaviour (`running`).

Two data are abstracted throughout: text is a value of a small set (with its
length where the code depends on it: `Width`, `Overlay`, `shown.room`), and
user input is chosen from a constant set.

## 3. Runs

A run's cfg gives the constants; every property has a mutant of the code under
which the same cfg finds it violated.

| Run | Question | Shows |
|---|---|---|
| `taxi_late` | what if a driver is arbitrarily slow? | CLI and driver never block each other (`NoMutualBlock`); at most `MaxMsg + 1` answers are late (`BacklogBound`); an answer once late shifts all later ones and only a timeout adds to them (`BacklogOnlyFromTimeouts`); a task is replaced only while a request is given up and unanswered; the time left on display is never too short while no answer is late; a command returns unless its driver is dead |
| `taxi_promise` | and if every driver answers in time? | `Taxi` implements `Dispatch`, with its fairness (`ImplementsDispatch`; the steps without fairness are a theorem), and shows a working driver as busy as long as two descriptors can be had |
| `taxi_overwrite` | does a busy driver refuse a task, as line 189 prints? | no: after a timeout the copy is still the AVAILABLE of the creation, no answer having been read, and lets it through (finding) |
| `echo_sessions` | three clients on a table of two, buffers of two packets, restarts and losses | `OneSlotEach`, `HeardGoesUp`, `EchoServer` implements `EchoSessions` |
| `poll_serve` | two clients that answer, quit or crash anywhere | the table is clean at every poll, nobody is overtaken, questions and lines keep in step until the result is written (`InStep`), results are of the client's own lines and whole when a line of it was as long, every connection is closed in the end |
| `fork_served` | three clients, room for two children, only one user sure to act | one child per connection, up to the fork that fails; the user who acts is served |
| `phone_links` | any sequence of operations on three nodes, two runs of the program | `next` and `prev` stay inverse and end, no node is lost or leaked, operations are those of an ordered sequence |
| `phone_deleted` | is a deleted contact gone from the file? | no: the file keeps its length (finding) |
| `sysv_handoff` | any start order, any leftovers, kills | `SysVFifo` implements `Handoff` with one message on its way; a writer at its end has handed over all but the last; a permission given after the writer's `SETVAL` carries both to the end |
| `posix_handoff` | three writers, three readers, three kills between any two calls, with semaphores old and new mixed | `PosixFifo` implements `Handoff` with as many on their way as readers; the first pair gets through unless killed |
| `ipc_pairs` | six pairs with kills, losses and failures | 3.6: the two take turns unless a text was lost, and "exit" ends the sender; 3.7: a sender's queue can be found while it sends, whatever queues were left; 3.14: an answer in client2's first run is the answer to its last line, and every later run is at most one line behind; 3.4, 3.16: who comes to a good end has read everything, and its file lacks only what a write to it lost; neither end waits for ever; 3.5: no read without a Start, and a child that is never late reads the whole file but for an old rest, and on a terminal has printed that but for the beginning of a line; 3.12, 3.13: a parent that slept while the child answered prints the child's minimum and maximum, and the true ones if the two were never awake together |
| `file_lockstep` | 3.11 over three runs with interrupts | the lead of either process is bounded by the leftovers; the child prints what was sent; a run ends |

### Bounds, and why they are enough

* `MaxMsg = 2` (10 in the code): a full queue, a queue with one place and an
  empty one are all reached; the theorems hold for any `MaxMsg >= 2`.
  The commands of the CLI run one after the other and drivers share nothing
  but the CLI's descriptors, so the interleavings that matter are those of one
  driver with the CLI; `taxi_promise` has two drivers.  A table too small for
  the drivers forked (`MaxDrivers < Cardinality(Drivers)`) is in the theorems
  and not in the runs.  `FdLimit = 6` is reached after a few answers and by
  an inherited table.  Task times -1, 0 and 2 are the three cases of
  `timerfd_settime`.
* Echo: three peers for two slots give refusal, shift of the second entry and
  reuse.  Two places in each buffer let two answers wait together for a client, in
  their order, and lose the third.  Three lines and two starts of one client
  (`Lines`, `Runs` in `MCEchoServer`) fill such a buffer and give a session that
  outlives its client; the two others, of one line and one start, are alike.
  `MaxTyped`, `MaxStarts` bound counters that only grow.
* Calculator: `Pieces = {2}`, since more `recv`s of a result than one differ only
  in how often the user is asked; the theorems hold for any.  Lines 0, 2, 3, 12 are a menu number that is refused, one that
  multiplies and one that divides, and 0 as a second operand; each is used for
  all three questions, and 12 * 12 is longer than its operands.  Two clients make
  one wait while the other is served; three make the fork fail with room for two.
* Phone book: three nodes have a head, a middle and an end; two names, with
  equal ones among three nodes, exercise every comparison; the second run
  reads what the first wrote.  A shorter name that sorts behind a longer one
  shows that `LastnameComparer` looks at the length first.
* Pipes: the code's 5 and 10 messages are used as they are.  Three starts of either
  program and three kills give an old semaphore of one name with a new one of the
  other on both sides.  `MaxLeft = 6`
  exceeds what an earlier run can leave.
* Pairs: `Capacity = 3` holds a text of each program and a place to wait for;
  numbers up to `Last = 3` in a queue of 3 have a last, a largest before it and
  one below; three runs of `client2` leave two lines behind; `Room = 2` for five
  units fills and drains; three numbers of one or two bytes against reads of four,
  and up to nine old bytes, end reads inside and behind a number; `Batch = 1`,
  `Slots = 6` and one overlap of the sleeps (`MaxOverlaps`) are the smallest with
  three rounds of both processes and an increment that is lost; a batch of 10
  appends in the same loop.
* File: three numbers have a first, a middle and a last; three runs are one
  to interrupt, one that meets the leftovers, and one that meets theirs.

`CHECK_DEADLOCK FALSE` stands where the program really stops: users stop
typing, servers exit, a semaphore is waited for by nobody's fault, a pair of processes waits for a lost
datagram.

The type invariants of `Taxi`, `EchoServer`, `ForkServer`, `SysVFifo`, `PosixFifo`
and `FileLockstep` are in no run: they are theorems.  Every safety property that a
passing run checks is a theorem too, the runs' instances being those on which it
was tried first.

### Fairness

Weak fairness of a process means that the kernel runs it; that is all the
models assume of the programs.  Never assumed: that a user types a command,
that anything fails, dies, is killed or interrupted, that a packet gets
through.  Beyond scheduling there are three assumptions: time passes (`Tick`)
and an armed timer fires (`Taxi`); a user asked by the 3.18 server answers or
leaves, without which a blocking server promises nothing; in `ForkServer` only
the users in `Prompt` do.  Of the pairs, only `QueueChat`'s programs (not its user)
and both ends of `ByteStream` are assumed to run; the other four promise safety
only.  `Punctual = TRUE` in `taxi_promise` is a premise of
that run and not a claim about the code: a driver does not leave work waiting
across a second.  `taxi_late` drops it.

## 4. Proofs

All theorems hold for every value of the constants allowed by the modules'
assumptions, and use no fact about the finite instances.  The assumptions are
named in the modules and say little: sets of clients, drivers and cells are
finite; `MaxMsg >= 2`; counts are natural numbers; a number has some width
(`SignalFile`), and lies in `0 .. 999` in `SharedMinMax`, as `rand() % 1000` does.
`TLAPS`' library proves induction by a rule with an operator as parameter, which
its provers cannot use; the proofs take the least counterexample instead
(`LeastOf`, from the well-foundedness of `<`).

**`TaxiProofs`** (any number of drivers, any `MaxMsg >= 2`, any descriptor
limit, slow drivers included):

* `TypeCorrect`.  `TypeInv` adds to `TypeOK` which driver a command is about in
  which place of the CLI, so that `fds` never goes below 0.
* `RepliesAreConserved` (`BacklogOnlyFromTimeouts`).  `BacklogStep` goes
  through the actions and shows how each moves a request from the command
  queue to the driver's hand to the response queue.
* `LateRepliesBounded` (`BacklogBound`) and `NoMutualBlocking`.  The bound is
  not inductive: a task takes places in the command queue too.  The inductive
  invariant is `IInv == TypeInv /\ QueueInv /\ BacklogBound`, and `QueueInv`
  says that a queue holds at most `MaxMsg`, that a driver that has not created
  its queues has none filled, that the CLI talks to drivers with both queues,
  and that between two tasks in a command queue there is a status request:
  `send_task` always asks before it sends.  A full command queue therefore
  holds a request; with a full response queue and the answer in the hand of
  the blocked driver that makes `MaxMsg + 2`, more than the bound allows.
* `ShownTimeIsUpperBound` (`BusyLeftIsUpperBound`) and `OnlyLateTasksReplace`
  (`TaskReplacedOnlyWhenLate`).  `KnownInv` says what the CLI's copy is worth while
  no request to a driver is given up and unanswered (`OnTimeInv`): the request, the answer or the task
  on its way agrees with the driver's state, and the copy's time only overstates.
  `IdleInv` says that an available driver has no task, `LateInv` that a backlog is
  never negative, `GiveInv` that a driver about to be sent a task is available by
  the copy, and is free while no request to it is given up.
* `BusyIsShownHolds` (`BusyIsShown`) and `TaxiImplementsDispatch` assume
  `Punctual`, as the run `taxi_promise` does.  The theorem shows `Promise!Spec`, the
  steps of `Dispatch`: each step of `Taxi` is one of `Dispatch` or leaves its
  variables alone.  `PunctualInv` adds to `IInv` and `KnownInv` which job a
  command in hand is for (`JobInv`), that a driver in its loop has both queues
  (`NameInv`), that a timer does not fire before the task is over (`TimerInv`), and
  that no answer of a living driver is late (`PromptInv`).

**`EchoProofs`** (any set of clients, any table size, any buffer size): `TypeCorrect`;
`TableIsSound` (`OneSlotEach`) from `Inv == TypeOK /\ OneSlotEach`, which is
inductive; `ServerImplementsSessions` (`ImplementsSessions`) from lemmas that say
what bumping, appending and shifting do to the count of every peer
(`BumpCounts`, `AppendCounts`, `ShiftCounts`), each from the fact that a peer
has one slot (`FindUnique`); `NumbersGoUp` (`HeardGoesUp`) from `FreshInv`: what is on
its way to a client of one run that said no CLOSE is in rising order (`Rising`), above
what it heard, and not above its counter in the table; and no CLOSE of it is on its
way to the server.

**`ServerProofs`** (any clients, any integers as lines, any content of an
uninitialised `buff`, any backlog, any process table):

* The dialogue, once for both servers.  `CalcInv` relates, for each client, the
  questions asked, the lines that wait, the lines typed, and what `dostuff` took of
  them: the operation and the operands are the first lines typed, in their order,
  and `buff` is as long as each of them; or the connection ended before the line
  was typed (`Gone`), and then the client never types the third one.  Once the result
  is written only the result matters (`Shows`): of the questions its pieces make
  there may be any number (`UnreadKeeps`).  `ServerKeeps`
  says what else a server may do to a dialogue.  From it `ForkDialoguesInStep`,
  `PollDialoguesInStep` (`InStep`), `ForkResultsAreOwn` and `PollResultsAreOwn`
  (`OwnResult`).
* 3.15: `ForkTypeCorrect`, `OneChildEachHolds`.  `Places` and `Held` say that a
  connection is in the backlog, with the parent, with a child, or over, and in one
  place only; a child's copy of `nclients` was at least 1 when it was forked, so
  that counting down stays above 0.
* 3.18: `PollTypeCorrect`, `PollsListenerAloneHolds`, `ServedInOrderHolds`.  The
  scan changes the table it walks, so the invariant cuts it at the index:
  `TableInv` says that the entries before it are closed and those behind it are
  not, and `OrderAt(n)` that of those who arrived the first *n* were served,
  the next are the rest of the table, and the last are the backlog, all in their
  order.

**`PhoneProofs`** (any heap, any names, any number of runs): `TypeCorrect`,
`LinkedBothWaysHolds`, `ActsOnSequenceHolds`.  `ListOf(h, hd, w)` says that the sequence
`w` of cells is the list from `hd`, forwards by `next` and backwards by `prev`; such a
sequence visits no cell twice (`ListVisitsOnce`), so it ends and is what the loops
walk (`ListIsWalked`).  The invariant is that there is such a `w` and that its
cells are the allocated ones, as long as no freed head was kept.
`LinkPutsBetween` and `UnlinkTakesOut` sum up the branches of the code, head,
middle and end alike, as a cell put between or taken from between its neighbours;
`InsertKeepsList` and `RemoveKeepsList` show that this inserts into or removes from
`w`.  The pointers of a list that is `misled` are wrong in the code too; there only
the types are proved.

**`SysVFifoProofs`** (any number of messages, any leftovers, with and without
`SEM_UNDO`): `TypeCorrect`, `HandsOverAllButLast` (`AllButLast`) and
`FifoImplementsHandoff` (`ImplementsHandoff`).  `OneTurn` counts tokens: from the
writer's `SETVAL` on there is one turn at most, with the reader before its first
`V`, in `semWrite`, with the writer, in the pipe, or with the reader after a read.
A token fewer is possible (an undone `V`), one more is not.

**`PosixFifoProofs`** (any number of messages, starts and kills): `TypeCorrect` and
`PosixImplementsHandoff` (`ImplementsHandoff`).  In the types the bounds are the
content: the semaphores of a name are at most as many as starts, and numbers as many
as `Messages` for each writer, because a process opens a name once (`SemsMade`) and
sends once for each count (`Counts`).  For the refinement, a permit is a token
(`Turns`), one for each unit of every semaphore that ever had the name of the write
semaphore, whichever of them the two processes hold; a token more is made only by a
reader that was started, and `TurnsInv` bounds the tokens, those in a writer's hands
and the numbers on their way together by the readers started.

**`FileLockstepProofs`** (any number of numbers and runs, both programs):
`TypeCorrect`, `KeepsInStep` (`InStep`), `PrintsWhatWasSent`
(`GetsWhatWasSent`).  The invariant counts permits: `Permits` equates a
semaphore with what it held at first plus the `V`s minus the `P`s, which
`Places` derives from the places and counters of the two processes;
`ChildIsThrough` replaces it once the child has exited and its adjustments are
undone.  For the third theorem `FileIsOurs` says that the file is the sequence
of this run's numbers, and `ReadsEach` that the child reads one in each round.
The run `file_lockstep` is 3.11; that the same holds of 3.9 (`Undo = TRUE`) is
shown by the theorems.

**`PairsProofs`** (any values of the constants).  A behaviour is one of a single
pair and leaves the others' variables at their initial values; each pair has an
invariant of its own.  `PairsTypeCorrect` gathers their types.

* `OneTextHolds`: `OneText` is inductive with the types (`ChatInv`).
* `FoundWhileSendingHolds`: `NumberInv` follows each queue, named or not, from the
  process that made it to the last that holds it, and says which of them may hold
  255, taken or waiting.
* `OnePerRunHolds`: `UdpInv` says of the lines and answers on their way that each
  was sent, and that in client2's first run they are the last.
* `NothingMissingHolds`: `StreamInv` adds up what was put, what is on its way and
  what was read, and of that what is in the file and what was lost on the way there.
* `ReadsAreAskedHolds`, `PrintedInTimeHolds`: `SignalInv` counts the Starts that are
  pending, seen and read; `TimeInv` says how far the file is read in each round of a
  child that was never late; `ShownInv` that on a terminal no more than the beginning
  of a line is read and not printed.
* `RightWhileApartHolds`: `MemoryInv` bounds what either process has in its hands
  (`BoundInv`), says what the array holds between a question and its answer
  (`ReplyInv`), and that it is all that was written if the two were never awake
  together (`ApartInv`).

### Model-checked only

* Liveness: `CommandReturns`, `EveryoneServed`, `ServedAnyway`, `PermissionCarries`,
  `FirstIsHandedOver`, `RunEnds`, `ExitEndsSender`, `BothEnd`, and the fairness
  that `ImplementsDispatch` promises beyond the steps of `Dispatch`.  They need
  `ENABLED`, about which TLAPS does not reason.
* The two findings are counterexamples, which TLC finds.

## 5. Where the code does something else than it says

Two are runs with a counterexample (findings in `PROJECT.json`):

* `taxi.c:187` checks a copy of the status also when `update_driver_status` came back
  without an answer.  In the run the first request cannot open the queues of a driver
  that was only just forked, so the first task is sent unseen; the second request
  times out; no answer is ever read, the copy is still the AVAILABLE of the driver's
  creation, and a working driver's task is replaced although line 189 would have
  refused it.
* `3.3/main.c:35` writes the list over `database.txt` without truncating it:
  deleted contacts come back from the end of the file.

Others are behaviours of the models that no property excludes, because the
code does not:

* `3.18/server.c:92` and `3.15/server.c:153` bound `snprintf` by `strlen(buff)`:
  12 * 12 is sent as "14".  `OwnResult` promises the whole result only if a line
  was as long.
* A calculator client asks its user for a line after every piece of the result; those
  lines are read by nobody.  `write(sock, NULL, 0)` sends nothing, but may end the
  process by SIGPIPE once the client is gone.
* A driver forked when the table is full is announced and cannot be named.
* `mq_send` to a driver that died waits for ever once its queue is full
  (`CommandReturns` excepts dead drivers).
* Two descriptors leak per answered request; when none is left, `get_status`
  prints the last copy (`BusyIsShown` excepts this).
* A task is announced as begun when it is queued.
* A text that merely begins with CLOSE ends a session; a late CLOSE ends the
  session of the client's next run.
* A client of 3.18 that leaves in the middle of the dialogue may end the
  server for all, by a failed read or by SIGPIPE.
* The parent's `nclients` in 3.15 only grows, and zombies fill the process
  table until `fork` fails.
* The phone book prints "not found" when its only contact is removed, may keep a freed head, and never ends reading when
  `database.txt` is missing.
* The reader of 3.10 waits once more than the writer posts and never
  prints that reading is finished; a second writer makes new semaphores and
  waits for a reader that holds the old ones.
* The child of 3.9 and 3.11 that opens the file before the parent
  created it prints an unset buffer every round (the unset buffer is `<<0, 0>>`
  in the model).
* 3.6: either program may take its own text, and the receiver then prints it as
  one "from Sender"; once the queue is gone the receiver goes round its loop
  without waiting; the type of its first message is never set; a typed "exit" may
  end the sender only.
* 3.7: 255 overtakes the numbers that wait, which are then lost with the queue;
  the loop's first test reads `randNum` before it has a value, so that the sender
  may send nothing; a receiver ends on an empty queue; a receiver that ends may
  remove the name of a newer queue than its own (`misnamed`).
* 3.14: `client1` sends a line without its zero byte, so `client2` may print the
  end of an earlier one; a lost datagram stops both.
* 3.5: a Start that comes between the read and the reset of `canRead` is lost; a
  child that opens before the file exists reads nothing for ever.  What the child
  prints it does not flush: to a file or a pipe it is lost whole at the SIGKILL, on a
  terminal the beginning of a last line is.
* 3.4 ignores the results of `fprintf` and `fclose` and ends with success over a file
  that lacks numbers; 3.16's server takes a write that was cut short for a whole one.
* 3.12, 3.13: `n_msg` is not protected by anything and is never compared with the
  size of the array; after a batch that was lost the parent may read `buf[-1]`.
* 3.16: a client that dies in the middle leaves a short file that the server
  reports as received.

## 6. Left out of the modelled parts

* Taxi: a driver killed by a signal; queues left by an earlier process of the
  same pid; the few instructions between taking a task and reading the clock,
  which are one step; `INT_MIN` task times.
* Echo: packet lengths and headers, the clients' mix of
  buffered input and `select`.
* Calculator: errors of `poll` and `accept`; more than 199 connections in
  `fds`; integer overflow of the operands; what a client does after the server
  has closed the connection.
* Phone book: the lengths of the fields and everything but names.
* Pairs: failing `msgget`, `mq_open`, `shmget` and `socket` calls; messages of other
  types; the set-up of the connection of 3.16; the text of a line or a number.
* Semaphore programs: failing system calls; an opener that releases a blocked
  open and is killed at once; a run for no numbers; two concurrent runs.

## 7. Running it

`tlc -config <run>.cfg <module>` with the module that `PROJECT.json` names for
the run; `tlapm <module>Proofs.tla` for the proofs.

## 8. Not modelled

`3.1` (two processes that share nothing), `3.2` (fork, exec, wait in a loop, one
child at a time; what could go wrong is the parsing of a line), `3.17` (a callback
of libpcap that prints packets).

## 9. Plan

The order was: the taxi (two kinds of process, time, bounded queues), the
echo server, the two calculator servers over one dialogue, the phone book, the
semaphore programs, the pairs; then the proofs, in the same order.  What is left:

1. Taxi: drivers killed by a signal, and the queues they leave to a later process
   of the same pid.
2. An abstract specification of the phone book, a sequence and a file, with
   `ActsOnSequence` as part of the refinement.
