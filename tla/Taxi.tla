-------------------------------- MODULE Taxi --------------------------------
(***************************************************************************)
(* The taxi dispatcher, 3.cross2/taxi.c.  One command-line process (CLI)   *)
(* forks driver processes and talks to each over a pair of bounded POSIX   *)
(* message queues: commands go down cmdq[p], answers come back on          *)
(* respq[p].  A status request waits at most ReplyTimeout seconds for an   *)
(* answer, a task is sent without one, and the CLI keeps its own copy of   *)
(* each driver's status.  Drivers keep time with a one-shot timer and the  *)
(* monotonic clock.                                                        *)
(*                                                                         *)
(* Time is counted in boundaries of the second, because the code subtracts *)
(* tv_sec fields only.  A timer set for t seconds fires between the t-th   *)
(* and the (t+1)-th boundary after it was set.                             *)
(***************************************************************************)
EXTENDS Integers, Sequences, FiniteSets

CONSTANTS
  Drivers,     \* the pids fork() can return
  NoDriver,    \* not a pid
  MaxDrivers,  \* MAX_DRIVERS: the size of the CLI's table
  MaxMsg,      \* attr.mq_maxmsg: the capacity of each queue
  FdLimit,     \* the descriptors a process may have open (RLIMIT_NOFILE)
  TaskTimes,   \* the task times the user types
  Punctual     \* TRUE: no driver leaves work waiting across a second

ASSUME TaxiAssumption ==
  /\ NoDriver \notin Drivers
  /\ MaxDrivers \in Nat
  /\ MaxMsg \in Nat /\ MaxMsg >= 2
  /\ FdLimit \in Nat
  /\ TaskTimes \subseteq Int
  /\ Punctual \in BOOLEAN

VARIABLES
  \* The CLI process.
  drivers,   \* drivers[0 .. driver_count-1], as a sequence of pids
  status,    \* status[p]: the CLI's copy of the driver's status
  busyLeft,  \* busyLeft[p]: busy_time_left, the CLI's copy of the time left
  pc,        \* where the CLI is in main and the functions it calls
  command,   \* the command being executed
  waited,    \* second boundaries seen by the current mq_timedreceive
  fds,       \* queue descriptors the CLI has open
  \* The driver processes.
  phase,     \* phase[p]: how far driver_process has come
  inherited, \* inherited[p]: descriptors the driver got from the fork
  dstatus,   \* dstatus[p]: the driver's own status
  timeLeft,  \* timeLeft[p]: task_duration - elapsed, kept at 0 below 0
  reply,     \* reply[p]: the answer about to be sent
  \* The kernel.
  names,     \* names[p]: the queues of p that can be opened by name
  cmdq,      \* cmdq[p], respq[p]: their contents
  respq,
  timer,     \* timer[p]: the timerfd
  due        \* due[p]: boundaries before an armed timer may fire

cliVars    == <<drivers, status, busyLeft, pc, command, waited, fds>>
driverVars == <<phase, inherited, dstatus, timeLeft, reply, names, timer, due>>
vars       == <<cliVars, driverVars, cmdq, respq>>

ReplyTimeout == 2

CmdMsg   == [type : {"MSG_STATUS", "MSG_TASK"}, task_time : Int]
ReplyMsg == [type : {"MSG_AVAILABLE", "MSG_BUSY"}, task_time : Nat]
Status   == {"DRIVER_AVAILABLE", "DRIVER_BUSY"}

\* The task_time of a status request is never initialised and never read.
StatusMsg == [type |-> "MSG_STATUS", task_time |-> 0]
Available == [type |-> "MSG_AVAILABLE", task_time |-> 0]

NoCommand == [job |-> "none", pid |-> NoDriver, time |-> 0, i |-> 0]
Command   == [job : {"get_status", "get_drivers", "send_task"},
              pid : Drivers, time : Int, i : Nat]

PCs    == {"prompt", "open", "send", "recv", "openTask", "sendTask", "exit"}
Phases == {"none", "forked", "cmdReady", "respReady", "polling",
           "replying", "dead"}

\* The pids find_driver can find.
Listed == {drivers[i] : i \in DOMAIN drivers}

NonNeg(n) == IF n > 0 THEN n ELSE 0

TypeOK ==
  /\ drivers   \in Seq(Drivers)
  /\ status    \in [Drivers -> Status]
  /\ busyLeft  \in [Drivers -> Nat]
  /\ pc        \in PCs
  /\ command   \in Command \cup {NoCommand}
  /\ pc \notin {"prompt", "exit"} => command \in Command
  /\ waited    \in 0 .. ReplyTimeout
  /\ fds       \in 0 .. FdLimit
  /\ phase     \in [Drivers -> Phases]
  /\ inherited \in [Drivers -> Nat]
  /\ dstatus   \in [Drivers -> Status]
  /\ timeLeft  \in [Drivers -> Nat]
  /\ reply     \in [Drivers -> ReplyMsg]
  /\ names     \in [Drivers -> SUBSET {"cmd", "resp"}]
  /\ cmdq      \in [Drivers -> Seq(CmdMsg)]
  /\ respq     \in [Drivers -> Seq(ReplyMsg)]
  /\ timer     \in [Drivers -> {"disarmed", "armed", "expired"}]
  /\ due       \in [Drivers -> Nat]

Init ==
  /\ drivers   = <<>>
  /\ status    = [p \in Drivers |-> "DRIVER_AVAILABLE"]
  /\ busyLeft  = [p \in Drivers |-> 0]
  /\ pc        = "prompt"
  /\ command   = NoCommand
  /\ waited    = 0
  /\ fds       = 0
  /\ phase     = [p \in Drivers |-> "none"]
  /\ inherited = [p \in Drivers |-> 0]
  /\ dstatus   = [p \in Drivers |-> "DRIVER_AVAILABLE"]
  /\ timeLeft  = [p \in Drivers |-> 0]
  /\ reply     = [p \in Drivers |-> Available]
  /\ names     = [p \in Drivers |-> {}]
  /\ cmdq      = [p \in Drivers |-> <<>>]
  /\ respq     = [p \in Drivers |-> <<>>]
  /\ timer     = [p \in Drivers |-> "disarmed"]
  /\ due       = [p \in Drivers |-> 0]

-----------------------------------------------------------------------------
(***************************************************************************)
(* The CLI.  main reads one command at a time.  A command naming a pid     *)
(* that is not listed prints a message and changes nothing.                *)
(***************************************************************************)

\* add_driver: the entry starts as available; a full table takes no entry.
AddDriver(p) ==
  IF Len(drivers) >= MaxDrivers
  THEN UNCHANGED <<drivers, status, busyLeft>>
  ELSE /\ drivers'  = Append(drivers, p)
       /\ status'   = [status EXCEPT ![p] = "DRIVER_AVAILABLE"]
       /\ busyLeft' = [busyLeft EXCEPT ![p] = 0]

\* create_driver: fork, then register the child.  The child starts with
\* every descriptor the CLI has open.
CreateDriver(p) ==
  /\ pc = "prompt"
  /\ phase[p] = "none"
  /\ phase' = [phase EXCEPT ![p] = "forked"]
  /\ inherited' = [inherited EXCEPT ![p] = fds]
  /\ AddDriver(p)
  /\ UNCHANGED <<pc, command, waited, fds, dstatus, timeLeft, reply, names,
                 timer, due, cmdq, respq>>

Begin(job, p, t, i) ==
  /\ pc = "prompt"
  /\ pc' = "open"
  /\ command' = [job |-> job, pid |-> p, time |-> t, i |-> i]
  /\ UNCHANGED <<drivers, status, busyLeft, waited, fds, driverVars,
                 cmdq, respq>>

GetStatus(p)    == p \in Listed /\ Begin("get_status", p, 0, 0)
TypeTask(p, t)  == p \in Listed /\ Begin("send_task", p, t, 0)
GetDrivers      == drivers # <<>> /\ Begin("get_drivers", drivers[1], 0, 1)

ToPrompt == pc' = "prompt" /\ command' = NoCommand

\* Mutant: send_task does not look at the status.
UpdateReturnsUnchecked ==
  \/ command.job = "get_status" /\ ToPrompt
  \/ /\ command.job = "get_drivers"
     /\ IF command.i < Len(drivers)
        THEN /\ pc' = "open"
             /\ command' = [command EXCEPT !.i = @ + 1,
                                           !.pid = drivers[command.i + 1]]
        ELSE ToPrompt
  \/ command.job = "send_task" /\ pc' = "openTask" /\ UNCHANGED command

\* What runs when update_driver_status returns: get_status prints, the loop
\* of get_drivers turns to the next driver, send_task looks at the CLI's
\* copy of the status, whether or not it was just refreshed.
UpdateReturns ==
  \/ command.job = "get_status" /\ ToPrompt
  \/ /\ command.job = "get_drivers"
     /\ IF command.i < Len(drivers)
        THEN /\ pc' = "open"
             /\ command' = [command EXCEPT !.i = @ + 1,
                                           !.pid = drivers[command.i + 1]]
        ELSE ToPrompt
  \/ /\ command.job = "send_task"
     /\ IF status'[command.pid] = "DRIVER_BUSY"
        THEN ToPrompt
        ELSE pc' = "openTask" /\ UNCHANGED command

\* open_driver_queues needs both names and two free descriptors; when the
\* second mq_open fails the first descriptor is closed again.
CanOpen(p) == names[p] = {"cmd", "resp"} /\ fds + 2 <= FdLimit

OpenForStatus ==
  /\ pc = "open"
  /\ \/ /\ CanOpen(command.pid)
        /\ fds' = fds + 2
        /\ pc' = "send"
        /\ UNCHANGED <<command, status>>
     \/ /\ ~CanOpen(command.pid)
        /\ UNCHANGED <<fds, status>>
        /\ UpdateReturns
  /\ UNCHANGED <<drivers, busyLeft, waited, driverVars, cmdq, respq>>

\* mq_send blocks while the queue is full.
SendStatus ==
  /\ pc = "send"
  /\ Len(cmdq[command.pid]) < MaxMsg
  /\ cmdq' = [cmdq EXCEPT ![command.pid] = Append(@, StatusMsg)]
  /\ pc' = "recv"
  /\ waited' = 0
  /\ UNCHANGED <<drivers, status, busyLeft, command, fds, driverVars, respq>>

\* Mutant: the time left is not recorded.
ReceiveReplyForgetsTime ==
  LET p == command.pid  r == Head(respq[p]) IN
  /\ pc = "recv"
  /\ respq[p] # <<>>
  /\ respq' = [respq EXCEPT ![p] = Tail(@)]
  /\ status' = [status EXCEPT ![p] = IF r.type = "MSG_BUSY"
                                     THEN "DRIVER_BUSY" ELSE "DRIVER_AVAILABLE"]
  /\ waited' = 0
  /\ UpdateReturns
  /\ UNCHANGED <<drivers, busyLeft, fds, driverVars, cmdq>>

\* The answer is recorded and update_driver_status returns without closing
\* the two descriptors it opened.
ReceiveReply ==
  LET p == command.pid  r == Head(respq[p]) IN
  /\ pc = "recv"
  /\ respq[p] # <<>>
  /\ respq' = [respq EXCEPT ![p] = Tail(@)]
  /\ status' = [status EXCEPT ![p] = IF r.type = "MSG_BUSY"
                                     THEN "DRIVER_BUSY" ELSE "DRIVER_AVAILABLE"]
  /\ busyLeft' = [busyLeft EXCEPT ![p] = r.task_time]
  /\ waited' = 0
  /\ UpdateReturns
  /\ UNCHANGED <<drivers, fds, driverVars, cmdq>>

\* Mutant: the wait runs out although an answer is there.
TimeOutIgnoresAnswer ==
  /\ pc = "recv"
  /\ waited = ReplyTimeout
  /\ fds' = fds - 2
  /\ waited' = 0
  /\ UNCHANGED status
  /\ UpdateReturns
  /\ UNCHANGED <<drivers, busyLeft, driverVars, cmdq, respq>>

\* The wait ran out: the descriptors are closed and the old status stays.
TimeOut ==
  /\ pc = "recv"
  /\ respq[command.pid] = <<>>
  /\ waited = ReplyTimeout
  /\ fds' = fds - 2
  /\ waited' = 0
  /\ UNCHANGED status
  /\ UpdateReturns
  /\ UNCHANGED <<drivers, busyLeft, driverVars, cmdq, respq>>

OpenForTask ==
  /\ pc = "openTask"
  /\ \/ /\ CanOpen(command.pid)
        /\ fds' = fds + 2
        /\ pc' = "sendTask"
        /\ UNCHANGED command
     \/ /\ ~CanOpen(command.pid)
        /\ UNCHANGED fds
        /\ ToPrompt
  /\ UNCHANGED <<drivers, status, busyLeft, waited, driverVars, cmdq, respq>>

SendTask ==
  /\ pc = "sendTask"
  /\ Len(cmdq[command.pid]) < MaxMsg
  /\ cmdq' = [cmdq EXCEPT ![command.pid] =
                Append(@, [type |-> "MSG_TASK", task_time |-> command.time])]
  /\ fds' = fds - 2
  /\ ToPrompt
  /\ UNCHANGED <<drivers, status, busyLeft, waited, driverVars, respq>>

\* End of input: the CLI exits; nothing tells the drivers.
EndOfInput ==
  /\ pc = "prompt"
  /\ pc' = "exit"
  /\ fds' = 0
  /\ UNCHANGED <<drivers, status, busyLeft, command, waited, driverVars,
                 cmdq, respq>>

-----------------------------------------------------------------------------
(***************************************************************************)
(* A driver.  driver_process creates the two queues and the timer, then    *)
(* polls.  Each creation can fail, and does when the descriptors inherited *)
(* from the CLI leave no room.                                             *)
(***************************************************************************)

StartupStep(p, from, to) ==
  /\ phase[p] = from
  /\ phase' = [phase EXCEPT ![p] = to]
  /\ UNCHANGED <<cliVars, inherited, dstatus, timeLeft, reply, timer, due,
                 cmdq, respq>>

CreateCmdQueue(p) ==
  /\ inherited[p] + 1 <= FdLimit
  /\ names' = [names EXCEPT ![p] = {"cmd"}]
  /\ StartupStep(p, "forked", "cmdReady")

CreateRespQueue(p) ==
  /\ inherited[p] + 2 <= FdLimit
  /\ names' = [names EXCEPT ![p] = {"cmd", "resp"}]
  /\ StartupStep(p, "cmdReady", "respReady")

CreateTimer(p) ==
  /\ inherited[p] + 3 <= FdLimit
  /\ UNCHANGED names
  /\ StartupStep(p, "respReady", "polling")

\* The first two failures leave no queue behind; a failing timerfd_create
\* exits with both queues still named.
StartupFails(p) ==
  \/ StartupStep(p, "forked", "dead") /\ UNCHANGED names
  \/ /\ StartupStep(p, "cmdReady", "dead")
     /\ names' = [names EXCEPT ![p] = {}]
  \/ StartupStep(p, "respReady", "dead") /\ UNCHANGED names

\* MSG_STATUS: the answer is computed; a task whose time is over makes the
\* driver available even if its timer has not fired.
AnswerStatus(p) ==
  LET busy == dstatus[p] = "DRIVER_BUSY" /\ timeLeft[p] > 0 IN
  /\ reply' = [reply EXCEPT ![p] =
                 IF busy THEN [type |-> "MSG_BUSY", task_time |-> timeLeft[p]]
                         ELSE Available]
  /\ dstatus' = [dstatus EXCEPT ![p] = IF busy THEN "DRIVER_BUSY"
                                               ELSE "DRIVER_AVAILABLE"]
  /\ phase' = [phase EXCEPT ![p] = "replying"]
  /\ UNCHANGED <<timeLeft, timer, due>>

\* timerfd_settime: a positive time arms the timer and clears an expiry, 0
\* disarms it, a negative time is rejected and leaves it as it was.
SetTimer(p, t) ==
  /\ timer' = [timer EXCEPT ![p] = IF t > 0 THEN "armed"
                                   ELSE IF t = 0 THEN "disarmed" ELSE @]
  /\ due' = [due EXCEPT ![p] = IF t < 0 THEN @ ELSE t]

\* Mutant: the driver does not note that it is busy.
StartTaskStaysAvailable(p, t) ==
  /\ timeLeft' = [timeLeft EXCEPT ![p] = NonNeg(t)]
  /\ SetTimer(p, t)
  /\ UNCHANGED <<phase, dstatus, reply>>

\* MSG_TASK: the new task replaces whatever the driver was doing.
StartTask(p, t) ==
  /\ dstatus' = [dstatus EXCEPT ![p] = "DRIVER_BUSY"]
  /\ timeLeft' = [timeLeft EXCEPT ![p] = NonNeg(t)]
  /\ SetTimer(p, t)
  /\ UNCHANGED <<phase, reply>>

TakeCommand(p) ==
  /\ phase[p] = "polling"
  /\ cmdq[p] # <<>>
  /\ cmdq' = [cmdq EXCEPT ![p] = Tail(@)]
  /\ \/ Head(cmdq[p]).type = "MSG_STATUS" /\ AnswerStatus(p)
     \/ /\ Head(cmdq[p]).type = "MSG_TASK"
        /\ StartTask(p, Head(cmdq[p]).task_time)
  /\ UNCHANGED <<cliVars, inherited, names, respq>>

\* Mutant: the response queue is opened O_NONBLOCK, and a full one loses
\* the answer.
SendReplyNonblocking(p) ==
  /\ phase[p] = "replying"
  /\ respq' = [respq EXCEPT ![p] = IF Len(@) < MaxMsg
                                   THEN Append(@, reply[p]) ELSE @]
  /\ reply' = [reply EXCEPT ![p] = Available]
  /\ phase' = [phase EXCEPT ![p] = "polling"]
  /\ UNCHANGED <<cliVars, inherited, dstatus, timeLeft, names, timer, due, cmdq>>

\* mq_send of the answer blocks while the response queue is full.
SendReply(p) ==
  /\ phase[p] = "replying"
  /\ Len(respq[p]) < MaxMsg
  /\ respq' = [respq EXCEPT ![p] = Append(@, reply[p])]
  /\ reply' = [reply EXCEPT ![p] = Available]
  /\ phase' = [phase EXCEPT ![p] = "polling"]
  /\ UNCHANGED <<cliVars, inherited, dstatus, timeLeft, names, timer, due, cmdq>>

\* The timer is looked at only when no command is waiting.
TimerBranch(p) ==
  /\ phase[p] = "polling"
  /\ cmdq[p] = <<>>
  /\ timer[p] = "expired"
  /\ timer' = [timer EXCEPT ![p] = "disarmed"]
  /\ dstatus' = [dstatus EXCEPT ![p] = "DRIVER_AVAILABLE"]
  /\ timeLeft' = [timeLeft EXCEPT ![p] = 0]
  /\ UNCHANGED <<cliVars, phase, inherited, reply, names, due, cmdq, respq>>

\* poll fails: the driver removes its queues and exits.
PollFails(p) ==
  /\ phase[p] = "polling"
  /\ phase' = [phase EXCEPT ![p] = "dead"]
  /\ names' = [names EXCEPT ![p] = {}]
  /\ timer' = [timer EXCEPT ![p] = "disarmed"]
  /\ UNCHANGED <<cliVars, inherited, dstatus, timeLeft, reply, due, cmdq, respq>>

-----------------------------------------------------------------------------
(***************************************************************************)
(* Time.                                                                   *)
(***************************************************************************)

TimerExpires(p) ==
  /\ timer[p] = "armed"
  /\ due[p] = 0
  /\ timer' = [timer EXCEPT ![p] = "expired"]
  /\ UNCHANGED <<cliVars, phase, inherited, dstatus, timeLeft, reply, names,
                 due, cmdq, respq>>

\* The driver could take a step of its own now.
HasWork(p) ==
  \/ phase[p] \in {"forked", "cmdReady", "respReady"}
  \/ phase[p] = "polling" /\ (cmdq[p] # <<>> \/ timer[p] = "expired")
  \/ phase[p] = "replying" /\ Len(respq[p]) < MaxMsg

\* A second boundary passes.  It stays behind a timer that must fire first.
Tick ==
  /\ \A p \in Drivers : timer[p] = "armed" => due[p] > 0
  /\ Punctual => \A p \in Drivers : ~HasWork(p)
  /\ timeLeft' = [p \in Drivers |-> NonNeg(timeLeft[p] - 1)]
  /\ due' = [p \in Drivers |-> NonNeg(due[p] - 1)]
  /\ waited' = IF pc = "recv" /\ waited < ReplyTimeout
               THEN waited + 1 ELSE waited
  /\ UNCHANGED <<drivers, status, busyLeft, pc, command, fds, phase, inherited,
                 dstatus, reply, names, timer, cmdq, respq>>

-----------------------------------------------------------------------------
UserStep ==
  \/ \E p \in Drivers : CreateDriver(p) \/ GetStatus(p)
  \/ \E p \in Drivers, t \in TaskTimes : TypeTask(p, t)
  \/ GetDrivers
  \/ EndOfInput

CliStep ==
  \/ OpenForStatus \/ SendStatus \/ ReceiveReply \/ TimeOut
  \/ OpenForTask \/ SendTask

Startup(p) ==
  CreateCmdQueue(p) \/ CreateRespQueue(p) \/ CreateTimer(p) \/ StartupFails(p)

DriverLoop(p) == TakeCommand(p) \/ SendReply(p) \/ TimerBranch(p)

Next ==
  \/ UserStep
  \/ CliStep
  \/ \E p \in Drivers : Startup(p) \/ DriverLoop(p) \/ PollFails(p)
                        \/ TimerExpires(p)
  \/ Tick

Spec == Init /\ [][Next]_vars

\* The kernel schedules every process that can run and lets time pass.  The
\* user owes no command and poll need not fail.
Fairness ==
  /\ WF_vars(CliStep)
  /\ WF_vars(Tick)
  /\ \A p \in Drivers : WF_vars(Startup(p)) /\ WF_vars(DriverLoop(p))
                        /\ WF_vars(TimerExpires(p))

FairSpec == Spec /\ Fairness

-----------------------------------------------------------------------------
(***************************************************************************)
(* Properties.                                                             *)
(***************************************************************************)

StatusIn(q) == {i \in DOMAIN q : q[i].type = "MSG_STATUS"}
TasksIn(q)  == {i \in DOMAIN q : q[i].type = "MSG_TASK"}

\* Where a status request that p was sent can be: in the command queue, in
\* the driver's hand, or in the response queue.
Requests(q) == Cardinality(StatusIn(q))
InHand(p)   == IF phase[p] = "replying" THEN 1 ELSE 0
Waiting(p)  == IF pc = "recv" /\ command.pid = p THEN 1 ELSE 0

\* Requests that nobody waits for any more: each was given up by a timeout,
\* and its answer will be taken for the answer to a later request.
Backlog(p) == Requests(cmdq[p]) + Len(respq[p]) + InHand(p) - Waiting(p)

CliBlockedOn(p) ==
  /\ pc \in {"send", "sendTask"}
  /\ command.pid = p
  /\ Len(cmdq[p]) = MaxMsg

DriverBlocked(p) == phase[p] = "replying" /\ Len(respq[p]) = MaxMsg

\* The CLI and a driver never wait for each other, one to put a command into
\* a full command queue and the other an answer into a full response queue,
\* however many answers came late.
NoMutualBlock == \A p \in Drivers : ~(CliBlockedOn(p) /\ DriverBlocked(p))

\* Late answers pile up to at most one queue and the answer in the driver's
\* hand: a timeout needs an empty response queue.
BacklogBound == \A p \in Drivers : Backlog(p) <= MaxMsg + 1

\* As long as no answer is outstanding, the time left that the CLI prints for
\* a busy driver is never less than the real one.
BusyLeftIsUpperBound ==
  \A p \in Drivers :
    Backlog(p) = 0 /\ status[p] = "DRIVER_BUSY" => timeLeft[p] <= busyLeft[p]

\* Requests and answers are conserved: the backlog of a driver grows by one
\* when a wait for it times out, and no other step of anyone changes it.  In
\* particular the CLI never gets back in step with a driver once late.
BacklogOnlyFromTimeouts ==
  [][\A p \in Drivers :
       Backlog(p)' = Backlog(p) + (IF TimeOut /\ command.pid = p
                                   THEN 1 ELSE 0)]_vars

Dead(p) == phase[p] = "dead"

\* A driver's task replaces another only while a request to the driver has
\* timed out and its answer has not been read: either no answer refreshed the
\* copy of the status that send_task checks, or an answer of before did.
TaskReplacedOnlyWhenLate ==
  [][\A p \in Drivers :
       /\ TakeCommand(p)
       /\ Head(cmdq[p]).type = "MSG_TASK"
       /\ timeLeft[p] > 0
       => Backlog(p) > 0]_vars

\* A command ends, unless the driver it is about is dead: the waits of
\* update_driver_status and both mq_sends end.
CommandReturns ==
  \A p \in Drivers :
    (pc # "prompt" /\ command.pid = p) ~> (pc = "prompt" \/ Dead(p))

\* While every driver answers in time and a descriptor can be had, a driver
\* that is working is shown as busy by get_status.
BusyIsShown ==
  [][/\ command.job \in {"get_status", "get_drivers"}
     /\ command' # command
     /\ fds + 2 <= FdLimit
     /\ phase[command.pid] \notin {"dead", "forked", "cmdReady"}
     /\ timeLeft[command.pid] > 0
     => status'[command.pid] = "DRIVER_BUSY"]_vars

-----------------------------------------------------------------------------
(***************************************************************************)
(* What the docs and messages of the program say and the code does not do. *)
(***************************************************************************)

\* "Driver %d is busy, a new task cannot be sent" (line 189): a driver takes
\* a task only when it is not working on one.  But send_task also goes by its
\* copy of the status when update_driver_status came back without an answer.
BusyDriverGetsNoTask ==
  [][\A p \in Drivers :
       TakeCommand(p) /\ Head(cmdq[p]).type = "MSG_TASK"
         => timeLeft[p] = 0]_vars

-----------------------------------------------------------------------------
(***************************************************************************)
(* Taxi implements Dispatch when no driver is late (Punctual).             *)
(***************************************************************************)

Job(p) ==
  IF Dead(p) THEN "gone"
  ELSE IF TasksIn(cmdq[p]) # {} THEN "assigned"
  ELSE IF timeLeft[p] > 0 THEN "working" ELSE "idle"

SecondsLeft(p) ==
  IF Dead(p) THEN 0
  ELSE IF TasksIn(cmdq[p]) # {}
       THEN cmdq[p][CHOOSE i \in TasksIn(cmdq[p]) : TRUE].task_time
  ELSE timeLeft[p]

Promise == INSTANCE Dispatch
             WITH job  <- [p \in Drivers |-> Job(p)],
                  left <- [p \in Drivers |-> SecondsLeft(p)]

\* With punctual drivers the queues, the copies of the status and the leaked
\* descriptors do not show: a task is given to an idle driver only, is
\* started, and lasts as long as was asked.
ImplementsDispatch == Promise!FairSpec
=============================================================================
