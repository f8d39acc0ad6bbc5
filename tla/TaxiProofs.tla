----------------------------- MODULE TaxiProofs -----------------------------
(***************************************************************************)
(* Theorems about Taxi for any number of drivers, any queue capacity of    *)
(* two or more, any limit on descriptors and any task times.               *)
(***************************************************************************)
EXTENDS Taxi, FunctionTheorems, FiniteSetTheorems, SequenceTheorems, TLAPS

-----------------------------------------------------------------------------
(* How many status requests a command queue holds. *)

LEMMA RequestsBound ==
  ASSUME NEW q \in Seq(CmdMsg)
  PROVE  /\ IsFiniteSet(StatusIn(q))
         /\ Requests(q) \in 0 .. Len(q)
         /\ Requests(q) = 0 <=> StatusIn(q) = {}
<1>1. /\ Len(q) \in Nat
      /\ DOMAIN q = 1 .. Len(q)
  BY LenProperties
<1>2. StatusIn(q) \in SUBSET (1 .. Len(q))
  BY <1>1 DEF StatusIn
<1>3. IsFiniteSet(1 .. Len(q)) /\ Cardinality(1 .. Len(q)) = Len(q)
  BY <1>1, FS_Interval
<1>4. /\ IsFiniteSet(StatusIn(q))
      /\ Cardinality(StatusIn(q)) <= Len(q)
  BY <1>2, <1>3, FS_Subset
<1>5. Cardinality(StatusIn(q)) \in Nat
  BY <1>4, FS_CardinalityType
<1> QED
  BY <1>1, <1>4, <1>5, FS_EmptySet DEF Requests

LEMMA RequestsAppend ==
  ASSUME NEW q \in Seq(CmdMsg), NEW m \in CmdMsg
  PROVE  Requests(Append(q, m)) =
           Requests(q) + (IF m.type = "MSG_STATUS" THEN 1 ELSE 0)
<1>1. /\ Len(q) \in Nat
      /\ DOMAIN q = 1 .. Len(q)
  BY LenProperties
<1>2. /\ Append(q, m) \in Seq(CmdMsg)
      /\ Len(Append(q, m)) = Len(q) + 1
      /\ \A i \in 1 .. Len(q) : Append(q, m)[i] = q[i]
      /\ Append(q, m)[Len(q) + 1] = m
  BY AppendProperties
<1>3. DOMAIN Append(q, m) = 1 .. Len(q) + 1
  BY <1>2, LenProperties
<1>4. IsFiniteSet(StatusIn(q)) /\ Requests(q) \in Nat
  BY RequestsBound, <1>1
<1>5. Len(q) + 1 \notin StatusIn(q)
  BY <1>1 DEF StatusIn
<1>6. CASE m.type = "MSG_STATUS"
  <2>1. StatusIn(Append(q, m)) = StatusIn(q) \cup {Len(q) + 1}
    BY <1>1, <1>2, <1>3, <1>6 DEF StatusIn
  <2> QED
    BY <2>1, <1>4, <1>5, <1>6, FS_AddElement DEF Requests
<1>7. CASE m.type # "MSG_STATUS"
  <2>1. StatusIn(Append(q, m)) = StatusIn(q)
    BY <1>1, <1>2, <1>3, <1>7 DEF StatusIn
  <2> QED
    BY <2>1, <1>4, <1>7 DEF Requests
<1> QED
  BY <1>6, <1>7

LEMMA RequestsTail ==
  ASSUME NEW q \in Seq(CmdMsg), q # <<>>
  PROVE  Requests(q) = Requests(Tail(q))
                       + (IF Head(q).type = "MSG_STATUS" THEN 1 ELSE 0)
<1> DEFINE S == StatusIn(Tail(q))
           T == StatusIn(q) \ {1}
           f == [i \in S |-> i + 1]
<1>1. /\ Len(q) \in Nat \ {0}
      /\ DOMAIN q = 1 .. Len(q)
  BY LenProperties, EmptySeq
<1>2. /\ Tail(q) \in Seq(CmdMsg)
      /\ Len(Tail(q)) = Len(q) - 1
      /\ \A i \in 1 .. Len(Tail(q)) : Tail(q)[i] = q[i + 1]
  BY HeadTailProperties
<1>3. DOMAIN Tail(q) = 1 .. Len(q) - 1
  BY <1>2, LenProperties
<1>4. Head(q) = q[1]
  OBVIOUS
<1>5. f \in [S -> T]
  BY <1>1, <1>2, <1>3 DEF StatusIn
<1>6. \A a, b \in S : f[a] = f[b] => a = b
  BY <1>3 DEF StatusIn
<1>7. \A t \in T : \E s \in S : f[s] = t
  <2> SUFFICES ASSUME NEW t \in T PROVE \E s \in S : f[s] = t
    OBVIOUS
  <2>1. t \in 2 .. Len(q) /\ q[t].type = "MSG_STATUS"
    BY <1>1 DEF StatusIn
  <2>2. t - 1 \in S
    BY <2>1, <1>1, <1>2, <1>3 DEF StatusIn
  <2> QED
    BY <2>1, <2>2
<1>8. f \in Bijection(S, T)
  BY <1>5, <1>6, <1>7, Fun_IsBij
<1>9. ExistsBijection(S, T)
  BY <1>8 DEF ExistsBijection
<1>10. IsFiniteSet(S) /\ IsFiniteSet(StatusIn(q))
  BY <1>2, RequestsBound
<1>11. Cardinality(T) = Cardinality(S)
  BY <1>9, <1>10, FS_Bijection
<1>12. Cardinality(T) = IF 1 \in StatusIn(q) THEN Cardinality(StatusIn(q)) - 1
                        ELSE Cardinality(StatusIn(q))
  BY <1>10, FS_RemoveElement
<1>13. 1 \in StatusIn(q) <=> Head(q).type = "MSG_STATUS"
  BY <1>1, <1>4 DEF StatusIn
<1>14. Cardinality(StatusIn(q)) \in Nat /\ Cardinality(S) \in Nat
  BY <1>10, FS_CardinalityType
<1> QED
  BY <1>11, <1>12, <1>13, <1>14 DEF Requests

-----------------------------------------------------------------------------
(***************************************************************************)
(* The inductive invariant.                                                *)
(***************************************************************************)

Starting(p) == phase[p] \in {"none", "forked", "cmdReady"}

\* The two descriptors of an open conversation.
OpenInv == pc \in {"send", "recv", "sendTask"} => fds >= 2

\* A driver that has not named both queues was never talked to.
StartInv ==
  \A p \in Drivers : Starting(p) => /\ names[p] # {"cmd", "resp"}
                                    /\ cmdq[p] = <<>>
                                    /\ respq[p] = <<>>

TalkInv == pc \in {"send", "recv", "sendTask"} => ~Starting(command.pid)

CapacityInv ==
  \A p \in Drivers : Len(cmdq[p]) <= MaxMsg /\ Len(respq[p]) <= MaxMsg

EndsInRequest(q) == q = <<>> \/ q[Len(q)].type = "MSG_STATUS"

\* A task is only ever sent behind a status request, or to a driver that was
\* just starting and has an empty queue.
TurnInv ==
  /\ pc \in {"recv", "sendTask"} => EndsInRequest(cmdq[command.pid])
  /\ pc = "openTask" /\ CanOpen(command.pid) => EndsInRequest(cmdq[command.pid])

NoTwoTasks(q) ==
  \A i \in 1 .. Len(q) - 1 :
    q[i].type = "MSG_STATUS" \/ q[i + 1].type = "MSG_STATUS"

SpacedInv == \A p \in Drivers : NoTwoTasks(cmdq[p])

QueueInv == CapacityInv /\ StartInv /\ TalkInv /\ TurnInv /\ SpacedInv

-----------------------------------------------------------------------------
(***************************************************************************)
(* Types.                                                                  *)
(***************************************************************************)

TypeInv == TypeOK /\ OpenInv

LEMMA MessageTypes == StatusMsg \in CmdMsg /\ Available \in ReplyMsg
BY DEF StatusMsg, CmdMsg, Available, ReplyMsg

LEMMA UpdateReturnsType ==
  ASSUME TypeOK, command \in Command, UpdateReturns
  PROVE  /\ pc' \in {"prompt", "open", "openTask"}
         /\ command' \in Command \cup {NoCommand}
         /\ pc' # "prompt" => command' \in Command
<1>1. ASSUME command.i < Len(drivers), command.i \in Nat
      PROVE  drivers[command.i + 1] \in Drivers
  BY <1>1, ElementOfSeq, LenProperties DEF TypeOK
<1>2. CASE command.job = "get_drivers"
  <2>1. CASE command.i < Len(drivers)
    <3>1. drivers[command.i + 1] \in Drivers /\ command.i + 1 \in Nat
      BY <1>1, <2>1 DEF Command
    <3>2. /\ pc' = "open"
          /\ command' = [command EXCEPT !.i = @ + 1,
                                        !.pid = drivers[command.i + 1]]
      BY <1>2, <2>1 DEF UpdateReturns
    <3>3. command' \in Command
      BY <3>1, <3>2 DEF Command
    <3> QED
      BY <3>2, <3>3
  <2>2. CASE ~(command.i < Len(drivers))
    BY <1>2, <2>2 DEF UpdateReturns, ToPrompt
  <2> QED
    BY <2>1, <2>2
<1>3. CASE command.job # "get_drivers"
  BY <1>3 DEF TypeOK, UpdateReturns, ToPrompt, Command
<1> QED
  BY <1>2, <1>3

LEMMA TypeInit == Init => TypeInv
BY TaxiAssumption, MessageTypes
DEF Init, TypeInv, TypeOK, OpenInv, PCs, Phases, Status, ReplyTimeout

LEMMA TypeStep == TypeInv /\ [Next]_vars => TypeInv'
<1> SUFFICES ASSUME TypeInv, [Next]_vars PROVE TypeInv'
  OBVIOUS
<1> USE TaxiAssumption DEF TypeInv
<1>1. ASSUME NEW p \in Drivers, CreateDriver(p) PROVE TypeInv'
  <2>1. /\ drivers' \in Seq(Drivers)
        /\ status' \in [Drivers -> Status]
        /\ busyLeft' \in [Drivers -> Nat]
    <3>1. CASE Len(drivers) >= MaxDrivers
      BY <1>1, <3>1 DEF CreateDriver, AddDriver, TypeOK
    <3>2. CASE ~(Len(drivers) >= MaxDrivers)
      <4>1. Append(drivers, p) \in Seq(Drivers)
        BY AppendProperties DEF TypeOK
      <4> QED
        <5>1. /\ drivers' = Append(drivers, p)
              /\ status' = [status EXCEPT ![p] = "DRIVER_AVAILABLE"]
              /\ busyLeft' = [busyLeft EXCEPT ![p] = 0]
          BY <1>1, <3>2, Zenon DEF CreateDriver, AddDriver
        <5> QED
          BY <4>1, <5>1 DEF TypeOK, Status
    <3> QED
      BY <3>1, <3>2
  <2>2. /\ phase' \in [Drivers -> Phases]
        /\ inherited' \in [Drivers -> Nat]
    BY <1>1 DEF CreateDriver, TypeOK, Phases
  <2> QED
    BY <1>1, <2>1, <2>2 DEF CreateDriver, TypeOK, OpenInv
<1>2. ASSUME NEW p \in Drivers, GetStatus(p) PROVE TypeInv'
  BY <1>2 DEF GetStatus, Begin, TypeOK, OpenInv, PCs, Command, cliVars, driverVars
<1>3. ASSUME NEW p \in Drivers, NEW t \in TaskTimes, TypeTask(p, t) PROVE TypeInv'
  BY <1>3 DEF TypeTask, Begin, TypeOK, OpenInv, PCs, Command, cliVars, driverVars
<1>4. CASE GetDrivers
  <2>1. drivers[1] \in Drivers
    BY <1>4, ElementOfSeq, EmptySeq DEF GetDrivers, TypeOK
  <2> QED
    <3>1. command' \in Command
      BY <1>4, <2>1 DEF GetDrivers, Begin, Command
    <3> QED
      BY <1>4, <3>1 DEF GetDrivers, Begin, TypeOK, OpenInv, PCs, driverVars
<1>5. CASE EndOfInput
  BY <1>5 DEF EndOfInput, TypeOK, OpenInv, PCs, driverVars
<1>6. CASE OpenForStatus
  <2>1. command \in Command
    BY <1>6 DEF OpenForStatus, TypeOK
  <2>2. CASE CanOpen(command.pid) /\ fds' = fds + 2 /\ pc' = "send"
             /\ UNCHANGED <<command, status>>
    BY <1>6, <2>1, <2>2 DEF OpenForStatus, CanOpen, TypeOK, OpenInv, PCs, driverVars
  <2>3. CASE UNCHANGED <<fds, status>> /\ UpdateReturns
    <3>1. /\ pc' \in {"prompt", "open", "openTask"}
          /\ command' \in Command \cup {NoCommand}
          /\ pc' # "prompt" => command' \in Command
      BY <2>1, <2>3, UpdateReturnsType
    <3> QED
      BY <1>6, <2>3, <3>1 DEF OpenForStatus, TypeOK, OpenInv, PCs, driverVars
  <2> QED
    BY <1>6, <2>2, <2>3 DEF OpenForStatus
<1>7. CASE SendStatus
  <2>1. command.pid \in Drivers
    BY <1>7 DEF SendStatus, TypeOK, Command
  <2>2. cmdq' \in [Drivers -> Seq(CmdMsg)]
    BY <1>7, <2>1, MessageTypes, AppendProperties DEF SendStatus, TypeOK
  <2> QED
    BY <1>7, <2>2 DEF SendStatus, TypeOK, OpenInv, PCs, driverVars, ReplyTimeout
<1>8. CASE ReceiveReply
  <2>1. command \in Command /\ command.pid \in Drivers
    BY <1>8 DEF ReceiveReply, TypeOK, Command
  <2>2. /\ pc' \in {"prompt", "open", "openTask"}
        /\ command' \in Command \cup {NoCommand}
        /\ pc' # "prompt" => command' \in Command
    BY <1>8, <2>1, UpdateReturnsType DEF ReceiveReply
  <2>3. /\ Head(respq[command.pid]) \in ReplyMsg
        /\ Tail(respq[command.pid]) \in Seq(ReplyMsg)
    BY <1>8, <2>1, HeadTailProperties DEF ReceiveReply, TypeOK
  <2>4. /\ respq' \in [Drivers -> Seq(ReplyMsg)]
        /\ status' \in [Drivers -> Status]
        /\ busyLeft' \in [Drivers -> Nat]
    BY <1>8, <2>3 DEF ReceiveReply, TypeOK, ReplyMsg, Status
  <2> QED
    BY <1>8, <2>2, <2>4
    DEF ReceiveReply, TypeOK, OpenInv, PCs, driverVars, ReplyTimeout
<1>9. CASE TimeOut
  BY <1>9, UpdateReturnsType
  DEF TimeOut, TypeOK, OpenInv, PCs, driverVars, ReplyTimeout
<1>10. CASE OpenForTask
  BY <1>10, SMTT(30) DEF OpenForTask, CanOpen, ToPrompt, TypeOK, OpenInv, PCs, driverVars
<1>11. CASE SendTask
  BY <1>11, AppendProperties, SMTT(30)
  DEF SendTask, ToPrompt, TypeOK, OpenInv, PCs, driverVars, CmdMsg, Command
<1>12. ASSUME NEW p \in Drivers, Startup(p) PROVE TypeInv'
  <2>1. \E from, to \in Phases : StartupStep(p, from, to)
    <3>1. \/ StartupStep(p, "forked", "cmdReady")
          \/ StartupStep(p, "cmdReady", "respReady")
          \/ StartupStep(p, "respReady", "polling")
          \/ StartupStep(p, "forked", "dead")
          \/ StartupStep(p, "cmdReady", "dead")
          \/ StartupStep(p, "respReady", "dead")
      BY <1>12 DEF Startup, CreateCmdQueue, CreateRespQueue, CreateTimer,
                   StartupFails
    <3>2. {"forked", "cmdReady", "respReady", "polling", "dead"} \subseteq Phases
      BY DEF Phases
    <3> QED
      BY <3>1, <3>2
  <2>2. names' \in [Drivers -> SUBSET {"cmd", "resp"}]
    <3>1. \/ UNCHANGED names
          \/ \E n \in SUBSET {"cmd", "resp"} : names' = [names EXCEPT ![p] = n]
      <4>1. /\ {"cmd"} \in SUBSET {"cmd", "resp"}
            /\ {"cmd", "resp"} \in SUBSET {"cmd", "resp"}
            /\ {} \in SUBSET {"cmd", "resp"}
        OBVIOUS
      <4> QED
        BY <1>12, <4>1, Zenon DEF Startup, CreateCmdQueue, CreateRespQueue,
                                  CreateTimer, StartupFails
    <3> QED
      BY <3>1 DEF TypeOK
  <2> QED
    <3>1. PICK to \in Phases : phase' = [phase EXCEPT ![p] = to]
      BY <2>1 DEF StartupStep
    <3>2. phase' \in [Drivers -> Phases]
      BY <3>1 DEF TypeOK
    <3> QED
      BY <2>1, <2>2, <3>2 DEF StartupStep, TypeOK, OpenInv, cliVars
<1>13. ASSUME NEW p \in Drivers, TakeCommand(p) PROVE TypeInv'
  <2>1. Head(cmdq[p]) \in CmdMsg /\ Tail(cmdq[p]) \in Seq(CmdMsg)
    BY <1>13, HeadTailProperties DEF TakeCommand, TypeOK
  <2>2. cmdq' \in [Drivers -> Seq(CmdMsg)]
    BY <1>13, <2>1 DEF TakeCommand, TypeOK
  <2>3. CASE AnswerStatus(p)
    <3>1. /\ reply' \in [Drivers -> ReplyMsg]
          /\ dstatus' \in [Drivers -> Status]
          /\ phase' \in [Drivers -> Phases]
      BY <2>3, MessageTypes DEF AnswerStatus, TypeOK, ReplyMsg, Status, Phases
    <3> QED
      BY <1>13, <2>2, <2>3, <3>1
      DEF TakeCommand, AnswerStatus, TypeOK, OpenInv, cliVars
  <2>4. CASE StartTask(p, Head(cmdq[p]).task_time)
    <3>1. Head(cmdq[p]).task_time \in Int
      BY <2>1 DEF CmdMsg
    <3>2. /\ dstatus' \in [Drivers -> Status]
          /\ timeLeft' \in [Drivers -> Nat]
          /\ timer' \in [Drivers -> {"disarmed", "armed", "expired"}]
          /\ due' \in [Drivers -> Nat]
      BY <2>4, <3>1, SMTT(30) DEF StartTask, SetTimer, NonNeg, TypeOK, Status
    <3> QED
      BY <1>13, <2>2, <2>4, <3>2
      DEF TakeCommand, StartTask, TypeOK, OpenInv, cliVars
  <2> QED
    BY <1>13, <2>3, <2>4 DEF TakeCommand
<1>14. ASSUME NEW p \in Drivers, SendReply(p) PROVE TypeInv'
  BY <1>14, MessageTypes, AppendProperties
  DEF SendReply, TypeOK, OpenInv, Phases, cliVars
<1>15. ASSUME NEW p \in Drivers, TimerBranch(p) PROVE TypeInv'
  BY <1>15 DEF TimerBranch, TypeOK, OpenInv, Status, cliVars
<1>16. ASSUME NEW p \in Drivers, PollFails(p) PROVE TypeInv'
  BY <1>16 DEF PollFails, TypeOK, OpenInv, Phases, cliVars
<1>17. ASSUME NEW p \in Drivers, TimerExpires(p) PROVE TypeInv'
  BY <1>17 DEF TimerExpires, TypeOK, OpenInv, cliVars
<1>18. CASE Tick
  BY <1>18 DEF Tick, NonNeg, TypeOK, OpenInv, ReplyTimeout
<1>19. CASE UNCHANGED vars
  BY <1>19 DEF vars, cliVars, driverVars, TypeOK, OpenInv
<1> QED
  BY <1>1, <1>2, <1>3, <1>4, <1>5, <1>6, <1>7, <1>8, <1>9, <1>10, <1>11, <1>12,
     <1>13, <1>14, <1>15, <1>16, <1>17, <1>18, <1>19
  DEF Next, UserStep, CliStep, DriverLoop

LEMMA TypesHold == Spec => []TypeInv
<1> QED
  BY TypeInit, TypeStep, PTL DEF Spec

\* Every variable of the dispatcher keeps its type; in particular the CLI
\* never closes a descriptor it has not opened, and no time goes negative.
THEOREM TypeCorrect == Spec => []TypeOK
<1>1. TypeInv => TypeOK
  BY DEF TypeInv
<1> QED
  BY <1>1, TypesHold, PTL

-----------------------------------------------------------------------------
(***************************************************************************)
(* The backlog.                                                            *)
(***************************************************************************)

LEMMA BacklogParts ==
  ASSUME NEW p \in Drivers
  PROVE  /\ Backlog(p) = Requests(cmdq[p]) + Len(respq[p]) + InHand(p) - Waiting(p)
         /\ Backlog(p)' = Requests(cmdq'[p]) + Len(respq'[p]) + InHand(p)' - Waiting(p)'
BY DEF Backlog, Requests, StatusIn

LEMMA PartTypes ==
  ASSUME TypeInv, NEW p \in Drivers
  PROVE  /\ Requests(cmdq[p]) \in Nat
         /\ Len(respq[p]) \in Nat
         /\ InHand(p) \in 0 .. 1
         /\ Waiting(p) \in 0 .. 1
<1>1. cmdq[p] \in Seq(CmdMsg) /\ respq[p] \in Seq(ReplyMsg)
  BY DEF TypeInv, TypeOK
<1> QED
  BY <1>1, RequestsBound, LenProperties DEF InHand, Waiting

\* A step that touches neither the queues of p nor what is on its way.
Aside(p) ==
  /\ cmdq'[p] = cmdq[p]
  /\ respq'[p] = respq[p]
  /\ phase'[p] = "replying" <=> phase[p] = "replying"
  /\ (pc' = "recv" /\ command'.pid = p) <=> (pc = "recv" /\ command.pid = p)

LEMMA BacklogAside ==
  ASSUME TypeInv, NEW p \in Drivers, Aside(p)
  PROVE  Backlog(p)' = Backlog(p)
BY BacklogParts DEF Aside, InHand, Waiting

LEMMA TimeOutChangesWaited == TimeOut => waited = 2 /\ waited' = 0 /\ pc = "recv"
BY DEF TimeOut, ReplyTimeout

\* One step changes the backlog of p exactly when it gives up waiting for p.
LEMMA BacklogStep ==
  ASSUME TypeInv, [Next]_vars, NEW p \in Drivers
  PROVE  Backlog(p)' = Backlog(p) + (IF TimeOut /\ command.pid = p THEN 1 ELSE 0)
<1> USE DEF TypeInv
<1>0. Backlog(p) \in Int
  BY BacklogParts, PartTypes
<1>a. ASSUME Aside(p), ~(TimeOut /\ command.pid = p)
      PROVE  Backlog(p)' = Backlog(p) + (IF TimeOut /\ command.pid = p THEN 1 ELSE 0)
  BY <1>0, <1>a, BacklogAside
<1>b. ASSUME Backlog(p)' = Backlog(p), ~TimeOut
      PROVE  Backlog(p)' = Backlog(p) + (IF TimeOut /\ command.pid = p THEN 1 ELSE 0)
  BY <1>0, <1>b
<1>1. ASSUME NEW q \in Drivers, CreateDriver(q)
      PROVE Aside(p) /\ ~TimeOut
  BY <1>1, TimeOutChangesWaited DEF CreateDriver, TypeOK, Aside
<1>2. ASSUME NEW q, NEW job, NEW t, NEW i, Begin(job, q, t, i)
      PROVE Aside(p) /\ ~TimeOut
  BY <1>2, TimeOutChangesWaited DEF Begin, Aside, driverVars
<1>3. CASE EndOfInput
  <2>1. Aside(p) /\ ~TimeOut
    BY <1>3, TimeOutChangesWaited DEF EndOfInput, Aside, driverVars
  <2> QED
    BY <1>a, <2>1
<1>4. CASE OpenForStatus
  <2>1. command \in Command
    BY <1>4 DEF OpenForStatus, TypeOK
  <2>2. pc = "open" /\ pc' # "recv"
    BY <1>4, <2>1, UpdateReturnsType DEF OpenForStatus
  <2>3. Aside(p) /\ ~TimeOut
    BY <1>4, <2>2, TimeOutChangesWaited DEF OpenForStatus, Aside, driverVars
  <2> QED
    BY <1>a, <2>3
<1>5. CASE SendStatus
  <2>1. /\ pc = "send" /\ pc' = "recv" /\ ~TimeOut
        /\ command' = command /\ phase' = phase /\ respq' = respq
        /\ command.pid \in Drivers
    BY <1>5, TimeOutChangesWaited DEF SendStatus, driverVars, TypeOK, Command
  <2>2. CASE command.pid = p
    <3>1. cmdq'[p] = Append(cmdq[p], StatusMsg)
      BY <1>5, <2>2 DEF SendStatus, TypeOK
    <3>2. Requests(cmdq'[p]) = Requests(cmdq[p]) + 1
      BY <3>1, RequestsAppend, MessageTypes DEF TypeOK, StatusMsg
    <3>3. Waiting(p) = 0 /\ Waiting(p)' = 1 /\ InHand(p)' = InHand(p)
      BY <2>1, <2>2 DEF Waiting, InHand
    <3>4. Backlog(p)' = Backlog(p)
      <4>1. Requests(cmdq[p]) \in Nat /\ Len(respq[p]) \in Nat /\ InHand(p) \in 0 .. 1
        BY PartTypes
      <4>2. Backlog(p) = Requests(cmdq[p]) + Len(respq[p]) + InHand(p) - 0
        BY <3>3, BacklogParts
      <4>3. Backlog(p)' = (Requests(cmdq[p]) + 1) + Len(respq[p]) + InHand(p) - 1
        BY <2>1, <3>2, <3>3, BacklogParts
      <4> QED
        BY <4>1, <4>2, <4>3
    <3> QED
      BY <1>b, <2>1, <3>4
  <2>3. CASE command.pid # p
    <3>1. Aside(p)
      BY <1>5, <2>1, <2>3 DEF SendStatus, Aside, TypeOK
    <3> QED
      BY <1>a, <2>1, <3>1
  <2> QED
    BY <2>2, <2>3
<1>6. CASE ReceiveReply
  <2>1. /\ pc = "recv" /\ respq[command.pid] # <<>>
        /\ command \in Command /\ command.pid \in Drivers
        /\ phase' = phase /\ cmdq' = cmdq
    BY <1>6 DEF ReceiveReply, driverVars, TypeOK, Command
  <2>2. pc' # "recv" /\ ~TimeOut
    BY <1>6, <2>1, UpdateReturnsType DEF ReceiveReply, TimeOut
  <2>3. CASE command.pid = p
    <3>1. respq'[p] = Tail(respq[p])
      BY <1>6, <2>3 DEF ReceiveReply, TypeOK
    <3>2. Len(respq'[p]) = Len(respq[p]) - 1
      BY <2>1, <2>3, <3>1, HeadTailProperties DEF TypeOK
    <3>3. Waiting(p) = 1 /\ Waiting(p)' = 0 /\ InHand(p)' = InHand(p)
      BY <2>1, <2>2, <2>3 DEF Waiting, InHand
    <3>4. Backlog(p)' = Backlog(p)
      BY <2>1, <3>2, <3>3, BacklogParts, PartTypes
    <3> QED
      BY <1>b, <2>2, <3>4
  <2>4. CASE command.pid # p
    <3>1. Aside(p)
      BY <1>6, <2>1, <2>2, <2>4 DEF ReceiveReply, Aside, TypeOK
    <3> QED
      BY <1>a, <2>2, <3>1
  <2> QED
    BY <2>3, <2>4
<1>7. CASE TimeOut
  <2>1. /\ pc = "recv" /\ command \in Command
        /\ phase' = phase /\ cmdq' = cmdq /\ respq' = respq
    BY <1>7 DEF TimeOut, driverVars, TypeOK
  <2>2. pc' # "recv"
    BY <1>7, <2>1, UpdateReturnsType DEF TimeOut
  <2>3. CASE command.pid = p
    <3>1. Waiting(p) = 1 /\ Waiting(p)' = 0 /\ InHand(p)' = InHand(p)
      BY <2>1, <2>2, <2>3 DEF Waiting, InHand
    <3> QED
      BY <1>7, <2>1, <2>3, <3>1, BacklogParts, PartTypes
  <2>4. CASE command.pid # p
    <3>1. Aside(p)
      BY <2>1, <2>2, <2>4 DEF Aside
    <3> QED
      BY <1>a, <2>4, <3>1
  <2> QED
    BY <2>3, <2>4
<1>8. CASE OpenForTask
  <2>1. Aside(p) /\ ~TimeOut
    BY <1>8, TimeOutChangesWaited DEF OpenForTask, ToPrompt, Aside, driverVars
  <2> QED
    BY <1>a, <2>1
<1>9. CASE SendTask
  <2>1. /\ pc = "sendTask" /\ pc' = "prompt" /\ ~TimeOut
        /\ phase' = phase /\ respq' = respq /\ command \in Command
    BY <1>9, TimeOutChangesWaited DEF SendTask, ToPrompt, driverVars, TypeOK
  <2> DEFINE m == [type |-> "MSG_TASK", task_time |-> command.time]
  <2>2. m \in CmdMsg /\ m.type # "MSG_STATUS"
    BY <2>1 DEF CmdMsg, Command
  <2>3. \/ cmdq'[p] = Append(cmdq[p], m)
        \/ cmdq'[p] = cmdq[p]
    BY <1>9 DEF SendTask, TypeOK
  <2>4. Requests(cmdq'[p]) = Requests(cmdq[p])
    <3>1. cmdq[p] \in Seq(CmdMsg) /\ Requests(cmdq[p]) \in Nat
      BY PartTypes DEF TypeOK
    <3>2. Requests(Append(cmdq[p], m)) = Requests(cmdq[p])
      BY <2>2, <3>1, RequestsAppend
    <3> QED
      BY <2>3, <3>2
  <2>5. Backlog(p)' = Backlog(p)
    BY <2>1, <2>4, BacklogParts DEF Waiting, InHand
  <2> QED
    BY <1>b, <2>1, <2>5
<1>10. ASSUME NEW q \in Drivers, Startup(q)
       PROVE  Aside(p) /\ ~TimeOut
  <2>1. \E from, to \in {"forked", "cmdReady", "respReady", "polling", "dead"} :
          StartupStep(q, from, to)
    BY <1>10 DEF Startup, CreateCmdQueue, CreateRespQueue, CreateTimer, StartupFails
  <2> QED
    BY <2>1, TimeOutChangesWaited DEF StartupStep, Aside, TypeOK, cliVars
<1>11. ASSUME NEW q \in Drivers, TakeCommand(q)
       PROVE  Backlog(p)' = Backlog(p) /\ ~TimeOut
  <2>1. /\ ~TimeOut /\ respq' = respq /\ pc' = pc /\ command' = command
        /\ phase[q] = "polling" /\ cmdq[q] # <<>>
    BY <1>11, TimeOutChangesWaited DEF TakeCommand, cliVars
  <2>2. CASE q # p
    <3>1. phase'[p] = phase[p]
      BY <1>11, <2>2 DEF TakeCommand, AnswerStatus, StartTask, TypeOK
    <3>2. Aside(p)
      BY <1>11, <2>1, <2>2, <3>1 DEF TakeCommand, Aside, TypeOK
    <3> QED
      BY <2>1, <3>2, BacklogAside
  <2>3. CASE q = p
    <3>1. /\ cmdq'[p] = Tail(cmdq[p]) /\ cmdq[p] \in Seq(CmdMsg)
          /\ Waiting(p)' = Waiting(p) /\ InHand(p) = 0
      BY <1>11, <2>1, <2>3
      DEF TakeCommand, TypeOK, Waiting, InHand
    <3>2. CASE Head(cmdq[p]).type = "MSG_STATUS" /\ AnswerStatus(p)
      <4>1. InHand(p)' = 1
        BY <3>2 DEF AnswerStatus, InHand, TypeOK
      <4>2. Requests(cmdq[p]) = Requests(cmdq'[p]) + 1
        BY <2>1, <2>3, <3>1, <3>2, RequestsTail
      <4>3. Requests(cmdq'[p]) \in Nat
        <5>1. cmdq'[p] \in Seq(CmdMsg)
          BY <2>1, <2>3, <3>1, HeadTailProperties
        <5> QED
          BY <5>1, RequestsBound, LenProperties
      <4> QED
        BY <2>1, <3>1, <4>1, <4>2, <4>3, BacklogParts, PartTypes, SMTT(30)
    <3>3. CASE Head(cmdq[p]).type = "MSG_TASK"
               /\ StartTask(p, Head(cmdq[p]).task_time)
      <4>1. InHand(p)' = 0
        BY <2>1, <2>3, <3>3 DEF StartTask, InHand
      <4>2. Requests(cmdq[p]) = Requests(cmdq'[p]) + 0
        BY <2>1, <2>3, <3>1, <3>3, RequestsTail
      <4>3. Requests(cmdq'[p]) \in Nat
        <5>1. cmdq'[p] \in Seq(CmdMsg)
          BY <2>1, <2>3, <3>1, HeadTailProperties
        <5> QED
          BY <5>1, RequestsBound, LenProperties
      <4> QED
        BY <2>1, <3>1, <4>1, <4>2, <4>3, BacklogParts, PartTypes
    <3> QED
      BY <1>11, <2>1, <2>3, <3>2, <3>3 DEF TakeCommand
  <2> QED
    BY <2>2, <2>3
<1>12. ASSUME NEW q \in Drivers, SendReply(q)
       PROVE  Backlog(p)' = Backlog(p) /\ ~TimeOut
  <2>1. /\ ~TimeOut /\ cmdq' = cmdq /\ pc' = pc /\ command' = command
        /\ phase[q] = "replying"
    BY <1>12, TimeOutChangesWaited DEF SendReply, cliVars
  <2>2. CASE q # p
    <3>1. Aside(p)
      BY <1>12, <2>1, <2>2 DEF SendReply, Aside, TypeOK
    <3> QED
      BY <2>1, <3>1, BacklogAside
  <2>3. CASE q = p
    <3>1. /\ respq'[p] = Append(respq[p], reply[p])
          /\ InHand(p) = 1 /\ InHand(p)' = 0 /\ Waiting(p)' = Waiting(p)
      BY <1>12, <2>1, <2>3 DEF SendReply, TypeOK, InHand, Waiting
    <3>2. Len(respq'[p]) = Len(respq[p]) + 1
      BY <3>1, AppendProperties DEF TypeOK
    <3>3. cmdq'[p] = cmdq[p]
      BY <2>1
    <3> HIDE DEF TypeInv
    <3>4. Backlog(p)' = Backlog(p)
      <4>1. Requests(cmdq[p]) \in Nat /\ Len(respq[p]) \in Nat /\ Waiting(p) \in 0 .. 1
        BY PartTypes
      <4>2. Backlog(p) = Requests(cmdq[p]) + Len(respq[p]) + 1 - Waiting(p)
        BY <3>1, BacklogParts
      <4>3. Backlog(p)' = Requests(cmdq[p]) + (Len(respq[p]) + 1) + 0 - Waiting(p)
        BY <3>1, <3>2, <3>3, BacklogParts
      <4> QED
        BY <4>1, <4>2, <4>3
    <3> QED
      BY <2>1, <3>4
  <2> QED
    BY <2>2, <2>3
<1>13. ASSUME NEW q \in Drivers, TimerBranch(q) \/ PollFails(q) \/ TimerExpires(q)
       PROVE  Aside(p) /\ ~TimeOut
  BY <1>13, TimeOutChangesWaited
  DEF TimerBranch, PollFails, TimerExpires, Aside, TypeOK, cliVars
<1>14. CASE Tick
  <2>1. Aside(p)
    BY <1>14 DEF Tick, Aside
  <2>2. ~TimeOut
    BY <1>14 DEF Tick, TimeOut, ReplyTimeout
  <2> QED
    BY <1>a, <2>1, <2>2
<1>15. CASE UNCHANGED vars
  <2>1. Aside(p) /\ ~TimeOut
    BY <1>15, TimeOutChangesWaited DEF vars, cliVars, driverVars, Aside
  <2> QED
    BY <1>a, <2>1
<1> QED
  BY <1>a, <1>b, <1>1, <1>2, <1>3, <1>4, <1>5, <1>6, <1>7, <1>8, <1>9, <1>10,
     <1>11, <1>12, <1>13, <1>14, <1>15
  DEF Next, UserStep, CliStep, DriverLoop, GetStatus, TypeTask, GetDrivers

\* Requests and answers are conserved: only a wait that is given up adds to
\* the answers nobody waits for, and nothing ever takes one away.
THEOREM RepliesAreConserved == Spec => BacklogOnlyFromTimeouts
<1>1. TypeInv /\ [Next]_vars =>
        \A p \in Drivers :
          Backlog(p)' = Backlog(p) + (IF TimeOut /\ command.pid = p THEN 1 ELSE 0)
  BY BacklogStep
<1> QED
  BY <1>1, TypesHold, PTL DEF Spec, BacklogOnlyFromTimeouts

-----------------------------------------------------------------------------
(***************************************************************************)
(* The queues.                                                             *)
(***************************************************************************)

LEMMA AppendOrder ==
  ASSUME NEW q \in Seq(CmdMsg), NEW m \in CmdMsg, NoTwoTasks(q),
         m.type = "MSG_STATUS" \/ EndsInRequest(q)
  PROVE  /\ NoTwoTasks(Append(q, m))
         /\ m.type = "MSG_STATUS" => EndsInRequest(Append(q, m))
<1>1. /\ Len(q) \in Nat
      /\ Len(Append(q, m)) = Len(q) + 1
      /\ \A i \in 1 .. Len(q) : Append(q, m)[i] = q[i]
      /\ Append(q, m)[Len(q) + 1] = m
  BY AppendProperties, LenProperties
<1>2. ASSUME NEW i \in 1 .. Len(q)
      PROVE  \/ Append(q, m)[i].type = "MSG_STATUS"
             \/ Append(q, m)[i + 1].type = "MSG_STATUS"
  <2>1. CASE i = Len(q)
    <3>1. q # <<>>
      BY <1>1, <2>1, EmptySeq
    <3>2. m.type = "MSG_STATUS" \/ q[Len(q)].type = "MSG_STATUS"
      BY <3>1 DEF EndsInRequest
    <3> QED
      BY <1>1, <2>1, <3>2
  <2>2. CASE i # Len(q)
    <3>1. i \in 1 .. Len(q) - 1 /\ i + 1 \in 1 .. Len(q)
      BY <1>1, <2>2
    <3> QED
      BY <1>1, <3>1 DEF NoTwoTasks
  <2> QED
    BY <2>1, <2>2
<1> QED
  BY <1>1, <1>2 DEF NoTwoTasks, EndsInRequest

LEMMA TailOrder ==
  ASSUME NEW q \in Seq(CmdMsg), q # <<>>, NoTwoTasks(q)
  PROVE  /\ NoTwoTasks(Tail(q))
         /\ EndsInRequest(q) => EndsInRequest(Tail(q))
<1>1. /\ Len(q) \in Nat \ {0}
      /\ Tail(q) \in Seq(CmdMsg)
      /\ Len(Tail(q)) = Len(q) - 1
      /\ \A i \in 1 .. Len(Tail(q)) : Tail(q)[i] = q[i + 1]
  BY HeadTailProperties, EmptySeq
<1>2. ASSUME NEW i \in 1 .. Len(Tail(q)) - 1
      PROVE  Tail(q)[i].type = "MSG_STATUS" \/ Tail(q)[i + 1].type = "MSG_STATUS"
  <2>1. i + 1 \in 1 .. Len(q) - 1
    BY <1>1
  <2>2. Tail(q)[i] = q[i + 1] /\ Tail(q)[i + 1] = q[i + 1 + 1]
    BY <1>1
  <2> QED
    BY <2>1, <2>2 DEF NoTwoTasks
<1>3. ASSUME EndsInRequest(q), Tail(q) # <<>>
      PROVE  Tail(q)[Len(Tail(q))].type = "MSG_STATUS"
  <2>1. Len(Tail(q)) \in Nat \ {0}
    BY <1>1, <1>3, EmptySeq
  <2>2. Tail(q)[Len(Tail(q))] = q[Len(q)]
    BY <1>1, <2>1
  <2> QED
    BY <1>3, <2>2 DEF EndsInRequest
<1> QED
  BY <1>2, <1>3 DEF NoTwoTasks, EndsInRequest

LEMMA QueueInit == Init => QueueInv
BY TaxiAssumption
DEF Init, QueueInv, CapacityInv, StartInv, TalkInv, TurnInv, SpacedInv,
    NoTwoTasks, EndsInRequest

\* UpdateReturns goes on to the task for the same command only.
LEMMA ToTask ==
  ASSUME UpdateReturns, pc' = "openTask"
  PROVE  command' = command
BY DEF UpdateReturns, ToPrompt

LEMMA QueueStep == TypeInv /\ QueueInv /\ [Next]_vars => QueueInv'
<1> SUFFICES ASSUME TypeInv, QueueInv, [Next]_vars PROVE QueueInv'
  OBVIOUS
<1> USE TaxiAssumption DEF TypeInv, QueueInv
<1>a. ASSUME UNCHANGED <<pc, command, fds, phase, names, cmdq, respq>>
      PROVE  QueueInv'
  BY <1>a DEF CapacityInv, StartInv, TalkInv, TurnInv, SpacedInv, CanOpen, Starting
<1>b. ASSUME UNCHANGED <<phase, names, cmdq, respq>>, TalkInv', TurnInv'
      PROVE  QueueInv'
  BY <1>b DEF CapacityInv, StartInv, SpacedInv, Starting
<1>1. ASSUME NEW q \in Drivers, CreateDriver(q) PROVE QueueInv'
  <2>1. /\ UNCHANGED <<pc, names, cmdq, respq>> /\ pc = "prompt"
        /\ \A p \in Drivers : Starting(p)' <=> Starting(p)
    BY <1>1 DEF CreateDriver, Starting, TypeOK
  <2> QED
    BY <2>1 DEF CapacityInv, StartInv, TalkInv, TurnInv, SpacedInv
<1>2. ASSUME NEW q, NEW job, NEW t, NEW i, Begin(job, q, t, i) PROVE QueueInv'
  <2>1. pc' = "open" /\ UNCHANGED <<phase, names, cmdq, respq>>
    BY <1>2 DEF Begin, driverVars
  <2> QED
    BY <1>b, <2>1 DEF TalkInv, TurnInv
<1>3. CASE EndOfInput
  <2>1. pc' = "exit" /\ UNCHANGED <<phase, names, cmdq, respq>>
    BY <1>3 DEF EndOfInput, driverVars
  <2> QED
    BY <1>b, <2>1 DEF TalkInv, TurnInv
<1>4. CASE OpenForStatus
  <2>1. command \in Command /\ command.pid \in Drivers
        /\ UNCHANGED <<phase, names, cmdq, respq>>
    BY <1>4 DEF OpenForStatus, TypeOK, Command, driverVars
  <2>2. CASE CanOpen(command.pid) /\ pc' = "send" /\ UNCHANGED command
    <3>1. ~Starting(command.pid)
      BY <2>1, <2>2 DEF StartInv, CanOpen
    <3> QED
      BY <1>b, <2>1, <2>2, <3>1 DEF TalkInv, TurnInv, Starting
  <2>3. CASE ~CanOpen(command.pid) /\ UNCHANGED fds /\ UpdateReturns
    <3>1. pc' \in {"prompt", "open", "openTask"}
      BY <2>1, <2>3, UpdateReturnsType
    <3>2. pc' = "openTask" => ~CanOpen(command.pid)'
      BY <2>1, <2>3, ToTask DEF CanOpen
    <3> QED
      BY <1>b, <2>1, <3>1, <3>2 DEF TalkInv, TurnInv
  <2> QED
    BY <1>4, <2>2, <2>3 DEF OpenForStatus
<1>5. CASE SendStatus
  <2> DEFINE d == command.pid
  <2>1. /\ d \in Drivers /\ pc = "send" /\ pc' = "recv"
        /\ Len(cmdq[d]) < MaxMsg
        /\ cmdq' = [cmdq EXCEPT ![d] = Append(@, StatusMsg)]
        /\ UNCHANGED <<command, fds, phase, names, respq>>
    BY <1>5 DEF SendStatus, TypeOK, Command, driverVars
  <2>2. /\ NoTwoTasks(Append(cmdq[d], StatusMsg))
        /\ EndsInRequest(Append(cmdq[d], StatusMsg))
    BY <2>1, MessageTypes, AppendOrder DEF TypeOK, SpacedInv, StatusMsg
  <2>3. Len(Append(cmdq[d], StatusMsg)) <= MaxMsg
    BY <2>1, MessageTypes, AppendProperties, LenProperties DEF TypeOK
  <2>4. ~Starting(d)
    BY <2>1 DEF TalkInv
  <2>5. \A p \in Drivers : cmdq'[p] = IF p = d THEN Append(cmdq[d], StatusMsg)
                                      ELSE cmdq[p]
    BY <2>1 DEF TypeOK
  <2>6. CapacityInv' /\ SpacedInv'
    BY <2>1, <2>2, <2>3, <2>5 DEF CapacityInv, SpacedInv
  <2>7. StartInv' /\ TalkInv'
    BY <2>1, <2>4, <2>5 DEF StartInv, TalkInv, Starting
  <2>8. TurnInv'
    BY <2>1, <2>2, <2>5 DEF TurnInv
  <2> QED
    BY <2>6, <2>7, <2>8
<1>6. ASSUME ReceiveReply \/ TimeOut PROVE QueueInv'
  <2>1. /\ command \in Command /\ command.pid \in Drivers /\ pc = "recv"
        /\ UNCHANGED <<phase, names, cmdq>> /\ UpdateReturns
    BY <1>6 DEF ReceiveReply, TimeOut, TypeOK, Command, driverVars
  <2>2. pc' \in {"prompt", "open", "openTask"}
    BY <2>1, UpdateReturnsType
  <2>3. TalkInv' /\ TurnInv'
    BY <2>1, <2>2, ToTask DEF TalkInv, TurnInv
  <2>4. \A p \in Drivers : \/ respq'[p] = respq[p]
                           \/ respq[p] # <<>> /\ respq'[p] = Tail(respq[p])
    <3>1. CASE TimeOut
      BY <3>1 DEF TimeOut
    <3>2. CASE ReceiveReply
      BY <2>1, <3>2 DEF ReceiveReply, TypeOK
    <3> QED
      BY <1>6, <3>1, <3>2
  <2>5. \A p \in Drivers : /\ Len(respq'[p]) <= Len(respq[p])
                           /\ Len(respq'[p]) \in Nat /\ Len(respq[p]) \in Nat
                           /\ respq[p] = <<>> => respq'[p] = <<>>
    <3> SUFFICES ASSUME NEW p \in Drivers
                 PROVE  /\ Len(respq'[p]) <= Len(respq[p])
                        /\ Len(respq'[p]) \in Nat /\ Len(respq[p]) \in Nat
                        /\ respq[p] = <<>> => respq'[p] = <<>>
      OBVIOUS
    <3>1. respq[p] \in Seq(ReplyMsg) /\ Len(respq[p]) \in Nat
      BY LenProperties DEF TypeOK
    <3>2. ASSUME respq[p] # <<>>, respq'[p] = Tail(respq[p])
          PROVE  Len(respq'[p]) = Len(respq[p]) - 1 /\ Len(respq'[p]) \in Nat
      BY <3>1, <3>2, HeadTailProperties, EmptySeq
    <3> QED
      BY <2>4, <3>1, <3>2
  <2>6. CapacityInv' /\ StartInv' /\ SpacedInv'
    BY <2>1, <2>5 DEF CapacityInv, StartInv, SpacedInv, Starting
  <2> QED
    BY <2>3, <2>6
<1>7. CASE OpenForTask
  <2>1. command \in Command /\ command.pid \in Drivers /\ pc = "openTask"
        /\ UNCHANGED <<phase, names, cmdq, respq>>
    BY <1>7 DEF OpenForTask, TypeOK, Command, driverVars
  <2>2. CASE CanOpen(command.pid) /\ pc' = "sendTask" /\ UNCHANGED command
    <3>1. ~Starting(command.pid)
      BY <2>1, <2>2 DEF StartInv, CanOpen
    <3> QED
      BY <1>b, <2>1, <2>2, <3>1 DEF TalkInv, TurnInv, Starting
  <2>3. CASE pc' = "prompt"
    BY <1>b, <2>1, <2>3 DEF TalkInv, TurnInv
  <2> QED
    BY <1>7, <2>2, <2>3 DEF OpenForTask, ToPrompt
<1>8. CASE SendTask
  <2> DEFINE d == command.pid
             m == [type |-> "MSG_TASK", task_time |-> command.time]
  <2>1. /\ d \in Drivers /\ pc = "sendTask" /\ pc' = "prompt" /\ m \in CmdMsg
        /\ Len(cmdq[d]) < MaxMsg
        /\ cmdq' = [cmdq EXCEPT ![d] = Append(@, m)]
        /\ UNCHANGED <<phase, names, respq>>
    BY <1>8 DEF SendTask, ToPrompt, TypeOK, Command, driverVars, CmdMsg
  <2>2. NoTwoTasks(Append(cmdq[d], m))
    BY <2>1, AppendOrder DEF TypeOK, SpacedInv, TurnInv
  <2>3. Len(Append(cmdq[d], m)) <= MaxMsg
    BY <2>1, AppendProperties, LenProperties DEF TypeOK
  <2>4. ~Starting(d)
    BY <2>1 DEF TalkInv
  <2>5. \A p \in Drivers : cmdq'[p] = IF p = d THEN Append(cmdq[d], m) ELSE cmdq[p]
    BY <2>1 DEF TypeOK
  <2>6. CapacityInv' /\ SpacedInv'
    BY <2>1, <2>2, <2>3, <2>5 DEF CapacityInv, SpacedInv
  <2>7. StartInv' /\ TalkInv' /\ TurnInv'
    BY <2>1, <2>4, <2>5 DEF StartInv, TalkInv, TurnInv, Starting
  <2> QED
    BY <2>6, <2>7
<1>9. ASSUME NEW q \in Drivers, Startup(q) PROVE QueueInv'
  <2>1. UNCHANGED <<pc, command, fds, cmdq, respq>>
    BY <1>9 DEF Startup, CreateCmdQueue, CreateRespQueue, CreateTimer,
                StartupFails, StartupStep, cliVars
  <2>2. /\ Starting(q)' => /\ Starting(q)
                           /\ names'[q] # {"cmd", "resp"}
        /\ names'[q] = {"cmd", "resp"} => Starting(q) \/ names'[q] = names[q]
        /\ ~Starting(q) => ~Starting(q)'
    <3>1. CASE CreateCmdQueue(q)
      <4>1. {"cmd"} # {"cmd", "resp"}
        <5>1. "resp" \notin {"cmd"} /\ "resp" \in {"cmd", "resp"}
          OBVIOUS
        <5> QED
          BY <5>1
      <4>2. names'[q] = {"cmd"} /\ Starting(q)
        BY <3>1 DEF CreateCmdQueue, StartupStep, Starting, TypeOK
      <4> QED
        BY <4>1, <4>2
    <3>2. CASE CreateRespQueue(q)
      BY <3>2 DEF CreateRespQueue, StartupStep, Starting, TypeOK
    <3>3. CASE CreateTimer(q)
      BY <3>3 DEF CreateTimer, StartupStep, Starting, TypeOK
    <3>4. CASE StartupFails(q)
      BY <3>4 DEF StartupFails, StartupStep, Starting, TypeOK
    <3> QED
      BY <1>9, <3>1, <3>2, <3>3, <3>4 DEF Startup
  <2>3. \A p \in Drivers : p # q => names'[p] = names[p] /\ phase'[p] = phase[p]
    BY <1>9 DEF Startup, CreateCmdQueue, CreateRespQueue, CreateTimer,
                StartupFails, StartupStep, TypeOK
  <2>4. CapacityInv' /\ SpacedInv'
    BY <2>1 DEF CapacityInv, SpacedInv
  <2>5. StartInv'
    BY <2>1, <2>2, <2>3 DEF StartInv, Starting
  <2>6. TalkInv'
    BY <2>1, <2>2, <2>3 DEF TalkInv, Starting, TypeOK, Command
  <2>7. TurnInv'
    BY <2>1, <2>2, <2>3
    DEF TurnInv, StartInv, CanOpen, EndsInRequest, TypeOK, Command
  <2> QED
    BY <2>4, <2>5, <2>6, <2>7
<1>10. ASSUME NEW q \in Drivers, TakeCommand(q) PROVE QueueInv'
  <2>1. /\ UNCHANGED <<pc, command, fds, names, respq>>
        /\ cmdq[q] # <<>> /\ cmdq[q] \in Seq(CmdMsg)
        /\ cmdq' = [cmdq EXCEPT ![q] = Tail(@)]
    BY <1>10 DEF TakeCommand, cliVars, TypeOK
  <2>2. \A p \in Drivers : Starting(p)' <=> Starting(p)
    BY <1>10 DEF TakeCommand, AnswerStatus, StartTask, Starting, TypeOK
  <2>3. NoTwoTasks(Tail(cmdq[q])) /\ (EndsInRequest(cmdq[q]) => EndsInRequest(Tail(cmdq[q])))
    BY <2>1, TailOrder DEF SpacedInv
  <2>4. Len(Tail(cmdq[q])) <= MaxMsg
    BY <2>1, HeadTailProperties, LenProperties DEF CapacityInv
  <2>5. \A p \in Drivers : cmdq'[p] = IF p = q THEN Tail(cmdq[q]) ELSE cmdq[p]
    BY <2>1 DEF TypeOK
  <2>6. CapacityInv' /\ SpacedInv'
    BY <2>1, <2>3, <2>4, <2>5 DEF CapacityInv, SpacedInv
  <2>7. StartInv'
    BY <2>1, <2>2, <2>5 DEF StartInv
  <2>8. TalkInv'
    BY <2>1, <2>2 DEF TalkInv, TypeOK, Command
  <2>9. TurnInv'
    BY <2>1, <2>3, <2>5 DEF TurnInv, CanOpen, TypeOK, Command
  <2> QED
    BY <2>6, <2>7, <2>8, <2>9
<1>11. ASSUME NEW q \in Drivers, SendReply(q) PROVE QueueInv'
  <2>1. /\ UNCHANGED <<pc, command, fds, names, cmdq>>
        /\ Len(respq[q]) < MaxMsg /\ phase[q] = "replying"
        /\ respq' = [respq EXCEPT ![q] = Append(@, reply[q])]
        /\ phase' = [phase EXCEPT ![q] = "polling"]
    BY <1>11 DEF SendReply, cliVars
  <2>2. Len(Append(respq[q], reply[q])) <= MaxMsg
    BY <2>1, AppendProperties, LenProperties DEF TypeOK
  <2>3. \A p \in Drivers : /\ respq'[p] = IF p = q THEN Append(respq[q], reply[q])
                                          ELSE respq[p]
                           /\ Starting(p)' <=> Starting(p)
    BY <2>1 DEF TypeOK, Starting
  <2>4. CapacityInv' /\ SpacedInv'
    BY <2>1, <2>2, <2>3 DEF CapacityInv, SpacedInv
  <2>5. StartInv'
    BY <2>1, <2>3 DEF StartInv, Starting
  <2>6. TalkInv' /\ TurnInv'
    BY <2>1, <2>3 DEF TalkInv, TurnInv, CanOpen, TypeOK, Command
  <2> QED
    BY <2>4, <2>5, <2>6
<1>12. ASSUME NEW q \in Drivers, PollFails(q) PROVE QueueInv'
  <2>1. /\ UNCHANGED <<pc, command, fds, cmdq, respq>>
        /\ phase[q] = "polling" /\ phase' = [phase EXCEPT ![q] = "dead"]
        /\ names' = [names EXCEPT ![q] = {}]
    BY <1>12 DEF PollFails, cliVars
  <2>2. \A p \in Drivers : /\ Starting(p)' <=> Starting(p)
                           /\ names'[p] = {"cmd", "resp"} => names'[p] = names[p]
    BY <2>1 DEF TypeOK, Starting
  <2> QED
    BY <2>1, <2>2
    DEF CapacityInv, StartInv, TalkInv, TurnInv, SpacedInv, CanOpen, TypeOK, Command
<1>13. ASSUME NEW q \in Drivers, TimerBranch(q) \/ TimerExpires(q) PROVE QueueInv'
  BY <1>a, <1>13 DEF TimerBranch, TimerExpires, cliVars
<1>14. CASE Tick
  BY <1>a, <1>14 DEF Tick
<1>15. CASE UNCHANGED vars
  BY <1>a, <1>15 DEF vars, cliVars, driverVars
<1> QED
  BY <1>1, <1>2, <1>3, <1>4, <1>5, <1>6, <1>7, <1>8, <1>9, <1>10, <1>11, <1>12,
     <1>13, <1>14, <1>15
  DEF Next, UserStep, CliStep, DriverLoop, GetStatus, TypeTask, GetDrivers

-----------------------------------------------------------------------------
IInv == TypeInv /\ QueueInv /\ BacklogBound

LEMMA BoundStep == IInv /\ [Next]_vars => BacklogBound'
<1> SUFFICES ASSUME IInv, [Next]_vars, NEW p \in Drivers
             PROVE  Backlog(p)' <= MaxMsg + 1
  BY DEF BacklogBound
<1>1. TypeInv /\ CapacityInv /\ BacklogBound
  BY DEF IInv, QueueInv
<1>2. Backlog(p) \in Int /\ Backlog(p) <= MaxMsg + 1 /\ MaxMsg \in Nat
  BY <1>1, BacklogParts, PartTypes, TaxiAssumption DEF BacklogBound
<1>3. CASE ~(TimeOut /\ command.pid = p)
  BY <1>1, <1>2, <1>3, BacklogStep
<1>4. CASE TimeOut /\ command.pid = p
  <2>1. Len(respq[p]) = 0 /\ Waiting(p) = 1
    BY <1>4 DEF TimeOut, Waiting
  <2>2. Requests(cmdq[p]) \in 0 .. MaxMsg
    <3>1. cmdq[p] \in Seq(CmdMsg) /\ Len(cmdq[p]) <= MaxMsg /\ Len(cmdq[p]) \in Nat
      BY <1>1, LenProperties DEF TypeInv, TypeOK, CapacityInv
    <3> QED
      BY <1>2, <3>1, RequestsBound
  <2>3. InHand(p) \in 0 .. 1
    BY DEF InHand
  <2>4. Backlog(p) = Requests(cmdq[p]) + 0 + InHand(p) - 1
    BY <2>1, BacklogParts
  <2>5. Backlog(p)' = Backlog(p) + 1
    BY <1>1, <1>4, BacklogStep
  <2> QED
    BY <1>2, <2>2, <2>3, <2>4, <2>5
<1> QED
  BY <1>3, <1>4

LEMMA BoundInit == Init => BacklogBound
<1> SUFFICES ASSUME Init, NEW p \in Drivers PROVE Backlog(p) <= MaxMsg + 1
  BY DEF BacklogBound
<1>1. Requests(<<>>) = 0
  <2>1. StatusIn(<<>>) = {}
    BY DEF StatusIn
  <2> QED
    BY <2>1, FS_EmptySet DEF Requests
<1>2. cmdq[p] = <<>> /\ Len(respq[p]) = 0 /\ InHand(p) = 0 /\ Waiting(p) = 0
  BY DEF Init, InHand, Waiting
<1>3. Backlog(p) = 0 + 0 + 0 - 0
  BY <1>1, <1>2, BacklogParts
<1> QED
  BY <1>3, TaxiAssumption

LEMMA InvHolds == Spec => []IInv
<1>1. Init => IInv
  BY TypeInit, QueueInit, BoundInit DEF IInv
<1>2. IInv /\ [Next]_vars => IInv'
  BY TypeStep, QueueStep, BoundStep DEF IInv
<1> QED
  BY <1>1, <1>2, PTL DEF Spec

\* However slow a driver is and however often the user asks, at most
\* MaxMsg + 1 of its answers are ever late.
THEOREM LateRepliesBounded == Spec => []BacklogBound
<1>1. IInv => BacklogBound
  BY DEF IInv
<1> QED
  BY <1>1, InvHolds, PTL

\* The CLI and a driver never block each other.  Were both blocked, the late
\* answers would leave no room for a request in the full command queue, and
\* a queue of two or more tasks in a row never arises.
THEOREM NoMutualBlocking == Spec => []NoMutualBlock
<1>1. IInv => NoMutualBlock
  <2> SUFFICES ASSUME IInv, NEW p \in Drivers, CliBlockedOn(p), DriverBlocked(p)
               PROVE  FALSE
    BY DEF NoMutualBlock
  <2>1. /\ TypeInv /\ Backlog(p) <= MaxMsg + 1 /\ NoTwoTasks(cmdq[p])
        /\ cmdq[p] \in Seq(CmdMsg) /\ Len(cmdq[p]) = MaxMsg
        /\ MaxMsg \in Nat /\ MaxMsg >= 2
    BY TaxiAssumption
    DEF IInv, QueueInv, BacklogBound, SpacedInv, CliBlockedOn, TypeInv, TypeOK
  <2>2. Waiting(p) = 0 /\ InHand(p) = 1 /\ Len(respq[p]) = MaxMsg
    BY DEF CliBlockedOn, DriverBlocked, Waiting, InHand
  <2>3. Requests(cmdq[p]) \in Nat
    BY <2>1, PartTypes
  <2>4. Backlog(p) = Requests(cmdq[p]) + MaxMsg + 1 - 0
    BY <2>2, BacklogParts
  <2>5. Requests(cmdq[p]) = 0
    BY <2>1, <2>3, <2>4
  <2>6. StatusIn(cmdq[p]) = {}
    BY <2>1, <2>5, RequestsBound
  <2>7. DOMAIN cmdq[p] = 1 .. MaxMsg
    BY <2>1, LenProperties
  <2>8. cmdq[p][1].type # "MSG_STATUS" /\ cmdq[p][2].type # "MSG_STATUS"
    BY <2>1, <2>6, <2>7 DEF StatusIn
  <2>9. 1 \in 1 .. Len(cmdq[p]) - 1
    BY <2>1
  <2> QED
    BY <2>1, <2>8, <2>9 DEF NoTwoTasks
<1> QED
  BY <1>1, InvHolds, PTL

-----------------------------------------------------------------------------
(***************************************************************************)
(* What the CLI knows of a driver none of whose answers is late.           *)
(***************************************************************************)

\* The time an answer promises is not less than the time t left.
Honest(r, t) == t <= (IF r.type = "MSG_BUSY" THEN r.task_time ELSE 0)

NoTask(q) == \A i \in 1 .. Len(q) : q[i].type = "MSG_STATUS"

OneTask(q) ==
  \A i, j \in 1 .. Len(q) :
    q[i].type # "MSG_STATUS" /\ q[j].type # "MSG_STATUS" => i = j

OnTime(p) ==
  /\ phase[p] = "replying" => Honest(reply[p], timeLeft[p])
  /\ \A i \in 1 .. Len(respq[p]) : Honest(respq[p][i], timeLeft[p])
  /\ status[p] = "DRIVER_BUSY" => timeLeft[p] <= busyLeft[p] /\ NoTask(cmdq[p])
  /\ OneTask(cmdq[p])
  /\ timeLeft[p] > 0 => NoTask(cmdq[p])

\* The CLI can send p a task.
AboutTo(p) == pc = "sendTask" \/ (pc = "openTask" /\ CanOpen(p))

Free(p) == timeLeft[p] = 0 /\ NoTask(cmdq[p])

IdleInv ==
  \A p \in Drivers :
    dstatus[p] = "DRIVER_AVAILABLE" \/ Starting(p) => timeLeft[p] = 0

LateInv == \A p \in Drivers : Backlog(p) >= 0

OnTimeInv == \A p \in Drivers : Backlog(p) = 0 => OnTime(p)

GiveInv ==
  \A p \in Drivers :
    pc \in {"openTask", "sendTask"} /\ command.pid = p =>
      /\ status[p] = "DRIVER_AVAILABLE"
      /\ AboutTo(p) /\ Backlog(p) = 0 => Free(p)

KnownInv == IdleInv /\ LateInv /\ OnTimeInv /\ GiveInv

LEMMA TaskAppend ==
  ASSUME NEW q \in Seq(CmdMsg), NEW m \in CmdMsg
  PROVE  /\ NoTask(q) => OneTask(Append(q, m))
         /\ m.type = "MSG_STATUS" => /\ NoTask(q) => NoTask(Append(q, m))
                                     /\ OneTask(q) => OneTask(Append(q, m))
<1>1. /\ Len(q) \in Nat
      /\ Len(Append(q, m)) = Len(q) + 1
      /\ \A i \in 1 .. Len(q) : Append(q, m)[i] = q[i]
      /\ Append(q, m)[Len(q) + 1] = m
  BY AppendProperties, LenProperties
<1>2. \A i \in 1 .. Len(Append(q, m)) : i \in 1 .. Len(q) \/ i = Len(q) + 1
  BY <1>1
<1> QED
  BY <1>1, <1>2 DEF NoTask, OneTask

LEMMA TaskTail ==
  ASSUME NEW q \in Seq(CmdMsg), q # <<>>
  PROVE  /\ NoTask(q) => NoTask(Tail(q))
         /\ NoTask(q) => Head(q).type = "MSG_STATUS"
         /\ OneTask(q) => OneTask(Tail(q))
         /\ OneTask(q) /\ Head(q).type # "MSG_STATUS" => NoTask(Tail(q))
<1>1. /\ Len(q) \in Nat \ {0}
      /\ Len(Tail(q)) = Len(q) - 1
      /\ \A i \in 1 .. Len(Tail(q)) : Tail(q)[i] = q[i + 1]
      /\ Head(q) = q[1]
  BY HeadTailProperties, EmptySeq
<1>2. \A i \in 1 .. Len(Tail(q)) : i + 1 \in 1 .. Len(q) /\ i + 1 # 1
  BY <1>1
<1>3. 1 \in 1 .. Len(q)
  BY <1>1
<1>4. OneTask(q) => OneTask(Tail(q))
  <2> SUFFICES ASSUME OneTask(q), NEW i \in 1 .. Len(Tail(q)),
                      NEW j \in 1 .. Len(Tail(q)),
                      Tail(q)[i].type # "MSG_STATUS", Tail(q)[j].type # "MSG_STATUS"
               PROVE  i = j
    BY DEF OneTask
  <2>1. i + 1 = j + 1
    BY <1>1, <1>2 DEF OneTask
  <2> QED
    BY <1>1, <2>1
<1> QED
  BY <1>1, <1>2, <1>3, <1>4 DEF NoTask, OneTask

LEMMA NoRequestLeft ==
  ASSUME NEW q \in Seq(CmdMsg), EndsInRequest(q), Requests(q) = 0
  PROVE  q = <<>>
<1> SUFFICES ASSUME q # <<>> PROVE FALSE
  OBVIOUS
<1>1. Len(q) \in Nat \ {0} /\ DOMAIN q = 1 .. Len(q)
  BY LenProperties, EmptySeq
<1>2. Len(q) \in StatusIn(q)
  BY <1>1 DEF StatusIn, EndsInRequest
<1> QED
  BY <1>2, RequestsBound

\* While nothing is late, an answer on its way back is the one the CLI waits
\* for, and the driver has no command left.
LEMMA AnswerExpected ==
  ASSUME TypeInv, QueueInv, NEW p \in Drivers, Backlog(p) = 0,
         phase[p] = "replying" \/ respq[p] # <<>>
  PROVE  /\ pc = "recv" /\ command.pid = p
         /\ cmdq[p] = <<>>
<1>1. /\ cmdq[p] \in Seq(CmdMsg) /\ Len(respq[p]) \in Nat
      /\ respq[p] # <<>> => Len(respq[p]) > 0
  BY LenProperties, EmptySeq DEF TypeInv, TypeOK
<1>2. Requests(cmdq[p]) \in Nat /\ InHand(p) \in 0 .. 1 /\ Waiting(p) \in 0 .. 1
  BY PartTypes
<1>3. phase[p] = "replying" => InHand(p) = 1
  BY DEF InHand
<1>4. Requests(cmdq[p]) = 0 /\ Waiting(p) = 1
  BY <1>1, <1>2, <1>3, BacklogParts
<1>5. pc = "recv" /\ command.pid = p
  BY <1>4 DEF Waiting
<1>6. EndsInRequest(cmdq[p])
  BY <1>5 DEF QueueInv, TurnInv
<1> QED
  BY <1>1, <1>4, <1>5, <1>6, NoRequestLeft

LEMMA KnownInit == Init => KnownInv
<1> SUFFICES ASSUME Init PROVE KnownInv
  OBVIOUS
<1>1. \A p \in Drivers : Backlog(p) = 0
  <2> SUFFICES ASSUME NEW p \in Drivers PROVE Backlog(p) = 0
    OBVIOUS
  <2>1. StatusIn(<<>>) = {}
    BY DEF StatusIn
  <2>2. Requests(<<>>) = 0
    BY <2>1, FS_EmptySet DEF Requests
  <2>3. cmdq[p] = <<>> /\ Len(respq[p]) = 0 /\ InHand(p) = 0 /\ Waiting(p) = 0
    BY DEF Init, InHand, Waiting
  <2> QED
    BY <2>2, <2>3, BacklogParts
<1>2. IdleInv /\ GiveInv /\ OnTimeInv
  BY DEF Init, IdleInv, GiveInv, OnTimeInv, OnTime, OneTask
<1> QED
  BY <1>1, <1>2 DEF KnownInv, LateInv

\* A late answer stays late.
LEMMA LateStaysLate ==
  ASSUME TypeInv, LateInv, [Next]_vars, NEW p \in Drivers
  PROVE  /\ Backlog(p)' >= 0
         /\ Backlog(p)' = 0 => Backlog(p) = 0 /\ ~(TimeOut /\ command.pid = p)
<1>1. Backlog(p) \in Int
  BY BacklogParts, PartTypes
<1> QED
  BY <1>1, BacklogStep DEF LateInv

\* A step that changes nothing the CLI or p knows of p, but for the time.
Passes(p) ==
  /\ status'[p] = status[p] /\ busyLeft'[p] = busyLeft[p]
  /\ cmdq'[p] = cmdq[p] /\ respq'[p] = respq[p]
  /\ phase'[p] = "replying" => phase[p] = "replying" /\ reply'[p] = reply[p]
  /\ timeLeft'[p] <= timeLeft[p]

LEMMA OnTimePasses ==
  ASSUME TypeInv, TypeInv', NEW p \in Drivers, OnTime(p), Passes(p)
  PROVE  OnTime(p)'
<1>1. /\ timeLeft[p] \in Nat /\ timeLeft'[p] \in Nat
      /\ busyLeft[p] \in Nat
      /\ reply[p] \in ReplyMsg /\ respq[p] \in Seq(ReplyMsg)
  BY DEF TypeInv, TypeOK
<1>2. ASSUME NEW r \in ReplyMsg, Honest(r, timeLeft[p])
      PROVE  Honest(r, timeLeft'[p])
  BY <1>1, <1>2 DEF Honest, ReplyMsg, Passes
<1>3. \A i \in 1 .. Len(respq[p]) : respq[p][i] \in ReplyMsg
  BY <1>1, ElementOfSeq
<1> QED
  BY <1>1, <1>2, <1>3 DEF OnTime, Passes

LEMMA OnTimeStep ==
  ASSUME TypeInv, TypeInv', QueueInv, KnownInv, [Next]_vars,
         NEW p \in Drivers, Backlog(p)' = 0
  PROVE  OnTime(p)'
<1> USE DEF TypeInv, KnownInv
<1>0. /\ OnTime(p) /\ Backlog(p) = 0
      /\ ~(TimeOut /\ command.pid = p)
  BY LateStaysLate DEF OnTimeInv
<1>a. ASSUME Passes(p) PROVE OnTime(p)'
  BY <1>0, <1>a, OnTimePasses
<1>b. /\ timeLeft[p] \in Nat /\ cmdq[p] \in Seq(CmdMsg)
      /\ respq[p] \in Seq(ReplyMsg)
  BY DEF TypeOK
<1>1. ASSUME NEW q \in Drivers, CreateDriver(q) PROVE OnTime(p)'
  <2>1. /\ UNCHANGED <<cmdq, respq, timeLeft, reply>>
        /\ phase'[p] = "replying" => phase[p] = "replying"
    BY <1>1 DEF CreateDriver, TypeOK
  <2>2. \/ UNCHANGED <<status, busyLeft>>
        \/ /\ status' = [status EXCEPT ![q] = "DRIVER_AVAILABLE"]
           /\ busyLeft' = [busyLeft EXCEPT ![q] = 0]
    BY <1>1, Zenon DEF CreateDriver, AddDriver
  <2>3. \/ status'[p] = status[p] /\ busyLeft'[p] = busyLeft[p]
        \/ status'[p] = "DRIVER_AVAILABLE"
    BY <2>2 DEF TypeOK
  <2> QED
    BY <1>0, <2>1, <2>3 DEF OnTime
<1>2. ASSUME NEW q, NEW job, NEW t, NEW i, Begin(job, q, t, i) PROVE OnTime(p)'
  BY <1>a, <1>b, <1>2 DEF Begin, Passes, driverVars
<1>3. CASE EndOfInput
  BY <1>a, <1>b, <1>3 DEF EndOfInput, Passes, driverVars
<1>4. CASE OpenForStatus
  BY <1>a, <1>b, <1>4 DEF OpenForStatus, Passes, driverVars
<1>5. CASE SendStatus
  <2>1. /\ UNCHANGED <<status, busyLeft, respq, timeLeft, phase, reply>>
        /\ cmdq'[p] = cmdq[p] \/ cmdq'[p] = Append(cmdq[p], StatusMsg)
    BY <1>5 DEF SendStatus, driverVars, TypeOK
  <2>2. /\ NoTask(cmdq[p]) => NoTask(cmdq'[p])
        /\ OneTask(cmdq[p]) => OneTask(cmdq'[p])
    BY <1>b, <2>1, MessageTypes, TaskAppend DEF StatusMsg
  <2> QED
    BY <1>0, <2>1, <2>2 DEF OnTime
<1>6. CASE ReceiveReply
  <2>1. /\ pc = "recv" /\ command.pid \in Drivers /\ respq[command.pid] # <<>>
        /\ UNCHANGED <<cmdq, timeLeft, phase, reply>>
    BY <1>6 DEF ReceiveReply, driverVars, TypeOK, Command
  <2>2. CASE command.pid # p
    BY <1>6, <1>a, <1>b, <2>1, <2>2 DEF ReceiveReply, Passes, TypeOK
  <2>3. CASE command.pid = p
    <3>1. cmdq[p] = <<>>
      BY <1>0, <2>1, <2>3, AnswerExpected
    <3>2. NoTask(cmdq[p]) /\ OneTask(cmdq[p])
      BY <3>1 DEF NoTask, OneTask
    <3>3. /\ respq'[p] = Tail(respq[p])
          /\ status'[p] = IF Head(respq[p]).type = "MSG_BUSY"
                          THEN "DRIVER_BUSY" ELSE "DRIVER_AVAILABLE"
          /\ busyLeft'[p] = Head(respq[p]).task_time
      BY <1>6, <2>1, <2>3 DEF ReceiveReply, TypeOK
    <3>4. /\ Len(respq[p]) \in Nat \ {0} /\ Head(respq[p]) = respq[p][1]
          /\ Len(Tail(respq[p])) = Len(respq[p]) - 1
          /\ \A i \in 1 .. Len(Tail(respq[p])) : Tail(respq[p])[i] = respq[p][i + 1]
      BY <1>b, <2>1, <2>3, HeadTailProperties, EmptySeq
    <3>5. Honest(Head(respq[p]), timeLeft[p])
      BY <1>0, <3>4 DEF OnTime
    <3>6. status'[p] = "DRIVER_BUSY" => timeLeft[p] <= busyLeft'[p]
      BY <3>3, <3>5 DEF Honest
    <3>7. \A i \in 1 .. Len(Tail(respq[p])) : Honest(Tail(respq[p])[i], timeLeft[p])
      <4>1. \A i \in 1 .. Len(Tail(respq[p])) : i + 1 \in 1 .. Len(respq[p])
        BY <3>4
      <4> QED
        BY <1>0, <3>4, <4>1 DEF OnTime
    <3> QED
      BY <1>0, <2>1, <3>2, <3>3, <3>6, <3>7 DEF OnTime
  <2> QED
    BY <2>2, <2>3
<1>7. CASE TimeOut
  BY <1>a, <1>b, <1>7 DEF TimeOut, Passes, driverVars
<1>8. CASE OpenForTask
  BY <1>a, <1>b, <1>8 DEF OpenForTask, Passes, driverVars
<1>9. CASE SendTask
  <2> DEFINE m == [type |-> "MSG_TASK", task_time |-> command.time]
  <2>1. /\ pc = "sendTask" /\ command.pid \in Drivers /\ m \in CmdMsg
        /\ UNCHANGED <<status, busyLeft, respq, timeLeft, phase, reply>>
    BY <1>9 DEF SendTask, driverVars, TypeOK, Command, CmdMsg
  <2>2. CASE command.pid # p
    BY <1>9, <1>a, <1>b, <2>1, <2>2 DEF SendTask, Passes, TypeOK
  <2>3. CASE command.pid = p
    <3>1. status[p] = "DRIVER_AVAILABLE" /\ Free(p)
      BY <1>0, <2>1, <2>3 DEF GiveInv, AboutTo
    <3>2. cmdq'[p] = Append(cmdq[p], m)
      BY <1>9, <2>1, <2>3 DEF SendTask, TypeOK
    <3>3. OneTask(cmdq'[p])
      BY <1>b, <2>1, <3>1, <3>2, TaskAppend DEF Free
    <3> QED
      BY <1>0, <2>1, <3>1, <3>3 DEF OnTime, Free
  <2> QED
    BY <2>2, <2>3
<1>10. ASSUME NEW q \in Drivers, Startup(q) PROVE OnTime(p)'
  <2>1. \E from, to \in {"forked", "cmdReady", "respReady", "polling", "dead"} :
          StartupStep(q, from, to)
    BY <1>10 DEF Startup, CreateCmdQueue, CreateRespQueue, CreateTimer, StartupFails
  <2> QED
    BY <1>a, <1>b, <2>1 DEF StartupStep, Passes, TypeOK, cliVars
<1>11. ASSUME NEW q \in Drivers, TakeCommand(q) PROVE OnTime(p)'
  <2>1. /\ UNCHANGED <<status, busyLeft, respq>>
        /\ phase[q] = "polling" /\ cmdq[q] # <<>>
        /\ cmdq' = [cmdq EXCEPT ![q] = Tail(@)]
    BY <1>11 DEF TakeCommand, cliVars
  <2>2. CASE q # p
    <3>1. /\ phase'[p] = phase[p] /\ reply'[p] = reply[p]
          /\ timeLeft'[p] = timeLeft[p]
      BY <1>11, <2>2, ZenonT(30) DEF TakeCommand, AnswerStatus, StartTask, TypeOK
    <3> QED
      BY <1>a, <1>b, <2>1, <2>2, <3>1 DEF Passes, TypeOK
  <2>3. CASE q = p
    <3>1. cmdq'[p] = Tail(cmdq[p]) /\ respq'[p] = respq[p]
      BY <2>1, <2>3 DEF TypeOK
    <3>2. /\ NoTask(cmdq[p]) => NoTask(cmdq'[p]) /\ Head(cmdq[p]).type = "MSG_STATUS"
          /\ OneTask(cmdq'[p])
          /\ Head(cmdq[p]).type # "MSG_STATUS" => NoTask(cmdq'[p])
      BY <1>0, <1>b, <2>1, <2>3, <3>1, TaskTail DEF OnTime
    <3>3. CASE Head(cmdq[p]).type = "MSG_STATUS" /\ AnswerStatus(p)
      <4>1. timeLeft' = timeLeft
        BY <3>3 DEF AnswerStatus
      <4>2. Honest(reply'[p], timeLeft[p])
        <5>1. CASE dstatus[p] = "DRIVER_BUSY" /\ timeLeft[p] > 0
          <6>1. reply'[p] = [type |-> "MSG_BUSY", task_time |-> timeLeft[p]]
            BY <3>3, <5>1 DEF AnswerStatus, TypeOK
          <6> QED
            BY <1>b, <6>1 DEF Honest
        <5>2. CASE ~(dstatus[p] = "DRIVER_BUSY" /\ timeLeft[p] > 0)
          <6>1. reply'[p] = Available
            BY <3>3, <5>2 DEF AnswerStatus, TypeOK
          <6>2. timeLeft[p] = 0
            BY <1>b, <5>2 DEF IdleInv, TypeOK, Status
          <6> QED
            BY <6>1, <6>2 DEF Honest, Available
        <5> QED
          BY <5>1, <5>2
      <4> QED
        BY <1>0, <2>1, <3>1, <3>2, <4>1, <4>2 DEF OnTime
    <3>4. CASE Head(cmdq[p]).type = "MSG_TASK"
               /\ StartTask(p, Head(cmdq[p]).task_time)
      <4>1. respq[p] = <<>>
        BY <1>0, <2>1, <2>3, AnswerExpected
      <4>2. status[p] # "DRIVER_BUSY"
        BY <1>0, <3>2, <3>4 DEF OnTime
      <4>3. phase'[p] # "replying"
        BY <2>1, <2>3, <3>4 DEF StartTask
      <4>4. NoTask(cmdq'[p])
        BY <3>2, <3>4
      <4>5. Len(respq'[p]) = 0
        BY <3>1, <4>1
      <4>6. \A i \in 1 .. Len(respq'[p]) : FALSE
        BY <4>5
      <4> QED
        BY <2>1, <3>2, <4>2, <4>3, <4>4, <4>6 DEF OnTime
    <3> QED
      BY <1>11, <2>3, <3>3, <3>4 DEF TakeCommand
  <2> QED
    BY <2>2, <2>3
<1>12. ASSUME NEW q \in Drivers, SendReply(q) PROVE OnTime(p)'
  <2>1. /\ UNCHANGED <<status, busyLeft, cmdq, timeLeft>>
        /\ phase[q] = "replying" /\ phase' = [phase EXCEPT ![q] = "polling"]
        /\ respq' = [respq EXCEPT ![q] = Append(@, reply[q])]
        /\ reply' = [reply EXCEPT ![q] = Available]
    BY <1>12 DEF SendReply, cliVars
  <2>2. CASE q # p
    BY <1>a, <1>b, <2>1, <2>2 DEF Passes, TypeOK
  <2>3. CASE q = p
    <3>1. respq'[p] = Append(respq[p], reply[p]) /\ reply[p] \in ReplyMsg
          /\ phase'[p] = "polling"
      BY <2>1, <2>3 DEF TypeOK
    <3>2. /\ Len(respq[p]) \in Nat /\ Len(respq'[p]) = Len(respq[p]) + 1
          /\ \A i \in 1 .. Len(respq[p]) : respq'[p][i] = respq[p][i]
          /\ respq'[p][Len(respq[p]) + 1] = reply[p]
      BY <1>b, <3>1, AppendProperties, LenProperties
    <3>3. Honest(reply[p], timeLeft[p])
      BY <1>0, <2>1, <2>3 DEF OnTime
    <3>4. \A i \in 1 .. Len(respq'[p]) : i \in 1 .. Len(respq[p]) \/ i = Len(respq[p]) + 1
      BY <3>2
    <3>5. \A i \in 1 .. Len(respq'[p]) : Honest(respq'[p][i], timeLeft[p])
      BY <1>0, <3>2, <3>3, <3>4 DEF OnTime
    <3> QED
      BY <1>0, <2>1, <3>1, <3>5 DEF OnTime
  <2> QED
    BY <2>2, <2>3
<1>13. ASSUME NEW q \in Drivers, TimerBranch(q) \/ PollFails(q) \/ TimerExpires(q)
       PROVE  OnTime(p)'
  <2>1. CASE TimerBranch(q)
    <3>1. /\ UNCHANGED <<status, busyLeft, cmdq, respq, phase, reply>>
          /\ timeLeft' = [timeLeft EXCEPT ![q] = 0]
      BY <2>1 DEF TimerBranch, cliVars
    <3>2. timeLeft'[p] <= timeLeft[p]
      BY <1>b, <3>1 DEF TypeOK
    <3> QED
      BY <1>a, <3>1, <3>2 DEF Passes
  <2>2. CASE PollFails(q)
    BY <1>a, <1>b, <2>2 DEF PollFails, Passes, TypeOK, cliVars
  <2>3. CASE TimerExpires(q)
    BY <1>a, <1>b, <2>3 DEF TimerExpires, Passes, cliVars
  <2> QED
    BY <1>13, <2>1, <2>2, <2>3
<1>14. CASE Tick
  <2>1. timeLeft'[p] <= timeLeft[p]
    BY <1>b, <1>14 DEF Tick, NonNeg
  <2> QED
    BY <1>a, <1>14, <2>1 DEF Tick, Passes
<1>15. CASE UNCHANGED vars
  BY <1>a, <1>b, <1>15 DEF vars, cliVars, driverVars, Passes
<1> QED
  BY <1>1, <1>2, <1>3, <1>4, <1>5, <1>6, <1>7, <1>8, <1>9, <1>10, <1>11, <1>12,
     <1>13, <1>14, <1>15
  DEF Next, UserStep, CliStep, DriverLoop, GetStatus, TypeTask, GetDrivers

LEMMA IdleStep ==
  ASSUME TypeInv, QueueInv, IdleInv, [Next]_vars
  PROVE  IdleInv'
<1> USE DEF TypeInv
<1>a. ASSUME NEW p \in Drivers,
             dstatus'[p] = dstatus[p], timeLeft'[p] = timeLeft[p],
             Starting(p)' => Starting(p) \/ phase[p] = "none"
      PROVE  dstatus'[p] = "DRIVER_AVAILABLE" \/ Starting(p)' => timeLeft'[p] = 0
  BY <1>a DEF IdleInv, Starting
<1>1. ASSUME NEW q \in Drivers, CreateDriver(q) PROVE IdleInv'
  BY <1>1 DEF CreateDriver, IdleInv, Starting, TypeOK
<1>2. ASSUME UNCHANGED <<phase, dstatus, timeLeft>> PROVE IdleInv'
  BY <1>2 DEF IdleInv, Starting
<1>3. CASE EndOfInput \/ CliStep
  <2>1. UNCHANGED <<phase, dstatus, timeLeft>>
    BY <1>3 DEF EndOfInput, CliStep, OpenForStatus, SendStatus, ReceiveReply,
                TimeOut, OpenForTask, SendTask, driverVars
  <2> QED
    BY <1>2, <2>1
<1>4. ASSUME NEW q, NEW job, NEW t, NEW i, Begin(job, q, t, i) PROVE IdleInv'
  BY <1>2, <1>4 DEF Begin, driverVars
<1>5. ASSUME NEW q \in Drivers, Startup(q) PROVE IdleInv'
  <2>1. UNCHANGED <<dstatus, timeLeft>>
    BY <1>5 DEF Startup, CreateCmdQueue, CreateRespQueue, CreateTimer,
                StartupFails, StartupStep
  <2>2. \A p \in Drivers : Starting(p)' => Starting(p)
    BY <1>5 DEF Startup, CreateCmdQueue, CreateRespQueue, CreateTimer,
                StartupFails, StartupStep, Starting, TypeOK
  <2> QED
    BY <2>1, <2>2 DEF IdleInv
<1>6. ASSUME NEW q \in Drivers, TakeCommand(q) PROVE IdleInv'
  <2>1. phase[q] = "polling"
    BY <1>6 DEF TakeCommand
  <2>2. CASE AnswerStatus(q)
    <3>1. /\ UNCHANGED timeLeft /\ phase' = [phase EXCEPT ![q] = "replying"]
          /\ \A p \in Drivers : p # q => dstatus'[p] = dstatus[p]
      BY <2>2 DEF AnswerStatus, TypeOK
    <3>2. dstatus'[q] = "DRIVER_AVAILABLE" => timeLeft[q] = 0
      <4>1. CASE dstatus[q] = "DRIVER_BUSY" /\ timeLeft[q] > 0
        BY <2>2, <4>1 DEF AnswerStatus, TypeOK
      <4>2. CASE ~(dstatus[q] = "DRIVER_BUSY" /\ timeLeft[q] > 0)
        BY <4>2 DEF IdleInv, TypeOK, Status
      <4> QED
        BY <4>1, <4>2
    <3> QED
      BY <3>1, <3>2 DEF IdleInv, Starting, TypeOK
  <2>3. CASE StartTask(q, Head(cmdq[q]).task_time)
    <3>1. /\ phase' = phase /\ dstatus'[q] = "DRIVER_BUSY"
          /\ \A p \in Drivers : p # q => /\ dstatus'[p] = dstatus[p]
                                         /\ timeLeft'[p] = timeLeft[p]
      BY <2>3 DEF StartTask, TypeOK
    <3> QED
      BY <2>1, <3>1 DEF IdleInv, Starting
  <2> QED
    BY <1>6, <2>2, <2>3 DEF TakeCommand
<1>7. ASSUME NEW q \in Drivers, SendReply(q) PROVE IdleInv'
  BY <1>7 DEF SendReply, IdleInv, Starting, TypeOK
<1>8. ASSUME NEW q \in Drivers, TimerBranch(q) PROVE IdleInv'
  BY <1>8 DEF TimerBranch, IdleInv, Starting, TypeOK
<1>9. ASSUME NEW q \in Drivers, PollFails(q) PROVE IdleInv'
  BY <1>9 DEF PollFails, IdleInv, Starting, TypeOK
<1>10. ASSUME NEW q \in Drivers, TimerExpires(q) PROVE IdleInv'
  BY <1>2, <1>10 DEF TimerExpires
<1>11. CASE Tick
  BY <1>11 DEF Tick, NonNeg, IdleInv, Starting, TypeOK
<1>12. CASE UNCHANGED vars
  BY <1>2, <1>12 DEF vars, driverVars
<1> QED
  BY <1>1, <1>3, <1>4, <1>5, <1>6, <1>7, <1>8, <1>9, <1>10, <1>11, <1>12
  DEF Next, UserStep, DriverLoop, GetStatus, TypeTask, GetDrivers

\* Where the CLI goes on to the task when the status update returns, its copy
\* of the status says that the driver is available.
LEMMA ToTaskAvailable ==
  ASSUME UpdateReturns, pc' \in {"openTask", "sendTask"}, command \in Command,
         status'[command.pid] \in Status
  PROVE  /\ pc' = "openTask" /\ command' = command
         /\ status'[command.pid] = "DRIVER_AVAILABLE"
BY DEF UpdateReturns, ToPrompt, Status

LEMMA GiveStep ==
  ASSUME TypeInv, TypeInv', QueueInv, KnownInv, [Next]_vars
  PROVE  GiveInv'
<1> SUFFICES ASSUME NEW d \in Drivers, pc' \in {"openTask", "sendTask"},
                    command'.pid = d
             PROVE  /\ status'[d] = "DRIVER_AVAILABLE"
                    /\ AboutTo(d)' /\ Backlog(d)' = 0 => Free(d)'
  BY DEF GiveInv
<1> USE DEF TypeInv, KnownInv
<1> DEFINE Goal == /\ status'[d] = "DRIVER_AVAILABLE"
                   /\ AboutTo(d)' /\ Backlog(d)' = 0 => Free(d)'
<1>0. Backlog(d)' = 0 => Backlog(d) = 0
  BY LateStaysLate
<1>a. ASSUME pc \in {"openTask", "sendTask"}, UNCHANGED <<pc, command, status, fds>>,
             command.pid = d, AboutTo(d)' => AboutTo(d) \/ Free(d)',
             AboutTo(d) /\ Free(d) => Free(d)'
      PROVE  Goal
  BY <1>0, <1>a DEF GiveInv
<1>1. ASSUME pc \in {"openTask", "sendTask"},
             UNCHANGED <<pc, command, status, fds, names, cmdq>>,
             command.pid = d, timeLeft[d] = 0 => timeLeft'[d] = 0
      PROVE  Goal
  BY <1>a, <1>1 DEF AboutTo, CanOpen, Free
<1>2. CASE CliStep
  <2>1. command \in Command
    BY <1>2 DEF CliStep, OpenForStatus, SendStatus, ReceiveReply, TimeOut,
                OpenForTask, SendTask, TypeOK
  <2>2. status'[command.pid] \in Status
    BY <2>1 DEF TypeOK, Command
  <2>3. CASE OpenForStatus
    <3>1. /\ ~CanOpen(command.pid) /\ UNCHANGED fds /\ UpdateReturns
          /\ UNCHANGED names
      BY <2>3 DEF OpenForStatus, driverVars
    <3>2. /\ pc' = "openTask" /\ command.pid = d
          /\ status'[d] = "DRIVER_AVAILABLE"
      BY <2>1, <2>2, <3>1, ToTaskAvailable
    <3> QED
      BY <3>1, <3>2 DEF AboutTo, CanOpen
  <2>4. CASE ReceiveReply
    <3>1. /\ pc' = "openTask" /\ command.pid = d
          /\ status'[d] = "DRIVER_AVAILABLE"
      BY <2>1, <2>2, <2>4, ToTaskAvailable DEF ReceiveReply
    <3>2. ASSUME Backlog(d) = 0 PROVE Free(d)'
      <4>1. cmdq'[d] = <<>> /\ respq[d] # <<>> /\ timeLeft' = timeLeft
        BY <2>4, <3>1, <3>2, AnswerExpected DEF ReceiveReply, driverVars
      <4>2. /\ respq[d] \in Seq(ReplyMsg) /\ Head(respq[d]) = respq[d][1]
            /\ 1 \in 1 .. Len(respq[d])
        BY <2>1, <4>1, EmptySeq, LenProperties, HeadTailProperties DEF TypeOK
      <4>3. Honest(Head(respq[d]), timeLeft[d])
        BY <2>1, <3>2, <4>2 DEF OnTimeInv, OnTime
      <4>4. Head(respq[d]).type # "MSG_BUSY"
        BY <2>1, <2>4, <3>1 DEF ReceiveReply, TypeOK
      <4>5. timeLeft'[d] = 0
        BY <2>1, <4>1, <4>3, <4>4, SMTT(30) DEF Honest, TypeOK
      <4> QED
        BY <4>1, <4>5 DEF Free, NoTask
    <3> QED
      BY <1>0, <2>1, <3>1, <3>2
  <2>5. CASE TimeOut
    <3>1. /\ pc' = "openTask" /\ command.pid = d
          /\ status'[d] = "DRIVER_AVAILABLE"
      BY <2>1, <2>2, <2>5, ToTaskAvailable DEF TimeOut
    <3>2. Backlog(d)' # 0
      BY <2>5, <3>1, LateStaysLate
    <3> QED
      BY <3>1, <3>2
  <2>6. CASE OpenForTask
    <3>1. /\ pc = "openTask" /\ CanOpen(d) /\ command.pid = d
          /\ UNCHANGED <<status, timeLeft, cmdq>>
      BY <2>6 DEF OpenForTask, ToPrompt, driverVars
    <3> QED
      BY <1>0, <2>1, <3>1 DEF GiveInv, AboutTo, Free
  <2>7. CASE SendStatus \/ SendTask
    BY <2>7 DEF SendStatus, SendTask, ToPrompt
  <2> QED
    BY <1>2, <2>3, <2>4, <2>5, <2>6, <2>7 DEF CliStep
<1>3. CASE UserStep
  BY <1>3 DEF UserStep, CreateDriver, GetStatus, TypeTask, GetDrivers, Begin,
              EndOfInput
<1>b. ASSUME UNCHANGED cliVars
      PROVE  /\ pc \in {"openTask", "sendTask"} /\ command.pid = d
             /\ UNCHANGED <<pc, command, status, fds>>
  BY <1>b DEF cliVars
<1>4. ASSUME NEW q \in Drivers, Startup(q)
      PROVE  Goal
  <2>1. UNCHANGED cliVars /\ UNCHANGED <<timeLeft, cmdq>>
    BY <1>4 DEF Startup, CreateCmdQueue, CreateRespQueue, CreateTimer,
                StartupFails, StartupStep
  <2>2. names'[d] = {"cmd", "resp"} => names[d] = {"cmd", "resp"} \/ Starting(d)
    <3>1. q # d => names'[d] = names[d]
      BY <1>4 DEF Startup, CreateCmdQueue, CreateRespQueue, CreateTimer,
                  StartupFails, StartupStep, TypeOK
    <3>2. q = d => Starting(d) \/ names' = names
      BY <1>4 DEF Startup, CreateCmdQueue, CreateRespQueue, CreateTimer,
                  StartupFails, StartupStep, Starting
    <3> QED
      BY <3>1, <3>2
  <2>3. Starting(d) => Free(d)'
    BY <1>b, <2>1 DEF IdleInv, QueueInv, StartInv, Free, NoTask
  <2> QED
    BY <1>a, <1>b, <2>1, <2>2, <2>3 DEF AboutTo, CanOpen, Free
<1>5. ASSUME NEW q \in Drivers, TakeCommand(q)
      PROVE  Goal
  <2>1. /\ UNCHANGED cliVars /\ UNCHANGED names /\ cmdq[q] # <<>>
        /\ cmdq' = [cmdq EXCEPT ![q] = Tail(@)]
    BY <1>5 DEF TakeCommand
  <2>2. cmdq[d] \in Seq(CmdMsg)
    BY DEF TypeOK
  <2>3. ASSUME Free(d) PROVE Free(d)'
    <3>1. CASE q = d
      <4>1. /\ cmdq'[d] = Tail(cmdq[d]) /\ NoTask(Tail(cmdq[d]))
            /\ Head(cmdq[d]).type = "MSG_STATUS"
        BY <2>1, <2>2, <2>3, <3>1, TaskTail DEF Free, TypeOK
      <4>2. timeLeft' = timeLeft
        BY <1>5, <3>1, <4>1 DEF TakeCommand, AnswerStatus
      <4> QED
        BY <2>3, <4>1, <4>2 DEF Free
    <3>2. CASE q # d
      <4>1. cmdq'[d] = cmdq[d]
        BY <2>1, <2>2, <3>2 DEF TypeOK
      <4>2. timeLeft'[d] = timeLeft[d]
        BY <1>5, <2>2, <3>2 DEF TakeCommand, AnswerStatus, StartTask, TypeOK
      <4> QED
        BY <2>3, <4>1, <4>2 DEF Free
    <3> QED
      BY <3>1, <3>2
  <2> QED
    BY <1>a, <1>b, <2>1, <2>3 DEF AboutTo, CanOpen
<1>6. ASSUME NEW q \in Drivers, SendReply(q) \/ TimerBranch(q) \/ TimerExpires(q)
      PROVE  Goal
  <2>1. UNCHANGED cliVars /\ UNCHANGED <<names, cmdq>>
    BY <1>6 DEF SendReply, TimerBranch, TimerExpires
  <2>2. timeLeft' = timeLeft \/ timeLeft' = [timeLeft EXCEPT ![q] = 0]
    BY <1>6 DEF SendReply, TimerBranch, TimerExpires
  <2>3. timeLeft[d] = 0 => timeLeft'[d] = 0
    BY <1>b, <2>1, <2>2 DEF TypeOK
  <2> QED
    BY <1>1, <1>b, <2>1, <2>3
<1>7. ASSUME NEW q \in Drivers, PollFails(q)
      PROVE  Goal
  <2>1. UNCHANGED cliVars /\ UNCHANGED <<timeLeft, cmdq>>
        /\ names' = [names EXCEPT ![q] = {}]
    BY <1>7 DEF PollFails
  <2>2. names'[d] = {"cmd", "resp"} => names[d] = {"cmd", "resp"}
    BY <1>b, <2>1 DEF TypeOK
  <2> QED
    BY <1>a, <1>b, <2>1, <2>2 DEF AboutTo, CanOpen, Free
<1>8. CASE Tick
  <2>1. UNCHANGED <<pc, command, status, fds, names, cmdq>>
    BY <1>8 DEF Tick
  <2>2. command.pid = d /\ pc \in {"openTask", "sendTask"}
    BY <2>1
  <2>3. timeLeft[d] = 0 => timeLeft'[d] = 0
    BY <1>8, <2>2 DEF Tick, NonNeg
  <2> QED
    BY <1>1, <2>1, <2>2, <2>3
<1>9. CASE UNCHANGED vars
  <2>1. UNCHANGED <<pc, command, status, fds, names, cmdq, timeLeft>>
    BY <1>9 DEF vars, cliVars, driverVars
  <2> QED
    BY <1>1, <2>1
<1> QED
  BY <1>2, <1>3, <1>4, <1>5, <1>6, <1>7, <1>8, <1>9, <1>b
  DEF Next, DriverLoop

LEMMA KnownHolds == Spec => [](IInv /\ KnownInv)
<1>1. Init => IInv /\ KnownInv
  BY TypeInit, QueueInit, BoundInit, KnownInit DEF IInv
<1>2. IInv /\ KnownInv /\ [Next]_vars => (IInv /\ KnownInv)'
  <2> SUFFICES ASSUME IInv, KnownInv, [Next]_vars PROVE (IInv /\ KnownInv)'
    OBVIOUS
  <2>1. IInv' /\ TypeInv /\ TypeInv' /\ QueueInv
    BY TypeStep, QueueStep, BoundStep DEF IInv
  <2>2. IdleInv'
    BY <2>1, IdleStep DEF KnownInv
  <2>3. LateInv'
    BY <2>1, LateStaysLate DEF KnownInv, LateInv
  <2>4. OnTimeInv'
    BY <2>1, OnTimeStep DEF OnTimeInv
  <2>5. GiveInv'
    BY <2>1, GiveStep
  <2> QED
    BY <2>1, <2>2, <2>3, <2>4, <2>5 DEF KnownInv
<1> QED
  BY <1>1, <1>2, PTL DEF Spec

\* While no request to a driver is given up and not answered, the time left
\* that the CLI shows for it as busy is never less than the real one.
THEOREM ShownTimeIsUpperBound == Spec => []BusyLeftIsUpperBound
<1>1. KnownInv => BusyLeftIsUpperBound
  BY DEF KnownInv, OnTimeInv, OnTime, BusyLeftIsUpperBound
<1> QED
  BY <1>1, KnownHolds, PTL

\* While no request to it is given up and not answered, a driver at work takes
\* no other task: send_task found it available after its last task was over.
THEOREM OnlyLateTasksReplace == Spec => TaskReplacedOnlyWhenLate
<1>1. ASSUME IInv, KnownInv, NEW p \in Drivers, TakeCommand(p),
             Head(cmdq[p]).type = "MSG_TASK", timeLeft[p] > 0
      PROVE  Backlog(p) > 0
  <2>1. TypeInv /\ Backlog(p) >= 0 /\ Backlog(p) \in Int
    BY <1>1, BacklogParts, PartTypes DEF IInv, KnownInv, LateInv
  <2>2. cmdq[p] \in Seq(CmdMsg) /\ cmdq[p] # <<>>
    BY <1>1, <2>1 DEF TakeCommand, TypeInv, TypeOK
  <2>3. Backlog(p) = 0 => NoTask(cmdq[p])
    BY <1>1 DEF KnownInv, OnTimeInv, OnTime
  <2>4. ~NoTask(cmdq[p])
    BY <1>1, <2>2, TaskTail
  <2> QED
    BY <2>1, <2>3, <2>4
<1>2. IInv /\ KnownInv /\ [Next]_vars =>
        \A p \in Drivers :
          /\ TakeCommand(p)
          /\ Head(cmdq[p]).type = "MSG_TASK"
          /\ timeLeft[p] > 0
          => Backlog(p) > 0
  BY <1>1
<1> QED
  BY <1>2, KnownHolds, PTL DEF Spec, TaskReplacedOnlyWhenLate

-----------------------------------------------------------------------------
(***************************************************************************)
(* What holds when no driver leaves work waiting across a second.          *)
(***************************************************************************)

JobInv ==
  /\ pc = "prompt" => command = NoCommand
  /\ pc \in {"openTask", "sendTask"} => command.job = "send_task"
  /\ command.job = "send_task" => command.time \in TaskTimes

\* A driver in its loop has both its queues.
NameInv ==
  \A p \in Drivers :
    phase[p] \in {"respReady", "polling", "replying"} => names[p] = {"cmd", "resp"}

\* The timer does not fire before the task is over.
TimerInv ==
  \A p \in Drivers : /\ timer[p] = "expired" => timeLeft[p] = 0
                     /\ timer[p] = "armed" => timeLeft[p] <= due[p]

LEMMA UpdateReturnsJob ==
  ASSUME TypeOK, JobInv, command \in Command, UpdateReturns
  PROVE  JobInv'
<1>1. CASE command.job = "get_drivers"
  <2>1. CASE command.i < Len(drivers)
    <3>1. /\ pc' = "open"
          /\ command' = [command EXCEPT !.i = @ + 1, !.pid = drivers[command.i + 1]]
      BY <1>1, <2>1 DEF UpdateReturns
    <3>2. command'.job = "get_drivers"
      BY <1>1, <3>1 DEF Command
    <3> QED
      BY <3>1, <3>2 DEF JobInv
  <2>2. CASE ~(command.i < Len(drivers))
    BY <1>1, <2>2 DEF UpdateReturns, ToPrompt, JobInv, NoCommand
  <2> QED
    BY <2>1, <2>2
<1>2. CASE command.job # "get_drivers"
  BY <1>2 DEF UpdateReturns, ToPrompt, JobInv, NoCommand
<1> QED
  BY <1>1, <1>2

LEMMA JobStep == ASSUME TypeOK, JobInv, [Next]_vars PROVE JobInv'
<1>1. ASSUME UNCHANGED <<pc, command>> PROVE JobInv'
  BY <1>1 DEF JobInv
<1>2. ASSUME NEW q, NEW job, NEW t, NEW i, Begin(job, q, t, i),
             job = "send_task" => t \in TaskTimes
      PROVE  JobInv'
  <2>1. pc' = "open" /\ command' = [job |-> job, pid |-> q, time |-> t, i |-> i]
    BY <1>2 DEF Begin
  <2> QED
    BY <1>2, <2>1 DEF JobInv
<1>3. CASE UserStep
  <2>1. ASSUME NEW q \in Drivers, CreateDriver(q) PROVE JobInv'
    BY <1>1, <2>1 DEF CreateDriver
  <2>2. CASE EndOfInput
    BY <2>2 DEF EndOfInput, JobInv
  <2> QED
    BY <1>2, <1>3, <2>1, <2>2 DEF UserStep, GetStatus, TypeTask, GetDrivers
<1>4. CASE CliStep
  <2>1. command \in Command
    BY <1>4 DEF CliStep, OpenForStatus, SendStatus, ReceiveReply, TimeOut, OpenForTask, SendTask,
                TypeOK
  <2>2. CASE OpenForStatus
    <3>1. CASE UpdateReturns
      BY <2>1, <3>1, UpdateReturnsJob
    <3>2. CASE pc' = "send" /\ command' = command
      BY <3>2 DEF JobInv
    <3> QED
      BY <2>2, <3>1, <3>2 DEF OpenForStatus
  <2>3. CASE SendStatus
    BY <2>3 DEF SendStatus, JobInv
  <2>4. CASE ReceiveReply \/ TimeOut
    BY <2>1, <2>4, UpdateReturnsJob DEF ReceiveReply, TimeOut
  <2>5. CASE OpenForTask
    BY <2>5 DEF OpenForTask, ToPrompt, JobInv, NoCommand
  <2>6. CASE SendTask
    BY <2>6 DEF SendTask, ToPrompt, JobInv, NoCommand
  <2> QED
    BY <1>4, <2>2, <2>3, <2>4, <2>5, <2>6 DEF CliStep
<1>5. ASSUME NEW p \in Drivers, Startup(p) \/ DriverLoop(p) \/ PollFails(p) \/ TimerExpires(p)
      PROVE  JobInv'
  <2>1. UNCHANGED <<pc, command>>
    BY <1>5 DEF Startup, CreateCmdQueue, CreateRespQueue, CreateTimer, StartupFails, StartupStep,
                DriverLoop, TakeCommand, SendReply, TimerBranch, PollFails, TimerExpires, cliVars
  <2> QED
    BY <1>1, <2>1
<1>6. CASE Tick \/ UNCHANGED vars
  BY <1>1, <1>6 DEF Tick, vars, cliVars
<1> QED
  BY <1>3, <1>4, <1>5, <1>6 DEF Next

LEMMA NameStep == ASSUME TypeOK, NameInv, [Next]_vars PROVE NameInv'
<1>1. ASSUME UNCHANGED <<phase, names>> PROVE NameInv'
  BY <1>1 DEF NameInv
<1>2. CASE UserStep
  <2>1. ASSUME NEW q \in Drivers, CreateDriver(q) PROVE NameInv'
    BY <2>1 DEF CreateDriver, NameInv, TypeOK
  <2>2. ASSUME NEW q, NEW job, NEW t, NEW i, Begin(job, q, t, i) PROVE NameInv'
    BY <1>1, <2>2 DEF Begin, driverVars
  <2>3. CASE EndOfInput
    BY <1>1, <2>3 DEF EndOfInput, driverVars
  <2> QED
    BY <1>2, <2>1, <2>2, <2>3 DEF UserStep, GetStatus, TypeTask, GetDrivers
<1>3. CASE CliStep
  <2>1. UNCHANGED <<phase, names>>
    BY <1>3 DEF CliStep, OpenForStatus, SendStatus, ReceiveReply, TimeOut, OpenForTask, SendTask,
                driverVars
  <2> QED
    BY <1>1, <2>1
<1>4. ASSUME NEW p \in Drivers, Startup(p) PROVE NameInv'
  <2>1. CASE CreateCmdQueue(p)
    BY <2>1 DEF CreateCmdQueue, StartupStep, NameInv, TypeOK
  <2>2. CASE CreateRespQueue(p)
    BY <2>2 DEF CreateRespQueue, StartupStep, NameInv, TypeOK
  <2>3. CASE CreateTimer(p)
    BY <2>3 DEF CreateTimer, StartupStep, NameInv, TypeOK
  <2>4. CASE StartupFails(p)
    BY <2>4 DEF StartupFails, StartupStep, NameInv, TypeOK
  <2> QED
    BY <1>4, <2>1, <2>2, <2>3, <2>4 DEF Startup
<1>5. ASSUME NEW p \in Drivers, DriverLoop(p) PROVE NameInv'
  <2>1. /\ names' = names /\ phase[p] \in {"polling", "replying"}
        /\ \A q \in Drivers : phase'[q] = phase[q] \/ q = p
    BY <1>5 DEF DriverLoop, TakeCommand, AnswerStatus, StartTask, SendReply, TimerBranch, TypeOK
  <2> QED
    BY <2>1 DEF NameInv
<1>6. ASSUME NEW p \in Drivers, PollFails(p) PROVE NameInv'
  BY <1>6 DEF PollFails, NameInv, TypeOK
<1>7. ASSUME NEW p \in Drivers, TimerExpires(p) PROVE NameInv'
  BY <1>1, <1>7 DEF TimerExpires
<1>8. CASE Tick \/ UNCHANGED vars
  BY <1>1, <1>8 DEF Tick, vars, driverVars
<1> QED
  BY <1>2, <1>3, <1>4, <1>5, <1>6, <1>7, <1>8 DEF Next

LEMMA TimerStep == ASSUME TypeOK, TimerInv, [Next]_vars PROVE TimerInv'
<1>1. ASSUME UNCHANGED <<timer, timeLeft, due>> PROVE TimerInv'
  BY <1>1 DEF TimerInv
<1>2. CASE UserStep \/ CliStep
  <2>1. ASSUME NEW q, NEW job, NEW t, NEW i, Begin(job, q, t, i) PROVE TimerInv'
    BY <1>1, <2>1 DEF Begin, driverVars
  <2>2. ASSUME NEW q \in Drivers, CreateDriver(q) PROVE TimerInv'
    BY <1>1, <2>2 DEF CreateDriver
  <2>3. CASE EndOfInput \/ CliStep
    <3>1. UNCHANGED driverVars
      BY <2>3 DEF EndOfInput, CliStep, OpenForStatus, SendStatus, ReceiveReply, TimeOut,
                  OpenForTask, SendTask
    <3> QED
      BY <1>1, <3>1 DEF driverVars
  <2> QED
    BY <1>2, <2>1, <2>2, <2>3 DEF UserStep, GetStatus, TypeTask, GetDrivers
<1>3. ASSUME NEW p \in Drivers, Startup(p) PROVE TimerInv'
  <2>1. UNCHANGED <<timer, timeLeft, due>>
    BY <1>3 DEF Startup, CreateCmdQueue, CreateRespQueue, CreateTimer, StartupFails, StartupStep
  <2> QED
    BY <1>1, <2>1
<1>4. ASSUME NEW p \in Drivers, TakeCommand(p) PROVE TimerInv'
  <2>1. CASE AnswerStatus(p)
    BY <1>1, <2>1 DEF AnswerStatus
  <2>2. ASSUME NEW t \in Int, StartTask(p, t) PROVE TimerInv'
    <3>1. /\ timeLeft' = [timeLeft EXCEPT ![p] = NonNeg(t)]
          /\ timer' = [timer EXCEPT ![p] = IF t > 0 THEN "armed"
                                           ELSE IF t = 0 THEN "disarmed" ELSE timer[p]]
          /\ due' = [due EXCEPT ![p] = IF t < 0 THEN due[p] ELSE t]
      BY <2>2 DEF StartTask, SetTimer, TypeOK
    <3>2. due[p] \in Nat
      BY DEF TypeOK
    <3>3. /\ timer'[p] = "expired" => timeLeft'[p] = 0
          /\ timer'[p] = "armed" => timeLeft'[p] <= due'[p]
      <4>1. CASE t > 0
        BY <3>1, <4>1 DEF TypeOK, NonNeg
      <4>2. CASE t = 0
        BY <3>1, <4>2 DEF TypeOK, NonNeg
      <4>3. CASE t < 0
        BY <3>1, <3>2, <4>3 DEF TypeOK, NonNeg
      <4> QED
        BY <4>1, <4>2, <4>3
    <3>4. \A q \in Drivers : q # p => timeLeft'[q] = timeLeft[q] /\ timer'[q] = timer[q]
                                      /\ due'[q] = due[q]
      BY <3>1 DEF TypeOK
    <3> QED
      BY <3>3, <3>4 DEF TimerInv
  <2>3. Head(cmdq[p]).task_time \in Int
    <3>1. cmdq[p] \in Seq(CmdMsg) /\ cmdq[p] # <<>>
      BY <1>4 DEF TakeCommand, TypeOK
    <3>2. Head(cmdq[p]) \in CmdMsg
      BY <3>1, HeadTailProperties
    <3> QED
      BY <3>2 DEF CmdMsg
  <2> QED
    BY <1>4, <2>1, <2>2, <2>3 DEF TakeCommand
<1>5. ASSUME NEW p \in Drivers, SendReply(p) PROVE TimerInv'
  BY <1>1, <1>5 DEF SendReply
<1>6. ASSUME NEW p \in Drivers, TimerBranch(p) PROVE TimerInv'
  BY <1>6 DEF TimerBranch, TimerInv, TypeOK
<1>7. ASSUME NEW p \in Drivers, PollFails(p) PROVE TimerInv'
  BY <1>7 DEF PollFails, TimerInv, TypeOK
<1>8. ASSUME NEW p \in Drivers, TimerExpires(p) PROVE TimerInv'
  BY <1>8 DEF TimerExpires, TimerInv, TypeOK
<1>9. CASE Tick
  BY <1>9 DEF Tick, NonNeg, TimerInv, TypeOK
<1>10. CASE UNCHANGED vars
  BY <1>1, <1>10 DEF vars, driverVars
<1> QED
  BY <1>2, <1>3, <1>4, <1>5, <1>6, <1>7, <1>8, <1>9, <1>10 DEF Next, DriverLoop

\* Of a driver that lives no answer is late, and whoever has waited for one
\* across a second finds it in the queue.
PromptInv ==
  \A p \in Drivers :
    ~Dead(p) => /\ Backlog(p) = 0
                /\ pc = "recv" /\ command.pid = p /\ waited > 0 => respq[p] # <<>>

LEMMA DeadStaysDead ==
  ASSUME TypeOK, [Next]_vars, NEW p \in Drivers, Dead(p) PROVE Dead(p)'
<1>1. ASSUME UNCHANGED phase PROVE Dead(p)'
  BY <1>1 DEF Dead
<1>2. CASE UserStep \/ CliStep
  BY <1>2 DEF UserStep, CreateDriver, GetStatus, TypeTask, GetDrivers, Begin, EndOfInput, CliStep,
              OpenForStatus, SendStatus, ReceiveReply, TimeOut, OpenForTask, SendTask, driverVars,
              Dead, TypeOK
<1>3. ASSUME NEW q \in Drivers, Startup(q) \/ DriverLoop(q) \/ PollFails(q) \/ TimerExpires(q)
      PROVE  Dead(p)'
  BY <1>3 DEF Startup, CreateCmdQueue, CreateRespQueue, CreateTimer, StartupFails, StartupStep,
              DriverLoop, TakeCommand, AnswerStatus, StartTask, SendReply, TimerBranch, PollFails,
              TimerExpires, Dead, TypeOK
<1>4. CASE Tick \/ UNCHANGED vars
  BY <1>1, <1>4 DEF Tick, vars, driverVars
<1> QED
  BY <1>2, <1>3, <1>4 DEF Next

\* Nobody waits across a second for a punctual driver that has not answered.
LEMMA PunctualAnswers ==
  ASSUME Punctual, TypeInv, QueueInv, Tick, NEW p \in Drivers, ~Dead(p), Backlog(p) = 0,
         pc = "recv", command.pid = p
  PROVE  respq[p] # <<>>
<1> SUFFICES ASSUME respq[p] = <<>> PROVE FALSE
  OBVIOUS
<1>1. ~HasWork(p)
  BY DEF Tick
<1>2. Waiting(p) = 1 /\ Len(respq[p]) = 0
  BY DEF Waiting
<1>3. Requests(cmdq[p]) \in Nat /\ InHand(p) \in 0 .. 1
  BY PartTypes
<1>4. Requests(cmdq[p]) + InHand(p) = 1
  BY <1>2, <1>3, BacklogParts
<1>5. phase[p] # "replying"
  BY <1>1, <1>2, TaxiAssumption DEF HasWork
<1>6. Requests(cmdq[p]) # 0
  BY <1>4, <1>5 DEF InHand
<1>7. cmdq[p] # <<>>
  <2>1. StatusIn(<<>>) = {}
    BY DEF StatusIn
  <2>2. Requests(<<>>) = 0
    BY <2>1, FS_EmptySet DEF Requests
  <2> QED
    BY <1>6, <2>2
<1>8. phase[p] \in {"respReady", "polling"}
  BY <1>5 DEF QueueInv, TalkInv, Starting, TypeInv, TypeOK, Phases, Dead
<1> QED
  BY <1>1, <1>7, <1>8 DEF HasWork

LEMMA PromptStep ==
  ASSUME Punctual, TypeInv, QueueInv, PromptInv, [Next]_vars PROVE PromptInv'
<1> SUFFICES ASSUME NEW p \in Drivers, ~Dead(p)'
             PROVE  /\ Backlog(p)' = 0
                    /\ pc' = "recv" /\ command'.pid = p /\ waited' > 0 => respq'[p] # <<>>
  BY DEF PromptInv
<1>0. /\ TypeOK /\ ~Dead(p) /\ Backlog(p) = 0
      /\ pc = "recv" /\ command.pid = p /\ waited > 0 => respq[p] # <<>>
  BY DeadStaysDead DEF PromptInv, TypeInv
<1>1. ~(TimeOut /\ command.pid = p)
  BY <1>0, TimeOutChangesWaited DEF TimeOut
<1>2. Backlog(p)' = 0
  BY <1>0, <1>1, BacklogStep
<1>3. ASSUME pc' = "recv", command'.pid = p, waited' > 0 PROVE respq'[p] # <<>>
  <2>1. ASSUME UNCHANGED <<pc, command, waited>>, respq'[p] = respq[p] PROVE respq'[p] # <<>>
    BY <1>0, <1>3, <2>1
  <2>2. CASE UserStep
    <3>1. ASSUME NEW q \in Drivers, CreateDriver(q) PROVE respq'[p] # <<>>
      BY <2>1, <3>1 DEF CreateDriver
    <3>2. ~EndOfInput /\ ~GetDrivers /\ \A q \in Drivers : ~GetStatus(q)
      BY <1>3 DEF EndOfInput, GetDrivers, GetStatus, Begin
    <3>3. \A q \in Drivers, t \in TaskTimes : ~TypeTask(q, t)
      BY <1>3 DEF TypeTask, Begin
    <3> QED
      BY <2>2, <3>1, <3>2, <3>3 DEF UserStep
  <2>3. CASE CliStep
    <3>1. ~SendStatus
      BY <1>3 DEF SendStatus
    <3>2. ~UpdateReturns
      BY <1>3 DEF UpdateReturns, ToPrompt
    <3>3. ~ReceiveReply /\ ~TimeOut
      BY <3>2 DEF ReceiveReply, TimeOut
    <3>4. ~OpenForStatus
      BY <1>3, <3>2 DEF OpenForStatus
    <3>5. ~OpenForTask /\ ~SendTask
      BY <1>3 DEF OpenForTask, SendTask, ToPrompt
    <3> QED
      BY <2>3, <3>1, <3>3, <3>4, <3>5 DEF CliStep
  <2>4. ASSUME NEW q \in Drivers, Startup(q) \/ PollFails(q) \/ TimerExpires(q)
        PROVE  respq'[p] # <<>>
    <3>1. UNCHANGED <<pc, command, waited, respq>>
      BY <2>4 DEF Startup, CreateCmdQueue, CreateRespQueue, CreateTimer, StartupFails,
                  StartupStep, PollFails, TimerExpires, cliVars
    <3> QED
      BY <2>1, <3>1
  <2>5. ASSUME NEW q \in Drivers, TakeCommand(q) \/ TimerBranch(q) PROVE respq'[p] # <<>>
    BY <2>1, <2>5 DEF TakeCommand, TimerBranch, cliVars
  <2>6. ASSUME NEW q \in Drivers, SendReply(q) PROVE respq'[p] # <<>>
    <3>1. UNCHANGED <<pc, command, waited>> /\ respq' = [respq EXCEPT ![q] = Append(@, reply[q])]
      BY <2>6 DEF SendReply, cliVars
    <3>2. CASE q = p
      <4>1. respq[p] \in Seq(ReplyMsg) /\ reply[p] \in ReplyMsg
        BY <1>0 DEF TypeOK
      <4>2. respq'[p] = Append(respq[p], reply[p])
        BY <1>0, <3>1, <3>2 DEF TypeOK
      <4> QED
        BY <4>1, <4>2, AppendProperties
    <3>3. CASE q # p
      BY <1>0, <2>1, <3>1, <3>3 DEF TypeOK
    <3> QED
      BY <3>2, <3>3
  <2>7. CASE Tick
    <3>1. pc = "recv" /\ command.pid = p /\ respq'[p] = respq[p]
      BY <1>3, <2>7 DEF Tick
    <3> QED
      BY <1>0, <2>7, <3>1, PunctualAnswers
  <2>8. CASE UNCHANGED vars
    BY <2>1, <2>8 DEF vars, cliVars
  <2> QED
    BY <2>2, <2>3, <2>4, <2>5, <2>6, <2>7, <2>8 DEF Next, DriverLoop
<1> QED
  BY <1>2, <1>3

\* What the two theorems about punctual drivers rest on.
PunctualInv == IInv /\ KnownInv /\ JobInv /\ NameInv /\ TimerInv /\ PromptInv

LEMMA PunctualHolds == ASSUME Punctual PROVE Spec => []PunctualInv
<1>1. Init => JobInv /\ NameInv /\ TimerInv /\ PromptInv
  <2> SUFFICES ASSUME Init PROVE JobInv /\ NameInv /\ TimerInv /\ PromptInv
    OBVIOUS
  <2>1. JobInv /\ NameInv /\ TimerInv
    BY DEF Init, JobInv, NoCommand, NameInv, TimerInv
  <2>2. \A p \in Drivers : Backlog(p) = 0
    <3> SUFFICES ASSUME NEW p \in Drivers PROVE Backlog(p) = 0
      OBVIOUS
    <3>1. StatusIn(<<>>) = {}
      BY DEF StatusIn
    <3>2. Requests(<<>>) = 0
      BY <3>1, FS_EmptySet DEF Requests
    <3>3. cmdq[p] = <<>> /\ Len(respq[p]) = 0 /\ InHand(p) = 0 /\ Waiting(p) = 0
      BY DEF Init, InHand, Waiting
    <3> QED
      BY <3>2, <3>3, BacklogParts
  <2>3. PromptInv
    BY <2>2 DEF PromptInv, Init
  <2> QED
    BY <2>1, <2>3
<1>2. IInv /\ JobInv /\ NameInv /\ TimerInv /\ PromptInv /\ [Next]_vars
        => (JobInv /\ NameInv /\ TimerInv /\ PromptInv)'
  BY JobStep, NameStep, TimerStep, PromptStep DEF IInv, TypeInv
<1> QED
  BY <1>1, <1>2, KnownHolds, PTL DEF Spec, PunctualInv

\* With punctual drivers get_status and get_drivers show every driver that is
\* working as busy, as long as two descriptors can be had.
THEOREM BusyIsShownHolds == ASSUME Punctual PROVE Spec => BusyIsShown
<1>1. ASSUME PunctualInv, [Next]_vars,
             command.job \in {"get_status", "get_drivers"}, command' # command,
             fds + 2 <= FdLimit, phase[command.pid] \notin {"dead", "forked", "cmdReady"},
             timeLeft[command.pid] > 0
      PROVE  status'[command.pid] = "DRIVER_BUSY"
  <2> DEFINE p == command.pid
  <2>1. TypeInv /\ TypeOK /\ QueueInv /\ KnownInv /\ JobInv /\ NameInv /\ PromptInv
    BY <1>1 DEF PunctualInv, IInv, TypeInv
  <2>2. command \in Command /\ p \in Drivers
    BY <1>1, <2>1 DEF TypeOK, NoCommand, Command
  <2>3. pc \notin {"prompt", "openTask", "sendTask"}
    BY <1>1, <2>1 DEF JobInv, NoCommand
  <2>4. phase[p] \in {"respReady", "polling", "replying"}
    BY <1>1, <2>1, <2>2 DEF TypeOK, Phases, KnownInv, IdleInv, Starting
  <2>5. CanOpen(p)
    BY <1>1, <2>1, <2>2, <2>4 DEF NameInv, CanOpen
  <2>6. Backlog(p) = 0 /\ (pc = "recv" /\ waited > 0 => respq[p] # <<>>) /\ OnTime(p)
    BY <2>1, <2>2, <2>4 DEF PromptInv, Dead, KnownInv, OnTimeInv
  <2>7. ReceiveReply
    <3>1. ~UserStep
      BY <1>1, <2>3 DEF UserStep, CreateDriver, GetStatus, TypeTask, GetDrivers, Begin, EndOfInput
    <3>2. ASSUME NEW q \in Drivers
          PROVE  ~(Startup(q) \/ DriverLoop(q) \/ PollFails(q) \/ TimerExpires(q))
      BY <1>1 DEF Startup, CreateCmdQueue, CreateRespQueue, CreateTimer, StartupFails,
                  StartupStep, DriverLoop, TakeCommand, SendReply, TimerBranch, PollFails,
                  TimerExpires, cliVars
    <3>3. ~Tick /\ ~UNCHANGED vars
      BY <1>1 DEF Tick, vars, cliVars
    <3>4. CliStep
      BY <1>1, <3>1, <3>2, <3>3 DEF Next
    <3>5. ~OpenForStatus /\ ~SendStatus /\ ~OpenForTask /\ ~SendTask
      BY <1>1, <2>3, <2>5 DEF OpenForStatus, SendStatus, OpenForTask, SendTask
    <3>6. ~TimeOut
      BY <2>6, TimeOutChangesWaited DEF TimeOut
    <3> QED
      BY <3>4, <3>5, <3>6 DEF CliStep
  <2>8. respq[p] # <<>> /\ status'[p] = IF Head(respq[p]).type = "MSG_BUSY"
                                        THEN "DRIVER_BUSY" ELSE "DRIVER_AVAILABLE"
    BY <2>1, <2>2, <2>7 DEF ReceiveReply, TypeOK
  <2>9. Head(respq[p]) = respq[p][1] /\ 1 \in 1 .. Len(respq[p])
    <3>1. respq[p] \in Seq(ReplyMsg)
      BY <2>1, <2>2 DEF TypeOK
    <3>2. Len(respq[p]) \in Nat /\ Len(respq[p]) # 0
      BY <2>8, <3>1, LenProperties, EmptySeq
    <3> QED
      BY <2>8, <3>1, <3>2, HeadTailProperties
  <2>10. Honest(Head(respq[p]), timeLeft[p])
    BY <2>6, <2>9 DEF OnTime
  <2>11. Head(respq[p]).type = "MSG_BUSY"
    BY <1>1, <2>1, <2>2, <2>10 DEF Honest, TypeOK
  <2> QED
    BY <2>8, <2>11
<1>2. PunctualInv /\ [Next]_vars =>
        (/\ command.job \in {"get_status", "get_drivers"}
         /\ command' # command
         /\ fds + 2 <= FdLimit
         /\ phase[command.pid] \notin {"dead", "forked", "cmdReady"}
         /\ timeLeft[command.pid] > 0
         => status'[command.pid] = "DRIVER_BUSY")
  BY <1>1
<1> QED
  BY <1>2, PunctualHolds, PTL DEF Spec, BusyIsShown

-----------------------------------------------------------------------------
(***************************************************************************)
(* Taxi implements Dispatch: every step of the dispatcher is a step of the *)
(* promise or a stutter.                                                   *)
(***************************************************************************)

LEMMA TasksOf ==
  ASSUME NEW q \in Seq(CmdMsg)
  PROVE  /\ NoTask(q) <=> TasksIn(q) = {}
         /\ OneTask(q) => \A i \in TasksIn(q) : TasksIn(q) = {i}
<1>1. DOMAIN q = 1 .. Len(q) /\ \A i \in 1 .. Len(q) : q[i] \in CmdMsg
  BY LenProperties, ElementOfSeq
<1>2. \A i \in 1 .. Len(q) : q[i].type = "MSG_TASK" <=> q[i].type # "MSG_STATUS"
  BY <1>1 DEF CmdMsg
<1> QED
  BY <1>1, <1>2 DEF NoTask, OneTask, TasksIn

\* What a message behind the others does to the task in a queue, and what the
\* loss of the first one.
LEMMA TaskKept ==
  ASSUME NEW q \in Seq(CmdMsg), NEW m \in CmdMsg
  PROVE  /\ \A i \in TasksIn(q) : i \in TasksIn(Append(q, m)) /\ Append(q, m)[i] = q[i]
         /\ m.type = "MSG_TASK" => /\ Len(q) + 1 \in TasksIn(Append(q, m))
                                   /\ Append(q, m)[Len(q) + 1] = m
<1>1. /\ Len(q) \in Nat /\ DOMAIN q = 1 .. Len(q)
      /\ Append(q, m) \in Seq(CmdMsg) /\ Len(Append(q, m)) = Len(q) + 1
      /\ \A i \in 1 .. Len(q) : Append(q, m)[i] = q[i]
      /\ Append(q, m)[Len(q) + 1] = m
  BY AppendProperties, LenProperties
<1>2. DOMAIN Append(q, m) = 1 .. Len(q) + 1
  BY <1>1, LenProperties
<1>3. ASSUME NEW i \in TasksIn(q)
      PROVE  i \in TasksIn(Append(q, m)) /\ Append(q, m)[i] = q[i]
  <2>1. i \in 1 .. Len(q) /\ q[i].type = "MSG_TASK" /\ i \in 1 .. Len(q) + 1
    BY <1>1 DEF TasksIn
  <2> QED
    BY <1>1, <1>2, <2>1 DEF TasksIn
<1>4. m.type = "MSG_TASK" => Len(q) + 1 \in TasksIn(Append(q, m))
  <2>1. Len(q) + 1 \in 1 .. Len(q) + 1
    BY <1>1
  <2> QED
    BY <1>1, <1>2, <2>1 DEF TasksIn
<1> QED
  BY <1>1, <1>3, <1>4

LEMMA TaskShifts ==
  ASSUME NEW q \in Seq(CmdMsg), q # <<>>
  PROVE  /\ Head(q).type = "MSG_TASK" => 1 \in TasksIn(q) /\ Head(q) = q[1]
         /\ Head(q).type = "MSG_STATUS" =>
              \A i \in TasksIn(q) : i - 1 \in TasksIn(Tail(q)) /\ Tail(q)[i - 1] = q[i]
<1>1. /\ Len(q) \in Nat \ {0} /\ Head(q) = q[1] /\ DOMAIN q = 1 .. Len(q)
      /\ Tail(q) \in Seq(CmdMsg) /\ Len(Tail(q)) = Len(q) - 1
      /\ \A i \in 1 .. Len(Tail(q)) : Tail(q)[i] = q[i + 1]
  BY HeadTailProperties, LenProperties, EmptySeq
<1>2. DOMAIN Tail(q) = 1 .. Len(q) - 1 /\ 1 \in 1 .. Len(q)
  BY <1>1, LenProperties
<1>3. ASSUME Head(q).type = "MSG_STATUS", NEW i \in TasksIn(q)
      PROVE  i - 1 \in TasksIn(Tail(q)) /\ Tail(q)[i - 1] = q[i]
  <2>1. i \in 1 .. Len(q) /\ i # 1 /\ q[i].type = "MSG_TASK"
    BY <1>1, <1>3 DEF TasksIn
  <2>2. i - 1 \in 1 .. Len(q) - 1 /\ (i - 1) + 1 = i
    BY <1>1, <2>1
  <2>3. Tail(q)[i - 1] = q[i]
    BY <1>1, <2>2
  <2> QED
    BY <1>2, <2>1, <2>2, <2>3 DEF TasksIn
<1>4. Head(q).type = "MSG_TASK" => 1 \in TasksIn(q)
  BY <1>1, <1>2 DEF TasksIn
<1> QED
  BY <1>1, <1>3, <1>4

\* What the promise sees of a driver, by what is in its command queue.
LEMMA GoneView ==
  /\ \A p \in Drivers : Dead(p) => Job(p) = "gone" /\ SecondsLeft(p) = 0
  /\ \A p \in Drivers : Dead(p)' => Job(p)' = "gone" /\ SecondsLeft(p)' = 0
BY DEF Job, SecondsLeft

LEMMA AssignedView ==
  ASSUME NEW p \in Drivers, NEW i
  PROVE  /\ ~Dead(p) /\ TasksIn(cmdq[p]) = {i} =>
              Job(p) = "assigned" /\ SecondsLeft(p) = cmdq[p][i].task_time
         /\ ~Dead(p)' /\ TasksIn(cmdq'[p]) = {i} =>
              Job(p)' = "assigned" /\ SecondsLeft(p)' = cmdq'[p][i].task_time
<1>1. (CHOOSE j \in {i} : TRUE) = i
  OBVIOUS
<1>2. {i} # {}
  OBVIOUS
<1>3. ASSUME ~Dead(p), TasksIn(cmdq[p]) = {i}
      PROVE  Job(p) = "assigned" /\ SecondsLeft(p) = cmdq[p][i].task_time
  BY <1>1, <1>2, <1>3 DEF Job, SecondsLeft
<1>4. ASSUME ~Dead(p)', TasksIn(cmdq'[p]) = {i}
      PROVE  Job(p)' = "assigned" /\ SecondsLeft(p)' = cmdq'[p][i].task_time
  BY <1>1, <1>2, <1>4 DEF Job, SecondsLeft
<1> QED
  BY <1>3, <1>4

LEMMA OwnView ==
  ASSUME NEW p \in Drivers
  PROVE  /\ ~Dead(p) /\ TasksIn(cmdq[p]) = {} =>
              /\ Job(p) = IF timeLeft[p] > 0 THEN "working" ELSE "idle"
              /\ SecondsLeft(p) = timeLeft[p]
         /\ ~Dead(p)' /\ TasksIn(cmdq'[p]) = {} =>
              /\ Job(p)' = IF timeLeft'[p] > 0 THEN "working" ELSE "idle"
              /\ SecondsLeft(p)' = timeLeft'[p]
BY DEF Job, SecondsLeft

\* The promise sees nothing of p change.
SameView(p) == Job(p)' = Job(p) /\ SecondsLeft(p)' = SecondsLeft(p)

LEMMA UnseenView ==
  ASSUME NEW p \in Drivers, Dead(p)' <=> Dead(p), cmdq'[p] = cmdq[p],
         Dead(p) \/ timeLeft'[p] = timeLeft[p]
  PROVE  SameView(p)
BY DEF SameView, Job, SecondsLeft

LEMMA AllSameView ==
  ASSUME \A p \in Drivers : SameView(p) PROVE UNCHANGED Promise!vars
BY DEF SameView, Promise!vars

LEMMA OneSeen ==
  ASSUME NEW p \in Drivers, \A q \in Drivers \ {p} : SameView(q)
  PROVE  /\ [q \in Drivers |-> Job(q)]' = [[q \in Drivers |-> Job(q)] EXCEPT ![p] = Job(p)']
         /\ [q \in Drivers |-> SecondsLeft(q)]'
              = [[q \in Drivers |-> SecondsLeft(q)] EXCEPT ![p] = SecondsLeft(p)']
BY DEF SameView

\* What is known of a driver that lives.
LEMMA AliveKnows ==
  ASSUME PunctualInv, NEW p \in Drivers, ~Dead(p)
  PROVE  /\ OneTask(cmdq[p])
         /\ timeLeft[p] > 0 => TasksIn(cmdq[p]) = {}
         /\ Backlog(p) = 0
<1>1. cmdq[p] \in Seq(CmdMsg)
  BY DEF PunctualInv, IInv, TypeInv, TypeOK
<1>2. Backlog(p) = 0
  BY DEF PunctualInv, PromptInv
<1>3. OnTime(p)
  BY <1>2 DEF PunctualInv, KnownInv, OnTimeInv
<1> QED
  BY <1>1, <1>2, <1>3, TasksOf DEF OnTime

LEMMA LivesOn ==
  ASSUME TypeOK, [Next]_vars, NEW p \in Drivers, ~Dead(p)' PROVE ~Dead(p)
BY DeadStaysDead

LEMMA StatusSentView ==
  ASSUME PunctualInv, SendStatus PROVE UNCHANGED Promise!vars
<1>1. TypeOK /\ command \in Command
  BY DEF PunctualInv, IInv, TypeInv, TypeOK, SendStatus
<1> PICK p \in Drivers : command.pid = p
  BY <1>1 DEF Command
<1>2. cmdq[p] \in Seq(CmdMsg)
  BY <1>1 DEF TypeOK
<1>3. /\ cmdq'[p] = Append(cmdq[p], StatusMsg)
      /\ \A q \in Drivers \ {p} : cmdq'[q] = cmdq[q]
      /\ UNCHANGED <<phase, timeLeft>>
  BY <1>1, <1>2 DEF SendStatus, driverVars, TypeOK
<1>4. \A q \in Drivers \ {p} : SameView(q)
  BY <1>3, UnseenView DEF Dead
<1>5. SameView(p)
  <2>1. CASE Dead(p)
    BY <1>2, <1>3, <2>1, GoneView DEF SameView, Dead
  <2>2. CASE ~Dead(p)
    <3> ~Dead(p)'
      BY <1>3, <2>2 DEF Dead
    <3>1. StatusMsg \in CmdMsg /\ StatusMsg.type = "MSG_STATUS"
      BY MessageTypes DEF StatusMsg
    <3>2. OneTask(cmdq[p]) /\ Append(cmdq[p], StatusMsg) \in Seq(CmdMsg)
      BY <1>2, <2>2, <3>1, AliveKnows, AppendProperties
    <3>3. OneTask(cmdq'[p]) /\ (NoTask(cmdq[p]) => NoTask(cmdq'[p]))
      BY <1>2, <1>3, <3>1, <3>2, TaskAppend
    <3>4. CASE TasksIn(cmdq[p]) = {}
      <4>1. TasksIn(cmdq'[p]) = {}
        BY <1>2, <1>3, <3>2, <3>3, <3>4, TasksOf
      <4> QED
        BY <1>2, <1>3, <2>2, <3>4, <4>1, OwnView DEF SameView
    <3>5. ASSUME NEW i \in TasksIn(cmdq[p]) PROVE SameView(p)
      <4>0. /\ i \in TasksIn(Append(cmdq[p], StatusMsg))
            /\ Append(cmdq[p], StatusMsg)[i] = cmdq[p][i]
        BY <1>2, <3>1, TaskKept
      <4>1. i \in TasksIn(cmdq'[p]) /\ cmdq'[p][i] = cmdq[p][i]
        BY <1>3, <4>0
      <4>2. TasksIn(cmdq'[p]) = {i} /\ TasksIn(cmdq[p]) = {i}
        BY <1>2, <1>3, <3>2, <3>3, <4>1, TasksOf
      <4> QED
        BY <1>2, <2>2, <4>1, <4>2, AssignedView DEF SameView
    <3> QED
      BY <3>4, <3>5
  <2> QED
    BY <2>1, <2>2
<1> QED
  BY <1>4, <1>5, AllSameView

LEMMA TaskSentView ==
  ASSUME PunctualInv, SendTask
  PROVE  UNCHANGED Promise!vars \/ \E p \in Drivers : Promise!Assign(p)
<1>1. TypeOK /\ command \in Command
  BY DEF PunctualInv, IInv, TypeInv, TypeOK, SendTask
<1> PICK p \in Drivers : command.pid = p
  BY <1>1 DEF Command
<1> PICK t \in Int : command.time = t
  BY <1>1 DEF Command
<1> DEFINE m == [type |-> "MSG_TASK", task_time |-> t]
<1>2. cmdq[p] \in Seq(CmdMsg)
  BY <1>1 DEF TypeOK
<1>3. /\ cmdq'[p] = Append(cmdq[p], m)
      /\ \A q \in Drivers \ {p} : cmdq'[q] = cmdq[q]
      /\ UNCHANGED <<phase, timeLeft>>
  BY <1>1, <1>2 DEF SendTask, driverVars, TypeOK
<1>4. \A q \in Drivers \ {p} : SameView(q)
  BY <1>3, UnseenView DEF Dead
<1>5. CASE Dead(p)
  <2>1. SameView(p)
    BY <1>2, <1>3, <1>5, GoneView DEF SameView, Dead
  <2> QED
    BY <1>4, <2>1, AllSameView
<1>6. CASE ~Dead(p)
  <2> ~Dead(p)'
    BY <1>3, <1>6 DEF Dead
  <2>1. m \in CmdMsg /\ m.type = "MSG_TASK" /\ m.task_time = t
    BY <1>2 DEF CmdMsg
  <2>2. pc = "sendTask" /\ Backlog(p) = 0
    BY <1>2, <1>6, AliveKnows DEF SendTask
  <2>3. Free(p)
    BY <1>2, <2>2 DEF PunctualInv, KnownInv, GiveInv, AboutTo
  <2>4. Job(p) = "idle"
    <3>1. TasksIn(cmdq[p]) = {} /\ timeLeft[p] = 0
      BY <1>2, <2>3, TasksOf DEF Free
    <3> QED
      BY <1>2, <1>6, <3>1, OwnView
  <2>5. OneTask(cmdq[p]) /\ OneTask(cmdq'[p]) /\ cmdq'[p] \in Seq(CmdMsg)
    <3>1. OneTask(cmdq[p])
      BY <1>2, <1>6, AliveKnows
    <3> QED
      BY <1>2, <1>3, <2>1, <2>3, <3>1, TaskAppend, AppendProperties DEF Free
  <2>6. Job(p)' = "assigned" /\ SecondsLeft(p)' = t
    <3> DEFINE i == Len(cmdq[p]) + 1
    <3>1. i \in TasksIn(cmdq'[p]) /\ cmdq'[p][i] = m
      BY <1>2, <1>3, <2>1, <2>5, TaskKept
    <3>2. TasksIn(cmdq'[p]) = {i}
      BY <2>5, <3>1, TasksOf
    <3> QED
      BY <1>2, <2>1, <3>1, <3>2, AssignedView
  <2>7. t \in TaskTimes
    BY <2>2 DEF PunctualInv, JobInv
  <2>8. Promise!Assign(p)
    BY <1>2, <1>4, <2>4, <2>6, <2>7, OneSeen DEF Promise!Assign
  <2> QED
    BY <1>2, <2>8
<1> QED
  BY <1>5, <1>6

LEMMA CommandTakenView ==
  ASSUME PunctualInv, NEW p \in Drivers, TakeCommand(p)
  PROVE  UNCHANGED Promise!vars \/ Promise!Start(p)
<1>1. TypeOK /\ cmdq[p] \in Seq(CmdMsg) /\ cmdq[p] # <<>> /\ timeLeft[p] \in Nat
  BY DEF PunctualInv, IInv, TypeInv, TypeOK, TakeCommand
<1>2. /\ cmdq'[p] = Tail(cmdq[p]) /\ Tail(cmdq[p]) \in Seq(CmdMsg)
      /\ \A q \in Drivers \ {p} : cmdq'[q] = cmdq[q]
      /\ ~Dead(p) /\ ~Dead(p)'
      /\ \A q \in Drivers \ {p} : phase'[q] = phase[q] /\ timeLeft'[q] = timeLeft[q]
  BY <1>1, HeadTailProperties
  DEF TakeCommand, AnswerStatus, StartTask, TypeOK, Dead
<1>3. \A q \in Drivers \ {p} : SameView(q)
  BY <1>2, UnseenView DEF Dead
<1>4. OneTask(cmdq[p]) /\ OneTask(cmdq'[p]) /\ (NoTask(cmdq[p]) => NoTask(cmdq'[p]))
  BY <1>1, <1>2, AliveKnows, TaskTail
<1>5. CASE Head(cmdq[p]).type = "MSG_STATUS"
  <2>1. timeLeft'[p] = timeLeft[p]
    BY <1>5 DEF TakeCommand, AnswerStatus
  <2>2. CASE TasksIn(cmdq[p]) = {}
    <3>1. TasksIn(cmdq'[p]) = {}
      BY <1>1, <1>2, <1>4, <2>2, TasksOf
    <3> QED
      BY <1>2, <1>3, <2>1, <2>2, <3>1, OwnView, AllSameView DEF SameView
  <2>3. ASSUME NEW i \in TasksIn(cmdq[p]) PROVE UNCHANGED Promise!vars
    <3>0. /\ i - 1 \in TasksIn(Tail(cmdq[p]))
          /\ Tail(cmdq[p])[i - 1] = cmdq[p][i]
      BY <1>1, <1>5, TaskShifts
    <3>1. i - 1 \in TasksIn(cmdq'[p]) /\ cmdq'[p][i - 1] = cmdq[p][i]
      BY <1>2, <3>0
    <3>2. TasksIn(cmdq'[p]) = {i - 1} /\ TasksIn(cmdq[p]) = {i}
      BY <1>1, <1>2, <1>4, <3>1, TasksOf
    <3>3. Job(p) = "assigned" /\ SecondsLeft(p) = cmdq[p][i].task_time
      BY <1>2, <3>2, AssignedView
    <3>4. Job(p)' = "assigned" /\ SecondsLeft(p)' = cmdq'[p][i - 1].task_time
      BY <1>2, <3>2, AssignedView
    <3>5. SameView(p)
      BY <3>1, <3>3, <3>4 DEF SameView
    <3> QED
      BY <1>3, <3>5, AllSameView
  <2> QED
    BY <2>2, <2>3
<1>6. CASE Head(cmdq[p]).type = "MSG_TASK"
  <2> DEFINE t == Head(cmdq[p]).task_time
  <2>1. Head(cmdq[p]) \in CmdMsg /\ t \in Int
    <3>1. Head(cmdq[p]) \in CmdMsg
      BY <1>1, HeadTailProperties
    <3> QED
      BY <3>1 DEF CmdMsg
  <2>2. timeLeft'[p] = NonNeg(t)
    BY <1>1, <1>6 DEF TakeCommand, StartTask, TypeOK
  <2>3. Job(p) = "assigned" /\ SecondsLeft(p) = t
    <3>1. 1 \in TasksIn(cmdq[p]) /\ Head(cmdq[p]) = cmdq[p][1]
      BY <1>1, <1>4, <1>6, TaskShifts
    <3>2. TasksIn(cmdq[p]) = {1}
      BY <1>1, <1>4, <3>1, TasksOf
    <3> QED
      BY <1>2, <3>1, <3>2, AssignedView
  <2>4. TasksIn(cmdq'[p]) = {}
    <3>1. NoTask(cmdq'[p])
      BY <1>1, <1>2, <1>4, <1>6, TaskTail
    <3> QED
      BY <1>2, <3>1, TasksOf
  <2>5. /\ Job(p)' = IF NonNeg(t) > 0 THEN "working" ELSE "idle"
        /\ SecondsLeft(p)' = NonNeg(t)
    BY <1>2, <2>2, <2>4, OwnView
  <2>6. /\ Job(p)' = IF t > 0 THEN "working" ELSE "idle"
        /\ SecondsLeft(p)' = IF t > 0 THEN t ELSE 0
    BY <2>1, <2>5 DEF NonNeg
  <2>7. Promise!Start(p)
    BY <1>3, <2>3, <2>6, OneSeen DEF Promise!Start
  <2> QED
    BY <2>7
<1> QED
  BY <1>5, <1>6 DEF TakeCommand

\* The driver that leaves is gone, whatever it had to do.
LEMMA LeavingView ==
  ASSUME PunctualInv, NEW p \in Drivers, PollFails(p) \/ StartupFails(p)
  PROVE  Promise!Leave(p)
<1>1. TypeOK
  BY DEF PunctualInv, IInv, TypeInv
<1>2. /\ UNCHANGED <<cmdq, timeLeft>> /\ Dead(p)'
      /\ \A q \in Drivers \ {p} : phase'[q] = phase[q]
  BY <1>1 DEF PollFails, StartupFails, StartupStep, TypeOK, Dead
<1>3. \A q \in Drivers \ {p} : SameView(q)
  BY <1>2, UnseenView DEF Dead
<1>4. Job(p)' = "gone" /\ SecondsLeft(p)' = 0
  BY <1>2, GoneView
<1> QED
  BY <1>3, <1>4, OneSeen DEF Promise!Leave

LEMMA SecondView == ASSUME PunctualInv, Tick PROVE Promise!Second
<1>1. TypeOK
  BY DEF PunctualInv, IInv, TypeInv
<1>2. /\ UNCHANGED <<phase, cmdq>>
      /\ timeLeft' = [p \in Drivers |-> NonNeg(timeLeft[p] - 1)]
  BY DEF Tick
<1>3. ASSUME NEW p \in Drivers
      PROVE  /\ SecondsLeft(p)' = IF Job(p) = "working" THEN SecondsLeft(p) - 1 ELSE SecondsLeft(p)
             /\ Job(p)' = IF Job(p) = "working" /\ SecondsLeft(p) = 1 THEN "idle" ELSE Job(p)
  <2>1. cmdq[p] \in Seq(CmdMsg) /\ timeLeft[p] \in Nat /\ timeLeft'[p] = NonNeg(timeLeft[p] - 1)
    BY <1>1, <1>2 DEF TypeOK
  <2>2. Dead(p)' <=> Dead(p)
    BY <1>2 DEF Dead
  <2>3. CASE Dead(p)
    BY <2>2, <2>3, GoneView
  <2>4. ASSUME ~Dead(p), NEW i \in TasksIn(cmdq[p])
        PROVE  Job(p) = "assigned" /\ Job(p)' = "assigned" /\ SecondsLeft(p)' = SecondsLeft(p)
    <3>1. TasksIn(cmdq[p]) = {i}
      BY <2>1, <2>4, AliveKnows, TasksOf
    <3> QED
      BY <1>2, <2>2, <2>4, <3>1, AssignedView
  <2>5. CASE ~Dead(p) /\ TasksIn(cmdq[p]) = {}
    <3>1. /\ Job(p) = IF timeLeft[p] > 0 THEN "working" ELSE "idle"
          /\ SecondsLeft(p) = timeLeft[p]
          /\ Job(p)' = IF timeLeft'[p] > 0 THEN "working" ELSE "idle"
          /\ SecondsLeft(p)' = timeLeft'[p]
      BY <1>2, <2>2, <2>5, OwnView
    <3> QED
      BY <2>1, <3>1 DEF NonNeg
  <2> QED
    BY <2>3, <2>4, <2>5
<1> QED
  BY <1>3 DEF Promise!Second

\* Steps that the promise does not see.
LEMMA QuietView ==
  ASSUME TypeOK, UNCHANGED <<cmdq, timeLeft>>, \A p \in Drivers : Dead(p)' <=> Dead(p)
  PROVE  UNCHANGED Promise!vars
<1>1. \A p \in Drivers : SameView(p)
  BY UnseenView
<1> QED
  BY <1>1, AllSameView

LEMMA PromiseStep ==
  ASSUME PunctualInv, [Next]_vars PROVE Promise!Next \/ UNCHANGED Promise!vars
<1>1. TypeOK
  BY DEF PunctualInv, IInv, TypeInv
<1>2. CASE UserStep
  <2>1. ASSUME NEW p \in Drivers, CreateDriver(p) PROVE UNCHANGED Promise!vars
    <3>1. UNCHANGED <<cmdq, timeLeft>> /\ \A q \in Drivers : Dead(q)' <=> Dead(q)
      BY <1>1, <2>1 DEF CreateDriver, Dead, TypeOK
    <3> QED
      BY <1>1, <3>1, QuietView
  <2>2. ASSUME NEW q, NEW j, NEW t, NEW i, Begin(j, q, t, i) PROVE UNCHANGED Promise!vars
    BY <1>1, <2>2, QuietView DEF Begin, driverVars, Dead
  <2>3. CASE EndOfInput
    BY <1>1, <2>3, QuietView DEF EndOfInput, driverVars, Dead
  <2> QED
    BY <1>2, <2>1, <2>2, <2>3 DEF UserStep, GetStatus, TypeTask, GetDrivers
<1>3. CASE CliStep
  <2>1. CASE OpenForStatus \/ ReceiveReply \/ TimeOut \/ OpenForTask
    <3>1. UNCHANGED <<cmdq, timeLeft, phase>>
      BY <2>1 DEF OpenForStatus, ReceiveReply, TimeOut, OpenForTask, driverVars
    <3> QED
      BY <1>1, <3>1, QuietView DEF Dead
  <2> QED
    BY <1>3, <2>1, StatusSentView, TaskSentView DEF CliStep, Promise!Next
<1>4. ASSUME NEW p \in Drivers, Startup(p) PROVE Promise!Next \/ UNCHANGED Promise!vars
  <2>1. CASE CreateCmdQueue(p) \/ CreateRespQueue(p) \/ CreateTimer(p)
    <3>1. UNCHANGED <<cmdq, timeLeft>> /\ \A q \in Drivers : Dead(q)' <=> Dead(q)
      BY <1>1, <2>1 DEF CreateCmdQueue, CreateRespQueue, CreateTimer, StartupStep, Dead, TypeOK
    <3> QED
      BY <1>1, <3>1, QuietView
  <2> QED
    BY <1>4, <2>1, LeavingView DEF Startup, Promise!Next
<1>5. ASSUME NEW p \in Drivers, SendReply(p) \/ TimerExpires(p) PROVE UNCHANGED Promise!vars
  <2>1. UNCHANGED <<cmdq, timeLeft>> /\ \A q \in Drivers : Dead(q)' <=> Dead(q)
    BY <1>1, <1>5 DEF SendReply, TimerExpires, Dead, TypeOK
  <2> QED
    BY <1>1, <2>1, QuietView
<1>6. ASSUME NEW p \in Drivers, TimerBranch(p) PROVE UNCHANGED Promise!vars
  <2>1. timeLeft[p] = 0 /\ timeLeft' = [timeLeft EXCEPT ![p] = 0] /\ UNCHANGED <<cmdq, phase>>
    BY <1>6 DEF TimerBranch, PunctualInv, TimerInv
  <2>2. timeLeft' = timeLeft
    BY <1>1, <2>1 DEF TypeOK
  <2> QED
    BY <1>1, <2>1, <2>2, QuietView DEF Dead
<1>7. CASE Tick
  BY <1>7, SecondView DEF Promise!Next
<1>8. CASE UNCHANGED vars
  BY <1>1, <1>8, QuietView DEF vars, driverVars, Dead
<1> QED
  BY <1>2, <1>3, <1>4, <1>5, <1>6, <1>7, <1>8, CommandTakenView, LeavingView
  DEF Next, DriverLoop, Promise!Next

\* With punctual drivers the dispatcher implements the safety part of Dispatch:
\* for any number of drivers and any task times a task is given to an idle
\* driver only, is started as it was given, and lasts as long as was asked.
THEOREM TaxiImplementsDispatch == ASSUME Punctual PROVE Spec => Promise!Spec
<1>1. ASSUME Init PROVE Promise!Init
  <2>1. ASSUME NEW p \in Drivers PROVE Job(p) = "idle" /\ SecondsLeft(p) = 0
    <3>1. ~Dead(p) /\ cmdq[p] = <<>> /\ timeLeft[p] = 0
      BY <1>1 DEF Init, Dead
    <3>2. TasksIn(<<>>) = {}
      BY DEF TasksIn
    <3> QED
      BY <3>1, <3>2, OwnView
  <2> QED
    BY <2>1 DEF Promise!Init
<1>2. PunctualInv /\ [Next]_vars => [Promise!Next]_(Promise!vars)
  BY PromiseStep
<1> QED
  BY <1>1, <1>2, PunctualHolds, PTL DEF Spec, Promise!Spec
=============================================================================
