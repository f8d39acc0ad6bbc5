----------------------------- MODULE EchoProofs -----------------------------
(***************************************************************************)
(* Theorems about EchoServer for any finite set of clients and any bounds: *)
(* the table holds every peer once, and it implements EchoSessions.        *)
(***************************************************************************)
EXTENDS EchoServer, FunctionTheorems, FiniteSetTheorems, SequenceTheorems, TLAPS

Inv == TypeOK /\ OneSlotEach

OneSlot(table) ==
  \A i, j \in DOMAIN table : table[i].peer = table[j].peer => i = j

LEMMA ShiftDownResult ==
  ASSUME NEW table \in Seq(Entry), NEW idx \in 1 .. Len(table)
  PROVE  /\ ShiftDown(table, idx) \in Seq(Entry)
         /\ Len(ShiftDown(table, idx)) = Len(table) - 1
         /\ DOMAIN ShiftDown(table, idx) = 1 .. Len(table) - 1
         /\ \A i \in 1 .. Len(table) - 1 :
              ShiftDown(table, idx)[i] = IF i < idx THEN table[i] ELSE table[i + 1]
<1>1. Len(table) \in Nat /\ \A i \in 1 .. Len(table) : table[i] \in Entry
  BY LenProperties, ElementOfSeq
<1>2. Len(table) - 1 \in Nat
  BY <1>1
<1> DEFINE e(i) == IF i < idx THEN table[i] ELSE table[i + 1]
<1>3. \A i \in 1 .. Len(table) - 1 : e(i) \in Entry
  BY <1>1
<1> HIDE DEF e
<1>4. [i \in 1 .. Len(table) - 1 |-> e(i)] \in Seq(Entry)
  BY <1>2, <1>3
<1>5. ShiftDown(table, idx) = [i \in 1 .. Len(table) - 1 |-> e(i)]
  BY DEF ShiftDown, e
<1>6. Len([i \in 1 .. Len(table) - 1 |-> e(i)]) = Len(table) - 1
  BY <1>2, <1>4, LenProperties
<1>7. \A i \in 1 .. Len(table) - 1 :
        e(i) = IF i < idx THEN table[i] ELSE table[i + 1]
  BY DEF e
<1> QED
  BY <1>4, <1>5, <1>6, <1>7

LEMMA FindUnique ==
  ASSUME clients \in Seq(Entry), OneSlot(clients),
         NEW c, NEW i \in DOMAIN clients, clients[i].peer = c
  PROVE  /\ FindClient(c) = i
         /\ Slots(c) = {i}
         /\ CountOf(c) = clients[i].counter
<1>1. Slots(c) = {i}
  BY DEF Slots, OneSlot
<1>2. i \in Int
  BY LenProperties
<1>3. FindClient(c) = i
  BY <1>1, <1>2 DEF FindClient
<1> QED
  BY <1>1, <1>3 DEF CountOf

\* The same for the table after a step.
LEMMA FindUniqueNext ==
  ASSUME clients' \in Seq(Entry), OneSlot(clients'),
         NEW c, NEW i \in DOMAIN clients', clients'[i].peer = c
  PROVE  CountOf(c)' = clients'[i].counter
<1>1. Slots(c)' = {i}
  BY DEF Slots, OneSlot
<1>2. i \in Int
  BY LenProperties
<1>3. FindClient(c)' = i
  BY <1>1, <1>2 DEF FindClient
<1> QED
  BY <1>1, <1>3 DEF CountOf

LEMMA NoSlot ==
  ASSUME NEW c
  PROVE  /\ (\A i \in DOMAIN clients : clients[i].peer # c) <=> Slots(c) = {}
         /\ Slots(c) = {} => CountOf(c) = 0
         /\ (\A i \in DOMAIN clients' : clients'[i].peer # c) => CountOf(c)' = 0
<1>1. (\A i \in DOMAIN clients' : clients'[i].peer # c) => Slots(c)' = {}
  BY DEF Slots
<1> QED
  BY <1>1 DEF Slots, CountOf

-----------------------------------------------------------------------------
(* What each change of the table does to the counts. *)

LEMMA BumpCounts ==
  ASSUME clients \in Seq(Entry), OneSlot(clients), NEW i \in DOMAIN clients,
         clients' = [clients EXCEPT ![i].counter = @ + 1]
  PROVE  /\ clients' \in Seq(Entry)
         /\ Len(clients') = Len(clients)
         /\ OneSlot(clients')
         /\ \A d : CountOf(d)' = IF d = clients[i].peer THEN clients[i].counter + 1
                                 ELSE CountOf(d)
<1>1. /\ i \in 1 .. Len(clients)
      /\ clients[i] \in Entry
      /\ DOMAIN clients = 1 .. Len(clients)
      /\ DOMAIN clients' = DOMAIN clients
  BY LenProperties, ElementOfSeq
<1> DEFINE e == [clients[i] EXCEPT !.counter = @ + 1]
<1>2. /\ e \in Entry
      /\ e.peer = clients[i].peer /\ e.counter = clients[i].counter + 1
  BY <1>1, SMTT(30) DEF Entry
<1>3. clients' = [clients EXCEPT ![i] = e]
  OBVIOUS
<1> HIDE DEF e
<1>4. /\ clients' \in Seq(Entry)
      /\ Len(clients') = Len(clients)
      /\ \A j \in 1 .. Len(clients) : clients'[j] = IF j = i THEN e ELSE clients[j]
  BY <1>1, <1>2, <1>3, ExceptSeq
<1>5. OneSlot(clients')
  BY <1>1, <1>2, <1>4 DEF OneSlot
<1>6. ASSUME NEW d, NEW j \in DOMAIN clients, clients[j].peer = d
      PROVE  CountOf(d)' = IF d = clients[i].peer THEN clients[i].counter + 1
                           ELSE CountOf(d)
  <2>1. clients'[j].peer = d
    BY <1>1, <1>2, <1>4, <1>6
  <2>2. CountOf(d)' = clients'[j].counter
    BY <1>1, <1>4, <1>5, <2>1, FindUniqueNext
  <2>3. d = clients[i].peer <=> j = i
    BY <1>6 DEF OneSlot
  <2>4. CountOf(d) = clients[j].counter
    BY <1>6, FindUnique
  <2> QED
    BY <1>1, <1>2, <1>4, <2>2, <2>3, <2>4
<1>7. ASSUME NEW d, \A j \in DOMAIN clients : clients[j].peer # d
      PROVE  CountOf(d)' = CountOf(d) /\ d # clients[i].peer
  <2>1. \A j \in DOMAIN clients' : clients'[j].peer # d
    BY <1>1, <1>2, <1>4, <1>7
  <2> QED
    BY <1>7, <2>1, NoSlot
<1> QED
  BY <1>4, <1>5, <1>6, <1>7

LEMMA AppendCounts ==
  ASSUME clients \in Seq(Entry), OneSlot(clients), NEW c \in Clients,
         Slots(c) = {}, clients' = Append(clients, [peer |-> c, counter |-> 1])
  PROVE  /\ clients' \in Seq(Entry)
         /\ Len(clients') = Len(clients) + 1
         /\ OneSlot(clients')
         /\ \A d : CountOf(d)' = IF d = c THEN 1 ELSE CountOf(d)
<1> DEFINE e == [peer |-> c, counter |-> 1]
<1>1. e \in Entry /\ e.peer = c /\ e.counter = 1
  BY DEF Entry
<1> HIDE DEF e
<1>2. clients' = Append(clients, e)
  BY DEF e
<1>3. /\ Len(clients) \in Nat
      /\ DOMAIN clients = 1 .. Len(clients)
      /\ clients' \in Seq(Entry)
      /\ Len(clients') = Len(clients) + 1
      /\ \A j \in 1 .. Len(clients) : clients'[j] = clients[j]
      /\ clients'[Len(clients) + 1] = e
  BY <1>1, <1>2, AppendProperties, LenProperties
<1>4. DOMAIN clients' = 1 .. Len(clients) + 1
  BY <1>3, LenProperties
<1>5. \A j \in DOMAIN clients : clients[j].peer # c
  BY NoSlot
<1>6. OneSlot(clients')
  BY <1>1, <1>3, <1>4, <1>5 DEF OneSlot
<1>7. CountOf(c)' = 1
  BY <1>1, <1>3, <1>4, <1>6, FindUniqueNext
<1>8. ASSUME NEW d, d # c, NEW j \in DOMAIN clients, clients[j].peer = d
      PROVE  CountOf(d)' = CountOf(d)
  <2>1. j \in DOMAIN clients' /\ clients'[j] = clients[j]
    BY <1>3, <1>4
  <2> QED
    BY <1>3, <1>6, <1>8, <2>1, FindUnique, FindUniqueNext
<1>9. ASSUME NEW d, d # c, \A j \in DOMAIN clients : clients[j].peer # d
      PROVE  CountOf(d)' = CountOf(d)
  <2>1. \A j \in DOMAIN clients' : clients'[j].peer # d
    BY <1>1, <1>3, <1>4, <1>9
  <2> QED
    BY <1>9, <2>1, NoSlot
<1> QED
  BY <1>3, <1>6, <1>7, <1>8, <1>9

LEMMA ShiftCounts ==
  ASSUME clients \in Seq(Entry), OneSlot(clients), NEW i \in DOMAIN clients,
         clients' = ShiftDown(clients, i)
  PROVE  /\ clients' \in Seq(Entry)
         /\ Len(clients') = Len(clients) - 1
         /\ OneSlot(clients')
         /\ \A d : CountOf(d)' = IF d = clients[i].peer THEN 0 ELSE CountOf(d)
<1>1. /\ Len(clients) \in Nat
      /\ DOMAIN clients = 1 .. Len(clients)
      /\ i \in 1 .. Len(clients)
  BY LenProperties
<1>2. /\ clients' \in Seq(Entry)
      /\ Len(clients') = Len(clients) - 1
      /\ DOMAIN clients' = 1 .. Len(clients) - 1
      /\ \A j \in 1 .. Len(clients) - 1 :
           clients'[j] = IF j < i THEN clients[j] ELSE clients[j + 1]
  BY <1>1, ShiftDownResult
<1>3. OneSlot(clients')
  <2> SUFFICES ASSUME NEW j \in DOMAIN clients', NEW k \in DOMAIN clients',
                      clients'[j].peer = clients'[k].peer
               PROVE  j = k
    BY DEF OneSlot
  <2> DEFINE from(n) == IF n < i THEN n ELSE n + 1
  <2>1. /\ clients'[j] = clients[from(j)] /\ from(j) \in DOMAIN clients
        /\ clients'[k] = clients[from(k)] /\ from(k) \in DOMAIN clients
    BY <1>1, <1>2
  <2>2. from(j) = from(k)
    BY <2>1 DEF OneSlot
  <2> QED
    BY <1>1, <1>2, <2>2
<1>4. \A j \in DOMAIN clients' : clients'[j].peer # clients[i].peer
  <2> SUFFICES ASSUME NEW j \in DOMAIN clients' PROVE clients'[j].peer # clients[i].peer
    OBVIOUS
  <2>1. \E k \in DOMAIN clients : k # i /\ clients'[j] = clients[k]
    <3>1. CASE j < i
      BY <1>1, <1>2, <3>1
    <3>2. CASE ~(j < i)
      <4>1. j + 1 \in DOMAIN clients /\ j + 1 # i /\ clients'[j] = clients[j + 1]
        BY <1>1, <1>2, <3>2
      <4> QED
        BY <4>1
    <3> QED
      BY <3>1, <3>2
  <2> QED
    BY <2>1 DEF OneSlot
<1>5. ASSUME NEW d, d # clients[i].peer, NEW j \in DOMAIN clients, clients[j].peer = d
      PROVE  CountOf(d)' = CountOf(d)
  <2>1. \E k \in DOMAIN clients' : clients'[k] = clients[j]
    <3>1. CASE j < i
      BY <1>1, <1>2, <3>1
    <3>2. CASE j > i
      <4>1. /\ j - 1 \in DOMAIN clients' /\ j - 1 \in 1 .. Len(clients) - 1
            /\ ~(j - 1 < i) /\ (j - 1) + 1 = j
        BY <1>1, <1>2, <3>2
      <4>2. clients'[j - 1] = clients[j]
        BY <1>2, <4>1
      <4> QED
        BY <4>1, <4>2
    <3>3. j # i
      BY <1>5
    <3> QED
      BY <1>1, <3>1, <3>2, <3>3
  <2> QED
    BY <1>2, <1>3, <1>5, <2>1, FindUnique, FindUniqueNext
<1>6. ASSUME NEW d, d # clients[i].peer, \A j \in DOMAIN clients : clients[j].peer # d
      PROVE  CountOf(d)' = CountOf(d)
  <2>1. ASSUME NEW j \in DOMAIN clients' PROVE clients'[j].peer # d
    <3>1. /\ j \in 1 .. Len(clients) - 1
          /\ j \in DOMAIN clients /\ j + 1 \in DOMAIN clients
      BY <1>1, <1>2
    <3>2. clients'[j] = clients[j] \/ clients'[j] = clients[j + 1]
      BY <1>2, <3>1
    <3> QED
      BY <1>6, <3>1, <3>2
  <2> QED
    BY <1>6, <2>1, NoSlot
<1> QED
  BY <1>2, <1>3, <1>4, <1>5, <1>6, NoSlot

-----------------------------------------------------------------------------
(* Types, and one slot for each peer. *)

LEMMA ArriveType ==
  ASSUME NEW S, NEW q \in Seq(S), NEW e \in S
  PROVE  Arrive(q, e) \in Seq(S)
BY AppendProperties DEF Arrive

LEMMA InvInit == Init => Inv
<1> SUFFICES ASSUME Init PROVE Inv
  OBVIOUS
<1> USE EchoAssumption
<1>1. TypeOK
  BY DEF Init, TypeOK
<1>2. OneSlotEach
  BY DEF Init, OneSlotEach
<1> QED
  BY <1>1, <1>2 DEF Inv

\* What a step of Echo does to the table and to the answers.
LEMMA EchoEffect ==
  ASSUME Inv, Echo
  PROVE  LET c == Head(inbox).from IN
         /\ c \in Clients
         /\ clients' \in Seq(Entry)
         /\ OneSlot(clients')
         /\ Len(clients') <= MaxClients
         /\ CountOf(c) \in Nat
         /\ Slots(c) = {} => Len(clients) < MaxClients
         /\ Slots(c) # {} => CountOf(c) > 0
         /\ \A d : CountOf(d)' = IF d = c THEN CountOf(c) + 1 ELSE CountOf(d)
         /\ Reply(c, CountOf(c) + 1)
<1> DEFINE c == Head(inbox).from
<1> USE EchoAssumption
<1>1. /\ Head(inbox) \in Packet /\ c \in Clients
      /\ clients \in Seq(Entry) /\ OneSlot(clients)
      /\ Len(clients) \in Nat /\ Len(clients) <= MaxClients
  <2>1. inbox \in Seq(Packet) /\ inbox # <<>> /\ clients \in Seq(Entry)
    BY DEF Inv, TypeOK, Echo
  <2>2. Head(inbox) \in Packet
    BY <2>1, HeadTailProperties
  <2>3. c \in Clients
    BY <2>2 DEF Packet
  <2>4. OneSlot(clients) /\ Len(clients) <= MaxClients
    BY DEF Inv, OneSlotEach, OneSlot
  <2>5. Len(clients) \in Nat
    BY <2>1, LenProperties
  <2> QED
    BY <2>1, <2>2, <2>3, <2>4, <2>5
<1>2. CASE Slots(c) = {}
  <2>1. /\ Len(clients) < MaxClients /\ Reply(c, 1)
        /\ clients' = Append(clients, [peer |-> c, counter |-> 1])
    BY <1>2 DEF Echo
  <2>2. CountOf(c) = 0
    BY <1>2, NoSlot
  <2>3. /\ clients' \in Seq(Entry)
        /\ Len(clients') = Len(clients) + 1
        /\ OneSlot(clients')
        /\ \A d : CountOf(d)' = IF d = c THEN 1 ELSE CountOf(d)
    BY <1>1, <1>2, <2>1, AppendCounts
  <2> QED
    BY <1>1, <1>2, <2>1, <2>2, <2>3
<1>3. CASE Slots(c) # {}
  <2>1. PICK i \in DOMAIN clients : clients[i].peer = c
    BY <1>3 DEF Slots
  <2>2. FindClient(c) = i /\ CountOf(c) = clients[i].counter
    BY <1>1, <2>1, FindUnique
  <2>3. /\ Reply(c, clients[i].counter + 1)
        /\ clients' = [clients EXCEPT ![i].counter = @ + 1]
    BY <1>3, <2>2 DEF Echo
  <2>4. clients[i].counter \in Nat \ {0}
    <3>1. i \in 1 .. Len(clients)
      BY <1>1, <2>1, LenProperties
    <3>2. clients[i] \in Entry
      BY <1>1, <3>1, ElementOfSeq
    <3> QED
      BY <3>2 DEF Entry
  <2>5. /\ clients' \in Seq(Entry)
        /\ Len(clients') = Len(clients)
        /\ OneSlot(clients')
        /\ \A d : CountOf(d)' = IF d = clients[i].peer THEN clients[i].counter + 1
                                ELSE CountOf(d)
    BY <1>1, <2>3, BumpCounts
  <2> QED
    BY <1>1, <1>3, <2>1, <2>2, <2>3, <2>4, <2>5
<1> QED
  BY <1>2, <1>3

LEMMA CloseEffect ==
  ASSUME Inv, Close
  PROVE  LET c == Head(inbox).from IN
         /\ c \in Clients
         /\ clients' \in Seq(Entry)
         /\ OneSlot(clients')
         /\ Len(clients') <= MaxClients
         /\ \A d : CountOf(d)' = IF d = c THEN 0 ELSE CountOf(d)
<1> DEFINE c == Head(inbox).from
<1> USE EchoAssumption
<1>1. /\ Head(inbox) \in Packet /\ c \in Clients
      /\ clients \in Seq(Entry) /\ OneSlot(clients)
      /\ Len(clients) \in Nat /\ Len(clients) <= MaxClients
  <2>1. inbox \in Seq(Packet) /\ inbox # <<>> /\ clients \in Seq(Entry)
    BY DEF Inv, TypeOK, Close
  <2>2. Head(inbox) \in Packet
    BY <2>1, HeadTailProperties
  <2>3. c \in Clients
    BY <2>2 DEF Packet
  <2>4. OneSlot(clients) /\ Len(clients) <= MaxClients
    BY DEF Inv, OneSlotEach, OneSlot
  <2>5. Len(clients) \in Nat
    BY <2>1, LenProperties
  <2> QED
    BY <2>1, <2>2, <2>3, <2>4, <2>5
<1>2. CASE Slots(c) = {}
  <2>1. clients' = clients
    BY <1>2 DEF Close, ResetClient
  <2>2. \A d : CountOf(d)' = CountOf(d)
    BY <2>1 DEF CountOf, Slots, FindClient
  <2>3. CountOf(c) = 0
    BY <1>2, NoSlot
  <2> QED
    BY <1>1, <2>1, <2>2, <2>3
<1>3. CASE Slots(c) # {}
  <2>1. PICK i \in DOMAIN clients : clients[i].peer = c
    BY <1>3 DEF Slots
  <2>2. FindClient(c) = i
    BY <1>1, <2>1, FindUnique
  <2>3. clients' = ShiftDown(clients, i)
    BY <1>3, <2>2 DEF Close, ResetClient
  <2>4. /\ clients' \in Seq(Entry)
        /\ Len(clients') = Len(clients) - 1
        /\ OneSlot(clients')
        /\ \A d : CountOf(d)' = IF d = clients[i].peer THEN 0 ELSE CountOf(d)
    BY <1>1, <2>3, ShiftCounts
  <2> QED
    BY <1>1, <2>1, <2>4
<1> QED
  BY <1>2, <1>3

LEMMA InvStep == Inv /\ [Next]_vars => Inv'
<1> SUFFICES ASSUME Inv, [Next]_vars PROVE Inv'
  OBVIOUS
<1> USE EchoAssumption
<1>0. TypeOK /\ OneSlotEach
  BY DEF Inv
<1>a. ASSUME clients' \in Seq(Entry), OneSlot(clients'), Len(clients') <= MaxClients,
             TypeOK'
      PROVE  Inv'
  BY <1>a DEF Inv, OneSlotEach, OneSlot
<1>b. ASSUME UNCHANGED clients, TypeOK' PROVE Inv'
  BY <1>0, <1>b DEF Inv, OneSlotEach
<1>1. ASSUME NEW c \in Clients, Start(c) PROVE Inv'
  <2>1. TypeOK'
    <3>1. mailbox' \in [Clients -> Seq(Nat)]
      BY <1>0, <1>1, EmptySeq DEF Start, TypeOK
    <3> QED
      BY <1>0, <1>1, <3>1, SMTT(30) DEF Start, TypeOK, serverVars
  <2> QED
    BY <1>b, <1>1, <2>1 DEF Start, serverVars
<1>2. ASSUME NEW c \in Clients, NEW data \in {"text", "CLOSE"}, SendMessage(c, data)
      PROVE Inv'
  <2>1. [from |-> c, port |-> "server", data |-> data] \in Packet
    BY DEF Packet
  <2>2. inbox' \in Seq(Packet)
    BY <1>0, <1>2, <2>1, ArriveType DEF SendMessage, TypeOK
  <2>3. TypeOK'
    BY <1>0, <1>2, <2>2, SMTT(30) DEF SendMessage, TypeOK, serverVars
  <2> QED
    BY <1>b, <1>2, <2>3 DEF SendMessage, serverVars
<1>3. ASSUME NEW c \in Clients, Quit(c) PROVE Inv'
  <2>1. [from |-> c, port |-> "server", data |-> "CLOSE"] \in Packet
    BY DEF Packet
  <2>2. inbox' \in Seq(Packet)
    BY <1>0, <1>3, <2>1, ArriveType DEF Quit, TypeOK
  <2>3. TypeOK'
    BY <1>0, <1>3, <2>2 DEF Quit, TypeOK, serverVars
  <2> QED
    BY <1>b, <1>3, <2>3 DEF Quit, serverVars
<1>4. ASSUME NEW c \in Clients, Crash(c) PROVE Inv'
  <2>1. TypeOK'
    BY <1>0, <1>4 DEF Crash, TypeOK, serverVars
  <2> QED
    BY <1>b, <1>4, <2>1 DEF Crash, serverVars
<1>5. ASSUME NEW c \in Clients, PrintReply(c) PROVE Inv'
  <2>1. Head(mailbox[c]) \in Nat /\ Tail(mailbox[c]) \in Seq(Nat)
    BY <1>0, <1>5, HeadTailProperties DEF PrintReply, TypeOK
  <2>2. TypeOK'
    BY <1>0, <1>5, <2>1 DEF PrintReply, TypeOK, serverVars
  <2> QED
    BY <1>b, <1>5, <2>2 DEF PrintReply, serverVars
<1> DEFINE clientVars == <<running, typed, starts, heard, saidClose>>
<1>6. ASSUME Skip \/ Refuse, UNCHANGED clientVars PROVE Inv'
  <2>1. Tail(inbox) \in Seq(Packet)
    BY <1>0, <1>6, HeadTailProperties DEF Skip, Refuse, TypeOK
  <2>2. TypeOK'
    BY <1>0, <1>6, <2>1 DEF Skip, Refuse, TypeOK, serverVars
  <2> QED
    BY <1>b, <1>6, <2>2 DEF Skip, Refuse, serverVars
<1>7. ASSUME Close, UNCHANGED clientVars PROVE Inv'
  <2>1. Tail(inbox) \in Seq(Packet)
    BY <1>0, <1>7, HeadTailProperties DEF Close, TypeOK
  <2>2. /\ clients' \in Seq(Entry) /\ OneSlot(clients') /\ Len(clients') <= MaxClients
    BY <1>7, CloseEffect
  <2>3. TypeOK'
    BY <1>0, <1>7, <2>1, <2>2 DEF Close, TypeOK
  <2> QED
    BY <1>a, <2>2, <2>3
<1>8. ASSUME Echo, UNCHANGED clientVars PROVE Inv'
  <2> DEFINE c == Head(inbox).from
             n == CountOf(c) + 1
  <2>1. /\ c \in Clients /\ n \in Nat /\ Reply(c, n)
        /\ clients' \in Seq(Entry) /\ OneSlot(clients') /\ Len(clients') <= MaxClients
    BY <1>8, EchoEffect
  <2> HIDE DEF n
  <2>2. Tail(inbox) \in Seq(Packet)
    BY <1>0, <1>8, HeadTailProperties DEF Echo, TypeOK
  <2>3. [from |-> c, port |-> "client", data |-> "text"] \in Packet
    BY <2>1 DEF Packet
  <2>4. inbox' \in Seq(Packet)
    BY <2>1, <2>2, <2>3, ArriveType DEF Reply
  <2>5. mailbox' \in [Clients -> Seq(Nat)]
    <3>1. Arrive(mailbox[c], n) \in Seq(Nat)
      BY <1>0, <2>1, ArriveType DEF TypeOK
    <3> QED
      BY <1>0, <2>1, <3>1 DEF Reply, TypeOK
  <2>6. sent' \in [Clients -> [n : Nat, total : Nat]]
    BY <1>0, <2>1 DEF Reply, TypeOK
  <2>7. TypeOK'
    BY <1>0, <1>8, <2>1, <2>4, <2>5, <2>6 DEF TypeOK
  <2> QED
    BY <1>a, <2>1, <2>7
<1>9. ASSUME UNCHANGED vars PROVE Inv'
  <2>1. TypeOK'
    BY <1>0, <1>9 DEF vars, TypeOK
  <2> QED
    BY <1>b, <1>9, <2>1 DEF vars
<1> QED
  BY <1>1, <1>2, <1>3, <1>4, <1>5, <1>6, <1>7, <1>8, <1>9
  DEF Next, Server, Client

LEMMA InvHolds == Spec => []Inv
<1> QED
  BY InvInit, InvStep, PTL DEF Spec

\* Every variable of server and clients keeps its type: a listed peer has a
\* counter of 1 or more, and no buffer holds more than it has room for.
THEOREM TypeCorrect == Spec => []TypeOK
<1>1. Inv => TypeOK
  BY DEF Inv
<1> QED
  BY <1>1, InvHolds, PTL

\* Whatever sequence of messages, departures, crashes and losses: a peer is
\* never listed twice, and the table never overflows.
THEOREM TableIsSound == Spec => []OneSlotEach
<1>1. Inv => OneSlotEach
  BY DEF Inv
<1> QED
  BY <1>1, InvHolds, PTL

-----------------------------------------------------------------------------
(***************************************************************************)
(* The numbers a client prints.  While a client that was started once has  *)
(* not said CLOSE, its session only grows, and every number on its way is  *)
(* above those in front of it and not above the count.                     *)
(***************************************************************************)

Fresh(c) == ~saidClose[c] /\ (starts[c] = 0 \/ (starts[c] = 1 /\ running[c]))

IsClose(p, c) == p.from = c /\ p.port = "server" /\ p.data = "CLOSE"

NoClose(q, c) == \A i \in 1 .. Len(q) : ~IsClose(q[i], c)

\* The numbers of q go up, from above lo to hi at most.
Rising(q, lo, hi) ==
  /\ lo <= hi
  /\ \A i \in 1 .. Len(q) : lo < q[i] /\ q[i] <= hi
  /\ \A i, j \in 1 .. Len(q) : i < j => q[i] < q[j]

FreshInv ==
  \A c \in Clients :
    /\ running[c] => starts[c] > 0
    /\ Fresh(c) => NoClose(inbox, c) /\ Rising(mailbox[c], heard[c], CountOf(c))

LEMMA NoCloseKept ==
  ASSUME NEW q \in Seq(Packet), NEW c, NoClose(q, c)
  PROVE  /\ q # <<>> => NoClose(Tail(q), c) /\ ~IsClose(Head(q), c)
         /\ \A p \in Packet : ~IsClose(p, c) => NoClose(Arrive(q, p), c)
<1>1. Len(q) \in Nat
  BY LenProperties
<1>2. ASSUME q # <<>> PROVE NoClose(Tail(q), c) /\ ~IsClose(Head(q), c)
  <2>1. /\ Len(q) \in Nat \ {0} /\ Head(q) = q[1]
        /\ Len(Tail(q)) = Len(q) - 1
        /\ \A i \in 1 .. Len(Tail(q)) : Tail(q)[i] = q[i + 1]
    BY <1>2, HeadTailProperties, EmptySeq
  <2>2. /\ \A i \in 1 .. Len(Tail(q)) : i + 1 \in 1 .. Len(q)
        /\ 1 \in 1 .. Len(q)
    BY <2>1
  <2> QED
    BY <2>1, <2>2 DEF NoClose
<1>3. ASSUME NEW p \in Packet, ~IsClose(p, c) PROVE NoClose(Arrive(q, p), c)
  <2>1. /\ Len(Append(q, p)) = Len(q) + 1
        /\ \A i \in 1 .. Len(q) : Append(q, p)[i] = q[i]
        /\ Append(q, p)[Len(q) + 1] = p
    BY AppendProperties
  <2>2. \A i \in 1 .. Len(Append(q, p)) : i \in 1 .. Len(q) \/ i = Len(q) + 1
    BY <1>1, <2>1
  <2> QED
    BY <1>3, <2>1, <2>2 DEF NoClose, Arrive
<1> QED
  BY <1>2, <1>3

LEMMA RisingKept ==
  ASSUME NEW q \in Seq(Nat), NEW lo \in Nat, NEW hi \in Nat, Rising(q, lo, hi)
  PROVE  /\ q # <<>> => Rising(Tail(q), Head(q), hi) /\ lo < Head(q)
         /\ Rising(q, lo, hi + 1)
         /\ Rising(Arrive(q, hi + 1), lo, hi + 1)
<1>1. /\ Len(q) \in Nat
      /\ \A i \in 1 .. Len(q) : q[i] \in Nat
  BY LenProperties, ElementOfSeq
<1>2. ASSUME q # <<>> PROVE Rising(Tail(q), Head(q), hi) /\ lo < Head(q)
  <2>1. /\ Len(q) \in Nat \ {0} /\ Head(q) = q[1]
        /\ Len(Tail(q)) = Len(q) - 1
        /\ \A i \in 1 .. Len(Tail(q)) : Tail(q)[i] = q[i + 1]
    BY <1>2, HeadTailProperties, EmptySeq
  <2>2. /\ \A i \in 1 .. Len(Tail(q)) : i + 1 \in 1 .. Len(q) /\ 1 < i + 1
        /\ \A i, j \in 1 .. Len(Tail(q)) : i < j => i + 1 < j + 1
        /\ 1 \in 1 .. Len(q)
    BY <2>1
  <2> QED
    BY <2>1, <2>2 DEF Rising
<1>3. Rising(q, lo, hi + 1)
  BY <1>1 DEF Rising
<1>4. Rising(Append(q, hi + 1), lo, hi + 1)
  <2> DEFINE r == Append(q, hi + 1)
  <2>1. /\ Len(r) = Len(q) + 1
        /\ \A i \in 1 .. Len(q) : r[i] = q[i]
        /\ r[Len(q) + 1] = hi + 1
    BY AppendProperties
  <2> HIDE DEF r
  <2>2. \A i \in 1 .. Len(r) : i \in 1 .. Len(q) \/ i = Len(q) + 1
    BY <1>1, <2>1
  <2>3. \A i \in 1 .. Len(r) : lo < r[i] /\ r[i] <= hi + 1
    BY <1>1, <2>1, <2>2 DEF Rising
  <2>4. ASSUME NEW i \in 1 .. Len(r), NEW j \in 1 .. Len(r), i < j
        PROVE  r[i] < r[j]
    <3>1. i \in 1 .. Len(q)
      BY <1>1, <2>1, <2>4
    <3>2. CASE j \in 1 .. Len(q)
      BY <2>1, <2>4, <3>1, <3>2 DEF Rising
    <3>3. CASE j = Len(q) + 1
      BY <1>1, <2>1, <3>1, <3>3, SMTT(30) DEF Rising
    <3> QED
      BY <2>2, <3>2, <3>3
  <2>5. lo <= hi + 1
    BY DEF Rising
  <2>6. Rising(r, lo, hi + 1)
    BY <2>3, <2>4, <2>5 DEF Rising
  <2> QED
    BY <2>6 DEF r
<1> QED
  BY <1>2, <1>3, <1>4 DEF Arrive

LEMMA CountType == ASSUME TypeOK, OneSlotEach, NEW c PROVE CountOf(c) \in Nat
<1>1. CASE Slots(c) = {}
  BY <1>1 DEF CountOf
<1>2. CASE Slots(c) # {}
  <2>1. PICK i \in DOMAIN clients : clients[i].peer = c
    BY <1>2 DEF Slots
  <2>2. /\ clients \in Seq(Entry) /\ DOMAIN clients = 1 .. Len(clients)
        /\ OneSlot(clients)
    BY LenProperties DEF TypeOK, OneSlotEach, OneSlot
  <2>3. CountOf(c) = clients[i].counter
    BY <2>1, <2>2, FindUnique
  <2>4. clients[i] \in Entry
    BY <2>1, <2>2, ElementOfSeq
  <2> QED
    BY <2>3, <2>4 DEF Entry
<1> QED
  BY <1>1, <1>2

LEMMA FreshInit == Init => FreshInv
<1> SUFFICES ASSUME Init, NEW c \in Clients
             PROVE  NoClose(inbox, c) /\ Rising(mailbox[c], heard[c], CountOf(c))
  BY DEF FreshInv, Init
<1>1. Slots(c) = {}
  BY DEF Init, Slots
<1>2. CountOf(c) = 0
  BY <1>1, NoSlot
<1> QED
  BY <1>2 DEF Init, NoClose, Rising

LEMMA StartedStep ==
  ASSUME Inv, FreshInv, [Next]_vars, NEW c \in Clients, running'[c]
  PROVE  starts'[c] > 0
<1>0. TypeOK /\ (running[c] => starts[c] > 0) /\ starts[c] \in Nat
  BY DEF Inv, TypeOK, FreshInv
<1>1. ASSUME NEW d \in Clients, Client(d) PROVE starts'[c] > 0
  <2>1. CASE Start(d)
    BY <1>0, <2>1 DEF Start, TypeOK
  <2>2. CASE Quit(d) \/ Crash(d)
    BY <1>0, <2>2 DEF Quit, Crash, TypeOK
  <2>3. CASE UNCHANGED <<running, starts>>
    BY <1>0, <2>3
  <2> QED
    BY <1>1, <2>1, <2>2, <2>3 DEF Client, PrintReply, SendMessage
<1> QED
  BY <1>0, <1>1 DEF Next, Server, vars

LEMMA FreshStep ==
  ASSUME Inv, FreshInv, [Next]_vars, NEW c \in Clients, Fresh(c)'
  PROVE  /\ NoClose(inbox', c)
         /\ Rising(mailbox'[c], heard'[c], CountOf(c)')
<1> DEFINE Goal == /\ NoClose(inbox', c)
                   /\ Rising(mailbox'[c], heard'[c], CountOf(c)')
<1>0. /\ TypeOK /\ inbox \in Seq(Packet) /\ mailbox[c] \in Seq(Nat)
      /\ heard[c] \in Nat /\ starts[c] \in Nat /\ CountOf(c) \in Nat
  BY CountType, SMTT(30) DEF Inv, TypeOK
<1>a. ASSUME Fresh(c)
      PROVE  NoClose(inbox, c) /\ Rising(mailbox[c], heard[c], CountOf(c))
  BY <1>a DEF FreshInv
<1>b. UNCHANGED clients => CountOf(c)' = CountOf(c)
  BY DEF CountOf, Slots, FindClient
<1>1. ASSUME NEW d \in Clients, Start(d) PROVE Goal
  <2>1. UNCHANGED clients /\ UNCHANGED <<inbox, saidClose>>
    BY <1>1 DEF Start, serverVars
  <2>2. CASE d = c
    <3>1. /\ starts'[c] = starts[c] + 1 /\ heard'[c] = 0 /\ mailbox'[c] = <<>>
      BY <1>0, <1>1, <2>2 DEF Start, TypeOK
    <3>2. Fresh(c)
      BY <1>0, <2>1, <3>1 DEF Fresh
    <3> QED
      BY <1>0, <1>a, <1>b, <2>1, <3>1, <3>2 DEF Rising
  <2>3. CASE d # c
    <3>1. /\ starts'[c] = starts[c] /\ running'[c] = running[c]
          /\ heard'[c] = heard[c] /\ mailbox'[c] = mailbox[c]
      BY <1>0, <1>1, <2>3 DEF Start, TypeOK
    <3> QED
      BY <1>a, <1>b, <2>1, <3>1 DEF Fresh
  <2> QED
    BY <2>2, <2>3
<1>2. ASSUME NEW d \in Clients, NEW data \in {"text", "CLOSE"}, SendMessage(d, data)
      PROVE  Goal
  <2> DEFINE p == [from |-> d, port |-> "server", data |-> data]
  <2>1. /\ UNCHANGED <<clients, mailbox, running, starts, heard>>
        /\ inbox' = Arrive(inbox, p) /\ p \in Packet
    BY <1>2 DEF SendMessage, serverVars, Packet
  <2>2. saidClose'[c] = IF d = c THEN saidClose[c] \/ data = "CLOSE" ELSE saidClose[c]
    BY <1>0, <1>2 DEF SendMessage, TypeOK
  <2>3. Fresh(c) /\ ~IsClose(p, c)
    BY <2>1, <2>2 DEF Fresh, IsClose
  <2> HIDE DEF p
  <2>4. NoClose(inbox', c)
    BY <1>0, <1>a, <2>1, <2>3, NoCloseKept
  <2> QED
    BY <1>a, <1>b, <2>1, <2>3, <2>4
<1>3. ASSUME NEW d \in Clients, Quit(d) PROVE Goal
  <2> DEFINE p == [from |-> d, port |-> "server", data |-> "CLOSE"]
  <2>1. /\ UNCHANGED <<clients, mailbox, saidClose, starts, heard>>
        /\ inbox' = Arrive(inbox, p) /\ p \in Packet /\ running[d]
        /\ running' = [running EXCEPT ![d] = FALSE]
    BY <1>3 DEF Quit, serverVars, Packet
  <2>2. starts[c] # 0 => running'[c]
    BY <2>1 DEF Fresh
  <2>3. d # c
    BY <1>0, <2>1, <2>2 DEF TypeOK, FreshInv
  <2>4. Fresh(c) /\ ~IsClose(p, c)
    BY <1>0, <2>1, <2>3 DEF Fresh, IsClose, TypeOK
  <2> HIDE DEF p
  <2>5. NoClose(inbox', c)
    BY <1>0, <1>a, <2>1, <2>4, NoCloseKept
  <2> QED
    BY <1>a, <1>b, <2>1, <2>4, <2>5
<1>4. ASSUME NEW d \in Clients, Crash(d) PROVE Goal
  <2>1. /\ UNCHANGED <<clients, inbox, mailbox, saidClose, starts, heard>>
        /\ running'[c] => running[c]
    BY <1>0, <1>4 DEF Crash, serverVars, TypeOK
  <2> QED
    BY <1>a, <1>b, <2>1 DEF Fresh
<1>5. ASSUME NEW d \in Clients, PrintReply(d) PROVE Goal
  <2>1. UNCHANGED <<clients, inbox, saidClose, starts, running>>
    BY <1>5 DEF PrintReply, serverVars
  <2>2. Fresh(c)
    BY <2>1 DEF Fresh
  <2>3. CASE d = c
    <3>1. /\ mailbox[c] # <<>> /\ mailbox'[c] = Tail(mailbox[c])
          /\ heard'[c] = Head(mailbox[c])
      BY <1>0, <1>5, <2>3 DEF PrintReply, TypeOK
    <3>2. Rising(Tail(mailbox[c]), Head(mailbox[c]), CountOf(c))
      BY <1>0, <1>a, <2>2, <3>1, RisingKept
    <3> QED
      BY <1>a, <1>b, <2>1, <2>2, <3>1, <3>2
  <2>4. CASE d # c
    <3>1. mailbox'[c] = mailbox[c] /\ heard'[c] = heard[c]
      BY <1>0, <1>5, <2>4 DEF PrintReply, TypeOK
    <3> QED
      BY <1>a, <1>b, <2>1, <2>2, <3>1
  <2> QED
    BY <2>3, <2>4
<1> DEFINE clientVars == <<running, typed, starts, heard, saidClose>>
<1>c. ASSUME UNCHANGED clientVars PROVE Fresh(c) /\ heard'[c] = heard[c]
  BY <1>c DEF Fresh
<1>6. ASSUME Skip \/ Refuse, UNCHANGED clientVars PROVE Goal
  <2>1. /\ inbox # <<>> /\ inbox' = Tail(inbox)
        /\ UNCHANGED <<clients, mailbox>>
    BY <1>6 DEF Skip, Refuse, serverVars
  <2>2. NoClose(inbox', c)
    BY <1>0, <1>6, <1>a, <1>c, <2>1, NoCloseKept
  <2> QED
    BY <1>6, <1>a, <1>b, <1>c, <2>1, <2>2
<1>7. ASSUME Close, UNCHANGED clientVars PROVE Goal
  <2>1. /\ inbox # <<>> /\ inbox' = Tail(inbox) /\ UNCHANGED mailbox
        /\ Head(inbox).port = "server" /\ Head(inbox).data = "CLOSE"
    BY <1>7 DEF Close
  <2>2. NoClose(inbox', c) /\ ~IsClose(Head(inbox), c)
    BY <1>0, <1>7, <1>a, <1>c, <2>1, NoCloseKept
  <2>3. Head(inbox).from # c
    BY <2>1, <2>2 DEF IsClose
  <2>4. CountOf(c)' = CountOf(c)
    BY <1>7, <2>3, CloseEffect
  <2> QED
    BY <1>7, <1>a, <1>c, <2>1, <2>2, <2>4
<1>8. ASSUME Echo, UNCHANGED clientVars PROVE Goal
  <2> DEFINE d == Head(inbox).from
             n == CountOf(d) + 1
             p == [from |-> d, port |-> "client", data |-> "text"]
  <2>1. /\ d \in Clients /\ Reply(d, n)
        /\ CountOf(c)' = IF c = d THEN n ELSE CountOf(c)
    BY <1>8, EchoEffect
  <2>2. p \in Packet /\ ~IsClose(p, c)
    BY <2>1 DEF Packet, IsClose
  <2>3. NoClose(Tail(inbox), c) /\ Tail(inbox) \in Seq(Packet)
    BY <1>0, <1>8, <1>a, <1>c, NoCloseKept, HeadTailProperties DEF Echo
  <2>4. inbox' = Arrive(Tail(inbox), p)
    BY <2>1 DEF Reply
  <2>5. NoClose(inbox', c)
    <3> HIDE DEF p
    <3> QED
      BY <2>2, <2>3, <2>4, NoCloseKept
  <2>6. Rising(mailbox[c], heard[c], CountOf(c)) /\ heard'[c] = heard[c]
    BY <1>8, <1>a, <1>c
  <2>7. CASE d = c
    <3>1. mailbox'[c] = Arrive(mailbox[c], CountOf(c) + 1) \/ mailbox'[c] = mailbox[c]
      BY <1>0, <2>1, <2>7 DEF Reply, TypeOK
    <3>2. /\ Rising(mailbox[c], heard[c], CountOf(c) + 1)
          /\ Rising(Arrive(mailbox[c], CountOf(c) + 1), heard[c], CountOf(c) + 1)
      BY <1>0, <2>6, RisingKept
    <3>3. CountOf(c)' = CountOf(c) + 1
      BY <2>1, <2>7
    <3> QED
      BY <2>5, <2>6, <3>1, <3>2, <3>3
  <2>8. CASE d # c
    <3>1. mailbox'[c] = mailbox[c]
      BY <1>0, <2>1, <2>8 DEF Reply, TypeOK
    <3>2. CountOf(c)' = CountOf(c)
      BY <2>1, <2>8
    <3> QED
      BY <2>5, <2>6, <3>1, <3>2
  <2> QED
    BY <2>7, <2>8
<1>9. CASE UNCHANGED vars
  BY <1>9, <1>a, <1>b DEF vars, Fresh
<1> QED
  BY <1>1, <1>2, <1>3, <1>4, <1>5, <1>6, <1>7, <1>8, <1>9
  DEF Next, Server, Client

LEMMA FreshHolds == Spec => [](Inv /\ FreshInv)
<1>1. Init => Inv /\ FreshInv
  BY InvInit, FreshInit
<1>2. Inv /\ FreshInv /\ [Next]_vars => (Inv /\ FreshInv)'
  <2>1. ASSUME Inv, FreshInv, [Next]_vars PROVE FreshInv'
    BY <2>1, StartedStep, FreshStep DEF FreshInv
  <2> QED
    BY <2>1, InvStep
<1> QED
  BY <1>1, <1>2, PTL DEF Spec

\* A client that was started once and has not said CLOSE prints higher and
\* higher numbers, whatever the socket buffers lose and whoever else comes,
\* leaves or crashes.
THEOREM NumbersGoUp == Spec => HeardGoesUp
<1>1. Inv /\ FreshInv /\ [Next]_vars =>
        \A c \in Clients :
          PrintReply(c) /\ starts[c] = 1 /\ ~saidClose[c] => heard'[c] > heard[c]
  <2> SUFFICES ASSUME Inv, FreshInv, NEW c \in Clients, PrintReply(c),
                      starts[c] = 1, ~saidClose[c]
               PROVE  heard'[c] > heard[c]
    OBVIOUS
  <2>1. /\ TypeOK /\ OneSlotEach /\ mailbox[c] \in Seq(Nat) /\ heard[c] \in Nat
        /\ mailbox[c] # <<>> /\ heard'[c] = Head(mailbox[c])
    BY DEF Inv, TypeOK, PrintReply
  <2>2. Rising(mailbox[c], heard[c], CountOf(c)) /\ CountOf(c) \in Nat
    BY <2>1, CountType DEF FreshInv, Fresh, PrintReply
  <2>3. heard[c] < Head(mailbox[c])
    BY <2>1, <2>2, RisingKept
  <2>4. Head(mailbox[c]) \in Nat
    BY <2>1, HeadTailProperties
  <2> QED
    BY <2>1, <2>3, <2>4
<1> QED
  BY <1>1, FreshHolds, PTL DEF Spec, HeardGoesUp

-----------------------------------------------------------------------------
(* The refinement. *)

Counts == [c \in Clients |-> CountOf(c)]

LEMMA SessionsFit ==
  ASSUME Inv
  PROVE  Cardinality({c \in Clients : Counts[c] > 0}) <= Len(clients)
<1> DEFINE S == {c \in Clients : Counts[c] > 0}
           f == [i \in 1 .. Len(clients) |-> clients[i].peer]
<1>1. /\ clients \in Seq(Entry) /\ OneSlot(clients) /\ Len(clients) \in Nat
      /\ DOMAIN clients = 1 .. Len(clients)
      /\ \A i \in 1 .. Len(clients) : clients[i] \in Entry
  BY LenProperties, ElementOfSeq DEF Inv, TypeOK, OneSlotEach, OneSlot
<1>2. \A i \in 1 .. Len(clients) : CountOf(clients[i].peer) = clients[i].counter
  BY <1>1, FindUnique
<1>3. f \in [1 .. Len(clients) -> S]
  BY <1>1, <1>2 DEF Entry, Counts
<1>4. \A s \in S : \E i \in 1 .. Len(clients) : f[i] = s
  <2> SUFFICES ASSUME NEW s \in S PROVE \E i \in 1 .. Len(clients) : clients[i].peer = s
    OBVIOUS
  <2>1. CountOf(s) > 0
    BY DEF Counts
  <2>2. Slots(s) # {}
    BY <2>1, NoSlot
  <2> QED
    BY <1>1, <2>2 DEF Slots
<1>5. f \in Surjection(1 .. Len(clients), S)
  BY <1>3, <1>4, Fun_IsSurj
<1>6. IsFiniteSet(1 .. Len(clients)) /\ Cardinality(1 .. Len(clients)) = Len(clients)
  <2>1. IsFiniteSet(1 .. Len(clients))
    BY <1>1, FS_Interval
  <2>2. CASE Len(clients) = 0
    <3>1. 1 .. Len(clients) = {}
      BY <2>2
    <3> QED
      BY <2>1, <2>2, <3>1, FS_EmptySet
  <2>3. CASE Len(clients) # 0
    <3>1. Cardinality(1 .. Len(clients)) = IF 1 > Len(clients) THEN 0 ELSE Len(clients) - 1 + 1
      BY <1>1, FS_Interval
    <3> QED
      BY <1>1, <2>1, <2>3, <3>1
  <2> QED
    BY <2>2, <2>3
<1>7. Cardinality(S) <= Cardinality(1 .. Len(clients))
  BY <1>5, <1>6, FS_Surjection
<1> QED
  BY <1>6, <1>7

\* The shifted table and its linear search are a count per peer: every step
\* of the server is a step of that peer's session, or none of any.
THEOREM ServerImplementsSessions == Spec => ImplementsSessions
<1> USE EchoAssumption
<1>1. Init => Sessions!Init
  <2> SUFFICES ASSUME Init PROVE Sessions!Init
    OBVIOUS
  <2>1. \A c : Slots(c) = {}
    BY DEF Init, Slots
  <2>2. \A c : CountOf(c) = 0
    BY <2>1, NoSlot
  <2> QED
    BY <2>2 DEF Init, Sessions!Init
<1>2. ASSUME Inv, [Next]_vars
      PROVE  [Sessions!Next]_<<Counts, sent>>
  <2>1. ASSUME UNCHANGED clients, UNCHANGED sent PROVE UNCHANGED <<Counts, sent>>
    BY <2>1 DEF Counts, CountOf, Slots, FindClient
  <2>2. CASE Echo
    <3> DEFINE c == Head(inbox).from
    <3>1. /\ c \in Clients /\ CountOf(c) \in Nat
          /\ Slots(c) = {} => Len(clients) < MaxClients
          /\ Slots(c) # {} => CountOf(c) > 0
          /\ \A d : CountOf(d)' = IF d = c THEN CountOf(c) + 1 ELSE CountOf(d)
          /\ Reply(c, CountOf(c) + 1)
      BY <1>2, <2>2, EchoEffect
    <3>2. Sessions!Asks(c, "text")
      <4>1. Head(inbox) \in Packet /\ inbox # <<>>
            /\ Head(inbox).port = "server" /\ Head(inbox).data # "CLOSE"
        BY <1>2, <2>2, HeadTailProperties DEF Inv, TypeOK, Echo
      <4> QED
        BY <4>1 DEF Sessions!Asks, Packet
    <3>3. Counts[c] > 0 \/ Cardinality({d \in Clients : Counts[d] > 0}) < MaxClients
      <4>1. Counts[c] = CountOf(c)
        BY <3>1 DEF Counts
      <4>2. CASE Slots(c) = {}
        <5>1. Cardinality({d \in Clients : Counts[d] > 0}) <= Len(clients)
          BY <1>2, SessionsFit
        <5>2. IsFiniteSet({d \in Clients : Counts[d] > 0})
          BY FS_Subset
        <5>3. Cardinality({d \in Clients : Counts[d] > 0}) \in Nat
          BY <5>2, FS_CardinalityType
        <5>4. Len(clients) \in Nat
          BY <1>2, LenProperties DEF Inv, TypeOK
        <5> QED
          BY <3>1, <4>2, <5>1, <5>3, <5>4
      <4> QED
        BY <3>1, <4>1, <4>2
    <3>4. Counts' = [Counts EXCEPT ![c] = @ + 1]
      BY <3>1 DEF Counts
    <3>5. sent' = [sent EXCEPT ![c] = [n |-> Counts[c] + 1, total |-> @.total + 1]]
      BY <3>1 DEF Reply, Counts
    <3>6. Sessions!Answer(c)
      <4> DEFINE n == [d \in Clients |-> CountOf(d)]
      <4>1. n = Counts /\ n' = Counts'
        BY DEF Counts
      <4>2. n[c] > 0 \/ Sessions!Cardinality(Sessions!Sessions) < MaxClients
        <5>1. Sessions!Sessions = {d \in Clients : Counts[d] > 0}
          BY <4>1 DEF Sessions!Sessions
        <5>2. \A S : Sessions!Cardinality(S) = Cardinality(S)
          BY DEF Sessions!Cardinality, Cardinality
        <5> QED
          BY <3>3, <4>1, <5>1, <5>2
      <4>3. /\ n' = [n EXCEPT ![c] = @ + 1]
            /\ sent' = [sent EXCEPT ![c] = [n |-> n[c] + 1, total |-> @.total + 1]]
        BY <3>4, <3>5, <4>1
      <4> QED
        BY <3>2, <4>2, <4>3 DEF Sessions!Answer
    <3> QED
      BY <3>1, <3>6 DEF Sessions!Next
  <2>3. CASE Close
    <3> DEFINE c == Head(inbox).from
    <3>1. /\ c \in Clients
          /\ \A d : CountOf(d)' = IF d = c THEN 0 ELSE CountOf(d)
      BY <1>2, <2>3, CloseEffect
    <3>2. Sessions!Asks(c, "CLOSE")
      BY <2>3 DEF Sessions!Asks, Close
    <3>3. Counts' = [Counts EXCEPT ![c] = 0]
      BY <3>1 DEF Counts
    <3>4. Sessions!Close(c)
      BY <2>3, <3>2, <3>3 DEF Sessions!Close, Close, Counts
    <3> QED
      BY <3>1, <3>4 DEF Sessions!Next
  <2>4. CASE Skip \/ Refuse
    BY <2>1, <2>4 DEF Skip, Refuse, serverVars
  <2>5. ASSUME NEW c \in Clients, Client(c) PROVE UNCHANGED <<Counts, sent>>
    BY <2>1, <2>5
    DEF Client, Start, Quit, Crash, PrintReply, SendMessage, serverVars
  <2>6. CASE UNCHANGED vars
    BY <2>1, <2>6 DEF vars
  <2> QED
    BY <1>2, <2>2, <2>3, <2>4, <2>5, <2>6 DEF Next, Server
<1>3. [][Next]_vars /\ []Inv => [][Sessions!Next]_<<Counts, sent>>
  BY <1>2, PTL
<1> QED
  BY <1>1, <1>3, InvHolds, PTL DEF Spec, ImplementsSessions, Sessions!Spec, Counts
=============================================================================
