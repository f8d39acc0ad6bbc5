----------------------------- MODULE PollServer -----------------------------
(***************************************************************************)
(* The poll calculator server, 3.18/server.c: one process that accepts     *)
(* every waiting client when the listening socket is readable and runs     *)
(* dostuff for one after the other, blocking.                              *)
(***************************************************************************)
EXTENDS Calculator

CONSTANTS
  Listener,  \* listen_sd
  Closed     \* -1

\* Every descriptor is one of another kind.
ASSUME PollAssumption ==
  Listener # Closed /\ Listener \notin Clients /\ Closed \notin Clients

VARIABLES
  pc,            \* where main is
  fds,           \* fds[0 .. nfds-1], each the client, Listener or Closed
  revents,       \* the revents field of each of them
  i,             \* the scan's index
  currentSize,   \* current_size
  compress,      \* compress_array
  endServer,     \* end_server
  arrivals       \* the clients in the order they connected

pollVars == <<calcVars, pc, fds, revents, i, currentSize, compress, endServer,
              backlog, arrivals>>
mainVars == <<pc, fds, revents, i, currentSize, compress, endServer>>

Descriptor == Clients \cup {Listener, Closed}

PollTypeOK ==
  /\ CalcTypeOK
  /\ pc          \in {"poll", "scan", "dostuff", "compress", "ended"}
  /\ fds         \in Seq(Descriptor)
  /\ revents     \in Seq({"none", "POLLIN", "error"})
  /\ Len(fds) = Len(revents)
  /\ i           \in 1 .. Len(fds) + 1
  /\ currentSize \in 1 .. Len(fds)
  /\ compress    \in BOOLEAN
  /\ endServer   \in BOOLEAN
  /\ backlog     \in Seq(Clients)
  /\ arrivals    \in Seq(Clients)

PollInit ==
  /\ CalcInit
  /\ pc = "poll"
  /\ fds = <<Listener>> /\ revents = <<"none">>
  /\ i = 1 /\ currentSize = 1
  /\ compress = FALSE /\ endServer = FALSE
  /\ backlog = <<>> /\ arrivals = <<>>

\* As long as there is a listening socket.
PollConnect(c) ==
  /\ pc # "ended"
  /\ Connect(c)
  /\ arrivals' = Append(arrivals, c)
  /\ UNCHANGED mainVars

-----------------------------------------------------------------------------
(* main. *)

Event(fd) ==
  CASE fd = Listener -> IF backlog # <<>> THEN "POLLIN" ELSE "none"
    [] fd = Closed -> "none"
    [] OTHER -> IF conn[fd] = "broken" THEN "error"
                ELSE IF Readable(fd) THEN "POLLIN" ELSE "none"

\* Mutant: the scan looks at one entry too many.
PollOffByOne ==
  /\ pc = "poll"
  /\ revents' = [k \in DOMAIN fds |-> Event(fds[k])]
  /\ \E k \in DOMAIN fds : revents'[k] # "none"
  /\ i' = 1 /\ currentSize' = Len(fds) + 1
  /\ pc' = "scan"
  /\ UNCHANGED <<calcVars, fds, compress, endServer, backlog, arrivals>>

Poll ==
  /\ pc = "poll"
  /\ revents' = [k \in DOMAIN fds |-> Event(fds[k])]
  /\ \E k \in DOMAIN fds : revents'[k] # "none"
  /\ i' = 1 /\ currentSize' = Len(fds)
  /\ pc' = "scan"
  /\ UNCHANGED <<calcVars, fds, compress, endServer, backlog, arrivals>>

\* The server is over: its sockets are closed.
Shutdown ==
  /\ pc' = "ended"
  /\ conn' = [c \in Clients |-> IF conn[c] = "none" THEN "none" ELSE "over"]
  /\ backlog' = <<>>

\* Nothing happened for 60 seconds.
TimeOut ==
  /\ pc = "poll"
  /\ \A k \in DOMAIN fds : Event(fds[k]) = "none"
  /\ Shutdown
  /\ UNCHANGED <<asked, pending, typed, stuffVars, fds, revents, i, currentSize,
                 compress, endServer, arrivals>>

Accepting == /\ pc = "scan" /\ i <= currentSize
             /\ revents[i] = "POLLIN" /\ fds[i] = Listener

\* Mutant: the scan's bound does not grow with the table.
AcceptSameSize ==
  /\ Accepting
  /\ backlog # <<>>
  /\ fds' = Append(fds, Head(backlog))
  /\ revents' = Append(revents, "POLLIN")
  /\ backlog' = Tail(backlog)
  /\ UNCHANGED <<calcVars, pc, i, currentSize, compress, endServer, arrivals>>

\* An accepted connection is marked readable and so served in this scan.
PollAccept ==
  /\ Accepting
  /\ backlog # <<>>
  /\ fds' = Append(fds, Head(backlog))
  /\ revents' = Append(revents, "POLLIN")
  /\ currentSize' = currentSize + 1
  /\ backlog' = Tail(backlog)
  /\ UNCHANGED <<calcVars, pc, i, compress, endServer, arrivals>>

\* The scan goes on behind an entry without an event, and behind the listener
\* when nobody waits any more (EWOULDBLOCK).  Any event but POLLIN ends the
\* scan and the server.
Advance ==
  /\ pc = "scan" /\ i <= currentSize
  /\ revents[i] = "POLLIN" => fds[i] = Listener /\ backlog = <<>>
  /\ i' = IF revents[i] = "error" THEN i ELSE i + 1
  /\ pc' = IF revents[i] = "error" THEN "compress" ELSE "scan"
  /\ endServer' = (endServer \/ revents[i] = "error")
  /\ UNCHANGED <<calcVars, fds, revents, currentSize, compress, backlog, arrivals>>

Serve ==
  /\ pc = "scan" /\ i <= currentSize
  /\ revents[i] = "POLLIN" /\ fds[i] # Listener
  /\ stage' = [stage EXCEPT ![fds[i]] = "menu"]
  /\ pc' = "dostuff"
  /\ UNCHANGED <<clientVars, buff, args, shown, fds, revents, i, currentSize,
                 compress, endServer, backlog, arrivals>>

PollDoStuff ==
  /\ pc = "dostuff"
  /\ DoStuff(fds[i])
  /\ UNCHANGED <<mainVars, backlog, arrivals>>

\* Mutant: the closed descriptor stays in the table.
EndServiceKeepsEntry ==
  /\ pc = "dostuff" /\ stage[fds[i]] = "returned"
  /\ conn' = [conn EXCEPT ![fds[i]] = "over"]
  /\ compress' = TRUE
  /\ i' = i + 1
  /\ pc' = "scan"
  /\ UNCHANGED <<asked, pending, typed, stuffVars, fds, revents, currentSize,
                 endServer, backlog, arrivals>>

\* dostuff returned: the connection is closed.
EndService ==
  /\ pc = "dostuff" /\ stage[fds[i]] = "returned"
  /\ conn' = [conn EXCEPT ![fds[i]] = "over"]
  /\ fds'  = [fds EXCEPT ![i] = Closed]
  /\ compress' = TRUE
  /\ i' = i + 1
  /\ pc' = "scan"
  /\ UNCHANGED <<asked, pending, typed, stuffVars, revents, currentSize, endServer,
                 backlog, arrivals>>

\* A signal or an error exit within dostuff ends the whole server.
Die ==
  /\ pc = "dostuff" /\ stage[fds[i]] = "died"
  /\ Shutdown
  /\ UNCHANGED <<asked, pending, typed, stuffVars, fds, revents, i, currentSize,
                 compress, endServer, arrivals>>

ScanDone ==
  /\ pc = "scan" /\ i > currentSize
  /\ pc' = "compress"
  /\ UNCHANGED <<calcVars, fds, revents, i, currentSize, compress, endServer,
                 backlog, arrivals>>

\* Mutant: the index is not taken back when an entry was removed.
KeptSkipping(table) ==
  LET removed[k \in DOMAIN table] ==
        table[k] = Closed /\ (k > 1 => ~removed[k - 1])
  IN  {k \in DOMAIN table : ~removed[k]}

\* The entries that stay: a closed one is overwritten by those that follow
\* it, and its place is looked at again.
Kept(table) == {k \in DOMAIN table : table[k] # Closed}

\* Those entries, moved down in their order.
Compressed(table) ==
  LET kept == Kept(table)
      Rank(k) == Cardinality({j \in kept : j <= k})
  IN  [n \in 1 .. Cardinality(kept) |-> table[CHOOSE k \in kept : Rank(k) = n]]

\* Only the fd fields move; the revents fields stay until the next poll.
Compress ==
  /\ pc = "compress"
  /\ fds' = IF compress THEN Compressed(fds) ELSE fds
  /\ revents' = SubSeq(revents, 1, Len(fds'))
  /\ i' = 1 /\ currentSize' = Len(fds')
  /\ compress' = FALSE
  /\ IF endServer THEN Shutdown ELSE pc' = "poll" /\ UNCHANGED <<conn, backlog>>
  /\ UNCHANGED <<asked, pending, typed, stuffVars, endServer, arrivals>>

Server ==
  \/ Poll \/ PollAccept \/ Advance \/ Serve \/ PollDoStuff
  \/ EndService \/ Die \/ ScanDone \/ Compress

PollUser(c) == User(c) /\ UNCHANGED <<mainVars, backlog, arrivals>>

PollNext == Server \/ TimeOut \/ \E c \in Clients : PollConnect(c) \/ PollUser(c)

PollSpec == PollInit /\ [][PollNext]_pollVars

\* The server runs, and users answer or leave.
PollFairSpec ==
  /\ PollSpec
  /\ WF_pollVars(Server)
  /\ \A c \in Clients :
       WF_pollVars(UserAnswers(c) /\ UNCHANGED <<mainVars, backlog, arrivals>>)

-----------------------------------------------------------------------------
(* Properties. *)

\* Whenever the server polls, the listening socket is all it polls: every
\* connection accepted was served, closed and swept out of the table.  So the
\* scan meets no event but POLLIN, and end_server is never set.
PollsListenerAlone ==
  /\ pc = "poll" => fds = <<Listener>>
  /\ pc = "scan" => \A k \in 1 .. currentSize : revents[k] = "POLLIN"
  /\ ~endServer

\* Nobody is overtaken or served twice: those who arrived first have been
\* served, and the others wait in the order in which they arrived, first at
\* the end of the table, then in the backlog.
ServedInOrder ==
  pc # "ended" =>
    \E k \in 1 .. Len(fds) + 1, n \in 0 .. Len(arrivals) :
      /\ \A j \in 1 .. Len(fds) : fds[j] \in Clients <=> j >= k
      /\ \A j \in 1 .. Len(arrivals) : conn[arrivals[j]] = "over" <=> j <= n
      /\ SubSeq(arrivals, n + 1, Len(arrivals)) = SubSeq(fds, k, Len(fds)) \o backlog

\* A connection is closed in the end, however many wait and whenever their
\* clients leave, as long as users answer or leave.
EveryoneServed ==
  \A c \in Clients :
    conn[c] \in {"open", "closed", "broken"} ~> conn[c] = "over"
=============================================================================
