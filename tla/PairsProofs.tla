---------------------------- MODULE PairsProofs ----------------------------
(***************************************************************************)
(* Proofs about the six pairs of MCPairs, for any values of the constants. *)
(* A behaviour is one of a single pair; the invariant of a pair speaks of  *)
(* its own variables only, which the steps of the other pairs leave alone. *)
(***************************************************************************)
EXTENDS MCPairs, FiniteSetTheorems, SequenceTheorems, TLAPS

LEMMA OneMoves ==
  ASSUME [PairsNext]_allVars
  PROVE  /\ Next \/ UNCHANGED queueVars
         /\ Largest!Next \/ UNCHANGED maxVars
         /\ Udp!Next \/ UNCHANGED udpVars
         /\ Stream!Next \/ UNCHANGED bytesVars
         /\ Signals!Next \/ UNCHANGED fileVars
         /\ Memory!Next \/ UNCHANGED arrayVars
<1>1. CASE UNCHANGED allVars
  BY <1>1 DEF allVars
<1>2. CASE PairsNext
  BY <1>2 DEF PairsNext, QueueStep, LargestStep, UdpStep, StreamStep, SignalsStep, MemoryStep
<1> QED
  BY <1>1, <1>2

LEMMA FromStart == PairsSpec => PairsInit /\ [][PairsNext]_allVars
  BY PTL DEF PairsSpec

\* A set of natural numbers has a least one.
LEMMA LeastOf == ASSUME NEW S, S \subseteq Nat, S # {} PROVE \E x \in S : \A y \in S : x <= y
<1>1. IsWellFoundedOn(OpToRel(<, Nat), Nat)
  BY NatLessThanWellFounded
<1>2. PICK x \in S : \A y \in S : ~(<<y, x>> \in OpToRel(<, Nat))
  BY <1>1, WFMin
<1>3. \A y \in Nat : y < x => <<y, x>> \in OpToRel(<, Nat)
  BY Zenon DEF OpToRel
<1>4. \A y \in S : ~(y < x)
  BY <1>2, <1>3, Zenon
<1> QED
  BY <1>4

\* And a bounded one has a greatest.
LEMMA GreatestOf ==
  ASSUME NEW S, NEW N \in Nat, S \subseteq 0 .. N, S # {}
  PROVE  \E x \in S : \A y \in S : y <= x
<1> DEFINE T == {n \in Nat : N - n \in S}
<1>1. T # {} /\ T \subseteq Nat
  <2>1. PICK x \in S : TRUE
    OBVIOUS
  <2>2. x \in 0 .. N
    BY <2>1
  <2>3. N - x \in Nat /\ N - (N - x) = x
    BY <2>2
  <2> QED
    BY <2>1, <2>3
<1>2. PICK t \in T : \A u \in T : t <= u
  BY <1>1, LeastOf
<1>3. t \in Nat /\ N - t \in S
  BY <1>2
<1>4. ASSUME NEW y \in S PROVE y <= N - t
  <2>1. y \in 0 .. N
    OBVIOUS
  <2>2. N - y \in Nat /\ N - (N - y) = y
    BY <2>1
  <2>3. t <= N - y
    BY <1>2, <2>2
  <2> QED
    BY <1>3, <2>1, <2>3
<1> QED
  BY <1>3, <1>4

-----------------------------------------------------------------------------
(* 3.4 and 3.16, stream. *)

\* While the reader reads, what was put is on its way or with it, and the
\* writer's end is open as long as it may write.
StreamInv ==
  /\ Stream!TypeOK
  /\ reader \in {"begin", "read"} => put = got + stream /\ <<"reader", "out">> \in open
  /\ writer \in {"begin", "write"} => <<"writer", "in">> \in open
  /\ writer = "done" => put = Total
  /\ reader = "wait" => counted /\ got = Total
  /\ reader = "done" /\ counted => got = Total
  /\ reader = "done" => writer \in {"done", "failed"}
  /\ reader = "done" /\ writer = "done" => got = Total
  /\ file + missed <= got
  /\ reader \in {"wait", "done"} => file + missed = got

\* What is lost of g and what is not.
LEMMA LossSplits ==
  ASSUME NEW f \in Nat, NEW l \in Nat, NEW g \in Nat, NEW m \in l .. (g - f)
  PROVE  /\ m \in Nat /\ g - m \in Nat
         /\ m \in 0 .. g /\ (g - m) \in 0 .. g /\ (g - m) + m = g
OBVIOUS

\* Saving brings all that was read into the file, or loses it on the way.
LEMMA StreamSaves ==
  ASSUME StreamInv, Stream!Save, got' \in Nat
  PROVE  /\ file' \in 0 .. got' /\ missed' \in 0 .. got'
         /\ file' + missed' = got' /\ file' + missed' <= got'
<1>1. file \in Nat /\ missed \in Nat
  BY PairsAssumption DEF StreamInv, Stream!TypeOK, Stream!StreamAssumption
<1>2. PICK m \in missed .. (got' - file) : missed' = m /\ file' = got' - m
  BY DEF Stream!Save
<1>3. /\ m \in 0 .. got' /\ (got' - m) \in 0 .. got' /\ (got' - m) + m = got'
  BY <1>1, LossSplits, ZenonT(30)
<1>4. file' + missed' = got'
  BY <1>2, <1>3
<1>5. file' + missed' <= got'
  BY <1>4
<1> QED
  BY <1>2, <1>3, <1>4, <1>5

LEMMA StreamBegins == PairsInit => StreamInv
<1> SUFFICES ASSUME Stream!Init, Stream!StreamAssumption PROVE StreamInv
  BY PairsAssumption DEF PairsInit
<1>1. Stream!TypeOK
  BY DEF Stream!Init, Stream!TypeOK, Stream!Ends, Stream!StreamAssumption
<1> QED
  BY <1>1 DEF StreamInv, Stream!Init, Stream!Ends

LEMMA StreamKeeps == ASSUME StreamInv, Stream!Next PROVE StreamInv'
<1>t. /\ Stream!TypeOK /\ Total \in Nat \ {0} /\ Room \in Nat \ {0}
      /\ stream \in 0 .. Room /\ put \in 0 .. Total /\ got \in 0 .. Total
      /\ file \in 0 .. Total /\ missed \in 0 .. Total /\ file + missed <= got
  BY PairsAssumption DEF StreamInv, Stream!TypeOK, Stream!StreamAssumption
<1>1. CASE Stream!WriterBegins
  BY <1>1, <1>t DEF Stream!WriterBegins, Stream!fileVars, StreamInv, Stream!TypeOK
<1>2. CASE Stream!Write
  BY <1>2, <1>t DEF Stream!Write, Stream!fileVars, StreamInv, Stream!TypeOK
<1>3. CASE Stream!WriteBroken
  <2>1. reader \notin {"begin", "read"}
    BY <1>3 DEF Stream!WriteBroken, Stream!Readers, StreamInv
  <2> QED
    BY <1>3, <1>t, <2>1 DEF Stream!WriteBroken, Stream!EndOf, Stream!fileVars, StreamInv, Stream!TypeOK
<1>4. CASE Stream!WriterDone \/ Stream!WriterFails
  BY <1>4, <1>t
     DEF Stream!WriterDone, Stream!WriterFails, Stream!EndOf, Stream!fileVars, StreamInv, Stream!TypeOK
<1>5. CASE Stream!ReaderBegins
  BY <1>5, <1>t DEF Stream!ReaderBegins, Stream!fileVars, StreamInv, Stream!TypeOK
<1>6. CASE Stream!Read
  <2>1. PICK n \in 1 .. stream : stream' = stream - n /\ got' = got + n
    BY <1>6 DEF Stream!Read
  <2>2. put = got + stream /\ reader = "read"
    BY <1>6 DEF Stream!Read, Stream!Wants, StreamInv
  <2>3. /\ stream' \in 0 .. Room /\ got' \in 0 .. Total /\ put = got' + stream'
        /\ got' \in Nat /\ got <= got'
    BY <1>t, <2>1, <2>2
  <2>4. file' \in 0 .. Total /\ missed' \in 0 .. Total /\ file' + missed' <= got'
    <3>1. CASE Stream!Save
      BY <1>t, <2>3, <3>1, StreamSaves
    <3>2. CASE UNCHANGED <<file, missed>>
      BY <1>t, <2>3, <3>2
    <3> QED
      BY <1>6, <3>1, <3>2 DEF Stream!Read, Stream!fileVars
  <2> QED
    BY <1>6, <1>t, <2>2, <2>3, <2>4 DEF Stream!Read, Stream!fileVars, StreamInv, Stream!TypeOK
<1>7. CASE Stream!ReadEnd
  <2>1. /\ reader = "read" /\ stream = 0 /\ put = got
        /\ writer \notin {"begin", "write"}
    BY <1>7, <1>t DEF Stream!ReadEnd, Stream!Wants, Stream!Writers, StreamInv
  <2>2. Stream!Save /\ got' = got /\ got' \in Nat
    BY <1>7, <1>t DEF Stream!ReadEnd
  <2>3. /\ file' \in 0 .. Total /\ missed' \in 0 .. Total
        /\ file' + missed' = got' /\ file' + missed' <= got'
    BY <1>t, <2>2, StreamSaves
  <2>4. /\ reader' = (IF counted THEN "failed" ELSE "done") /\ open' \subseteq open
        /\ UNCHANGED <<counted, writer, stream, put, got>>
        /\ <<"writer", "in">> \in open <=> <<"writer", "in">> \in open'
    BY <1>7 DEF Stream!ReadEnd, Stream!EndOf
  <2> QED
    BY <1>t, <2>1, <2>3, <2>4 DEF StreamInv, Stream!TypeOK
<1>8. CASE Stream!ReadAll
  <2>2. Stream!Save /\ got' = got /\ got' \in Nat
    BY <1>8, <1>t DEF Stream!ReadAll
  <2>3. /\ file' \in 0 .. Total /\ missed' \in 0 .. Total
        /\ file' + missed' = got' /\ file' + missed' <= got'
    BY <1>t, <2>2, StreamSaves
  <2>4. /\ reader = "read" /\ counted /\ got = Total /\ reader' = "wait"
        /\ open' \subseteq open
        /\ <<"writer", "in">> \in open <=> <<"writer", "in">> \in open'
        /\ UNCHANGED <<counted, writer, stream, put, got>>
    BY <1>8 DEF Stream!ReadAll
  <2> QED
    BY <1>t, <2>3, <2>4 DEF StreamInv, Stream!TypeOK
<1>9. CASE Stream!Reap \/ Stream!ReaderFails
  BY <1>9, <1>t
     DEF Stream!Reap, Stream!ReaderFails, Stream!EndOf, Stream!fileVars, StreamInv, Stream!TypeOK
<1> QED
  BY <1>1, <1>2, <1>3, <1>4, <1>5, <1>6, <1>7, <1>8, <1>9
     DEF Stream!Next, Stream!Writer, Stream!Reader

LEMMA StreamInvHolds == PairsSpec => []StreamInv
<1>1. StreamInv /\ [PairsNext]_allVars => StreamInv'
  <2>1. StreamInv /\ UNCHANGED bytesVars => StreamInv'
    BY DEF bytesVars, StreamInv, Stream!TypeOK
  <2> QED
    BY <2>1, OneMoves, StreamKeeps
<1> QED
  BY <1>1, FromStart, StreamBegins, PTL

\* Who reads a stream to a good end has read all that was to be sent, however
\* the writes and the reads divide it, and for every size of the stream; what
\* is not in its file was lost by a write to the file.
THEOREM NothingMissingHolds == PairsSpec => []NothingMissing
<1>1. StreamInv => NothingMissing
  <2> SUFFICES ASSUME StreamInv, reader = "done", counted \/ writer = "done"
               PROVE  got = Total /\ file = Total - missed
    BY DEF NothingMissing, Stream!NothingMissing
  <2>1. got = Total /\ file + missed = got
    BY DEF StreamInv
  <2>2. file \in Nat /\ missed \in Nat /\ Total \in Nat
    BY PairsAssumption DEF StreamInv, Stream!TypeOK, Stream!StreamAssumption
  <2> QED
    BY <2>1, <2>2
<1> QED
  BY <1>1, StreamInvHolds, PTL

-----------------------------------------------------------------------------
(* 3.5, signals. *)

One(b) == IF b THEN 1 ELSE 0

\* What is left of the Starts: a read is still to come of one that is pending,
\* and of one that the child has seen.
StillToRead ==
  One("Start" \in pending)
    + One(child = "read" \/ (child \in {"open", "check"} /\ canRead))

SignalInv ==
  /\ Signals!TypeOK
  /\ parent = "open" => round = 0
  /\ parent = "hold" => round < Numbers
  /\ parent \in {"write", "start"} => round > 0
  /\ parent \in {"sleep", "done"} => round = Numbers
  /\ child = "dead" <=> parent = "done"
  /\ reads + StillToRead <= Signals!StartsSent

\* Where the child is as long as it was never late: it has made the read of
\* every number but the one the parent is at, and kept to its order.
Settled == pending = {} /\ ~canRead /\ child \in {"open", "check"}

Place ==
  \/ parent \in {"open", "hold", "sleep"} /\ Settled /\ reads = round
  \/ /\ parent \in {"write", "start"} /\ pending \subseteq {"Wait"} /\ ~canRead
     /\ child \in {"open", "check"} /\ reads = round - 1
  \/ /\ parent \in {"hold", "sleep"} /\ pending = {"Start"} /\ ~canRead
     /\ child \in {"open", "check"} /\ reads = round - 1
  \/ /\ parent \in {"hold", "sleep"} /\ pending = {} /\ canRead
     /\ child \in {"open", "check", "read"} /\ reads = round - 1
  \/ /\ parent \in {"hold", "sleep"} /\ pending = {} /\ canRead
     /\ child = "clear" /\ reads = round
  \/ parent = "done" /\ child = "dead" /\ reads = round

\* The number written since the child's last read, if any.
Newest == IF parent = "start" \/ (parent # "write" /\ reads = round - 1)
          THEN Signals!Widest ELSE 0

Behind == \/ size - offset <= Newest
          \/ size - offset <= Newest + old - reads * (ReadSize - Signals!Widest)

TimeInv ==
  ~late =>
    /\ Place
    /\ child = "open" => reads = 0 /\ offset = 0
    /\ child = "open" \/ opened => Behind

LEMMA WidestIs ==
  /\ ReadSize \in Nat /\ Signals!Widest \in 1 .. ReadSize
  /\ \A w \in Widths : w \in 1 .. ReadSize /\ w <= Signals!Widest
<1>1. Widths \subseteq 0 .. ReadSize /\ Widths # {} /\ ReadSize \in Nat /\ Widths \subseteq 1 .. ReadSize
  BY PairsAssumption DEF Signals!SignalAssumption
<1>2. \E w \in Widths : \A v \in Widths : v <= w
  BY <1>1, GreatestOf
<1> QED
  BY <1>1, <1>2 DEF Signals!Widest

LEMMA SignalBegins == PairsInit => SignalInv /\ TimeInv
<1> SUFFICES ASSUME Signals!Init, Signals!SignalAssumption PROVE SignalInv /\ TimeInv
  BY PairsAssumption DEF PairsInit
<1>1. old \in 0 .. MaxOld /\ old \in Nat /\ Numbers \in Nat
  BY DEF Signals!Init, Signals!SignalAssumption
<1>2. Signals!TypeOK
  <2>1. round \in 0 .. Numbers /\ size \in Nat /\ offset \in 0 .. size /\ reads \in Nat
    BY <1>1 DEF Signals!Init
  <2>2. present \in BOOLEAN /\ pending \subseteq {"Wait", "Start"}
    BY DEF Signals!Init
  <2>3. tty \in BOOLEAN /\ printed \in 0 .. offset
    BY DEF Signals!Init
  <2> QED
    BY <1>1, <2>1, <2>2, <2>3 DEF Signals!Init, Signals!TypeOK
<1>3. SignalInv
  BY <1>1, <1>2 DEF SignalInv, Signals!Init, StillToRead, One, Signals!StartsSent
<1>4. Signals!Widest \in Nat /\ ReadSize \in Nat
  BY WidestIs
<1>5. Newest = 0 /\ size - offset = old /\ 0 * (ReadSize - Signals!Widest) = 0
  BY <1>1, <1>4 DEF Signals!Init, Newest
<1>6. Behind
  BY <1>1, <1>5 DEF Behind, Signals!Init
<1> QED
  BY <1>3, <1>6 DEF TimeInv, Place, Settled, Signals!Init

LEMMA SignalTypes ==
  ASSUME SignalInv
  PROVE  /\ Numbers \in Nat /\ ReadSize \in Nat /\ round \in Nat /\ round <= Numbers
         /\ reads \in Nat /\ size \in Nat /\ offset \in 0 .. size /\ offset \in Nat
         /\ old \in Nat /\ Signals!TypeOK /\ pending \subseteq {"Wait", "Start"}
<1>1. Signals!TypeOK
  BY DEF SignalInv
<1>2. round \in 0 .. Numbers /\ offset \in 0 .. size /\ size \in Nat /\ old \in 0 .. MaxOld
  BY <1>1 DEF Signals!TypeOK
<1> QED
  BY <1>1, <1>2, PairsAssumption DEF Signals!TypeOK, Signals!SignalAssumption

LEMMA FewerStay ==
  ASSUME NEW n \in Int, NEW a \in Int, NEW b \in Int, NEW most \in Int, n + a <= most, b <= a
  PROVE  n + b <= most
OBVIOUS

LEMMA SignalKeeps == ASSUME SignalInv, Signals!Next PROVE SignalInv'
<1>t. /\ Numbers \in Nat /\ ReadSize \in Nat /\ round \in Nat /\ round <= Numbers
      /\ reads \in Nat /\ size \in Nat /\ offset \in 0 .. size /\ offset \in Nat
      /\ Signals!TypeOK
  BY SignalTypes
<1> DEFINE Others == /\ parent' = "open" => round' = 0
                     /\ parent' = "hold" => round' < Numbers
                     /\ parent' \in {"write", "start"} => round' > 0
                     /\ parent' \in {"sleep", "done"} => round' = Numbers
                     /\ child' = "dead" <=> parent' = "done"
           Asked == reads' + StillToRead' <= (Signals!StartsSent)'
<1>1. CASE Signals!ParentOpens
  <2>1. Signals!TypeOK'
    BY <1>1, <1>t DEF Signals!ParentOpens, Signals!childVars, Signals!TypeOK
  <2>2. Others /\ Asked
    BY <1>1, <1>t DEF Signals!ParentOpens, Signals!childVars, SignalInv, StillToRead, One,
                      Signals!StartsSent
  <2> QED
    BY <2>1, <2>2 DEF SignalInv
<1>2. CASE Signals!SendWait
  <2>0. round' = round + 1 /\ round' \in 0 .. Numbers /\ round' > 0
    BY <1>2, <1>t DEF Signals!SendWait, SignalInv
  <2>1. Signals!TypeOK'
    BY <1>2, <1>t, <2>0 DEF Signals!SendWait, Signals!Signals, Signals!childVars,
                       Signals!TypeOK, Signals!Settled
  <2>2. Others
    BY <1>2, <1>t, <2>0 DEF Signals!SendWait, Signals!childVars, SignalInv
  <2>3. Asked
    BY <1>2, <1>t, <2>0 DEF Signals!SendWait, Signals!Signals, Signals!childVars, SignalInv,
                      StillToRead, One, Signals!StartsSent
  <2> QED
    BY <2>1, <2>2, <2>3 DEF SignalInv
<1>3. CASE Signals!AppendNumber
  <2>0. PICK w \in Widths : size' = size + w
    BY <1>3 DEF Signals!AppendNumber
  <2>1. size' \in Nat /\ offset \in 0 .. size'
    BY <1>t, <2>0, WidestIs
  <2>2. Signals!TypeOK'
    BY <1>3, <1>t, <2>1 DEF Signals!AppendNumber, Signals!childVars, Signals!TypeOK
  <2>3. Others /\ Asked
    BY <1>3, <1>t DEF Signals!AppendNumber, Signals!childVars, SignalInv, StillToRead, One,
                      Signals!StartsSent
  <2> QED
    BY <2>2, <2>3 DEF SignalInv
<1>4. CASE Signals!SendStart
  <2>1. Signals!TypeOK'
    BY <1>4, <1>t DEF Signals!SendStart, Signals!Signals, Signals!childVars, Signals!TypeOK,
                      Signals!Settled
  <2>2. Others
    BY <1>4, <1>t DEF Signals!SendStart, Signals!childVars, SignalInv
  <2>3. Asked
    BY <1>4, <1>t DEF Signals!SendStart, Signals!Signals, Signals!childVars, SignalInv,
                      StillToRead, One, Signals!StartsSent
  <2> QED
    BY <2>1, <2>2, <2>3 DEF SignalInv
<1>5. CASE Signals!KillChild
  <2>1. Signals!TypeOK'
    BY <1>5, <1>t DEF Signals!KillChild, Signals!TypeOK, Signals!Settled
  <2>2. Others /\ Asked
    BY <1>5, <1>t DEF Signals!KillChild, SignalInv, StillToRead, One, Signals!StartsSent
  <2> QED
    BY <2>1, <2>2 DEF SignalInv
<1>6. ASSUME NEW s \in {"Wait", "Start"}, Signals!Handle(s) PROVE SignalInv'
  <2>1. Signals!TypeOK'
    BY <1>6, <1>t DEF Signals!Handle, Signals!parentVars, Signals!TypeOK
  <2>2. Others
    BY <1>6, <1>t DEF Signals!Handle, Signals!parentVars, SignalInv
  <2>3. StillToRead' <= StillToRead /\ StillToRead \in Nat /\ StillToRead' \in Nat
    <3>1. /\ pending' = pending \ {s} /\ canRead' = (s = "Start") /\ child' = child
          /\ s \in pending
      BY <1>6 DEF Signals!Handle
    <3>c. canRead' <=> s = "Start"
      BY <3>1
    <3>2. CASE s = "Wait"
      BY <3>1, <3>c, <3>2 DEF StillToRead, One
    <3>3. CASE s = "Start"
      BY <3>1, <3>c, <3>3 DEF StillToRead, One
    <3> QED
      BY <3>2, <3>3
  <2>4. reads' = reads /\ (Signals!StartsSent)' = Signals!StartsSent
    BY <1>6 DEF Signals!Handle, Signals!parentVars, Signals!StartsSent
  <2>5. Signals!StartsSent \in Int /\ reads + StillToRead <= Signals!StartsSent
    BY <1>t DEF Signals!StartsSent, SignalInv
  <2>6. reads + StillToRead' <= Signals!StartsSent
    <3>1. reads \in Int /\ StillToRead \in Int
      BY <1>t, <2>3
    <3>2. StillToRead' \in Int
      BY <2>3
    <3>3. StillToRead' <= StillToRead
      BY <2>3
    <3>4. reads + StillToRead <= Signals!StartsSent /\ Signals!StartsSent \in Int
      BY <2>5
    <3> QED
      BY <3>1, <3>2, <3>3, <3>4, FewerStay
  <2>7. Asked
    BY <2>4, <2>6
  <2> QED
    BY <2>1, <2>2, <2>7 DEF SignalInv
<1>7. CASE Signals!ChildOpens \/ Signals!Check \/ Signals!Clear
  <2>1. Signals!TypeOK'
    BY <1>7, <1>t DEF Signals!ChildOpens, Signals!Check, Signals!Clear, Signals!parentVars,
                      Signals!TypeOK
  <2>2. Others /\ Asked
    BY <1>7, <1>t DEF Signals!ChildOpens, Signals!Check, Signals!Clear, Signals!parentVars,
                      SignalInv, StillToRead, One, Signals!StartsSent
  <2> QED
    BY <2>1, <2>2 DEF SignalInv
<1>8. CASE Signals!Read
  <2>1. offset' \in 0 .. size
    BY <1>8, <1>t DEF Signals!Read, Signals!Least
  <2>2. Signals!TypeOK'
    <3>1. printed' \in 0 .. offset'
      <4>1. printed \in Nat /\ offset' \in Nat
        BY <1>t, <2>1 DEF Signals!TypeOK
      <4>2. PICK much \in printed .. offset' : printed' = much
        BY <1>8 DEF Signals!Read, Signals!Prints
      <4> QED
        BY <4>1, <4>2
    <3> QED
      BY <1>8, <1>t, <2>1, <3>1 DEF Signals!Read, Signals!parentVars, Signals!TypeOK
  <2>3. Others /\ Asked
    BY <1>8, <1>t DEF Signals!Read, Signals!parentVars, SignalInv, StillToRead, One,
                      Signals!StartsSent
  <2> QED
    BY <2>2, <2>3 DEF SignalInv
<1> QED
  BY <1>1, <1>2, <1>3, <1>4, <1>5, <1>6, <1>7, <1>8 DEF Signals!Next

LEMMA PlaceKeeps ==
  ASSUME SignalInv, Signals!Next, ~late', Place, child = "open" => reads = 0 /\ offset = 0
  PROVE  /\ ~late /\ Place'
         /\ child' = "open" => child = "open" /\ reads' = 0 /\ offset' = 0
<1>t. /\ round \in Nat /\ round <= Numbers /\ Numbers \in Nat /\ reads \in Nat
      /\ pending \subseteq {"Wait", "Start"}
  BY SignalTypes
<1>1. CASE Signals!ParentOpens
  BY <1>1, <1>t DEF Signals!ParentOpens, Signals!childVars, Place, Settled
<1>2. CASE Signals!SendWait
  <2>1. Settled /\ ~late
    BY <1>2 DEF Signals!SendWait, Signals!Settled, Settled
  <2> QED
    BY <1>2, <1>t, <2>1 DEF Signals!SendWait, Signals!Signals, Signals!childVars, Place, Settled
<1>3. CASE Signals!AppendNumber
  BY <1>3, <1>t DEF Signals!AppendNumber, Signals!childVars, Place, Settled
<1>4. CASE Signals!SendStart
  BY <1>4, <1>t DEF Signals!SendStart, Signals!Signals, Signals!Settled, Signals!childVars,
                    Place, Settled
<1>5. CASE Signals!KillChild
  BY <1>5, <1>t DEF Signals!KillChild, Signals!Settled, Place, Settled
<1>6. ASSUME NEW s \in {"Wait", "Start"}, Signals!Handle(s)
      PROVE  /\ ~late /\ Place'
             /\ child' = "open" => child = "open" /\ reads' = 0 /\ offset' = 0
  <2>1. CASE s = "Wait"
    BY <1>6, <1>t, <2>1 DEF Signals!Handle, Signals!parentVars, Place, Settled
  <2>2. CASE s = "Start"
    BY <1>6, <1>t, <2>2 DEF Signals!Handle, Signals!parentVars, Place, Settled
  <2> QED
    BY <2>1, <2>2
<1>7. CASE Signals!ChildOpens
  BY <1>7, <1>t DEF Signals!ChildOpens, Signals!parentVars, Place, Settled
<1>8. CASE Signals!Check
  BY <1>8, <1>t DEF Signals!Check, Signals!parentVars, Place, Settled
<1>9. CASE Signals!Clear
  BY <1>9, <1>t DEF Signals!Clear, Signals!parentVars, Place, Settled
<1>10. CASE Signals!Read
  BY <1>10, <1>t DEF Signals!Read, Signals!parentVars, Place, Settled
<1> QED
  BY <1>1, <1>2, <1>3, <1>4, <1>5, <1>6, <1>7, <1>8, <1>9, <1>10 DEF Signals!Next

\* One reading more makes up for ReadSize less a number.
LEMMA OneMore ==
  ASSUME NEW n \in Nat, NEW d \in Int PROVE (n + 1) * d = n * d + d /\ n * d \in Int
OBVIOUS

LEMMA BehindKeeps ==
  ASSUME SignalInv, Signals!Next, ~late', TimeInv, child' = "open" \/ opened'
  PROVE  Behind'
<1>t. /\ round \in Nat /\ round <= Numbers /\ Numbers \in Nat /\ reads \in Nat /\ size \in Nat
      /\ offset \in Nat /\ offset <= size /\ old \in Nat
      /\ pending \subseteq {"Wait", "Start"}
  BY SignalTypes
<1>w. ReadSize \in Nat /\ Signals!Widest \in Nat /\ Signals!Widest <= ReadSize
  BY WidestIs
<1>l. ~late
  BY DEF Signals!Next, Signals!ParentOpens, Signals!SendWait,
     Signals!AppendNumber, Signals!SendStart, Signals!KillChild, Signals!Handle,
     Signals!ChildOpens, Signals!Check, Signals!Read, Signals!Clear, Signals!childVars,
     Signals!parentVars
<1>b. Place /\ Place' /\ (child = "open" => reads = 0 /\ offset = 0)
  BY <1>l, PlaceKeeps DEF TimeInv
<1> DEFINE d == ReadSize - Signals!Widest
<1>d. d \in Nat /\ reads * d \in Int /\ Newest \in Nat /\ (reads + 1) * d = reads * d + d
  BY <1>t, <1>w, OneMore DEF Newest
<1>c. child = "open" \/ opened
  BY DEF Signals!Next, Signals!ParentOpens, Signals!SendWait,
     Signals!AppendNumber, Signals!SendStart, Signals!KillChild, Signals!Handle,
     Signals!ChildOpens, Signals!Check, Signals!Read, Signals!Clear, Signals!childVars,
     Signals!parentVars
<1>e. size - offset <= Newest \/ size - offset <= Newest + old - reads * d
  BY <1>l, <1>c DEF TimeInv, Behind
<1> HIDE DEF d
<1>1. CASE /\ Newest' = Newest
           /\ UNCHANGED <<size, offset, old, reads>>
  BY <1>1, <1>e DEF Behind, d
<1>2. CASE Signals!AppendNumber
  <2>1. PICK w \in Widths : size' = size + w
    BY <1>2 DEF Signals!AppendNumber
  <2>2. /\ w \in Nat /\ w <= Signals!Widest
        /\ Newest = 0 /\ Newest' = Signals!Widest
        /\ UNCHANGED <<offset, old, reads>>
    BY <1>2, WidestIs DEF Signals!AppendNumber, Signals!childVars, Newest
  <2> QED
    BY <1>e, <1>t, <1>w, <1>d, <2>1, <2>2 DEF Behind, d
<1>3. CASE Signals!Read
  <2>1. /\ Newest = Signals!Widest /\ Newest' = 0
        /\ reads' = reads + 1 /\ opened
    BY <1>3, <1>b, <1>c, <1>t DEF Signals!Read, Signals!parentVars, Place, Settled, Newest
  <2>2. offset' = Signals!Least(size, offset + ReadSize) /\ UNCHANGED <<size, old>>
    BY <1>3, <2>1 DEF Signals!Read, Signals!parentVars
  <2>3. CASE size <= offset + ReadSize
    <3>1. offset' = size
      BY <1>t, <1>w, <2>2, <2>3 DEF Signals!Least
    <3> QED
      BY <1>t, <2>1, <2>2, <3>1 DEF Behind
  <2>4. CASE size > offset + ReadSize
    <3>1. offset' = offset + ReadSize
      BY <1>t, <1>w, <2>2, <2>4 DEF Signals!Least
    <3>2. size - offset <= Signals!Widest + old - reads * d
      BY <1>t, <1>w, <1>d, <1>e, <2>1, <2>4
    <3>3. ReadSize = Signals!Widest + d
      BY <1>w DEF d
    <3>4. size - (offset + ReadSize) <= old - (reads + 1) * d
      BY <1>t, <1>w, <1>d, <3>2, <3>3
    <3> QED
      BY <1>t, <1>w, <2>1, <2>2, <3>1, <3>4 DEF Behind, d
  <2> QED
    BY <1>t, <1>w, <2>3, <2>4
<1>4. CASE Signals!ParentOpens \/ Signals!SendWait \/ Signals!SendStart \/ Signals!KillChild
  <2>1. UNCHANGED <<size, offset, old, reads>>
    BY <1>4 DEF Signals!ParentOpens, Signals!SendWait, Signals!SendStart, Signals!KillChild,
                Signals!childVars
  <2>2. CASE Signals!SendStart
    <3>1. parent = "start" /\ parent' \in {"hold", "sleep"} /\ round' = round /\ reads = round - 1
      BY <2>2, <1>b, <1>t DEF Signals!SendStart, Place
    <3> QED
      BY <1>1, <2>1, <3>1 DEF Newest
  <2>3. CASE Signals!ParentOpens \/ Signals!SendWait \/ Signals!KillChild
    <3>1. parent \in {"open", "hold", "sleep"} /\ Settled /\ reads = round
      <4>1. parent \in {"open", "hold", "sleep"}
        BY <2>3 DEF Signals!ParentOpens, Signals!SendWait, Signals!KillChild
      <4>2. parent = "open" \/ (pending = {} /\ ~canRead)
        BY <2>3 DEF Signals!ParentOpens, Signals!SendWait, Signals!KillChild, Signals!Settled
      <4> QED
        BY <1>b, <4>1, <4>2 DEF Place
    <3>2. /\ parent' = "write" \/ (parent' \in {"hold", "sleep", "done"} /\ round' = round)
      BY <2>3 DEF Signals!ParentOpens, Signals!SendWait, Signals!KillChild
    <3>3. Newest = 0 /\ Newest' = 0
      BY <1>t, <2>1, <3>1, <3>2 DEF Newest
    <3> QED
      BY <1>1, <2>1, <3>3
  <2> QED
    BY <1>4, <2>2, <2>3
<1>5. CASE \/ Signals!ChildOpens \/ Signals!Check \/ Signals!Clear
           \/ \E s \in {"Wait", "Start"} : Signals!Handle(s)
  <2>1. UNCHANGED <<size, offset, old, reads, parent, round>>
    BY <1>5 DEF Signals!ChildOpens, Signals!Check, Signals!Clear, Signals!Handle, Signals!parentVars
  <2> QED
    BY <1>1, <2>1 DEF Newest
<1> QED
  BY <1>2, <1>3, <1>4, <1>5 DEF Signals!Next

\* On a terminal no more than the beginning of a line is held back.
ShownInv ==
  tty => offset - printed < Signals!Widest /\ (offset = size => printed = size)

LEMMA ShownBegins == PairsInit => ShownInv
<1> SUFFICES ASSUME Signals!Init PROVE ShownInv
  BY DEF PairsInit
<1>1. offset = 0 /\ printed = 0 /\ Signals!Widest > 0
  BY WidestIs DEF Signals!Init
<1> QED
  BY <1>1 DEF ShownInv

LEMMA ShownKeeps == ASSUME SignalInv, ShownInv, Signals!Next PROVE ShownInv'
<1>t. size \in Nat /\ offset \in 0 .. size /\ offset \in Nat
  BY SignalTypes
<1>1. CASE Signals!AppendNumber
  <2>1. PICK w \in Widths : size' = size + w
    BY <1>1 DEF Signals!AppendNumber
  <2>2. w \in 1 .. ReadSize /\ ReadSize \in Nat
    BY WidestIs
  <2>3. UNCHANGED <<offset, printed, tty>> /\ offset # size'
    BY <1>1, <1>t, <2>1, <2>2 DEF Signals!AppendNumber, Signals!childVars
  <2> QED
    BY <2>3 DEF ShownInv
<1>2. CASE Signals!Read
  <2>1. UNCHANGED <<size, tty>> /\ Signals!Prints
    BY <1>2 DEF Signals!Read, Signals!parentVars
  <2> QED
    BY <2>1 DEF ShownInv, Signals!Prints
<1>3. CASE UNCHANGED <<offset, printed, tty, size>>
  BY <1>3 DEF ShownInv
<1>4. CASE \/ Signals!ParentOpens \/ Signals!SendWait \/ Signals!SendStart
           \/ Signals!KillChild \/ (\E s \in {"Wait", "Start"} : Signals!Handle(s))
           \/ Signals!ChildOpens \/ Signals!Check \/ Signals!Clear
  BY <1>3, <1>4
  DEF Signals!ParentOpens, Signals!SendWait, Signals!SendStart, Signals!KillChild,
      Signals!Handle, Signals!ChildOpens, Signals!Check, Signals!Clear,
      Signals!childVars, Signals!parentVars
<1> QED
  BY <1>1, <1>2, <1>4 DEF Signals!Next

LEMMA SignalInvHolds == PairsSpec => [](SignalInv /\ TimeInv)
<1>1. SignalInv /\ TimeInv /\ [PairsNext]_allVars => SignalInv' /\ TimeInv'
  <2> SUFFICES ASSUME SignalInv, TimeInv, [PairsNext]_allVars PROVE SignalInv' /\ TimeInv'
    OBVIOUS
  <2>1. CASE Signals!Next
    <3>1. SignalInv'
      BY <2>1, SignalKeeps
    <3>2. ~late' => ~late
      BY <2>1 DEF Signals!Next, Signals!ParentOpens, Signals!SendWait,
         Signals!AppendNumber, Signals!SendStart, Signals!KillChild, Signals!Handle,
         Signals!ChildOpens, Signals!Check, Signals!Read, Signals!Clear, Signals!childVars,
         Signals!parentVars
    <3>3. ~late' => Place' /\ (child' = "open" => reads' = 0 /\ offset' = 0)
      BY <2>1, <3>2, PlaceKeeps DEF TimeInv
    <3>4. ~late' /\ (child' = "open" \/ opened') => Behind'
      BY <2>1, BehindKeeps
    <3> QED
      BY <3>1, <3>3, <3>4 DEF TimeInv
  <2>2. CASE UNCHANGED fileVars
    <3>1. SignalInv'
      BY <2>2 DEF fileVars, SignalInv, Signals!TypeOK, StillToRead, Signals!StartsSent
    <3>2. TimeInv'
      BY <2>2 DEF fileVars, TimeInv, Place, Settled, Behind, Newest
    <3> QED
      BY <3>1, <3>2
  <2> QED
    BY <2>1, <2>2, OneMoves
<1> QED
  BY <1>1, FromStart, SignalBegins, PTL

LEMMA ShownInvHolds == PairsSpec => []ShownInv
<1>1. SignalInv /\ ShownInv /\ [PairsNext]_allVars => ShownInv'
  <2>1. UNCHANGED fileVars /\ ShownInv => ShownInv'
    BY DEF fileVars, ShownInv
  <2> QED
    BY <2>1, OneMoves, ShownKeeps
<1>2. PairsSpec => []SignalInv
  BY SignalInvHolds, PTL
<1> QED
  BY <1>1, <1>2, FromStart, ShownBegins, PTL

\* The child makes no read that was not asked for by a Start of its own,
\* however signals merge, pass one another or come in the middle of a read.
THEOREM ReadsAreAskedHolds == PairsSpec => []ReadsAreAsked
<1>1. SignalInv => ReadsAreAsked
  <2> SUFFICES ASSUME SignalInv PROVE reads <= Signals!StartsSent
    BY DEF ReadsAreAsked, Signals!ReadsAreAsked
  <2>1. StillToRead \in Nat /\ reads \in Nat /\ round \in Nat
    BY SignalTypes DEF StillToRead, One
  <2>2. Signals!StartsSent \in Int /\ reads + StillToRead <= Signals!StartsSent
    BY <2>1 DEF SignalInv, Signals!StartsSent
  <2>3. reads + 0 <= Signals!StartsSent
    BY <2>1, <2>2, FewerStay
  <2> QED
    BY <2>1, <2>3
<1> QED
  BY <1>1, SignalInvHolds, PTL

\* A child that opened the file and was never late has read all of it when it
\* is killed, but for what it has not made up for of an old file, whatever
\* the widths of the numbers; on a terminal it has printed what it read but
\* for part of a line.
THEOREM PrintedInTimeHolds == PairsSpec => []PrintedInTime
<1>1. SignalInv /\ TimeInv /\ ShownInv => PrintedInTime
  <2> DEFINE behind == old - Numbers * (ReadSize - Signals!Widest)
  <2> SUFFICES ASSUME SignalInv, TimeInv, ShownInv, parent = "done", ~late, opened
               PROVE  /\ offset = size \/ size - offset <= behind
                      /\ tty => \/ printed = size
                                \/ size - printed < behind + Signals!Widest
    BY DEF PrintedInTime, Signals!PrintedInTime
  <2>1. /\ round \in Nat /\ reads \in Nat /\ size \in Nat /\ offset \in Nat /\ offset <= size
        /\ old \in Nat /\ round = Numbers
    BY SignalTypes DEF SignalInv
  <2>2. reads = round /\ Behind
    BY DEF TimeInv, Place
  <2>3. Newest = 0
    BY <2>1, <2>2 DEF Newest
  <2>4. Numbers * (ReadSize - Signals!Widest) \in Int /\ behind \in Int
    BY <2>1, WidestIs
  <2>5. offset = size \/ size - offset <= behind
    BY <2>1, <2>2, <2>3, <2>4 DEF Behind
  <2>6. ASSUME tty PROVE printed = size \/ size - printed < behind + Signals!Widest
    <3>1. /\ offset - printed < Signals!Widest /\ (offset = size => printed = size)
      BY <2>6 DEF ShownInv
    <3>2. printed \in Nat /\ Signals!Widest \in Nat
      <4>1. Signals!TypeOK
        BY DEF SignalInv
      <4>2. printed \in 0 .. offset
        BY <4>1 DEF Signals!TypeOK
      <4> QED
        BY <4>2, <2>1, WidestIs
    <3> HIDE DEF behind
    <3> QED
      BY <2>1, <2>4, <2>5, <3>1, <3>2
  <2> HIDE DEF behind
  <2> QED
    BY <2>5, <2>6
<1> QED
  BY <1>1, SignalInvHolds, ShownInvHolds, PTL

-----------------------------------------------------------------------------
(* 3.14, udp. *)

\* The lines and answers on their way or in client1's hands: all of them were
\* sent, and as long as client2 runs for the first time they are the last.
UdpInv ==
  /\ Udp!TypeOK
  /\ \A c \in {"client1", "client2"} : mail[c] \subseteq 1 .. line
  /\ turn["client1"] = "send" => taken \in 1 .. line
  /\ Udp!Outstanding <= runs2
  /\ turn["client2"] = "type" => Udp!Outstanding < runs2
  /\ turn["client2"] # "off" => runs2 > 0
  /\ runs2 = 0 => answer = 0
  /\ runs2 = 1 =>
       /\ \A c \in {"client1", "client2"} : mail[c] \subseteq {line}
       /\ turn["client1"] = "send" => taken = line
       /\ turn["client2"] = "type" => answer \in {0, line}

LEMMA UdpCounts ==
  /\ Udp!Outstanding = Cardinality(mail["client1"]) + Cardinality(mail["client2"])
                         + One(turn["client1"] = "send")
  /\ Udp!Outstanding' = Cardinality(mail'["client1"]) + Cardinality(mail'["client2"])
                          + One(turn'["client1"] = "send")
BY DEF Udp!Outstanding, Udp!Cardinality, Cardinality, One

LEMMA UdpTypes ==
  ASSUME UdpInv
  PROVE  /\ MaxLines \in Nat /\ MaxRuns2 \in Nat /\ line \in Nat /\ runs2 \in Nat
         /\ \A c \in {"client1", "client2"} :
              IsFiniteSet(mail[c]) /\ Cardinality(mail[c]) \in Nat
         /\ Udp!Outstanding \in Nat /\ Udp!TypeOK
<1>1. Udp!TypeOK /\ line \in 0 .. MaxLines /\ runs2 \in 0 .. MaxRuns2
  BY DEF UdpInv, Udp!TypeOK
<1>2. MaxLines \in Nat /\ MaxRuns2 \in Nat
  BY PairsAssumption DEF Udp!UdpAssumption
<1>3. line \in Nat /\ runs2 \in Nat
  BY <1>1, <1>2
<1>4. ASSUME NEW c \in {"client1", "client2"}
      PROVE  IsFiniteSet(mail[c]) /\ Cardinality(mail[c]) \in Nat
  <2>1. mail[c] \subseteq 1 .. line /\ 1 \in Int /\ line \in Int
    BY <1>3 DEF UdpInv
  <2>2. IsFiniteSet(1 .. line)
    BY <2>1, FS_Interval
  <2> QED
    BY <2>1, <2>2, FS_Subset, FS_CardinalityType
<1>5. Udp!Outstanding \in Nat
  BY <1>4, UdpCounts DEF One
<1> QED
  BY <1>1, <1>2, <1>3, <1>4, <1>5

LEMMA UdpBegins == PairsInit => UdpInv
<1> SUFFICES ASSUME Udp!Init, Udp!UdpAssumption PROVE UdpInv
  BY PairsAssumption DEF PairsInit
<1>1. /\ turn["client1"] = "off" /\ turn["client2"] = "off"
      /\ mail["client1"] = {} /\ mail["client2"] = {}
      /\ taken = 0 /\ line = 0 /\ answer = 0 /\ runs2 = 0
  BY DEF Udp!Init, Udp!Peers
<1>2. Udp!TypeOK
  BY DEF Udp!Init, Udp!TypeOK, Udp!Peers, Udp!UdpAssumption
<1>3. Udp!Outstanding = 0
  BY <1>1, UdpCounts, FS_EmptySet DEF One
<1> QED
  BY <1>1, <1>2, <1>3 DEF UdpInv

\* The mail of c becomes m and that of the other stays.
MailOf(c, m) ==
  /\ mail'[c] = m
  /\ \A d \in {"client1", "client2"} \ {c} : mail'[d] = mail[d]

\* A datagram that is sent adds one or is lost.
LEMMA SendEffect ==
  ASSUME UdpInv, NEW c \in {"client1", "client2"}, NEW n \in 1 .. MaxLines, Udp!SendTo(c, n)
  PROVE  /\ mail' \in [{"client1", "client2"} -> SUBSET (1 .. MaxLines)]
         /\ MailOf(c, mail[c] \cup {n}) \/ MailOf(c, mail[c])
         /\ Cardinality(mail'[c]) \in Nat
         /\ Cardinality(mail'[c]) <= Cardinality(mail[c]) + 1
<1>1. mail \in [{"client1", "client2"} -> SUBSET (1 .. MaxLines)]
  BY DEF UdpInv, Udp!TypeOK, Udp!Peers
<1>2. CASE mail' = [mail EXCEPT ![c] = @ \cup {n}]
  <2>1. MailOf(c, mail[c] \cup {n})
    BY <1>1, <1>2 DEF MailOf
  <2>2. Cardinality(mail[c] \cup {n}) \in Nat
        /\ Cardinality(mail[c] \cup {n}) <= Cardinality(mail[c]) + 1
    <3>1. IsFiniteSet(mail[c]) /\ Cardinality(mail[c]) \in Nat
      BY UdpTypes
    <3>2. Cardinality(mail[c] \cup {n})
            = IF n \in mail[c] THEN Cardinality(mail[c]) ELSE Cardinality(mail[c]) + 1
      BY <3>1, FS_AddElement
    <3> QED
      BY <3>1, <3>2
  <2> QED
    BY <1>1, <1>2, <2>1, <2>2 DEF MailOf
<1>3. CASE UNCHANGED mail
  <2>1. MailOf(c, mail[c]) /\ Cardinality(mail'[c]) = Cardinality(mail[c])
    BY <1>3 DEF MailOf
  <2>2. Cardinality(mail[c]) \in Nat
    BY UdpTypes
  <2> QED
    BY <1>1, <1>3, <2>1, <2>2
<1> QED
  BY <1>2, <1>3 DEF Udp!SendTo

\* One that is received is one less.
LEMMA ReceiveEffect ==
  ASSUME UdpInv, NEW c \in {"client1", "client2"}, NEW n \in 1 .. MaxLines,
         Udp!ReceiveFrom(c, n)
  PROVE  /\ mail' \in [{"client1", "client2"} -> SUBSET (1 .. MaxLines)]
         /\ MailOf(c, mail[c] \ {n}) /\ n \in mail[c] /\ turn[c] = "receive"
         /\ Cardinality(mail'[c]) = Cardinality(mail[c]) - 1
<1>1. mail \in [{"client1", "client2"} -> SUBSET (1 .. MaxLines)]
  BY DEF UdpInv, Udp!TypeOK, Udp!Peers
<1>2. /\ turn[c] = "receive" /\ n \in mail[c]
      /\ mail' = [mail EXCEPT ![c] = @ \ {n}]
  BY DEF Udp!ReceiveFrom
<1>3. MailOf(c, mail[c] \ {n})
  BY <1>1, <1>2 DEF MailOf
<1>4. Cardinality(mail[c] \ {n}) = Cardinality(mail[c]) - 1
  <2>1. IsFiniteSet(mail[c])
    BY UdpTypes
  <2> QED
    BY <1>2, <2>1, FS_RemoveElement
<1> QED
  BY <1>1, <1>2, <1>3, <1>4 DEF MailOf

\* What the counts are when client c moves and the mail of one client changes.
LEMMA Counted ==
  ASSUME UdpInv
  PROVE  /\ Cardinality(mail["client1"]) \in Nat /\ Cardinality(mail["client2"]) \in Nat
         /\ Udp!Outstanding = Cardinality(mail["client1"]) + Cardinality(mail["client2"])
                                + One(turn["client1"] = "send")
         /\ Udp!Outstanding' = Cardinality(mail'["client1"]) + Cardinality(mail'["client2"])
                                 + One(turn'["client1"] = "send")
         /\ Udp!Outstanding \in Nat /\ runs2 \in Nat /\ line \in Nat
BY UdpCounts, UdpTypes

LEMMA Turned ==
  ASSUME UdpInv, NEW c \in {"client1", "client2"},
         NEW place \in {"off", "type", "receive", "send"}, Udp!Turns(c, place)
  PROVE  /\ turn' \in [{"client1", "client2"} -> {"off", "type", "receive", "send"}]
         /\ turn'[c] = place
         /\ \A d \in {"client1", "client2"} \ {c} : turn'[d] = turn[d]
BY DEF UdpInv, Udp!TypeOK, Udp!Peers, Udp!Turns

LEMMA KillKeeps ==
  ASSUME UdpInv, NEW c \in {"client1", "client2"}, Udp!Kill(c) PROVE UdpInv'
<1>1. /\ Udp!Turns(c, "off") /\ mail' = [mail EXCEPT ![c] = {}]
      /\ UNCHANGED <<taken, line, answer, runs2>>
  BY DEF Udp!Kill
<1>2. /\ turn' \in [{"client1", "client2"} -> {"off", "type", "receive", "send"}]
      /\ turn'[c] = "off" /\ \A d \in {"client1", "client2"} \ {c} : turn'[d] = turn[d]
  BY <1>1, Turned
<1>3. /\ mail' \in [{"client1", "client2"} -> SUBSET (1 .. MaxLines)]
      /\ mail'[c] = {} /\ \A d \in {"client1", "client2"} \ {c} : mail'[d] = mail[d]
  BY <1>1 DEF UdpInv, Udp!TypeOK, Udp!Peers
<1>4. Udp!TypeOK'
  BY <1>1, <1>2, <1>3 DEF UdpInv, Udp!TypeOK, Udp!Peers
<1>5. Udp!Outstanding' <= Udp!Outstanding /\ Udp!Outstanding' \in Nat
  <2>1. Cardinality(mail'[c]) = 0
    BY <1>3, FS_EmptySet
  <2>2. CASE c = "client1"
    BY <1>2, <1>3, <2>1, <2>2, Counted DEF One
  <2>3. CASE c = "client2"
    BY <1>2, <1>3, <2>1, <2>3, Counted DEF One
  <2> QED
    BY <2>2, <2>3
<1> QED
  BY <1>1, <1>2, <1>3, <1>4, <1>5, Counted DEF UdpInv

\* A program starts, or client1's user types.
LEMMA StartKeeps ==
  ASSUME UdpInv, Udp!Start1 \/ Udp!Type1 \/ Udp!Start2 PROVE UdpInv'
<1>1. UNCHANGED <<mail, taken, line, answer>>
  BY DEF Udp!Start1, Udp!Type1, Udp!Start2
<1>2. CASE Udp!Start1 \/ Udp!Type1
  <2>1. PICK place \in {"type", "receive"} : Udp!Turns("client1", place)
    BY <1>2 DEF Udp!Start1, Udp!Type1
  <2>2. /\ turn' \in [{"client1", "client2"} -> {"off", "type", "receive", "send"}]
        /\ turn'["client1"] = place /\ turn'["client2"] = turn["client2"]
    BY <2>1, Turned
  <2>3. runs2' = runs2 /\ turn["client1"] # "send"
    BY <1>2 DEF Udp!Start1, Udp!Type1
  <2>4. Udp!Outstanding' = Udp!Outstanding
    BY <1>1, <2>2, <2>3, Counted DEF One
  <2>5. Udp!TypeOK'
    BY <1>1, <2>2, <2>3 DEF UdpInv, Udp!TypeOK, Udp!Peers
  <2> QED
    BY <1>1, <2>2, <2>3, <2>4, <2>5 DEF UdpInv
<1>3. CASE Udp!Start2
  <2>1. Udp!Turns("client2", "type") /\ runs2 < MaxRuns2 /\ runs2' = runs2 + 1
    BY <1>3 DEF Udp!Start2
  <2>2. /\ turn' \in [{"client1", "client2"} -> {"off", "type", "receive", "send"}]
        /\ turn'["client2"] = "type" /\ turn'["client1"] = turn["client1"]
    BY <2>1, Turned
  <2>3. Udp!Outstanding' = Udp!Outstanding /\ runs2 \in Nat /\ Udp!Outstanding \in Nat
    BY <1>1, <2>2, Counted
  <2>4. Udp!TypeOK'
    BY <1>1, <2>1, <2>2, UdpTypes DEF UdpInv, Udp!TypeOK, Udp!Peers
  <2>5. ASSUME runs2' = 1
        PROVE  /\ \A c \in {"client1", "client2"} : mail'[c] = {}
               /\ turn'["client1"] # "send" /\ answer' = 0
    <3>1. runs2 = 0 /\ Udp!Outstanding = 0
      BY <2>1, <2>3, <2>5 DEF UdpInv
    <3>2. /\ Cardinality(mail["client1"]) = 0 /\ Cardinality(mail["client2"]) = 0
          /\ turn["client1"] # "send"
      BY <3>1, Counted DEF One
    <3>3. \A c \in {"client1", "client2"} : mail[c] = {}
      BY <3>2, UdpTypes, FS_EmptySet
    <3> QED
      BY <1>1, <2>2, <3>1, <3>2, <3>3 DEF UdpInv
  <2> QED
    BY <1>1, <2>1, <2>2, <2>3, <2>4, <2>5 DEF UdpInv
<1> QED
  BY <1>2, <1>3

LEMMA Receive1Keeps ==
  ASSUME UdpInv, NEW n \in 1 .. MaxLines, Udp!Receive1(n) PROVE UdpInv'
<1>1. /\ Udp!ReceiveFrom("client1", n) /\ Udp!Turns("client1", "send")
      /\ taken' = n /\ UNCHANGED <<line, answer, runs2>>
  BY DEF Udp!Receive1
<1>2. /\ turn' \in [{"client1", "client2"} -> {"off", "type", "receive", "send"}]
      /\ turn'["client1"] = "send" /\ turn'["client2"] = turn["client2"]
  BY <1>1, Turned
<1>3. /\ mail' \in [{"client1", "client2"} -> SUBSET (1 .. MaxLines)]
      /\ mail'["client1"] = mail["client1"] \ {n} /\ mail'["client2"] = mail["client2"]
      /\ n \in mail["client1"] /\ turn["client1"] = "receive"
      /\ Cardinality(mail'["client1"]) = Cardinality(mail["client1"]) - 1
  BY <1>1, ReceiveEffect DEF MailOf
<1>4. Udp!Outstanding' = Udp!Outstanding
  BY <1>2, <1>3, Counted DEF One
<1>5. Udp!TypeOK'
  BY <1>1, <1>2, <1>3 DEF UdpInv, Udp!TypeOK, Udp!Peers
<1> QED
  BY <1>1, <1>2, <1>3, <1>4, <1>5 DEF UdpInv

LEMMA Receive2Keeps ==
  ASSUME UdpInv, NEW n \in 1 .. MaxLines, Udp!Receive2(n) PROVE UdpInv'
<1>1. /\ Udp!ReceiveFrom("client2", n) /\ Udp!Turns("client2", "type")
      /\ answer' = n /\ UNCHANGED <<taken, line, runs2>>
  BY DEF Udp!Receive2
<1>2. /\ turn' \in [{"client1", "client2"} -> {"off", "type", "receive", "send"}]
      /\ turn'["client2"] = "type" /\ turn'["client1"] = turn["client1"]
  BY <1>1, Turned
<1>3. /\ mail' \in [{"client1", "client2"} -> SUBSET (1 .. MaxLines)]
      /\ mail'["client2"] = mail["client2"] \ {n} /\ mail'["client1"] = mail["client1"]
      /\ n \in mail["client2"] /\ turn["client2"] = "receive"
      /\ Cardinality(mail'["client2"]) = Cardinality(mail["client2"]) - 1
  BY <1>1, ReceiveEffect DEF MailOf
<1>4. Udp!Outstanding' = Udp!Outstanding - 1 /\ Udp!Outstanding \in Nat /\ runs2 \in Nat
  BY <1>2, <1>3, Counted DEF One
<1>5. Udp!TypeOK'
  BY <1>1, <1>2, <1>3 DEF UdpInv, Udp!TypeOK, Udp!Peers
<1>6. Udp!Outstanding' < runs2
  BY <1>4 DEF UdpInv
<1>7. runs2 > 0
  BY <1>3 DEF UdpInv
<1> QED
  BY <1>1, <1>2, <1>3, <1>4, <1>5, <1>6, <1>7 DEF UdpInv

LEMMA Send1Keeps == ASSUME UdpInv, Udp!Send1 PROVE UdpInv'
<1>1. /\ Udp!SendTo("client2", taken) /\ Udp!Turns("client1", "type")
      /\ turn["client1"] = "send" /\ UNCHANGED <<taken, line, answer, runs2>>
  BY DEF Udp!Send1
<1>2. /\ turn' \in [{"client1", "client2"} -> {"off", "type", "receive", "send"}]
      /\ turn'["client1"] = "type" /\ turn'["client2"] = turn["client2"]
  BY <1>1, Turned
<1>3. taken \in 1 .. line /\ taken \in 1 .. MaxLines
  <2>1. taken \in 1 .. line /\ taken \in 0 .. MaxLines
    BY <1>1 DEF UdpInv, Udp!TypeOK
  <2> QED
    BY <2>1
<1>4. /\ mail' \in [{"client1", "client2"} -> SUBSET (1 .. MaxLines)]
      /\ MailOf("client2", mail["client2"] \cup {taken}) \/ MailOf("client2", mail["client2"])
      /\ Cardinality(mail'["client2"]) \in Nat
      /\ Cardinality(mail'["client2"]) <= Cardinality(mail["client2"]) + 1
  BY <1>1, <1>3, SendEffect
<1>5. mail'["client1"] = mail["client1"]
  BY <1>4 DEF MailOf
<1>6. Udp!Outstanding' <= Udp!Outstanding /\ Udp!Outstanding' \in Nat /\ Udp!Outstanding \in Nat
  BY <1>1, <1>2, <1>4, <1>5, Counted DEF One
<1>7. Udp!TypeOK'
  BY <1>1, <1>2, <1>4 DEF UdpInv, Udp!TypeOK, Udp!Peers
<1>8. mail'["client2"] \subseteq mail["client2"] \cup {taken}
  BY <1>4 DEF MailOf
<1>9. Udp!Outstanding' <= runs2 /\ (turn["client2"] = "type" => Udp!Outstanding' < runs2)
  BY <1>6, Counted DEF UdpInv
<1> QED
  BY <1>1, <1>2, <1>3, <1>5, <1>7, <1>8, <1>9 DEF UdpInv

LEMMA Send2Keeps == ASSUME UdpInv, Udp!Send2 PROVE UdpInv'
<1>1. /\ turn["client2"] = "type" /\ line < MaxLines /\ line' = line + 1
      /\ Udp!SendTo("client1", line + 1) /\ Udp!Turns("client2", "receive")
      /\ UNCHANGED <<taken, answer, runs2>>
  BY DEF Udp!Send2, Udp!SendTo
<1>2. /\ turn' \in [{"client1", "client2"} -> {"off", "type", "receive", "send"}]
      /\ turn'["client2"] = "receive" /\ turn'["client1"] = turn["client1"]
  BY <1>1, Turned
<1>3. line \in Nat /\ line + 1 \in 1 .. MaxLines
  BY <1>1, UdpTypes
<1>4. /\ mail' \in [{"client1", "client2"} -> SUBSET (1 .. MaxLines)]
      /\ MailOf("client1", mail["client1"] \cup {line + 1}) \/ MailOf("client1", mail["client1"])
      /\ Cardinality(mail'["client1"]) \in Nat
      /\ Cardinality(mail'["client1"]) <= Cardinality(mail["client1"]) + 1
  BY <1>1, <1>3, SendEffect
<1>5. /\ mail'["client2"] = mail["client2"]
      /\ mail'["client1"] \subseteq mail["client1"] \cup {line + 1}
  BY <1>4 DEF MailOf
<1>6. /\ Udp!Outstanding' <= Udp!Outstanding + 1 /\ Udp!Outstanding' \in Nat
      /\ Udp!Outstanding \in Nat /\ runs2 \in Nat
  BY <1>1, <1>2, <1>4, <1>5, Counted DEF One
<1>7. Udp!TypeOK'
  BY <1>1, <1>2, <1>3, <1>4 DEF UdpInv, Udp!TypeOK, Udp!Peers
<1>8. Udp!Outstanding' <= runs2 /\ runs2 > 0
  BY <1>1, <1>6 DEF UdpInv
<1>9. \A c \in {"client1", "client2"} : mail'[c] \subseteq 1 .. line'
  BY <1>1, <1>3, <1>5 DEF UdpInv
<1>10. turn'["client1"] = "send" => taken' \in 1 .. line'
  BY <1>1, <1>2, <1>3 DEF UdpInv
<1>11. ASSUME runs2 = 1
       PROVE  /\ \A c \in {"client1", "client2"} : mail'[c] \subseteq {line + 1}
              /\ turn["client1"] # "send"
  <2>1. Udp!Outstanding = 0
    BY <1>1, <1>6, <1>11 DEF UdpInv
  <2>2. /\ Cardinality(mail["client1"]) = 0 /\ Cardinality(mail["client2"]) = 0
        /\ turn["client1"] # "send"
    BY <2>1, Counted DEF One
  <2>3. \A c \in {"client1", "client2"} : mail[c] = {}
    BY <2>2, UdpTypes, FS_EmptySet
  <2> QED
    BY <1>5, <2>2, <2>3
<1> QED
  BY <1>1, <1>2, <1>7, <1>8, <1>9, <1>10, <1>11 DEF UdpInv

LEMMA UdpInvHolds == PairsSpec => []UdpInv
<1>1. UdpInv /\ Udp!Next => UdpInv'
  BY KillKeeps, StartKeeps, Receive1Keeps, Receive2Keeps, Send1Keeps, Send2Keeps
     DEF Udp!Next, Udp!Peers
<1>2. UdpInv /\ UNCHANGED udpVars => UdpInv'
  BY UdpCounts DEF udpVars, UdpInv, Udp!TypeOK
<1>3. UdpInv /\ [PairsNext]_allVars => UdpInv'
  BY <1>1, <1>2, OneMoves
<1> QED
  BY <1>3, FromStart, UdpBegins, PTL

\* Each run of client2 leaves one line at most that is still to be answered,
\* however many lines, runs and losses there are, and the first run takes
\* every answer for what it is.
THEOREM OnePerRunHolds == PairsSpec => []OnePerRun
<1>1. UdpInv => OnePerRun
  BY DEF UdpInv, OnePerRun, Udp!OnePerRun
<1> QED
  BY <1>1, UdpInvHolds, PTL

-----------------------------------------------------------------------------
(* 3.7, numbers. *)

\* The numbers that wait, when it is f that says how often each does.
Tokens(f) == {w \in (1 .. Last) \X (1 .. MaxMsg) : w[2] <= f[w[1]]}

Counts == [1 .. Last -> 0 .. MaxMsg]

LEMMA TokensAre ==
  /\ \A q : Largest!NumbersIn(q) = Cardinality(Tokens(waiting[q]))
  /\ \A q : Largest!NumbersIn(q)' = Cardinality(Tokens(waiting'[q]))
BY DEF Largest!NumbersIn, Largest!Cardinality, Cardinality, Tokens, Largest!Sent

LEMMA TokensFinite ==
  ASSUME NEW f \in Counts
  PROVE  /\ IsFiniteSet(Tokens(f)) /\ Cardinality(Tokens(f)) \in Nat
         /\ Last \in Nat \ {0} /\ MaxMsg \in Nat \ {0}
<1>1. Last \in Nat \ {0} /\ MaxMsg \in Nat \ {0}
  BY PairsAssumption DEF Largest!NumberAssumption
<1>2. 1 \in Int /\ Last \in Int /\ MaxMsg \in Int
  BY <1>1
<1>3. IsFiniteSet((1 .. Last) \X (1 .. MaxMsg))
  BY <1>2, FS_Interval, FS_Product
<1>4. Tokens(f) \subseteq (1 .. Last) \X (1 .. MaxMsg)
  BY DEF Tokens
<1> QED
  BY <1>1, <1>3, <1>4, FS_Subset, FS_CardinalityType

LEMMA NoTokens ==
  ASSUME NEW f, \A n \in 1 .. Last : f[n] = 0 PROVE Cardinality(Tokens(f)) = 0
<1>1. \A k \in 1 .. MaxMsg : ~(k <= 0)
  BY PairsAssumption DEF Largest!NumberAssumption
<1>2. Tokens(f) = {}
  BY <1>1 DEF Tokens
<1> QED
  BY <1>2, FS_EmptySet

\* A queue that is not full has room for every number.
LEMMA RoomForAll ==
  ASSUME NEW f \in Counts, Cardinality(Tokens(f)) < MaxMsg, NEW n \in 1 .. Last
  PROVE  f[n] < MaxMsg
<1>1. IsFiniteSet(Tokens(f)) /\ Cardinality(Tokens(f)) \in Nat /\ MaxMsg \in Nat \ {0}
  BY TokensFinite
<1>2. f[n] \in 0 .. MaxMsg
  BY DEF Counts
<1>3. ASSUME f[n] = MaxMsg PROVE FALSE
  <2> DEFINE g == [k \in 1 .. MaxMsg |-> <<n, k>>]
  <2>1. \A k \in 1 .. MaxMsg : <<n, k>> \in Tokens(f)
    BY <1>1, <1>3 DEF Tokens
  <2>2. g \in [1 .. MaxMsg -> Tokens(f)]
    BY <2>1
  <2>3. \A j, k \in 1 .. MaxMsg : g[j] = g[k] => j = k
    OBVIOUS
  <2>4. g \in Injection(1 .. MaxMsg, Tokens(f))
    BY <2>2, <2>3 DEF Injection, IsInjective
  <2>5. Cardinality(1 .. MaxMsg) <= Cardinality(Tokens(f))
    BY <1>1, <2>4, FS_Injection
  <2>6. Cardinality(1 .. MaxMsg) = MaxMsg
    <3>1. 1 \in Int /\ MaxMsg \in Int /\ ~(1 > MaxMsg)
      BY <1>1
    <3>2. Cardinality(1 .. MaxMsg) = MaxMsg - 1 + 1
      BY <3>1, FS_Interval
    <3> QED
      BY <1>1, <3>2
  <2> QED
    BY <1>1, <2>5, <2>6
<1> QED
  BY <1>1, <1>2, <1>3

LEMMA TokenMore ==
  ASSUME NEW f \in Counts, Cardinality(Tokens(f)) < MaxMsg, NEW n \in 1 .. Last
  PROVE  /\ [f EXCEPT ![n] = @ + 1] \in Counts
         /\ Cardinality(Tokens([f EXCEPT ![n] = @ + 1])) = Cardinality(Tokens(f)) + 1
<1> DEFINE g == [f EXCEPT ![n] = @ + 1]
<1>1. IsFiniteSet(Tokens(f)) /\ Cardinality(Tokens(f)) \in Nat /\ MaxMsg \in Nat \ {0}
  BY TokensFinite
<1>2. f[n] \in Nat /\ f[n] < MaxMsg
  <2>1. f[n] \in 0 .. MaxMsg
    BY DEF Counts
  <2> QED
    BY <1>1, <2>1, RoomForAll
<1>3. g \in Counts /\ g[n] = f[n] + 1 /\ \A m \in 1 .. Last : m # n => g[m] = f[m]
  BY <1>1, <1>2 DEF Counts
<1>4. ASSUME NEW m \in 1 .. Last, NEW k \in 1 .. MaxMsg
      PROVE  k <= g[m] <=> k <= f[m] \/ (m = n /\ k = f[n] + 1)
  BY <1>1, <1>2, <1>3 DEF Counts
<1>5. <<n, f[n] + 1>> \notin Tokens(f)
  BY <1>2 DEF Tokens
<1>6. f[n] + 1 \in 1 .. MaxMsg
  BY <1>1, <1>2
<1> HIDE DEF g
<1>7. Tokens(g) = Tokens(f) \cup {<<n, f[n] + 1>>}
  <2>1. ASSUME NEW w \in (1 .. Last) \X (1 .. MaxMsg)
        PROVE  w[2] <= g[w[1]] <=> w[2] <= f[w[1]] \/ w = <<n, f[n] + 1>>
    <3>1. w[1] \in 1 .. Last /\ w[2] \in 1 .. MaxMsg /\ w = <<w[1], w[2]>>
      BY <2>1
    <3> QED
      BY <1>4, <3>1
  <2>2. <<n, f[n] + 1>> \in (1 .. Last) \X (1 .. MaxMsg)
    BY <1>6
  <2> QED
    BY <2>1, <2>2 DEF Tokens
<1>8. Cardinality(Tokens(g)) = Cardinality(Tokens(f)) + 1
  BY <1>1, <1>5, <1>7, FS_AddElement
<1> QED
  BY <1>3, <1>8 DEF g

LEMMA TokensFewer ==
  ASSUME NEW f \in Counts, NEW g \in Counts, \A n \in 1 .. Last : g[n] <= f[n]
  PROVE  Cardinality(Tokens(g)) <= Cardinality(Tokens(f))
<1>1. Tokens(g) \subseteq Tokens(f)
  <2>1. ASSUME NEW w \in (1 .. Last) \X (1 .. MaxMsg), w[2] <= g[w[1]] PROVE w[2] <= f[w[1]]
    <3>1. w[1] \in 1 .. Last /\ w[2] \in Nat /\ g[w[1]] \in Nat /\ f[w[1]] \in Nat
      BY DEF Counts
    <3> QED
      BY <2>1, <3>1
  <2> QED
    BY <2>1 DEF Tokens
<1> QED
  BY <1>1, TokensFinite, FS_Subset

Zero(q) == \A n \in 1 .. Last : waiting[q][n] = 0

\* A queue that nobody holds and no name names is empty.  The queue that the
\* sender will find is empty and no receiver has taken its last number; that
\* to which it sends has no last number, taken or waiting.
NumberInv ==
  /\ Largest!TypeOK
  /\ held["sender"] = 0 <=> sender \in {"off", "open"}
  /\ held["receiver"] = 0 <=> receiver = "off"
  /\ \A q \in 1 .. 3 : q \notin {name, held["sender"], held["receiver"]} => Zero(q)
  /\ sender = "open" /\ name # 0 =>
       Zero(name) /\ (receiver = "end" => held["receiver"] # name)
  /\ sender = "send" =>
       /\ waiting[held["sender"]][Last] = 0
       /\ receiver = "end" => held["receiver"] # held["sender"]
  /\ FoundWhileSending

LEMMA NumberTypes ==
  ASSUME NumberInv
  PROVE  /\ Last \in Nat \ {0} /\ MaxMsg \in Nat \ {0} /\ Last \in 1 .. Last
         /\ sender \in {"off", "open", "send", "end"}
         /\ receiver \in {"off", "receive", "end"}
         /\ name \in 0 .. 3
         /\ held["sender"] \in 0 .. 3 /\ held["receiver"] \in 0 .. 3
         /\ held \in [{"sender", "receiver"} -> 0 .. 3]
         /\ waiting \in [1 .. 3 -> Counts]
         /\ \A q \in 1 .. 3 : Cardinality(Tokens(waiting[q])) <= MaxMsg
         /\ misnamed \in BOOLEAN
<1>1. Last \in Nat \ {0} /\ MaxMsg \in Nat \ {0}
  BY PairsAssumption DEF Largest!NumberAssumption
<1>2. Largest!TypeOK
  BY DEF NumberInv
<1>3. {0} \cup 1 .. 3 = 0 .. 3
  OBVIOUS
<1>4. held \in [{"sender", "receiver"} -> 0 .. 3] /\ name \in 0 .. 3
  BY <1>2, <1>3 DEF Largest!TypeOK, Largest!Queues
<1>5. waiting \in [1 .. 3 -> Counts]
  BY <1>2 DEF Largest!TypeOK, Largest!Queues, Largest!Sent, Counts
<1>6. \A q \in 1 .. 3 : Cardinality(Tokens(waiting[q])) <= MaxMsg
  BY <1>2, TokensAre DEF Largest!TypeOK, Largest!Queues
<1> QED
  BY <1>1, <1>2, <1>4, <1>5, <1>6 DEF Largest!TypeOK

\* What NumberInv asks of the types of the next state.
LEMMA NumberTypesKept ==
  ASSUME sender' \in {"off", "open", "send", "end"}, receiver' \in {"off", "receive", "end"},
         name' \in 0 .. 3, held' \in [{"sender", "receiver"} -> 0 .. 3],
         waiting' \in [1 .. 3 -> Counts], misnamed' \in BOOLEAN,
         \A q \in 1 .. 3 : Cardinality(Tokens(waiting'[q])) <= MaxMsg
  PROVE  Largest!TypeOK'
<1>1. {0} \cup 1 .. 3 = 0 .. 3
  OBVIOUS
<1>2. \A q \in 1 .. 3 : Largest!NumbersIn(q)' <= MaxMsg
  BY TokensAre
<1> QED
  BY <1>1, <1>2 DEF Largest!TypeOK, Largest!Queues, Largest!Sent, Counts

LEMMA NumberBegins == PairsInit => NumberInv
<1> SUFFICES ASSUME Largest!Init, Largest!NumberAssumption PROVE NumberInv
  BY PairsAssumption DEF PairsInit
<1>1. /\ sender = "off" /\ receiver = "off" /\ name = 0 /\ misnamed = FALSE
      /\ held \in [{"sender", "receiver"} -> 0 .. 3]
      /\ held["sender"] = 0 /\ held["receiver"] = 0
  BY DEF Largest!Init
<1>2. \A q \in 1 .. 3 : Zero(q) /\ waiting[q] \in Counts
  BY DEF Largest!Init, Largest!Queues, Largest!Sent, Zero, Counts, Largest!NumberAssumption
<1>3. \A q \in 1 .. 3 : Largest!NumbersIn(q) <= MaxMsg
  <2>1. \A q \in 1 .. 3 : Cardinality(Tokens(waiting[q])) = 0
    BY <1>2, NoTokens DEF Zero
  <2> QED
    BY <2>1, TokensAre DEF Largest!NumberAssumption
<1>4. Largest!TypeOK
  <2>1. waiting \in [1 .. 3 -> Counts]
    BY <1>2 DEF Largest!Init, Largest!Queues
  <2> QED
    BY <1>1, <1>3, <2>1 DEF Largest!TypeOK, Largest!Queues, Largest!Sent, Counts
<1> QED
  BY <1>1, <1>2, <1>4 DEF NumberInv, FoundWhileSending, Largest!FoundWhileSending

\* What becomes of the queues when some lose their names or their users.
LEMMA KeptEffect ==
  ASSUME NumberInv, NEW names, NEW users \in [{"sender", "receiver"} -> 0 .. 3],
         Largest!Kept(names, users)
  PROVE  /\ waiting' \in [1 .. 3 -> Counts]
         /\ \A q \in 1 .. 3 : Zero(q) => Zero(q)'
         /\ \A q \in 1 .. 3 :
              q = names \/ q = users["sender"] \/ q = users["receiver"] => waiting'[q] = waiting[q]
         /\ \A q \in 1 .. 3 : q \notin {names, users["sender"], users["receiver"]} => Zero(q)'
         /\ \A q \in 1 .. 3 : Cardinality(Tokens(waiting'[q])) <= MaxMsg
<1>1. /\ waiting \in [1 .. 3 -> Counts] /\ MaxMsg \in Nat \ {0}
      /\ \A q \in 1 .. 3 : Cardinality(Tokens(waiting[q])) <= MaxMsg
  BY NumberTypes
<1>2. [n \in 1 .. Last |-> 0] \in Counts
  BY <1>1 DEF Counts
<1>3. DOMAIN users = {"sender", "receiver"}
  OBVIOUS
<1>4. waiting' = [q \in 1 .. 3 |->
                   IF q = names \/ \E p \in {"sender", "receiver"} : users[p] = q
                   THEN waiting[q] ELSE [n \in 1 .. Last |-> 0]]
  BY <1>3 DEF Largest!Kept, Largest!Queues, Largest!Sent
<1>5. ASSUME NEW q \in 1 .. 3
      PROVE  /\ waiting'[q] \in Counts
             /\ waiting'[q] = waiting[q] \/ Zero(q)'
             /\ q = names \/ q = users["sender"] \/ q = users["receiver"]
                  => waiting'[q] = waiting[q]
             /\ q \notin {names, users["sender"], users["receiver"]} => Zero(q)'
  <2>1. CASE q = names \/ \E p \in {"sender", "receiver"} : users[p] = q
    <3>1. waiting'[q] = waiting[q]
      BY <1>4, <2>1
    <3>2. waiting[q] \in Counts
      BY <1>1
    <3> QED
      BY <2>1, <3>1, <3>2
  <2>2. CASE ~(q = names \/ \E p \in {"sender", "receiver"} : users[p] = q)
    <3>1. waiting'[q] = [n \in 1 .. Last |-> 0]
      BY <1>4, <2>2
    <3>2. Zero(q)'
      BY <3>1 DEF Zero
    <3> QED
      BY <1>2, <2>2, <3>1, <3>2
  <2> QED
    BY <2>1, <2>2
<1>6. ASSUME NEW q \in 1 .. 3 PROVE Cardinality(Tokens(waiting'[q])) <= MaxMsg
  <2>1. CASE waiting'[q] = waiting[q]
    BY <1>1, <2>1
  <2>2. CASE Zero(q)'
    BY <1>1, <2>2, NoTokens DEF Zero
  <2> QED
    BY <1>5, <2>1, <2>2
<1>7. waiting' \in [1 .. 3 -> Counts]
  BY <1>4, <1>5
<1>8. \A q \in 1 .. 3 : Zero(q) => Zero(q)'
  BY <1>5 DEF Zero
<1> QED
  BY <1>5, <1>6, <1>7, <1>8

Ends == {"sender", "receiver"}

\* Whoever opens the queue has the named one, or a new one that is empty and
\* that the other does not hold.
LEMMA OpensEffect ==
  ASSUME NumberInv, NEW p \in Ends, held[p] = 0, Largest!Opens(p)
  PROVE  /\ waiting' = waiting /\ name' \in 1 .. 3
         /\ held' \in [Ends -> 0 .. 3] /\ held'[p] = name'
         /\ \A o \in Ends \ {p} : held'[o] = held[o]
         /\ name # 0 => name' = name
         /\ name = 0 => Zero(name') /\ \A o \in Ends : held[o] # name'
<1>1. held \in [Ends -> 0 .. 3] /\ name \in 0 .. 3 /\ DOMAIN held = Ends
  BY NumberTypes DEF Ends
<1> DEFINE new == CHOOSE q \in 1 .. 3 : \A u \in DOMAIN held : held[u] # q
           q == IF name = 0 THEN new ELSE name
<1>2. name' = q /\ held' = [held EXCEPT ![p] = q] /\ waiting' = waiting
  BY DEF Largest!Opens, Largest!Queues
<1>3. \E k \in 1 .. 3 : \A u \in Ends : held[u] # k
  <2>1. PICK o \in Ends : \A u \in Ends : u = p \/ u = o
    BY DEF Ends
  <2>2. \E k \in 1 .. 3 : held[o] # k
    BY <1>1
  <2> QED
    BY <2>1, <2>2
<1>4. new \in 1 .. 3 /\ \A u \in Ends : held[u] # new
  BY <1>1, <1>3
<1> HIDE DEF new
<1>5. q \in 1 .. 3
  BY <1>1, <1>4
<1>6. name = 0 => Zero(new)
  BY <1>1, <1>4 DEF NumberInv, Ends
<1> QED
  BY <1>1, <1>2, <1>4, <1>5, <1>6

\* Whoever leaves holds none, and the other holds what it held.
LEMMA HeldAfter ==
  ASSUME NumberInv, NEW p \in Ends, held' = [held EXCEPT ![p] = 0]
  PROVE  /\ held' \in [Ends -> 0 .. 3] /\ held'[p] = 0
         /\ \A o \in Ends \ {p} : held'[o] = held[o]
BY NumberTypes DEF Ends

LEMMA SenderUnlinksKeeps == ASSUME NumberInv, Largest!SenderUnlinks PROVE NumberInv'
<1>1. /\ sender = "off" /\ sender' = "open" /\ name' = 0 /\ Largest!Kept(0, held)
      /\ UNCHANGED <<receiver, held, misnamed>>
  BY DEF Largest!SenderUnlinks
<1>2. held \in [Ends -> 0 .. 3] /\ held \in [{"sender", "receiver"} -> 0 .. 3]
  BY NumberTypes DEF Ends
<1>3. /\ waiting' \in [1 .. 3 -> Counts]
      /\ \A q \in 1 .. 3 : q \notin {0, held["sender"], held["receiver"]} => Zero(q)'
      /\ \A q \in 1 .. 3 : Cardinality(Tokens(waiting'[q])) <= MaxMsg
  BY <1>1, <1>2, KeptEffect
<1>4. Largest!TypeOK'
  BY <1>1, <1>2, <1>3, NumberTypes, NumberTypesKept
<1> QED
  BY <1>1, <1>3, <1>4 DEF NumberInv, FoundWhileSending, Largest!FoundWhileSending

LEMMA SenderOpensKeeps == ASSUME NumberInv, Largest!SenderOpens PROVE NumberInv'
<1>1. /\ sender = "open" /\ sender' \in {"send", "end"} /\ misnamed' = FALSE
      /\ Largest!Opens("sender") /\ receiver' = receiver
  BY DEF Largest!SenderOpens
<1>2. held["sender"] = 0 /\ "sender" \in Ends /\ "receiver" \in Ends \ {"sender"}
  BY <1>1 DEF NumberInv, Ends
<1>3. /\ waiting' = waiting /\ name' \in 1 .. 3
      /\ held' \in [Ends -> 0 .. 3] /\ held'["sender"] = name'
      /\ held'["receiver"] = held["receiver"]
      /\ name # 0 => name' = name
      /\ name = 0 => Zero(name') /\ held["receiver"] # name'
  BY <1>1, <1>2, OpensEffect
<1>4. Largest!TypeOK'
  BY <1>1, <1>3, NumberTypes, NumberTypesKept DEF Ends
<1>5. waiting[name'][Last] = 0 /\ (receiver = "end" => held["receiver"] # name')
  <2>1. Zero(name') /\ (receiver = "end" => held["receiver"] # name')
    BY <1>1, <1>3 DEF NumberInv
  <2> QED
    BY <2>1, NumberTypes DEF Zero
<1>6. \A q \in 1 .. 3 : Zero(q)' <=> Zero(q)
  BY <1>3 DEF Zero
<1>7. \A q \in 1 .. 3 : q \notin {name', held'["sender"], held'["receiver"]} => Zero(q)
  BY <1>1, <1>3, <1>2 DEF NumberInv
<1> QED
  BY <1>1, <1>2, <1>3, <1>4, <1>5, <1>6, <1>7
     DEF NumberInv, FoundWhileSending, Largest!FoundWhileSending

\* The sender fails, ends or is killed.
LEMMA SenderGoesKeeps ==
  ASSUME NumberInv, Largest!SendFails \/ Largest!SenderEnds \/ Largest!KillSender
  PROVE  NumberInv'
<1>1. /\ sender' = "off" /\ UNCHANGED <<receiver, misnamed>>
      /\ held' = [held EXCEPT !["sender"] = 0]
      /\ name' \in {0, name} /\ Largest!Kept(name', held')
  BY DEF Largest!SendFails, Largest!SenderEnds, Largest!KillSender, Largest!Leaves,
         Largest!Unlinks
<1>2. /\ held' \in [Ends -> 0 .. 3] /\ held'["sender"] = 0
      /\ held'["receiver"] = held["receiver"]
  BY <1>1, HeldAfter DEF Ends
<1>3. /\ waiting' \in [1 .. 3 -> Counts]
      /\ \A q \in 1 .. 3 : q \notin {name', held'["sender"], held'["receiver"]} => Zero(q)'
      /\ \A q \in 1 .. 3 : Cardinality(Tokens(waiting'[q])) <= MaxMsg
  BY <1>1, <1>2, KeptEffect DEF Ends
<1>4. name' \in 0 .. 3
  BY <1>1, NumberTypes
<1>5. Largest!TypeOK'
  BY <1>1, <1>2, <1>3, <1>4, NumberTypes, NumberTypesKept DEF Ends
<1> QED
  BY <1>1, <1>2, <1>3, <1>5 DEF NumberInv, FoundWhileSending, Largest!FoundWhileSending

LEMMA SendKeeps ==
  ASSUME NumberInv, NEW n \in 1 .. Last, Largest!Send(n) PROVE NumberInv'
<1> DEFINE q == held["sender"]
<1>1. /\ sender = "send" /\ Largest!NumbersIn(q) < MaxMsg
      /\ waiting' = [waiting EXCEPT ![q][n] = @ + 1]
      /\ sender' = IF n = Last THEN "end" ELSE "send"
      /\ UNCHANGED <<receiver, name, held, misnamed>>
  BY DEF Largest!Send
<1>2. q \in 1 .. 3 /\ waiting \in [1 .. 3 -> Counts] /\ Last \in Nat \ {0}
  BY <1>1, NumberTypes DEF NumberInv
<1>3. Cardinality(Tokens(waiting[q])) < MaxMsg
  BY <1>1, TokensAre
<1> HIDE DEF q
<1>4. waiting' = [waiting EXCEPT ![q] = [waiting[q] EXCEPT ![n] = @ + 1]]
  BY <1>1, <1>2
<1>5. waiting[q] \in Counts
  BY <1>2
<1>6. /\ [waiting[q] EXCEPT ![n] = @ + 1] \in Counts
      /\ Cardinality(Tokens([waiting[q] EXCEPT ![n] = @ + 1]))
           = Cardinality(Tokens(waiting[q])) + 1
  BY <1>3, <1>5, TokenMore
<1>7. /\ waiting'[q] = [waiting[q] EXCEPT ![n] = @ + 1]
      /\ \A r \in 1 .. 3 : r # q => waiting'[r] = waiting[r]
      /\ waiting' \in [1 .. 3 -> Counts]
  BY <1>2, <1>4, <1>6
<1>8. Cardinality(Tokens(waiting'[q])) <= MaxMsg
  <2>1. Cardinality(Tokens(waiting[q])) \in Nat /\ MaxMsg \in Nat
    BY <1>5, TokensFinite
  <2> QED
    BY <1>3, <1>6, <1>7, <2>1
<1>9. Largest!TypeOK'
  <2>1. \A r \in 1 .. 3 : Cardinality(Tokens(waiting'[r])) <= MaxMsg
    BY <1>7, <1>8, NumberTypes
  <2> QED
    BY <1>1, <1>7, <2>1, NumberTypes, NumberTypesKept
<1>10. n # Last => waiting'[q][Last] = waiting[q][Last]
  BY <1>5, <1>7, NumberTypes DEF Counts
<1>11. \A r \in 1 .. 3 : r # q /\ Zero(r) => Zero(r)'
  BY <1>7 DEF Zero
<1>12. q = held["sender"] /\ q' = q
  BY <1>1 DEF q
<1> QED
  BY <1>1, <1>9, <1>10, <1>11, <1>12
     DEF NumberInv, FoundWhileSending, Largest!FoundWhileSending

LEMMA ReceiverStartsKeeps == ASSUME NumberInv, Largest!ReceiverStarts PROVE NumberInv'
<1>1. /\ receiver = "off" /\ receiver' = "receive" /\ Largest!Opens("receiver")
      /\ UNCHANGED <<sender, misnamed>>
  BY DEF Largest!ReceiverStarts
<1>2. held["receiver"] = 0 /\ "receiver" \in Ends /\ "sender" \in Ends \ {"receiver"}
  BY <1>1 DEF NumberInv, Ends
<1>3. /\ waiting' = waiting /\ name' \in 1 .. 3
      /\ held' \in [Ends -> 0 .. 3] /\ held'["receiver"] = name'
      /\ held'["sender"] = held["sender"]
      /\ name # 0 => name' = name
      /\ name = 0 => Zero(name') /\ held["sender"] # name'
  BY <1>1, <1>2, OpensEffect
<1>4. Largest!TypeOK'
  BY <1>1, <1>3, NumberTypes, NumberTypesKept DEF Ends
<1>5. \A q \in 1 .. 3 : Zero(q)' <=> Zero(q)
  BY <1>3 DEF Zero
<1>6. \A q \in 1 .. 3 : q \notin {name', held'["sender"], held'["receiver"]} => Zero(q)
  BY <1>1, <1>2, <1>3 DEF NumberInv
<1>7. sender = "open" => Zero(name')
  BY <1>3 DEF NumberInv
<1>8. sender = "send" /\ ~misnamed => name' = held["sender"]
  <2>1. held["sender"] # 0 \/ sender # "send"
    BY DEF NumberInv
  <2> QED
    BY <1>3, <2>1 DEF NumberInv, FoundWhileSending, Largest!FoundWhileSending
<1> QED
  BY <1>1, <1>3, <1>4, <1>5, <1>6, <1>7, <1>8
     DEF NumberInv, FoundWhileSending, Largest!FoundWhileSending

LEMMA ReceiveKeeps == ASSUME NumberInv, Largest!Receive PROVE NumberInv'
<1> DEFINE q == held["receiver"]
<1>1. /\ receiver = "receive" /\ UNCHANGED <<sender, name, held, misnamed>>
  BY DEF Largest!Receive
<1>2. PICK n \in 1 .. Last :
        /\ waiting[q][n] > 0
        /\ waiting' = [waiting EXCEPT ![q][n] = @ - 1]
        /\ receiver' = IF n = Last THEN "end" ELSE "receive"
  BY DEF Largest!Receive, Largest!Sent
<1>3. q \in 1 .. 3 /\ waiting \in [1 .. 3 -> Counts] /\ Last \in Nat \ {0} /\ MaxMsg \in Nat
  BY <1>1, NumberTypes DEF NumberInv
<1>4. q = held["receiver"] /\ q' = q
  BY <1>1
<1> HIDE DEF q
<1>5. waiting' = [waiting EXCEPT ![q] = [waiting[q] EXCEPT ![n] = @ - 1]]
  BY <1>2, <1>3
<1>6. waiting[q] \in [1 .. Last -> 0 .. MaxMsg] /\ waiting[q] \in Counts
  BY <1>3 DEF Counts
<1>7. waiting[q][n] \in 0 .. MaxMsg /\ waiting[q][n] - 1 \in 0 .. MaxMsg
  <2>1. waiting[q][n] \in 0 .. MaxMsg
    BY <1>6
  <2> QED
    BY <1>2, <1>3, <2>1
<1> DEFINE g == [waiting[q] EXCEPT ![n] = @ - 1]
<1>8. g \in Counts /\ \A m \in 1 .. Last : g[m] <= waiting[q][m]
  <2>1. g \in Counts
    BY <1>6, <1>7 DEF Counts
  <2>2. \A m \in 1 .. Last : waiting[q][m] \in 0 .. MaxMsg
    BY <1>6
  <2>3. \A m \in 1 .. Last : g[m] = IF m = n THEN waiting[q][n] - 1 ELSE waiting[q][m]
    BY <1>6
  <2> QED
    BY <1>3, <2>1, <2>2, <2>3
<1>9. waiting' = [waiting EXCEPT ![q] = g]
  BY <1>5
<1> HIDE DEF g
<1>10. /\ waiting'[q] = g /\ \A r \in 1 .. 3 : r # q => waiting'[r] = waiting[r]
       /\ waiting' \in [1 .. 3 -> Counts]
  BY <1>3, <1>8, <1>9
<1>11. Cardinality(Tokens(waiting'[q])) <= MaxMsg
  <2>1. Cardinality(Tokens(g)) <= Cardinality(Tokens(waiting[q]))
    BY <1>6, <1>8, TokensFewer
  <2>2. Cardinality(Tokens(g)) \in Nat /\ Cardinality(Tokens(waiting[q])) \in Nat
    BY <1>6, <1>8, TokensFinite
  <2>3. Cardinality(Tokens(waiting[q])) <= MaxMsg
    BY <1>3, NumberTypes
  <2> QED
    BY <1>3, <1>10, <2>1, <2>2, <2>3
<1>12. Largest!TypeOK'
  <2>1. \A r \in 1 .. 3 : Cardinality(Tokens(waiting'[r])) <= MaxMsg
    BY <1>10, <1>11, NumberTypes
  <2> QED
    BY <1>1, <1>2, <1>10, <2>1, NumberTypes, NumberTypesKept
<1>13. ~Zero(q)
  BY <1>2, <1>3, <1>7 DEF Zero
<1>14. \A r \in 1 .. 3 : r # q /\ Zero(r) => Zero(r)'
  BY <1>10 DEF Zero
<1>15. receiver' = "end" => waiting[q][Last] > 0
  BY <1>2
<1>16. sender = "open" /\ name # 0 => name # q /\ Zero(name)'
  <2> SUFFICES ASSUME sender = "open", name # 0 PROVE name # q /\ Zero(name)'
    OBVIOUS
  <2>1. Zero(name) /\ name \in 1 .. 3
    BY NumberTypes DEF NumberInv
  <2>2. name # q
    BY <1>13, <2>1
  <2>3. waiting'[name] = waiting[name]
    BY <1>10, <2>1, <2>2
  <2> QED
    BY <1>1, <2>1, <2>2, <2>3 DEF Zero
<1>17. sender = "send" => waiting'[held["sender"]][Last] = 0
  <2> SUFFICES ASSUME sender = "send" PROVE waiting'[held["sender"]][Last] = 0
    OBVIOUS
  <2>1. waiting[held["sender"]][Last] = 0 /\ held["sender"] \in 1 .. 3
    BY NumberTypes DEF NumberInv
  <2>2. CASE held["sender"] # q
    BY <1>10, <2>1, <2>2
  <2>3. CASE held["sender"] = q
    <3>1. g[Last] <= 0 /\ g[Last] \in 0 .. MaxMsg
      BY <1>3, <1>8, <2>1, <2>3 DEF Counts
    <3> QED
      BY <1>3, <1>10, <2>3, <3>1
  <2> QED
    BY <2>2, <2>3
<1>18. receiver' = "end" /\ sender = "send" => held["receiver"] # held["sender"]
  BY <1>4, <1>15 DEF NumberInv
<1>19. \A r \in 1 .. 3 :
         r \notin {name, held["sender"], held["receiver"]} => Zero(r)'
  BY <1>4, <1>14 DEF NumberInv
<1>20. receiver' # "off"
  BY <1>2
<1> QED
  BY <1>1, <1>4, <1>12, <1>16, <1>17, <1>18, <1>19, <1>20
     DEF NumberInv, FoundWhileSending, Largest!FoundWhileSending

\* The receiver fails, ends or is killed.
LEMMA ReceiverGoesKeeps ==
  ASSUME NumberInv, Largest!ReceiveFails \/ Largest!ReceiverEnds \/ Largest!KillReceiver
  PROVE  NumberInv'
<1>1. /\ receiver' = "off" /\ sender' = sender
      /\ held' = [held EXCEPT !["receiver"] = 0]
      /\ \/ name' = name /\ misnamed' = misnamed
         \/ /\ name' = 0 /\ receiver = "end" /\ misnamed' \in BOOLEAN
            /\ misnamed' <=> misnamed \/ name \notin {0, held["receiver"]}
      /\ Largest!Kept(name', held')
  <2>1. CASE Largest!ReceiverEnds
    <3>1. misnamed' = (misnamed \/ name \notin {0, held["receiver"]})
      BY <2>1 DEF Largest!ReceiverEnds
    <3>2. misnamed' \in BOOLEAN /\ (misnamed' <=> misnamed \/ name \notin {0, held["receiver"]})
      BY <3>1
    <3> QED
      BY <2>1, <3>2 DEF Largest!ReceiverEnds, Largest!Unlinks
  <2>2. CASE Largest!ReceiveFails \/ Largest!KillReceiver
    BY <2>2 DEF Largest!ReceiveFails, Largest!KillReceiver, Largest!Leaves
  <2> QED
    BY <2>1, <2>2
<1>2. /\ held' \in [Ends -> 0 .. 3] /\ held'["receiver"] = 0
      /\ held'["sender"] = held["sender"]
  BY <1>1, HeldAfter DEF Ends
<1>3. /\ waiting' \in [1 .. 3 -> Counts]
      /\ \A q \in 1 .. 3 : Zero(q) => Zero(q)'
      /\ \A q \in 1 .. 3 : q = held'["sender"] => waiting'[q] = waiting[q]
      /\ \A q \in 1 .. 3 : q \notin {name', held'["sender"], held'["receiver"]} => Zero(q)'
      /\ \A q \in 1 .. 3 : Cardinality(Tokens(waiting'[q])) <= MaxMsg
  BY <1>1, <1>2, KeptEffect DEF Ends
<1>4. name' \in 0 .. 3 /\ misnamed' \in BOOLEAN
  BY <1>1, NumberTypes
<1>5. Largest!TypeOK'
  BY <1>1, <1>2, <1>3, <1>4, NumberTypes, NumberTypesKept DEF Ends
<1>6. sender = "send" => waiting'[held["sender"]][Last] = 0
  BY <1>2, <1>3, NumberTypes DEF NumberInv
<1>7. sender = "open" /\ name' # 0 => Zero(name)'
  <2> SUFFICES ASSUME sender = "open", name' # 0 PROVE Zero(name)'
    OBVIOUS
  <2>1. name' = name /\ name \in 1 .. 3 /\ Zero(name)
    BY <1>1, NumberTypes DEF NumberInv
  <2>2. \A n \in 1 .. Last : waiting'[name][n] = 0
    BY <1>3, <2>1 DEF Zero
  <2> QED
    BY <2>1, <2>2 DEF Zero
<1>8. sender = "send" /\ ~misnamed' => name' = held["sender"]
  BY <1>1, NumberTypes DEF NumberInv, FoundWhileSending, Largest!FoundWhileSending
<1> QED
  BY <1>1, <1>2, <1>3, <1>5, <1>6, <1>7, <1>8
     DEF NumberInv, FoundWhileSending, Largest!FoundWhileSending

LEMMA NumberInvHolds == PairsSpec => []NumberInv
<1>1. NumberInv /\ Largest!Next => NumberInv'
  BY SenderUnlinksKeeps, SenderOpensKeeps, SenderGoesKeeps, SendKeeps, ReceiverStartsKeeps,
     ReceiveKeeps, ReceiverGoesKeeps DEF Largest!Next, Largest!Sent
<1>2. NumberInv /\ UNCHANGED maxVars => NumberInv'
  BY TokensAre DEF maxVars, NumberInv, Largest!TypeOK, Zero, FoundWhileSending,
     Largest!FoundWhileSending
<1>3. NumberInv /\ [PairsNext]_allVars => NumberInv'
  BY <1>1, <1>2, OneMoves
<1> QED
  BY <1>3, FromStart, NumberBegins, PTL

\* While numbers are sent their queue has the name, unless the receiver of an
\* earlier queue came to its end since, for any number of waiting numbers.
THEOREM FoundWhileSendingHolds == PairsSpec => []FoundWhileSending
<1>1. NumberInv => FoundWhileSending
  BY DEF NumberInv
<1> QED
  BY <1>1, NumberInvHolds, PTL

-----------------------------------------------------------------------------
(* 3.6, queue. *)

ChatInv == TypeOK /\ OneText

LEMMA ChatTypes ==
  ASSUME TypeOK
  PROVE  /\ at \in [Programs -> Places] /\ text \in [Programs -> Texts]
         /\ attached \in [Programs -> BOOLEAN]
         /\ queue \in Seq(Texts) /\ Len(queue) \in Nat
         /\ exists \in BOOLEAN /\ uneven \in BOOLEAN
BY LenProperties DEF TypeOK

LEMMA ChatBegins == PairsInit => ChatInv
<1> SUFFICES ASSUME Init PROVE ChatInv
  BY DEF PairsInit
<1>1. queue = <<>> /\ queue \in Seq(Texts) /\ Len(queue) = 0
  BY EmptySeq DEF Init
<1>2. TypeOK
  BY <1>1 DEF Init, TypeOK, Programs, Places, Texts
<1>3. ~Holding /\ ~Waiting
  BY DEF Init, Holding, Waiting, Programs
<1> QED
  BY <1>1, <1>2, <1>3 DEF ChatInv, OneText

\* What p has sent is behind the others, if its queue is there.
LEMMA SendsEffect ==
  ASSUME TypeOK, NEW p \in Programs, NEW said \in Texts, Sends(p, said)
  PROVE  /\ queue' \in Seq(Texts) /\ Len(queue') \in Nat
         /\ attached[p] => Len(queue') = Len(queue) + 1
         /\ ~attached[p] => Len(queue') = Len(queue)
<1>1. queue \in Seq(Texts) /\ Len(queue) \in Nat
  BY ChatTypes
<1>2. CASE attached[p]
  <2>1. queue' = Append(queue, said)
    BY <1>2 DEF Sends
  <2>2. queue' \in Seq(Texts) /\ Len(queue') = Len(queue) + 1
    BY <1>1, <2>1, AppendProperties
  <2> QED
    BY <1>1, <1>2, <2>2
<1>3. CASE ~attached[p]
  BY <1>1, <1>3 DEF Sends
<1> QED
  BY <1>2, <1>3

LEMMA StartsKeep ==
  ASSUME ChatInv, ReceiverStarts \/ SenderStarts PROVE ChatInv'
<1>1. PICK p \in Programs : /\ at[p] = "off"
                            /\ at' = [at EXCEPT ![p] = IF p = "receiver" THEN "greet" ELSE "receive"]
                            /\ text' = [text EXCEPT ![p] = IF p = "receiver" THEN "hello" ELSE "unset"]
                            /\ attached' = [attached EXCEPT ![p] = TRUE]
                            /\ exists' = TRUE
                            /\ UNCHANGED <<queue, uneven>>
  BY DEF ReceiverStarts, SenderStarts, Starts, Goes, Programs
<1>2. TypeOK /\ OneText
  BY DEF ChatInv
<1>3. TypeOK'
  BY <1>1, <1>2 DEF TypeOK, Programs, Places, Texts
<1>4. (Holding' <=> Holding) /\ (Waiting' <=> Waiting)
  BY <1>1, <1>2 DEF Holding, Waiting, TypeOK, Programs
<1> QED
  BY <1>1, <1>2, <1>3, <1>4 DEF ChatInv, OneText

LEMMA GreetsKeep == ASSUME ChatInv, Greets PROVE ChatInv'
<1>1. /\ at["receiver"] = "greet" /\ at' = [at EXCEPT !["receiver"] = "send"]
      /\ UNCHANGED <<text, attached, exists>>
  BY DEF Greets, Goes
<1>2. TypeOK /\ OneText
  BY DEF ChatInv
<1>3. queue' \in Seq(Texts) /\ uneven' \in BOOLEAN
      /\ (~uneven' => ~uneven /\ Len(queue') = Len(queue))
  <2>1. CASE UNCHANGED <<queue, uneven>>
    BY <1>2, <2>1, ChatTypes
  <2>2. CASE Sends("receiver", "hello") /\ uneven' = (uneven \/ attached["receiver"])
    <3>1. uneven' \in BOOLEAN /\ (uneven' <=> uneven \/ attached["receiver"])
      BY <2>2
    <3>2. "receiver" \in Programs /\ "hello" \in Texts
      BY DEF Programs, Texts
    <3> QED
      BY <1>2, <2>2, <3>1, <3>2, SendsEffect
  <2> QED
    BY <2>1, <2>2 DEF Greets
<1>4. TypeOK'
  BY <1>1, <1>2, <1>3 DEF TypeOK, Programs, Places
<1>5. (Holding' <=> Holding) /\ (Waiting' <=> Waiting)
  BY <1>1, <1>2 DEF Holding, Waiting, TypeOK, Programs
<1> QED
  BY <1>2, <1>3, <1>4, <1>5 DEF ChatInv, OneText

LEMMA SendsOnKeeps == ASSUME ChatInv, SendsOn PROVE ChatInv'
<1>1. /\ at["receiver"] = "send" /\ at' = [at EXCEPT !["receiver"] = "receive"]
      /\ Sends("receiver", text["receiver"])
      /\ UNCHANGED <<text, attached, exists, uneven>>
  BY DEF SendsOn, Goes
<1>2. TypeOK /\ OneText
  BY DEF ChatInv
<1>3. "receiver" \in Programs /\ text["receiver"] \in Texts
  BY <1>2, ChatTypes DEF Programs
<1>4. /\ queue' \in Seq(Texts) /\ Len(queue') \in Nat
      /\ attached["receiver"] => Len(queue') = Len(queue) + 1
      /\ ~attached["receiver"] => Len(queue') = Len(queue)
  BY <1>1, <1>2, <1>3, SendsEffect
<1>5. TypeOK'
  BY <1>1, <1>2, <1>4 DEF TypeOK, Programs, Places
<1>6. (Holding' <=> Holding) /\ ~Waiting /\ (Waiting' <=> attached["receiver"])
  BY <1>1, <1>2 DEF Holding, Waiting, TypeOK, Programs
<1> QED
  BY <1>1, <1>2, <1>4, <1>5, <1>6, ChatTypes DEF ChatInv, OneText

LEMMA ReceivesKeeps ==
  ASSUME ChatInv, NEW p \in Programs, NEW next \in {"send", "type"}, Receives(p, next),
         p = "receiver" <=> next = "send"
  PROVE  ChatInv'
<1>1. /\ at[p] = "receive"
      /\ at' = [at EXCEPT ![p] = IF text'[p] = "exit" THEN "remove" ELSE next]
      /\ UNCHANGED <<attached, exists, uneven>>
  BY DEF Receives, Goes
<1>2. TypeOK /\ OneText
  BY DEF ChatInv
<1>3. /\ text' \in [Programs -> Texts] /\ queue' \in Seq(Texts) /\ Len(queue') \in Nat
      /\ attached[p] => Len(queue') = Len(queue) - 1
      /\ ~attached[p] => Len(queue') = Len(queue)
  <2>1. CASE attached[p]
    <3>1. /\ queue # <<>> /\ queue' = Tail(queue) /\ text' = [text EXCEPT ![p] = Head(queue)]
          /\ queue \in Seq(Texts) /\ text \in [Programs -> Texts]
      BY <1>2, <2>1, ChatTypes DEF Receives
    <3>2. /\ queue' \in Seq(Texts) /\ Head(queue) \in Texts
          /\ Len(queue') = Len(queue) - 1 /\ Len(queue') \in Nat
      BY <3>1, HeadTailProperties, LenProperties
    <3> QED
      BY <2>1, <3>1, <3>2
  <2>2. CASE ~attached[p]
    BY <1>2, <2>2, ChatTypes DEF Receives
  <2> QED
    BY <2>1, <2>2
<1>4. TypeOK'
  BY <1>1, <1>2, <1>3 DEF TypeOK, Places
<1>5. at'[p] \in {"send", "type", "remove"} /\ at'[p] \notin {"receive", "off"}
      /\ (next = "type" => at'[p] \in {"type", "remove"})
      /\ \A q \in Programs : q # p => at'[q] = at[q]
  BY <1>1, <1>2 DEF TypeOK
<1>6. CASE p = "receiver"
  <2>1. (Holding' <=> Holding) /\ ~Waiting' /\ (Waiting <=> attached[p])
    BY <1>1, <1>5, <1>6 DEF Holding, Waiting, Programs
  <2> QED
    BY <1>1, <1>2, <1>3, <1>4, <2>1, ChatTypes DEF ChatInv, OneText
<1>7. CASE p = "sender"
  <2>1. (Waiting' <=> Waiting) /\ ~Holding /\ (Holding' <=> attached[p])
    BY <1>1, <1>5, <1>7 DEF Holding, Waiting, Programs
  <2>2. Len(queue) \in Nat
    BY <1>2, ChatTypes
  <2>3. ASSUME attached[p] PROVE OneText'
    <3>1. ~uneven => Len(queue) = IF Waiting THEN 1 ELSE 0
      BY <1>2, <2>1, <2>2 DEF OneText
    <3>2. Len(queue') = Len(queue) - 1 /\ uneven' = uneven /\ Holding'
      BY <1>1, <1>3, <2>1, <2>3
    <3>3. Len(queue') + 1 = Len(queue)
      BY <2>2, <3>2
    <3> QED
      BY <2>1, <3>1, <3>2, <3>3 DEF OneText
  <2>4. ASSUME ~attached[p] PROVE OneText'
    BY <1>1, <1>2, <1>3, <2>1, <2>2, <2>4 DEF OneText
  <2> QED
    BY <1>4, <2>3, <2>4 DEF ChatInv
<1> QED
  BY <1>6, <1>7 DEF Programs

LEMMA RemovesKeeps ==
  ASSUME ChatInv, NEW p \in Programs, Removes(p) PROVE ChatInv'
<1>1. at[p] = "remove" /\ at' = [at EXCEPT ![p] = "off"] /\ text' = text
  BY DEF Removes, Goes
<1>2. TypeOK /\ OneText
  BY DEF ChatInv
<1>3. CASE attached[p]
  <2>1. /\ attached' = [q \in Programs |-> FALSE] /\ exists' = FALSE
        /\ queue' = <<>> /\ uneven' = FALSE
    BY <1>3 DEF Removes
  <2>2. queue' \in Seq(Texts) /\ Len(queue') = 0
    BY <2>1, EmptySeq
  <2>3. TypeOK'
    BY <1>1, <1>2, <2>1, <2>2 DEF TypeOK, Places
  <2>4. ~Holding' /\ ~Waiting'
    BY <2>1 DEF Holding, Waiting, Programs
  <2> QED
    BY <2>2, <2>3, <2>4 DEF ChatInv, OneText
<1>4. CASE ~attached[p]
  <2>1. UNCHANGED <<attached, exists, queue, uneven>>
    BY <1>4 DEF Removes
  <2>2. TypeOK'
    BY <1>1, <1>2, <2>1 DEF TypeOK, Places
  <2>3. (Holding' <=> Holding) /\ (Waiting' <=> Waiting)
    BY <1>1, <1>2, <1>4, <2>1 DEF Holding, Waiting, TypeOK, Programs
  <2> QED
    BY <1>2, <2>1, <2>2, <2>3 DEF ChatInv, OneText
<1> QED
  BY <1>3, <1>4

LEMMA TypesKeeps == ASSUME ChatInv, Types PROVE ChatInv'
<1>1. /\ at["sender"] = "type" /\ at' = [at EXCEPT !["sender"] = "receive"]
      /\ UNCHANGED <<attached, exists, uneven>>
  BY DEF Types, Goes
<1>2. TypeOK /\ OneText
  BY DEF ChatInv
<1>3. PICK said \in Lines \cup {"exit", text["sender"]} :
        text' = [text EXCEPT !["sender"] = said] /\ Sends("sender", said)
  BY DEF Types
<1>4. "sender" \in Programs /\ said \in Texts
  BY <1>2, ChatTypes DEF Programs, Texts
<1>5. /\ queue' \in Seq(Texts) /\ Len(queue') \in Nat
      /\ attached["sender"] => Len(queue') = Len(queue) + 1
      /\ ~attached["sender"] => Len(queue') = Len(queue)
  BY <1>2, <1>3, <1>4, SendsEffect
<1>6. TypeOK'
  BY <1>1, <1>2, <1>3, <1>4, <1>5 DEF TypeOK, Places
<1>7. (Waiting' <=> Waiting) /\ ~Holding' /\ (Holding <=> attached["sender"])
  BY <1>1, <1>2 DEF Holding, Waiting, TypeOK, Programs
<1>8. Len(queue) \in Nat
  BY <1>2, ChatTypes
<1>9. ASSUME attached["sender"] PROVE OneText'
  BY <1>1, <1>2, <1>5, <1>7, <1>8, <1>9 DEF OneText
<1>10. ASSUME ~attached["sender"] PROVE OneText'
  BY <1>1, <1>2, <1>5, <1>7, <1>8, <1>10 DEF OneText
<1> QED
  BY <1>6, <1>9, <1>10 DEF ChatInv

LEMMA KillsKeep ==
  ASSUME ChatInv, NEW p \in Programs, Kill(p) PROVE ChatInv'
<1>1. /\ at' = [at EXCEPT ![p] = "off"] /\ attached' = [attached EXCEPT ![p] = FALSE]
      /\ UNCHANGED <<text, exists, queue>>
  BY DEF Kill, Goes
<1>2. TypeOK /\ OneText
  BY DEF ChatInv
<1>3. uneven' \in BOOLEAN /\ (uneven' <=> uneven \/ (attached[p] /\ Owes(p)))
  <2>1. uneven' = (uneven \/ (attached[p] /\ Owes(p)))
    BY DEF Kill
  <2> QED
    BY <2>1
<1>4. TypeOK'
  BY <1>1, <1>2, <1>3 DEF TypeOK, Places
<1>5. ~uneven' => (Holding' <=> Holding) /\ (Waiting' <=> Waiting)
  <2>1. CASE p = "sender"
    BY <1>1, <1>2, <1>3, <2>1 DEF Holding, Waiting, Owes, TypeOK, Programs
  <2>2. CASE p = "receiver"
    BY <1>1, <1>2, <1>3, <2>2 DEF Holding, Waiting, Owes, TypeOK, Programs
  <2> QED
    BY <2>1, <2>2 DEF Programs
<1> QED
  BY <1>1, <1>2, <1>3, <1>4, <1>5 DEF ChatInv, OneText

LEMMA ChatInvHolds == PairsSpec => []ChatInv
<1>1. ChatInv /\ Next => ChatInv'
  <2> SUFFICES ASSUME ChatInv, Next PROVE ChatInv'
    OBVIOUS
  <2>1. "receiver" \in Programs /\ "sender" \in Programs
    BY DEF Programs
  <2>2. CASE Receiver
    BY <2>1, <2>2, GreetsKeep, SendsOnKeeps, ReceivesKeeps, RemovesKeeps DEF Receiver
  <2>3. CASE Sender
    BY <2>1, <2>3, ReceivesKeeps, RemovesKeeps DEF Sender, SenderRemoves
  <2> QED
    BY <2>2, <2>3, StartsKeep, TypesKeeps, KillsKeep DEF Next
<1>2. ChatInv /\ UNCHANGED queueVars => ChatInv'
  BY DEF queueVars, vars, ChatInv, TypeOK, OneText, Holding, Waiting
<1>3. ChatInv /\ [PairsNext]_allVars => ChatInv'
  BY <1>1, <1>2, OneMoves
<1> QED
  BY <1>3, FromStart, ChatBegins, PTL

\* As long as no text was lost and the first message went nowhere, the two
\* take turns, although either may take its own text, for any lines and any
\* capacity of the queue.
THEOREM OneTextHolds == PairsSpec => []OneText
<1>1. ChatInv => OneText
  BY DEF ChatInv
<1> QED
  BY <1>1, ChatInvHolds, PTL

-----------------------------------------------------------------------------
(* 3.12 and 3.13, memory. *)

Both  == {"Parent", "Child"}
Steps == {"sleep", "scan", "mark", "index", "store", "load", "bump", "show", "ended"}

LEMMA SharedConstants ==
  /\ Batch \in Nat \ {0} /\ Slots \in Nat /\ MaxOverlaps \in Nat
  /\ Values \subseteq 0 .. 999 /\ Values # {}
BY PairsAssumption DEF Memory!SharedAssumption

\* The least and the greatest of a set, when it is known which they are.
LEMMA MinIs ==
  ASSUME NEW S, S \subseteq Int, NEW x \in S, \A y \in S : x <= y PROVE Memory!Min(S) = x
<1>1. \A z \in S : (\A y \in S : z <= y) => z = x
  OBVIOUS
<1> QED
  BY <1>1 DEF Memory!Min

LEMMA MaxIs ==
  ASSUME NEW S, S \subseteq Int, NEW x \in S, \A y \in S : x >= y PROVE Memory!Max(S) = x
<1>1. \A z \in S : (\A y \in S : z >= y) => z = x
  OBVIOUS
<1> QED
  BY <1>1 DEF Memory!Max

LEMMA MinOfTwo ==
  ASSUME NEW a \in Int, NEW b \in Int
  PROVE  Memory!Min({a, b}) = IF a <= b THEN a ELSE b
<1> DEFINE x == IF a <= b THEN a ELSE b
<1>1. x \in {a, b} /\ {a, b} \subseteq Int /\ \A y \in {a, b} : x <= y
  OBVIOUS
<1> HIDE DEF x
<1>2. Memory!Min({a, b}) = x
  BY <1>1, MinIs
<1> QED
  BY <1>2 DEF x

LEMMA MaxOfTwo ==
  ASSUME NEW a \in Int, NEW b \in Int
  PROVE  Memory!Max({a, b}) = IF a >= b THEN a ELSE b
<1> DEFINE x == IF a >= b THEN a ELSE b
<1>1. x \in {a, b} /\ {a, b} \subseteq Int /\ \A y \in {a, b} : x >= y
  OBVIOUS
<1> HIDE DEF x
<1>2. Memory!Max({a, b}) = x
  BY <1>1, MaxIs
<1> QED
  BY <1>2 DEF x

\* The least and the greatest int are beyond all numbers.
LEMMA Beyond ==
  /\ Memory!IntMax \in Int /\ Memory!IntMin \in Int
  /\ \A v \in Values : v \in Int /\ Memory!IntMin < v /\ v < Memory!IntMax
  /\ \A x \in Memory!Entries : x \in Int
<1>1. PICK v \in Values : \A w \in Values : w <= v
  <2>1. 999 \in Nat
    OBVIOUS
  <2>2. Values \subseteq 0 .. 999 /\ Values # {}
    BY SharedConstants
  <2> QED
    BY <2>1, <2>2, GreatestOf, ZenonT(60)
<1>2. Values \subseteq Int /\ \A w \in Values : v >= w
  BY <1>1, SharedConstants
<1>3. Memory!Max(Values) = v
  BY <1>2, MaxIs
<1>4. Memory!IntMax = v + 1 /\ Memory!IntMin = -1
  BY <1>3 DEF Memory!IntMax, Memory!IntMin
<1>5. \A w \in Values : w \in Int /\ w >= 0 /\ w <= v
  BY <1>1, SharedConstants
<1> QED
  BY <1>2, <1>4, <1>5 DEF Memory!Entries

LEMMA MemoryTypes ==
  ASSUME Memory!TypeOK
  PROVE  /\ Batch \in Nat \ {0} /\ Slots \in Nat /\ MaxOverlaps \in Nat
         /\ buf \in [0 .. Slots - 1 -> Memory!Entries]
         /\ step \in [Both -> Steps]
         /\ copy \in [Both -> 0 .. Slots + 1] /\ \A p \in Both : copy[p] \in Nat
         /\ pushed \in [Both -> 0 .. Memory!Max({Batch, 2})] /\ \A p \in Both : pushed[p] \in Int
         /\ nMsg \in Nat /\ nMsg <= Slots + 1 /\ scan \in Nat /\ scan <= Slots + 1
         /\ posMinmax \in Nat /\ posMinmax <= Slots + 1
         /\ minOf \in Memory!Entries /\ maxOf \in Memory!Entries
         /\ minOf \in Int /\ maxOf \in Int
         /\ shown \in Seq(Memory!Entries) /\ written \subseteq Values
         /\ overlaps \in Nat /\ overlaps <= MaxOverlaps
         /\ running \in BOOLEAN /\ reply \in {"none", "begun", "given"}
<1>1. /\ Batch \in Nat \ {0} /\ Slots \in Nat /\ MaxOverlaps \in Nat
  BY SharedConstants
<1>2. /\ nMsg \in 0 .. Slots + 1 /\ scan \in 0 .. Slots + 1 /\ posMinmax \in 0 .. Slots + 1
      /\ overlaps \in 0 .. MaxOverlaps /\ copy \in [Both -> 0 .. Slots + 1]
      /\ pushed \in [Both -> 0 .. Memory!Max({Batch, 2})]
  BY DEF Memory!TypeOK, Memory!Processes, Both
<1>3. /\ \A p \in Both : copy[p] \in 0 .. Slots + 1
      /\ \A p \in Both : pushed[p] \in 0 .. Memory!Max({Batch, 2})
  BY <1>2
<1>4. minOf \in Memory!Entries /\ maxOf \in Memory!Entries
  BY DEF Memory!TypeOK
<1>5. minOf \in Int /\ maxOf \in Int
  BY <1>4, Beyond
<1> QED
  BY <1>1, <1>2, <1>3, <1>4, <1>5 DEF Memory!TypeOK, Memory!Processes, Both, Steps

\* No process is ahead of the array's end by more than the other leaves room
\* for: what the two add to n_msg never passes the end by more than one.
Ahead(p)  == step[p] = "load" \/ (step[p] = "store" /\ copy[p] < Slots)
AtBump(p) == step[p] = "bump"

BoundAt(p, q) ==
  /\ Ahead(p)  => nMsg <= Slots
  /\ AtBump(p) => copy[p] <= Slots
  /\ Ahead(p) /\ (Ahead(q) \/ AtBump(q)) => nMsg < Slots
  /\ AtBump(p) /\ copy[p] = Slots => nMsg = Slots /\ ~Ahead(q) /\ ~AtBump(q)

BoundInv == BoundAt("Parent", "Child") /\ BoundAt("Child", "Parent")

ChildAt  == step["Child"]
ParentAt == step["Parent"]

\* The child works on the answer while the parent sleeps: nobody else moves
\* n_msg, and what it stored is still where it stored it.
Begun ==
  /\ ParentAt \in {"sleep", "ended"} /\ shown = <<>>
  /\ ChildAt \in {"index", "store", "load", "bump"} /\ pushed["Child"] = 1 =>
       nMsg >= 1 /\ nMsg <= Slots /\ buf[nMsg - 1] = minOf
  /\ ChildAt \in {"store", "bump"} => copy["Child"] = nMsg
  /\ ChildAt \in {"load", "bump"} =>
       nMsg < Slots /\ buf[nMsg] = IF pushed["Child"] = 0 THEN minOf ELSE maxOf

\* The answer is there and the child sleeps.
Given ==
  /\ ChildAt \in {"sleep", "ended"} /\ ParentAt \in {"sleep", "show", "index", "ended"}
  /\ nMsg >= 2 /\ nMsg <= Slots
  /\ buf[nMsg - 2] = minOf /\ buf[nMsg - 1] = maxOf
  /\ shown = <<>> \/ shown = <<minOf>> \/ shown = <<minOf, maxOf>>
  /\ ParentAt = "show" => Len(shown) # 2

ReplyInv ==
  /\ pushed["Child"] \in {0, 1}
  /\ ChildAt \in {"sleep", "scan", "mark"} => pushed["Child"] = 0
  /\ ParentAt \in {"store", "load", "bump"} => reply = "none" /\ shown = <<>>
  /\ ParentAt = "sleep" => shown = <<>>
  /\ reply = "begun" => Begun
  /\ reply = "given" => Given

\* While the two were never awake together, every number written lies between
\* min and max or is one the child has yet to look at.
Seen(w) == minOf <= w /\ w <= maxOf
AllSeen == minOf \in written /\ maxOf \in written /\ \A w \in written : Seen(w)
From    == IF ChildAt = "scan" THEN scan ELSE posMinmax
Upto    == IF ChildAt \in {"load", "bump"} \/ ParentAt \in {"load", "bump"} THEN nMsg
                                                                            ELSE nMsg - 1

Ordered ==
  /\ posMinmax <= nMsg
  /\ ChildAt = "scan" => posMinmax <= scan /\ scan <= nMsg
  /\ minOf \in written \/ minOf = Memory!IntMax
  /\ maxOf \in written \/ maxOf = Memory!IntMin
  /\ \A p \in Both : step[p] \in {"store", "bump"} => copy[p] = nMsg
  /\ ChildAt \in {"mark", "index", "store", "load", "bump"} => AllSeen
  /\ ParentAt \in {"load", "bump", "sleep"} => written # {}

Covered ==
  /\ \A w \in written : Seen(w) \/ \E i \in 0 .. Slots - 1 : From <= i /\ i <= Upto /\ buf[i] = w
  /\ \A i \in 0 .. Slots - 1 : posMinmax <= i /\ i <= Upto => buf[i] \in written

Apart == ChildAt \in {"sleep", "ended"} \/ ParentAt \in {"sleep", "ended"}

ApartInv ==
  overlaps = 0 =>
    /\ Apart
    /\ reply = "given" => AllSeen \/ (ParentAt = "ended" /\ shown = <<>>)
    /\ ChildAt # "ended" /\ ParentAt # "ended" => Ordered /\ Covered

MemoryInv == Memory!TypeOK /\ BoundInv /\ ReplyInv /\ ApartInv

\* What changes one entry of step.
LEMMA OneGoes ==
  ASSUME NEW p \in Both, NEW q \in Both, p # q, NEW to \in Steps,
         step \in [Both -> Steps], step' = [step EXCEPT ![p] = to]
  PROVE  step'[p] = to /\ step'[q] = step[q] /\ step' \in [Both -> Steps]
OBVIOUS

\* The four steps of an append keep n_msg within its bound, whoever takes them.
BothBound(p, q) == BoundAt(p, q) /\ BoundAt(q, p)

LEMMA IndexBound ==
  ASSUME NEW p, NEW q, Slots \in Nat, nMsg \in Nat, copy[p] \in Nat, copy[q] \in Nat,
         BothBound(p, q), step'[q] = step[q], copy'[q] = copy[q],
         nMsg' = nMsg, step'[p] = "store", copy'[p] = nMsg
  PROVE  BothBound(p, q)'
<1>1. BoundAt(p, q)'
  BY DEF BothBound, BoundAt, Ahead, AtBump
<1>2. BoundAt(q, p)'
  BY DEF BothBound, BoundAt, Ahead, AtBump
<1> QED
  BY <1>1, <1>2 DEF BothBound

LEMMA StoreBound ==
  ASSUME NEW p, NEW q, Slots \in Nat, nMsg \in Nat, copy[p] \in Nat, copy[q] \in Nat,
         BothBound(p, q), step'[q] = step[q], copy'[q] = copy[q],
         step[p] = "store", copy[p] < Slots, nMsg' = nMsg, step'[p] = "load"
  PROVE  BothBound(p, q)'
<1>1. BoundAt(p, q)'
  BY DEF BothBound, BoundAt, Ahead, AtBump
<1>2. BoundAt(q, p)'
  BY DEF BothBound, BoundAt, Ahead, AtBump
<1> QED
  BY <1>1, <1>2 DEF BothBound

LEMMA LoadBound ==
  ASSUME NEW p, NEW q, Slots \in Nat, nMsg \in Nat, copy[p] \in Nat, copy[q] \in Nat,
         BothBound(p, q), step'[q] = step[q], copy'[q] = copy[q],
         step[p] = "load", nMsg' = nMsg, step'[p] = "bump", copy'[p] = nMsg
  PROVE  BothBound(p, q)'
<1>1. BoundAt(p, q)'
  BY DEF BothBound, BoundAt, Ahead, AtBump
<1>2. BoundAt(q, p)'
  BY DEF BothBound, BoundAt, Ahead, AtBump
<1> QED
  BY <1>1, <1>2 DEF BothBound

LEMMA BumpBound ==
  ASSUME NEW p, NEW q, Slots \in Nat, nMsg \in Nat, copy[p] \in Nat, copy[q] \in Nat,
         BothBound(p, q), step'[q] = step[q], copy'[q] = copy[q],
         step[p] = "bump", nMsg' = copy[p] + 1, step'[p] \in {"index", "sleep"}
  PROVE  BothBound(p, q)'
<1>1. BoundAt(p, q)'
  BY DEF BothBound, BoundAt, Ahead, AtBump
<1>2. BoundAt(q, p)'
  BY DEF BothBound, BoundAt, Ahead, AtBump
<1> QED
  BY <1>1, <1>2 DEF BothBound

LEMMA QuietBound ==
  ASSUME NEW p, NEW q, Slots \in Nat, nMsg \in Nat, copy[p] \in Nat, copy[q] \in Nat,
         BothBound(p, q), step'[q] = step[q], copy'[q] = copy[q],
         nMsg' = nMsg, step'[p] \notin {"store", "load", "bump"}
  PROVE  BothBound(p, q)'
<1>1. BoundAt(p, q)'
  BY DEF BothBound, BoundAt, Ahead, AtBump
<1>2. BoundAt(q, p)'
  BY DEF BothBound, BoundAt, Ahead, AtBump
<1> QED
  BY <1>1, <1>2 DEF BothBound

LEMMA ParentIndexesKeeps == ASSUME MemoryInv, Memory!ParentIndexes PROVE MemoryInv'
<1>1. /\ step["Parent"] = "index" /\ step' = [step EXCEPT !["Parent"] = "store"]
      /\ copy' = [copy EXCEPT !["Parent"] = nMsg] /\ shown' = <<>> /\ reply' = "none"
      /\ UNCHANGED <<running, buf, nMsg, pushed, posMinmax, scan, minOf, maxOf, written, overlaps>>
  BY DEF Memory!ParentIndexes, Memory!Index, Memory!Goes, Memory!child
<1>2. Memory!TypeOK /\ BoundInv /\ ReplyInv /\ ApartInv
  BY DEF MemoryInv
<1>3. /\ step'["Parent"] = "store" /\ step'["Child"] = step["Child"]
      /\ copy'["Parent"] = nMsg /\ copy'["Child"] = copy["Child"]
  BY <1>1, <1>2, MemoryTypes DEF Both, Steps
<1>4. Memory!TypeOK'
  BY <1>1, <1>2, MemoryTypes, EmptySeq DEF Memory!TypeOK, Memory!Processes, Both
<1>5. BoundInv'
  <2>1. BothBound("Parent", "Child")
    BY <1>2 DEF BoundInv, BothBound
  <2>2. BothBound("Parent", "Child")'
    BY <1>1, <1>2, <1>3, <2>1, MemoryTypes, IndexBound DEF Both
  <2> QED
    BY <2>2 DEF BoundInv, BothBound
<1>6. ReplyInv'
  BY <1>1, <1>2, <1>3, MemoryTypes DEF ReplyInv, ChildAt, ParentAt
<1>7. ApartInv'
  BY <1>1, <1>2, <1>3, MemoryTypes
     DEF ApartInv, Apart, Ordered, Covered, AllSeen, Seen, From, Upto, ChildAt, ParentAt, Both
<1> QED
  BY <1>4, <1>5, <1>6, <1>7 DEF MemoryInv

\* Outside the array nothing is known, and nothing is touched.
LEMMA StraysKeep == ASSUME MemoryInv, NEW i, Memory!Strays(i) PROVE MemoryInv'
<1>1. /\ running' = FALSE
      /\ UNCHANGED <<buf, nMsg, step, copy, pushed, posMinmax, scan, minOf, maxOf, shown,
                     written, reply, overlaps>>
  BY DEF Memory!Strays, Memory!child, Memory!history
<1>2. Memory!TypeOK'
  BY <1>1 DEF MemoryInv, Memory!TypeOK
<1>3. BoundInv' /\ ReplyInv'
  BY <1>1 DEF MemoryInv, BoundInv, BoundAt, Ahead, AtBump, ReplyInv, Begun, Given, ChildAt,
              ParentAt
<1>4. ApartInv'
  BY <1>1 DEF MemoryInv, ApartInv, Apart, Ordered, Covered, AllSeen, Seen, From, Upto, ChildAt,
              ParentAt
<1> QED
  BY <1>2, <1>3, <1>4 DEF MemoryInv

LEMMA ParentStoresKeeps == ASSUME MemoryInv, Memory!ParentStores PROVE MemoryInv'
<1> SUFFICES ASSUME NEW x \in Values, Memory!Store("Parent", x), written' = written \cup {x}
             PROVE  MemoryInv'
  BY StraysKeep DEF Memory!ParentStores
<1>1. /\ step["Parent"] = "store" /\ copy["Parent"] < Slots
      /\ step' = [step EXCEPT !["Parent"] = "load"]
      /\ copy' = [copy EXCEPT !["Parent"] = 0] /\ buf' = [buf EXCEPT ![copy["Parent"]] = x]
      /\ UNCHANGED <<running, nMsg, pushed, posMinmax, scan, minOf, maxOf, shown, reply, overlaps>>
  BY DEF Memory!Store, Memory!Goes, Memory!child
<1>2. Memory!TypeOK /\ BoundInv /\ ReplyInv /\ ApartInv
  BY DEF MemoryInv
<1>3. /\ step'["Parent"] = "load" /\ step'["Child"] = step["Child"]
      /\ copy'["Parent"] = 0 /\ copy'["Child"] = copy["Child"]
  BY <1>1, <1>2, MemoryTypes DEF Both, Steps
<1>4. /\ copy["Parent"] \in 0 .. Slots - 1 /\ buf'[copy["Parent"]] = x
      /\ \A i \in 0 .. Slots - 1 : i # copy["Parent"] => buf'[i] = buf[i]
  BY <1>1, <1>2, MemoryTypes DEF Both
<1>5. Memory!TypeOK'
  <2>1. x \in Memory!Entries
    BY DEF Memory!Entries
  <2> QED
    BY <1>1, <1>2, <2>1, MemoryTypes, SMTT(30) DEF Memory!TypeOK, Memory!Processes, Both
<1>6. BoundInv'
  <2>1. BothBound("Parent", "Child")
    BY <1>2 DEF BoundInv, BothBound
  <2>2. BothBound("Parent", "Child")'
    BY <1>1, <1>2, <1>3, <2>1, MemoryTypes, StoreBound DEF Both
  <2> QED
    BY <2>2 DEF BoundInv, BothBound
<1>7. ReplyInv'
  BY <1>1, <1>2, <1>3, MemoryTypes DEF ReplyInv, ChildAt, ParentAt
<1>8. ASSUME overlaps = 0, ChildAt # "ended" PROVE (Ordered /\ Covered)'
  <2>1. Ordered /\ Covered /\ ChildAt = "sleep" /\ copy["Parent"] = nMsg
    BY <1>1, <1>2, <1>8 DEF ApartInv, Apart, ChildAt, ParentAt, Ordered, Both
  <2>2. ChildAt' = "sleep" /\ ParentAt' = "load"
    BY <1>3, <2>1 DEF ChildAt, ParentAt
  <2>3. Ordered'
    BY <1>1, <1>3, <2>1, <2>2 DEF Ordered, ChildAt, ParentAt, Both
  <2>4. From = posMinmax /\ Upto = nMsg - 1 /\ From' = posMinmax /\ Upto' = nMsg
    BY <1>1, <2>1, <2>2 DEF From, Upto, ParentAt, ChildAt
  <2>5. posMinmax <= nMsg /\ nMsg \in 0 .. Slots - 1 /\ nMsg \in Nat /\ posMinmax \in Nat
    BY <1>2, <1>4, <2>1, MemoryTypes DEF Ordered
  <2>6. ASSUME NEW w \in written'
        PROVE  Seen(w)' \/ \E i \in 0 .. Slots - 1 : From' <= i /\ i <= Upto' /\ buf'[i] = w
    <3>1. CASE w = x
      BY <1>4, <2>1, <2>4, <2>5, <3>1
    <3>2. CASE w \in written
      BY <1>1, <1>4, <2>1, <2>4, <2>5, <3>2 DEF Covered, Seen
    <3> QED
      BY <3>1, <3>2
  <2>7. ASSUME NEW i \in 0 .. Slots - 1, posMinmax <= i, i <= Upto' PROVE buf'[i] \in written'
    BY <1>4, <2>1, <2>4, <2>5, <2>7 DEF Covered
  <2> QED
    BY <1>1, <2>3, <2>6, <2>7 DEF Covered
<1>9. ApartInv'
  BY <1>1, <1>2, <1>3, <1>8 DEF ApartInv, Apart, ReplyInv, ChildAt, ParentAt
<1> QED
  BY <1>5, <1>6, <1>7, <1>9 DEF MemoryInv

\* How far pushed[p] may count.
LEMMA CountBound == Memory!Max({Batch, 2}) \in Int /\ Memory!Max({Batch, 2}) >= Batch
                    /\ Memory!Max({Batch, 2}) >= 2
BY SharedConstants, MaxOfTwo

LEMMA BumpEffect ==
  ASSUME Memory!TypeOK, NEW p \in Both, NEW count \in Nat \ {0}, NEW next \in Steps,
         Memory!Max({Batch, 2}) >= count, Memory!Bump(p, count, next)
  PROVE  /\ nMsg' = copy[p] + 1
         /\ copy' \in [Both -> 0 .. Slots + 1] /\ copy'[p] = 0
         /\ \A q \in Both \ {p} : copy'[q] = copy[q] /\ pushed'[q] = pushed[q] /\ step'[q] = step[q]
         /\ pushed' \in [Both -> 0 .. Memory!Max({Batch, 2})]
         /\ step' \in [Both -> Steps]
         /\ IF pushed[p] + 1 < count THEN step'[p] = "index" /\ pushed'[p] = pushed[p] + 1
                                     ELSE step'[p] = next /\ pushed'[p] = 0
<1>1. /\ nMsg' = copy[p] + 1 /\ copy' = [copy EXCEPT ![p] = 0]
      /\ pushed' = [pushed EXCEPT ![p] = IF pushed[p] + 1 < count THEN pushed[p] + 1 ELSE 0]
      /\ step' = [step EXCEPT ![p] = IF pushed[p] + 1 < count THEN "index" ELSE next]
  BY MemoryTypes DEF Memory!Bump, Memory!Goes
<1>2. Memory!Max({Batch, 2}) \in Int /\ Memory!Max({Batch, 2}) >= 2
  BY CountBound
<1>3. pushed[p] \in 0 .. Memory!Max({Batch, 2})
  BY MemoryTypes
<1>4. 0 \in 0 .. Slots + 1 /\ "index" \in Steps
  BY MemoryTypes DEF Steps
<1>5. copy' \in [Both -> 0 .. Slots + 1] /\ copy'[p] = 0 /\ \A q \in Both \ {p} : copy'[q] = copy[q]
  BY <1>1, <1>4, MemoryTypes
<1>6. CASE pushed[p] + 1 < count
  <2>1. pushed[p] + 1 \in 0 .. Memory!Max({Batch, 2})
    BY <1>2, <1>3, <1>6
  <2> QED
    BY <1>1, <1>4, <1>5, <1>6, <2>1, MemoryTypes
<1>7. CASE ~(pushed[p] + 1 < count)
  <2>1. 0 \in 0 .. Memory!Max({Batch, 2})
    BY <1>2
  <2> QED
    BY <1>1, <1>4, <1>5, <1>7, <2>1, MemoryTypes
<1> QED
  BY <1>6, <1>7

LEMMA ParentBumpsKeeps == ASSUME MemoryInv, Memory!ParentBumps PROVE MemoryInv'
<1>1. /\ step["Parent"] = "bump" /\ Memory!Bump("Parent", Batch, "sleep")
      /\ UNCHANGED <<running, buf, posMinmax, scan, minOf, maxOf, shown, written, reply, overlaps>>
  BY DEF Memory!ParentBumps, Memory!Bump, Memory!Goes, Memory!child
<1>2. Memory!TypeOK /\ BoundInv /\ ReplyInv /\ ApartInv
  BY DEF MemoryInv
<1>3. /\ nMsg' = copy["Parent"] + 1 /\ copy'["Child"] = copy["Child"]
      /\ step'["Child"] = step["Child"] /\ step'["Parent"] \in {"index", "sleep"}
      /\ pushed'["Child"] = pushed["Child"]
      /\ copy' \in [Both -> 0 .. Slots + 1] /\ step' \in [Both -> Steps]
      /\ pushed' \in [Both -> 0 .. Memory!Max({Batch, 2})]
  <2>1. "Parent" \in Both /\ "Child" \in Both \ {"Parent"} /\ "sleep" \in Steps
    BY DEF Both, Steps
  <2>2. Batch \in Nat \ {0} /\ Memory!Max({Batch, 2}) >= Batch
    BY SharedConstants, CountBound
  <2> QED
    BY <1>1, <1>2, <2>1, <2>2, BumpEffect
<1>4. copy["Parent"] \in Nat /\ copy["Parent"] <= Slots /\ Slots \in Nat
  BY <1>1, <1>2, MemoryTypes DEF BoundInv, BoundAt, AtBump, Both
<1>5. Memory!TypeOK'
  <2>1. nMsg' \in 0 .. Slots + 1
    BY <1>3, <1>4
  <2> QED
    BY <1>1, <1>2, <1>3, <2>1 DEF Memory!TypeOK, Memory!Processes, Both, Steps
<1>6. BoundInv'
  <2>1. BothBound("Parent", "Child")
    BY <1>2 DEF BoundInv, BothBound
  <2>2. BothBound("Parent", "Child")'
    BY <1>1, <1>2, <1>3, <2>1, MemoryTypes, BumpBound DEF Both
  <2> QED
    BY <2>2 DEF BoundInv, BothBound
<1>7. ReplyInv'
  BY <1>1, <1>2, <1>3, MemoryTypes DEF ReplyInv, ChildAt, ParentAt
<1>8. ASSUME overlaps = 0, ChildAt # "ended" PROVE (Ordered /\ Covered)'
  <2>1. Ordered /\ Covered /\ ChildAt = "sleep" /\ copy["Parent"] = nMsg
    BY <1>1, <1>2, <1>8 DEF ApartInv, Apart, ChildAt, ParentAt, Ordered, Both
  <2>2. ChildAt' = "sleep" /\ ParentAt' \in {"index", "sleep"} /\ ParentAt = "bump"
    BY <1>1, <1>3, <2>1 DEF ChildAt, ParentAt
  <2>3. nMsg' = nMsg + 1 /\ nMsg \in Nat /\ posMinmax \in Nat
    BY <1>2, <1>3, <2>1, MemoryTypes
  <2>4. Ordered'
    BY <1>1, <1>3, <2>1, <2>2, <2>3 DEF Ordered, ChildAt, ParentAt, Both, Steps
  <2>5. From = posMinmax /\ Upto = nMsg /\ From' = posMinmax /\ Upto' = nMsg
    BY <1>1, <2>1, <2>2, <2>3 DEF From, Upto
  <2>6. Covered'
    BY <1>1, <2>1, <2>5 DEF Covered, Seen
  <2> QED
    BY <2>4, <2>6
<1>9. ApartInv'
  BY <1>1, <1>2, <1>3, <1>8 DEF ApartInv, Apart, ReplyInv, ChildAt, ParentAt
<1> QED
  BY <1>5, <1>6, <1>7, <1>9 DEF MemoryInv

\* What waking up does to the history.
LEMMA WakesEffect ==
  ASSUME Memory!TypeOK, NEW p \in Both, NEW q \in Both \ {p}, NEW to \in Steps, Memory!Wakes(p, to)
  PROVE  /\ step[p] = "sleep" /\ step' = [step EXCEPT ![p] = to]
         /\ step'[p] = to /\ step'[q] = step[q] /\ step' \in [Both -> Steps]
         /\ overlaps' \in 0 .. MaxOverlaps
         /\ overlaps' = 0 => overlaps = 0 /\ step[q] \in {"sleep", "ended"}
<1>1. /\ step[p] = "sleep" /\ step' = [step EXCEPT ![p] = to]
      /\ overlaps' = IF \E r \in Both : Memory!Awake(r) THEN overlaps + 1 ELSE overlaps
      /\ overlaps' <= MaxOverlaps
  BY DEF Memory!Wakes, Memory!Goes, Memory!Processes, Both
<1>2. overlaps \in Nat /\ MaxOverlaps \in Nat
  BY MemoryTypes
<1>3. overlaps' \in 0 .. MaxOverlaps /\ (overlaps' = 0 => overlaps = 0 /\ ~\E r \in Both : Memory!Awake(r))
  BY <1>1, <1>2
<1> QED
  BY <1>1, <1>3, MemoryTypes DEF Memory!Awake

LEMMA ParentWakesKeeps == ASSUME MemoryInv, Memory!ParentWakes PROVE MemoryInv'
<1>1. /\ Memory!Wakes("Parent", "show") /\ reply' = IF reply = "begun" THEN "none" ELSE reply
      /\ UNCHANGED <<running, buf, nMsg, copy, pushed, posMinmax, scan, minOf, maxOf, shown, written>>
  BY DEF Memory!ParentWakes, Memory!child
<1>2. Memory!TypeOK /\ BoundInv /\ ReplyInv /\ ApartInv
  BY DEF MemoryInv
<1>3. /\ step["Parent"] = "sleep" /\ step'["Parent"] = "show" /\ step'["Child"] = step["Child"]
      /\ step' \in [Both -> Steps] /\ overlaps' \in 0 .. MaxOverlaps
      /\ overlaps' = 0 => overlaps = 0 /\ step["Child"] \in {"sleep", "ended"}
  BY <1>1, <1>2, WakesEffect DEF Both, Steps
<1>4. Memory!TypeOK'
  BY <1>1, <1>2, <1>3, MemoryTypes DEF Memory!TypeOK, Memory!Processes, Both, Steps
<1>5. BoundInv'
  <2>1. BothBound("Parent", "Child")
    BY <1>2 DEF BoundInv, BothBound
  <2>2. BothBound("Parent", "Child")'
    BY <1>1, <1>2, <1>3, <2>1, MemoryTypes, QuietBound DEF Both
  <2> QED
    BY <2>2 DEF BoundInv, BothBound
<1>6. ReplyInv'
  BY <1>1, <1>2, <1>3, MemoryTypes, EmptySeq DEF ReplyInv, Given, ChildAt, ParentAt
<1>7. ASSUME overlaps' = 0, ChildAt # "ended" PROVE (Ordered /\ Covered)'
  <2>1. Ordered /\ Covered /\ ChildAt = "sleep" /\ ParentAt = "sleep"
    BY <1>2, <1>3, <1>7 DEF ApartInv, ChildAt, ParentAt
  <2>2. ChildAt' = "sleep" /\ ParentAt' = "show"
    BY <1>3, <2>1 DEF ChildAt, ParentAt
  <2>3. Ordered'
    BY <1>1, <1>3, <2>1, <2>2 DEF Ordered, ChildAt, ParentAt, Both, Steps
  <2>4. From' = From /\ Upto' = Upto
    BY <1>1, <2>1, <2>2 DEF From, Upto
  <2>5. Covered'
    BY <1>1, <2>1, <2>4 DEF Covered, Seen
  <2> QED
    BY <2>3, <2>5
<1>8. ApartInv'
  BY <1>1, <1>2, <1>3, <1>7 DEF ApartInv, Apart, AllSeen, Seen, ChildAt, ParentAt
<1> QED
  BY <1>4, <1>5, <1>6, <1>8 DEF MemoryInv

LEMMA AppendOne == ASSUME NEW a, NEW b PROVE Append(<<a>>, b) = <<a, b>>
<1> DEFINE S == {a, b}
<1>1. <<a>> \in Seq(S) /\ b \in S /\ <<a, b>> \in Seq(S)
  OBVIOUS
<1>2. Len(<<a>>) = 1 /\ Len(<<a, b>>) = 2
  OBVIOUS
<1>3. /\ Append(<<a>>, b) \in Seq(S) /\ Len(Append(<<a>>, b)) = 2
      /\ Append(<<a>>, b)[1] = a /\ Append(<<a>>, b)[2] = b
  BY <1>1, <1>2, AppendProperties
<1>4. <<a, b>>[1] = a /\ <<a, b>>[2] = b
  OBVIOUS
<1>5. \A i \in 1 .. 2 : i = 1 \/ i = 2
  OBVIOUS
<1> DEFINE s == Append(<<a>>, b)
           t == <<a, b>>
<1>6. s \in Seq(S) /\ t \in Seq(S) /\ Len(s) = Len(t) /\ \A i \in 1 .. Len(s) : s[i] = t[i]
  BY <1>1, <1>2, <1>3, <1>4, <1>5
<1> HIDE DEF s, t
<1>7. s = t
  BY <1>6, SeqEqual
<1> QED
  BY <1>7 DEF s, t

LEMMA ShowsKeeps == ASSUME MemoryInv, Memory!Shows PROVE MemoryInv'
<1> DEFINE i == nMsg - 2 + Len(shown)
           to == IF shown = <<>> THEN "show" ELSE "index"
<1> SUFFICES ASSUME i \in DOMAIN buf, shown' = Append(shown, buf[i]), Memory!Goes("Parent", to),
                    UNCHANGED <<running, buf, nMsg, copy, pushed, posMinmax, scan, minOf, maxOf,
                                written, reply, overlaps>>
             PROVE  MemoryInv'
  BY StraysKeep DEF Memory!Shows, Memory!child, Memory!history
<1>1. step["Parent"] = "show" /\ step' = [step EXCEPT !["Parent"] = to]
  BY DEF Memory!Shows, Memory!Goes
<1>2. Memory!TypeOK /\ BoundInv /\ ReplyInv /\ ApartInv
  BY DEF MemoryInv
<1>3. /\ step'["Parent"] = to /\ step'["Child"] = step["Child"] /\ step' \in [Both -> Steps]
      /\ to \in {"show", "index"}
  BY <1>1, <1>2, MemoryTypes DEF Both, Steps
<1>4. Memory!TypeOK'
  <2>1. i \in 0 .. Slots - 1 /\ buf[i] \in Memory!Entries
    BY <1>2, MemoryTypes
  <2>2. shown' \in Seq(Memory!Entries)
    BY <1>2, <2>1, MemoryTypes, AppendProperties
  <2> QED
    BY <1>2, <1>3, <2>2 DEF Memory!TypeOK, Memory!Processes, Both, Steps
<1>5. BoundInv'
  <2>1. BothBound("Parent", "Child")
    BY <1>2 DEF BoundInv, BothBound
  <2>2. BothBound("Parent", "Child")'
    BY <1>1, <1>2, <1>3, <2>1, MemoryTypes, QuietBound DEF Both
  <2> QED
    BY <2>2 DEF BoundInv, BothBound
<1>6. reply # "begun"
  BY <1>1, <1>2 DEF ReplyInv, Begun, ParentAt
<1>7. ASSUME reply = "given" PROVE Given'
  <2>1. Given /\ Len(shown) # 2 /\ nMsg \in Nat
    BY <1>1, <1>2, <1>7, MemoryTypes DEF ReplyInv, Given, ParentAt
  <2>2. Len(<<minOf, maxOf>>) = 2 /\ Len(<<minOf>>) = 1 /\ Len(<<>>) = 0 /\ <<minOf>> # <<>>
    OBVIOUS
  <2>3. CASE shown = <<>>
    <3>1. shown' = <<minOf>> /\ to = "show"
      BY <2>1, <2>2, <2>3 DEF Given
    <3> QED
      BY <1>2, <1>3, <2>1, <2>2, <3>1 DEF Given, ChildAt, ParentAt
  <2>4. CASE shown = <<minOf>>
    <3>1. i = nMsg - 1 /\ to = "index"
      BY <2>1, <2>2, <2>4
    <3>2. shown' = <<minOf, maxOf>>
      <4>1. Append(<<minOf>>, maxOf) = <<minOf, maxOf>>
        BY AppendOne
      <4>2. buf[i] = maxOf
        BY <2>1, <3>1 DEF Given
      <4>3. shown' = Append(shown, buf[i])
        OBVIOUS
      <4> QED
        BY <2>4, <4>1, <4>2, <4>3, Zenon
    <3> QED
      BY <1>2, <1>3, <2>1, <3>1, <3>2 DEF Given, ChildAt, ParentAt
  <2> QED
    BY <2>1, <2>2, <2>3, <2>4 DEF Given
<1>8. ReplyInv'
  BY <1>2, <1>3, <1>6, <1>7 DEF ReplyInv, ChildAt, ParentAt
<1>9. ASSUME overlaps = 0, ChildAt # "ended" PROVE (Ordered /\ Covered)'
  <2>1. Ordered /\ Covered /\ ChildAt = "sleep" /\ ParentAt = "show"
    BY <1>1, <1>2, <1>9 DEF ApartInv, Apart, ChildAt, ParentAt
  <2>2. ChildAt' = "sleep" /\ ParentAt' \in {"show", "index"}
    BY <1>3, <2>1 DEF ChildAt, ParentAt
  <2>3. Ordered'
    BY <1>3, <2>1, <2>2 DEF Ordered, ChildAt, ParentAt, Both, Steps
  <2>4. From' = From /\ Upto' = Upto
    BY <2>1, <2>2 DEF From, Upto
  <2>5. Covered'
    BY <2>1, <2>4 DEF Covered, Seen
  <2> QED
    BY <2>3, <2>5
<1>10. ApartInv'
  BY <1>1, <1>2, <1>3, <1>9 DEF ApartInv, Apart, AllSeen, Seen, ChildAt, ParentAt
<1> QED
  BY <1>4, <1>5, <1>8, <1>10 DEF MemoryInv

LEMMA ChildWakesKeeps == ASSUME MemoryInv, Memory!ChildWakes PROVE MemoryInv'
<1>1. /\ Memory!Wakes("Child", "scan") /\ scan' = posMinmax
      /\ reply' = IF step["Parent"] = "sleep" THEN "begun" ELSE "none"
      /\ UNCHANGED <<running, buf, nMsg, copy, pushed, posMinmax, minOf, maxOf, shown, written>>
  BY DEF Memory!ChildWakes
<1>2. Memory!TypeOK /\ BoundInv /\ ReplyInv /\ ApartInv
  BY DEF MemoryInv
<1>3. /\ step["Child"] = "sleep" /\ step'["Child"] = "scan" /\ step'["Parent"] = step["Parent"]
      /\ step' \in [Both -> Steps] /\ overlaps' \in 0 .. MaxOverlaps
      /\ overlaps' = 0 => overlaps = 0 /\ step["Parent"] \in {"sleep", "ended"}
  BY <1>1, <1>2, WakesEffect DEF Both, Steps
<1>4. Memory!TypeOK'
  BY <1>1, <1>2, <1>3, MemoryTypes DEF Memory!TypeOK, Memory!Processes, Both, Steps
<1>5. BoundInv'
  <2>1. BothBound("Child", "Parent")
    BY <1>2 DEF BoundInv, BothBound
  <2>2. BothBound("Child", "Parent")'
    BY <1>1, <1>2, <1>3, <2>1, MemoryTypes, QuietBound DEF Both
  <2> QED
    BY <2>2 DEF BoundInv, BothBound
<1>6. ReplyInv'
  BY <1>1, <1>2, <1>3 DEF ReplyInv, Begun, ChildAt, ParentAt
<1>7. ASSUME overlaps' = 0, ParentAt # "ended" PROVE (Ordered /\ Covered)'
  <2>1. Ordered /\ Covered /\ ChildAt = "sleep" /\ ParentAt = "sleep"
    BY <1>2, <1>3, <1>7 DEF ApartInv, ChildAt, ParentAt
  <2>2. ChildAt' = "scan" /\ ParentAt' = "sleep"
    BY <1>3, <2>1 DEF ChildAt, ParentAt
  <2>3. Ordered'
    BY <1>1, <1>2, <1>3, <2>1, <2>2, MemoryTypes, SMTT(30) DEF Ordered, ChildAt, ParentAt, Both, Steps
  <2>4. From' = From /\ Upto' = Upto
    BY <1>1, <2>1, <2>2 DEF From, Upto
  <2>5. Covered'
    BY <1>1, <2>1, <2>4 DEF Covered, Seen
  <2> QED
    BY <2>3, <2>5
<1>8. ApartInv'
  BY <1>1, <1>2, <1>3, <1>7 DEF ApartInv, Apart, ChildAt, ParentAt
<1> QED
  BY <1>4, <1>5, <1>6, <1>8 DEF MemoryInv

\* What the child's own steps leave alone, and the rest of the proof of each.
LEMMA ScansKeep == ASSUME MemoryInv, Memory!Scans PROVE MemoryInv'
<1>1. /\ step["Child"] = "scan"
      /\ \/ Memory!Looks /\ scan < nMsg
         \/ Memory!LooksNoMore /\ scan >= nMsg
         \/ Memory!Strays(scan)
  BY DEF Memory!Scans
<1> SUFFICES ASSUME \/ Memory!Looks /\ scan < nMsg
                    \/ Memory!LooksNoMore /\ scan >= nMsg
             PROVE  MemoryInv'
  BY <1>1, StraysKeep
<1> DEFINE to == IF scan < nMsg THEN "scan" ELSE "mark"
<1>2. Memory!TypeOK /\ BoundInv /\ ReplyInv /\ ApartInv
  BY DEF MemoryInv
<1>3. /\ step' = [step EXCEPT !["Child"] = to]
      /\ UNCHANGED <<running, buf, nMsg, copy, pushed, posMinmax, shown, written, reply, overlaps>>
  BY <1>2, MemoryTypes DEF Memory!Looks, Memory!LooksNoMore, Memory!Goes, Memory!history
<1>4. /\ step'["Child"] = to /\ step'["Parent"] = step["Parent"] /\ step' \in [Both -> Steps]
      /\ to \in {"scan", "mark"}
  BY <1>2, <1>3, MemoryTypes DEF Both, Steps
<1>5. ASSUME scan < nMsg
      PROVE  /\ scan \in 0 .. Slots - 1 /\ scan' = scan + 1
             /\ minOf' = IF minOf <= buf[scan] THEN minOf ELSE buf[scan]
             /\ maxOf' = IF maxOf >= buf[scan] THEN maxOf ELSE buf[scan]
  <2>1. Memory!Looks
    BY <1>2, <1>5, MemoryTypes
  <2>2. scan \in 0 .. Slots - 1
    BY <1>2, <2>1, MemoryTypes DEF Memory!Looks
  <2>3. buf[scan] \in Int
    BY <1>2, <2>2, MemoryTypes, Beyond
  <2> QED
    BY <1>2, <2>1, <2>2, <2>3, MemoryTypes, MinOfTwo, MaxOfTwo DEF Memory!Looks
<1>6. ASSUME ~(scan < nMsg) PROVE scan' = 0 /\ minOf' = minOf /\ maxOf' = maxOf
  BY <1>2, <1>6, MemoryTypes DEF Memory!LooksNoMore
<1>7. Memory!TypeOK'
  <2>1. scan' \in 0 .. Slots + 1
    BY <1>2, <1>5, <1>6, MemoryTypes
  <2>2. minOf' \in Memory!Entries /\ maxOf' \in Memory!Entries
    BY <1>2, <1>5, <1>6, MemoryTypes
  <2> QED
    BY <1>2, <1>3, <1>4, <2>1, <2>2 DEF Memory!TypeOK, Memory!Processes, Both, Steps
<1>8. BoundInv'
  <2>1. BothBound("Child", "Parent")
    BY <1>2 DEF BoundInv, BothBound
  <2>2. BothBound("Child", "Parent")'
    BY <1>2, <1>3, <1>4, <2>1, MemoryTypes, QuietBound DEF Both
  <2> QED
    BY <2>2 DEF BoundInv, BothBound
<1>9. ReplyInv'
  BY <1>1, <1>2, <1>3, <1>4 DEF ReplyInv, Begun, Given, ChildAt, ParentAt
<1>10. ASSUME overlaps = 0, ParentAt # "ended" PROVE (Ordered /\ Covered)'
  <2>1. Ordered /\ Covered /\ ChildAt = "scan" /\ ParentAt = "sleep"
    BY <1>1, <1>2, <1>10 DEF ApartInv, Apart, ChildAt, ParentAt
  <2>2. ChildAt' = to /\ ParentAt' = "sleep"
    BY <1>4, <2>1 DEF ChildAt, ParentAt
  <2>3. From = scan /\ Upto = nMsg - 1 /\ Upto' = Upto
    BY <1>3, <1>4, <2>1, <2>2 DEF From, Upto
  <2>4. /\ posMinmax <= scan /\ scan <= nMsg /\ posMinmax <= nMsg /\ written # {}
        /\ \A w \in written : w \in Int
        /\ scan \in Nat /\ nMsg \in Nat /\ posMinmax \in Nat /\ minOf \in Int /\ maxOf \in Int
    BY <1>2, <2>1, MemoryTypes, Beyond DEF Ordered
  <2>5. CASE scan < nMsg
    <3>1. to = "scan" /\ From' = scan + 1
      BY <1>5, <2>2, <2>5 DEF From
    <3>2. buf[scan] \in written /\ buf[scan] \in Int
      BY <1>5, <2>1, <2>3, <2>4, <2>5 DEF Covered
    <3>3. /\ minOf' \in Int /\ minOf' <= minOf /\ minOf' <= buf[scan]
          /\ maxOf' \in Int /\ maxOf' >= maxOf /\ maxOf' >= buf[scan]
          /\ minOf' \in {minOf, buf[scan]} /\ maxOf' \in {maxOf, buf[scan]}
      BY <1>5, <2>4, <2>5, <3>2
    <3>4. Ordered'
      BY <1>3, <1>5, <2>1, <2>2, <2>4, <2>5, <3>1, <3>2, <3>3, <1>4
         DEF Ordered, ChildAt, ParentAt, Both
    <3>5. ASSUME NEW w \in written'
          PROVE  Seen(w)' \/ \E i \in 0 .. Slots - 1 : From' <= i /\ i <= Upto' /\ buf'[i] = w
      <4>1. w \in written /\ w \in Int
        BY <1>3, <2>4
      <4>2. CASE Seen(w)
        BY <2>4, <3>3, <4>1, <4>2 DEF Seen
      <4>3. CASE \E i \in 0 .. Slots - 1 : From <= i /\ i <= Upto /\ buf[i] = w
        <5>1. PICK i \in 0 .. Slots - 1 : From <= i /\ i <= Upto /\ buf[i] = w
          BY <4>3
        <5>2. CASE i = scan
          BY <3>2, <3>3, <5>1, <5>2 DEF Seen
        <5>3. CASE i # scan
          BY <1>3, <2>3, <2>4, <3>1, <5>1, <5>3
        <5> QED
          BY <5>2, <5>3
      <4> QED
        BY <2>1, <4>1, <4>2, <4>3 DEF Covered
    <3>6. Covered'
      BY <1>3, <2>1, <2>3, <3>5 DEF Covered
    <3> QED
      BY <3>4, <3>6
  <2>6. CASE ~(scan < nMsg)
    <3>1. to = "mark"
      BY <2>6
    <3>2. \A w \in written : Seen(w)
      BY <2>1, <2>3, <2>4, <2>6 DEF Covered
    <3>3. AllSeen
      <4>1. PICK w \in written : Seen(w)
        BY <2>4, <3>2
      <4>2. w \in Int /\ Memory!IntMin < w /\ w < Memory!IntMax
        BY <1>2, Beyond, MemoryTypes
      <4>3. minOf # Memory!IntMax /\ maxOf # Memory!IntMin
        BY <2>4, <4>1, <4>2, Beyond DEF Seen
      <4> QED
        BY <2>1, <3>2, <4>3 DEF AllSeen, Ordered
    <3>4. AllSeen' /\ \A w \in written' : Seen(w)'
      BY <1>3, <1>6, <2>6, <3>3 DEF AllSeen, Seen
    <3>5. Ordered'
      BY <1>3, <1>4, <1>6, <2>1, <2>2, <2>4, <2>6, <3>1, <3>4 DEF Ordered, ChildAt, ParentAt, Both
    <3>6. Covered'
      BY <1>3, <2>1, <2>3, <3>4 DEF Covered
    <3> QED
      BY <3>5, <3>6
  <2> QED
    BY <2>5, <2>6
<1>11. reply # "given"
  BY <1>1, <1>2 DEF ReplyInv, Given, ChildAt
<1>12. ApartInv'
  BY <1>1, <1>2, <1>3, <1>4, <1>10, <1>11 DEF ApartInv, Apart, ChildAt, ParentAt
<1> QED
  BY <1>7, <1>8, <1>9, <1>12 DEF MemoryInv

LEMMA MarksKeep == ASSUME MemoryInv, Memory!Marks PROVE MemoryInv'
<1>1. /\ step["Child"] = "mark" /\ step' = [step EXCEPT !["Child"] = "index"] /\ posMinmax' = nMsg
      /\ UNCHANGED <<running, buf, nMsg, copy, pushed, scan, minOf, maxOf, shown, written, reply,
                     overlaps>>
  BY DEF Memory!Marks, Memory!Goes, Memory!history
<1>2. Memory!TypeOK /\ BoundInv /\ ReplyInv /\ ApartInv
  BY DEF MemoryInv
<1>3. /\ step'["Child"] = "index" /\ step'["Parent"] = step["Parent"] /\ step' \in [Both -> Steps]
  BY <1>1, <1>2, MemoryTypes DEF Both, Steps
<1>4. Memory!TypeOK'
  BY <1>1, <1>2, <1>3 DEF Memory!TypeOK, Memory!Processes, Both, Steps
<1>5. BoundInv'
  <2>1. BothBound("Child", "Parent")
    BY <1>2 DEF BoundInv, BothBound
  <2>2. BothBound("Child", "Parent")'
    BY <1>1, <1>2, <1>3, <2>1, MemoryTypes, QuietBound DEF Both
  <2> QED
    BY <2>2 DEF BoundInv, BothBound
<1>6. ReplyInv'
  BY <1>1, <1>2, <1>3 DEF ReplyInv, Begun, Given, ChildAt, ParentAt
<1>7. ASSUME overlaps = 0, ParentAt # "ended" PROVE (Ordered /\ Covered)'
  <2>1. Ordered /\ Covered /\ ChildAt = "mark" /\ ParentAt = "sleep"
    BY <1>1, <1>2, <1>7 DEF ApartInv, Apart, ChildAt, ParentAt
  <2>2. ChildAt' = "index" /\ ParentAt' = "sleep"
    BY <1>3, <2>1 DEF ChildAt, ParentAt
  <2>3. Upto' = nMsg - 1 /\ nMsg \in Nat
    BY <1>1, <1>2, <2>2, MemoryTypes DEF Upto
  <2>4. AllSeen'
    BY <1>1, <2>1 DEF Ordered, AllSeen, Seen
  <2>5. Ordered'
    BY <1>1, <1>3, <2>1, <2>2, <2>3, <2>4 DEF Ordered, ChildAt, ParentAt, Both
  <2>6. Covered'
    BY <1>1, <2>3, <2>4 DEF Covered, AllSeen
  <2> QED
    BY <2>5, <2>6
<1>8. reply # "given"
  BY <1>1, <1>2 DEF ReplyInv, Given, ChildAt
<1>9. ApartInv'
  BY <1>1, <1>2, <1>3, <1>7, <1>8 DEF ApartInv, Apart, ChildAt, ParentAt
<1> QED
  BY <1>4, <1>5, <1>6, <1>9 DEF MemoryInv

LEMMA ChildIndexesKeeps == ASSUME MemoryInv, Memory!ChildIndexes PROVE MemoryInv'
<1>1. /\ step["Child"] = "index" /\ step' = [step EXCEPT !["Child"] = "store"]
      /\ copy' = [copy EXCEPT !["Child"] = nMsg]
      /\ UNCHANGED <<running, buf, nMsg, pushed, posMinmax, scan, minOf, maxOf, shown, written,
                     reply, overlaps>>
  BY DEF Memory!ChildIndexes, Memory!Index, Memory!Goes, Memory!child
<1>2. Memory!TypeOK /\ BoundInv /\ ReplyInv /\ ApartInv
  BY DEF MemoryInv
<1>3. /\ step'["Child"] = "store" /\ step'["Parent"] = step["Parent"] /\ step' \in [Both -> Steps]
      /\ copy'["Child"] = nMsg /\ copy'["Parent"] = copy["Parent"]
  BY <1>1, <1>2, MemoryTypes DEF Both, Steps
<1>4. Memory!TypeOK'
  BY <1>1, <1>2, <1>3, MemoryTypes DEF Memory!TypeOK, Memory!Processes, Both, Steps
<1>5. BoundInv'
  <2>1. BothBound("Child", "Parent")
    BY <1>2 DEF BoundInv, BothBound
  <2>2. BothBound("Child", "Parent")'
    BY <1>1, <1>2, <1>3, <2>1, MemoryTypes, IndexBound DEF Both
  <2> QED
    BY <2>2 DEF BoundInv, BothBound
<1>6. ReplyInv'
  BY <1>1, <1>2, <1>3 DEF ReplyInv, Begun, Given, ChildAt, ParentAt
<1>7. ASSUME overlaps = 0, ParentAt # "ended" PROVE (Ordered /\ Covered)'
  <2>1. Ordered /\ Covered /\ ChildAt = "index" /\ ParentAt = "sleep"
    BY <1>1, <1>2, <1>7 DEF ApartInv, Apart, ChildAt, ParentAt
  <2>2. ChildAt' = "store" /\ ParentAt' = "sleep"
    BY <1>3, <2>1 DEF ChildAt, ParentAt
  <2>3. Ordered'
    BY <1>1, <1>3, <2>1, <2>2 DEF Ordered, AllSeen, Seen, ChildAt, ParentAt, Both
  <2>4. From' = From /\ Upto' = Upto
    BY <1>1, <2>1, <2>2 DEF From, Upto
  <2>5. Covered'
    BY <1>1, <2>1, <2>4 DEF Covered, Seen
  <2> QED
    BY <2>3, <2>5
<1>8. reply # "given"
  BY <1>1, <1>2 DEF ReplyInv, Given, ChildAt
<1>9. ApartInv'
  BY <1>1, <1>2, <1>3, <1>7, <1>8 DEF ApartInv, Apart, ChildAt, ParentAt
<1> QED
  BY <1>4, <1>5, <1>6, <1>9 DEF MemoryInv

LEMMA ChildStoresKeeps == ASSUME MemoryInv, Memory!ChildStores PROVE MemoryInv'
<1> DEFINE x == IF pushed["Child"] = 0 THEN minOf ELSE maxOf
<1> SUFFICES ASSUME Memory!Store("Child", x), written' = written PROVE MemoryInv'
  BY StraysKeep DEF Memory!ChildStores
<1>1. /\ step["Child"] = "store" /\ copy["Child"] < Slots
      /\ step' = [step EXCEPT !["Child"] = "load"]
      /\ copy' = [copy EXCEPT !["Child"] = 0] /\ buf' = [buf EXCEPT ![copy["Child"]] = x]
      /\ UNCHANGED <<running, nMsg, pushed, posMinmax, scan, minOf, maxOf, shown, reply, overlaps>>
  BY DEF Memory!Store, Memory!Goes, Memory!child
<1>2. Memory!TypeOK /\ BoundInv /\ ReplyInv /\ ApartInv
  BY DEF MemoryInv
<1>3. /\ step'["Child"] = "load" /\ step'["Parent"] = step["Parent"]
      /\ copy'["Child"] = 0 /\ copy'["Parent"] = copy["Parent"]
  BY <1>1, <1>2, MemoryTypes DEF Both, Steps
<1>4. /\ copy["Child"] \in 0 .. Slots - 1 /\ buf'[copy["Child"]] = x
      /\ \A i \in 0 .. Slots - 1 : i # copy["Child"] => buf'[i] = buf[i]
  BY <1>1, <1>2, MemoryTypes DEF Both
<1>5. Memory!TypeOK'
  <2>1. x \in Memory!Entries
    BY <1>2, MemoryTypes
  <2> HIDE DEF x
  <2> QED
    BY <1>1, <1>2, <2>1, MemoryTypes, SMTT(30) DEF Memory!TypeOK, Memory!Processes, Both
<1>6. BoundInv'
  <2>1. BothBound("Child", "Parent")
    BY <1>2 DEF BoundInv, BothBound
  <2>2. BothBound("Child", "Parent")'
    BY <1>1, <1>2, <1>3, <2>1, MemoryTypes, StoreBound DEF Both
  <2> QED
    BY <2>2 DEF BoundInv, BothBound
<1>7. ReplyInv'
  <2>1. ASSUME reply = "begun" PROVE Begun'
    <3>1. Begun /\ copy["Child"] = nMsg /\ nMsg \in Nat
      BY <1>1, <1>2, <2>1, MemoryTypes DEF ReplyInv, Begun, ChildAt
    <3>2. nMsg < Slots /\ buf'[nMsg] = x
      BY <1>1, <1>4, <3>1
    <3>3. pushed["Child"] = 1 => nMsg >= 1 /\ nMsg <= Slots /\ buf'[nMsg - 1] = minOf
      <4>1. pushed["Child"] = 1 => nMsg >= 1 /\ nMsg <= Slots /\ buf[nMsg - 1] = minOf
        BY <1>1, <3>1 DEF Begun, ChildAt
      <4>2. nMsg >= 1 => nMsg - 1 \in 0 .. Slots - 1 /\ nMsg - 1 # nMsg
        BY <1>2, <3>1, <3>2, MemoryTypes
      <4> QED
        BY <1>4, <3>1, <4>1, <4>2
    <3> QED
      BY <1>1, <1>3, <3>1, <3>2, <3>3 DEF Begun, ChildAt, ParentAt
  <2> QED
    BY <1>1, <1>2, <1>3, <2>1 DEF ReplyInv, Given, ChildAt, ParentAt
<1>8. ASSUME overlaps = 0, ParentAt # "ended" PROVE (Ordered /\ Covered)'
  <2>1. Ordered /\ Covered /\ AllSeen /\ ChildAt = "store" /\ ParentAt = "sleep"
        /\ copy["Child"] = nMsg
    BY <1>1, <1>2, <1>8 DEF ApartInv, Apart, ChildAt, ParentAt, Ordered, Both
  <2>2. ChildAt' = "load" /\ ParentAt' = "sleep"
    BY <1>3, <2>1 DEF ChildAt, ParentAt
  <2>3. Ordered' /\ AllSeen'
    BY <1>1, <1>3, <2>1, <2>2 DEF Ordered, AllSeen, Seen, ChildAt, ParentAt, Both
  <2>4. Upto = nMsg - 1 /\ Upto' = nMsg
    BY <1>1, <2>1, <2>2 DEF Upto
  <2>5. nMsg \in Nat /\ posMinmax \in Nat /\ x \in written
    BY <1>2, <2>1, MemoryTypes DEF AllSeen
  <2>6. ASSUME NEW i \in 0 .. Slots - 1, posMinmax <= i, i <= Upto' PROVE buf'[i] \in written'
    <3> HIDE DEF x
    <3> QED
      BY <1>4, <2>1, <2>4, <2>5, <2>6 DEF Covered
  <2> QED
    BY <1>1, <2>3, <2>6 DEF Covered, AllSeen
<1>9. reply # "given"
  BY <1>1, <1>2 DEF ReplyInv, Given, ChildAt
<1>10. ApartInv'
  BY <1>1, <1>2, <1>3, <1>8, <1>9 DEF ApartInv, Apart, ChildAt, ParentAt
<1> QED
  BY <1>5, <1>6, <1>7, <1>10 DEF MemoryInv

LEMMA ChildBumpsKeeps == ASSUME MemoryInv, Memory!ChildBumps PROVE MemoryInv'
<1>1. /\ step["Child"] = "bump" /\ Memory!Bump("Child", 2, "sleep")
      /\ reply' = IF reply = "begun" /\ pushed["Child"] = 1 THEN "given" ELSE reply
      /\ UNCHANGED <<running, buf, posMinmax, scan, minOf, maxOf, shown, written, overlaps>>
  BY DEF Memory!ChildBumps, Memory!Bump, Memory!Goes, Memory!child
<1>2. Memory!TypeOK /\ BoundInv /\ ReplyInv /\ ApartInv
  BY DEF MemoryInv
<1>3. /\ nMsg' = copy["Child"] + 1 /\ copy'["Parent"] = copy["Parent"]
      /\ step'["Parent"] = step["Parent"]
      /\ copy' \in [Both -> 0 .. Slots + 1] /\ step' \in [Both -> Steps]
      /\ pushed' \in [Both -> 0 .. Memory!Max({Batch, 2})]
      /\ pushed["Child"] = 0 => step'["Child"] = "index" /\ pushed'["Child"] = 1
      /\ pushed["Child"] = 1 => step'["Child"] = "sleep" /\ pushed'["Child"] = 0
      /\ pushed["Child"] \in {0, 1}
  <2>1. "Child" \in Both /\ "Parent" \in Both \ {"Child"} /\ "sleep" \in Steps /\ 2 \in Nat \ {0}
    BY DEF Both, Steps
  <2>2. Memory!Max({Batch, 2}) >= 2
    BY CountBound
  <2>3. pushed["Child"] \in {0, 1}
    BY <1>2 DEF ReplyInv
  <2>4. /\ nMsg' = copy["Child"] + 1 /\ copy' \in [Both -> 0 .. Slots + 1]
        /\ copy'["Parent"] = copy["Parent"] /\ step'["Parent"] = step["Parent"]
        /\ pushed' \in [Both -> 0 .. Memory!Max({Batch, 2})] /\ step' \in [Both -> Steps]
        /\ IF pushed["Child"] + 1 < 2
             THEN step'["Child"] = "index" /\ pushed'["Child"] = pushed["Child"] + 1
             ELSE step'["Child"] = "sleep" /\ pushed'["Child"] = 0
    BY <1>1, <1>2, <2>1, <2>2, BumpEffect
  <2>5. /\ pushed["Child"] = 0 => step'["Child"] = "index" /\ pushed'["Child"] = 1
        /\ pushed["Child"] = 1 => step'["Child"] = "sleep" /\ pushed'["Child"] = 0
    BY <2>4
  <2> QED
    BY <2>3, <2>4, <2>5
<1>4. copy["Child"] \in Nat /\ copy["Child"] <= Slots /\ Slots \in Nat
  BY <1>1, <1>2, MemoryTypes DEF BoundInv, BoundAt, AtBump, Both
<1>5. Memory!TypeOK'
  <2>1. nMsg' \in 0 .. Slots + 1
    BY <1>3, <1>4
  <2>2. reply' \in {"none", "begun", "given"}
    BY <1>1, <1>2, MemoryTypes
  <2> QED
    BY <1>1, <1>2, <1>3, <2>1, <2>2, MemoryTypes DEF Memory!TypeOK, Memory!Processes, Both, Steps
<1>6. BoundInv'
  <2>1. BothBound("Child", "Parent")
    BY <1>2 DEF BoundInv, BothBound
  <2>2. BothBound("Child", "Parent")'
    BY <1>1, <1>2, <1>3, <2>1, MemoryTypes, BumpBound DEF Both
  <2> QED
    BY <2>2 DEF BoundInv, BothBound
<1>7. reply # "given"
  BY <1>1, <1>2 DEF ReplyInv, Given, ChildAt
<1>8. ASSUME reply = "begun"
      PROVE  /\ ParentAt \in {"sleep", "ended"} /\ shown = <<>> /\ nMsg \in Nat /\ nMsg < Slots
             /\ nMsg' = nMsg + 1 /\ buf[nMsg] = IF pushed["Child"] = 0 THEN minOf ELSE maxOf
             /\ pushed["Child"] = 1 => nMsg >= 1 /\ buf[nMsg - 1] = minOf
  BY <1>1, <1>2, <1>3, <1>8, MemoryTypes DEF ReplyInv, Begun, ChildAt
<1>9. ASSUME reply = "begun", pushed["Child"] = 0 PROVE Begun'
  <2>1. nMsg' - 1 = nMsg /\ nMsg' >= 1 /\ nMsg' <= Slots
    BY <1>4, <1>8, <1>9
  <2> QED
    BY <1>1, <1>3, <1>8, <1>9, <2>1 DEF Begun, ChildAt, ParentAt
<1>10. ASSUME reply = "begun", pushed["Child"] = 1 PROVE Given'
  <2>1. nMsg' - 2 = nMsg - 1 /\ nMsg' - 1 = nMsg /\ nMsg' >= 2 /\ nMsg' <= Slots
    BY <1>4, <1>8, <1>10
  <2> QED
    BY <1>1, <1>3, <1>8, <1>10, <2>1, EmptySeq DEF Given, ChildAt, ParentAt
<1>11. ReplyInv'
  BY <1>1, <1>2, <1>3, <1>7, <1>9, <1>10 DEF ReplyInv, ChildAt, ParentAt
<1>12. ASSUME overlaps = 0, ParentAt # "ended" PROVE (Ordered /\ Covered)'
  <2>1. Ordered /\ Covered /\ AllSeen /\ ChildAt = "bump" /\ ParentAt = "sleep"
        /\ copy["Child"] = nMsg
    BY <1>1, <1>2, <1>12 DEF ApartInv, Apart, ChildAt, ParentAt, Ordered, Both
  <2>2. ChildAt' \in {"index", "sleep"} /\ ParentAt' = "sleep"
    BY <1>3, <2>1 DEF ChildAt, ParentAt
  <2>3. nMsg' = nMsg + 1 /\ nMsg \in Nat /\ posMinmax \in Nat
    BY <1>2, <1>3, <2>1, MemoryTypes
  <2>4. AllSeen'
    BY <1>1, <2>1 DEF AllSeen, Seen
  <2>5. Ordered'
    BY <1>1, <1>3, <2>1, <2>2, <2>3, <2>4 DEF Ordered, ChildAt, ParentAt, Both
  <2>6. Upto = nMsg /\ Upto' = nMsg
    BY <1>1, <2>1, <2>2, <2>3 DEF Upto
  <2>7. Covered'
    BY <1>1, <2>1, <2>4, <2>6 DEF Covered, AllSeen
  <2> QED
    BY <2>5, <2>7
<1>13. ApartInv'
  <2>1. overlaps = 0 => AllSeen' \/ ParentAt' = "ended"
    BY <1>1, <1>2, <1>3 DEF ApartInv, Apart, Ordered, AllSeen, Seen, ChildAt, ParentAt
  <2>2. reply' = "given" => shown' = <<>>
    BY <1>1, <1>7, <1>8
  <2>3. overlaps = 0 => Apart'
    BY <1>1, <1>2, <1>3 DEF ApartInv, Apart, ChildAt, ParentAt
  <2> QED
    BY <1>1, <1>3, <1>12, <2>1, <2>2, <2>3 DEF ApartInv, ParentAt
<1> QED
  BY <1>5, <1>6, <1>11, <1>13 DEF MemoryInv

LEMMA LoadKeeps ==
  ASSUME MemoryInv, NEW p \in Both, NEW q \in Both, p # q, Memory!Load(p) PROVE MemoryInv'
<1>1. /\ step[p] = "load" /\ step' = [step EXCEPT ![p] = "bump"] /\ copy' = [copy EXCEPT ![p] = nMsg]
      /\ UNCHANGED <<running, buf, nMsg, pushed, posMinmax, scan, minOf, maxOf, shown, written,
                     reply, overlaps>>
  BY DEF Memory!Load, Memory!Goes, Memory!child, Memory!history
<1>2. Memory!TypeOK /\ BoundInv /\ ReplyInv /\ ApartInv
  BY DEF MemoryInv
<1>3. /\ step'[p] = "bump" /\ step'[q] = step[q] /\ step' \in [Both -> Steps]
      /\ copy'[p] = nMsg /\ copy'[q] = copy[q]
  BY <1>1, <1>2, MemoryTypes DEF Steps
<1>4. Memory!TypeOK'
  BY <1>1, <1>2, <1>3, MemoryTypes DEF Memory!TypeOK, Memory!Processes, Both, Steps
<1>5. BoundInv'
  <2>1. BothBound(p, q)
    BY <1>2 DEF BoundInv, BothBound, Both
  <2>2. BothBound(p, q)'
    BY <1>1, <1>2, <1>3, <2>1, MemoryTypes, LoadBound
  <2> QED
    BY <2>2 DEF BoundInv, BothBound, Both
<1>6. CASE p = "Parent"
  <2>1. q = "Child"
    BY <1>6 DEF Both
  <2>2. ReplyInv'
    BY <1>1, <1>2, <1>3, <1>6, <2>1 DEF ReplyInv, ChildAt, ParentAt
  <2>3. ASSUME overlaps = 0, ChildAt # "ended" PROVE (Ordered /\ Covered)'
    <3>1. Ordered /\ Covered /\ ChildAt = "sleep" /\ ParentAt = "load"
      BY <1>1, <1>2, <1>6, <2>3 DEF ApartInv, Apart, ChildAt, ParentAt
    <3>2. ChildAt' = "sleep" /\ ParentAt' = "bump"
      BY <1>3, <1>6, <2>1, <3>1 DEF ChildAt, ParentAt
    <3>3. Ordered'
      BY <1>1, <1>3, <1>6, <2>1, <3>1, <3>2 DEF Ordered, ChildAt, ParentAt, Both
    <3>4. From' = From /\ Upto' = Upto
      BY <1>1, <3>1, <3>2 DEF From, Upto
    <3>5. Covered'
      BY <1>1, <3>1, <3>4 DEF Covered, Seen
    <3> QED
      BY <3>3, <3>5
  <2>4. ApartInv'
    BY <1>1, <1>2, <1>3, <1>6, <2>1, <2>3 DEF ApartInv, Apart, ReplyInv, ChildAt, ParentAt
  <2> QED
    BY <1>4, <1>5, <2>2, <2>4 DEF MemoryInv
<1>7. CASE p = "Child"
  <2>1. q = "Parent"
    BY <1>7 DEF Both
  <2>2. ReplyInv'
    BY <1>1, <1>2, <1>3, <1>7, <2>1 DEF ReplyInv, Begun, Given, ChildAt, ParentAt
  <2>3. ASSUME overlaps = 0, ParentAt # "ended" PROVE (Ordered /\ Covered)'
    <3>1. Ordered /\ Covered /\ ChildAt = "load" /\ ParentAt = "sleep"
      BY <1>1, <1>2, <1>7, <2>3 DEF ApartInv, Apart, ChildAt, ParentAt
    <3>2. ChildAt' = "bump" /\ ParentAt' = "sleep"
      BY <1>3, <1>7, <2>1, <3>1 DEF ChildAt, ParentAt
    <3>3. Ordered'
      BY <1>1, <1>3, <1>7, <2>1, <3>1, <3>2
         DEF Ordered, AllSeen, Seen, ChildAt, ParentAt, Both
    <3>4. From' = From /\ Upto' = Upto
      BY <1>1, <3>1, <3>2 DEF From, Upto
    <3>5. Covered'
      BY <1>1, <3>1, <3>4 DEF Covered, Seen
    <3> QED
      BY <3>3, <3>5
  <2>4. reply # "given"
    BY <1>1, <1>2, <1>7 DEF ReplyInv, Given, ChildAt
  <2>5. ApartInv'
    BY <1>1, <1>2, <1>3, <1>7, <2>1, <2>3, <2>4 DEF ApartInv, Apart, ChildAt, ParentAt
  <2> QED
    BY <1>4, <1>5, <2>2, <2>5 DEF MemoryInv
<1> QED
  BY <1>6, <1>7 DEF Both

\* A process that ends leaves all as it is: from then on less is claimed.
LEMMA InterruptKeeps ==
  ASSUME MemoryInv, NEW p \in Both, NEW q \in Both, p # q, Memory!Interrupt(p) PROVE MemoryInv'
<1>1. /\ step[p] # "ended" /\ step' = [step EXCEPT ![p] = "ended"]
      /\ UNCHANGED <<running, buf, nMsg, copy, pushed, posMinmax, scan, minOf, maxOf, shown,
                     written, reply, overlaps>>
  BY DEF Memory!Interrupt, Memory!Goes, Memory!child, Memory!history
<1>2. Memory!TypeOK /\ BoundInv /\ ReplyInv /\ ApartInv
  BY DEF MemoryInv
<1>3. step'[p] = "ended" /\ step'[q] = step[q] /\ step' \in [Both -> Steps]
  BY <1>1, <1>2, MemoryTypes DEF Steps
<1>4. Memory!TypeOK'
  BY <1>1, <1>2, <1>3, MemoryTypes DEF Memory!TypeOK, Memory!Processes, Both, Steps
<1>5. BoundInv'
  <2>1. BothBound(p, q)
    BY <1>2 DEF BoundInv, BothBound, Both
  <2>2. BothBound(p, q)'
    BY <1>1, <1>2, <1>3, <2>1, MemoryTypes, QuietBound
  <2> QED
    BY <2>2 DEF BoundInv, BothBound, Both
<1>6. ReplyInv'
  <2>1. CASE p = "Parent" /\ q = "Child"
    BY <1>1, <1>2, <1>3, <2>1, EmptySeq DEF ReplyInv, Begun, Given, ChildAt, ParentAt
  <2>2. CASE p = "Child" /\ q = "Parent"
    BY <1>1, <1>2, <1>3, <2>2 DEF ReplyInv, Begun, Given, ChildAt, ParentAt
  <2> QED
    BY <2>1, <2>2 DEF Both
<1>7. ApartInv'
  <2>1. ASSUME reply = "given", overlaps = 0 PROVE AllSeen \/ (ParentAt' = "ended" /\ shown' = <<>>)
    BY <1>1, <1>2, <1>3, <2>1 DEF ApartInv, ParentAt, Both
  <2> QED
    BY <1>1, <1>2, <1>3, <2>1 DEF ApartInv, Apart, AllSeen, Seen, ChildAt, ParentAt, Both
<1> QED
  BY <1>4, <1>5, <1>6, <1>7 DEF MemoryInv

LEMMA MemoryBegins == PairsInit => MemoryInv
<1> SUFFICES ASSUME Memory!Init PROVE MemoryInv
  BY DEF PairsInit
<1>1. PICK first \in Values : buf = [i \in 0 .. Slots - 1 |-> first]
  BY DEF Memory!Init
<1>2. /\ nMsg = 0 /\ posMinmax = 0 /\ scan = 0 /\ overlaps = 0 /\ running = TRUE
      /\ step["Parent"] = "index" /\ step["Child"] = "sleep" /\ step \in [Both -> Steps]
      /\ copy = [p \in Both |-> 0] /\ pushed = [p \in Both |-> 0] /\ pushed["Child"] = 0
      /\ minOf = Memory!IntMax /\ maxOf = Memory!IntMin /\ shown = <<>> /\ written = {}
      /\ reply = "none"
  BY DEF Memory!Init, Memory!Processes, Both, Steps
<1>3. Memory!TypeOK
  <2>1. buf \in [0 .. Slots - 1 -> Memory!Entries]
    BY <1>1 DEF Memory!Entries
  <2>2. minOf \in Memory!Entries /\ maxOf \in Memory!Entries
    BY <1>2 DEF Memory!Entries
  <2>3. 0 \in 0 .. Slots + 1 /\ 0 \in 0 .. MaxOverlaps /\ 0 \in 0 .. Memory!Max({Batch, 2})
    BY SharedConstants, CountBound
  <2>4. shown \in Seq(Memory!Entries)
    BY <1>2, EmptySeq
  <2> QED
    BY <1>2, <2>1, <2>2, <2>3, <2>4 DEF Memory!TypeOK, Memory!Processes, Both, Steps
<1>4. BoundInv /\ ReplyInv
  BY <1>2 DEF BoundInv, BoundAt, Ahead, AtBump, ReplyInv, ChildAt, ParentAt
<1>5. ApartInv
  BY <1>2, SharedConstants DEF ApartInv, Apart, Ordered, Covered, From, Upto, ChildAt, ParentAt, Both
<1> QED
  BY <1>3, <1>4, <1>5 DEF MemoryInv

LEMMA MemoryInvHolds == PairsSpec => []MemoryInv
<1>1. MemoryInv /\ Memory!Next => MemoryInv'
  <2> SUFFICES ASSUME MemoryInv, Memory!Next PROVE MemoryInv'
    OBVIOUS
  <2>1. ASSUME NEW p \in Both, Memory!Load(p) \/ Memory!Interrupt(p) PROVE MemoryInv'
    <3>1. PICK q \in Both : q # p
      BY DEF Both
    <3> QED
      BY <2>1, <3>1, LoadKeeps, InterruptKeeps
  <2> QED
    BY <2>1, ParentIndexesKeeps, ParentStoresKeeps, ParentBumpsKeeps, ParentWakesKeeps,
       ShowsKeeps, ChildWakesKeeps, ScansKeep, MarksKeep, ChildIndexesKeeps, ChildStoresKeeps,
       ChildBumpsKeeps
       DEF Memory!Next, Memory!Processes, Both
<1>2. MemoryInv /\ UNCHANGED arrayVars => MemoryInv'
  <2> SUFFICES ASSUME MemoryInv, UNCHANGED arrayVars PROVE MemoryInv'
    OBVIOUS
  <2>1. UNCHANGED <<running, buf, nMsg, posMinmax, step, copy, pushed, scan, minOf, maxOf, shown,
                    written, reply, overlaps>>
    BY DEF arrayVars
  <2>2. Memory!TypeOK'
    BY <2>1 DEF MemoryInv, Memory!TypeOK
  <2>3. BoundInv' /\ ReplyInv'
    BY <2>1 DEF MemoryInv, BoundInv, BoundAt, Ahead, AtBump, ReplyInv, Begun, Given, ChildAt,
                ParentAt
  <2>4. ApartInv'
    BY <2>1 DEF MemoryInv, ApartInv, Apart, Ordered, Covered, AllSeen, Seen, From, Upto, ChildAt,
                ParentAt
  <2> QED
    BY <2>2, <2>3, <2>4 DEF MemoryInv
<1>3. MemoryInv /\ [PairsNext]_allVars => MemoryInv'
  BY <1>1, <1>2, OneMoves
<1> QED
  BY <1>3, FromStart, MemoryBegins, PTL

\* When the child gave its answer while the parent slept, the parent prints
\* min and max; and as long as the two were never awake together, these are
\* the least and the greatest number written, for any batch and any array.
THEOREM RightWhileApartHolds == PairsSpec => []RightWhileApart
<1>1. MemoryInv => RightWhileApart
  <2> SUFFICES ASSUME MemoryInv, Len(shown) = 2, reply = "given"
               PROVE  /\ shown = <<minOf, maxOf>>
                      /\ overlaps = 0 =>
                           minOf = Memory!Min(written) /\ maxOf = Memory!Max(written)
    BY DEF RightWhileApart, Memory!RightWhileApart
  <2>1. Memory!TypeOK /\ Given /\ ApartInv
    BY DEF MemoryInv, ReplyInv
  <2>2. Len(<<>>) = 0 /\ Len(<<minOf>>) = 1
    OBVIOUS
  <2>3. shown = <<minOf, maxOf>>
    <3>1. shown = <<>> \/ shown = <<minOf>> \/ shown = <<minOf, maxOf>>
      BY <2>1 DEF Given
    <3>2. shown # <<>>
      BY <2>2
    <3>3. shown # <<minOf>>
      BY <2>2
    <3> QED
      BY <3>1, <3>2, <3>3, Zenon
  <2>4. ASSUME overlaps = 0 PROVE minOf = Memory!Min(written) /\ maxOf = Memory!Max(written)
    <3>1. AllSeen
      BY <2>1, <2>2, <2>4 DEF ApartInv
    <3>2. written \subseteq Int
      BY <2>1, MemoryTypes, Beyond
    <3>3. /\ minOf \in written /\ \A w \in written : minOf <= w
          /\ maxOf \in written /\ \A w \in written : maxOf >= w
      BY <2>1, <3>1, <3>2, MemoryTypes DEF AllSeen, Seen
    <3> QED
      BY <3>2, <3>3, MinIs, MaxIs
  <2> QED
    BY <2>3, <2>4
<1> QED
  BY <1>1, MemoryInvHolds, PTL

\* Every variable of every pair has its type, whatever the values of the
\* constants.
THEOREM PairsTypeCorrect == PairsSpec => []PairsTypeOK
<1>1. ChatInv /\ NumberInv /\ UdpInv /\ StreamInv /\ SignalInv /\ MemoryInv => PairsTypeOK
  BY DEF PairsTypeOK, ChatInv, NumberInv, UdpInv, StreamInv, SignalInv, MemoryInv
<1> QED
  BY <1>1, ChatInvHolds, NumberInvHolds, UdpInvHolds, StreamInvHolds, SignalInvHolds,
     MemoryInvHolds, PTL
=============================================================================
