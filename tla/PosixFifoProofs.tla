--------------------------- MODULE PosixFifoProofs ---------------------------
(***************************************************************************)
(* Proofs about PosixFifo, for any number of messages, starts and kills.   *)
(*                                                                         *)
(* What needs an argument are the counters.  A semaphore of a name is made *)
(* by a process that was started and opens that name once, so there are no *)
(* more of them than starts; a writer sends Messages numbers at most, and  *)
(* the one that runs has sent number of them.                              *)
(***************************************************************************)
EXTENDS PosixFifo, FiniteSetTheorems, SequenceTheorems, TLAPS

\* Where a process has still to open a name, and where it has opened it.
Before(n) == IF n = "semRead" THEN {"open", "openRead"}
                              ELSE {"open", "openRead", "openWrite"}
WriterMay(n) == IF writer \in Before(n) THEN 1 ELSE 0
ReaderMay(n) == IF reader \in Before(n) THEN 1 ELSE 0
WriterHas(n) ==
  {"wait", "put", "post"} \cup IF n = "semRead" THEN {"openWrite"} ELSE {}
ReaderHas(n) ==
  {"give", "wait", "get", "post"} \cup IF n = "semRead" THEN {"openWrite"} ELSE {}

\* Semaphores that are, or may still be made by who has not opened its own.
SemsMade == \A n \in Names :
  /\ made[n] + WriterMay(n) + ReaderMay(n)
       <= writers + readers
  /\ named[n] <= made[n]
  /\ held["writer"][n] <= made[n] /\ held["reader"][n] <= made[n]
  /\ writer \in WriterHas(n) => held["writer"][n] > 0
  /\ reader \in ReaderHas(n) => held["reader"][n] > 0

Counts ==
  /\ writer \in {"open", "openRead", "openWrite", "wait", "put"} => number < Messages
  /\ writers = 0 => writer = "off" /\ sent = 0 /\ number = 0
  /\ writers > 0 => sent + Messages <= Messages * writers + number
  /\ got <= sent
  /\ pipe \in Seq(0 .. sent)

\* TypeOK without the bounds that SemsMade and Counts imply.
Types ==
  /\ writer \in {"off", "open", "openRead", "openWrite", "wait", "put", "post",
                 "unlinkRead", "unlinkWrite", "close", "done"}
  /\ reader \in {"off", "open", "openRead", "openWrite", "give", "wait", "get",
                 "post", "unlinkRead", "unlinkWrite", "close", "finished"}
  /\ named \in [Names -> Nat] /\ made \in [Names -> Nat]
  /\ held \in [Ends -> [Names -> Nat]]
  /\ value \in [Names -> [Sems -> Nat]]
  /\ sent \in Nat /\ got \in Nat
  /\ writers \in 0 .. MaxWriters
  /\ readers \in 0 .. MaxReaders
  /\ number \in 0 .. Messages
  /\ kills \in 0 .. MaxKills

Inv == Types /\ SemsMade /\ Counts

-----------------------------------------------------------------------------

LEMMA Times ==
  ASSUME NEW m \in Nat, NEW n \in Nat
  PROVE  /\ m * n \in Nat /\ m * (n + 1) = m * n + m
         /\ \A k \in 0 .. n : m * k <= m * n
<1>1. m * n \in Nat /\ m * (n + 1) = m * n + m
  OBVIOUS
<1>2. ASSUME NEW k \in 0 .. n PROVE m * k <= m * n
  <2>1. n - k \in Nat /\ m * n = m * k + m * (n - k)
    OBVIOUS
  <2>2. m * (n - k) \in Nat /\ m * k \in Nat
    BY <2>1
  <2> QED
    BY <2>1, <2>2
<1> QED
  BY <1>1, <1>2

\* What a process has opened is one of the semaphores there is room for.
LEMMA SemInRange ==
  ASSUME Types, SemsMade, NEW n \in Names
  PROVE  /\ made[n] <= MaxWriters + MaxReaders
         /\ \A p \in Ends : held[p][n] > 0 => held[p][n] \in Sems
<1>1. /\ made[n] \in Nat /\ writers \in 0 .. MaxWriters
      /\ readers \in 0 .. MaxReaders
      /\ held["writer"][n] \in Nat /\ held["reader"][n] \in Nat
  BY DEF Types, Ends
<1>2. /\ WriterMay(n) \in Nat /\ ReaderMay(n) \in Nat
      /\ made[n] + WriterMay(n) + ReaderMay(n)
           <= writers + readers
      /\ held["writer"][n] <= made[n] /\ held["reader"][n] <= made[n]
  BY DEF SemsMade, WriterMay, ReaderMay
<1>3. made[n] <= MaxWriters + MaxReaders
  BY <1>1, <1>2, FifoAssumption
<1> QED
  BY <1>1, <1>2, <1>3, FifoAssumption DEF Sems, Ends

LEMMA InvInit == Init => Inv
<1> SUFFICES ASSUME Init PROVE Inv
  OBVIOUS
<1> USE FifoAssumption DEF Init
<1>1. Types
  BY DEF Types
<1>2. SemsMade
  BY DEF SemsMade, WriterMay, ReaderMay, Before, WriterHas, ReaderHas, Names, Ends
<1>3. Counts
  BY EmptySeq DEF Counts
<1> QED
  BY <1>1, <1>2, <1>3 DEF Inv

\* sem_open keeps the names in order: the process holds a semaphore that was
\* made, and made it only if the name stood for none.
LEMMA OpenSemOK ==
  ASSUME Types, SemsMade, NEW p \in Ends, NEW n \in Names, OpenSem(p, n)
  PROVE  /\ named' \in [Names -> Nat] /\ made' \in [Names -> Nat]
         /\ held' \in [Ends -> [Names -> Nat]]
         /\ \A m \in Names : m # n => named'[m] = named[m] /\ made'[m] = made[m]
         /\ \A q \in Ends, m \in Names :
              q # p \/ m # n => held'[q][m] = held[q][m]
         /\ held'[p][n] > 0 /\ held'[p][n] <= made'[n]
         /\ named'[n] <= made'[n]
         /\ made[n] <= made'[n] /\ made'[n] <= made[n] + 1
<1> DEFINE k == (IF named[n] = 0 THEN made[n] + 1 ELSE named[n])
<1>1. /\ held' = [held EXCEPT ![p][n] = k]
      /\ named' = [named EXCEPT ![n] = k]
      /\ made' = IF named[n] = 0 THEN [made EXCEPT ![n] = k] ELSE made
  BY DEF OpenSem
<1>2. named[n] \in Nat /\ made[n] \in Nat /\ named[n] <= made[n]
  BY DEF Types, SemsMade
<1>3. k \in Nat /\ k > 0
  BY <1>2
<1>4. made'[n] = (IF named[n] = 0 THEN made[n] + 1 ELSE made[n])
  BY <1>1 DEF Types
<1>5. held'[p][n] = k /\ named'[n] = k
  BY <1>1 DEF Types
<1>6. k <= made'[n] /\ made[n] <= made'[n] /\ made'[n] <= made[n] + 1
  BY <1>2, <1>4
<1>7. /\ named' \in [Names -> Nat] /\ made' \in [Names -> Nat]
      /\ held' \in [Ends -> [Names -> Nat]]
  BY <1>1, <1>3 DEF Types
<1>8. /\ \A m \in Names : m # n => named'[m] = named[m] /\ made'[m] = made[m]
      /\ \A q \in Ends, m \in Names : q # p \/ m # n => held'[q][m] = held[q][m]
  BY <1>1 DEF Types
<1> HIDE DEF k
<1> QED
  BY <1>3, <1>5, <1>6, <1>7, <1>8

\* A semaphore keeps the type of all, whatever is done to it.
LEMMA SemType ==
  ASSUME Types, NEW n \in Names, NEW k \in Sems,
         \/ value[n][k] > 0 /\ value' = [value EXCEPT ![n][k] = @ - 1]
         \/ value' = [value EXCEPT ![n][k] = @ + 1]
  PROVE  value' \in [Names -> [Sems -> Nat]]
<1>1. value \in [Names -> [Sems -> Nat]] /\ value[n] \in [Sems -> Nat] /\ value[n][k] \in Nat
  BY DEF Types
<1>2. CASE value[n][k] > 0 /\ value' = [value EXCEPT ![n][k] = @ - 1]
  <2>1. value[n][k] - 1 \in Nat
    BY <1>1, <1>2
  <2>2. [value[n] EXCEPT ![k] = @ - 1] \in [Sems -> Nat]
    BY <1>1, <2>1
  <2> QED
    BY <1>1, <1>2, <2>2
<1>3. CASE value' = [value EXCEPT ![n][k] = @ + 1]
  <2>1. [value[n] EXCEPT ![k] = @ + 1] \in [Sems -> Nat]
    BY <1>1
  <2> QED
    BY <1>1, <1>3, <2>1
<1> QED
  BY <1>2, <1>3

\* What of the invariant is not disturbed when names and counters stay: a
\* process goes on, and has opened what it must have.
LEMMA OnlyMoves ==
  ASSUME Types, SemsMade, UNCHANGED <<named, made, held, writers, readers>>,
         \A n \in Names :
           /\ writer' \in Before(n) => writer \in Before(n)
           /\ reader' \in Before(n) => reader \in Before(n)
           /\ writer' \in WriterHas(n) => writer \in WriterHas(n)
           /\ reader' \in ReaderHas(n) => reader \in ReaderHas(n)
  PROVE  SemsMade'
<1> SUFFICES ASSUME NEW n \in Names
             PROVE  /\ made[n] + WriterMay(n)' + ReaderMay(n)'
                         <= writers + readers
                    /\ named[n] <= made[n]
                    /\ held["writer"][n] <= made[n] /\ held["reader"][n] <= made[n]
                    /\ writer' \in WriterHas(n) => held["writer"][n] > 0
                    /\ reader' \in ReaderHas(n) => held["reader"][n] > 0
  BY DEF SemsMade, WriterMay, ReaderMay, Before, WriterHas, ReaderHas
<1>1. /\ WriterMay(n)' <= WriterMay(n)
      /\ ReaderMay(n)' <= ReaderMay(n)
      /\ WriterMay(n) \in 0 .. 1 /\ ReaderMay(n) \in 0 .. 1
      /\ WriterMay(n)' \in 0 .. 1 /\ ReaderMay(n)' \in 0 .. 1
  BY DEF WriterMay, ReaderMay
<1>2. made[n] \in Nat /\ writers \in Nat /\ readers \in Nat
  BY DEF Types
<1>3. made[n] + WriterMay(n) + ReaderMay(n)
        <= writers + readers
  BY DEF SemsMade
<1>4. made[n] + WriterMay(n)' + ReaderMay(n)'
        <= writers + readers
  BY <1>1, <1>2, <1>3
<1> QED
  BY <1>4 DEF SemsMade

LEMMA TypesStep == Inv /\ [Next]_vars => Types'
<1> SUFFICES ASSUME Inv, [Next]_vars PROVE Types'
  OBVIOUS
<1> USE FifoAssumption DEF names, data, count
<1>0. Types /\ SemsMade /\ "writer" \in Ends /\ "reader" \in Ends
      /\ "semRead" \in Names /\ "semWrite" \in Names
  BY DEF Inv, Ends, Names
<1>1. CASE StartWriter
  <2>1. held' \in [Ends -> [Names -> Nat]]
    BY <1>0, <1>1 DEF StartWriter, Types
  <2> QED
    BY <1>0, <1>1, <2>1 DEF StartWriter, Types
<1>2. CASE StartReader
  <2>1. held' \in [Ends -> [Names -> Nat]]
    BY <1>0, <1>2 DEF StartReader, Types
  <2> QED
    BY <1>0, <1>2, <2>1 DEF StartReader, Types
<1>3. CASE WriterOpens \/ ReaderOpens
  BY <1>0, <1>3 DEF WriterOpens, ReaderOpens, Types
<1>4. CASE WriterSemRead
  <2>1. OpenSem("writer", "semRead")
    BY <1>4 DEF WriterSemRead
  <2>2. /\ named' \in [Names -> Nat] /\ made' \in [Names -> Nat]
        /\ held' \in [Ends -> [Names -> Nat]]
    BY <1>0, <2>1, OpenSemOK
  <2> QED
    BY <1>0, <1>4, <2>2 DEF WriterSemRead, Types
<1>5. CASE WriterSemWrite
  <2>1. OpenSem("writer", "semWrite")
    BY <1>5 DEF WriterSemWrite
  <2>2. /\ named' \in [Names -> Nat] /\ made' \in [Names -> Nat]
        /\ held' \in [Ends -> [Names -> Nat]]
    BY <1>0, <2>1, OpenSemOK
  <2> QED
    BY <1>0, <1>5, <2>2 DEF WriterSemWrite, Types
<1>6. CASE ReaderSemRead
  <2>1. OpenSem("reader", "semRead")
    BY <1>6 DEF ReaderSemRead
  <2>2. /\ named' \in [Names -> Nat] /\ made' \in [Names -> Nat]
        /\ held' \in [Ends -> [Names -> Nat]]
    BY <1>0, <2>1, OpenSemOK
  <2> QED
    BY <1>0, <1>6, <2>2 DEF ReaderSemRead, Types
<1>7. CASE ReaderSemWrite
  <2>1. OpenSem("reader", "semWrite")
    BY <1>7 DEF ReaderSemWrite
  <2>2. /\ named' \in [Names -> Nat] /\ made' \in [Names -> Nat]
        /\ held' \in [Ends -> [Names -> Nat]]
    BY <1>0, <2>1, OpenSemOK
  <2> QED
    BY <1>0, <1>7, <2>2 DEF ReaderSemWrite, Types
<1>8. CASE WriterWait \/ WriterPost
  <2>1. held["writer"]["semRead"] \in Sems /\ held["writer"]["semWrite"] \in Sems
    BY <1>0, <1>8, SemInRange DEF WriterWait, WriterPost, SemsMade, WriterHas
  <2>2. value' \in [Names -> [Sems -> Nat]]
    BY <1>0, <1>8, <2>1, SemType DEF WriterWait, WriterPost, SemWait, SemPost
  <2> QED
    BY <1>0, <1>8, <2>2 DEF WriterWait, WriterPost, Types
<1>9. CASE ReaderGive \/ ReaderWait \/ ReaderPost
  <2>1. held["reader"]["semRead"] \in Sems /\ held["reader"]["semWrite"] \in Sems
    BY <1>0, <1>9, SemInRange DEF ReaderGive, ReaderWait, ReaderPost, SemsMade, ReaderHas
  <2>2. value' \in [Names -> [Sems -> Nat]]
    BY <1>0, <1>9, <2>1, SemType
    DEF ReaderGive, ReaderWait, ReaderPost, SemWait, SemPost
  <2> QED
    BY <1>0, <1>9, <2>2 DEF ReaderGive, ReaderWait, ReaderPost, Types
<1>10. CASE Put
  <2>1. /\ number \in 0 .. Messages /\ Messages \in Nat /\ number < Messages
        /\ sent \in Nat
    BY <1>10 DEF Put, Inv, Counts, Types
  <2>2. number + 1 \in 0 .. Messages /\ sent + 1 \in Nat
    BY <2>1
  <2>3. number' \in 0 .. Messages /\ sent' \in Nat /\ writer' \in {"post", "done"}
    BY <1>10, <2>1, <2>2 DEF Put
  <2>4. UNCHANGED <<reader, names, value, got, writers, readers, kills>>
    BY <1>10 DEF Put
  <2> QED
    BY <1>0, <2>3, <2>4 DEF Types
<1>11. CASE Get
  <2>1. got' \in Nat
    <3>1. CASE pipe # <<>>
      <4>1. pipe \in Seq(0 .. sent) /\ 0 .. sent \subseteq Nat
        BY <1>0 DEF Inv, Counts, Types
      <4>2. Head(pipe) \in 0 .. sent
        BY <3>1, <4>1, HeadTailProperties
      <4> QED
        BY <3>1, <4>1, <4>2, <1>11 DEF Get
    <3>2. CASE pipe = <<>>
      BY <3>2, <1>0, <1>11 DEF Get, Types
    <3> QED
      BY <3>1, <3>2
  <2> QED
    BY <1>0, <1>11, <2>1 DEF Get, Types
<1>12. CASE WriterUnlinkRead \/ WriterUnlinkWrite
  <2>1. named' \in [Names -> Nat]
    <3>1. PICK n \in Names : named' = [named EXCEPT ![n] = 0]
      BY <1>0, <1>12 DEF WriterUnlinkRead, WriterUnlinkWrite, Unlink
    <3> QED
      BY <1>0, <3>1 DEF Types
  <2>2. /\ writer' \in {"unlinkWrite", "close"}
        /\ UNCHANGED <<made, held, reader, value, data, count>>
    BY <1>12 DEF WriterUnlinkRead, WriterUnlinkWrite, Unlink
  <2> QED
    BY <1>0, <2>1, <2>2 DEF Types
<1>13. CASE ReaderUnlinkRead \/ ReaderUnlinkWrite
  <2>1. named' \in [Names -> Nat]
    <3>1. PICK n \in Names : named' = [named EXCEPT ![n] = 0]
      BY <1>0, <1>13 DEF ReaderUnlinkRead, ReaderUnlinkWrite, Unlink
    <3> QED
      BY <1>0, <3>1 DEF Types
  <2>2. /\ reader' \in {"unlinkWrite", "close"}
        /\ UNCHANGED <<made, held, writer, value, data, count>>
    BY <1>13 DEF ReaderUnlinkRead, ReaderUnlinkWrite, Unlink
  <2> QED
    BY <1>0, <2>1, <2>2 DEF Types
<1>14. CASE WriterClose \/ ReaderClose
  BY <1>0, <1>14 DEF WriterClose, ReaderClose, Types
<1>15. CASE Kill
  BY <1>0, <1>15 DEF Kill, KillWriter, KillReader, Types
<1>16. CASE UNCHANGED vars
  BY <1>0, <1>16 DEF vars, Types
<1> QED
  BY <1>1, <1>2, <1>3, <1>4, <1>5, <1>6, <1>7, <1>8, <1>9, <1>10, <1>11, <1>12,
     <1>13, <1>14, <1>15, <1>16 DEF Next, Writer, Reader

\* A process that opens a name was still to do it, and nobody else moves.
LEMMA WriterOpensSem ==
  ASSUME Types, SemsMade, NEW n \in Names, OpenSem("writer", n),
         writer = (IF n = "semRead" THEN "openRead" ELSE "openWrite"),
         writer' = (IF n = "semRead" THEN "openWrite" ELSE "wait"),
         UNCHANGED <<reader, writers, readers>>
  PROVE  SemsMade'
<1> SUFFICES ASSUME NEW m \in Names
             PROVE  /\ made'[m] + WriterMay(m)' + ReaderMay(m)
                         <= writers + readers
                    /\ named'[m] <= made'[m]
                    /\ held'["writer"][m] <= made'[m] /\ held'["reader"][m] <= made'[m]
                    /\ writer' \in WriterHas(m) => held'["writer"][m] > 0
                    /\ reader \in ReaderHas(m) => held'["reader"][m] > 0
  BY DEF SemsMade, WriterMay, ReaderMay, Before, WriterHas, ReaderHas
<1>0. "writer" \in Ends /\ "reader" \in Ends /\ "writer" # "reader"
  BY DEF Ends
<1>1. /\ \A q \in Names : q # n => named'[q] = named[q] /\ made'[q] = made[q]
      /\ \A p \in Ends, q \in Names : p # "writer" \/ q # n => held'[p][q] = held[p][q]
      /\ held'["writer"][n] > 0 /\ held'["writer"][n] <= made'[n]
      /\ named'[n] <= made'[n]
      /\ made[n] <= made'[n] /\ made'[n] <= made[n] + 1
      /\ made' \in [Names -> Nat]
  BY <1>0, OpenSemOK
<1>2. /\ made[m] + WriterMay(m) + ReaderMay(m)
           <= writers + readers
      /\ named[m] <= made[m]
      /\ held["writer"][m] <= made[m] /\ held["reader"][m] <= made[m]
      /\ writer \in WriterHas(m) => held["writer"][m] > 0
      /\ reader \in ReaderHas(m) => held["reader"][m] > 0
  BY DEF SemsMade
<1>3. /\ made[m] \in Nat /\ made'[m] \in Nat /\ writers \in Nat /\ readers \in Nat
      /\ held["reader"][m] \in Nat
      /\ ReaderMay(m) \in Nat
  BY <1>0, <1>1 DEF Types, WriterMay, ReaderMay
<1>4. held'["reader"][m] = held["reader"][m]
  BY <1>0, <1>1
<1>5. CASE m = n
  <2>1. WriterMay(m) = 1 /\ WriterMay(m)' = 0
    BY <1>5 DEF WriterMay, ReaderMay, Before, Names
  <2>2. made'[m] + WriterMay(m)' + ReaderMay(m)
          <= writers + readers
    BY <1>1, <1>2, <1>3, <1>5, <2>1
  <2>3. held'["reader"][m] <= made'[m]
    BY <1>1, <1>2, <1>3, <1>4, <1>5
  <2> QED
    BY <1>1, <1>2, <1>4, <1>5, <2>2, <2>3
<1>6. CASE m # n
  <2>1. /\ named'[m] = named[m] /\ made'[m] = made[m]
        /\ held'["writer"][m] = held["writer"][m]
    BY <1>0, <1>1, <1>6
  <2>2. /\ writer' \in Before(m) => writer \in Before(m)
        /\ writer' \in WriterHas(m) => writer \in WriterHas(m)
    BY <1>6 DEF Before, WriterHas, Names
  <2>3. WriterMay(m)' <= WriterMay(m)
        /\ WriterMay(m)' \in Nat /\ WriterMay(m) \in Nat
    BY <2>2 DEF WriterMay, ReaderMay
  <2>4. made'[m] + WriterMay(m)' + ReaderMay(m)
          <= writers + readers
    BY <1>2, <1>3, <2>1, <2>3
  <2> QED
    BY <1>2, <1>4, <2>1, <2>2, <2>4
<1> QED
  BY <1>5, <1>6

LEMMA ReaderOpensSem ==
  ASSUME Types, SemsMade, NEW n \in Names, OpenSem("reader", n),
         reader = (IF n = "semRead" THEN "openRead" ELSE "openWrite"),
         reader' = (IF n = "semRead" THEN "openWrite" ELSE "give"),
         UNCHANGED <<writer, writers, readers>>
  PROVE  SemsMade'
<1> SUFFICES ASSUME NEW m \in Names
             PROVE  /\ made'[m] + WriterMay(m) + ReaderMay(m)'
                         <= writers + readers
                    /\ named'[m] <= made'[m]
                    /\ held'["reader"][m] <= made'[m] /\ held'["writer"][m] <= made'[m]
                    /\ reader' \in ReaderHas(m) => held'["reader"][m] > 0
                    /\ writer \in WriterHas(m) => held'["writer"][m] > 0
  BY DEF SemsMade, WriterMay, ReaderMay, Before, ReaderHas, WriterHas
<1>0. "reader" \in Ends /\ "writer" \in Ends /\ "reader" # "writer"
  BY DEF Ends
<1>1. /\ \A q \in Names : q # n => named'[q] = named[q] /\ made'[q] = made[q]
      /\ \A p \in Ends, q \in Names : p # "reader" \/ q # n => held'[p][q] = held[p][q]
      /\ held'["reader"][n] > 0 /\ held'["reader"][n] <= made'[n]
      /\ named'[n] <= made'[n]
      /\ made[n] <= made'[n] /\ made'[n] <= made[n] + 1
      /\ made' \in [Names -> Nat]
  BY <1>0, OpenSemOK
<1>2. /\ made[m] + WriterMay(m) + ReaderMay(m)
           <= writers + readers
      /\ named[m] <= made[m]
      /\ held["reader"][m] <= made[m] /\ held["writer"][m] <= made[m]
      /\ reader \in ReaderHas(m) => held["reader"][m] > 0
      /\ writer \in WriterHas(m) => held["writer"][m] > 0
  BY DEF SemsMade
<1>3. /\ made[m] \in Nat /\ made'[m] \in Nat /\ readers \in Nat /\ writers \in Nat
      /\ held["writer"][m] \in Nat
      /\ WriterMay(m) \in Nat
  BY <1>0, <1>1 DEF Types, WriterMay, ReaderMay
<1>4. held'["writer"][m] = held["writer"][m]
  BY <1>0, <1>1
<1>5. CASE m = n
  <2>1. ReaderMay(m) = 1 /\ ReaderMay(m)' = 0
    BY <1>5 DEF WriterMay, ReaderMay, Before, Names
  <2>2. made'[m] + WriterMay(m) + ReaderMay(m)'
          <= writers + readers
    BY <1>1, <1>2, <1>3, <1>5, <2>1
  <2>3. held'["writer"][m] <= made'[m]
    BY <1>1, <1>2, <1>3, <1>4, <1>5
  <2> QED
    BY <1>1, <1>2, <1>4, <1>5, <2>2, <2>3
<1>6. CASE m # n
  <2>1. /\ named'[m] = named[m] /\ made'[m] = made[m]
        /\ held'["reader"][m] = held["reader"][m]
    BY <1>0, <1>1, <1>6
  <2>2. /\ reader' \in Before(m) => reader \in Before(m)
        /\ reader' \in ReaderHas(m) => reader \in ReaderHas(m)
    BY <1>6 DEF Before, ReaderHas, Names
  <2>3. ReaderMay(m)' <= ReaderMay(m)
        /\ ReaderMay(m)' \in Nat /\ ReaderMay(m) \in Nat
    BY <2>2 DEF WriterMay, ReaderMay
  <2>4. made'[m] + WriterMay(m) + ReaderMay(m)'
          <= writers + readers
    BY <1>2, <1>3, <2>1, <2>3
  <2> QED
    BY <1>2, <1>4, <2>1, <2>2, <2>4
<1> QED
  BY <1>5, <1>6


\* Taking a name away leaves what was made.
LEMMA UnlinkOK ==
  ASSUME Types, SemsMade, NEW n \in Names, Unlink(n),
         UNCHANGED <<writers, readers>>,
         \A m \in Names :
           /\ writer' \notin Before(m) \/ writer' = writer
           /\ reader' \notin Before(m) \/ reader' = reader
           /\ writer' \notin WriterHas(m) \/ writer' = writer
           /\ reader' \notin ReaderHas(m) \/ reader' = reader
  PROVE  SemsMade'
<1> SUFFICES ASSUME NEW m \in Names
             PROVE  /\ made[m] + WriterMay(m)' + ReaderMay(m)'
                         <= writers + readers
                    /\ named'[m] <= made[m]
                    /\ held["writer"][m] <= made[m] /\ held["reader"][m] <= made[m]
                    /\ writer' \in WriterHas(m) => held["writer"][m] > 0
                    /\ reader' \in ReaderHas(m) => held["reader"][m] > 0
  BY DEF SemsMade, WriterMay, ReaderMay, Before, WriterHas, ReaderHas, Unlink
<1>1. named'[m] = (IF m = n THEN 0 ELSE named[m]) /\ made[m] \in Nat
      /\ writers \in Nat /\ readers \in Nat
  BY DEF Unlink, Types
<1>2. /\ made[m] + WriterMay(m) + ReaderMay(m)
           <= writers + readers
      /\ named[m] <= made[m]
      /\ held["writer"][m] <= made[m] /\ held["reader"][m] <= made[m]
      /\ writer \in WriterHas(m) => held["writer"][m] > 0
      /\ reader \in ReaderHas(m) => held["reader"][m] > 0
  BY DEF SemsMade
<1>3. /\ WriterMay(m)' <= WriterMay(m)
      /\ ReaderMay(m)' <= ReaderMay(m)
      /\ WriterMay(m) \in Nat /\ ReaderMay(m) \in Nat
      /\ WriterMay(m)' \in Nat /\ ReaderMay(m)' \in Nat
  BY DEF WriterMay, ReaderMay
<1>4. made[m] + WriterMay(m)' + ReaderMay(m)'
        <= writers + readers
  BY <1>1, <1>2, <1>3
<1> QED
  BY <1>1, <1>2, <1>4

\* A process that is started may make one semaphore of each name.
LEMMA StartOK ==
  ASSUME Types, SemsMade,
         \/ StartWriter
         \/ StartReader
  PROVE  SemsMade'
<1> SUFFICES ASSUME NEW m \in Names
             PROVE  /\ made[m] + WriterMay(m)' + ReaderMay(m)'
                         <= writers' + readers'
                    /\ named[m] <= made[m]
                    /\ held'["writer"][m] <= made[m] /\ held'["reader"][m] <= made[m]
                    /\ writer' \in WriterHas(m) => held'["writer"][m] > 0
                    /\ reader' \in ReaderHas(m) => held'["reader"][m] > 0
  BY DEF SemsMade, WriterMay, ReaderMay, Before, WriterHas, ReaderHas, StartWriter, StartReader
<1>1. /\ made[m] \in Nat /\ writers \in Nat /\ readers \in Nat
      /\ WriterMay(m) \in Nat /\ ReaderMay(m) \in Nat
      /\ held \in [Ends -> [Names -> Nat]]
  BY DEF Types, WriterMay, ReaderMay, Ends
<1>2. /\ made[m] + WriterMay(m) + ReaderMay(m)
           <= writers + readers
      /\ named[m] <= made[m]
      /\ held["writer"][m] <= made[m] /\ held["reader"][m] <= made[m]
      /\ writer \in WriterHas(m) => held["writer"][m] > 0
      /\ reader \in ReaderHas(m) => held["reader"][m] > 0
  BY DEF SemsMade
<1>3. CASE StartWriter
  <2>1. /\ writer \in {"off", "done"} /\ writer' = "open" /\ writers' = writers + 1
        /\ UNCHANGED <<reader, readers>>
    BY <1>3 DEF StartWriter
  <2>2. held'["writer"][m] = 0 /\ held'["reader"][m] = held["reader"][m]
    BY <1>1, <1>3 DEF StartWriter, Types, Ends
  <2>3. WriterMay(m) = 0 /\ WriterMay(m)' = 1
        /\ writer' \notin WriterHas(m)
    BY <2>1 DEF WriterMay, ReaderMay, Before, WriterHas
  <2>5. ReaderMay(m)' = ReaderMay(m)
    BY <2>1 DEF ReaderMay
  <2>4. made[m] + WriterMay(m)' + ReaderMay(m)'
          <= writers' + readers'
    BY <1>1, <1>2, <2>1, <2>3, <2>5
  <2> QED
    BY <1>1, <1>2, <2>1, <2>2, <2>3, <2>4
<1>4. CASE StartReader
  <2>1. /\ reader \in {"off", "finished"} /\ reader' = "open" /\ readers' = readers + 1
        /\ UNCHANGED <<writer, writers>>
    BY <1>4 DEF StartReader
  <2>2. held'["reader"][m] = 0 /\ held'["writer"][m] = held["writer"][m]
    BY <1>1, <1>4 DEF StartReader, Types, Ends
  <2>3. ReaderMay(m) = 0 /\ ReaderMay(m)' = 1
        /\ reader' \notin ReaderHas(m)
    BY <2>1 DEF WriterMay, ReaderMay, Before, ReaderHas
  <2>5. WriterMay(m)' = WriterMay(m)
    BY <2>1 DEF WriterMay
  <2>4. made[m] + WriterMay(m)' + ReaderMay(m)'
          <= writers' + readers'
    BY <1>1, <1>2, <2>1, <2>3, <2>5
  <2> QED
    BY <1>1, <1>2, <2>1, <2>2, <2>3, <2>4
<1> QED
  BY <1>3, <1>4

LEMMA SemsStep == Inv /\ [Next]_vars => SemsMade'
<1> SUFFICES ASSUME Inv, [Next]_vars PROVE SemsMade'
  OBVIOUS
<1> USE DEF names, data, count
<1>0. Types /\ SemsMade /\ "semRead" \in Names /\ "semWrite" \in Names
      /\ "semRead" # "semWrite"
  BY DEF Inv, Names
<1>1. CASE StartWriter \/ StartReader
  BY <1>0, <1>1, StartOK
<1>2. CASE WriterSemRead
  BY <1>0, <1>2, WriterOpensSem DEF WriterSemRead
<1>3. CASE WriterSemWrite
  BY <1>0, <1>3, WriterOpensSem DEF WriterSemWrite
<1>4. CASE ReaderSemRead
  BY <1>0, <1>4, ReaderOpensSem DEF ReaderSemRead
<1>5. CASE ReaderSemWrite
  BY <1>0, <1>5, ReaderOpensSem DEF ReaderSemWrite
<1>6. CASE WriterUnlinkRead \/ WriterUnlinkWrite
  <2>1. /\ Unlink("semRead") \/ Unlink("semWrite")
        /\ writer' \in {"unlinkWrite", "close"} /\ UNCHANGED <<reader, writers, readers>>
    BY <1>6 DEF WriterUnlinkRead, WriterUnlinkWrite
  <2>2. \A m \in Names : writer' \notin Before(m) /\ writer' \notin WriterHas(m)
    BY <2>1 DEF Before, WriterHas
  <2> QED
    BY <1>0, <2>1, <2>2, UnlinkOK
<1>7. CASE ReaderUnlinkRead \/ ReaderUnlinkWrite
  <2>1. /\ Unlink("semRead") \/ Unlink("semWrite")
        /\ reader' \in {"unlinkWrite", "close"} /\ UNCHANGED <<writer, writers, readers>>
    BY <1>7 DEF ReaderUnlinkRead, ReaderUnlinkWrite
  <2>2. \A m \in Names : reader' \notin Before(m) /\ reader' \notin ReaderHas(m)
    BY <2>1 DEF Before, ReaderHas
  <2> QED
    BY <1>0, <2>1, <2>2, UnlinkOK
<1>8. CASE WriterOpens \/ ReaderOpens
  <2>1. /\ UNCHANGED <<named, made, held, writers, readers>>
        /\ \/ UNCHANGED writer
           \/ writer = "open" /\ writer' = "openRead"
        /\ \/ UNCHANGED reader
           \/ reader = "open" /\ reader' = "openRead"
    BY <1>8 DEF WriterOpens, ReaderOpens
  <2> QED
    BY <1>0, <2>1, OnlyMoves DEF Before, WriterHas, ReaderHas
<1>9. CASE WriterWait \/ WriterPost \/ Put \/ WriterClose
  <2>1. /\ UNCHANGED <<named, made, held, writers, readers, reader>>
        /\ \/ writer' \in {"unlinkRead", "done"}
           \/ /\ writer \in {"wait", "put", "post"}
              /\ writer' \in {"wait", "put", "post"}
    BY <1>9 DEF WriterWait, WriterPost, Put, WriterClose
  <2> QED
    BY <1>0, <2>1, OnlyMoves DEF Before, WriterHas
<1>10. CASE ReaderGive \/ ReaderWait \/ Get \/ ReaderPost \/ ReaderClose
  <2>1. /\ UNCHANGED <<named, made, held, writers, readers, writer>>
        /\ \/ reader' \in {"unlinkRead", "finished"}
           \/ /\ reader \in {"give", "wait", "get", "post"}
              /\ reader' \in {"give", "wait", "get", "post"}
    BY <1>10 DEF ReaderGive, ReaderWait, Get, ReaderPost, ReaderClose
  <2> QED
    BY <1>0, <2>1, OnlyMoves DEF Before, ReaderHas
<1>11. CASE Kill
  <2>1. /\ UNCHANGED <<named, made, held, writers, readers>>
        /\ UNCHANGED writer \/ writer' = "done"
        /\ UNCHANGED reader \/ reader' = "off"
    BY <1>11 DEF Kill, KillWriter, KillReader
  <2> QED
    BY <1>0, <2>1, OnlyMoves DEF Before, WriterHas, ReaderHas
<1>12. CASE UNCHANGED vars
  BY <1>0, <1>12, OnlyMoves DEF vars
<1> QED
  BY <1>1, <1>2, <1>3, <1>4, <1>5, <1>6, <1>7, <1>8, <1>9, <1>10, <1>11, <1>12
  DEF Next, Writer, Reader

LEMMA CountsStep == Inv /\ [Next]_vars => Counts'
<1> SUFFICES ASSUME Inv, [Next]_vars PROVE Counts'
  OBVIOUS
<1> USE FifoAssumption DEF names, data, count
<1>p. /\ sent \in Nat /\ got \in Nat /\ writers \in Nat
      /\ readers \in Nat /\ number \in Nat /\ Messages \in Nat /\ number <= Messages
      /\ Messages * writers \in Nat /\ pipe \in Seq(0 .. sent) /\ <<>> \in Seq(0 .. sent)
  BY Times, EmptySeq DEF Inv, Types, Counts
<1>c. Counts
  BY DEF Inv
<1>1. CASE StartWriter
  <2>1. /\ writer' = "open" /\ writers' = writers + 1 /\ number' = 0
        /\ UNCHANGED <<sent, got, pipe>>
    BY <1>1 DEF StartWriter
  <2>2. Messages * (writers + 1) = Messages * writers + Messages
    BY <1>p, Times
  <2>3. sent + Messages <= Messages * writers' + number'
    <3>1. CASE writers = 0
      BY <3>1, <2>1, <2>2, <1>p, <1>c DEF Counts
    <3>2. CASE writers > 0
      <4>1. sent + Messages <= Messages * writers + number
        BY <3>2, <1>c DEF Counts
      <4> QED
        BY <4>1, <2>1, <2>2, <1>p
    <3> QED
      BY <3>1, <3>2, <1>p
  <2> QED
    BY <2>1, <2>3, <1>p, <1>c DEF Counts
<1>2. CASE Put
  <2>1. CASE ReaderOpen
    <3>1. /\ pipe' = Append(pipe, sent + 1) /\ sent' = sent + 1
          /\ number' = number + 1 /\ writer' = "post" /\ writer = "put"
          /\ UNCHANGED <<got, writers>>
      BY <2>1, <1>2 DEF Put
    <3>2. pipe' \in Seq(0 .. sent')
      <4>1. pipe \in Seq(0 .. sent + 1)
        <5>1. Len(pipe) \in Nat /\ DOMAIN pipe = 1 .. Len(pipe)
              /\ \A i \in 1 .. Len(pipe) : pipe[i] \in 0 .. sent
          BY <1>p
        <5>2. pipe \in [1 .. Len(pipe) -> 0 .. sent + 1]
          BY <5>1, <1>p
        <5> QED
          BY <5>1, <5>2, SeqDef
      <4>2. sent + 1 \in 0 .. sent + 1
        BY <1>p
      <4> QED
        BY <4>1, <4>2, <3>1, AppendProperties
    <3> QED
      BY <3>1, <3>2, <1>p, <1>c DEF Counts
  <2>2. CASE ~ReaderOpen
    <3>1. writer' = "done" /\ pipe' = <<>> /\ UNCHANGED <<sent, number, got, writers>>
      BY <2>2, <1>2 DEF Put, KeptBy
    <3> QED
      BY <3>1, <1>2, <1>p, <1>c DEF Put, Counts
  <2> QED
    BY <2>1, <2>2
<1>3. CASE Get
  <2>1. UNCHANGED <<writer, sent, number, writers>>
    BY <1>3 DEF Get
  <2>2. CASE pipe # <<>>
    <3>1. got' = Head(pipe) /\ pipe' = Tail(pipe)
      BY <2>2, <1>3 DEF Get
    <3>2. got' \in 0 .. sent /\ pipe' \in Seq(0 .. sent)
      BY <2>2, <3>1, <1>p, HeadTailProperties
    <3> QED
      BY <2>1, <3>2, <1>p, <1>c DEF Counts
  <2>3. CASE pipe = <<>>
    <3>1. UNCHANGED <<got, pipe>>
      BY <2>3, <1>3 DEF Get
    <3> QED
      BY <2>1, <3>1, <1>c DEF Counts
  <2> QED
    BY <2>2, <2>3
<1>4. CASE \/ StartReader \/ WriterOpens \/ WriterSemRead \/ WriterSemWrite \/ WriterWait
           \/ WriterPost \/ WriterUnlinkRead \/ WriterUnlinkWrite \/ ReaderOpens
           \/ ReaderSemRead \/ ReaderSemWrite \/ ReaderGive \/ ReaderWait \/ ReaderPost
           \/ ReaderUnlinkRead \/ ReaderUnlinkWrite
           \/ UNCHANGED vars
  <2>1. UNCHANGED <<pipe, sent, got, number, writers>>
    BY <1>4
    DEF StartReader, WriterOpens, WriterSemRead, WriterSemWrite, WriterWait, WriterPost,
        WriterUnlinkRead, WriterUnlinkWrite, ReaderOpens, ReaderSemRead,
        ReaderSemWrite, ReaderGive, ReaderWait, ReaderPost, ReaderUnlinkRead,
        ReaderUnlinkWrite, vars
  <2>2. /\ writer' \in {"open", "openRead", "openWrite", "wait", "put"} =>
             \/ writer \in {"open", "openRead", "openWrite", "wait", "put"}
             \/ number # Messages
        /\ writer = "off" => writer' = "off"
    BY <1>4
    DEF StartReader, WriterOpens, WriterSemRead, WriterSemWrite, WriterWait, WriterPost,
        WriterUnlinkRead, WriterUnlinkWrite, ReaderOpens, ReaderSemRead,
        ReaderSemWrite, ReaderGive, ReaderWait, ReaderPost, ReaderUnlinkRead,
        ReaderUnlinkWrite, vars
  <2> QED
    BY <2>1, <2>2, <1>p, <1>c DEF Counts
<1>5. CASE WriterClose \/ ReaderClose \/ Kill
  <2>1. /\ UNCHANGED <<sent, got, number, writers>>
        /\ pipe' = pipe \/ pipe' = <<>>
        /\ UNCHANGED writer \/ (writer' = "done" /\ writer # "off")
    BY <1>5 DEF WriterClose, ReaderClose, Kill, KillWriter, KillReader, KeptBy
  <2> QED
    BY <2>1, <1>p, <1>c DEF Counts
<1> QED
  BY <1>1, <1>2, <1>3, <1>4, <1>5 DEF Next, Writer, Reader

LEMMA InvStep == Inv /\ [Next]_vars => Inv'
  BY TypesStep, SemsStep, CountsStep DEF Inv

LEMMA InvHolds == Spec => []Inv
<1> QED
  BY InvInit, InvStep, PTL DEF Spec

\* Every variable of 3.10 keeps its type: no semaphore goes below 0, every
\* pair that is used was made, and nobody sends or receives more numbers than
\* the writers that were started have.
THEOREM TypeCorrect == Spec => []TypeOK
<1>1. ASSUME Inv PROVE TypeOK
  <2> USE FifoAssumption
  <2>1. Messages * writers <= Messages * MaxWriters /\ Messages * writers \in Nat
        /\ Messages * MaxWriters \in Nat
    BY <1>1, Times DEF Inv, Types
  <2>2. sent \in 0 .. Messages * MaxWriters
    <3>1. /\ sent \in Nat /\ number \in 0 .. Messages /\ writers \in Nat
          /\ writers = 0 => sent = 0
          /\ writers > 0 => sent + Messages <= Messages * writers + number
      BY <1>1 DEF Inv, Types, Counts
    <3>2. Messages \in Nat
      OBVIOUS
    <3>3. CASE writers = 0
      BY <2>1, <3>1, <3>3
    <3>4. CASE writers > 0
      <4>1. sent <= Messages * writers
        BY <2>1, <3>1, <3>2, <3>4
      <4> QED
        BY <2>1, <3>1, <4>1
    <3> QED
      BY <3>1, <3>3, <3>4
  <2>3. got \in 0 .. Messages * MaxWriters
    BY <1>1, <2>1, <2>2 DEF Inv, Types, Counts
  <2>4. pipe \in Seq(Nat)
    <3>1. pipe \in Seq(0 .. sent)
      BY <1>1 DEF Inv, Counts
    <3>2. 0 .. sent \subseteq Nat
      OBVIOUS
    <3> QED
      BY <3>1, <3>2, SeqMonotonic
  <2>5. ASSUME NEW n \in Names
        PROVE  {named[n], made[n], held["writer"][n], held["reader"][n]}
                 \subseteq {0} \cup Sems
    <3>1. Types /\ SemsMade
      BY <1>1 DEF Inv
    <3>2. made[n] <= MaxWriters + MaxReaders
      BY <3>1, SemInRange
    <3>3. /\ made[n] \in Nat /\ named[n] \in Nat
          /\ held["writer"][n] \in Nat /\ held["reader"][n] \in Nat
      BY <3>1 DEF Types, Ends
    <3>4. /\ named[n] <= made[n]
          /\ held["writer"][n] <= made[n] /\ held["reader"][n] <= made[n]
      BY <3>1 DEF SemsMade
    <3> QED
      BY <3>2, <3>3, <3>4 DEF Sems
  <2>6. /\ named \in [Names -> {0} \cup Sems] /\ made \in [Names -> {0} \cup Sems]
        /\ held \in [Ends -> [Names -> {0} \cup Sems]]
    <3>1. /\ named \in [Names -> Nat] /\ made \in [Names -> Nat]
          /\ held \in [Ends -> [Names -> Nat]]
      BY <1>1 DEF Inv, Types
    <3>2. ASSUME NEW p \in Ends PROVE held[p] \in [Names -> {0} \cup Sems]
      BY <2>5, <3>1 DEF Ends
    <3> QED
      BY <2>5, <3>1, <3>2
  <2> QED
    BY <1>1, <2>2, <2>3, <2>4, <2>6 DEF Inv, Types, TypeOK
<1> QED
  BY <1>1, InvHolds, PTL

-----------------------------------------------------------------------------
(***************************************************************************)
(* The refinement.  A turn to write is made by a reader that is started,   *)
(* and from then on it is in a semaphore, with the writer, in the pipe as  *)
(* a number, or with the reader; a kill, or the end of the pipe, can only  *)
(* destroy it.  All semaphores that ever had the name semWrite are counted *)
(* together, so it does not matter which of them the writer and the reader *)
(* have opened, nor whether the two have the same.                         *)
(***************************************************************************)

Turns == {t \in Sems \X (Nat \ {0}) : t[2] <= value["semWrite"][t[1]]}

Writing == IF writer = "put" THEN 1 ELSE 0
Owed == IF reader \in {"open", "openRead", "openWrite", "give", "post"} THEN 1 ELSE 0

TurnsInv ==
  /\ IsFiniteSet(Turns)
  /\ Cardinality(Turns) + Len(pipe) + Writing + Owed <= readers

LEMMA TurnTypes ==
  ASSUME Inv, TurnsInv
  PROVE  Cardinality(Turns) \in Nat /\ Len(pipe) \in Nat /\ readers \in Nat
<1>1. pipe \in Seq(0 .. sent)
  BY DEF Inv, Counts
<1> QED
  BY <1>1, FS_CardinalityType, LenProperties DEF TurnsInv, Inv, Types

\* sem_post on a write semaphore makes one turn.
LEMMA TurnMade ==
  ASSUME Types, TurnsInv, NEW k \in Sems,
         value' = [value EXCEPT !["semWrite"][k] = @ + 1]
  PROVE  /\ IsFiniteSet(Turns')
         /\ Cardinality(Turns') = Cardinality(Turns) + 1
<1> DEFINE t == <<k, value["semWrite"][k] + 1>>
<1>1. /\ value["semWrite"][k] \in Nat
      /\ \A j \in Sems : value'["semWrite"][j] =
           IF j = k THEN value["semWrite"][k] + 1 ELSE value["semWrite"][j]
      /\ \A j \in Sems : value["semWrite"][j] \in Nat
  BY DEF Types, Names
<1>2. Turns' = Turns \cup {t}
  BY <1>1 DEF Turns
<1>3. t \notin Turns
  BY <1>1 DEF Turns
<1> QED
  BY <1>2, <1>3, FS_AddElement DEF TurnsInv

\* sem_wait takes one.
LEMMA TurnTaken ==
  ASSUME Types, TurnsInv, NEW k \in Sems, value["semWrite"][k] > 0,
         value' = [value EXCEPT !["semWrite"][k] = @ - 1]
  PROVE  /\ IsFiniteSet(Turns')
         /\ Cardinality(Turns') = Cardinality(Turns) - 1
<1> DEFINE t == <<k, value["semWrite"][k]>>
<1>1. /\ value["semWrite"][k] \in Nat
      /\ \A j \in Sems : value'["semWrite"][j] =
           IF j = k THEN value["semWrite"][k] - 1 ELSE value["semWrite"][j]
      /\ \A j \in Sems : value["semWrite"][j] \in Nat
  BY DEF Types, Names
<1>2. Turns' = Turns \ {t}
  BY <1>1 DEF Turns
<1>3. t \in Turns
  BY <1>1 DEF Turns
<1> QED
  BY <1>2, <1>3, FS_RemoveElement DEF TurnsInv

\* The read semaphores hold no turns to write.
LEMMA TurnsKept ==
  ASSUME Types, NEW k \in Sems,
         \/ value' = [value EXCEPT !["semRead"][k] = @ - 1]
         \/ value' = [value EXCEPT !["semRead"][k] = @ + 1]
  PROVE  Turns' = Turns
<1>1. \A j \in Sems : value'["semWrite"][j] = value["semWrite"][j]
  BY DEF Types, Names
<1> QED
  BY <1>1 DEF Turns

LEMMA TurnsInit == Init => TurnsInv
<1> SUFFICES ASSUME Init PROVE TurnsInv
  OBVIOUS
<1>1. \A k \in Sems : value["semWrite"][k] = 0
  BY DEF Init, Names
<1>2. Turns = {}
  BY <1>1 DEF Turns
<1>3. Cardinality(Turns) = 0 /\ IsFiniteSet(Turns)
  BY <1>2, FS_EmptySet
<1> QED
  BY <1>3 DEF Init, TurnsInv, Owed, Writing

\* Nothing that matters to the turns is made, and some may be lost.
LEMMA TurnsLost ==
  ASSUME Inv, TurnsInv, UNCHANGED <<value, readers>>,
         pipe' = pipe \/ pipe' = <<>>,
         writer' # "put" \/ writer' = writer,
         \/ reader' \notin {"open", "openRead", "openWrite", "give", "post"}
         \/ reader \in {"open", "openRead", "openWrite", "give", "post"}
  PROVE  TurnsInv'
<1>1. Cardinality(Turns) \in Nat /\ Len(pipe) \in Nat /\ readers \in Nat
  BY TurnTypes
<1>2. Turns' = Turns
  BY DEF Turns
<1>3. Len(pipe') <= Len(pipe) /\ Len(pipe') \in Nat
  <2>1. Len(<<>>) = 0
    OBVIOUS
  <2> QED
    BY <1>1, <2>1
<1>4. /\ Writing' <= Writing
      /\ Writing \in Nat /\ Writing' \in Nat
  BY DEF Writing
<1>5. Owed' <= Owed /\ Owed \in Nat /\ Owed' \in Nat
  BY DEF Owed, Writing
<1>6. /\ IsFiniteSet(Turns)
      /\ Cardinality(Turns) + Len(pipe) + Writing + Owed <= readers
  BY DEF TurnsInv
<1>7. Cardinality(Turns) + Len(pipe') + Writing' + Owed' <= readers
  BY <1>1, <1>3, <1>4, <1>5, <1>6
<1> QED
  BY <1>2, <1>6, <1>7 DEF TurnsInv

LEMMA TurnsStep == Inv /\ TurnsInv /\ [Next]_vars => TurnsInv'
<1> SUFFICES ASSUME Inv, TurnsInv, [Next]_vars PROVE TurnsInv'
  OBVIOUS
<1> USE DEF names, data, count
<1>0. /\ Cardinality(Turns) \in Nat /\ Len(pipe) \in Nat /\ readers \in Nat
      /\ Types /\ SemsMade /\ "semRead" \in Names /\ "semWrite" \in Names
      /\ "writer" \in Ends /\ "reader" \in Ends
  BY TurnTypes DEF Inv, Names, Ends
<1>a. UNCHANGED value => Turns' = Turns
  BY DEF Turns
<1>t. /\ IsFiniteSet(Turns)
      /\ Cardinality(Turns) + Len(pipe) + Writing + Owed <= readers
  BY DEF TurnsInv
<1>2. CASE StartReader
  <2>1. /\ reader \in {"off", "finished"} /\ reader' = "open"
        /\ readers' = readers + 1 /\ UNCHANGED <<writer, pipe, value>>
    BY <1>2 DEF StartReader
  <2>2. Owed = 0 /\ Owed' = 1
    BY <2>1 DEF Owed, Writing
  <2>3. Writing' = Writing /\ Writing \in Nat
    BY <2>1 DEF Writing
  <2> QED
    BY <1>0, <1>a, <1>t, <2>1, <2>2, <2>3 DEF TurnsInv
<1>4. CASE WriterWait
  <2>1. held["writer"]["semWrite"] \in Sems
    BY <1>0, <1>4, SemInRange DEF WriterWait, SemsMade, WriterHas
  <2>2. IsFiniteSet(Turns') /\ Cardinality(Turns') = Cardinality(Turns) - 1
    BY <1>0, <1>4, <2>1, TurnTaken DEF WriterWait, SemWait
  <2>3. /\ Writing = 0 /\ Writing' = 1
        /\ Owed' = Owed /\ Owed \in Nat /\ UNCHANGED <<pipe, readers>>
    BY <1>4 DEF WriterWait, Owed, Writing
  <2> QED
    BY <1>0, <1>t, <2>2, <2>3 DEF TurnsInv
<1>5. CASE Put
  <2>1. CASE ReaderOpen
    <3>1. Len(pipe') = Len(pipe) + 1
      <4>1. pipe \in Seq(Nat) /\ sent + 1 \in Nat
        <5>1. pipe \in Seq(0 .. sent) /\ 0 .. sent \subseteq Nat /\ sent \in Nat
          BY DEF Inv, Counts, Types
        <5> QED
          BY <5>1, SeqMonotonic
      <4>2. pipe' = Append(pipe, sent + 1)
        BY <1>5, <2>1 DEF Put
      <4> QED
        BY <4>1, <4>2, AppendProperties
    <3>2. /\ Writing = 1 /\ Writing' = 0
          /\ Owed' = Owed /\ Owed \in Nat /\ UNCHANGED <<value, readers>>
      BY <1>5, <2>1 DEF Put, Owed, Writing
    <3> QED
      BY <1>0, <1>a, <1>t, <3>1, <3>2 DEF TurnsInv
  <2>2. CASE ~ReaderOpen
    <3>1. /\ UNCHANGED <<value, readers, reader>> /\ pipe' = <<>> /\ writer' = "done"
      BY <1>5, <2>2 DEF Put, KeptBy
    <3>2. \/ reader' \notin {"open", "openRead", "openWrite", "give", "post"}
          \/ reader \in {"open", "openRead", "openWrite", "give", "post"}
      BY <3>1
    <3> QED
      BY <3>1, <3>2, TurnsLost
  <2> QED
    BY <2>1, <2>2
<1>6. CASE WriterPost
  <2>1. held["writer"]["semRead"] \in Sems
    BY <1>0, <1>6, SemInRange DEF WriterPost, SemsMade, WriterHas
  <2>2. Turns' = Turns
    BY <1>0, <1>6, <2>1, TurnsKept DEF WriterPost, SemPost
  <2>3. /\ Writing = 0 /\ Writing' = 0
        /\ Owed' = Owed /\ UNCHANGED <<pipe, readers>>
    BY <1>6 DEF WriterPost, Owed, Writing
  <2> QED
    BY <1>t, <2>2, <2>3 DEF TurnsInv
<1>8. CASE ReaderGive \/ ReaderPost
  <2>1. held["reader"]["semWrite"] \in Sems
    BY <1>0, <1>8, SemInRange DEF ReaderGive, ReaderPost, SemsMade, ReaderHas
  <2>2. IsFiniteSet(Turns') /\ Cardinality(Turns') = Cardinality(Turns) + 1
    BY <1>0, <1>8, <2>1, TurnMade DEF ReaderGive, ReaderPost, SemPost
  <2>3. /\ Owed = 1 /\ Owed' = 0 /\ UNCHANGED <<pipe, readers>>
        /\ Writing \in Nat /\ Writing' = Writing
    BY <1>8 DEF ReaderGive, ReaderPost, Owed, Writing
  <2> QED
    BY <1>0, <1>t, <2>2, <2>3 DEF TurnsInv
<1>9. CASE ReaderWait
  <2>1. held["reader"]["semRead"] \in Sems
    BY <1>0, <1>9, SemInRange DEF ReaderWait, SemsMade, ReaderHas
  <2>2. Turns' = Turns
    BY <1>0, <1>9, <2>1, TurnsKept DEF ReaderWait, SemWait
  <2>3. Owed = 0 /\ Owed' = 0 /\ Writing' = Writing /\ UNCHANGED <<pipe, readers>>
    BY <1>9 DEF ReaderWait, Owed, Writing
  <2> QED
    BY <1>t, <2>2, <2>3 DEF TurnsInv
<1>10. CASE Get
  <2>0. UNCHANGED <<value, readers, writer>>
    BY <1>10 DEF Get
  <2>1. CASE pipe # <<>>
    <3>1. Len(pipe') = Len(pipe) - 1
      BY <1>10, <2>1, HeadTailProperties DEF Get, Inv, Counts
    <3>2. Owed = 0 /\ Owed' = 1
      BY <1>10, <2>1 DEF Get, Owed, Writing
    <3>3. Writing' = Writing /\ Writing \in Nat
      BY <2>0 DEF Writing
    <3> QED
      BY <1>0, <1>a, <1>t, <2>0, <3>1, <3>2, <3>3 DEF TurnsInv
  <2>2. CASE pipe = <<>>
    <3>1. pipe' = pipe /\ reader' = "unlinkRead"
      BY <1>10, <2>2 DEF Get
    <3> QED
      BY <2>0, <3>1, TurnsLost
  <2> QED
    BY <2>1, <2>2
<1>11. CASE \/ StartWriter \/ WriterOpens \/ WriterSemRead \/ WriterSemWrite
            \/ WriterUnlinkRead \/ WriterUnlinkWrite \/ WriterClose \/ ReaderOpens
            \/ ReaderSemRead \/ ReaderSemWrite \/ ReaderUnlinkRead \/ ReaderUnlinkWrite
            \/ ReaderClose \/ Kill \/ UNCHANGED vars
  <2>1. UNCHANGED <<value, readers>> /\ (pipe' = pipe \/ pipe' = <<>>)
    BY <1>11
    DEF StartWriter, WriterOpens, WriterSemRead, WriterSemWrite, WriterUnlinkRead,
        WriterUnlinkWrite, WriterClose, ReaderOpens, ReaderSemRead, ReaderSemWrite,
        ReaderUnlinkRead, ReaderUnlinkWrite, ReaderClose, Kill, KillWriter, KillReader,
        KeptBy, vars
  <2>2. /\ writer' # "put" \/ writer' = writer
        /\ \/ reader' \notin {"open", "openRead", "openWrite", "give", "post"}
           \/ reader \in {"open", "openRead", "openWrite", "give", "post"}
    BY <1>11
    DEF StartWriter, WriterOpens, WriterSemRead, WriterSemWrite, WriterUnlinkRead,
        WriterUnlinkWrite, WriterClose, ReaderOpens, ReaderSemRead, ReaderSemWrite,
        ReaderUnlinkRead, ReaderUnlinkWrite, ReaderClose, Kill, KillWriter, KillReader,
        vars
  <2> QED
    BY <2>1, <2>2, TurnsLost
<1> QED
  BY <1>2, <1>4, <1>5, <1>6, <1>8, <1>9, <1>10, <1>11 DEF Next, Writer, Reader

LEMMA TurnsHold == Spec => [](Inv /\ TurnsInv)
<1>1. Inv /\ TurnsInv /\ [Next]_vars => (Inv /\ TurnsInv)'
  BY InvStep, TurnsStep
<1> QED
  BY <1>1, InvInit, TurnsInit, PTL DEF Spec

\* Whoever is killed and started again, between any two calls, and whatever is
\* left in the semaphores, old and new ones mixed: numbers arrive in order,
\* each once, and never more are on their way than readers were started.
THEOREM PosixImplementsHandoff == Spec => ImplementsHandoff
<1>1. Init => Pair!Init
  BY DEF Init, Pair!Init
<1>2. ASSUME Inv, TurnsInv, [Next]_vars
      PROVE  [Pair!Next]_<<pipe, sent, got>>
  <2>1. CASE Put
    <3>1. CASE ReaderOpen
      <4>1. Len(pipe) < MaxReaders
        <5>1. /\ Cardinality(Turns) \in Nat /\ Len(pipe) \in Nat
              /\ readers \in 0 .. MaxReaders
          BY <1>2, TurnTypes DEF Inv, Types
        <5>2. Writing = 1 /\ Owed \in Nat
          BY <2>1 DEF Put, Owed, Writing
        <5> QED
          BY <1>2, <5>1, <5>2, FifoAssumption DEF TurnsInv
      <4>2. Pair!Send
        BY <2>1, <3>1, <4>1 DEF Put, Pair!Send
      <4> QED
        BY <4>2 DEF Pair!Next
    <3>2. CASE ~ReaderOpen
      <4>1. pipe' = <<>> /\ UNCHANGED <<sent, got>>
        BY <2>1, <3>2 DEF Put, KeptBy
      <4> QED
        BY <4>1 DEF Pair!Next, Pair!Lose
    <3> QED
      BY <3>1, <3>2
  <2>2. CASE Get
    <3>1. Pair!Receive \/ UNCHANGED <<pipe, sent, got>>
      BY <2>2 DEF Get, Pair!Receive
    <3> QED
      BY <3>1 DEF Pair!Next
  <2>3. CASE WriterClose \/ ReaderClose \/ Kill
    <3>1. Pair!Lose \/ UNCHANGED <<pipe, sent, got>>
      BY <2>3
      DEF WriterClose, ReaderClose, Kill, KillWriter, KillReader, KeptBy, Pair!Lose
    <3> QED
      BY <3>1 DEF Pair!Next
  <2> QED
    BY <1>2, <2>1, <2>2, <2>3
    DEF Next, Writer, Reader, StartWriter, StartReader, WriterOpens, WriterSemRead,
        WriterSemWrite, WriterWait, WriterPost, WriterUnlinkRead, WriterUnlinkWrite,
        ReaderOpens, ReaderSemRead, ReaderSemWrite, ReaderGive, ReaderWait, ReaderPost,
        ReaderUnlinkRead, ReaderUnlinkWrite, data, vars
<1> QED
  BY <1>1, <1>2, TurnsHold, PTL DEF Spec, ImplementsHandoff, Pair!Spec
=============================================================================
