--------------------------- MODULE SysVFifoProofs ---------------------------
(***************************************************************************)
(* Proofs about SysVFifo, for any number of messages, whatever earlier     *)
(* runs left in the semaphores, with and without SEM_UNDO.                 *)
(*                                                                         *)
(* The argument is that of one token.  Once the writer has set the         *)
(* semaphores there is one turn at most: the reader has still to give it,  *)
(* or semWrite has it, or the writer is about to put a number, or there is *)
(* a number that was not read, or the reader is about to give the turn     *)
(* back.  The undoing of a reader's V takes a turn away, never gives one.  *)
(***************************************************************************)
EXTENDS SysVFifo, SequenceTheorems, TLAPS

-----------------------------------------------------------------------------
(* The semaphores. *)

\* The kernel's bookkeeping keeps its type, whatever is done.
LEMMA SemType ==
  ASSUME SemTypeOK, NEW p \in Procs, NEW s \in Sems,
         P(p, s) \/ V(p, s) \/ Leave(p)
  PROVE  SemTypeOK'
<1>1. CASE P(p, s)
  <2>1. value' \in [Sems -> Nat]
    BY <1>1 DEF P, SemTypeOK
  <2>2. adjust' \in [Procs -> [Sems -> Int]]
    BY <1>1 DEF P, Adjusted, SemTypeOK
  <2> QED
    BY <2>1, <2>2 DEF SemTypeOK
<1>2. CASE V(p, s)
  <2>1. value' \in [Sems -> Nat]
    BY <1>2 DEF V, SemTypeOK
  <2>2. adjust' \in [Procs -> [Sems -> Int]]
    BY <1>2 DEF V, Adjusted, SemTypeOK
  <2> QED
    BY <2>1, <2>2 DEF SemTypeOK
<1>3. CASE Leave(p)
  <2>1. value' \in [Sems -> Nat]
    BY <1>3 DEF Leave, SemTypeOK
  <2>2. adjust' \in [Procs -> [Sems -> Int]]
    BY <1>3 DEF Leave, SemTypeOK, NoAdjust
  <2> QED
    BY <2>1, <2>2 DEF SemTypeOK
<1> QED
  BY <1>1, <1>2, <1>3

\* Every operation on one semaphore leaves the other alone.
LEMMA OneAtATime ==
  ASSUME SemTypeOK, NEW p \in Procs, NEW s \in Sems, P(p, s) \/ V(p, s)
  PROVE  /\ P(p, s) => value[s] > 0 /\ value'[s] = value[s] - 1
         /\ V(p, s) => value'[s] = value[s] + 1
         /\ \A t \in Sems \ {s} : value'[t] = value[t]
         /\ \A q \in Procs, t \in Sems :
              q # p \/ t # s => adjust'[q][t] = adjust[q][t]
<1>1. P(p, s) => value[s] > 0 /\ value'[s] = value[s] - 1
  BY DEF P, SemTypeOK
<1>2. V(p, s) => value'[s] = value[s] + 1
  BY DEF V, SemTypeOK
<1>3. \A t \in Sems \ {s} : value'[t] = value[t]
  BY DEF P, V, SemTypeOK
<1>4. \A q \in Procs, t \in Sems : q # p \/ t # s => adjust'[q][t] = adjust[q][t]
  <2>1. PICK n \in Int : Adjusted(p, s, n)
    BY DEF P, V
  <2>2. adjust' = adjust \/ adjust' = [adjust EXCEPT ![p][s] = @ + n]
    BY <2>1 DEF Adjusted
  <2> QED
    BY <2>2 DEF SemTypeOK
<1> QED
  BY <1>1, <1>2, <1>3, <1>4

\* A V with SEM_UNDO is taken back later, never given once more.
LEMMA UndoneDown ==
  ASSUME SemTypeOK, NEW p \in Procs, NEW s \in Sems, V(p, s), adjust[p][s] <= 0
  PROVE  adjust'[p][s] <= 0
<1>1. adjust[p][s] \in Int /\ adjust[p] \in [Sems -> Int]
  BY DEF SemTypeOK
<1>2. CASE Undo
  <2>1. adjust'[p][s] = adjust[p][s] + (-1)
    BY <1>1, <1>2 DEF V, Adjusted, SemTypeOK
  <2> QED
    BY <1>1, <2>1
<1>3. CASE ~Undo
  BY <1>3 DEF V, Adjusted
<1> QED
  BY <1>2, <1>3

\* SETVAL keeps the type, clears the semaphore and what is to be undone on it.
LEMMA SetValEffect ==
  ASSUME SemTypeOK, NEW s \in Sems, NEW n \in Nat, SetVal(s, n)
  PROVE  /\ SemTypeOK'
         /\ value'[s] = n
         /\ \A q \in Procs : adjust'[q][s] = 0
         /\ \A q \in Procs, t \in Sems \ {s} : adjust'[q][t] = adjust[q][t]
<1>1. value' \in [Sems -> Nat] /\ value'[s] = n
  BY DEF SetVal, SemTypeOK
<1>2. \A q \in Procs : adjust'[q] = [adjust[q] EXCEPT ![s] = 0]
  BY DEF SetVal
<1>3. adjust' \in [Procs -> [Sems -> Int]]
  BY DEF SetVal, SemTypeOK
<1> QED
  BY <1>1, <1>2, <1>3 DEF SemTypeOK

\* The end of a process that only ever did V on a semaphore adds nothing.
LEMMA LeaveEffect ==
  ASSUME SemTypeOK, NEW p \in Procs, NEW s \in Sems, Leave(p), adjust[p][s] <= 0
  PROVE  /\ value'[s] <= value[s]
         /\ adjust'[p][s] = 0
         /\ \A q \in Procs \ {p} : adjust'[q] = adjust[q]
<1>1. adjust[p][s] \in Int /\ value[s] \in Nat
  BY DEF SemTypeOK
<1>2. value'[s] = IF value[s] + adjust[p][s] < 0 THEN 0 ELSE value[s] + adjust[p][s]
  BY DEF Leave
<1>3. value'[s] <= value[s]
  BY <1>1, <1>2
<1>4. adjust' = [adjust EXCEPT ![p] = NoAdjust]
  BY DEF Leave
<1>5. adjust'[p] = NoAdjust /\ NoAdjust[s] = 0
  BY <1>4 DEF SemTypeOK, NoAdjust
<1> QED
  BY <1>3, <1>4, <1>5 DEF SemTypeOK

-----------------------------------------------------------------------------
(* The invariant. *)

One(b) == IF b THEN 1 ELSE 0

\* The writer has not set both semaphores.
Unset == writer \in {"start", "setRead", "setWrite"}

OneTurn ==
  ~Unset /\ ~WriterGone =>
    value["semWrite"] + One(reader \in {"start", "open", "give"})
      + One(writer = "put") + (sent - got) + One(reader = "post") <= 1

Transit ==
  /\ got \in {sent, sent - 1}
  /\ pipe = <<>> \/ (pipe = <<sent>> /\ got = sent - 1)
  /\ Unset => sent = 0 /\ reader # "post"
  /\ writer \in {"wait", "put"} => sent < Messages
  /\ writer \in {"last", "exit", "exited"} => sent = Messages

\* The reader never takes semWrite, so its end gives none back.
ReaderGivesOnly == adjust["reader"]["semWrite"] <= 0

Inv == TypeOK /\ OneTurn /\ Transit /\ ReaderGivesOnly

-----------------------------------------------------------------------------

LEMMA InvInit == Init => Inv
<1> SUFFICES ASSUME Init PROVE Inv
  OBVIOUS
<1> USE FifoAssumption DEF Init
<1>1. SemTypeOK
  BY DEF SemInit, SemTypeOK, NoAdjust
<1>2. TypeOK
  BY <1>1 DEF TypeOK, WriterAt, ReaderAt
<1>3. ReaderGivesOnly
  BY DEF ReaderGivesOnly, SemInit, NoAdjust, Procs, Sems
<1> QED
  BY <1>2, <1>3 DEF Inv, OneTurn, Transit, Unset

\* The token and the counters in the form the steps need.
LEMMA Typed ==
  ASSUME Inv
  PROVE  /\ SemTypeOK
         /\ value["semWrite"] \in Nat /\ value["semRead"] \in Nat
         /\ sent \in Nat /\ got \in Nat /\ Messages \in Nat /\ sent <= Messages
         /\ adjust["reader"]["semWrite"] \in Int
  BY FifoAssumption DEF Inv, TypeOK, SemTypeOK, Sems, Procs

LEMMA InvStep == Inv /\ [Next]_vars => Inv'
<1> SUFFICES ASSUME Inv, [Next]_vars PROVE Inv'
  OBVIOUS
<1> USE FifoAssumption DEF Inv
<1>t. /\ SemTypeOK
      /\ value["semWrite"] \in Nat /\ value["semRead"] \in Nat
      /\ sent \in Nat /\ got \in Nat /\ Messages \in Nat /\ sent <= Messages
      /\ adjust["reader"]["semWrite"] \in Int
  BY Typed
<1>p. pipe \in Seq(1 .. Messages) /\ <<>> \in Seq(1 .. Messages)
  BY EmptySeq DEF TypeOK
<1>1. CASE WriterStart
  <2>1. TypeOK'
    BY <1>1 DEF WriterStart, TypeOK, SemTypeOK, semVars, WriterAt, ReaderAt
  <2>2. ReaderGivesOnly'
    BY <1>1 DEF WriterStart, ReaderGivesOnly, semVars
  <2>3. OneTurn' /\ Transit'
    BY <1>1, <1>t DEF WriterStart, OneTurn, Transit, Unset, WriterGone, WriterOpen, One, semVars
  <2> QED
    BY <2>1, <2>2, <2>3
<1>2. CASE SetRead
  <2>1. /\ SemTypeOK' /\ value'["semRead"] = 0
        /\ adjust'["reader"]["semWrite"] <= 0
    BY <1>2, <1>t, SetValEffect DEF SetRead, Sems, Procs, ReaderGivesOnly
  <2>2. TypeOK'
    BY <2>1, <1>2 DEF SetRead, TypeOK, WriterAt
  <2>3. OneTurn' /\ Transit'
    BY <2>1, <2>2, <1>2, <1>t DEF SetRead, OneTurn, Transit, Unset, WriterGone, One, TypeOK
  <2> QED
    BY <2>1, <2>2, <2>3 DEF ReaderGivesOnly
<1>3. CASE SetWrite
  <2>1. /\ SemTypeOK' /\ value'["semWrite"] = 0
        /\ adjust'["reader"]["semWrite"] <= 0
    BY <1>3, <1>t, SetValEffect DEF SetWrite, Sems, Procs, ReaderGivesOnly
  <2>2. TypeOK'
    BY <2>1, <1>3 DEF SetWrite, TypeOK, WriterAt
  <2>3. OneTurn' /\ Transit'
    BY <2>1, <2>2, <1>3, <1>t DEF SetWrite, OneTurn, Transit, Unset, WriterGone, One, TypeOK
  <2> QED
    BY <2>1, <2>2, <2>3 DEF ReaderGivesOnly
<1>4. CASE WriterWait
  <2>1. SemTypeOK'
    BY <1>4, <1>t, SemType DEF WriterWait, Sems, Procs
  <2>2. TypeOK'
    BY <2>1, <1>4 DEF WriterWait, TypeOK, WriterAt, ReaderAt
  <2>3. ReaderGivesOnly'
    BY <1>4, <1>t, OneAtATime DEF WriterWait, Sems, Procs, ReaderGivesOnly
  <2>4. value'["semWrite"] = value["semWrite"] - 1
    BY <1>4, <1>t, OneAtATime DEF WriterWait, Sems, Procs
  <2>5. OneTurn' /\ Transit'
    BY <2>4, <1>4, <1>t DEF WriterWait, OneTurn, Transit, Unset, WriterGone, One, TypeOK
  <2> QED
    BY <2>2, <2>3, <2>5
<1>5. CASE Put
  <2>1. pipe = <<>> /\ got = sent /\ sent < Messages
    BY <1>5, <1>t DEF Put, OneTurn, Transit, Unset, WriterGone, One
  <2>2. pipe' = <<sent'>> /\ sent' = sent + 1 /\ sent' \in 1 .. Messages
    BY <2>1, <1>5, <1>t DEF Put
  <2>3. pipe' \in Seq(1 .. Messages)
    BY <2>2
  <2>4. TypeOK'
    BY <2>2, <2>3, <1>5 DEF Put, TypeOK, SemTypeOK, semVars, WriterAt
  <2>5. OneTurn' /\ Transit'
    BY <2>1, <2>2, <1>5, <1>t DEF Put, OneTurn, Transit, Unset, WriterGone, One, semVars
  <2> QED
    BY <2>4, <2>5, <1>5 DEF Put, ReaderGivesOnly, semVars
<1>6. CASE WriterPost
  <2>1. SemTypeOK'
    BY <1>6, <1>t, SemType DEF WriterPost, Sems, Procs
  <2>2. TypeOK'
    BY <2>1, <1>6 DEF WriterPost, TypeOK, WriterAt, ReaderAt
  <2>3. ReaderGivesOnly'
    BY <1>6, <1>t, OneAtATime DEF WriterPost, Sems, Procs, ReaderGivesOnly
  <2>4. value'["semWrite"] = value["semWrite"]
    BY <1>6, <1>t, OneAtATime DEF WriterPost, Sems, Procs
  <2>5. OneTurn' /\ Transit'
    BY <2>4, <1>6, <1>t DEF WriterPost, OneTurn, Transit, Unset, WriterGone, One, TypeOK
  <2> QED
    BY <2>2, <2>3, <2>5
<1>7. CASE WriterLast
  <2>1. SemTypeOK'
    BY <1>7, <1>t, SemType DEF WriterLast, Sems, Procs
  <2>2. TypeOK'
    BY <2>1, <1>7 DEF WriterLast, TypeOK, WriterAt, ReaderAt
  <2>3. ReaderGivesOnly'
    BY <1>7, <1>t, OneAtATime DEF WriterLast, Sems, Procs, ReaderGivesOnly
  <2>4. value'["semWrite"] = value["semWrite"]
    BY <1>7, <1>t, OneAtATime DEF WriterLast, Sems, Procs
  <2>5. OneTurn' /\ Transit'
    BY <2>4, <1>7, <1>t DEF WriterLast, OneTurn, Transit, Unset, WriterGone, One, TypeOK
  <2> QED
    BY <2>2, <2>3, <2>5
<1>8. CASE ReaderStart
  <2>1. TypeOK'
    BY <1>8 DEF ReaderStart, TypeOK, SemTypeOK, semVars, WriterAt, ReaderAt
  <2>2. ReaderGivesOnly'
    BY <1>8 DEF ReaderStart, ReaderGivesOnly, semVars
  <2>3. OneTurn' /\ Transit'
    BY <1>8, <1>t DEF ReaderStart, OneTurn, Transit, Unset, WriterGone, WriterOpen, One, semVars
  <2> QED
    BY <2>1, <2>2, <2>3
<1>9. CASE ReaderOpens
  <2>1. TypeOK'
    BY <1>9 DEF ReaderOpens, TypeOK, SemTypeOK, semVars, WriterAt, ReaderAt
  <2>2. ReaderGivesOnly'
    BY <1>9 DEF ReaderOpens, ReaderGivesOnly, semVars
  <2>3. OneTurn' /\ Transit'
    BY <1>9, <1>t DEF ReaderOpens, OneTurn, Transit, Unset, WriterGone, WriterOpen, One, semVars
  <2> QED
    BY <2>1, <2>2, <2>3
<1>10. CASE ReaderGive
  <2>1. SemTypeOK'
    BY <1>10, <1>t, SemType DEF ReaderGive, Sems, Procs
  <2>2. TypeOK'
    BY <2>1, <1>10 DEF ReaderGive, TypeOK, WriterAt, ReaderAt
  <2>3. ReaderGivesOnly'
    BY <1>10, <1>t, UndoneDown DEF ReaderGive, Sems, Procs, ReaderGivesOnly
  <2>4. value'["semWrite"] = value["semWrite"] + 1
    BY <1>10, <1>t, OneAtATime DEF ReaderGive, Sems, Procs
  <2>5. OneTurn' /\ Transit'
    BY <2>4, <1>10, <1>t DEF ReaderGive, OneTurn, Transit, Unset, WriterGone, One, TypeOK
  <2> QED
    BY <2>2, <2>3, <2>5
<1>11. CASE ReaderWait
  <2>1. SemTypeOK'
    BY <1>11, <1>t, SemType DEF ReaderWait, Sems, Procs
  <2>2. TypeOK'
    BY <2>1, <1>11 DEF ReaderWait, TypeOK, WriterAt, ReaderAt
  <2>3. ReaderGivesOnly'
    BY <1>11, <1>t, OneAtATime DEF ReaderWait, Sems, Procs, ReaderGivesOnly
  <2>4. value'["semWrite"] = value["semWrite"]
    BY <1>11, <1>t, OneAtATime DEF ReaderWait, Sems, Procs
  <2>5. OneTurn' /\ Transit'
    BY <2>4, <1>11, <1>t DEF ReaderWait, OneTurn, Transit, Unset, WriterGone, One, TypeOK
  <2> QED
    BY <2>2, <2>3, <2>5
<1>12. CASE Get
  <2>1. CASE pipe # <<>>
    <3>1. pipe = <<sent>> /\ got = sent - 1 /\ sent \in 1 .. Messages
      BY <2>1, <1>t DEF Transit
    <3>2. got' = sent /\ pipe' = <<>> /\ reader' = "post"
      BY <2>1, <3>1, <1>12 DEF Get
    <3>3. TypeOK'
      BY <3>1, <3>2, <1>12 DEF Get, TypeOK, SemTypeOK, semVars, ReaderAt
    <3>4. OneTurn' /\ Transit'
      BY <3>1, <3>2, <1>12, <1>t DEF Get, OneTurn, Transit, Unset, WriterGone, One, semVars
    <3> QED
      BY <3>3, <3>4, <1>12 DEF Get, ReaderGivesOnly, semVars
  <2>2. CASE pipe = <<>>
    <3>1. reader' = "exit" /\ UNCHANGED <<got, pipe>>
      BY <2>2, <1>12 DEF Get
    <3>2. TypeOK'
      BY <3>1, <1>12 DEF Get, TypeOK, SemTypeOK, semVars, ReaderAt
    <3>3. OneTurn' /\ Transit'
      BY <3>1, <1>12, <1>t DEF Get, OneTurn, Transit, Unset, WriterGone, One, semVars
    <3> QED
      BY <3>2, <3>3, <1>12 DEF Get, ReaderGivesOnly, semVars
  <2> QED
    BY <2>1, <2>2
<1>13. CASE ReaderPost
  <2>1. SemTypeOK'
    BY <1>13, <1>t, SemType DEF ReaderPost, Sems, Procs
  <2>2. TypeOK'
    BY <2>1, <1>13 DEF ReaderPost, TypeOK, WriterAt, ReaderAt
  <2>3. ReaderGivesOnly'
    BY <1>13, <1>t, UndoneDown DEF ReaderPost, Sems, Procs, ReaderGivesOnly
  <2>4. value'["semWrite"] = value["semWrite"] + 1
    BY <1>13, <1>t, OneAtATime DEF ReaderPost, Sems, Procs
  <2>5. OneTurn' /\ Transit'
    BY <2>4, <1>13, <1>t DEF ReaderPost, OneTurn, Transit, Unset, WriterGone, One, TypeOK
  <2> QED
    BY <2>2, <2>3, <2>5
<1>14. ASSUME NEW how \in {"exited", "killed"}, WriterLeaves(how),
             how = "exited" => writer = "exit"
      PROVE  Inv'
  <2>1. SemTypeOK' /\ adjust'["reader"] = adjust["reader"]
    BY <1>14, <1>t, SemType DEF WriterLeaves, Leave, Sems, Procs, SemTypeOK
  <2>2. TypeOK'
    <3>1. pipe' \in Seq(1 .. Messages)
      BY <1>p, <1>14 DEF WriterLeaves
    <3>2. writer' \in WriterAt /\ UNCHANGED <<reader, exists, sent, got>>
      BY <1>14 DEF WriterLeaves, WriterAt
    <3> QED
      BY <2>1, <3>1, <3>2 DEF TypeOK
  <2>3. OneTurn' /\ Transit'
    BY <1>14, <1>t DEF WriterLeaves, OneTurn, Transit, Unset, WriterGone
  <2> QED
    BY <2>1, <2>2, <2>3 DEF ReaderGivesOnly
<1>15. ASSUME NEW how \in {"exited", "killed"}, ReaderLeaves(how)
      PROVE  Inv'
  <2>1. /\ SemTypeOK' /\ value'["semWrite"] <= value["semWrite"]
        /\ value'["semWrite"] \in Nat
        /\ adjust'["reader"]["semWrite"] = 0
    <3>1. SemTypeOK'
      BY <1>15, <1>t, SemType DEF ReaderLeaves, Sems, Procs
    <3> QED
      BY <3>1, <1>15, <1>t, LeaveEffect DEF ReaderLeaves, Sems, Procs, ReaderGivesOnly, SemTypeOK
  <2>2. pipe' = pipe \/ pipe' = <<>>
    BY <1>15 DEF ReaderLeaves
  <2>3. TypeOK'
    <3>1. pipe' \in Seq(1 .. Messages)
      BY <1>p, <2>2
    <3>2. reader' \in ReaderAt /\ UNCHANGED <<writer, exists, sent, got>>
      BY <1>15 DEF ReaderLeaves, ReaderAt
    <3> QED
      BY <2>1, <3>1, <3>2 DEF TypeOK
  <2>4. OneTurn'
    <3>1. /\ reader' \notin {"start", "open", "give", "post"}
          /\ UNCHANGED <<writer, sent, got>>
      BY <1>15 DEF ReaderLeaves
    <3>2. /\ One(reader' \in {"start", "open", "give"}) = 0
          /\ One(reader' = "post") = 0
          /\ One(reader \in {"start", "open", "give"}) \in Nat
          /\ One(reader = "post") \in Nat
      BY <3>1 DEF One
    <3>3. One(writer = "put") \in Nat /\ One(writer' = "put") = One(writer = "put")
      BY <3>1 DEF One
    <3>4. Unset' = Unset /\ WriterGone' = WriterGone
      BY <3>1 DEF Unset, WriterGone
    <3> QED
      BY <2>1, <3>1, <3>2, <3>3, <3>4, <1>t DEF OneTurn
  <2>5. Transit'
    BY <2>2, <1>15, <1>t DEF ReaderLeaves, Transit, Unset
  <2> QED
    BY <2>1, <2>3, <2>4, <2>5 DEF ReaderGivesOnly
<1>16. CASE UNCHANGED vars
  BY <1>16 DEF vars, semVars, TypeOK, SemTypeOK, OneTurn, Transit, Unset, WriterGone,
             ReaderGivesOnly
<1> QED
  BY <1>1, <1>2, <1>3, <1>4, <1>5, <1>6, <1>7, <1>8, <1>9, <1>10, <1>11, <1>12, <1>13, <1>14, <1>15, <1>16
  DEF Next, Writer, Reader, Kill, WriterExit, ReaderExit

LEMMA InvHolds == Spec => []Inv
<1> QED
  BY InvInit, InvStep, PTL DEF Spec

\* Every variable of 3.8 keeps its type: no more numbers than asked for are
\* written, and no semaphore goes below 0.
THEOREM TypeCorrect == Spec => []TypeOK
<1>1. Inv => TypeOK
  BY DEF Inv
<1> QED
  BY <1>1, InvHolds, PTL

\* A writer that came to its end has handed over all numbers but the last.
THEOREM HandsOverAllButLast == Spec => []AllButLast
<1>1. Inv => AllButLast
  BY Typed DEF Inv, Transit, AllButLast
<1> QED
  BY <1>1, InvHolds, PTL

\* The writer, the reader and their two semaphores implement the handoff of
\* one number at a time: each step sends, receives, loses or does nothing.
THEOREM FifoImplementsHandoff == Spec => ImplementsHandoff
<1>1. Init => Pair!Init
  BY DEF Init, Pair!Init
<1>2. ASSUME Inv, [Next]_vars
      PROVE  [Pair!Next]_<<pipe, sent, got>>
  <2>1. CASE Put
    <3>1. pipe = <<>>
      BY <1>2, <2>1, Typed DEF Inv, Put, OneTurn, Transit, Unset, WriterGone, One
    <3>2. Len(pipe) < 1
      BY <3>1
    <3>3. Pair!Send
      BY <2>1, <3>2 DEF Put, Pair!Send
    <3> QED
      BY <3>3 DEF Pair!Next
  <2>2. CASE Get
    <3>1. Pair!Receive \/ UNCHANGED <<pipe, sent, got>>
      BY <2>2 DEF Get, Pair!Receive
    <3> QED
      BY <3>1 DEF Pair!Next
  <2>3. ASSUME NEW how \in {"exited", "killed"}, WriterLeaves(how) \/ ReaderLeaves(how)
        PROVE  [Pair!Next]_<<pipe, sent, got>>
    <3>1. Pair!Lose \/ UNCHANGED <<pipe, sent, got>>
      BY <2>3 DEF WriterLeaves, ReaderLeaves, Pair!Lose
    <3> QED
      BY <3>1 DEF Pair!Next
  <2>4. CASE UNCHANGED <<pipe, sent, got>>
    BY <2>4
  <2> QED
    BY <1>2, <2>1, <2>2, <2>3, <2>4
    DEF Next, Writer, Reader, Kill, WriterStart, SetRead, SetWrite, WriterWait,
        WriterPost, WriterLast, WriterExit, ReaderStart, ReaderOpens, ReaderGive,
        ReaderWait, ReaderPost, ReaderExit, vars
<1> QED
  BY <1>1, <1>2, InvHolds, PTL DEF Spec, ImplementsHandoff, Pair!Spec
=============================================================================
