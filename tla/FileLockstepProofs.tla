------------------------- MODULE FileLockstepProofs -------------------------
(***************************************************************************)
(* Proofs about FileLockstep, for any number of numbers, any number of     *)
(* runs, and both programs (Undo true or false).                           *)
(*                                                                         *)
(* The argument counts permits.  While both processes run, what a          *)
(* semaphore holds is what it held at the beginning, plus the V's, minus   *)
(* the P's of this run, and the places and counters of the two processes   *)
(* say how many those were.  A semaphore is never negative, which bounds   *)
(* the lead of either process.  What the exit of the child undoes no       *)
(* longer matters: the child has then read all numbers.                    *)
(***************************************************************************)
EXTENDS FileLockstep, SequenceTheorems, TLAPS

-----------------------------------------------------------------------------
(* The semaphores. *)

\* The kernel's bookkeeping keeps its type, whatever is done.
LEMMA SemType ==
  ASSUME SemTypeOK, NEW p \in Procs, NEW s \in Sems,
         P(p, s) \/ V(p, s) \/ Leave(p)
  PROVE  SemTypeOK'
<1>1. CASE P(p, s)
  <2>1. value' \in [Sems -> Nat]
    BY <1>1 DEF P, SemTypeOK
  <2>2. adjust' \in [Procs -> [Sems -> Int]]
    BY <1>1 DEF P, Adjusted, SemTypeOK
  <2> QED
    BY <2>1, <2>2 DEF SemTypeOK
<1>2. CASE V(p, s)
  <2>1. value' \in [Sems -> Nat]
    BY <1>2 DEF V, SemTypeOK
  <2>2. adjust' \in [Procs -> [Sems -> Int]]
    BY <1>2 DEF V, Adjusted, SemTypeOK
  <2> QED
    BY <2>1, <2>2 DEF SemTypeOK
<1>3. CASE Leave(p)
  <2>1. value' \in [Sems -> Nat]
    BY <1>3 DEF Leave, SemTypeOK
  <2>2. adjust' \in [Procs -> [Sems -> Int]]
    BY <1>3 DEF Leave, SemTypeOK, NoAdjust
  <2> QED
    BY <2>1, <2>2 DEF SemTypeOK
<1> QED
  BY <1>1, <1>2, <1>3

-----------------------------------------------------------------------------
(* The invariant. *)

\* The counters, as far as the places of the processes fix them.
Places ==
  /\ parent \in {"wait", "put"} => sent < Numbers
  /\ parent = "open" => sent = 0
  /\ parent = "post" => sent > 0
  /\ child \in {"wait", "get"} => rounds < Numbers
  /\ child = "post" => rounds > 0
  /\ child = "exit" => rounds = Numbers
  /\ child \in {"open", "give"} => rounds = 0
  /\ child # "done" => parent # "done"

One(b) == IF b THEN 1 ELSE 0

\* The permits: V's and P's of this run on either semaphore.
GivenWrite == One(child \notin {"open", "give"}) + rounds - One(child = "post")
TakenWrite == sent + One(parent = "put")
GivenRead  == sent - One(parent = "post")
TakenRead  == rounds + One(child = "get")

Permits ==
  child # "done" =>
    /\ value["semWrite"] = left["semWrite"] + GivenWrite - TakenWrite
    /\ value["semRead"] = left["semRead"] + GivenRead - TakenRead

\* The child ends when it has read all numbers.
ChildIsThrough ==
  parent # "done" /\ child = "done"
    => rounds = Numbers /\ rounds <= sent + left["semRead"]

Inv == TypeOK /\ Places /\ Permits /\ ChildIsThrough

-----------------------------------------------------------------------------

LEMMA InvInit == Init => Inv
<1> SUFFICES ASSUME Init PROVE Inv
  OBVIOUS
<1> USE FileAssumption DEF Init
<1>1. SemTypeOK
  BY DEF SemInit, SemTypeOK, NoAdjust
<1>2. file \in Seq(Record) /\ shown \in Record /\ left \in [Sems -> Nat]
  BY DEF Record
<1>3. TypeOK
  <2>1. sent \in 0 .. Numbers /\ rounds \in 0 .. Numbers /\ runs \in 0 .. MaxRuns
    OBVIOUS
  <2> QED
    BY <1>1, <1>2, <2>1 DEF TypeOK
<1>4. Places /\ Permits /\ ChildIsThrough
  BY DEF Places, Permits, ChildIsThrough
<1> QED
  BY <1>3, <1>4 DEF Inv

LEMMA InvStep == Inv /\ [Next]_vars => Inv'
<1> SUFFICES ASSUME Inv, [Next]_vars PROVE Inv'
  OBVIOUS
<1> USE FileAssumption DEF Inv
<1>t. /\ SemTypeOK /\ value["semWrite"] \in Nat /\ value["semRead"] \in Nat
      /\ left["semWrite"] \in Nat /\ left["semRead"] \in Nat
  BY DEF TypeOK, SemTypeOK, Sems
<1>1. CASE Begin
  <2>1. SemTypeOK'
    BY <1>1, <1>t DEF Begin, SemTypeOK, NoAdjust
  <2>2. TypeOK'
    <3>1. shown' \in Record /\ file' \in Seq(Record)
      BY <1>1 DEF Begin, TypeOK, Record
    <3>2. sent' \in 0 .. Numbers /\ rounds' \in 0 .. Numbers
          /\ runs' \in 0 .. MaxRuns /\ offset' \in Nat
      BY <1>1 DEF Begin, TypeOK
    <3>3. left' \in [Sems -> Nat]
      BY <2>1, <1>1 DEF Begin, SemTypeOK
    <3>4. stale' \in BOOLEAN /\ exists' \in BOOLEAN /\ canRead' \in BOOLEAN
      BY <1>1 DEF Begin, TypeOK
    <3> QED
      BY <2>1, <3>1, <3>2, <3>3, <3>4, <1>1 DEF Begin, TypeOK
  <2>3. Permits'
    BY <2>1, <1>1 DEF Begin, Permits, GivenWrite, TakenWrite, GivenRead,
                      TakenRead, One, SemTypeOK, Sems
  <2> QED
    BY <2>2, <2>3, <1>1 DEF Begin, Places, ChildIsThrough
<1>2. CASE ParentOpens
  <2>1. TypeOK'
    BY <1>2 DEF ParentOpens, TypeOK, SemTypeOK, semVars, childVars, runVars
  <2>2. Permits'
    BY <1>2 DEF ParentOpens, Permits, GivenWrite, TakenWrite, GivenRead,
                TakenRead, One, semVars, childVars, runVars
  <2> QED
    BY <2>1, <2>2, <1>2
    DEF ParentOpens, Places, ChildIsThrough, childVars, runVars
<1>3. CASE ParentWaits
  <2>1. SemTypeOK'
    BY <1>3, <1>t, SemType DEF ParentWaits, Sems, Procs
  <2>2. TypeOK'
    BY <2>1, <1>3 DEF ParentWaits, TypeOK, childVars, runVars
  <2>3. /\ value'["semWrite"] = value["semWrite"] - 1
        /\ value'["semRead"] = value["semRead"]
    BY <1>3, <1>t DEF ParentWaits, P, SemTypeOK, Sems
  <2>4. Permits'
    BY <2>3, <1>3, <1>t DEF ParentWaits, TypeOK, Permits, GivenWrite, TakenWrite,
                GivenRead, TakenRead, One, childVars, runVars
  <2> QED
    BY <2>2, <2>4, <1>3
    DEF ParentWaits, Places, ChildIsThrough, childVars, runVars
<1>4. CASE ParentPuts
  <2>1. sent' \in 0 .. Numbers /\ sent' = sent + 1
    BY <1>4 DEF ParentPuts, TypeOK, Places
  <2>2. file' \in Seq(Record)
    <3>1. <<runs, sent'>> \in Record
      BY <2>1 DEF Record, TypeOK
    <3> QED
      BY <3>1, <1>4, AppendProperties DEF ParentPuts, TypeOK
  <2>3. TypeOK'
    BY <2>1, <2>2, <1>4
    DEF ParentPuts, TypeOK, SemTypeOK, semVars, childVars, runVars
  <2>4. Permits'
    BY <2>1, <1>4, <1>t DEF ParentPuts, TypeOK, Permits, GivenWrite, TakenWrite,
                GivenRead, TakenRead, One, semVars, childVars, runVars
  <2>5. Places'
    BY <2>1, <1>4 DEF ParentPuts, Places, TypeOK, childVars
  <2>6. ChildIsThrough'
    BY <2>1, <1>4, <1>t DEF ParentPuts, ChildIsThrough, TypeOK, childVars, runVars
  <2> QED
    BY <2>3, <2>4, <2>5, <2>6
<1>5. CASE ParentPosts
  <2>1. SemTypeOK'
    BY <1>5, <1>t, SemType DEF ParentPosts, Sems, Procs
  <2>2. TypeOK'
    BY <2>1, <1>5 DEF ParentPosts, TypeOK, childVars, runVars
  <2>3. /\ value'["semWrite"] = value["semWrite"]
        /\ value'["semRead"] = value["semRead"] + 1
    BY <1>5, <1>t DEF ParentPosts, V, SemTypeOK, Sems
  <2>4. Permits'
    BY <2>3, <1>5, <1>t DEF ParentPosts, TypeOK, Permits, GivenWrite, TakenWrite,
                GivenRead, TakenRead, One, childVars, runVars
  <2> QED
    BY <2>2, <2>4, <1>5
    DEF ParentPosts, Places, ChildIsThrough, childVars, runVars
<1>6. CASE ParentReaps
  <2>1. SemTypeOK'
    BY <1>6, <1>t, SemType DEF ParentReaps, Sems, Procs
  <2>2. file' \in Seq(Record)
    BY <1>6 DEF ParentReaps
  <2>3. TypeOK'
    BY <2>1, <2>2, <1>6 DEF ParentReaps, TypeOK, childVars, runVars
  <2> QED
    BY <2>3, <1>6 DEF ParentReaps, Places, Permits, ChildIsThrough, childVars
<1>7. CASE ChildOpens
  <2>1. TypeOK'
    BY <1>7 DEF ChildOpens, TypeOK, SemTypeOK, semVars, parentVars, runVars
  <2>2. Permits'
    BY <1>7 DEF ChildOpens, Permits, GivenWrite, TakenWrite, GivenRead,
                TakenRead, One, semVars, parentVars, runVars
  <2> QED
    BY <2>1, <2>2, <1>7
    DEF ChildOpens, Places, ChildIsThrough, parentVars, runVars
<1>8. CASE ChildGives
  <2>1. SemTypeOK'
    BY <1>8, <1>t, SemType DEF ChildGives, Sems, Procs
  <2>2. TypeOK'
    BY <2>1, <1>8 DEF ChildGives, TypeOK, parentVars, runVars
  <2>3. /\ value'["semWrite"] = value["semWrite"] + 1
        /\ value'["semRead"] = value["semRead"]
    BY <1>8, <1>t DEF ChildGives, V, SemTypeOK, Sems
  <2>4. Permits'
    BY <2>3, <1>8, <1>t DEF ChildGives, TypeOK, Permits, GivenWrite, TakenWrite,
                GivenRead, TakenRead, One, parentVars, runVars
  <2> QED
    BY <2>2, <2>4, <1>8
    DEF ChildGives, Places, ChildIsThrough, parentVars, runVars, TypeOK
<1>9. CASE ChildWaits
  <2>1. SemTypeOK'
    BY <1>9, <1>t, SemType DEF ChildWaits, Sems, Procs
  <2>2. TypeOK'
    BY <2>1, <1>9 DEF ChildWaits, TypeOK, parentVars, runVars
  <2>3. /\ value'["semWrite"] = value["semWrite"]
        /\ value'["semRead"] = value["semRead"] - 1
    BY <1>9, <1>t DEF ChildWaits, P, SemTypeOK, Sems
  <2>4. Permits'
    BY <2>3, <1>9, <1>t DEF ChildWaits, TypeOK, Permits, GivenWrite, TakenWrite,
                GivenRead, TakenRead, One, parentVars, runVars
  <2> QED
    BY <2>2, <2>4, <1>9
    DEF ChildWaits, Places, ChildIsThrough, parentVars, runVars
<1>10. CASE ChildGets
  <2>1. rounds' \in 0 .. Numbers /\ rounds' = rounds + 1
    BY <1>10 DEF ChildGets, TypeOK, Places
  <2>2. shown' \in Record /\ offset' \in Nat
    <3>1. CASE canRead /\ offset < Len(file)
      <4>1. offset + 1 \in 1 .. Len(file)
        BY <3>1, LenProperties DEF TypeOK
      <4>2. file[offset + 1] \in Record
        BY <4>1, ElementOfSeq DEF TypeOK
      <4> QED
        BY <3>1, <4>2, <1>10 DEF ChildGets, TypeOK
    <3>2. CASE ~(canRead /\ offset < Len(file))
      BY <3>2, <1>10 DEF ChildGets, TypeOK
    <3> QED
      BY <3>1, <3>2
  <2>3. TypeOK'
    BY <2>1, <2>2, <1>10
    DEF ChildGets, TypeOK, SemTypeOK, semVars, parentVars, runVars
  <2>4. Permits'
    BY <2>1, <1>10, <1>t DEF ChildGets, TypeOK, Permits, GivenWrite, TakenWrite,
                GivenRead, TakenRead, One, semVars, parentVars, runVars
  <2>5. Places' /\ ChildIsThrough'
    BY <2>1, <1>10
    DEF ChildGets, Places, ChildIsThrough, TypeOK, parentVars, runVars
  <2> QED
    BY <2>3, <2>4, <2>5
<1>11. CASE ChildPosts
  <2>1. SemTypeOK'
    BY <1>11, <1>t, SemType DEF ChildPosts, Sems, Procs
  <2>2. TypeOK'
    BY <2>1, <1>11 DEF ChildPosts, TypeOK, parentVars, runVars
  <2>3. /\ value'["semWrite"] = value["semWrite"] + 1
        /\ value'["semRead"] = value["semRead"]
    BY <1>11, <1>t DEF ChildPosts, V, SemTypeOK, Sems
  <2>4. Permits'
    BY <2>3, <1>11, <1>t DEF ChildPosts, TypeOK, Permits, GivenWrite, TakenWrite,
                GivenRead, TakenRead, One, parentVars, runVars
  <2> QED
    BY <2>2, <2>4, <1>11
    DEF ChildPosts, Places, ChildIsThrough, parentVars, runVars, TypeOK
<1>12. CASE ChildExits
  <2>1. SemTypeOK'
    BY <1>12, <1>t, SemType DEF ChildExits, Sems, Procs
  <2>2. TypeOK'
    BY <2>1, <1>12 DEF ChildExits, TypeOK, parentVars, runVars
  <2>3. rounds <= sent + left["semRead"]
    BY <1>12, <1>t DEF ChildExits, TypeOK, Permits, GivenRead, TakenRead, One
  <2> QED
    BY <2>2, <2>3, <1>12
    DEF ChildExits, Places, Permits, ChildIsThrough, parentVars, runVars
<1>13. CASE Interrupt
  <2>1. SemTypeOK'
    BY <1>13, <1>t DEF Interrupt, SemTypeOK, NoAdjust
  <2>2. TypeOK'
    BY <2>1, <1>13 DEF Interrupt, TypeOK, runVars
  <2> QED
    BY <2>2, <1>13 DEF Interrupt, Places, Permits, ChildIsThrough
<1>14. CASE UNCHANGED vars
  BY <1>14 DEF vars, semVars, TypeOK, SemTypeOK, Places, Permits, ChildIsThrough,
               GivenWrite, TakenWrite, GivenRead, TakenRead
<1> QED
  BY <1>1, <1>2, <1>3, <1>4, <1>5, <1>6, <1>7, <1>8, <1>9, <1>10, <1>11, <1>12,
     <1>13, <1>14
  DEF Next, Parent, Child

LEMMA InvHolds == Spec => []Inv
<1> QED
  BY InvInit, InvStep, PTL DEF Spec

\* Every variable of 3.9 and 3.11 keeps its type: neither process counts past
\* the argument of the program, and no semaphore goes below 0.
THEOREM TypeCorrect == Spec => []TypeOK
<1>1. Inv => TypeOK
  BY DEF Inv
<1> QED
  BY <1>1, InvHolds, PTL

\* The parent is never more than one number ahead of the child, nor the child
\* ahead of the parent, but for what the semaphores held at the beginning.
THEOREM KeepsInStep == Spec => []InStep
<1>1. Inv => InStep
  <2> SUFFICES ASSUME Inv, child # "done" \/ parent # "done"
               PROVE  /\ sent <= rounds + 1 + left["semWrite"]
                      /\ rounds <= sent + left["semRead"]
    BY DEF InStep
  <2>1. /\ value["semWrite"] \in Nat /\ value["semRead"] \in Nat
        /\ left["semWrite"] \in Nat /\ left["semRead"] \in Nat
        /\ sent \in 0 .. Numbers /\ rounds \in 0 .. Numbers /\ Numbers \in Nat
    BY FileAssumption DEF Inv, TypeOK, SemTypeOK, Sems
  <2>2. CASE child # "done"
    BY <2>1, <2>2
    DEF Inv, Permits, GivenWrite, TakenWrite, GivenRead, TakenRead, One
  <2>3. CASE child = "done"
    BY <2>1, <2>3 DEF Inv, ChildIsThrough
  <2> QED
    BY <2>2, <2>3
<1> QED
  BY <1>1, InvHolds, PTL

-----------------------------------------------------------------------------
(* What the child prints. *)

\* In a run that found no file, the file is the numbers of this run.
FileIsOurs ==
  /\ ~exists => file = <<>>
  /\ parent \notin {"open", "done"} => exists
  /\ parent # "done" /\ ~stale =>
       /\ Len(file) = sent
       /\ \A k \in 1 .. sent : file[k] = <<runs, k>>

\* The child reads one record in each round.
ReadsEach ==
  /\ child = "open" => offset = 0 /\ ~canRead
  /\ canRead /\ ~stale /\ left["semRead"] = 0 =>
       /\ offset = rounds
       /\ rounds > 0 => shown = <<runs, rounds>>

FileInv == Inv /\ FileIsOurs /\ ReadsEach

LEMMA FileInvInit == Init => FileInv
<1> SUFFICES ASSUME Init PROVE FileInv
  OBVIOUS
<1>1. FileIsOurs /\ ReadsEach
  BY DEF Init, FileIsOurs, ReadsEach
<1> QED
  BY <1>1, InvInit DEF FileInv

LEMMA FileInvStep == FileInv /\ [Next]_vars => FileInv'
<1> SUFFICES ASSUME FileInv, [Next]_vars PROVE FileIsOurs' /\ ReadsEach'
  BY InvStep DEF FileInv
<1> USE DEF FileInv
<1>t. /\ file \in Seq(Record) /\ Len(file) \in Nat
      /\ sent \in 0 .. Numbers /\ rounds \in 0 .. Numbers /\ Numbers \in Nat
      /\ value["semRead"] \in Nat /\ left["semRead"] \in Nat
  BY FileAssumption, LenProperties DEF Inv, TypeOK, SemTypeOK, Sems
<1>1. CASE Begin
  BY <1>1 DEF Begin, FileIsOurs, ReadsEach
<1>2. CASE ParentOpens \/ ParentWaits \/ ParentPosts
  BY <1>2 DEF ParentOpens, ParentWaits, ParentPosts, FileIsOurs, ReadsEach,
              childVars, runVars
<1>3. CASE ParentPuts
  <2>1. /\ exists' /\ sent' = sent + 1 /\ file' = Append(file, <<runs, sent + 1>>)
        /\ UNCHANGED <<runs, stale>> /\ parent # "done" /\ parent' = "post"
    BY <1>3 DEF ParentPuts, FileIsOurs, childVars, runVars
  <2>2. Len(file') = Len(file) + 1 /\ file'[Len(file) + 1] = <<runs, sent + 1>>
        /\ \A k \in 1 .. Len(file) : file'[k] = file[k]
    <3>1. <<runs, sent + 1>> \in Nat \X Nat
      BY <1>t, FileAssumption DEF Inv, TypeOK
    <3>2. file \in Seq(Nat \X Nat)
      BY <1>t, FileAssumption DEF Record
    <3> QED
      BY <2>1, <3>1, <3>2, AppendProperties
  <2>3. FileIsOurs'
    BY <2>1, <2>2, <1>t DEF FileIsOurs
  <2> QED
    BY <2>3, <1>3 DEF ParentPuts, ReadsEach, childVars, runVars
<1>4. CASE ParentReaps
  BY <1>4 DEF ParentReaps, FileIsOurs, ReadsEach, childVars, runVars
<1>5. CASE ChildOpens
  BY <1>5 DEF ChildOpens, FileIsOurs, ReadsEach, Inv, Places, semVars, parentVars,
              runVars
<1>6. CASE ChildGives \/ ChildWaits \/ ChildPosts \/ ChildExits
  BY <1>6 DEF ChildGives, ChildWaits, ChildPosts, ChildExits, FileIsOurs,
              ReadsEach, parentVars, runVars
<1>7. CASE ChildGets
  <2>1. FileIsOurs'
    BY <1>7 DEF ChildGets, FileIsOurs, parentVars, runVars
  <2>2. ASSUME canRead, ~stale, left["semRead"] = 0
        PROVE  /\ offset' = rounds + 1 /\ shown' = <<runs, rounds + 1>>
    <3>1. rounds + 1 <= sent
      BY <1>7, <1>t, <2>2
      DEF ChildGets, Inv, Permits, GivenRead, TakenRead, One
    <3>2. /\ offset = rounds /\ Len(file) = sent
          /\ \A k \in 1 .. sent : file[k] = <<runs, k>>
      BY <1>7, <2>2 DEF ChildGets, FileIsOurs, ReadsEach, Inv, Places
    <3>3. rounds + 1 \in 1 .. sent /\ canRead /\ offset < Len(file)
      BY <1>t, <2>2, <3>1, <3>2
    <3>4. shown' = file[offset + 1] /\ offset' = offset + 1
      BY <1>7, <3>3 DEF ChildGets
    <3> QED
      BY <3>2, <3>3, <3>4
  <2>3. ReadsEach'
    BY <1>7, <2>2 DEF ChildGets, ReadsEach, parentVars, runVars
  <2> QED
    BY <2>1, <2>3
<1>8. CASE Interrupt
  BY <1>8 DEF Interrupt, FileIsOurs, ReadsEach, runVars
<1>9. CASE UNCHANGED vars
  BY <1>9 DEF vars, FileIsOurs, ReadsEach
<1> QED
  BY <1>1, <1>2, <1>3, <1>4, <1>5, <1>6, <1>7, <1>8, <1>9 DEF Next, Parent, Child

\* Unless the child opened the file too early, or an earlier run left the file
\* or a permit to read behind, it prints in every round the number of that
\* round.
THEOREM PrintsWhatWasSent == Spec => []GetsWhatWasSent
<1>1. FileInv => GetsWhatWasSent
  BY DEF FileInv, ReadsEach, GetsWhatWasSent
<1> QED
  BY <1>1, FileInvInit, FileInvStep, PTL DEF Spec
=============================================================================
